------------------------------- MODULE Relayed -------------------------------
(***************************************************************************)
(* What the fallback loop promises the caller of one relayed request:      *)
(* channels are tried one after another, none of them twice and no more    *)
(* than MaxTries, another one only after an error that may be retried; and *)
(* the caller gets one answer, the outcome of the last channel tried.      *)
(***************************************************************************)
EXTENDS Naturals, FiniteSets

CONSTANTS
  Request, Channel,
  Outcome, Retryable,   \* what a channel may answer; "ok" is one of the outcomes
  MaxTries,
  NoOutcome             \* nothing tried yet, or nothing answered yet

VARIABLES
  tried,    \* the channels that have had the request
  last,     \* the outcome of the last of them
  answer    \* what the caller has been told

vars == <<tried, last, answer>>

Init ==
  /\ tried = [r \in Request |-> {}]
  /\ last = [r \in Request |-> NoOutcome]
  /\ answer = [r \in Request |-> NoOutcome]

Try(r, c, o) ==
  /\ answer[r] = NoOutcome
  /\ c \notin tried[r] /\ Cardinality(tried[r]) < MaxTries
  /\ tried[r] # {} => last[r] \in Retryable
  /\ tried' = [tried EXCEPT ![r] = @ \cup {c}]
  /\ last' = [last EXCEPT ![r] = o]
  /\ answer' = IF o = "ok" THEN [answer EXCEPT ![r] = o] ELSE answer

\* Without any channel the answer is an error of the distributor's own.
GiveUp(r) ==
  /\ answer[r] = NoOutcome
  /\ \/ tried[r] # {} /\ answer' = [answer EXCEPT ![r] = last[r]]
     \/ tried[r] = {} /\ answer' = [answer EXCEPT ![r] = "noChannel"]
  /\ UNCHANGED <<tried, last>>

Next == \E r \in Request :
  GiveUp(r) \/ \E c \in Channel, o \in Outcome : Try(r, c, o)

Spec == Init /\ [][Next]_vars
=============================================================================

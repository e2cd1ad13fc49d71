---------------------------- MODULE SlidingWindow ----------------------------
(***************************************************************************)
(* What a rate limiter promises: a client's request is answered "ok" just  *)
(* when fewer than maxRequestNum of its requests were in the last          *)
(* `duration` seconds, looking at everything it was ever allowed.          *)
(***************************************************************************)
EXTENDS Integers, Sequences

CONSTANTS Client, MaxRequestNum, Duration
VARIABLES clock, admitted, verdict

\* The maxRequestNum-th latest request, if there are that many, is old enough.
Allowed(k) ==
  LET s == admitted[k] IN
  Len(s) >= MaxRequestNum => clock - s[Len(s) - MaxRequestNum + 1] >= Duration

Init ==
  /\ clock = 0
  /\ admitted = [k \in Client |-> <<>>]
  /\ verdict = [k \in Client |-> "none"]

Admit(k) ==
  /\ Allowed(k)
  /\ admitted' = [admitted EXCEPT ![k] = Append(@, clock)]
  /\ verdict' = [verdict EXCEPT ![k] = "ok"]
  /\ UNCHANGED clock

Refuse(k) ==
  /\ ~Allowed(k)
  /\ verdict' = [verdict EXCEPT ![k] = "429"]
  /\ UNCHANGED <<clock, admitted>>

Tick == clock' = clock + 1 /\ UNCHANGED <<admitted, verdict>>

Next == Tick \/ \E k \in Client : Admit(k) \/ Refuse(k)

Spec == Init /\ [][Next]_<<clock, admitted, verdict>>
=============================================================================

----------------------- MODULE RelayFallbackProperties -----------------------
(***************************************************************************)
(* What should be true of the fallback loop.                               *)
(***************************************************************************)
EXTENDS RelayFallback

tried == [r \in Request |-> req[r].used]
last == [r \in Request |-> req[r].last]

R == INSTANCE Relayed WITH MaxTries <- IF RetryTimes > 0 THEN 1 + RetryTimes ELSE 1

\* Whatever the other requests, the cache and the cooldowns do: no channel has a
\* request twice, no more channels than configured have it, none after an error
\* that must not be retried, and the client gets one answer, the last outcome (Relay).
ImplementsRelayed == R!Spec

\* A channel set aside as a first choice never serves as a fallback, and nothing
\* falls back from it (CachePickFallbackChannel, ShouldFallback).
OnlyConsenting ==
  \A r \in Request :
    LET others == req[r].used \ {req[r].first} IN
    req[r].first # NoChannel /\ others # {} => others \cup {req[r].first} \subseteq FallbackEnabled

GivesUp(r) ==
  /\ req[r].pc = "done" /\ req[r].last \in Retryable
  /\ req[r].used = {req[r].first} => ShouldFallback(req[r].first, Classify(req[r].last))
  /\ Cardinality(req[r].used) <= RetryTimes /\ now <= req[r].deadline

\* A request is not given up, with tries and time left, while a healthy channel of
\* its group or its backup group is untried, whatever the cooldown store and the
\* channel cache went through (Relay, CachePickFallbackChannel, InitChannelCache).
HealthyFound ==
  \A r \in Request : GivesUp(r) =>
    \A c \in FallbackEnabled \ (failed \cup req[r].used) :
      Serves[c] \cap ({GroupOf[r], BackupOf[r]} \X {ModelOf[r]}) = {}

\* An affinity entry names a channel whose last try as a first choice for the key
\* went well, and does not outlive its TTL, whatever requests with the same key do
\* meanwhile (recordAffinity, clearAffinity, affinity.Get).
AffinityEarned ==
  \A k \in Key : affinity[k] # NoEntry =>
    /\ <<k, affinity[k].ch>> \in earned
    /\ affinity[k].exp <= now + AffinityTTL

\* Every request that arrives is answered (the loop ends, whatever the others do).
AllAnswered == \A r \in Request : req[r].pc # "idle" ~> answer[r] # NoOutcome

-----------------------------------------------------------------------------
\* README.md: on a 429 with Retry-After the channel is shielded until it expires.
ShieldedUntilRetryAfter ==
  \A c \in Channel, m \in Model : now < promised[<<c, m>>] => Cooling(c, m)
=============================================================================

-------------------------- MODULE ChannelsProperties --------------------------
(***************************************************************************)
(* What the two tables, the cache and the jobs owe each other.             *)
(***************************************************************************)
EXTENDS Channels

CONSTANT Priority    \* abilities.priority, of the channel

\* GetRandomSatisfiedChannel without the memory cache: the enabled abilities of
\* the highest priority, one of them at random, then its channel.
Pick(g, m) ==
  LET able == {c \in Channel : <<g, m>> \in ability[c].on} IN
  {c \in able : \A d \in able : Priority[c] >= Priority[d]}

\* A request is only given a channel that exists, is enabled and serves its group and
\* model, and every such channel can be picked: unless the channel is being written,
\* its last writes overlapped, failed or were cut short by a crash, or the test loop
\* enabled it after it was deleted with the disabled ones.  One update that runs alone
\* makes it true again; deleting disabled channels by itself keeps it.
AbilitiesAgree ==
  \A c \in Channel \ clash :
    (\A h \in Job : c \notin job[h].on) =>
      /\ ability[c].on = {t \in Pairs(row[c]) : row[c].status = "enabled"}
      /\ Exists(c) => Keys(c) = Pairs(row[c])
      /\ \A g \in Group, m \in Model : c \in Pick(g, m) => <<c, g, m>> \in Serving(row)

\* InitChannelCache writes to a nil map only when a channel was being written, or had
\* been left torn, while it read: two whole tables never kill the process.
PanicsOnlyTorn == "panic" \notin blame

\* The flag of the test loop is up exactly while one loop runs, or since a list of
\* channels could not be read; and two loops never run together.
FlagIsTheLoop ==
  LET loops == {h \in Job : job[h].op = "test"} IN
  /\ testing = (loops # {} \/ "flag" \in blame)
  /\ Cardinality(loops) <= 1

\* Syncing again adds no second channel for a provider, unless two syncs overlap or
\* two providers have one display name.
OneChannelPerProvider ==
  \A c, d \in Channel :
    /\ c # d /\ row[c].name = row[d].name /\ row[c].name # NoName
    => \/ "sync" \in blame
       \/ \E p, q \in Provider : p # q /\ NameOf[p] = row[c].name /\ NameOf[q] = row[c].name

\* Once the tables stay as they are and are not torn, the cache holds what they say,
\* through crashes and refreshes that die.
CacheConverges == <>[](clash = {} /\ ~Working) => <>[](cache = Serving(row))
=============================================================================

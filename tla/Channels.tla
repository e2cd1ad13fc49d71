------------------------------- MODULE Channels -------------------------------
(***************************************************************************)
(* The channels of the database in their two tables, channels and          *)
(* abilities, and what writes them: the administrator's requests, the      *)
(* provider sync, and the jobs that disable and enable channels.  No write *)
(* of the two tables is a transaction: every statement is an action, and   *)
(* the process may stop between any two.  The channel cache is rebuilt     *)
(* from both tables, read one after the other.                             *)
(***************************************************************************)
EXTENDS Integers, FiniteSets

CONSTANTS
  Channel, Group, Model,
  NoName, Provider, NameOf,   \* display names of the providers with a known base URL
  Job,                        \* goroutines: handlers and background jobs
  Mixes,                      \* which operations run side by side
  Bodies, SyncBody,           \* the columns an administrator writes, and those of the sync
  Old,                        \* the channels there are at first
  MaxCrashes, MaxStarts       \* bounds of the crashes and of the operations

Name == {NameOf[p] : p \in Provider}
Status == {"enabled", "auto", "manual"}
\* A row; one that is not there; `twice` is a group column that repeats a group.
Absent == [status |-> "absent", groups |-> {}, models |-> {}, twice |-> FALSE, name |-> NoName]
Row == [status: Status \cup {"absent"}, groups: SUBSET Group, models: SUBSET Model,
        twice: BOOLEAN, name: Name \cup {NoName}]

ASSUME ChannelsAssumption ==
  /\ NoName \notin Name /\ Bodies \cup {SyncBody} \subseteq Row
  /\ Old \subseteq Channel /\ MaxCrashes \in Nat /\ MaxStarts \in Nat

VARIABLES
  mix,        \* the operations of this behaviour
  row,        \* table channels
  ability,    \* table abilities: each channel's rows, enabled and not
  free,       \* channel ids not yet given
  job,        \* the goroutines
  testing,    \* testAllChannelsRunning
  cache,      \* group2model2channels, as triples
  refresh,    \* InitChannelCache
  up,         \* the process serves requests
  crashes, starts,
  clash,      \* history: channels whose last writes overlapped, failed, were cut short, or
              \* enabled one that was gone
  spoilt,     \* history: jobs whose writes overlap another's
  blame       \* history: what went wrong for no such reason

tables == <<row, ability, free>>
marks == <<clash, spoilt, blame>>
process == <<testing, cache, up, crashes>>
channelVars == <<mix, starts, tables, job, process, refresh, marks>>

Exists(c) == row[c].status # "absent"
Pairs(r) == r.groups \X r.models
Serving(rows) == {t \in Channel \X Group \X Model :
  rows[t[1]].status = "enabled" /\ <<t[2], t[3]>> \in Pairs(rows[t[1]])}
Keys(c) == ability[c].on \cup ability[c].off

Op == {"add", "update", "delete", "purge", "switch", "test", "balance", "sync"}
JobPcs == {"idle", "fill", "reload", "drop", "status", "list", "probe", "judge", "each"}
Idle == [op |-> "none", pc |-> "idle", on |-> {}, todo |-> {}, cur |-> {}, body |-> Absent,
         then |-> "idle", names |-> {}, seen |-> [c \in Channel |-> "absent"]]

JobState ==
  [op: Op \cup {"none"}, pc: JobPcs, on: SUBSET Channel, todo: SUBSET (Channel \cup Provider),
   cur: SUBSET Channel, body: Row, then: JobPcs, names: SUBSET (Name \cup {NoName}),
   seen: [Channel -> Status \cup {"absent"}]]

ChannelsTypeOK ==
  /\ mix \in Mixes
  /\ row \in [Channel -> Row]
  /\ ability \in [Channel -> [on: SUBSET (Group \X Model), off: SUBSET (Group \X Model)]]
  /\ \A c \in Channel : ability[c].on \cap ability[c].off = {}
  /\ free \subseteq Channel
  /\ job \in [Job -> JobState]
  /\ testing \in BOOLEAN /\ up \in BOOLEAN /\ crashes \in 0..MaxCrashes /\ starts \in 0..MaxStarts
  /\ cache \subseteq Channel \X Group \X Model
  /\ refresh \in [half: BOOLEAN, rows: [Channel -> Row], torn: BOOLEAN]
  /\ clash \subseteq Channel /\ spoilt \subseteq Job
  /\ blame \subseteq {"flag", "panic", "sync"}

\* The channels, all enabled or all disabled, agree with their abilities, and the cache
\* has been built.
ChannelsInit ==
  /\ mix \in Mixes
  /\ free = Channel \ Old
  /\ \E s \in {"enabled", "manual"} : row = [c \in Channel |->
       IF c \in Old THEN [SyncBody EXCEPT !.status = s, !.name = NoName] ELSE Absent]
  /\ ability = [c \in Channel |-> [on |-> {t \in Pairs(row[c]) : row[c].status = "enabled"},
                                   off |-> {t \in Pairs(row[c]) : row[c].status # "enabled"}]]
  /\ job = [h \in Job |-> Idle]
  /\ testing = FALSE /\ up = TRUE /\ crashes = 0 /\ starts = 0
  /\ cache = Serving(row)
  /\ refresh = [half |-> FALSE, rows |-> row, torn |-> FALSE]
  /\ clash = {} /\ spoilt = {} /\ blame = {}

-----------------------------------------------------------------------------
Starts(h, op) ==
  /\ up /\ job[h].pc = "idle" /\ op \in mix
  /\ starts < MaxStarts /\ starts' = starts + 1
Become(h, j) == job' = [job EXCEPT ![h] = j]

\* A job begins to write channels: it overlaps the jobs that are writing them.
Begins(h, cs) ==
  LET rivals == {k \in Job \ {h} : job[k].on \cap cs # {}} IN
  /\ clash' = clash \cup {c \in cs : \E k \in rivals : c \in job[k].on}
  /\ spoilt' = IF rivals = {} THEN spoilt \ {h} ELSE spoilt \cup rivals \cup {h}

\* A write that falls between the two reads of a refresh.
Tears == refresh' = [refresh EXCEPT !.torn = @ \/ refresh.half]

\* A mutant: the new abilities are enabled whatever the channel's status.
FillEnabled(c, r) == [ability EXCEPT ![c].on = @ \cup Pairs(r)]

\* A mutant: every ability is added enabled, and again disabled.
FillBoth(c, r) == [ability EXCEPT ![c] = [on |-> @.on \cup Pairs(r), off |-> @.off \cup Pairs(r)]]

\* A mutant: a channel that is not enabled gets no abilities.
FillNone(c, r) ==
  IF r.status = "enabled" THEN [ability EXCEPT ![c].on = @ \cup Pairs(r)] ELSE ability

Fill(c, r) ==
  IF r.status = "enabled" THEN [ability EXCEPT ![c].on = @ \cup Pairs(r)]
                          ELSE [ability EXCEPT ![c].off = @ \cup Pairs(r)]

\* AddAbilities: models without repetitions, times groups with them, in one INSERT,
\* which fails on a key that is there.
AddFails(c, r) == r.twice \/ Pairs(r) \cap Keys(c) # {}
AddAbilities(c, r) == ability' = IF AddFails(c, r) THEN ability ELSE Fill(c, r)
DeleteAbilities(c) == ability' = [ability EXCEPT ![c] = [on |-> {}, off |-> {}]]
UpdateAbilityStatus(c, s) ==
  ability' = [ability EXCEPT ![c] = IF s = "enabled" THEN [on |-> Keys(c), off |-> {}]
                                                     ELSE [on |-> {}, off |-> Keys(c)]]

\* BatchInsertChannels and Insert create the rows first.
Create(cs, r) ==
  /\ cs # {} /\ cs \subseteq free /\ free' = free \ cs
  /\ row' = [c \in Channel |-> IF c \in cs THEN r ELSE row[c]]

-----------------------------------------------------------------------------
(* AddChannel, a row for each key; then the abilities of each up to the    *)
(* first error.                                                            *)
AddChannel(h) ==
  \E cs \in SUBSET Channel, b \in Bodies :
    /\ Starts(h, "add")
    /\ Create(cs, b)
    /\ Become(h, [Idle EXCEPT !.op = "add", !.pc = "fill", !.on = cs, !.body = b])
    /\ Begins(h, cs) /\ Tears
    /\ UNCHANGED <<mix, ability, process, blame>>

\* The same statement ends Insert (sync) and Update.
FillAbilities(h) ==
  LET j == job[h]
      failed(c) == AddFails(c, j.body)
      over == IF j.op = "sync" THEN [j EXCEPT !.pc = "each", !.on = {}] ELSE Idle
  IN \E c \in j.on :
    /\ j.pc = "fill"
    /\ AddAbilities(c, j.body)
    /\ Become(h, IF failed(c) \/ j.on = {c} THEN over ELSE [j EXCEPT !.on = @ \ {c}])
    \* An update that runs alone mends its channel.
    /\ clash' = CASE failed(c) -> clash \cup j.on
                  [] ~failed(c) /\ j.op = "update" /\ h \notin spoilt /\ Exists(c) -> clash \ {c}
                  [] OTHER -> clash
    /\ Tears
    /\ UNCHANGED <<mix, starts, row, free, process, spoilt, blame>>

(* UpdateChannel.  Updates skips the columns that are zero; a channel that *)
(* is gone is no error, and keeps the body it was sent.                    *)
UpdateChannel(h) ==
  \E c \in Channel \ free, b \in Bodies, keep \in BOOLEAN :
    /\ Starts(h, "update")
    /\ LET r == IF keep THEN [b EXCEPT !.status = "absent"] ELSE b IN
       /\ row' = IF ~Exists(c) THEN row
                 ELSE [row EXCEPT ![c] = [b EXCEPT !.status = IF keep THEN row[c].status ELSE @,
                                                   !.name = row[c].name]]
       /\ Become(h, [Idle EXCEPT !.op = "update", !.pc = "reload", !.on = {c}, !.body = r])
    /\ Begins(h, {c}) /\ Tears
    /\ UNCHANGED <<mix, ability, free, process, blame>>

Reload(h) ==
  \E c \in job[h].on :
    /\ job[h].pc = "reload"
    /\ Become(h, [job[h] EXCEPT !.pc = "drop", !.body = IF Exists(c) THEN row[c] ELSE @])
    /\ clash' = IF Exists(c) THEN clash ELSE clash \cup {c}
    /\ UNCHANGED <<mix, starts, tables, process, refresh, spoilt, blame>>

DropAbilities(h) ==
  \E c \in job[h].on :
    /\ job[h].pc = "drop"
    /\ DeleteAbilities(c)
    /\ Become(h, IF job[h].op = "delete" THEN Idle ELSE [job[h] EXCEPT !.pc = "fill"])
    /\ Tears
    /\ UNCHANGED <<mix, starts, row, free, process, marks>>

DeleteChannel(h) ==
  \E c \in Channel \ free :
    /\ Starts(h, "delete")
    /\ row' = [row EXCEPT ![c] = Absent]
    /\ Become(h, [Idle EXCEPT !.op = "delete", !.pc = "drop", !.on = {c}])
    /\ Begins(h, {c}) /\ Tears
    /\ UNCHANGED <<mix, ability, free, process, blame>>

\* DeleteDisabledChannel: one statement, and the abilities stay.
DeleteDisabledChannel(h) ==
  LET cs == {c \in Channel : row[c].status \in {"auto", "manual"}} IN
  /\ Starts(h, "purge")
  /\ row' = [c \in Channel |-> IF c \in cs THEN Absent ELSE row[c]]
  /\ Begins(h, cs) /\ Tears
  /\ UNCHANGED <<mix, ability, free, job, process, blame>>

-----------------------------------------------------------------------------
(* UpdateChannelStatusById, from monitor's DisableChannel,                 *)
(* MetricDisableChannel and EnableChannel: abilities, then the row.        *)
Switch(h, c, s, j) ==
  /\ UpdateAbilityStatus(c, s)
  /\ Become(h, [j EXCEPT !.pc = "status", !.on = {c}, !.body = [Absent EXCEPT !.status = s], !.then = j.pc])
  /\ Begins(h, {c}) /\ Tears
  /\ UNCHANGED <<mix, row, free, process, blame>>

\* After a relayed request has failed, or too many have.
DisableChannel(h) ==
  \E c \in Channel \ free :
    Starts(h, "switch") /\ Switch(h, c, "auto", [Idle EXCEPT !.op = "switch"])

\* One that is gone by now is no error, and its abilities stay enabled.
SetStatus(h) ==
  LET s == job[h].body.status IN
  \E c \in job[h].on :
    /\ job[h].pc = "status"
    /\ row' = IF Exists(c) THEN [row EXCEPT ![c].status = s] ELSE row
    /\ clash' = IF Exists(c) \/ s # "enabled" THEN clash ELSE clash \cup {c}
    /\ Become(h, IF job[h].then = "idle" THEN Idle
                 ELSE [job[h] EXCEPT !.pc = job[h].then, !.on = {}])
    /\ Tears
    /\ UNCHANGED <<mix, starts, ability, free, process, spoilt, blame>>

-----------------------------------------------------------------------------
(* testChannels and updateAllChannelsBalance go through the channels as    *)
(* they were when the job began.                                           *)

TestChannels(h) ==
  /\ Starts(h, "test") /\ ~testing
  /\ testing' = TRUE
  /\ Become(h, [Idle EXCEPT !.op = "test", !.pc = "list"])
  /\ UNCHANGED <<mix, tables, cache, up, crashes, refresh, marks>>

UpdateAllChannelsBalance(h) ==
  /\ Starts(h, "balance")
  /\ Become(h, [Idle EXCEPT !.op = "balance", !.pc = "list"])
  /\ UNCHANGED <<mix, tables, process, refresh, marks>>

ListChannels(h) ==
  LET j == job[h] IN
  /\ j.pc = "list"
  /\ Become(h, [j EXCEPT !.pc = "probe",
       !.todo = {c \in Channel : row[c].status = "enabled" \/ (j.op = "test" /\ Exists(c))},
       !.seen = [c \in Channel |-> row[c].status]])
  /\ UNCHANGED <<mix, starts, tables, process, refresh, marks>>

\* The list cannot be read: testChannels returns and leaves its flag.
ListFails(h) ==
  /\ job[h].pc = "list"
  /\ Become(h, Idle)
  /\ blame' = IF job[h].op = "test" THEN blame \cup {"flag"} ELSE blame
  /\ UNCHANGED <<mix, starts, tables, process, refresh, clash, spoilt>>

\* A test ends with an answer, an error of the gateway's own, one that the provider
\* tells, or one of those that call for disabling the channel.
testChannel == {"answer", "failure", "error", "refusal"}
ShouldDisableChannel(outcome) == outcome = "refusal"
ShouldEnableChannel(outcome) == outcome = "answer"

\* One that was enabled is disabled if it answers too slowly ...
TestProbe(h) ==
  LET j == job[h] IN
  \E c \in j.todo :
    /\ j.pc = "probe" /\ j.op = "test"
    /\ LET next == [j EXCEPT !.pc = "judge", !.todo = @ \ {c}, !.cur = {c}] IN
       \/ /\ Become(h, next)
          /\ UNCHANGED <<mix, starts, tables, process, refresh, marks>>
       \/ j.seen[c] = "enabled" /\ Switch(h, c, "auto", next) /\ UNCHANGED starts

\* ... or with an error that calls for it; one that was not, by hand or by the
\* gateway, is enabled if it answers.
TestJudge(h) ==
  LET j == job[h]  next == [j EXCEPT !.pc = "probe", !.cur = {}] IN
  \E c \in j.cur, outcome \in testChannel :
    LET disables == j.seen[c] = "enabled" /\ ShouldDisableChannel(outcome)
        enables == j.seen[c] # "enabled" /\ ShouldEnableChannel(outcome)
    IN
    /\ j.pc = "judge"
    /\ \/ /\ ~disables /\ ~enables
          /\ Become(h, next)
          /\ UNCHANGED <<mix, starts, tables, process, refresh, marks>>
       \/ /\ disables \/ enables
          /\ Switch(h, c, IF disables THEN "auto" ELSE "enabled", next)
          /\ UNCHANGED starts

\* A mutant: the loop ends and its flag stays.
TestOverKeeps(h) ==
  /\ job[h].pc = "probe" /\ job[h].todo = {}
  /\ Become(h, Idle)
  /\ UNCHANGED <<mix, starts, tables, process, refresh, marks>>

LoopOver(h) ==
  /\ job[h].pc = "probe" /\ job[h].todo = {}
  /\ Become(h, Idle)
  /\ testing' = IF job[h].op = "test" THEN FALSE ELSE testing
  /\ UNCHANGED <<mix, starts, tables, cache, up, crashes, refresh, marks>>

\* The balance of a channel is positive, used up, or cannot be read.
updateChannelBalance == {"positive", "used up", "unread"}

BalanceProbe(h) ==
  LET j == job[h] IN
  \E c \in j.todo, balance \in updateChannelBalance :
    /\ j.pc = "probe" /\ j.op = "balance"
    /\ LET next == [j EXCEPT !.todo = @ \ {c}] IN
       \/ /\ balance # "used up" /\ Become(h, next)
          /\ UNCHANGED <<mix, starts, tables, process, refresh, marks>>
       \/ balance = "used up" /\ Switch(h, c, "auto", next) /\ UNCHANGED starts

-----------------------------------------------------------------------------
(* SyncProviders: the names are read once, then a channel is inserted for  *)
(* every provider listed by OpenRouter whose name is not among them.       *)
SyncProviders(h) ==
  \E ps \in SUBSET Provider :
    /\ Starts(h, "sync")
    /\ Become(h, [Idle EXCEPT !.op = "sync", !.pc = "each", !.todo = ps,
                             !.names = {row[c].name : c \in Channel}])
    /\ blame' = IF \E k \in Job : job[k].op = "sync" THEN blame \cup {"sync"} ELSE blame
    /\ UNCHANGED <<mix, tables, process, refresh, clash, spoilt>>

\* A mutant: no provider is known already.
SkippedNever(h, p) == FALSE

Skipped(h, p) == NameOf[p] \in job[h].names

SyncInsert(h) ==
  LET j == job[h] IN
  \E p \in j.todo, c \in free :
    /\ j.pc = "each" /\ ~Skipped(h, p)
    /\ LET r == [SyncBody EXCEPT !.name = NameOf[p]] IN
       /\ Create({c}, r)
       /\ Become(h, [j EXCEPT !.pc = "fill", !.on = {c}, !.todo = @ \ {p}, !.body = r])
    /\ Begins(h, {c}) /\ Tears
    /\ UNCHANGED <<mix, starts, ability, process, blame>>

SyncOver(h) ==
  /\ job[h].pc = "each" /\ (free = {} \/ \A p \in job[h].todo : Skipped(h, p))
  /\ Become(h, Idle)
  /\ UNCHANGED <<mix, starts, tables, process, refresh, marks>>

-----------------------------------------------------------------------------
(* InitChannelCache, at start-up and then every SyncFrequency seconds: the *)
(* enabled channels, then the groups that have an ability; a channel whose *)
(* group has none is written to a nil map, and the process dies.           *)
Working == \E h \in Job : job[h].on # {}

RefreshRead ==
  /\ ~refresh.half
  /\ refresh' = [half |-> TRUE, rows |-> row, torn |-> clash # {} \/ Working]
  /\ UNCHANGED <<mix, starts, tables, job, process, marks>>

Known(g) == \E c \in Channel, m \in Model : <<g, m>> \in Keys(c)
NilMap == \E t \in Serving(refresh.rows) : ~Known(t[2])

\* A mutant: the new cache is added to the old one.
RefreshPublishMerges ==
  /\ refresh.half /\ ~NilMap
  /\ cache' = cache \cup Serving(refresh.rows)
  /\ up' = TRUE
  /\ refresh' = [refresh EXCEPT !.half = FALSE]
  /\ UNCHANGED <<mix, starts, tables, job, testing, crashes, marks>>

RefreshPublish ==
  /\ refresh.half /\ ~NilMap
  /\ cache' = Serving(refresh.rows)
  /\ up' = TRUE
  /\ refresh' = [refresh EXCEPT !.half = FALSE]
  /\ UNCHANGED <<mix, starts, tables, job, testing, crashes, marks>>

\* The process dies and is started again: what the jobs had begun stays half done.
Dies ==
  /\ job' = [h \in Job |-> Idle]
  /\ testing' = FALSE /\ up' = FALSE /\ cache' = {}
  /\ refresh' = [refresh EXCEPT !.half = FALSE]
  /\ clash' = clash \cup UNION {job[h].on : h \in Job}
  /\ spoilt' = {}
  /\ UNCHANGED <<mix, starts, tables>>

RefreshPanics ==
  /\ refresh.half /\ NilMap
  /\ Dies
  /\ blame' = (blame \ {"flag"}) \cup (IF refresh.torn THEN {} ELSE {"panic"})
  /\ UNCHANGED crashes

Crash ==
  /\ up /\ crashes < MaxCrashes /\ crashes' = crashes + 1
  /\ Dies
  /\ blame' = blame \ {"flag"}

-----------------------------------------------------------------------------
Background(h) ==
  \/ FillAbilities(h) \/ Reload(h) \/ DropAbilities(h) \/ SetStatus(h)
  \/ ListChannels(h) \/ TestProbe(h) \/ TestJudge(h) \/ BalanceProbe(h) \/ LoopOver(h)
  \/ SyncInsert(h) \/ SyncOver(h)

Start(h) ==
  \/ AddChannel(h) \/ UpdateChannel(h) \/ DeleteChannel(h) \/ DeleteDisabledChannel(h)
  \/ DisableChannel(h) \/ TestChannels(h) \/ UpdateAllChannelsBalance(h) \/ SyncProviders(h)

ChannelsNext ==
  \/ \E h \in Job : Start(h) \/ Background(h) \/ ListFails(h)
  \/ RefreshRead \/ RefreshPublish \/ RefreshPanics \/ Crash

\* The goroutines run, and SyncChannelCache comes round again.
ChannelsFairness ==
  /\ \A h \in Job : WF_channelVars(Background(h))
  /\ WF_channelVars(RefreshRead \/ RefreshPublish \/ RefreshPanics)

ChannelsSpec == ChannelsInit /\ [][ChannelsNext]_channelVars /\ ChannelsFairness
=============================================================================

----------------------------- MODULE ChannelsProofs -----------------------------
(***************************************************************************)
(* What holds of the two tables, the cache and the jobs for any channels,  *)
(* providers, goroutines and mixes of operations.  The invariants say how  *)
(* far each goroutine has come with the channels it writes.                *)
(***************************************************************************)
EXTENDS ChannelsProperties, FiniteSetTheorems, TLAPS

\* Which operations are at a step, and what they hold there.
Stage(j) ==
  /\ j.pc = "idle" => j = Idle
  /\ j.pc = "fill" => j.op \in {"add", "update", "sync"}
  /\ j.pc = "reload" => j.op = "update"
  /\ j.pc = "drop" => j.op \in {"update", "delete"}
  /\ j.pc = "status" => \/ j.op = "switch" /\ j.then = "idle"
                        \/ j.op = "test" /\ j.then \in {"probe", "judge"}
                        \/ j.op = "balance" /\ j.then = "probe"
  /\ j.pc \in {"list", "probe"} => j.op \in {"test", "balance"}
  /\ j.pc = "judge" => j.op = "test"
  /\ j.pc = "each" => j.op = "sync"

\* The channels a job writes and those it goes through have their rows.
Holds(j, fresh) ==
  /\ j.pc \in {"list", "probe", "judge", "each"} => j.on = {}
  /\ j.op # "add" => \A c, d \in j.on : c = d
  /\ j.on \cap fresh = {} /\ j.cur \cap fresh = {}
  /\ j.op \in {"test", "balance"} => j.todo \subseteq Channel \ fresh
  /\ j.op = "sync" => j.todo \subseteq Provider

JobsRun == \A h \in Job : Stage(job[h]) /\ Holds(job[h], free)

\* A channel that was never created has nothing in either table.
FreshIsEmpty == \A c \in free : row[c] = Absent /\ Keys(c) = {}

Agrees(c) ==
  /\ ability[c].on = {t \in Pairs(row[c]) : row[c].status = "enabled"}
  /\ Exists(c) => Keys(c) = Pairs(row[c])

\* h writes c, and either no other job has met it or the channel is not torn.
Tidy(h, c) == c \in job[h].on /\ (h \notin spoilt \/ c \notin clash)

\* What such a job knows of its channel.
Midway(h, c) ==
  LET j == job[h] IN
  /\ \A k \in Job \ {h} : c \notin job[k].on
  /\ j.op \in {"add", "sync"} => row[c] = j.body /\ Keys(c) = {}
  /\ j.op = "delete" => ~Exists(c)
  /\ j.op = "update" /\ j.pc \in {"drop", "fill"} =>
       /\ Exists(c) => row[c] = j.body
       /\ c \notin clash => Exists(c)
  /\ j.op = "update" /\ j.pc = "fill" => Keys(c) = {}
  /\ j.pc = "status" /\ c \notin clash =>
       /\ Exists(c) => Keys(c) = Pairs(row[c])
       /\ ability[c].on = {t \in Keys(c) : j.body.status = "enabled"}

WritersKnow == \A h \in Job, c \in Channel : Tidy(h, c) => Midway(h, c)

Settled == \A c \in Channel \ clash : (\A h \in Job : c \notin job[h].on) => Agrees(c)

\* What an untorn refresh has read is still what the tables say, and they agree.
ReadsWhole ==
  refresh.half /\ ~refresh.torn => refresh.rows = row /\ \A c \in Channel : Agrees(c)

\* One loop at most; one that could not read its list leaves its flag up for good.
OneLoop ==
  /\ \A h, k \in Job : job[h].op = "test" /\ job[k].op = "test" => h = k
  /\ testing <=> "flag" \in blame \/ \E h \in Job : job[h].op = "test"
  /\ "flag" \in blame => \A h \in Job : job[h].op # "test"

\* The sync that runs knows every name there is: it read it or wrote it.
SyncKnows ==
  "sync" \notin blame =>
    /\ \A h, k \in Job : job[h].op = "sync" /\ job[k].op = "sync" => h = k
    /\ \A h \in Job : job[h].op = "sync" => \A c \in Channel :
         row[c].name \in job[h].names \cup {NoName}
                           \cup {NameOf[q] : q \in Provider \ job[h].todo}
-----------------------------------------------------------------------------
(* Types, and how far each goroutine has come.                             *)

USE ChannelsAssumption

TablesAndJobs == ChannelsTypeOK /\ JobsRun /\ FreshIsEmpty

LEMMA Rows ==
  /\ Absent \in Row /\ SyncBody \in Row /\ Absent.status = "absent" /\ Pairs(Absent) = {}
  /\ \A s \in Status : [Absent EXCEPT !.status = s] \in Row /\ [Absent EXCEPT !.status = s].status = s
  /\ \A p \in Provider : [SyncBody EXCEPT !.name = NameOf[p]] \in Row
<1>1. NoName \in Name \cup {NoName} /\ \A p \in Provider : NameOf[p] \in Name
  BY DEF Name
<1> QED BY <1>1 DEF Row, Status, Absent, Pairs

LEMMA IdleJob == Idle \in JobState /\ Stage(Idle) /\ Idle.on = {} /\ Idle.op = "none" /\ \A fresh : Holds(Idle, fresh)
BY Rows DEF Idle, JobState, JobPcs, Stage, Holds

\* A job that becomes j, where no channel becomes new.
LEMMA JobMoves ==
  ASSUME TablesAndJobs, NEW h \in Job, NEW j \in JobState, Become(h, j),
         Stage(j), Holds(j, free'), free' \subseteq free
  PROVE  /\ job' \in [Job -> JobState] /\ JobsRun'
         /\ job'[h] = j /\ \A k \in Job \ {h} : job'[k] = job[k]
<1>1. job \in [Job -> JobState]
  BY DEF TablesAndJobs, ChannelsTypeOK
<1>2. job' \in [Job -> JobState] /\ job'[h] = j /\ \A k \in Job \ {h} : job'[k] = job[k]
  BY <1>1 DEF Become
<1>3. ASSUME NEW k \in Job PROVE Stage(job'[k]) /\ Holds(job'[k], free')
  <2>1. CASE k = h
    BY <1>2, <2>1
  <2>2. CASE k # h
    <3>1. Stage(job[k]) /\ Holds(job[k], free) /\ job'[k] = job[k]
      BY <1>2, <2>2 DEF TablesAndJobs, JobsRun
    <3>2. Holds(job[k], free')
      BY <3>1 DEF Holds
    <3> QED BY <3>1, <3>2
  <2> QED BY <2>1, <2>2
<1>4. JobsRun'
  BY <1>3 DEF JobsRun
<1> QED BY <1>2, <1>4

LEMMA TearsType ==
  ASSUME TablesAndJobs, Tears
  PROVE  refresh' \in [half: BOOLEAN, rows: [Channel -> Row], torn: BOOLEAN]
BY DEF Tears, TablesAndJobs, ChannelsTypeOK

LEMMA BeginsType ==
  ASSUME TablesAndJobs, NEW h \in Job, NEW cs \in SUBSET Channel, Begins(h, cs)
  PROVE  clash' \subseteq Channel /\ spoilt' \subseteq Job
BY DEF Begins, TablesAndJobs, ChannelsTypeOK

\* Abilities keep their type, and a channel that is not touched keeps its own.
LEMMA AbilityTypes ==
  ASSUME TablesAndJobs, NEW c \in Channel, NEW r \in Row, NEW s,
         AddAbilities(c, r) \/ DeleteAbilities(c) \/ UpdateAbilityStatus(c, s)
  PROVE  /\ ability' \in [Channel -> [on: SUBSET (Group \X Model), off: SUBSET (Group \X Model)]]
         /\ \A d \in Channel : ability'[d].on \cap ability'[d].off = {}
         /\ \A d \in Channel \ {c} : ability'[d] = ability[d]
<1> DEFINE A == [on: SUBSET (Group \X Model), off: SUBSET (Group \X Model)]
<1>1. ability \in [Channel -> A] /\ \A d \in Channel : ability[d].on \cap ability[d].off = {}
  BY DEF TablesAndJobs, ChannelsTypeOK
<1>2. Pairs(r) \in SUBSET (Group \X Model) /\ Keys(c) \in SUBSET (Group \X Model)
  BY <1>1 DEF Pairs, Row, Keys
<1>3. ASSUME NEW a \in A, a.on \cap a.off = {}, ability' = [ability EXCEPT ![c] = a]
      PROVE  /\ ability' \in [Channel -> A]
             /\ \A d \in Channel : ability'[d].on \cap ability'[d].off = {}
             /\ \A d \in Channel \ {c} : ability'[d] = ability[d]
  BY <1>1, <1>3
<1>4. CASE DeleteAbilities(c)
  BY <1>3, <1>4 DEF DeleteAbilities
<1>5. CASE UpdateAbilityStatus(c, s)
  <2> DEFINE a == IF s = "enabled" THEN [on |-> Keys(c), off |-> {}] ELSE [on |-> {}, off |-> Keys(c)]
  <2>1. ability' = [ability EXCEPT ![c] = a]
    BY <1>5 DEF UpdateAbilityStatus
  <2>2. a \in A /\ a.on \cap a.off = {}
    BY <1>2
  <2> HIDE DEF a
  <2> QED BY <1>3, <2>1, <2>2
<1>6. CASE AddAbilities(c, r)
  <2>1. CASE AddFails(c, r)
    BY <1>1, <1>6, <2>1 DEF AddAbilities
  <2>2. CASE ~AddFails(c, r)
    <3>1. Pairs(r) \cap (ability[c].on \cup ability[c].off) = {}
      BY <2>2 DEF AddFails, Keys
    <3>2. CASE r.status = "enabled"
      <4> DEFINE a == [ability[c] EXCEPT !.on = ability[c].on \cup Pairs(r)]
      <4>1. ability' = [ability EXCEPT ![c] = a]
        BY <1>6, <2>2, <3>2 DEF AddAbilities, Fill
      <4>2. a \in A /\ a.on \cap a.off = {}
        BY <1>1, <1>2, <3>1
      <4> HIDE DEF a
      <4> QED BY <1>3, <4>1, <4>2
    <3>3. CASE r.status # "enabled"
      <4> DEFINE a == [ability[c] EXCEPT !.off = ability[c].off \cup Pairs(r)]
      <4>1. ability' = [ability EXCEPT ![c] = a]
        BY <1>6, <2>2, <3>3 DEF AddAbilities, Fill
      <4>2. a \in A /\ a.on \cap a.off = {}
        BY <1>1, <1>2, <3>1
      <4> HIDE DEF a
      <4> QED BY <1>3, <4>1, <4>2
    <3> QED BY <3>2, <3>3
  <2> QED BY <2>1, <2>2
<1> QED BY <1>4, <1>5, <1>6

\* A step of a job that keeps the types.
LEMMA StepTypes ==
  ASSUME TablesAndJobs, NEW h \in Job, NEW j \in JobState, Become(h, j), Stage(j), Holds(j, free'),
         free' \subseteq free, row' \in [Channel -> Row],
         ability' \in [Channel -> [on: SUBSET (Group \X Model), off: SUBSET (Group \X Model)]],
         \A c \in Channel : ability'[c].on \cap ability'[c].off = {},
         \A c \in free' : row'[c] = row[c] /\ ability'[c] = ability[c],
         refresh' \in [half: BOOLEAN, rows: [Channel -> Row], torn: BOOLEAN],
         clash' \subseteq Channel, spoilt' \subseteq Job, blame' \subseteq {"flag", "panic", "sync"},
         mix' = mix, starts' \in 0..MaxStarts, testing' \in BOOLEAN, UNCHANGED <<cache, up, crashes>>
  PROVE  TablesAndJobs'
<1>1. job' \in [Job -> JobState] /\ JobsRun'
  BY JobMoves
<1>2. FreshIsEmpty'
  BY DEF FreshIsEmpty, TablesAndJobs, ChannelsTypeOK, Keys
<1>3. ChannelsTypeOK'
  BY <1>1 DEF TablesAndJobs, ChannelsTypeOK
<1> QED BY <1>1, <1>2, <1>3 DEF TablesAndJobs

\* One that writes no table.
LEMMA QuietTypes ==
  ASSUME TablesAndJobs, NEW h \in Job, NEW j \in JobState, Become(h, j), Stage(j), Holds(j, free),
         UNCHANGED <<mix, tables, refresh, cache, up, crashes, spoilt>>, clash' \subseteq Channel,
         starts' \in 0..MaxStarts, testing' \in BOOLEAN, blame' \subseteq {"flag", "panic", "sync"}
  PROVE  TablesAndJobs'
<1>1. UNCHANGED <<row, ability, free>>
  BY DEF tables
<1> QED BY <1>1, StepTypes DEF TablesAndJobs, ChannelsTypeOK

\* One that writes the abilities, or the row, of a channel it has.
LEMMA WriteTypes ==
  ASSUME TablesAndJobs, NEW h \in Job, NEW j \in JobState, Become(h, j), Stage(j), Holds(j, free),
         UNCHANGED <<mix, free, process, blame>>, NEW c \in Channel \ free, Tears,
         row' \in [Channel -> Row], \A d \in Channel \ {c} : row'[d] = row[d],
         ability' \in [Channel -> [on: SUBSET (Group \X Model), off: SUBSET (Group \X Model)]],
         \A d \in Channel : ability'[d].on \cap ability'[d].off = {},
         \A d \in Channel \ {c} : ability'[d] = ability[d],
         clash' \subseteq Channel, spoilt' \subseteq Job, starts' \in 0..MaxStarts
  PROVE  TablesAndJobs'
<1>1. free \subseteq Channel
  BY DEF TablesAndJobs, ChannelsTypeOK
<1>2. UNCHANGED <<testing, cache, up, crashes>> /\ testing \in BOOLEAN /\ blame' \subseteq {"flag", "panic", "sync"}
  BY DEF process, TablesAndJobs, ChannelsTypeOK
<1>3. \A d \in free' : row'[d] = row[d] /\ ability'[d] = ability[d]
  BY <1>1
<1> QED BY <1>2, <1>3, StepTypes, TearsType

\* New rows; their abilities are not there yet.
LEMMA CreateTypes ==
  ASSUME TablesAndJobs, NEW cs, NEW r \in Row, Create(cs, r)
  PROVE  /\ row' \in [Channel -> Row] /\ free' \subseteq free /\ cs \in SUBSET Channel
         /\ cs \cap free' = {} /\ \A c \in free' : row'[c] = row[c]
         /\ \A c \in cs : row'[c] = r /\ \A d \in Channel \ cs : row'[d] = row[d]
BY DEF Create, TablesAndJobs, ChannelsTypeOK

LEMMA StartsType ==
  ASSUME TablesAndJobs, NEW h \in Job, NEW op, Starts(h, op)
  PROVE  starts' \in 0..MaxStarts /\ job[h].on = {} /\ job[h].op = "none"
<1>1. job[h] = Idle
  BY DEF Starts, TablesAndJobs, JobsRun, Stage
<1>2. starts' \in 0..MaxStarts
  BY DEF Starts, TablesAndJobs, ChannelsTypeOK
<1> QED BY <1>1, <1>2, IdleJob

LEMMA AddTypes ==
  ASSUME TablesAndJobs, NEW h \in Job, AddChannel(h)
  PROVE  TablesAndJobs'
<1>1. PICK cs \in SUBSET Channel : \E b \in Bodies :
        /\ Starts(h, "add") /\ Create(cs, b)
        /\ Become(h, [Idle EXCEPT !.op = "add", !.pc = "fill", !.on = cs, !.body = b])
        /\ Begins(h, cs) /\ Tears /\ UNCHANGED <<mix, ability, process, blame>>
  BY DEF AddChannel
<1>2. PICK b \in Bodies :
        /\ Starts(h, "add") /\ Create(cs, b)
        /\ Become(h, [Idle EXCEPT !.op = "add", !.pc = "fill", !.on = cs, !.body = b])
        /\ Begins(h, cs) /\ Tears /\ UNCHANGED <<mix, ability, process, blame>>
  BY <1>1
<1> DEFINE j == [Idle EXCEPT !.op = "add", !.pc = "fill", !.on = cs, !.body = b]
<1>3. b \in Row
  OBVIOUS
<1>4. /\ row' \in [Channel -> Row] /\ free' \subseteq free /\ cs \cap free' = {}
      /\ \A c \in free' : row'[c] = row[c]
  BY <1>2, <1>3, CreateTypes
<1>5. j \in JobState /\ j.op = "add" /\ j.pc = "fill" /\ j.on = cs /\ j.cur = {} /\ j.todo = {}
  BY <1>3, IdleJob DEF JobState, JobPcs, Op, Idle
<1>6. Stage(j) /\ Holds(j, free')
  BY <1>4, <1>5 DEF Stage, Holds
<1>7. /\ ability' \in [Channel -> [on: SUBSET (Group \X Model), off: SUBSET (Group \X Model)]]
      /\ \A c \in Channel : ability'[c].on \cap ability'[c].off = {}
      /\ mix' = mix /\ testing' \in BOOLEAN /\ UNCHANGED <<cache, up, crashes>>
      /\ blame' \subseteq {"flag", "panic", "sync"} /\ ability' = ability
  BY <1>2 DEF process, TablesAndJobs, ChannelsTypeOK
<1>8. Become(h, j)
  BY <1>2
<1>9. /\ refresh' \in [half: BOOLEAN, rows: [Channel -> Row], torn: BOOLEAN]
      /\ clash' \subseteq Channel /\ spoilt' \subseteq Job /\ starts' \in 0..MaxStarts
  BY <1>2, TearsType, BeginsType, StartsType
<1>10. \A c \in free' : row'[c] = row[c] /\ ability'[c] = ability[c]
  BY <1>4, <1>7
<1> HIDE DEF j
<1> QED BY <1>4, <1>5, <1>6, <1>7, <1>8, <1>9, <1>10, StepTypes

LEMMA FillTypes ==
  ASSUME TablesAndJobs, NEW h \in Job, FillAbilities(h)
  PROVE  TablesAndJobs'
<1> DEFINE jh == job[h]
           over == IF jh.op = "sync" THEN [jh EXCEPT !.pc = "each", !.on = {}] ELSE Idle
<1>1. PICK c \in jh.on :
        /\ jh.pc = "fill" /\ AddAbilities(c, jh.body)
        /\ Become(h, IF AddFails(c, jh.body) \/ jh.on = {c} THEN over ELSE [jh EXCEPT !.on = @ \ {c}])
        /\ clash' = CASE AddFails(c, jh.body) -> clash \cup jh.on
                      [] ~AddFails(c, jh.body) /\ jh.op = "update" /\ h \notin spoilt /\ Exists(c) -> clash \ {c}
                      [] OTHER -> clash
        /\ Tears /\ UNCHANGED <<mix, starts, row, free, process, spoilt, blame>>
  BY DEF FillAbilities
<1>2. jh \in JobState /\ Stage(jh) /\ Holds(jh, free)
  BY DEF TablesAndJobs, JobsRun, ChannelsTypeOK
<1>3. over \in JobState /\ Stage(over) /\ Holds(over, free)
  <2>1. CASE jh.op # "sync"
    BY <2>1, IdleJob
  <2>2. CASE jh.op = "sync"
    <3> DEFINE j == [jh EXCEPT !.pc = "each", !.on = {}]
    <3> HIDE DEF jh
    <3>1. j \in JobState /\ j.op = "sync" /\ j.pc = "each" /\ j.on = {} /\ j.todo = jh.todo /\ j.cur = jh.cur
      BY <1>2, <2>2 DEF JobState, JobPcs
    <3>2. Stage(j) /\ Holds(j, free)
      <4> HIDE DEF j
      <4> QED BY <1>2, <2>2, <3>1 DEF Stage, Holds
    <3> QED BY <2>2, <3>1, <3>2
  <2> QED BY <2>1, <2>2
<1>4. LET j == [jh EXCEPT !.on = @ \ {c}] IN j \in JobState /\ Stage(j) /\ Holds(j, free)
  BY <1>1, <1>2 DEF JobState, Stage, Holds
<1>5. PICK j \in JobState : Become(h, j) /\ Stage(j) /\ Holds(j, free)
  <2>1. CASE AddFails(c, jh.body) \/ jh.on = {c}
    BY <1>1, <1>3, <2>1
  <2>2. CASE ~(AddFails(c, jh.body) \/ jh.on = {c})
    BY <1>1, <1>4, <2>2
  <2> QED BY <2>1, <2>2
<1>6. c \in Channel \ free /\ jh.body \in Row /\ jh.on \subseteq Channel
  BY <1>2 DEF JobState, Holds
<1>7. /\ clash' \subseteq Channel /\ spoilt' \subseteq Job /\ starts' \in 0..MaxStarts
      /\ row' \in [Channel -> Row] /\ row' = row
  <2>1. clash \subseteq Channel /\ spoilt \subseteq Job /\ starts \in 0..MaxStarts /\ row \in [Channel -> Row]
    BY DEF TablesAndJobs, ChannelsTypeOK
  <2>2. clash' \subseteq clash \cup jh.on
    BY <1>1
  <2> QED BY <1>1, <1>6, <2>1, <2>2
<1> HIDE DEF jh, over
<1> QED BY <1>1, <1>5, <1>6, <1>7, WriteTypes, AbilityTypes

LEMMA UpdateTypes ==
  ASSUME TablesAndJobs, NEW h \in Job, UpdateChannel(h)
  PROVE  TablesAndJobs'
<1>1. PICK c \in Channel \ free : \E b \in Bodies, keep \in BOOLEAN :
        /\ Starts(h, "update")
        /\ LET r == IF keep THEN [b EXCEPT !.status = "absent"] ELSE b IN
           /\ row' = IF ~Exists(c) THEN row
                     ELSE [row EXCEPT ![c] = [b EXCEPT !.status = IF keep THEN row[c].status ELSE @,
                                                       !.name = row[c].name]]
           /\ Become(h, [Idle EXCEPT !.op = "update", !.pc = "reload", !.on = {c}, !.body = r])
        /\ Begins(h, {c}) /\ Tears
        /\ UNCHANGED <<mix, ability, free, process, blame>>
  BY DEF UpdateChannel
<1>2. PICK b \in Bodies : \E keep \in BOOLEAN :
        /\ Starts(h, "update")
        /\ LET r == IF keep THEN [b EXCEPT !.status = "absent"] ELSE b IN
           /\ row' = IF ~Exists(c) THEN row
                     ELSE [row EXCEPT ![c] = [b EXCEPT !.status = IF keep THEN row[c].status ELSE @,
                                                       !.name = row[c].name]]
           /\ Become(h, [Idle EXCEPT !.op = "update", !.pc = "reload", !.on = {c}, !.body = r])
        /\ Begins(h, {c}) /\ Tears
        /\ UNCHANGED <<mix, ability, free, process, blame>>
  BY <1>1
<1>3. PICK keep \in BOOLEAN :
        /\ Starts(h, "update")
        /\ LET r == IF keep THEN [b EXCEPT !.status = "absent"] ELSE b IN
           /\ row' = IF ~Exists(c) THEN row
                     ELSE [row EXCEPT ![c] = [b EXCEPT !.status = IF keep THEN row[c].status ELSE @,
                                                       !.name = row[c].name]]
           /\ Become(h, [Idle EXCEPT !.op = "update", !.pc = "reload", !.on = {c}, !.body = r])
        /\ Begins(h, {c}) /\ Tears
        /\ UNCHANGED <<mix, ability, free, process, blame>>
  BY <1>2
<1> DEFINE r == IF keep THEN [b EXCEPT !.status = "absent"] ELSE b
           new == [b EXCEPT !.status = IF keep THEN row[c].status ELSE @, !.name = row[c].name]
           j == [Idle EXCEPT !.op = "update", !.pc = "reload", !.on = {c}, !.body = r]
<1>4. b \in Row /\ row \in [Channel -> Row] /\ row[c] \in Row
  BY DEF TablesAndJobs, ChannelsTypeOK
<1>5. r \in Row /\ new \in Row
  BY <1>4 DEF Row
<1>6. j \in JobState /\ j.op = "update" /\ j.pc = "reload" /\ j.on = {c} /\ j.cur = {} /\ j.todo = {}
  <2> HIDE DEF r
  <2> QED BY <1>5, IdleJob DEF JobState, JobPcs, Op, Idle
<1>7. Stage(j) /\ Holds(j, free)
  BY <1>6 DEF Stage, Holds
<1>8. row' \in [Channel -> Row] /\ \A d \in Channel \ {c} : row'[d] = row[d]
  <2>1. row' = IF ~Exists(c) THEN row ELSE [row EXCEPT ![c] = new]
    BY <1>3
  <2> HIDE DEF new
  <2> QED BY <1>4, <1>5, <2>1
<1>9. /\ ability' \in [Channel -> [on: SUBSET (Group \X Model), off: SUBSET (Group \X Model)]]
      /\ \A d \in Channel : ability'[d].on \cap ability'[d].off = {}
      /\ ability' = ability /\ {c} \in SUBSET Channel
  BY <1>3 DEF TablesAndJobs, ChannelsTypeOK
<1>10. Become(h, j)
  BY <1>3
<1> HIDE DEF j, r, new
<1> QED BY <1>3, <1>6, <1>7, <1>8, <1>9, <1>10, WriteTypes, BeginsType, StartsType

\* What the invariant says of one job.
LEMMA JobIs ==
  ASSUME TablesAndJobs, NEW h \in Job
  PROVE  /\ job[h] \in JobState /\ Stage(job[h]) /\ Holds(job[h], free)
         /\ job \in [Job -> JobState] /\ row \in [Channel -> Row] /\ free \subseteq Channel
         /\ ability \in [Channel -> [on: SUBSET (Group \X Model), off: SUBSET (Group \X Model)]]
         /\ \A c \in Channel : ability[c].on \cap ability[c].off = {}
         /\ clash \subseteq Channel /\ spoilt \subseteq Job /\ blame \subseteq {"flag", "panic", "sync"}
         /\ starts \in 0..MaxStarts /\ testing \in BOOLEAN
BY DEF TablesAndJobs, JobsRun, ChannelsTypeOK

LEMMA ReloadTypes ==
  ASSUME TablesAndJobs, NEW h \in Job, Reload(h)
  PROVE  TablesAndJobs'
<1>1. PICK c \in job[h].on :
        /\ job[h].pc = "reload"
        /\ Become(h, [job[h] EXCEPT !.pc = "drop", !.body = IF Exists(c) THEN row[c] ELSE @])
        /\ clash' = IF Exists(c) THEN clash ELSE clash \cup {c}
        /\ UNCHANGED <<mix, starts, tables, process, refresh, spoilt, blame>>
  BY DEF Reload
<1> DEFINE b == IF Exists(c) THEN row[c] ELSE job[h].body
           j == [job[h] EXCEPT !.pc = "drop", !.body = b]
<1>2. c \in Channel /\ b \in Row /\ job[h] \in JobState
  BY <1>1, JobIs DEF JobState
<1> HIDE DEF b
<1>3. /\ j \in JobState /\ j.pc = "drop" /\ j.op = job[h].op /\ j.on = job[h].on
      /\ j.todo = job[h].todo /\ j.cur = job[h].cur
  BY <1>2 DEF JobState, JobPcs
<1>4. Become(h, j)
  BY <1>1 DEF b
<1> HIDE DEF j
<1>5. Stage(j) /\ Holds(j, free)
  BY <1>1, <1>3, JobIs DEF Stage, Holds
<1> QED BY <1>1, <1>2, <1>3, <1>4, <1>5, JobIs, QuietTypes DEF process

LEMMA DropTypes ==
  ASSUME TablesAndJobs, NEW h \in Job, DropAbilities(h)
  PROVE  TablesAndJobs'
<1>1. PICK c \in job[h].on :
        /\ job[h].pc = "drop" /\ DeleteAbilities(c)
        /\ Become(h, IF job[h].op = "delete" THEN Idle ELSE [job[h] EXCEPT !.pc = "fill"])
        /\ Tears /\ UNCHANGED <<mix, starts, row, free, process, marks>>
  BY DEF DropAbilities
<1>2. PICK j \in JobState : Become(h, j) /\ Stage(j) /\ Holds(j, free)
  <2>1. CASE job[h].op = "delete"
    BY <1>1, <2>1, IdleJob
  <2>2. CASE job[h].op # "delete"
    <3> DEFINE j == [job[h] EXCEPT !.pc = "fill"]
    <3>1. /\ j \in JobState /\ j.pc = "fill" /\ j.op = job[h].op /\ j.on = job[h].on
          /\ j.todo = job[h].todo /\ j.cur = job[h].cur
      <4>1. job[h] \in JobState
        BY JobIs
      <4> QED BY <4>1 DEF JobState, JobPcs
    <3>2. Become(h, j)
      BY <1>1, <2>2
    <3> HIDE DEF j
    <3> QED BY <1>1, <2>2, <3>1, <3>2, JobIs DEF Stage, Holds
  <2> QED BY <2>1, <2>2
<1>3. c \in Channel \ free
  BY JobIs DEF JobState, Holds
<1>4. /\ ability' \in [Channel -> [on: SUBSET (Group \X Model), off: SUBSET (Group \X Model)]]
      /\ \A d \in Channel : ability'[d].on \cap ability'[d].off = {}
      /\ \A d \in Channel \ {c} : ability'[d] = ability[d]
  BY <1>1, <1>3, AbilityTypes, Rows
<1>5. UNCHANGED <<row, clash, spoilt, blame>>
  BY <1>1 DEF marks
<1> QED BY <1>1, <1>2, <1>3, <1>4, <1>5, JobIs, WriteTypes

LEMMA DeleteTypes ==
  ASSUME TablesAndJobs, NEW h \in Job, DeleteChannel(h)
  PROVE  TablesAndJobs'
<1>1. PICK c \in Channel \ free :
        /\ Starts(h, "delete") /\ row' = [row EXCEPT ![c] = Absent]
        /\ Become(h, [Idle EXCEPT !.op = "delete", !.pc = "drop", !.on = {c}])
        /\ Begins(h, {c}) /\ Tears
        /\ UNCHANGED <<mix, ability, free, process, blame>>
  BY DEF DeleteChannel
<1> DEFINE j == [Idle EXCEPT !.op = "delete", !.pc = "drop", !.on = {c}]
<1>2. j \in JobState /\ j.op = "delete" /\ j.pc = "drop" /\ j.on = {c} /\ j.cur = {} /\ j.todo = {}
  BY IdleJob DEF JobState, JobPcs, Op, Idle
<1>3. Stage(j) /\ Holds(j, free)
  BY <1>2 DEF Stage, Holds
<1>4. row' \in [Channel -> Row] /\ \A d \in Channel \ {c} : row'[d] = row[d]
  BY <1>1, JobIs, Rows
<1>5. Become(h, j) /\ clash' \subseteq Channel /\ spoilt' \subseteq Job /\ starts' \in 0..MaxStarts
  BY <1>1, BeginsType, StartsType
<1> HIDE DEF j
<1> QED BY <1>1, <1>2, <1>3, <1>4, <1>5, JobIs, WriteTypes

LEMMA PurgeTypes ==
  ASSUME TablesAndJobs, NEW h \in Job, DeleteDisabledChannel(h)
  PROVE  TablesAndJobs'
<1> DEFINE cs == {c \in Channel : row[c].status \in {"auto", "manual"}}
<1>1. /\ Starts(h, "purge") /\ row' = [c \in Channel |-> IF c \in cs THEN Absent ELSE row[c]]
      /\ Begins(h, cs) /\ Tears /\ UNCHANGED <<mix, ability, free, job, process, blame>>
  BY DEF DeleteDisabledChannel
<1>2. clash' \subseteq Channel /\ spoilt' \subseteq Job /\ starts' \in 0..MaxStarts
  BY <1>1, BeginsType, StartsType
<1>3. row' \in [Channel -> Row]
  BY <1>1, JobIs, Rows
<1>4. refresh' \in [half: BOOLEAN, rows: [Channel -> Row], torn: BOOLEAN]
  BY <1>1, TearsType
<1>5. ChannelsTypeOK'
  BY <1>1, <1>2, <1>3, <1>4 DEF TablesAndJobs, ChannelsTypeOK, process
<1>6. JobsRun'
  BY <1>1 DEF TablesAndJobs, JobsRun
<1>7. ASSUME NEW c \in free PROVE row'[c] = Absent /\ Keys(c)' = {}
  BY <1>1, JobIs DEF TablesAndJobs, FreshIsEmpty, Keys
<1>8. FreshIsEmpty'
  BY <1>1, <1>7 DEF FreshIsEmpty
<1> QED BY <1>5, <1>6, <1>8 DEF TablesAndJobs

\* A job that may switch a channel.
MaySwitch(j) ==
  \/ j.op = "switch" /\ j.pc = "idle"
  \/ j.op = "test" /\ j.pc \in {"probe", "judge"}
  \/ j.op = "balance" /\ j.pc = "probe"

LEMMA SwitchTypes ==
  ASSUME TablesAndJobs, NEW h \in Job, NEW c \in Channel \ free, NEW s \in Status,
         NEW j \in JobState, Holds(j, free), MaySwitch(j), Switch(h, c, s, j), starts' \in 0..MaxStarts
  PROVE  TablesAndJobs'
<1> DEFINE b == [Absent EXCEPT !.status = s]
           n == [j EXCEPT !.pc = "status", !.on = {c}, !.body = b, !.then = j.pc]
<1>1. b \in Row
  BY Rows
<1>2. Become(h, n) /\ UpdateAbilityStatus(c, s) /\ Begins(h, {c}) /\ Tears
      /\ UNCHANGED <<mix, row, free, process, blame>>
  BY DEF Switch
<1> HIDE DEF b
<1>3. /\ n \in JobState /\ n.pc = "status" /\ n.op = j.op /\ n.on = {c} /\ n.then = j.pc
      /\ n.todo = j.todo /\ n.cur = j.cur
  BY <1>1 DEF JobState, JobPcs
<1> HIDE DEF n
<1>4. Stage(n) /\ Holds(n, free)
  BY <1>3 DEF Stage, Holds, MaySwitch
<1>5. /\ ability' \in [Channel -> [on: SUBSET (Group \X Model), off: SUBSET (Group \X Model)]]
      /\ \A d \in Channel : ability'[d].on \cap ability'[d].off = {}
      /\ \A d \in Channel \ {c} : ability'[d] = ability[d]
  BY <1>2, AbilityTypes, Rows
<1>6. clash' \subseteq Channel /\ spoilt' \subseteq Job
  BY <1>2, BeginsType
<1> QED BY <1>2, <1>3, <1>4, <1>5, <1>6, JobIs, WriteTypes

LEMMA DisableTypes ==
  ASSUME TablesAndJobs, NEW h \in Job, DisableChannel(h)
  PROVE  TablesAndJobs'
<1> DEFINE j == [Idle EXCEPT !.op = "switch"]
<1>1. PICK c \in Channel \ free : Starts(h, "switch") /\ Switch(h, c, "auto", j)
  BY DEF DisableChannel
<1>2. /\ j \in JobState /\ j.op = "switch" /\ j.pc = "idle" /\ j.on = {} /\ j.cur = {} /\ j.todo = {}
      /\ starts' \in 0..MaxStarts
  BY <1>1, IdleJob, StartsType DEF JobState, JobPcs, Op, Idle
<1> HIDE DEF j
<1>3. Holds(j, free) /\ MaySwitch(j) /\ "auto" \in Status
  BY <1>2 DEF Holds, MaySwitch, Status
<1> QED BY <1>1, <1>2, <1>3, SwitchTypes

LEMMA SetStatusTypes ==
  ASSUME TablesAndJobs, NEW h \in Job, SetStatus(h)
  PROVE  TablesAndJobs'
<1> DEFINE s == job[h].body.status
<1>1. PICK c \in job[h].on :
        /\ job[h].pc = "status"
        /\ row' = IF Exists(c) THEN [row EXCEPT ![c].status = s] ELSE row
        /\ clash' = IF Exists(c) \/ s # "enabled" THEN clash ELSE clash \cup {c}
        /\ Become(h, IF job[h].then = "idle" THEN Idle
                     ELSE [job[h] EXCEPT !.pc = job[h].then, !.on = {}])
        /\ Tears /\ UNCHANGED <<mix, starts, ability, free, process, spoilt, blame>>
  BY DEF SetStatus
<1>2. c \in Channel \ free /\ s \in Status \cup {"absent"} /\ row[c] \in Row
  BY JobIs DEF JobState, Holds, Row
<1> HIDE DEF s
<1>3. row' \in [Channel -> Row] /\ \A d \in Channel \ {c} : row'[d] = row[d]
  <2>1. CASE Exists(c)
    <3> DEFINE r == [row[c] EXCEPT !.status = s]
    <3>1. row' = [row EXCEPT ![c] = r] /\ r \in Row
      BY <1>1, <1>2, <2>1 DEF Row
    <3> HIDE DEF r
    <3> QED BY <3>1, <1>2, JobIs
  <2>2. CASE ~Exists(c)
    BY <1>1, <2>2, JobIs
  <2> QED BY <2>1, <2>2
<1>4. PICK j \in JobState : Become(h, j) /\ Stage(j) /\ Holds(j, free)
  <2>1. CASE job[h].then = "idle"
    BY <1>1, <2>1, IdleJob
  <2>2. CASE job[h].then # "idle"
    <3> DEFINE j == [job[h] EXCEPT !.pc = job[h].then, !.on = {}]
    <3>1. job[h] \in JobState
      BY JobIs
    <3>2. /\ j \in JobState /\ j.pc = job[h].then /\ j.op = job[h].op /\ j.on = {}
          /\ j.todo = job[h].todo /\ j.cur = job[h].cur
      BY <3>1 DEF JobState
    <3>3. Become(h, j)
      BY <1>1, <2>2
    <3> HIDE DEF j
    <3> QED BY <1>1, <2>2, <3>2, <3>3, JobIs DEF Stage, Holds
  <2> QED BY <2>1, <2>2
<1> QED BY <1>1, <1>2, <1>3, <1>4, JobIs, WriteTypes

LEMMA ListTypes ==
  ASSUME TablesAndJobs, NEW h \in Job, ListChannels(h)
  PROVE  TablesAndJobs'
<1> DEFINE todo == {c \in Channel : row[c].status = "enabled" \/ (job[h].op = "test" /\ Exists(c))}
           seen == [c \in Channel |-> row[c].status]
           j == [job[h] EXCEPT !.pc = "probe", !.todo = todo, !.seen = seen]
<1>1. job[h].pc = "list" /\ Become(h, j)
      /\ UNCHANGED <<mix, starts, tables, process, refresh, marks>>
  BY DEF ListChannels
<1>2. todo \subseteq Channel \ free
  BY Rows DEF TablesAndJobs, FreshIsEmpty, Exists
<1>3. seen \in [Channel -> Status \cup {"absent"}] /\ job[h] \in JobState
  BY JobIs DEF Row
<1> HIDE DEF todo, seen
<1>4. /\ j \in JobState /\ j.pc = "probe" /\ j.op = job[h].op /\ j.on = job[h].on
      /\ j.todo = todo /\ j.cur = job[h].cur
  BY <1>2, <1>3 DEF JobState, JobPcs
<1> HIDE DEF j
<1>5. Stage(j) /\ Holds(j, free)
  BY <1>1, <1>2, <1>4, JobIs DEF Stage, Holds
<1> QED BY <1>1, <1>4, <1>5, JobIs, QuietTypes DEF process, marks

LEMMA ProbeTypes ==
  ASSUME TablesAndJobs, NEW h \in Job, TestProbe(h) \/ BalanceProbe(h)
  PROVE  TablesAndJobs'
<1>1. PICK c, j :
        /\ c \in job[h].todo
        /\ job[h].pc = "probe"
        /\ \/ j = [job[h] EXCEPT !.pc = "judge", !.todo = @ \ {c}, !.cur = {c}] /\ job[h].op = "test"
           \/ j = [job[h] EXCEPT !.todo = @ \ {c}] /\ job[h].op = "balance"
        /\ \/ Become(h, j) /\ UNCHANGED <<mix, starts, tables, process, refresh, marks>>
           \/ Switch(h, c, "auto", j) /\ UNCHANGED starts
  <2>1. CASE TestProbe(h)
    BY <2>1 DEF TestProbe
  <2>2. CASE BalanceProbe(h)
    BY <2>2 DEF BalanceProbe
  <2> QED BY <2>1, <2>2
<1>2. c \in Channel \ free /\ job[h] \in JobState /\ job[h].on = {}
  BY <1>1, JobIs DEF Holds
<1>3. /\ j \in JobState /\ j.op = job[h].op /\ j.on = {} /\ j.todo \subseteq job[h].todo
      /\ j.cur \cap free = {}
      /\ (j.pc = "judge" /\ j.op = "test") \/ (j.pc = "probe" /\ j.op = "balance")
  <2>1. CASE job[h].op = "test"
    <3>1. j = [job[h] EXCEPT !.pc = "judge", !.todo = job[h].todo \ {c}, !.cur = {c}]
      BY <1>1, <2>1
    <3> QED BY <1>2, <2>1, <3>1 DEF JobState, JobPcs
  <2>2. CASE job[h].op = "balance"
    <3>1. j = [job[h] EXCEPT !.todo = job[h].todo \ {c}] /\ job[h].pc = "probe"
      BY <1>1, <2>2
    <3>2. job[h].cur \cap free = {}
      BY JobIs DEF Holds
    <3> QED BY <1>2, <2>2, <3>1, <3>2 DEF JobState, JobPcs
  <2>3. job[h].op \in {"test", "balance"}
    BY <1>1
  <2> QED BY <2>1, <2>2, <2>3
<1>4. Stage(j) /\ Holds(j, free) /\ MaySwitch(j) /\ "auto" \in Status
  BY <1>1, <1>3, JobIs DEF Stage, Holds, MaySwitch, Status
<1>5. CASE Become(h, j) /\ UNCHANGED <<mix, starts, tables, process, refresh, marks>>
  BY <1>3, <1>4, <1>5, JobIs, QuietTypes DEF process, marks
<1>6. CASE Switch(h, c, "auto", j) /\ UNCHANGED starts
  BY <1>2, <1>3, <1>4, <1>6, JobIs, SwitchTypes
<1> QED BY <1>1, <1>5, <1>6

LEMMA JudgeTypes ==
  ASSUME TablesAndJobs, NEW h \in Job, TestJudge(h)
  PROVE  TablesAndJobs'
<1> DEFINE j == [job[h] EXCEPT !.pc = "probe", !.cur = {}]
<1>1. PICK c \in job[h].cur, s \in {"auto", "enabled"} :
        /\ job[h].pc = "judge"
        /\ \/ Become(h, j) /\ UNCHANGED <<mix, starts, tables, process, refresh, marks>>
           \/ Switch(h, c, s, j) /\ UNCHANGED starts
  BY DEF TestJudge
<1>2. c \in Channel \ free /\ job[h] \in JobState /\ job[h].on = {} /\ s \in Status
  BY <1>1, JobIs DEF Holds, JobState, Status
<1>3. /\ j \in JobState /\ j.op = job[h].op /\ j.on = {} /\ j.todo = job[h].todo
      /\ j.cur = {} /\ j.pc = "probe"
  BY <1>2 DEF JobState, JobPcs
<1> HIDE DEF j
<1>4. Stage(j) /\ Holds(j, free) /\ MaySwitch(j)
  BY <1>1, <1>3, JobIs DEF Stage, Holds, MaySwitch
<1>5. CASE Become(h, j) /\ UNCHANGED <<mix, starts, tables, process, refresh, marks>>
  BY <1>3, <1>4, <1>5, JobIs, QuietTypes DEF process, marks
<1>6. CASE Switch(h, c, s, j) /\ UNCHANGED starts
  BY <1>2, <1>3, <1>4, <1>6, JobIs, SwitchTypes
<1> QED BY <1>1, <1>5, <1>6

LEMMA LoopTypes ==
  ASSUME TablesAndJobs, NEW h \in Job,
         TestChannels(h) \/ UpdateAllChannelsBalance(h) \/ ListFails(h) \/ LoopOver(h) \/ SyncOver(h)
  PROVE  TablesAndJobs'
<1> DEFINE begun(op) == [Idle EXCEPT !.op = op, !.pc = "list"]
<1>1. ASSUME NEW op \in {"test", "balance"}
      PROVE  begun(op) \in JobState /\ Stage(begun(op)) /\ Holds(begun(op), free)
  <2> DEFINE j == begun(op)
  <2>1. j \in JobState /\ j.op = op /\ j.pc = "list" /\ j.on = {} /\ j.cur = {} /\ j.todo = {}
    BY IdleJob DEF JobState, JobPcs, Op, Idle
  <2> HIDE DEF j
  <2>2. Stage(j) /\ Holds(j, free)
    BY <2>1 DEF Stage, Holds
  <2> QED BY <2>1, <2>2 DEF j
<1> HIDE DEF begun
<1>2. CASE TestChannels(h)
  <2>1. /\ Become(h, begun("test")) /\ starts' \in 0..MaxStarts /\ testing' \in BOOLEAN
        /\ UNCHANGED <<mix, tables, cache, up, crashes, refresh, marks>>
    BY <1>2, StartsType DEF TestChannels, begun
  <2> QED BY <1>1, <2>1, JobIs, QuietTypes DEF marks
<1>3. CASE UpdateAllChannelsBalance(h)
  <2>1. /\ Become(h, begun("balance")) /\ starts' \in 0..MaxStarts
        /\ UNCHANGED <<mix, tables, process, refresh, marks>>
    BY <1>3, StartsType DEF UpdateAllChannelsBalance, begun
  <2> QED BY <1>1, <2>1, JobIs, QuietTypes DEF marks, process
<1>4. CASE ListFails(h)
  <2>1. /\ Become(h, Idle) /\ UNCHANGED <<mix, starts, tables, process, refresh, clash, spoilt>>
        /\ blame' \subseteq {"flag", "panic", "sync"}
    BY <1>4, JobIs DEF ListFails
  <2> QED BY <2>1, IdleJob, JobIs, QuietTypes DEF process
<1>5. CASE LoopOver(h)
  <2>1. /\ Become(h, Idle) /\ UNCHANGED <<mix, starts, tables, cache, up, crashes, refresh, marks>>
        /\ testing' \in BOOLEAN
    BY <1>5, JobIs DEF LoopOver
  <2> QED BY <2>1, IdleJob, JobIs, QuietTypes DEF marks
<1>6. CASE SyncOver(h)
  <2>1. Become(h, Idle) /\ UNCHANGED <<mix, starts, tables, process, refresh, marks>>
    BY <1>6 DEF SyncOver
  <2> QED BY <2>1, IdleJob, JobIs, QuietTypes DEF marks, process
<1> QED BY <1>2, <1>3, <1>4, <1>5, <1>6

LEMMA SyncTypes ==
  ASSUME TablesAndJobs, NEW h \in Job, SyncProviders(h)
  PROVE  TablesAndJobs'
<1> DEFINE names == {row[c].name : c \in Channel}
<1>1. PICK ps \in SUBSET Provider :
        /\ Starts(h, "sync")
        /\ Become(h, [Idle EXCEPT !.op = "sync", !.pc = "each", !.todo = ps, !.names = names])
        /\ blame' = IF \E k \in Job : job[k].op = "sync" THEN blame \cup {"sync"} ELSE blame
        /\ UNCHANGED <<mix, tables, process, refresh, clash, spoilt>>
  BY DEF SyncProviders
<1> DEFINE j == [Idle EXCEPT !.op = "sync", !.pc = "each", !.todo = ps, !.names = names]
<1>2. names \in SUBSET (Name \cup {NoName})
  BY JobIs DEF Row
<1> HIDE DEF names
<1>3. j \in JobState /\ j.op = "sync" /\ j.pc = "each" /\ j.on = {} /\ j.cur = {} /\ j.todo = ps
  BY <1>2, IdleJob DEF JobState, JobPcs, Op, Idle
<1>4. Become(h, j) /\ blame' \subseteq {"flag", "panic", "sync"} /\ starts' \in 0..MaxStarts
      /\ UNCHANGED <<mix, tables, process, refresh, clash, spoilt>>
  BY <1>1, JobIs, StartsType
<1> HIDE DEF j
<1>5. Stage(j) /\ Holds(j, free)
  BY <1>3 DEF Stage, Holds
<1> QED BY <1>3, <1>4, <1>5, JobIs, QuietTypes DEF process

LEMMA InsertTypes ==
  ASSUME TablesAndJobs, NEW h \in Job, SyncInsert(h)
  PROVE  TablesAndJobs'
<1>1. PICK p \in job[h].todo, c \in free :
        /\ job[h].pc = "each" /\ ~Skipped(h, p)
        /\ LET r == [SyncBody EXCEPT !.name = NameOf[p]] IN
           /\ Create({c}, r)
           /\ Become(h, [job[h] EXCEPT !.pc = "fill", !.on = {c}, !.todo = @ \ {p}, !.body = r])
        /\ Begins(h, {c}) /\ Tears /\ UNCHANGED <<mix, starts, ability, process, blame>>
  BY DEF SyncInsert
<1> DEFINE r == [SyncBody EXCEPT !.name = NameOf[p]]
           j == [job[h] EXCEPT !.pc = "fill", !.on = {c}, !.todo = job[h].todo \ {p}, !.body = r]
<1>2. p \in Provider /\ c \in Channel /\ job[h] \in JobState
  BY <1>1, JobIs DEF Stage, Holds
<1>3. r \in Row
  BY <1>2, Rows
<1>4. Create({c}, r) /\ Become(h, j)
  BY <1>1
<1> HIDE DEF r
<1>5. /\ row' \in [Channel -> Row] /\ free' \subseteq free /\ {c} \cap free' = {}
      /\ \A d \in free' : row'[d] = row[d]
  BY <1>3, <1>4, CreateTypes
<1>6. /\ j \in JobState /\ j.op = job[h].op /\ j.pc = "fill" /\ j.on = {c} /\ j.cur = job[h].cur
      /\ j.todo \subseteq job[h].todo
  BY <1>2, <1>3 DEF JobState, JobPcs
<1> HIDE DEF j
<1>7. Stage(j) /\ Holds(j, free')
  BY <1>1, <1>5, <1>6, JobIs DEF Stage, Holds
<1>8. /\ refresh' \in [half: BOOLEAN, rows: [Channel -> Row], torn: BOOLEAN]
      /\ clash' \subseteq Channel /\ spoilt' \subseteq Job /\ starts' \in 0..MaxStarts
  BY <1>1, <1>2, TearsType, BeginsType, JobIs
<1>9. \A d \in free' : row'[d] = row[d] /\ ability'[d] = ability[d]
  BY <1>1, <1>5
<1>10. /\ mix' = mix /\ testing' \in BOOLEAN /\ UNCHANGED <<cache, up, crashes, ability>>
       /\ blame' \subseteq {"flag", "panic", "sync"}
  BY <1>1, JobIs DEF process
<1> QED BY <1>4, <1>5, <1>6, <1>7, <1>8, <1>9, <1>10, JobIs, StepTypes

LEMMA WorldTypes ==
  ASSUME TablesAndJobs, RefreshRead \/ RefreshPublish \/ RefreshPanics \/ Crash
  PROVE  TablesAndJobs'
<1>1. CASE RefreshRead \/ RefreshPublish
  <2>1. UNCHANGED <<mix, starts, row, ability, free, job, crashes, testing, clash, spoilt, blame>>
    BY <1>1 DEF RefreshRead, RefreshPublish, tables, process, marks
  <2>2. /\ refresh' \in [half: BOOLEAN, rows: [Channel -> Row], torn: BOOLEAN] /\ up' \in BOOLEAN
        /\ cache' \subseteq Channel \X Group \X Model
    <3>1. refresh \in [half: BOOLEAN, rows: [Channel -> Row], torn: BOOLEAN] /\ up \in BOOLEAN
          /\ cache \subseteq Channel \X Group \X Model /\ row \in [Channel -> Row]
      BY DEF TablesAndJobs, ChannelsTypeOK
    <3>2. CASE RefreshRead
      BY <3>1, <3>2 DEF RefreshRead, process
    <3>3. CASE RefreshPublish
      BY <3>1, <3>3 DEF RefreshPublish, Serving
    <3> QED BY <1>1, <3>2, <3>3
  <2>3. ChannelsTypeOK'
    BY <2>1, <2>2 DEF TablesAndJobs, ChannelsTypeOK
  <2>4. JobsRun' /\ FreshIsEmpty'
    BY <2>1 DEF TablesAndJobs, JobsRun, FreshIsEmpty, Keys
  <2> QED BY <2>3, <2>4 DEF TablesAndJobs
<1>2. CASE RefreshPanics \/ Crash
  <2>1. Dies /\ crashes' \in 0..MaxCrashes /\ blame' \subseteq {"flag", "panic", "sync"}
    <3>1. crashes \in 0..MaxCrashes /\ blame \subseteq {"flag", "panic", "sync"}
      BY DEF TablesAndJobs, ChannelsTypeOK
    <3>2. CASE RefreshPanics
      BY <3>1, <3>2 DEF RefreshPanics
    <3>3. CASE Crash
      BY <3>1, <3>3 DEF Crash
    <3> QED BY <1>2, <3>2, <3>3
  <2>2. UNCHANGED <<mix, starts, row, ability, free>> /\ job' = [h \in Job |-> Idle]
        /\ testing' = FALSE /\ up' = FALSE /\ cache' = {} /\ spoilt' = {}
    BY <2>1 DEF Dies, tables
  <2>3. clash' \subseteq Channel /\ refresh' \in [half: BOOLEAN, rows: [Channel -> Row], torn: BOOLEAN]
    <3>1. \A h \in Job : job[h].on \subseteq Channel
      BY JobIs DEF JobState
    <3>2. clash \subseteq Channel /\ refresh \in [half: BOOLEAN, rows: [Channel -> Row], torn: BOOLEAN]
      BY DEF TablesAndJobs, ChannelsTypeOK
    <3>3. clash' = clash \cup UNION {job[h].on : h \in Job} /\ refresh' = [refresh EXCEPT !.half = FALSE]
      BY <2>1 DEF Dies
    <3>4. UNION {job[h].on : h \in Job} \subseteq Channel
      BY <3>1
    <3> QED BY <3>2, <3>3, <3>4
  <2>4. ChannelsTypeOK'
    BY <2>1, <2>2, <2>3, IdleJob DEF TablesAndJobs, ChannelsTypeOK
  <2>5. JobsRun'
    BY <2>2, IdleJob DEF JobsRun
  <2>6. FreshIsEmpty'
    BY <2>2 DEF TablesAndJobs, FreshIsEmpty, Keys
  <2> QED BY <2>4, <2>5, <2>6 DEF TablesAndJobs
<1> QED BY <1>1, <1>2

LEMMA NextTypes == TablesAndJobs /\ [ChannelsNext]_channelVars => TablesAndJobs'
<1> SUFFICES ASSUME TablesAndJobs, [ChannelsNext]_channelVars PROVE TablesAndJobs'
  OBVIOUS
<1>1. CASE UNCHANGED channelVars
  BY <1>1 DEF channelVars, tables, marks, process, TablesAndJobs, ChannelsTypeOK, JobsRun, FreshIsEmpty, Keys
<1>2. CASE RefreshRead \/ RefreshPublish \/ RefreshPanics \/ Crash
  BY <1>2, WorldTypes
<1>3. ASSUME NEW h \in Job, Start(h) \/ Background(h) \/ ListFails(h) PROVE TablesAndJobs'
  <2>1. CASE Start(h)
    BY <2>1, AddTypes, UpdateTypes, DeleteTypes, PurgeTypes, DisableTypes, LoopTypes, SyncTypes
    DEF Start
  <2>2. CASE Background(h)
    BY <2>2, FillTypes, ReloadTypes, DropTypes, SetStatusTypes, ListTypes, ProbeTypes, JudgeTypes,
       LoopTypes, InsertTypes DEF Background
  <2> QED BY <1>3, <2>1, <2>2, LoopTypes
<1> QED BY <1>1, <1>2, <1>3 DEF ChannelsNext

LEMMA InitTypes == ChannelsInit => TablesAndJobs
<1> SUFFICES ASSUME ChannelsInit PROVE TablesAndJobs
  OBVIOUS
<1>1. PICK s \in {"enabled", "manual"} :
        row = [c \in Channel |-> IF c \in Old THEN [SyncBody EXCEPT !.status = s, !.name = NoName] ELSE Absent]
  BY DEF ChannelsInit
<1> DEFINE r == [SyncBody EXCEPT !.status = s, !.name = NoName]
<1>2. r \in Row
  BY Rows DEF Row, Status
<1> HIDE DEF r
<1>3. row \in [Channel -> Row] /\ \A c \in Channel : row[c] = IF c \in Old THEN r ELSE Absent
  BY <1>1, <1>2, Rows DEF r
<1>4. \A c \in Channel : Pairs(row[c]) \in SUBSET (Group \X Model)
  BY <1>3 DEF Pairs, Row
<1>5. /\ ability \in [Channel -> [on: SUBSET (Group \X Model), off: SUBSET (Group \X Model)]]
      /\ \A c \in Channel : ability[c].on \cap ability[c].off = {} /\ Keys(c) = Pairs(row[c])
  BY <1>4 DEF ChannelsInit, Keys
<1>6. cache \subseteq Channel \X Group \X Model
  BY DEF ChannelsInit, Serving
<1>7. ChannelsTypeOK
  <2>1. job \in [Job -> JobState] /\ refresh \in [half: BOOLEAN, rows: [Channel -> Row], torn: BOOLEAN]
    BY <1>3, IdleJob DEF ChannelsInit
  <2>2. /\ mix \in Mixes /\ free \subseteq Channel /\ testing \in BOOLEAN /\ up \in BOOLEAN
        /\ crashes \in 0..MaxCrashes /\ starts \in 0..MaxStarts
        /\ clash \subseteq Channel /\ spoilt \subseteq Job /\ blame \subseteq {"flag", "panic", "sync"}
    <3>1. /\ mix \in Mixes /\ free = Channel \ Old /\ testing = FALSE /\ up = TRUE
          /\ crashes = 0 /\ starts = 0 /\ clash = {} /\ spoilt = {} /\ blame = {}
      BY DEF ChannelsInit
    <3>2. 0 \in 0..MaxCrashes /\ 0 \in 0..MaxStarts
      OBVIOUS
    <3>3. testing \in BOOLEAN /\ up \in BOOLEAN
      BY <3>1
    <3> QED BY <3>1, <3>2, <3>3, Zenon
  <2> QED BY <1>3, <1>5, <1>6, <2>1, <2>2 DEF ChannelsTypeOK
<1>8. JobsRun
  BY IdleJob DEF ChannelsInit, JobsRun
<1>9. FreshIsEmpty
  BY <1>3, <1>5, Rows DEF ChannelsInit, FreshIsEmpty
<1> QED BY <1>7, <1>8, <1>9 DEF TablesAndJobs

\* The types of the tables, the jobs, the cache and the marks hold in every state.
THEOREM ChannelTypes == ChannelsSpec => []ChannelsTypeOK
<1>1. ChannelsSpec => []TablesAndJobs
  BY InitTypes, NextTypes, PTL DEF ChannelsSpec
<1>2. TablesAndJobs => ChannelsTypeOK
  BY DEF TablesAndJobs
<1> QED BY <1>1, <1>2, PTL

-----------------------------------------------------------------------------
(* One test loop, and what a sync knows.                                   *)

\* A step of h that leaves the loops, the syncs and the flag as they are.
OpsKept(h) ==
  /\ \A k \in Job \ {h} : job'[k] = job[k]
  /\ job'[h].op = "test" <=> job[h].op = "test"
  /\ job'[h].op = "sync" =>
       job[h].op = "sync" /\ job'[h].names = job[h].names /\ job'[h].todo = job[h].todo
  /\ testing' = testing /\ blame' = blame

\* The administrators name no channel after a provider.
Unnamed == \A b \in Bodies : b.name = NoName

\* The names a step leaves.
NamesKept == \A c \in Channel : row'[c].name \in {row[c].name, NoName}

LEMMA BecomeIs ==
  ASSUME TablesAndJobs, NEW h \in Job, NEW j, Become(h, j)
  PROVE  job'[h] = j /\ \A k \in Job \ {h} : job'[k] = job[k]
BY JobIs DEF Become

LEMMA StartIdle ==
  ASSUME TablesAndJobs, NEW h \in Job, NEW op, Starts(h, op)
  PROVE  job[h] = Idle /\ job[h].op = "none"
BY JobIs, IdleJob DEF Starts, Stage

LEMMA SwitchKeeps ==
  ASSUME TablesAndJobs, NEW h \in Job, NEW c, NEW s, NEW j \in JobState, Switch(h, c, s, j),
         j.op = job[h].op \/ (j.op = "switch" /\ job[h].op = "none"), j.op # "sync"
  PROVE  OpsKept(h) /\ row' = row
<1> DEFINE n == [j EXCEPT !.pc = "status", !.on = {c}, !.body = [Absent EXCEPT !.status = s], !.then = j.pc]
<1>1. n.op = j.op
  BY DEF JobState
<1>2. Become(h, n) /\ UNCHANGED <<row, testing, blame>>
  BY DEF Switch, process
<1> HIDE DEF n
<1>3. job'[h].op = j.op /\ \A k \in Job \ {h} : job'[k] = job[k]
  BY <1>1, <1>2, BecomeIs
<1> QED BY <1>2, <1>3 DEF OpsKept

LEMMA StartKeeps ==
  ASSUME TablesAndJobs, NEW h \in Job,
         \/ AddChannel(h) \/ UpdateChannel(h) \/ DeleteChannel(h) \/ DeleteDisabledChannel(h)
         \/ DisableChannel(h) \/ UpdateAllChannelsBalance(h)
  PROVE  OpsKept(h) /\ (Unnamed => NamesKept)
<1> DEFINE begun(op, pc, on, b) == [Idle EXCEPT !.op = op, !.pc = pc, !.on = on, !.body = b]
<1>1. \A op, pc, on, b : begun(op, pc, on, b).op = op
  BY DEF Idle
<1>2. Absent.name = NoName
  BY DEF Absent
<1>3. CASE AddChannel(h)
  <2>1. PICK cs \in SUBSET Channel : \E b \in Bodies :
          /\ Starts(h, "add") /\ Create(cs, b) /\ Become(h, begun("add", "fill", cs, b))
          /\ UNCHANGED <<process, blame>>
    BY <1>3 DEF AddChannel
  <2>2. PICK b \in Bodies :
          /\ Starts(h, "add") /\ Create(cs, b) /\ Become(h, begun("add", "fill", cs, b))
          /\ UNCHANGED <<process, blame>>
    BY <2>1
  <2>3. b \in Row
    OBVIOUS
  <2>4. ASSUME Unnamed PROVE NamesKept
    <3> HIDE DEF begun
    <3>0. Create(cs, b) /\ b \in Row
      BY <2>2, <2>3
    <3>1. \A c \in Channel : row'[c] = b \/ row'[c] = row[c]
      BY <3>0 DEF Create
    <3> QED BY <2>3, <2>4, <3>1 DEF NamesKept, Unnamed
  <2> HIDE DEF begun
  <2> QED BY <1>1, <2>2, <2>4, BecomeIs, StartIdle DEF OpsKept, process
<1>4. CASE UpdateChannel(h)
  <2>1. PICK c, b, st :
          /\ c \in Channel /\ b \in Bodies
          /\ Starts(h, "update")
          /\ row' = row \/ row' = [row EXCEPT ![c] = [b EXCEPT !.status = st, !.name = row[c].name]]
          /\ \E r : Become(h, begun("update", "reload", {c}, r))
          /\ UNCHANGED <<process, blame>>
    <3>1. PICK c \in Channel \ free : \E b \in Bodies, keep \in BOOLEAN :
        /\ Starts(h, "update")
        /\ LET r == IF keep THEN [b EXCEPT !.status = "absent"] ELSE b IN
           /\ row' = IF ~Exists(c) THEN row
                     ELSE [row EXCEPT ![c] = [b EXCEPT !.status = IF keep THEN row[c].status ELSE @,
                                                       !.name = row[c].name]]
           /\ Become(h, begun("update", "reload", {c}, r))
        /\ UNCHANGED <<process, blame>>
      BY <1>4 DEF UpdateChannel
    <3> HIDE DEF begun
    <3> QED BY <3>1
  <2>2. b \in Row /\ row \in [Channel -> Row]
    BY <2>1, JobIs
  <2>3. NamesKept
    <3> DEFINE new == [b EXCEPT !.status = st, !.name = row[c].name]
    <3>1. new.name = row[c].name
      BY <2>2 DEF Row
    <3>2. row' = row \/ row' = [row EXCEPT ![c] = new]
      BY <2>1
    <3> HIDE DEF new
    <3> QED BY <2>2, <3>1, <3>2 DEF NamesKept
  <2> HIDE DEF begun
  <2>4. job'[h].op = "update" /\ \A k \in Job \ {h} : job'[k] = job[k]
    BY <1>1, <2>1, BecomeIs
  <2> QED BY <2>1, <2>3, <2>4, StartIdle DEF OpsKept, process
<1>5. CASE DeleteChannel(h)
  <2>1. PICK c \in Channel :
          /\ Starts(h, "delete") /\ row' = [row EXCEPT ![c] = Absent]
          /\ Become(h, [Idle EXCEPT !.op = "delete", !.pc = "drop", !.on = {c}])
          /\ UNCHANGED <<process, blame>>
    BY <1>5 DEF DeleteChannel
  <2>2. NamesKept
    BY <1>2, <2>1, JobIs DEF NamesKept
  <2>3. [Idle EXCEPT !.op = "delete", !.pc = "drop", !.on = {c}].op = "delete"
    BY DEF Idle
  <2>4. job'[h].op = "delete" /\ \A k \in Job \ {h} : job'[k] = job[k]
    BY <2>1, <2>3, BecomeIs
  <2> QED BY <2>1, <2>2, <2>4, StartIdle DEF OpsKept, process
<1>6. CASE DeleteDisabledChannel(h)
  <2>1. /\ row' = [c \in Channel |-> IF row[c].status \in {"auto", "manual"} THEN Absent ELSE row[c]]
        /\ UNCHANGED <<job, process, blame>>
    BY <1>6 DEF DeleteDisabledChannel
  <2> QED BY <1>2, <2>1 DEF OpsKept, NamesKept, process
<1>7. CASE DisableChannel(h)
  <2> DEFINE j == [Idle EXCEPT !.op = "switch"]
  <2>1. PICK c \in Channel : Starts(h, "switch") /\ Switch(h, c, "auto", j)
    BY <1>7 DEF DisableChannel
  <2>2. j \in JobState /\ j.op = "switch"
    BY IdleJob DEF JobState, Op
  <2> HIDE DEF j
  <2> QED BY <2>1, <2>2, StartIdle, SwitchKeeps DEF NamesKept
<1>8. CASE UpdateAllChannelsBalance(h)
  <2>1. Starts(h, "balance") /\ Become(h, [Idle EXCEPT !.op = "balance", !.pc = "list"])
        /\ UNCHANGED <<row, process, blame>>
    BY <1>8 DEF UpdateAllChannelsBalance, tables, marks
  <2>2. [Idle EXCEPT !.op = "balance", !.pc = "list"].op = "balance"
    BY DEF Idle
  <2>3. job'[h].op = "balance" /\ \A k \in Job \ {h} : job'[k] = job[k]
    BY <2>1, <2>2, BecomeIs
  <2> QED BY <2>1, <2>3, StartIdle DEF OpsKept, NamesKept, process
<1> QED BY <1>3, <1>4, <1>5, <1>6, <1>7, <1>8

LEMMA WorkKeeps ==
  ASSUME TablesAndJobs, NEW h \in Job,
         \/ FillAbilities(h) \/ Reload(h) \/ DropAbilities(h) \/ SetStatus(h) \/ ListChannels(h)
         \/ TestProbe(h) \/ TestJudge(h) \/ BalanceProbe(h) \/ SyncOver(h)
  PROVE  OpsKept(h) /\ NamesKept
<1> DEFINE jh == job[h]
<1>1. jh \in JobState /\ Stage(jh) /\ row \in [Channel -> Row]
  BY JobIs
<1>2. ASSUME NEW j, Become(h, j), UNCHANGED <<testing, blame, row>>,
             \/ j = Idle /\ jh.op # "test"
             \/ j.op = jh.op /\ j.names = jh.names /\ (j.op = "sync" => j.todo = jh.todo)
      PROVE  OpsKept(h) /\ NamesKept
  <2>1. job'[h] = j /\ \A k \in Job \ {h} : job'[k] = job[k]
    BY <1>2, BecomeIs
  <2> QED BY <1>2, <2>1, IdleJob DEF OpsKept, NamesKept
<1>3. CASE FillAbilities(h)
  <2>1. PICK c, j :
          /\ c \in jh.on
          /\ jh.pc = "fill" /\ Become(h, j) /\ UNCHANGED <<testing, blame, row>>
          /\ \/ j = Idle
             \/ j = [jh EXCEPT !.pc = "each", !.on = {}]
             \/ j = [jh EXCEPT !.on = @ \ {c}]
    BY <1>3 DEF FillAbilities, process
  <2>2. jh.op # "test"
    BY <1>1, <2>1 DEF Stage
  <2>3. CASE j = Idle
    BY <1>2, <2>1, <2>2, <2>3
  <2>4. CASE j = [jh EXCEPT !.pc = "each", !.on = {}] \/ j = [jh EXCEPT !.on = @ \ {c}]
    <3>1. j.op = jh.op /\ j.names = jh.names /\ j.todo = jh.todo
      BY <1>1, <2>4 DEF JobState
    <3> QED BY <1>2, <2>1, <3>1
  <2> QED BY <2>1, <2>3, <2>4
<1>4. CASE Reload(h)
  <2>1. PICK b : Become(h, [jh EXCEPT !.pc = "drop", !.body = b]) /\ UNCHANGED <<testing, blame, row>>
    BY <1>4 DEF Reload, process, tables
  <2> DEFINE j == [jh EXCEPT !.pc = "drop", !.body = b]
  <2>2. j.op = jh.op /\ j.names = jh.names /\ j.todo = jh.todo
    BY <1>1 DEF JobState
  <2> QED BY <1>2, <2>1, <2>2
<1>5. CASE DropAbilities(h)
  <2>1. PICK j :
          /\ Become(h, j) /\ UNCHANGED <<testing, blame, row>>
          /\ (j = Idle /\ jh.op = "delete") \/ j = [jh EXCEPT !.pc = "fill"]
    BY <1>5 DEF DropAbilities, process, marks
  <2>2. CASE j = [jh EXCEPT !.pc = "fill"]
    <3>1. j.op = jh.op /\ j.names = jh.names /\ j.todo = jh.todo
      BY <1>1, <2>2 DEF JobState
    <3> QED BY <1>2, <2>1, <3>1
  <2> QED BY <1>2, <2>1, <2>2
<1>6. CASE SetStatus(h)
  <2>1. PICK c, j, s :
          /\ c \in jh.on
          /\ jh.pc = "status" /\ Become(h, j) /\ UNCHANGED <<testing, blame>>
          /\ row' = row \/ row' = [row EXCEPT ![c].status = s]
          /\ (j = Idle /\ jh.then = "idle") \/ j = [jh EXCEPT !.pc = jh.then, !.on = {}]
    BY <1>6 DEF SetStatus, process
  <2>2. NamesKept
    BY <1>1, <2>1 DEF NamesKept, Row
  <2>3. jh.then = "idle" => jh.op # "test"
    BY <1>1, <2>1 DEF Stage
  <2>4. \/ j = Idle /\ jh.op # "test"
        \/ j.op = jh.op /\ j.names = jh.names /\ j.todo = jh.todo
    BY <1>1, <2>1, <2>3 DEF JobState
  <2>5. job'[h] = j /\ \A k \in Job \ {h} : job'[k] = job[k]
    BY <2>1, BecomeIs
  <2> HIDE DEF jh
  <2>6. OpsKept(h)
    BY <2>1, <2>4, <2>5, IdleJob DEF OpsKept, jh
  <2> QED BY <2>2, <2>6
<1>7. CASE ListChannels(h)
  <2>1. PICK todo, seen :
          /\ jh.pc = "list" /\ Become(h, [jh EXCEPT !.pc = "probe", !.todo = todo, !.seen = seen])
          /\ UNCHANGED <<testing, blame, row>>
    BY <1>7 DEF ListChannels, process, marks, tables
  <2> DEFINE j == [jh EXCEPT !.pc = "probe", !.todo = todo, !.seen = seen]
  <2>2. j.op = jh.op /\ j.names = jh.names /\ jh.op # "sync"
    BY <1>1, <2>1 DEF JobState, Stage
  <2> QED BY <1>2, <2>1, <2>2
<1>8. CASE TestProbe(h) \/ BalanceProbe(h)
  <2>1. PICK c, j :
        /\ c \in jh.todo
        /\ jh.op # "sync"
        /\ j = [jh EXCEPT !.pc = "judge", !.todo = @ \ {c}, !.cur = {c}] \/ j = [jh EXCEPT !.todo = @ \ {c}]
        /\ (Become(h, j) /\ UNCHANGED <<testing, blame, row>>) \/ Switch(h, c, "auto", j)
    <3>1. CASE TestProbe(h)
      BY <3>1 DEF TestProbe, process, marks, tables
    <3>2. CASE BalanceProbe(h)
      BY <3>2 DEF BalanceProbe, process, marks, tables
    <3> QED BY <1>8, <3>1, <3>2
  <2>2. j.op = jh.op /\ j.names = jh.names
    BY <1>1, <2>1 DEF JobState
  <2>3. j \in JobState
    <3>1. c \in Channel
      BY <1>1, <1>8, <2>1, JobIs DEF TestProbe, BalanceProbe, Holds
    <3>2. CASE j = [jh EXCEPT !.pc = "judge", !.todo = @ \ {c}, !.cur = {c}]
      <4> HIDE DEF jh
      <4> QED BY <1>1, <3>1, <3>2 DEF JobState, JobPcs
    <3>3. CASE j = [jh EXCEPT !.todo = @ \ {c}]
      <4> HIDE DEF jh
      <4> QED BY <1>1, <3>3 DEF JobState
    <3> QED BY <2>1, <3>2, <3>3
  <2>4. CASE Become(h, j) /\ UNCHANGED <<testing, blame, row>>
    BY <1>2, <2>1, <2>2, <2>4
  <2>5. CASE Switch(h, c, "auto", j)
    BY <2>1, <2>2, <2>3, <2>5, SwitchKeeps DEF NamesKept
  <2> QED BY <2>1, <2>4, <2>5
<1>9. CASE TestJudge(h)
  <2> DEFINE j == [jh EXCEPT !.pc = "probe", !.cur = {}]
  <2>1. PICK c, s :
        /\ jh.pc = "judge"
        /\ (Become(h, j) /\ UNCHANGED <<testing, blame, row>>) \/ Switch(h, c, s, j)
    BY <1>9 DEF TestJudge, process, marks, tables
  <2>2. j \in JobState /\ j.op = jh.op /\ j.names = jh.names /\ j.todo = jh.todo /\ j.op # "sync"
    BY <1>1, <2>1 DEF JobState, JobPcs, Stage
  <2> HIDE DEF j
  <2>3. CASE Become(h, j) /\ UNCHANGED <<testing, blame, row>>
    BY <1>2, <2>2, <2>3
  <2>4. CASE Switch(h, c, s, j)
    BY <2>2, <2>4, SwitchKeeps DEF NamesKept
  <2> QED BY <2>1, <2>3, <2>4
<1>10. CASE SyncOver(h)
  <2>1. jh.pc = "each" /\ Become(h, Idle) /\ UNCHANGED <<testing, blame, row>>
    BY <1>10 DEF SyncOver, process, marks, tables
  <2> QED BY <1>1, <1>2, <2>1 DEF Stage
<1> QED BY <1>3, <1>4, <1>5, <1>6, <1>7, <1>8, <1>9, <1>10

LEMMA LoopsKept ==
  ASSUME OneLoop, NEW h \in Job, OpsKept(h)
  PROVE  OneLoop'
<1>1. \A k \in Job : job'[k].op = "test" <=> job[k].op = "test"
  BY DEF OpsKept
<1>2. testing' = testing /\ blame' = blame
  BY DEF OpsKept
<1> QED BY <1>1, <1>2 DEF OneLoop

LEMMA SyncsKept ==
  ASSUME SyncKnows, NEW h \in Job, OpsKept(h), NamesKept
  PROVE  SyncKnows'
<1>1. \A k \in Job : job'[k].op = "sync" =>
        job[k].op = "sync" /\ job'[k].names = job[k].names /\ job'[k].todo = job[k].todo
  BY DEF OpsKept
<1>2. blame' = blame /\ \A c \in Channel : row'[c].name \in {row[c].name, NoName}
  BY DEF OpsKept, NamesKept
<1> QED BY <1>1, <1>2 DEF SyncKnows

\* The steps that start or end a loop or a sync, or insert a channel.
LEMMA LoopSteps ==
  ASSUME TablesAndJobs, OneLoop, NEW h \in Job,
         TestChannels(h) \/ ListFails(h) \/ LoopOver(h) \/ SyncProviders(h) \/ SyncInsert(h)
  PROVE  OneLoop'
<1>1. CASE TestChannels(h)
  <2>1. ~testing /\ testing' = TRUE /\ Become(h, [Idle EXCEPT !.op = "test", !.pc = "list"])
        /\ blame' = blame
    BY <1>1 DEF TestChannels, marks
  <2>2. [Idle EXCEPT !.op = "test", !.pc = "list"].op = "test"
    BY DEF Idle
  <2>3. job'[h].op = "test" /\ \A k \in Job \ {h} : job'[k] = job[k]
    BY <2>1, <2>2, BecomeIs
  <2> QED BY <2>1, <2>3 DEF OneLoop
<1>2. CASE ListFails(h)
  <2>1. /\ Become(h, Idle) /\ testing' = testing
        /\ blame' = IF job[h].op = "test" THEN blame \cup {"flag"} ELSE blame
    BY <1>2 DEF ListFails, process
  <2>2. job'[h].op = "none" /\ \A k \in Job \ {h} : job'[k] = job[k]
    BY <2>1, BecomeIs, IdleJob
  <2>3. CASE job[h].op = "test"
    BY <2>1, <2>2, <2>3 DEF OneLoop
  <2>4. CASE job[h].op # "test"
    <3>1. \A k \in Job : job'[k].op = "test" <=> job[k].op = "test"
      BY <2>2, <2>4
    <3> QED BY <2>1, <2>4, <3>1 DEF OneLoop
  <2> QED BY <2>3, <2>4
<1>3. CASE LoopOver(h)
  <2>1. /\ Become(h, Idle) /\ testing' = (IF job[h].op = "test" THEN FALSE ELSE testing)
        /\ blame' = blame
    BY <1>3 DEF LoopOver, marks
  <2>2. job'[h].op = "none" /\ \A k \in Job \ {h} : job'[k] = job[k]
    BY <2>1, BecomeIs, IdleJob
  <2>3. CASE job[h].op = "test"
    BY <2>1, <2>2, <2>3 DEF OneLoop
  <2>4. CASE job[h].op # "test"
    <3>1. \A k \in Job : job'[k].op = "test" <=> job[k].op = "test"
      BY <2>2, <2>4
    <3> QED BY <2>1, <2>4, <3>1 DEF OneLoop
  <2> QED BY <2>3, <2>4
<1>4. CASE SyncProviders(h)
  <2>1. PICK ps, ns :
          /\ Starts(h, "sync") /\ testing' = testing /\ ("flag" \in blame' <=> "flag" \in blame)
          /\ Become(h, [Idle EXCEPT !.op = "sync", !.pc = "each", !.todo = ps, !.names = ns])
    BY <1>4 DEF SyncProviders, process
  <2>2. [Idle EXCEPT !.op = "sync", !.pc = "each", !.todo = ps, !.names = ns].op = "sync"
    BY DEF Idle
  <2>3. job'[h].op = "sync" /\ \A k \in Job \ {h} : job'[k] = job[k]
    BY <2>1, <2>2, BecomeIs
  <2>4. \A k \in Job : job'[k].op = "test" <=> job[k].op = "test"
    BY <2>1, <2>3, StartIdle
  <2> QED BY <2>1, <2>4 DEF OneLoop
<1>5. CASE SyncInsert(h)
  <2>1. PICK p, c, r :
          /\ job[h].pc = "each" /\ UNCHANGED <<testing, blame>>
          /\ Become(h, [job[h] EXCEPT !.pc = "fill", !.on = {c}, !.todo = @ \ {p}, !.body = r])
    BY <1>5 DEF SyncInsert, process
  <2>2. job[h] \in JobState
    BY JobIs
  <2>3. [job[h] EXCEPT !.pc = "fill", !.on = {c}, !.todo = @ \ {p}, !.body = r].op = job[h].op
    BY <2>2 DEF JobState
  <2>4. job'[h].op = job[h].op /\ \A k \in Job \ {h} : job'[k] = job[k]
    BY <2>1, <2>3, BecomeIs
  <2>5. \A k \in Job : job'[k].op = "test" <=> job[k].op = "test"
    BY <2>4
  <2> QED BY <2>1, <2>5 DEF OneLoop
<1> QED BY <1>1, <1>2, <1>3, <1>4, <1>5

LEMMA DeadLoops ==
  ASSUME RefreshPanics \/ Crash
  PROVE  OneLoop' /\ (SyncKnows => SyncKnows')
<1>1. job' = [h \in Job |-> Idle] /\ testing' = FALSE
  BY DEF RefreshPanics, Crash, Dies
<1>2. "flag" \notin blame' /\ ("sync" \in blame => "sync" \in blame')
  BY DEF RefreshPanics, Crash
<1>3. \A h \in Job : job'[h].op = "none"
  BY <1>1, IdleJob
<1> QED BY <1>1, <1>2, <1>3 DEF OneLoop, SyncKnows

LEMMA SyncSteps ==
  ASSUME TablesAndJobs, SyncKnows, NEW h \in Job,
         TestChannels(h) \/ ListFails(h) \/ LoopOver(h) \/ SyncProviders(h) \/ SyncInsert(h)
  PROVE  SyncKnows'
<1>1. CASE TestChannels(h) \/ ListFails(h) \/ LoopOver(h)
  <2>1. PICK j : Become(h, j) /\ j.op # "sync" /\ row' = row /\ ("sync" \in blame' <=> "sync" \in blame)
    <3>1. [Idle EXCEPT !.op = "test", !.pc = "list"].op = "test" /\ Idle.op = "none"
      BY DEF Idle
    <3>2. CASE TestChannels(h)
      BY <3>1, <3>2 DEF TestChannels, tables, marks
    <3>3. CASE ListFails(h)
      BY <3>1, <3>3 DEF ListFails, tables
    <3>4. CASE LoopOver(h)
      BY <3>1, <3>4 DEF LoopOver, tables, marks
    <3> QED BY <1>1, <3>2, <3>3, <3>4
  <2>2. job'[h].op # "sync" /\ \A k \in Job \ {h} : job'[k] = job[k]
    BY <2>1, BecomeIs
  <2> QED BY <2>1, <2>2 DEF SyncKnows
<1>2. CASE SyncProviders(h)
  <2> DEFINE names == {row[c].name : c \in Channel}
  <2>1. PICK ps :
          /\ Become(h, [Idle EXCEPT !.op = "sync", !.pc = "each", !.todo = ps, !.names = names])
          /\ blame' = IF \E k \in Job : job[k].op = "sync" THEN blame \cup {"sync"} ELSE blame
          /\ row' = row
    BY <1>2 DEF SyncProviders, tables
  <2>2. [Idle EXCEPT !.op = "sync", !.pc = "each", !.todo = ps, !.names = names].names = names
    BY DEF Idle
  <2>3. job'[h].names = names /\ \A k \in Job \ {h} : job'[k] = job[k]
    BY <2>1, <2>2, BecomeIs
  <2>4. \A c \in Channel : row[c].name \in names
    OBVIOUS
  <2> HIDE DEF names
  <2>5. ASSUME "sync" \notin blame', NEW k \in Job, job'[k].op = "sync"
        PROVE  k = h /\ \A c \in Channel : row'[c].name \in job'[k].names
    <3>1. k = h
      BY <2>1, <2>3, <2>5
    <3> QED BY <2>1, <2>3, <2>4, <3>1
  <2> QED BY <2>5 DEF SyncKnows
<1>3. CASE SyncInsert(h)
  <2>1. PICK p \in job[h].todo, c \in free :
          LET r == [SyncBody EXCEPT !.name = NameOf[p]] IN
          /\ job[h].pc = "each" /\ blame' = blame /\ Create({c}, r)
          /\ Become(h, [job[h] EXCEPT !.pc = "fill", !.on = {c}, !.todo = job[h].todo \ {p}, !.body = r])
    BY <1>3 DEF SyncInsert
  <2> DEFINE r == [SyncBody EXCEPT !.name = NameOf[p]]
             j == [job[h] EXCEPT !.pc = "fill", !.on = {c}, !.todo = job[h].todo \ {p}, !.body = r]
  <2>2. job[h] \in JobState /\ job[h].op = "sync" /\ p \in Provider
    BY <2>1, JobIs DEF Stage, Holds
  <2>3. r.name = NameOf[p] /\ r \in Row
    BY <2>2, Rows DEF Row
  <2>4. Create({c}, r) /\ Become(h, j)
    BY <2>1
  <2> HIDE DEF r
  <2>5. j.names = job[h].names /\ j.todo = job[h].todo \ {p} /\ j.op = "sync"
    BY <2>2 DEF JobState
  <2> HIDE DEF j
  <2>6. job'[h] = j /\ \A k \in Job \ {h} : job'[k] = job[k]
    BY <2>4, BecomeIs
  <2>7. \A d \in Channel : row'[d] = row[d] \/ row'[d].name = NameOf[p]
    BY <2>3, <2>4 DEF Create
  <2>8. SUFFICES ASSUME "sync" \notin blame
                 PROVE  /\ \A k, l \in Job : job'[k].op = "sync" /\ job'[l].op = "sync" => k = l
                        /\ \A d \in Channel : row'[d].name \in job[h].names \cup {NoName}
                              \cup {NameOf[q] : q \in Provider \ (job[h].todo \ {p})}
    BY <2>1, <2>5, <2>6 DEF SyncKnows
  <2>9. \A k \in Job : job'[k].op = "sync" <=> job[k].op = "sync"
    BY <2>2, <2>5, <2>6
  <2>10. ASSUME NEW d \in Channel
         PROVE  row'[d].name \in job[h].names \cup {NoName}
                              \cup {NameOf[q] : q \in Provider \ (job[h].todo \ {p})}
    <3>1. CASE row'[d].name = NameOf[p]
      BY <2>2, <3>1
    <3>2. CASE row'[d] = row[d]
      BY <2>2, <2>8, <3>2 DEF SyncKnows
    <3> QED BY <2>7, <3>1, <3>2
  <2> QED BY <2>8, <2>9, <2>10 DEF SyncKnows
<1> QED BY <1>1, <1>2, <1>3

\* The steps that rename no channel keep the one of each provider.
LEMMA NoneDoubled ==
  ASSUME OneChannelPerProvider, NamesKept, "sync" \in blame => "sync" \in blame'
  PROVE  OneChannelPerProvider'
BY DEF NamesKept, OneChannelPerProvider

LEMMA InsertedOnce ==
  ASSUME TablesAndJobs, SyncKnows, OneChannelPerProvider, NEW h \in Job, SyncInsert(h)
  PROVE  OneChannelPerProvider'
<1>1. PICK p \in job[h].todo, c \in free :
        /\ job[h].pc = "each" /\ ~Skipped(h, p) /\ blame' = blame
        /\ Create({c}, [SyncBody EXCEPT !.name = NameOf[p]])
  BY DEF SyncInsert
<1>2. job[h].op = "sync" /\ p \in Provider /\ NameOf[p] \notin job[h].names
  BY <1>1, JobIs DEF Stage, Holds, Skipped
<1>3. [SyncBody EXCEPT !.name = NameOf[p]].name = NameOf[p]
  BY DEF Row
<1>4. NameOf[p] # NoName
  BY <1>2 DEF Name
<1>5. row'[c].name = NameOf[p] /\ \A d \in Channel \ {c} : row'[d] = row[d]
  BY <1>1, <1>3, JobIs DEF Create
<1>6. ASSUME NEW d \in Channel \ {c}, row[d].name = NameOf[p], "sync" \notin blame
      PROVE  \E q \in Provider : q # p /\ NameOf[q] = NameOf[p]
  <2>1. row[d].name \in job[h].names \cup {NoName} \cup {NameOf[q] : q \in Provider \ job[h].todo}
    BY <1>2, <1>6 DEF SyncKnows
  <2> QED BY <1>1, <1>2, <1>4, <1>6, <2>1
<1>7. ASSUME NEW a \in Channel, NEW b \in Channel, a # b, row'[a].name = row'[b].name,
             row'[a].name # NoName, "sync" \notin blame
      PROVE  \E p1, q \in Provider : p1 # q /\ NameOf[p1] = row'[a].name /\ NameOf[q] = row'[a].name
  <2>1. CASE a = c
    BY <1>2, <1>5, <1>6, <1>7, <2>1
  <2>2. CASE b = c
    BY <1>2, <1>5, <1>6, <1>7, <2>2
  <2>3. CASE a # c /\ b # c
    BY <1>5, <1>7, <2>3 DEF OneChannelPerProvider
  <2> QED BY <2>1, <2>2, <2>3
<1> QED BY <1>1, <1>7 DEF OneChannelPerProvider

\* The other steps of a job leave loops, syncs and names as they are.
LEMMA OthersKeep ==
  ASSUME TablesAndJobs, NEW h \in Job, Start(h) \/ Background(h) \/ ListFails(h)
  PROVE  \/ OpsKept(h) /\ (Unnamed => NamesKept)
         \/ TestChannels(h) \/ ListFails(h) \/ LoopOver(h) \/ SyncProviders(h) \/ SyncInsert(h)
<1>1. CASE Start(h)
  BY <1>1, StartKeeps DEF Start
<1>2. CASE Background(h)
  BY <1>2, WorkKeeps DEF Background
<1> QED BY <1>1, <1>2

LEMMA LoopNext == TablesAndJobs /\ OneLoop /\ [ChannelsNext]_channelVars => OneLoop'
<1> SUFFICES ASSUME TablesAndJobs, OneLoop, [ChannelsNext]_channelVars PROVE OneLoop'
  OBVIOUS
<1>1. CASE UNCHANGED channelVars
  BY <1>1 DEF channelVars, process, marks, OneLoop
<1>2. CASE RefreshRead \/ RefreshPublish
  BY <1>2 DEF RefreshRead, RefreshPublish, process, marks, OneLoop
<1>3. CASE RefreshPanics \/ Crash
  BY <1>3, DeadLoops
<1>4. ASSUME NEW h \in Job, Start(h) \/ Background(h) \/ ListFails(h) PROVE OneLoop'
  BY <1>4, OthersKeep, LoopsKept, LoopSteps
<1> QED BY <1>1, <1>2, <1>3, <1>4 DEF ChannelsNext

LEMMA SyncNext ==
  ASSUME Unnamed
  PROVE  TablesAndJobs /\ SyncKnows /\ OneChannelPerProvider /\ [ChannelsNext]_channelVars
           => SyncKnows' /\ OneChannelPerProvider'
<1> SUFFICES ASSUME TablesAndJobs, SyncKnows, OneChannelPerProvider, [ChannelsNext]_channelVars
             PROVE  SyncKnows' /\ OneChannelPerProvider'
  OBVIOUS
<1>1. CASE UNCHANGED channelVars \/ RefreshRead \/ RefreshPublish
  <2>1. UNCHANGED <<row, job, blame>>
    BY <1>1 DEF channelVars, tables, marks, RefreshRead, RefreshPublish
  <2> QED BY <2>1 DEF SyncKnows, OneChannelPerProvider
<1>2. CASE RefreshPanics \/ Crash
  <2>1. row' = row /\ ("sync" \in blame => "sync" \in blame')
    BY <1>2 DEF RefreshPanics, Crash, Dies, tables
  <2> QED BY <1>2, <2>1, DeadLoops DEF OneChannelPerProvider
<1>3. ASSUME NEW h \in Job, Start(h) \/ Background(h) \/ ListFails(h)
      PROVE  SyncKnows' /\ OneChannelPerProvider'
  <2>1. CASE OpsKept(h) /\ NamesKept
    <3>1. blame' = blame
      BY <2>1 DEF OpsKept
    <3> QED BY <2>1, <3>1, SyncsKept, NoneDoubled
  <2>2. CASE TestChannels(h) \/ ListFails(h) \/ LoopOver(h) \/ SyncProviders(h)
    <3>1. row' = row /\ ("sync" \in blame => "sync" \in blame')
      BY <2>2 DEF TestChannels, ListFails, LoopOver, SyncProviders, tables, marks
    <3>2. OneChannelPerProvider'
      BY <3>1 DEF OneChannelPerProvider
    <3> QED BY <2>2, <3>2, SyncSteps
  <2>3. CASE SyncInsert(h)
    BY <2>3, SyncSteps, InsertedOnce
  <2> QED BY <1>3, <2>1, <2>2, <2>3, OthersKeep
<1> QED BY <1>1, <1>2, <1>3 DEF ChannelsNext

\* testChannels: its flag is up exactly while one loop runs, or since a list of channels
\* could not be read, and no two loops run together, whatever else runs and dies.
THEOREM FlagFollowsTheLoop == ChannelsSpec => []FlagIsTheLoop
<1>1. ChannelsInit => OneLoop
  BY IdleJob DEF ChannelsInit, OneLoop
<1>2. ChannelsSpec => [](TablesAndJobs /\ OneLoop)
  BY <1>1, InitTypes, NextTypes, LoopNext, PTL DEF ChannelsSpec
<1>3. TablesAndJobs /\ OneLoop => FlagIsTheLoop
  <2> SUFFICES ASSUME TablesAndJobs, OneLoop PROVE FlagIsTheLoop
    OBVIOUS
  <2> DEFINE loops == {h \in Job : job[h].op = "test"}
  <2>1. testing = (loops # {} \/ "flag" \in blame)
    <3>1. testing \in BOOLEAN /\ (testing <=> (loops # {} \/ "flag" \in blame))
      BY DEF OneLoop, TablesAndJobs, ChannelsTypeOK
    <3> QED BY <3>1
  <2>2. Cardinality(loops) <= 1
    <3>1. CASE loops = {}
      BY <3>1, FS_EmptySet
    <3>2. CASE loops # {}
      <4>1. PICK h \in Job : loops = {h}
        BY <3>2 DEF OneLoop
      <4>2. Cardinality({h}) = 1
        BY FS_Singleton
      <4> QED BY <4>1, <4>2
    <3> QED BY <3>1, <3>2
  <2> QED BY <2>1, <2>2 DEF FlagIsTheLoop
<1> QED BY <1>2, <1>3, PTL

\* SyncProviders: as long as administrators give no channel a provider's name, two
\* channels have one name only if two providers have it, or two syncs ran together.
THEOREM ProviderInsertedOnce ==
  ASSUME Unnamed
  PROVE  ChannelsSpec => []OneChannelPerProvider
<1>1. ChannelsInit => SyncKnows /\ OneChannelPerProvider
  <2> SUFFICES ASSUME ChannelsInit PROVE SyncKnows /\ OneChannelPerProvider
    OBVIOUS
  <2>1. \A c \in Channel : row[c].name = NoName
    BY DEF ChannelsInit, Absent, Row
  <2>2. \A h \in Job : job[h].op = "none"
    BY IdleJob DEF ChannelsInit
  <2> QED BY <2>1, <2>2 DEF SyncKnows, OneChannelPerProvider
<1>2. TablesAndJobs /\ SyncKnows /\ OneChannelPerProvider /\ [ChannelsNext]_channelVars
        => SyncKnows' /\ OneChannelPerProvider'
  BY SyncNext
<1> QED BY <1>1, <1>2, InitTypes, NextTypes, PTL DEF ChannelsSpec

-----------------------------------------------------------------------------
(* The tables agree where no one writes.                                   *)

Agreement == WritersKnow /\ Settled

\* What a job knows of a channel that others leave alone.
LEMMA MidwayKept ==
  ASSUME NEW k \in Job, NEW d \in Channel, Midway(k, d),
         job'[k].op = job[k].op, job'[k].pc = job[k].pc, job'[k].body = job[k].body,
         row'[d] = row[d], ability'[d] = ability[d], d \notin clash' => d \notin clash,
         \A l \in Job \ {k} : d \notin job'[l].on
  PROVE  Midway(k, d)'
<1>1. (Exists(d) <=> Exists(d)') /\ Keys(d)' = Keys(d)
  BY DEF Exists, Keys
<1> QED BY <1>1 DEF Midway

\* A job begins to write the channels cs, which nothing else disturbs.
LEMMA BeginsMeet ==
  ASSUME NEW h \in Job, NEW cs \in SUBSET Channel, Begins(h, cs),
         \A k \in Job \ {h} : job'[k] = job[k]
  PROVE  /\ \A k \in Job \ {h}, c \in Channel : Tidy(k, c)' => Tidy(k, c) /\ c \notin cs
         /\ \A c \in cs : Tidy(h, c)' => \A k \in Job \ {h} : c \notin job[k].on
         /\ \A c \in cs : c \notin clash' => \A k \in Job \ {h} : c \notin job[k].on
         /\ clash \subseteq clash'
<1> DEFINE rivals == {k \in Job \ {h} : job[k].on \cap cs # {}}
<1>1. /\ clash' = clash \cup {c \in cs : \E k \in rivals : c \in job[k].on}
      /\ spoilt' = IF rivals = {} THEN spoilt \ {h} ELSE spoilt \cup rivals \cup {h}
  BY DEF Begins
<1>2. ASSUME NEW c \in cs, c \notin clash', NEW k \in Job \ {h} PROVE c \notin job[k].on
  BY <1>1, <1>2
<1>3. ASSUME NEW c \in cs, h \notin spoilt', NEW k \in Job \ {h} PROVE c \notin job[k].on
  BY <1>1, <1>3
<1>4. ASSUME NEW k \in Job \ {h}, NEW c \in Channel, Tidy(k, c)' PROVE Tidy(k, c) /\ c \notin cs
  <2>1. c \in job[k].on
    BY <1>4 DEF Tidy
  <2>2. c \notin cs
    BY <1>1, <1>4, <2>1 DEF Tidy
  <2>3. k \notin spoilt \/ c \notin clash
    BY <1>1, <1>4 DEF Tidy
  <2> QED BY <2>1, <2>2, <2>3 DEF Tidy
<1>5. clash \subseteq clash'
  BY <1>1
<1> HIDE DEF rivals
<1> QED BY <1>2, <1>3, <1>4, <1>5 DEF Tidy

LEMMA BeginsAgrees ==
  ASSUME Agreement, NEW h \in Job, NEW cs \in SUBSET Channel, Begins(h, cs),
         \A k \in Job \ {h} : job'[k] = job[k], job[h].on = {}, job'[h].on = cs,
         \A d \in Channel \ cs : row'[d] = row[d] /\ ability'[d] = ability[d],
         \A c \in cs : Tidy(h, c)' /\ (\A k \in Job \ {h} : c \notin job[k].on) => Midway(h, c)'
  PROVE  Agreement'
<1>1. ASSUME NEW k \in Job, NEW c \in Channel, Tidy(k, c)' PROVE Midway(k, c)'
  <2>1. CASE k = h
    <3>1. c \in cs
      BY <1>1, <2>1 DEF Tidy
    <3> QED BY <1>1, <2>1, <3>1, BeginsMeet
  <2>2. CASE k # h
    <3>1. Tidy(k, c) /\ c \notin cs /\ clash \subseteq clash'
      BY <1>1, <2>2, BeginsMeet
    <3>2. Midway(k, c)
      BY <3>1 DEF Agreement, WritersKnow
    <3>3. \A l \in Job \ {k} : c \notin job'[l].on
      BY <3>1, <3>2 DEF Midway
    <3> QED BY <2>2, <3>1, <3>2, <3>3, MidwayKept
  <2> QED BY <2>1, <2>2
<1>2. ASSUME NEW c \in Channel \ clash', \A k \in Job : c \notin job'[k].on PROVE Agrees(c)'
  <2>1. c \notin cs /\ c \notin clash
    BY <1>2, BeginsMeet
  <2>2. \A k \in Job : c \notin job[k].on
    BY <1>2
  <2>3. Agrees(c)
    BY <2>1, <2>2 DEF Agreement, Settled
  <2> QED BY <2>1, <2>3 DEF Agrees, Exists, Keys
<1> QED BY <1>1, <1>2 DEF Agreement, WritersKnow, Settled

\* A job writes its channel c.
LEMMA WriteAgrees ==
  ASSUME Agreement, NEW h \in Job, NEW c \in Channel, c \in job[h].on,
         \A k \in Job \ {h} : job'[k] = job[k], job'[h].on \subseteq job[h].on,
         job[h].on \subseteq Channel,
         \A d \in Channel \ {c} : row'[d] = row[d] /\ ability'[d] = ability[d],
         spoilt' = spoilt, clash \subseteq (clash' \cup {c}),
         c \in clash /\ c \notin clash' => h \notin spoilt,
         \A d \in job'[h].on : Tidy(h, d)' => Midway(h, d)',
         \A d \in job[h].on \ job'[h].on : d \notin clash' => Agrees(d)'
  PROVE  Agreement'
<1>1. ASSUME NEW k \in Job \ {h}, NEW d \in Channel, Tidy(k, d)'
      PROVE  d # c /\ Tidy(k, d) /\ Midway(k, d)
  <2>1. d \in job[k].on
    BY <1>1 DEF Tidy
  <2>2. d # c
    <3>1. SUFFICES ASSUME d = c PROVE FALSE
      OBVIOUS
    <3>2. CASE c \in clash /\ c \notin clash'
      <4>1. Midway(h, c)
        BY <3>2 DEF Tidy, Agreement, WritersKnow
      <4> QED BY <2>1, <3>1, <4>1 DEF Midway
    <3>3. CASE ~(c \in clash /\ c \notin clash')
      <4>1. Tidy(k, c)
        BY <1>1, <2>1, <3>1, <3>3 DEF Tidy
      <4>2. Midway(k, c)
        BY <4>1 DEF Agreement, WritersKnow
      <4> QED BY <4>2 DEF Midway
    <3> QED BY <3>2, <3>3
  <2>3. Tidy(k, d)
    BY <1>1, <2>1, <2>2 DEF Tidy
  <2> QED BY <2>2, <2>3 DEF Agreement, WritersKnow
<1>2. ASSUME NEW k \in Job, NEW d \in Channel, Tidy(k, d)' PROVE Midway(k, d)'
  <2>1. CASE k = h
    BY <1>2, <2>1 DEF Tidy
  <2>2. CASE k # h
    <3>1. d # c /\ Tidy(k, d) /\ Midway(k, d)
      BY <1>1, <1>2, <2>2
    <3>2. \A l \in Job \ {k} : d \notin job'[l].on
      BY <3>1 DEF Midway
    <3> QED BY <2>2, <3>1, <3>2, MidwayKept
  <2> QED BY <2>1, <2>2
<1>3. ASSUME NEW d \in Channel \ clash', \A k \in Job : d \notin job'[k].on PROVE Agrees(d)'
  <2>1. CASE d \in job[h].on
    BY <1>3, <2>1
  <2>2. CASE d \notin job[h].on
    <3>1. d # c /\ d \notin clash /\ \A k \in Job : d \notin job[k].on
      BY <1>3, <2>2
    <3>2. Agrees(d)
      BY <3>1 DEF Agreement, Settled
    <3> QED BY <3>1, <3>2 DEF Agrees, Exists, Keys
  <2> QED BY <2>1, <2>2
<1> QED BY <1>2, <1>3 DEF Agreement, WritersKnow, Settled

\* A step that writes nothing, of a job that holds no channel.
LEMMA QuietAgrees ==
  ASSUME Agreement, NEW h \in Job, \A k \in Job \ {h} : job'[k] = job[k],
         job[h].on = {}, job'[h].on = {}, UNCHANGED <<row, ability, clash, spoilt>>
  PROVE  Agreement'
<1>1. ASSUME NEW k \in Job, NEW c \in Channel, Tidy(k, c)' PROVE Midway(k, c)'
  <2>1. k # h /\ Tidy(k, c)
    BY <1>1 DEF Tidy
  <2>2. Midway(k, c)
    BY <2>1 DEF Agreement, WritersKnow
  <2>3. \A l \in Job \ {k} : c \notin job'[l].on
    BY <2>2 DEF Midway
  <2> QED BY <2>1, <2>2, <2>3, MidwayKept
<1>2. ASSUME NEW c \in Channel \ clash', \A k \in Job : c \notin job'[k].on PROVE Agrees(c)'
  <2>1. \A k \in Job : c \notin job[k].on
    BY <1>2
  <2>2. Agrees(c)
    BY <1>2, <2>1 DEF Agreement, Settled
  <2> QED BY <2>2 DEF Agrees, Exists, Keys
<1> QED BY <1>1, <1>2 DEF Agreement, WritersKnow, Settled

\* New rows, of channels nobody had.
LEMMA CreateAgrees ==
  ASSUME TablesAndJobs, Agreement, NEW h \in Job, NEW cs, NEW r \in Row, Create(cs, r),
         NEW j, Become(h, j), j.op \in {"add", "sync"}, j.pc = "fill", j.on = cs, j.body = r,
         job[h].on = {}, Begins(h, cs), ability' = ability
  PROVE  Agreement'
<1>1. cs \in SUBSET Channel /\ cs \subseteq free /\ row \in [Channel -> Row]
      /\ row' = [c \in Channel |-> IF c \in cs THEN r ELSE row[c]]
  BY JobIs DEF Create
<1>2. job'[h] = j /\ \A k \in Job \ {h} : job'[k] = job[k]
  BY BecomeIs
<1>3. ASSUME NEW c \in cs PROVE Midway(h, c)'
  <2>1. \A k \in Job \ {h} : c \notin job'[k].on
    BY <1>1, <1>2, JobIs DEF Holds
  <2>2. row'[c] = r /\ Keys(c)' = {}
    BY <1>1 DEF TablesAndJobs, FreshIsEmpty, Keys
  <2> QED BY <1>2, <2>1, <2>2 DEF Midway
<1>4. \A d \in Channel \ cs : row'[d] = row[d] /\ ability'[d] = ability[d]
  BY <1>1
<1> QED BY <1>1, <1>2, <1>3, <1>4, BeginsAgrees

LEMMA AddAgrees ==
  ASSUME TablesAndJobs, Agreement, NEW h \in Job, AddChannel(h) \/ SyncInsert(h)
  PROVE  Agreement'
<1>1. CASE AddChannel(h)
  <2>1. PICK cs \in SUBSET Channel : \E b \in Bodies :
          /\ Starts(h, "add") /\ Create(cs, b) /\ Begins(h, cs) /\ ability' = ability
          /\ Become(h, [Idle EXCEPT !.op = "add", !.pc = "fill", !.on = cs, !.body = b])
    BY <1>1 DEF AddChannel
  <2>2. PICK b \in Bodies :
          /\ Starts(h, "add") /\ Create(cs, b) /\ Begins(h, cs) /\ ability' = ability
          /\ Become(h, [Idle EXCEPT !.op = "add", !.pc = "fill", !.on = cs, !.body = b])
    BY <2>1
  <2> DEFINE j == [Idle EXCEPT !.op = "add", !.pc = "fill", !.on = cs, !.body = b]
  <2>3. j.op = "add" /\ j.pc = "fill" /\ j.on = cs /\ j.body = b
    BY DEF Idle
  <2>4. Become(h, j) /\ b \in Row /\ job[h].on = {} /\ j.op \in {"add", "sync"}
    BY <2>2, <2>3, StartsType
  <2> HIDE DEF j
  <2> QED BY <2>2, <2>3, <2>4, CreateAgrees
<1>2. CASE SyncInsert(h)
  <2>1. PICK p \in job[h].todo, c \in free :
          LET r == [SyncBody EXCEPT !.name = NameOf[p]] IN
          /\ job[h].pc = "each" /\ Create({c}, r) /\ Begins(h, {c}) /\ ability' = ability
          /\ Become(h, [job[h] EXCEPT !.pc = "fill", !.on = {c}, !.todo = @ \ {p}, !.body = r])
    BY <1>2 DEF SyncInsert
  <2> DEFINE r == [SyncBody EXCEPT !.name = NameOf[p]]
             j == [job[h] EXCEPT !.pc = "fill", !.on = {c}, !.todo = @ \ {p}, !.body = r]
  <2>2. job[h] \in JobState /\ job[h].op = "sync" /\ p \in Provider /\ job[h].on = {}
    BY <2>1, JobIs DEF Stage, Holds
  <2>3. r \in Row /\ Create({c}, r) /\ Become(h, j)
    BY <2>1, <2>2, Rows
  <2> HIDE DEF r
  <2>4. j.op = "sync" /\ j.pc = "fill" /\ j.on = {c} /\ j.body = r
    BY <2>2 DEF JobState
  <2> HIDE DEF j
  <2>5. j.op \in {"add", "sync"}
    BY <2>4
  <2> QED BY <2>1, <2>2, <2>3, <2>4, <2>5, CreateAgrees
<1> QED BY <1>1, <1>2

LEMMA UpdateAgrees ==
  ASSUME TablesAndJobs, Agreement, NEW h \in Job, UpdateChannel(h) \/ DeleteChannel(h)
  PROVE  Agreement'
<1>1. PICK c, j :
        /\ c \in Channel
        /\ job[h].on = {} /\ Begins(h, {c}) /\ Become(h, j) /\ ability' = ability
        /\ \A d \in Channel \ {c} : row'[d] = row[d]
        /\ j.on = {c}
        /\ \/ j.op = "update" /\ j.pc = "reload"
           \/ j.op = "delete" /\ j.pc = "drop" /\ row'[c].status = "absent"
  <2>1. CASE UpdateChannel(h)
    <3>1. PICK c, r, new :
            /\ c \in Channel
            /\ Starts(h, "update") /\ Begins(h, {c}) /\ ability' = ability
            /\ row' = row \/ row' = [row EXCEPT ![c] = new]
            /\ Become(h, [Idle EXCEPT !.op = "update", !.pc = "reload", !.on = {c}, !.body = r])
      <4>1. PICK c \in Channel \ free : \E b \in Bodies, keep \in BOOLEAN :
              /\ Starts(h, "update") /\ Begins(h, {c}) /\ ability' = ability
              /\ LET r == IF keep THEN [b EXCEPT !.status = "absent"] ELSE b IN
                 /\ row' = IF ~Exists(c) THEN row
                           ELSE [row EXCEPT ![c] = [b EXCEPT !.status = IF keep THEN row[c].status ELSE @,
                                                             !.name = row[c].name]]
                 /\ Become(h, [Idle EXCEPT !.op = "update", !.pc = "reload", !.on = {c}, !.body = r])
        BY <2>1 DEF UpdateChannel
      <4> QED BY <4>1
    <3> DEFINE j == [Idle EXCEPT !.op = "update", !.pc = "reload", !.on = {c}, !.body = r]
    <3>2. j.op = "update" /\ j.pc = "reload" /\ j.on = {c}
      BY DEF Idle
    <3>3. \A d \in Channel \ {c} : row'[d] = row[d]
      BY <3>1, JobIs
    <3>4. Become(h, j)
      BY <3>1
    <3> HIDE DEF j
    <3> QED BY <3>1, <3>2, <3>3, <3>4, StartsType
  <2>2. CASE DeleteChannel(h)
    <3>1. PICK c \in Channel :
            /\ Starts(h, "delete") /\ Begins(h, {c}) /\ ability' = ability
            /\ row' = [row EXCEPT ![c] = Absent]
            /\ Become(h, [Idle EXCEPT !.op = "delete", !.pc = "drop", !.on = {c}])
      BY <2>2 DEF DeleteChannel
    <3> DEFINE j == [Idle EXCEPT !.op = "delete", !.pc = "drop", !.on = {c}]
    <3>2. j.op = "delete" /\ j.pc = "drop" /\ j.on = {c}
      BY DEF Idle
    <3>3. row'[c].status = "absent" /\ \A d \in Channel \ {c} : row'[d] = row[d]
      BY <3>1, JobIs, Rows
    <3>4. Become(h, j)
      BY <3>1
    <3> HIDE DEF j
    <3> QED BY <3>1, <3>2, <3>3, <3>4, StartsType
  <2> QED BY <2>1, <2>2
<1>2. job'[h] = j /\ \A k \in Job \ {h} : job'[k] = job[k]
  BY <1>1, BecomeIs
<1>3. ASSUME \A k \in Job \ {h} : c \notin job[k].on PROVE Midway(h, c)'
  BY <1>1, <1>2, <1>3 DEF Midway, Exists
<1>4. \A d \in Channel \ {c} : row'[d] = row[d] /\ ability'[d] = ability[d]
  BY <1>1
<1>5. {c} \in SUBSET Channel /\ job'[h].on = {c}
  BY <1>1, <1>2
<1>6. \A d \in {c} : Tidy(h, d)' /\ (\A k \in Job \ {h} : d \notin job[k].on) => Midway(h, d)'
  BY <1>3
<1> QED BY <1>1, <1>2, <1>4, <1>5, <1>6, BeginsAgrees

LEMMA PurgeAgrees ==
  ASSUME TablesAndJobs, Agreement, NEW h \in Job, DeleteDisabledChannel(h)
  PROVE  Agreement'
<1> DEFINE cs == {c \in Channel : row[c].status \in {"auto", "manual"}}
<1>1. /\ Begins(h, cs) /\ job' = job /\ ability' = ability /\ job[h].on = {}
      /\ row' = [c \in Channel |-> IF c \in cs THEN Absent ELSE row[c]]
  BY StartsType DEF DeleteDisabledChannel
<1>2. cs \in SUBSET Channel
  OBVIOUS
<1>3. ASSUME NEW k \in Job, NEW c \in Channel, Tidy(k, c)' PROVE Midway(k, c)'
  <2> HIDE DEF cs
  <2>1. k # h
    BY <1>1, <1>3 DEF Tidy
  <2>2. Tidy(k, c) /\ c \notin cs /\ clash \subseteq clash'
    BY <1>1, <1>2, <1>3, <2>1, BeginsMeet
  <2>3. Midway(k, c)
    BY <2>2 DEF Agreement, WritersKnow
  <2> QED BY <1>1, <2>2, <2>3, MidwayKept DEF Midway
<1>4. ASSUME NEW c \in Channel \ clash', \A k \in Job : c \notin job'[k].on PROVE Agrees(c)'
  <2>1. c \notin clash
    BY <1>1, <1>2, <1>4, BeginsMeet
  <2>2. Agrees(c)
    BY <1>1, <1>4, <2>1 DEF Agreement, Settled
  <2>3. CASE c \in cs
    <3>1. row'[c].status = "absent" /\ ability'[c].on = {}
      BY <1>1, <2>2, <2>3, Rows DEF Agrees
    <3> QED BY <3>1 DEF Agrees, Exists
  <2>4. CASE c \notin cs
    <3>1. row'[c] = row[c]
      BY <1>1, <2>4
    <3> QED BY <1>1, <2>2, <3>1 DEF Agrees, Exists, Keys
  <2> QED BY <2>3, <2>4
<1> QED BY <1>3, <1>4 DEF Agreement, WritersKnow, Settled

LEMMA SwitchAgrees ==
  ASSUME TablesAndJobs, Agreement, NEW h \in Job, NEW c \in Channel, NEW s \in Status,
         NEW j \in JobState, job[h].on = {}, j.op \in {"switch", "test", "balance"}, Switch(h, c, s, j)
  PROVE  Agreement'
<1> DEFINE n == [j EXCEPT !.pc = "status", !.on = {c}, !.body = [Absent EXCEPT !.status = s], !.then = j.pc]
<1>1. UpdateAbilityStatus(c, s) /\ Become(h, n) /\ Begins(h, {c}) /\ row' = row
  BY DEF Switch
<1>2. n.op = j.op /\ n.pc = "status" /\ n.on = {c} /\ n.body.status = s
  BY Rows DEF JobState
<1> HIDE DEF n
<1>3. job'[h] = n /\ \A k \in Job \ {h} : job'[k] = job[k]
  BY <1>1, BecomeIs
<1>4. /\ ability'[c] = IF s = "enabled" THEN [on |-> Keys(c), off |-> {}] ELSE [on |-> {}, off |-> Keys(c)]
      /\ \A d \in Channel \ {c} : ability'[d] = ability[d]
  BY <1>1, JobIs DEF UpdateAbilityStatus
<1>5. Keys(c)' = Keys(c) /\ ability'[c].on = {t \in Keys(c) : s = "enabled"}
  BY <1>4 DEF Keys
<1>6. ASSUME \A k \in Job \ {h} : c \notin job[k].on PROVE Midway(h, c)'
  <2>1. c \notin clash' => (Exists(c) => Keys(c) = Pairs(row[c]))
    <3>1. c \notin clash' => c \notin clash
      BY <1>1 DEF Begins
    <3>2. \A k \in Job : c \notin job[k].on
      BY <1>6
    <3> QED BY <3>1, <3>2 DEF Agreement, Settled, Agrees
  <2>2. Pairs(row[c])' = Pairs(row[c]) /\ (Exists(c)' <=> Exists(c))
    BY <1>1 DEF Exists, Pairs
  <2>3. \A k \in Job \ {h} : c \notin job'[k].on
    BY <1>3, <1>6
  <2>4. job'[h].op \notin {"add", "sync", "update", "delete"} /\ job'[h].body.status = s
    BY <1>2, <1>3
  <2> QED BY <1>5, <2>1, <2>2, <2>3, <2>4 DEF Midway
<1>7. \A d \in Channel \ {c} : row'[d] = row[d] /\ ability'[d] = ability[d]
  BY <1>1, <1>4
<1>8. {c} \in SUBSET Channel /\ job'[h].on = {c}
  BY <1>2, <1>3
<1>9. \A d \in {c} : Tidy(h, d)' /\ (\A k \in Job \ {h} : d \notin job[k].on) => Midway(h, d)'
  BY <1>6
<1> QED BY <1>1, <1>3, <1>7, <1>8, <1>9, BeginsAgrees

LEMMA FillAgrees ==
  ASSUME TablesAndJobs, Agreement, NEW h \in Job, FillAbilities(h)
  PROVE  Agreement'
<1> DEFINE jh == job[h]
           over == IF jh.op = "sync" THEN [jh EXCEPT !.pc = "each", !.on = {}] ELSE Idle
<1>1. PICK c \in jh.on :
        /\ jh.pc = "fill" /\ AddAbilities(c, jh.body)
        /\ Become(h, IF AddFails(c, jh.body) \/ jh.on = {c} THEN over ELSE [jh EXCEPT !.on = @ \ {c}])
        /\ clash' = CASE AddFails(c, jh.body) -> clash \cup jh.on
                      [] ~AddFails(c, jh.body) /\ jh.op = "update" /\ h \notin spoilt /\ Exists(c) -> clash \ {c}
                      [] OTHER -> clash
        /\ UNCHANGED <<row, spoilt>>
  BY DEF FillAbilities
<1>2. jh \in JobState /\ Stage(jh) /\ Holds(jh, free) /\ c \in Channel /\ jh.on \subseteq Channel
      /\ jh.body \in Row
  BY JobIs DEF JobState
<1>3. over.on = {}
  BY <1>2, IdleJob DEF JobState
<1>4. \A k \in Job \ {h} : job'[k] = job[k]
  BY <1>1, BecomeIs
<1>5. \A d \in Channel \ {c} : row'[d] = row[d] /\ ability'[d] = ability[d]
  BY <1>1, <1>2, AbilityTypes
<1>6. CASE AddFails(c, jh.body)
  <2>1. job'[h] = over /\ clash' = clash \cup jh.on
    BY <1>1, <1>6, BecomeIs
  <2>2. job'[h].on = {} /\ job[h].on \subseteq clash' /\ clash \subseteq clash'
    BY <1>3, <2>1
  <2> HIDE DEF over, jh
  <2> QED BY <1>1, <1>2, <1>4, <1>5, <2>2, WriteAgrees DEF jh
<1>7. CASE ~AddFails(c, jh.body)
  <2>1. /\ clash' = IF jh.op = "update" /\ h \notin spoilt /\ Exists(c) THEN clash \ {c} ELSE clash
        /\ clash' \subseteq clash /\ clash \subseteq (clash' \cup {c})
        /\ c \in clash /\ c \notin clash' => h \notin spoilt
    BY <1>1, <1>7
  <2>2. ability' = Fill(c, jh.body)
    BY <1>1, <1>7 DEF AddAbilities
  <2>3. ASSUME c \notin clash' PROVE Agrees(c)'
    <3>1. Tidy(h, c)
      BY <1>1, <2>1, <2>3 DEF Tidy
    <3>2. Midway(h, c)
      BY <1>2, <3>1 DEF Agreement, WritersKnow
    <3>3. row[c] = jh.body /\ Keys(c) = {}
      <4>1. CASE jh.op = "update"
        <5>1. Exists(c)
          BY <1>1, <2>1, <2>3, <3>2, <4>1 DEF Midway
        <5> QED BY <1>1, <3>2, <4>1, <5>1 DEF Midway
      <4>2. CASE jh.op # "update"
        BY <1>1, <1>2, <3>2, <4>2 DEF Midway, Stage
      <4> QED BY <4>1, <4>2
    <3>4. row'[c] = row[c] /\ ability[c].on = {} /\ ability[c].off = {}
      BY <1>1, <3>3 DEF Keys
    <3> DEFINE b == jh.body
    <3>5. ability \in [Channel -> [on: SUBSET (Group \X Model), off: SUBSET (Group \X Model)]]
      BY JobIs
    <3>6. CASE b.status = "enabled"
      <4> HIDE DEF jh
      <4>1. ability' = [ability EXCEPT ![c].on = ability[c].on \cup Pairs(b)]
        BY <2>2, <3>6 DEF Fill
      <4>2. ability'[c].on = Pairs(b) /\ ability'[c].off = {}
        BY <1>2, <3>4, <3>5, <4>1
      <4> HIDE DEF b
      <4> QED BY <3>3, <3>4, <3>6, <4>2 DEF Agrees, Keys, Exists, b
    <3>7. CASE b.status # "enabled"
      <4> HIDE DEF jh
      <4>1. ability' = [ability EXCEPT ![c].off = ability[c].off \cup Pairs(b)]
        BY <2>2, <3>7 DEF Fill
      <4>2. ability'[c].off = Pairs(b) /\ ability'[c].on = {}
        BY <1>2, <3>4, <3>5, <4>1
      <4> HIDE DEF b
      <4> QED BY <3>3, <3>4, <3>7, <4>2 DEF Agrees, Keys, Exists, b
    <3> QED BY <3>6, <3>7
  <2>4. CASE jh.on = {c}
    <3>1. job'[h].on = {}
      BY <1>1, <1>3, <2>4, BecomeIs
    <3>2. \A d \in job[h].on \ job'[h].on : d \notin clash' => Agrees(d)'
      BY <2>3, <2>4
    <3> HIDE DEF over, jh
    <3> QED BY <1>1, <1>2, <1>4, <1>5, <2>1, <3>1, <3>2, WriteAgrees DEF jh
  <2>5. CASE jh.on # {c}
    <3> DEFINE j == [jh EXCEPT !.on = jh.on \ {c}]
    <3>1. job'[h] = j
      BY <1>1, <1>7, <2>5, BecomeIs
    <3>2. j.on = jh.on \ {c} /\ j.op = jh.op /\ j.pc = jh.pc /\ j.body = jh.body
      BY <1>2 DEF JobState
    <3> HIDE DEF j
    <3>3. ASSUME NEW d \in job'[h].on, Tidy(h, d)' PROVE Midway(h, d)'
      <4>1. d \in Channel /\ d # c /\ d \in jh.on
        BY <1>2, <3>1, <3>2, <3>3
      <4>2. d \notin clash' => d \notin clash
        BY <2>1, <4>1
      <4>3. Tidy(h, d)
        BY <1>1, <3>3, <4>1, <4>2 DEF Tidy
      <4>4. Midway(h, d)
        BY <4>1, <4>3 DEF Agreement, WritersKnow
      <4>5. \A l \in Job \ {h} : d \notin job'[l].on
        BY <1>4, <4>4 DEF Midway
      <4> QED BY <1>5, <3>1, <3>2, <4>1, <4>2, <4>4, <4>5, MidwayKept
    <3>4. \A d \in job[h].on \ job'[h].on : d \notin clash' => Agrees(d)'
      BY <2>3, <3>1, <3>2
    <3>5. job'[h].on \subseteq job[h].on
      BY <3>1, <3>2
    <3> HIDE DEF over, jh
    <3> QED BY <1>1, <1>2, <1>4, <1>5, <2>1, <3>3, <3>4, <3>5, WriteAgrees DEF jh
  <2> QED BY <2>4, <2>5
<1> QED BY <1>6, <1>7

LEMMA ReloadAgrees ==
  ASSUME TablesAndJobs, Agreement, NEW h \in Job, Reload(h)
  PROVE  Agreement'
<1> DEFINE jh == job[h]
<1>1. PICK c \in jh.on :
        /\ jh.pc = "reload"
        /\ Become(h, [jh EXCEPT !.pc = "drop", !.body = IF Exists(c) THEN row[c] ELSE @])
        /\ clash' = IF Exists(c) THEN clash ELSE clash \cup {c}
        /\ UNCHANGED <<row, ability, spoilt>>
  BY DEF Reload, tables
<1>2. jh \in JobState /\ jh.op = "update" /\ c \in Channel /\ jh.on = {c}
  <2>1. jh \in JobState /\ Stage(jh) /\ Holds(jh, free)
    BY JobIs
  <2>2. jh.op = "update"
    BY <1>1, <2>1 DEF Stage
  <2> QED BY <1>1, <2>1, <2>2 DEF JobState, Holds
<1> DEFINE b == IF Exists(c) THEN row[c] ELSE jh.body
           j == [jh EXCEPT !.pc = "drop", !.body = b]
<1>3. Become(h, j)
  BY <1>1
<1>4. j.pc = "drop" /\ j.body = b /\ j.op = "update" /\ j.on = {c}
  BY <1>2 DEF JobState
<1> HIDE DEF j
<1>5. job'[h] = j /\ \A k \in Job \ {h} : job'[k] = job[k]
  BY <1>3, BecomeIs
<1>6. ASSUME Tidy(h, c)' PROVE Midway(h, c)'
  <2>1. Tidy(h, c)
    BY <1>1, <1>6 DEF Tidy
  <2>2. Midway(h, c)
    BY <1>2, <2>1 DEF Agreement, WritersKnow
  <2>3. \A k \in Job \ {h} : c \notin job'[k].on
    BY <1>5, <2>2 DEF Midway
  <2>4. (Exists(c) <=> Exists(c)') /\ (Exists(c) => row'[c] = b) /\ (c \notin clash' => Exists(c))
    BY <1>1 DEF Exists
  <2> QED BY <1>4, <1>5, <2>3, <2>4 DEF Midway
<1>7. /\ job'[h].on = {c} /\ \A d \in Channel \ {c} : row'[d] = row[d] /\ ability'[d] = ability[d]
      /\ clash \subseteq (clash' \cup {c}) /\ clash \subseteq clash' /\ spoilt' = spoilt
  BY <1>1, <1>4, <1>5
<1>8. \A d \in job'[h].on : Tidy(h, d)' => Midway(h, d)'
  BY <1>6, <1>7
<1>9. job[h].on = {c}
  BY <1>2
<1> HIDE DEF jh
<1> QED BY <1>2, <1>5, <1>7, <1>8, <1>9, WriteAgrees

LEMMA DropAgrees ==
  ASSUME TablesAndJobs, Agreement, NEW h \in Job, DropAbilities(h)
  PROVE  Agreement'
<1> DEFINE jh == job[h]
<1>1. PICK c \in jh.on :
        /\ jh.pc = "drop" /\ DeleteAbilities(c)
        /\ Become(h, IF jh.op = "delete" THEN Idle ELSE [jh EXCEPT !.pc = "fill"])
        /\ UNCHANGED <<row, spoilt, clash>>
  BY DEF DropAbilities, marks
<1>2. jh \in JobState /\ jh.op \in {"update", "delete"} /\ c \in Channel /\ jh.on = {c}
  <2>1. jh \in JobState /\ Stage(jh) /\ Holds(jh, free)
    BY JobIs
  <2>2. jh.op \in {"update", "delete"}
    BY <1>1, <2>1 DEF Stage
  <2> QED BY <1>1, <2>1, <2>2 DEF JobState, Holds
<1>3. /\ ability'[c] = [on |-> {}, off |-> {}] /\ Keys(c)' = {}
      /\ \A d \in Channel \ {c} : row'[d] = row[d] /\ ability'[d] = ability[d]
  BY <1>1, <1>2, JobIs DEF DeleteAbilities, Keys
<1>4. \A k \in Job \ {h} : job'[k] = job[k]
  BY <1>1, BecomeIs
<1>5. Tidy(h, c) => Midway(h, c)
  BY <1>2 DEF Agreement, WritersKnow
<1>6. CASE jh.op = "delete"
  <2>1. job'[h].on = {}
    BY <1>1, <1>6, BecomeIs, IdleJob
  <2>2. ASSUME c \notin clash' PROVE Agrees(c)'
    <3>1. ~Exists(c)
      BY <1>1, <1>5, <1>6, <2>2 DEF Tidy, Midway
    <3> QED BY <1>1, <1>3, <3>1 DEF Agrees, Exists
  <2>3. \A d \in job[h].on \ job'[h].on : d \notin clash' => Agrees(d)'
    BY <1>2, <2>2
  <2>4. c \in job[h].on /\ job[h].on \subseteq Channel
    BY <1>2
  <2> HIDE DEF jh
  <2> QED BY <1>1, <1>2, <1>3, <1>4, <2>1, <2>3, <2>4, WriteAgrees
<1>7. CASE jh.op = "update"
  <2> DEFINE j == [jh EXCEPT !.pc = "fill"]
  <2>1. job'[h] = j
    BY <1>1, <1>7, BecomeIs
  <2>2. j.op = "update" /\ j.pc = "fill" /\ j.on = {c} /\ j.body = jh.body
    BY <1>2, <1>7 DEF JobState
  <2> HIDE DEF j
  <2>3. ASSUME Tidy(h, c)' PROVE Midway(h, c)'
    <3>1. Tidy(h, c)
      BY <1>1, <2>3 DEF Tidy
    <3>2. Midway(h, c)
      BY <1>5, <3>1
    <3>3. \A k \in Job \ {h} : c \notin job'[k].on
      BY <1>4, <3>2 DEF Midway
    <3>4. (Exists(c) <=> Exists(c)') /\ (Exists(c) => row'[c] = jh.body) /\ (c \notin clash' => Exists(c))
      BY <1>1, <1>7, <3>2 DEF Midway, Exists
    <3> QED BY <1>3, <2>1, <2>2, <3>3, <3>4 DEF Midway
  <2>4. /\ \A d \in job'[h].on : Tidy(h, d)' => Midway(h, d)'
        /\ job'[h].on = job[h].on /\ c \in job[h].on /\ job[h].on \subseteq Channel
    BY <1>2, <2>1, <2>2, <2>3
  <2> HIDE DEF jh
  <2> QED BY <1>1, <1>2, <1>3, <1>4, <2>4, WriteAgrees
<1> QED BY <1>2, <1>6, <1>7

LEMMA SetStatusAgrees ==
  ASSUME TablesAndJobs, Agreement, NEW h \in Job, SetStatus(h)
  PROVE  Agreement'
<1> DEFINE jh == job[h]
           s == jh.body.status
<1>1. PICK c \in jh.on :
        /\ jh.pc = "status"
        /\ row' = IF Exists(c) THEN [row EXCEPT ![c].status = s] ELSE row
        /\ clash' = IF Exists(c) \/ s # "enabled" THEN clash ELSE clash \cup {c}
        /\ Become(h, IF jh.then = "idle" THEN Idle ELSE [jh EXCEPT !.pc = jh.then, !.on = {}])
        /\ UNCHANGED <<ability, spoilt>>
  BY DEF SetStatus
<1>2. jh \in JobState /\ c \in Channel /\ jh.on = {c} /\ row \in [Channel -> Row]
  <2>1. jh \in JobState /\ Stage(jh) /\ Holds(jh, free) /\ row \in [Channel -> Row]
    BY JobIs
  <2>2. jh.op # "add"
    BY <1>1, <2>1 DEF Stage
  <2> QED BY <1>1, <2>1, <2>2 DEF JobState, Holds
<1>3. job'[h].on = {} /\ \A k \in Job \ {h} : job'[k] = job[k]
  <2>1. [jh EXCEPT !.pc = jh.then, !.on = {}].on = {}
    BY <1>2 DEF JobState
  <2> QED BY <1>1, <2>1, BecomeIs, IdleJob
<1>4. \A d \in Channel \ {c} : row'[d] = row[d] /\ ability'[d] = ability[d]
  BY <1>1, <1>2
<1>5. ASSUME c \notin clash' PROVE Agrees(c)'
  <2>1. c \notin clash /\ (Exists(c) \/ s # "enabled")
    BY <1>1, <1>5
  <2>2. Midway(h, c)
    BY <1>2, <2>1 DEF Tidy, Agreement, WritersKnow
  <2>3. /\ Exists(c) => Keys(c) = Pairs(row[c])
        /\ ability[c].on = {t \in Keys(c) : s = "enabled"}
    BY <1>1, <2>1, <2>2 DEF Midway
  <2> HIDE DEF s, jh
  <2>4. CASE Exists(c)
    <3>1. row'[c].status = s /\ Pairs(row'[c]) = Pairs(row[c])
      BY <1>1, <1>2, <2>4 DEF Row, Pairs
    <3>2. ability'[c] = ability[c]
      BY <1>1
    <3> QED BY <2>3, <2>4, <3>1, <3>2 DEF Agrees, Keys
  <2>5. CASE ~Exists(c)
    <3>1. row'[c] = row[c] /\ ability'[c].on = {}
      BY <1>1, <2>1, <2>3, <2>5
    <3> QED BY <2>5, <3>1 DEF Agrees, Exists
  <2> QED BY <2>4, <2>5
<1>6. /\ \A d \in job[h].on \ job'[h].on : d \notin clash' => Agrees(d)'
      /\ c \in job[h].on /\ job[h].on \subseteq Channel
      /\ clash \subseteq clash'
  BY <1>1, <1>2, <1>5
<1> HIDE DEF jh
<1> QED BY <1>1, <1>2, <1>3, <1>4, <1>6, WriteAgrees

LEMMA LoopAgrees ==
  ASSUME TablesAndJobs, Agreement, NEW h \in Job,
         \/ TestChannels(h) \/ UpdateAllChannelsBalance(h) \/ ListChannels(h) \/ ListFails(h)
         \/ LoopOver(h) \/ SyncProviders(h) \/ SyncOver(h) \/ DisableChannel(h)
         \/ TestProbe(h) \/ BalanceProbe(h) \/ TestJudge(h)
  PROVE  Agreement'
<1> DEFINE jh == job[h]
<1>1. jh \in JobState /\ Stage(jh) /\ Holds(jh, free)
  BY JobIs
<1>2. ASSUME NEW j, Become(h, j), jh.on = {}, j.on = {}, UNCHANGED <<row, ability, clash, spoilt>>
      PROVE  Agreement'
  <2>1. job'[h].on = {} /\ \A k \in Job \ {h} : job'[k] = job[k] /\ job[h].on = {}
    BY <1>2, BecomeIs
  <2>2. job[h].on = {}
    BY <1>2
  <2> HIDE DEF jh
  <2> QED BY <1>2, <2>1, <2>2, QuietAgrees
<1>3. CASE \/ TestChannels(h) \/ UpdateAllChannelsBalance(h) \/ SyncProviders(h)
  <2>1. PICK op, st, pc, todo, names :
          /\ Starts(h, st) /\ UNCHANGED <<row, ability, clash, spoilt>>
          /\ \/ Become(h, [Idle EXCEPT !.op = op, !.pc = pc])
             \/ Become(h, [Idle EXCEPT !.op = op, !.pc = pc, !.todo = todo, !.names = names])
    <3>1. CASE TestChannels(h)
      BY <3>1 DEF TestChannels, tables, marks
    <3>2. CASE UpdateAllChannelsBalance(h)
      BY <3>2 DEF UpdateAllChannelsBalance, tables, marks
    <3>3. CASE SyncProviders(h)
      BY <3>3 DEF SyncProviders, tables
    <3> QED BY <1>3, <3>1, <3>2, <3>3
  <2>2. /\ [Idle EXCEPT !.op = op, !.pc = pc].on = {}
        /\ [Idle EXCEPT !.op = op, !.pc = pc, !.todo = todo, !.names = names].on = {}
    BY DEF Idle
  <2> QED BY <1>2, <2>1, <2>2, StartsType
<1>4. CASE ListFails(h) \/ LoopOver(h) \/ SyncOver(h)
  <2>1. jh.pc \in {"list", "probe", "each"} /\ Become(h, Idle) /\ UNCHANGED <<row, ability, clash, spoilt>>
    BY <1>4 DEF ListFails, LoopOver, SyncOver, tables, marks
  <2>2. jh.on = {}
    BY <1>1, <2>1 DEF Holds
  <2> QED BY <1>2, <2>1, <2>2, IdleJob
<1>5. CASE ListChannels(h)
  <2>1. PICK todo, seen :
          /\ jh.pc = "list" /\ Become(h, [jh EXCEPT !.pc = "probe", !.todo = todo, !.seen = seen])
          /\ UNCHANGED <<row, ability, clash, spoilt>>
    BY <1>5 DEF ListChannels, tables, marks
  <2>2. jh.on = {} /\ [jh EXCEPT !.pc = "probe", !.todo = todo, !.seen = seen].on = jh.on
    BY <1>1, <2>1 DEF Holds, JobState
  <2> QED BY <1>2, <2>1, <2>2
<1>6. CASE DisableChannel(h)
  <2> DEFINE j == [Idle EXCEPT !.op = "switch"]
  <2>1. PICK c \in Channel : Starts(h, "switch") /\ Switch(h, c, "auto", j)
    BY <1>6 DEF DisableChannel
  <2>2. j \in JobState /\ j.op = "switch" /\ "auto" \in Status
    BY IdleJob DEF JobState, Op, Status
  <2> HIDE DEF j
  <2> QED BY <2>1, <2>2, StartsType, SwitchAgrees
<1>7. CASE TestProbe(h) \/ BalanceProbe(h)
  <2>1. PICK c, j :
        /\ c \in jh.todo
        /\ jh.pc = "probe" /\ jh.op \in {"test", "balance"}
        /\ j = [jh EXCEPT !.pc = "judge", !.todo = @ \ {c}, !.cur = {c}] \/ j = [jh EXCEPT !.todo = @ \ {c}]
        /\ (Become(h, j) /\ UNCHANGED <<row, ability, clash, spoilt>>) \/ Switch(h, c, "auto", j)
    <3>1. CASE TestProbe(h)
      BY <3>1 DEF TestProbe, marks, tables
    <3>2. CASE BalanceProbe(h)
      BY <3>2 DEF BalanceProbe, marks, tables
    <3> QED BY <1>7, <3>1, <3>2
  <2>2. c \in Channel /\ jh.on = {}
    BY <1>1, <2>1 DEF Holds
  <2>3. j \in JobState /\ j.on = jh.on /\ j.op = jh.op
    <3> HIDE DEF jh
    <3>1. CASE j = [jh EXCEPT !.pc = "judge", !.todo = @ \ {c}, !.cur = {c}]
      BY <1>1, <2>2, <3>1 DEF JobState, JobPcs
    <3>2. CASE j = [jh EXCEPT !.todo = @ \ {c}]
      BY <1>1, <3>2 DEF JobState
    <3> QED BY <2>1, <3>1, <3>2
  <2>4. CASE Become(h, j) /\ UNCHANGED <<row, ability, clash, spoilt>>
    BY <1>2, <2>2, <2>3, <2>4
  <2>5. CASE Switch(h, c, "auto", j)
    <3>1. "auto" \in Status /\ j.op \in {"switch", "test", "balance"} /\ job[h].on = {}
      BY <2>1, <2>2, <2>3 DEF Status
    <3> HIDE DEF jh
    <3> QED BY <2>2, <2>3, <2>5, <3>1, SwitchAgrees
  <2> QED BY <2>1, <2>4, <2>5
<1>8. CASE TestJudge(h)
  <2> DEFINE j == [jh EXCEPT !.pc = "probe", !.cur = {}]
  <2>1. PICK c \in jh.cur, s \in {"auto", "enabled"} :
        /\ jh.pc = "judge"
        /\ (Become(h, j) /\ UNCHANGED <<row, ability, clash, spoilt>>) \/ Switch(h, c, s, j)
    BY <1>8 DEF TestJudge, marks, tables
  <2>2. /\ j \in JobState /\ j.on = jh.on /\ j.op = "test" /\ jh.on = {}
        /\ c \in Channel /\ s \in Status
    BY <1>1, <2>1 DEF JobState, JobPcs, Stage, Holds, Status
  <2>3. job[h].on = {} /\ j.op \in {"switch", "test", "balance"}
    BY <2>2
  <2>4. CASE Become(h, j) /\ UNCHANGED <<row, ability, clash, spoilt>>
    BY <1>2, <2>2, <2>4
  <2>5. CASE Switch(h, c, s, j)
    <3> HIDE DEF j, jh
    <3> QED BY <2>2, <2>3, <2>5, SwitchAgrees
  <2> QED BY <2>1, <2>4, <2>5
<1> QED BY <1>3, <1>4, <1>5, <1>6, <1>7, <1>8

LEMMA DeadAgree ==
  ASSUME Agreement, RefreshPanics \/ Crash
  PROVE  Agreement'
<1>1. /\ job' = [h \in Job |-> Idle] /\ UNCHANGED <<row, ability>>
      /\ clash' = clash \cup UNION {job[h].on : h \in Job}
  BY DEF RefreshPanics, Crash, Dies, tables
<1>2. \A h \in Job : job'[h].on = {}
  BY <1>1, IdleJob
<1>3. ASSUME NEW c \in Channel \ clash' PROVE Agrees(c)'
  <2>1. c \notin clash /\ \A h \in Job : c \notin job[h].on
    BY <1>1
  <2>2. Agrees(c)
    BY <2>1 DEF Agreement, Settled
  <2> QED BY <1>1, <2>2 DEF Agrees, Exists, Keys
<1> QED BY <1>2, <1>3 DEF Agreement, WritersKnow, Settled, Tidy

LEMMA AgreementNext == TablesAndJobs /\ Agreement /\ [ChannelsNext]_channelVars => Agreement'
<1> SUFFICES ASSUME TablesAndJobs, Agreement, [ChannelsNext]_channelVars PROVE Agreement'
  OBVIOUS
<1>1. CASE UNCHANGED channelVars \/ RefreshRead \/ RefreshPublish
  <2>1. UNCHANGED <<row, ability, job, clash, spoilt>>
    BY <1>1 DEF channelVars, tables, marks, RefreshRead, RefreshPublish
  <2> QED BY <2>1 DEF Agreement, WritersKnow, Settled, Tidy, Midway, Agrees, Exists, Keys
<1>2. CASE RefreshPanics \/ Crash
  BY <1>2, DeadAgree
<1>3. ASSUME NEW h \in Job, Start(h) \/ Background(h) \/ ListFails(h) PROVE Agreement'
  <2>1. CASE Start(h)
    BY <2>1, AddAgrees, UpdateAgrees, PurgeAgrees, LoopAgrees DEF Start
  <2>2. CASE Background(h)
    BY <2>2, FillAgrees, ReloadAgrees, DropAgrees, SetStatusAgrees, LoopAgrees, AddAgrees DEF Background
  <2> QED BY <1>3, <2>1, <2>2, LoopAgrees
<1> QED BY <1>1, <1>2, <1>3 DEF ChannelsNext

\* Every step of a job tears the refresh that it falls into, or writes neither table.
LEMMA WritesTear ==
  ASSUME NEW h \in Job, Start(h) \/ Background(h) \/ ListFails(h)
  PROVE  Tears \/ UNCHANGED <<row, ability, refresh>>
<1>1. CASE Start(h)
  BY <1>1 DEF Start, AddChannel, UpdateChannel, DeleteChannel, DeleteDisabledChannel, DisableChannel,
     Switch, TestChannels, UpdateAllChannelsBalance, SyncProviders, tables
<1>2. CASE FillAbilities(h) \/ Reload(h) \/ DropAbilities(h) \/ SetStatus(h) \/ SyncInsert(h)
  BY <1>2 DEF FillAbilities, Reload, DropAbilities, SetStatus, SyncInsert, tables
<1>3. CASE ListChannels(h) \/ LoopOver(h) \/ SyncOver(h) \/ ListFails(h)
  BY <1>3 DEF ListChannels, LoopOver, SyncOver, ListFails, tables
<1>4. CASE TestProbe(h) \/ TestJudge(h) \/ BalanceProbe(h)
  BY <1>4 DEF TestProbe, TestJudge, BalanceProbe, Switch, tables
<1> QED BY <1>1, <1>2, <1>3, <1>4 DEF Background

LEMMA ReadsNext ==
  TablesAndJobs /\ Agreement /\ ReadsWhole /\ [ChannelsNext]_channelVars => ReadsWhole'
<1> SUFFICES ASSUME TablesAndJobs, Agreement, ReadsWhole, [ChannelsNext]_channelVars PROVE ReadsWhole'
  OBVIOUS
<1>1. refresh \in [half: BOOLEAN, rows: [Channel -> Row], torn: BOOLEAN]
  BY DEF TablesAndJobs, ChannelsTypeOK
<1>2. ASSUME UNCHANGED <<row, ability, refresh>> PROVE ReadsWhole'
  BY <1>2 DEF ReadsWhole, Agrees, Exists, Keys
<1>3. ASSUME Tears PROVE ReadsWhole'
  BY <1>1, <1>3 DEF Tears, ReadsWhole
<1>4. CASE UNCHANGED channelVars
  BY <1>2, <1>4 DEF channelVars, tables
<1>5. CASE RefreshRead
  <2>1. /\ UNCHANGED <<row, ability>>
        /\ refresh' = [half |-> TRUE, rows |-> row, torn |-> clash # {} \/ Working]
    BY <1>5 DEF RefreshRead, tables
  <2>2. ASSUME ~(clash # {} \/ Working), NEW c \in Channel PROVE Agrees(c)'
    <3>1. Agrees(c)
      BY <2>2 DEF Agreement, Settled, Working
    <3> QED BY <2>1, <3>1 DEF Agrees, Exists, Keys
  <2>3. refresh'.rows = row' /\ (refresh'.torn <=> clash # {} \/ Working)
    BY <2>1
  <2> QED BY <2>2, <2>3 DEF ReadsWhole
<1>6. CASE RefreshPublish \/ RefreshPanics \/ Crash
  <2>1. refresh' = [refresh EXCEPT !.half = FALSE]
    BY <1>6 DEF RefreshPublish, RefreshPanics, Crash, Dies
  <2> QED BY <1>1, <2>1 DEF ReadsWhole
<1>7. ASSUME NEW h \in Job, Start(h) \/ Background(h) \/ ListFails(h) PROVE ReadsWhole'
  BY <1>2, <1>3, <1>7, WritesTear
<1> QED BY <1>4, <1>5, <1>6, <1>7 DEF ChannelsNext

\* What an untorn refresh reads never meets the nil map.
LEMMA WholeIsKnown ==
  ASSUME TablesAndJobs, ReadsWhole, refresh.half, NilMap
  PROVE  refresh.torn
<1> SUFFICES ASSUME ~refresh.torn PROVE FALSE
  BY DEF TablesAndJobs, ChannelsTypeOK
<1>1. refresh.rows = row /\ \A c \in Channel : Agrees(c)
  BY DEF ReadsWhole
<1>2. PICK t \in Serving(row) : ~Known(t[2])
  BY <1>1 DEF NilMap
<1>3. t \in Channel \X Group \X Model /\ row[t[1]].status = "enabled" /\ <<t[2], t[3]>> \in Pairs(row[t[1]])
  BY <1>2 DEF Serving
<1>4. t[1] \in Channel /\ t[3] \in Model
  BY <1>3
<1>5. <<t[2], t[3]>> \in Keys(t[1])
  BY <1>1, <1>3, <1>4 DEF Agrees, Keys
<1> QED BY <1>2, <1>4, <1>5 DEF Known

LEMMA PanicNext ==
  TablesAndJobs /\ ReadsWhole /\ PanicsOnlyTorn /\ [ChannelsNext]_channelVars => PanicsOnlyTorn'
<1> SUFFICES ASSUME TablesAndJobs, ReadsWhole, PanicsOnlyTorn, [ChannelsNext]_channelVars
             PROVE  PanicsOnlyTorn'
  OBVIOUS
<1>1. CASE UNCHANGED channelVars \/ RefreshRead \/ RefreshPublish \/ Crash
  BY <1>1 DEF channelVars, marks, RefreshRead, RefreshPublish, Crash, PanicsOnlyTorn
<1>2. CASE RefreshPanics
  BY <1>2, WholeIsKnown DEF RefreshPanics, PanicsOnlyTorn
<1>3. ASSUME NEW h \in Job, Start(h) \/ Background(h) \/ ListFails(h) PROVE PanicsOnlyTorn'
  <2>1. CASE OpsKept(h)
    BY <2>1 DEF OpsKept, PanicsOnlyTorn
  <2>2. CASE TestChannels(h) \/ ListFails(h) \/ LoopOver(h) \/ SyncProviders(h) \/ SyncInsert(h)
    <3>1. CASE TestChannels(h) \/ LoopOver(h)
      BY <3>1 DEF TestChannels, LoopOver, marks, PanicsOnlyTorn
    <3>2. CASE ListFails(h) \/ SyncProviders(h)
      <4>1. blame' \subseteq blame \cup {"flag", "sync"}
        BY <3>2 DEF ListFails, SyncProviders
      <4> QED BY <4>1 DEF PanicsOnlyTorn
    <3>3. CASE SyncInsert(h)
      BY <3>3 DEF SyncInsert, PanicsOnlyTorn
    <3> QED BY <2>2, <3>1, <3>2, <3>3
  <2> QED BY <1>3, <2>1, <2>2, OthersKeep
<1> QED BY <1>1, <1>2, <1>3 DEF ChannelsNext

LEMMA AgreementInit == ChannelsInit => Agreement /\ ReadsWhole /\ PanicsOnlyTorn
<1> SUFFICES ASSUME ChannelsInit PROVE Agreement /\ ReadsWhole /\ PanicsOnlyTorn
  OBVIOUS
<1>1. \A h \in Job : job[h].on = {}
  BY IdleJob DEF ChannelsInit
<1>2. ASSUME NEW c \in Channel PROVE Agrees(c)
  <2>1. ability[c] = [on |-> {t \in Pairs(row[c]) : row[c].status = "enabled"},
                      off |-> {t \in Pairs(row[c]) : row[c].status # "enabled"}]
    BY DEF ChannelsInit
  <2> QED BY <2>1 DEF Agrees, Keys
<1>3. WritersKnow /\ Settled
  BY <1>1, <1>2 DEF WritersKnow, Settled, Tidy
<1>4. refresh.half = FALSE /\ blame = {}
  BY DEF ChannelsInit
<1> QED BY <1>3, <1>4 DEF Agreement, ReadsWhole, PanicsOnlyTorn

LEMMA AgreementAlways == ChannelsSpec => [](TablesAndJobs /\ Agreement /\ ReadsWhole /\ PanicsOnlyTorn)
BY InitTypes, NextTypes, AgreementInit, AgreementNext, ReadsNext, PanicNext, PTL DEF ChannelsSpec

\* A request is only given a channel that exists, is enabled and serves its group and
\* model, and every such channel can be picked, for any operations side by side and any
\* number of them, while no one writes the channel and its last writes did not overlap.
THEOREM AbilitiesFollowChannels == ChannelsSpec => []AbilitiesAgree
<1>1. TablesAndJobs /\ Agreement => AbilitiesAgree
  <2> SUFFICES ASSUME Agreement, NEW c \in Channel \ clash, \A h \in Job : c \notin job[h].on
               PROVE  /\ ability[c].on = {t \in Pairs(row[c]) : row[c].status = "enabled"}
                      /\ Exists(c) => Keys(c) = Pairs(row[c])
                      /\ \A g \in Group, m \in Model : c \in Pick(g, m) => <<c, g, m>> \in Serving(row)
    BY DEF AbilitiesAgree
  <2>1. Agrees(c)
    BY DEF Agreement, Settled
  <2>2. ASSUME NEW g \in Group, NEW m \in Model, c \in Pick(g, m) PROVE <<c, g, m>> \in Serving(row)
    <3>1. <<g, m>> \in ability[c].on
      BY <2>2 DEF Pick
    <3>2. <<g, m>> \in Pairs(row[c]) /\ row[c].status = "enabled"
      BY <2>1, <3>1 DEF Agrees
    <3> QED BY <3>2 DEF Serving
  <2> QED BY <2>1, <2>2 DEF Agrees
<1> QED BY <1>1, AgreementAlways, PTL

\* InitChannelCache: two whole tables never kill the process, however the refresh, the
\* requests and the background jobs interleave.
THEOREM WholeTablesNeverPanic == ChannelsSpec => []PanicsOnlyTorn
BY AgreementAlways, PTL

=============================================================================

---------------------------- MODULE SignInProofs ----------------------------
(***************************************************************************)
(* Theorems about SignIn, for any number of slots, jobs, accounts and      *)
(* refreshes under way.                                                    *)
(***************************************************************************)
EXTENDS SignInProperties, TLAPS

(* The inductive invariant, in parts.                                      *)

\* A task works for a job that counts as active, and before the release for a
\* slot gated, in memory and on disk, with the identity the job carries.
TaskActive == \A j \in Jobs : task[j].at # "idle" => Active(j)

TaskGated ==
  \A j \in Jobs : BeforeRelease(j) =>
    /\ config[job[j].slot].gate
    /\ config[job[j].slot].expected = job[j].expected
    /\ disk.config[job[j].slot].gate

\* What a job knows of its slot's past: a purge, or nothing to purge.
TaskKnows ==
  \A j \in Jobs : BeforeRelease(j) =>
    /\ job[j].reset \/ ~ job[j].reauth => ~ before[job[j].slot]
    /\ job[j].public => job[j].reauth /\ job[j].expected # None

\* The gate on disk is never ahead of the one in memory, and is held to the same
\* identity whatever else a save has lost.
DiskBehind ==
  \A s \in Slots : disk.config[s].gate =>
    config[s].gate /\ disk.config[s].expected = config[s].expected

\* A purge that runtime.json lacks is of a slot that config.json has in repair.
OwedGated == \A s \in Slots : owed[s] => disk.config[s].gate

\* A slot held to an identity is known to have had one.
Held(c) == c.gate /\ c.expected # None => c.known \/ c.account # None

AllHeld == \A s \in Slots : Held(config[s]) /\ Held(disk.config[s])

Repairs == TaskGated /\ TaskKnows /\ DiskBehind /\ OwedGated /\ AllHeld

Inv == TypeOK /\ TaskActive /\ OneSignIn /\ Repairs

-----------------------------------------------------------------------------
(* Types                                                                    *)

(* What any of the two saves leaves on disk is what is in memory or was      *)
(* there before, file by file.                                              *)
Written ==
  /\ disk' = [config |-> disk'.config, history |-> disk'.history]
  /\ disk'.config = config' \/ disk'.config = disk.config
  /\ disk'.history = history' \/ disk'.history = disk.history

LEMMA OwesType ==
  ASSUME NEW written \in BOOLEAN, Owes(written)
  PROVE  owed' \in Histories
BY DEF Owes, Histories

LEMMA SaveWrites ==
  ASSUME NEW outcome \in SaveOutcome, Save(outcome)
  PROVE  Written /\ owed' \in Histories /\ \E written \in BOOLEAN : Owes(written)
<1>1. Written
  BY DEF Save, Written
<1>2. Owes(outcome = "saved") /\ (outcome = "saved") \in BOOLEAN
  BY DEF Save
<1>3. QED BY <1>1, <1>2, OwesType

LEMMA CompletedWrites ==
  ASSUME NEW outcome \in SaveOutcome, NEW written, SaveCompleted(outcome, written),
         outcome = "saved" => config' = written
  PROVE  Written
BY DEF SaveCompleted, Written

LEMMA WrittenType ==
  ASSUME TypeOK, Written, config' \in Configs, history' \in Histories
  PROVE  disk' \in [config : Configs, history : Histories]
BY DEF TypeOK, Written

LEMMA PurgeType ==
  ASSUME TypeOK, NEW s \in Slots, NEW all \in BOOLEAN, Purge(s, all)
  PROVE  /\ history' \in Histories /\ before' \in Histories
         /\ \A t \in Slots : (history'[t] => history[t]) /\ (before'[t] => before[t])
         /\ \A t \in Slots : t # s => history'[t] = history[t]
         /\ all => ~ history'[s] /\ ~ before'[s]
BY DEF Purge, TypeOK, Histories

LEMMA BlankType == NoJob \in Job /\ NoTask \in Task
<1>1. NoJob \in Job
  BY SignInAssumption DEF NoJob, Job, AnySlot, Status, Id
<1>2. NoTask \in Task
  BY DEF NoTask, Task, Place, Status
<1>3. QED BY <1>1, <1>2

LEMMA InitType == Init => TypeOK
<1> SUFFICES ASSUME Init PROVE TypeOK
  OBVIOUS
<1>1. \A k \in Credentials \cup {Missing} : Configured(k) \in SlotConfig
  BY SignInAssumption DEF Configured, SlotConfig, Id, LoginId
<1>2. config \in Configs
  BY <1>1 DEF Init, Configs
<1>3. /\ history \in Histories /\ flying \in Histories
      /\ before \in Histories /\ owed \in Histories
      /\ reading \in [Slots -> SUBSET Reading]
  BY DEF Init, Histories
<1>4. job \in [Jobs -> Job] /\ task \in [Jobs -> Task]
  BY BlankType DEF Init
<1>5. QED BY <1>2, <1>3, <1>4 DEF Init, TypeOK

LEMMA GateType ==
  ASSUME TypeOK, NEW s \in Slots, NEW set \in BOOLEAN, NEW id \in Id
  PROVE  Gate(s, set, id) \in Configs
BY DEF Gate, TypeOK, Configs, SlotConfig

LEMMA ExpectedType ==
  ASSUME TypeOK, NEW s \in Slots
  PROVE  Expected(s) \in Id /\ Gated(s) \in Configs
<1>1. config[s] \in SlotConfig
  BY DEF TypeOK, Configs
<1>2. Expected(s) \in Id
  BY <1>1 DEF Expected, SlotConfig
<1>3. Gated(s) \in Configs
  BY <1>2, GateType DEF Gated
<1>4. QED BY <1>2, <1>3

LEMMA TypeParts ==
  ASSUME TypeOK
  PROVE  /\ \A s \in Slots : config[s] \in SlotConfig /\ history[s] \in BOOLEAN
         /\ \A j \in Jobs : job[j] \in Job /\ job[j].slot \in Slots /\ task[j] \in Task
         /\ \A s \in Slots : credential[s] # Missing => credential[s] \in Credentials
         /\ \A s \in Slots : reading[s] \subseteq Reading
         /\ \A s \in Slots : config[s].account \in Id
<1>1. /\ \A s \in Slots : config[s] \in SlotConfig /\ history[s] \in BOOLEAN
      /\ \A j \in Jobs : job[j] \in Job /\ job[j].slot \in Slots /\ task[j] \in Task
      /\ \A s \in Slots : credential[s] # Missing => credential[s] \in Credentials
      /\ \A s \in Slots : reading[s] \subseteq Reading
  BY DEF TypeOK, Configs, Histories, Job
<1>2. QED BY <1>1 DEF SlotConfig

LEMMA TaskTypes ==
  ASSUME TypeOK, NEW j \in Jobs
  PROVE  /\ \A place \in Place \ {"reading"} : Goto(j, place) => task' \in [Jobs -> Task]
         /\ \A status \in EndedStatus : EndWith(j, status) => task' \in [Jobs -> Task]
<1>1. task \in [Jobs -> Task] /\ task[j] \in Task
  BY DEF TypeOK
<1>2. ASSUME NEW place \in Place \ {"reading"}, Goto(j, place)
      PROVE  task' \in [Jobs -> Task]
  <2> DEFINE moved == [NoTask EXCEPT !.at = place]
  <2>1. task' = [task EXCEPT ![j] = moved]
    BY <1>2 DEF Goto
  <2>2. moved \in Task
    BY <1>2 DEF NoTask, Task, Status
  <2> HIDE DEF moved
  <2>3. QED BY <1>1, <2>1, <2>2
<1>3. ASSUME NEW status \in EndedStatus, EndWith(j, status)
      PROVE  task' \in [Jobs -> Task]
  <2> DEFINE ended == [NoTask EXCEPT !.at = "finish", !.ending = status]
  <2>1. task' = [task EXCEPT ![j] = ended]
    BY <1>3 DEF EndWith
  <2>2. ended \in Task
    BY <1>3 DEF NoTask, Task, Place, EndedStatus, Status, ActiveStatus
  <2> HIDE DEF ended
  <2>3. QED BY <1>1, <2>1, <2>2
<1>4. QED BY <1>2, <1>3

LEMMA StoreType ==
  ASSUME TypeOK, NEW s \in Slots, NEW id \in Id, StoreId(s, id), history' = history
  PROVE  /\ config' \in Configs /\ disk' \in [config : Configs, history : Histories]
         /\ owed' \in Histories
<1>1. config' \in Configs
  BY SMTT(60), TypeParts DEF StoreId, TypeOK, Configs, SlotConfig
<1>2. Written /\ owed' \in Histories
  BY SaveWrites DEF StoreId
<1>3. QED BY <1>1, <1>2, WrittenType DEF TypeOK

LEMMA VerifiedType ==
  ASSUME NEW k \in Credentials, NEW resolved \in BOOLEAN
  PROVE  Verified(k, resolved) \in Id /\ LoginId(k) \in Id
BY SignInAssumption DEF Verified, LoginId, Id

LEMMA LearnedType ==
  ASSUME NEW r \in Reading, NEW resolved \in BOOLEAN
  PROVE  Learned(r, resolved) \in Id
<1>1. r.credential \in Credentials /\ r.account \in Id
  BY DEF Reading
<1>2. QED BY <1>1, VerifiedType DEF Learned

LEMMA NewReading ==
  ASSUME TypeOK, NEW s \in Slots, credential[s] # Missing
  PROVE  /\ [account |-> config[s].account, credential |-> credential[s]] \in Reading
         /\ \A r \in Reading : [r EXCEPT !.credential = credential[s]] \in Reading
BY TypeParts DEF Reading

LEMMA StartType ==
  ASSUME TypeOK, NEW s \in Slots, NEW public \in BOOLEAN, Start(s, public)
  PROVE  TypeOK'
<1>1. config' \in Configs /\ history' \in Histories
  BY ExpectedType DEF Start, TypeOK
<1>2. Written /\ owed' \in Histories
  BY SaveWrites DEF Start
<1>3. before' \in Histories
  BY TypeParts DEF Start, TypeOK, Histories
<1>4. Started(s, public) \in Job
  <2>1. HasPriorIdentity(s) \in BOOLEAN
    BY DEF HasPriorIdentity
  <2>2. QED BY <2>1, ExpectedType DEF Started, Job, Status, ActiveStatus
<1>5. [NoTask EXCEPT !.at = "launch"] \in Task
  BY DEF NoTask, Task, Place, Status
<1>6. job' \in [Jobs -> Job] /\ task' \in [Jobs -> Task]
  BY <1>4, <1>5 DEF Start, TypeOK
<1>7. QED BY <1>1, <1>2, <1>3, <1>6, WrittenType DEF Start, TypeOK

LEMMA AdoptType ==
  ASSUME TypeOK, NEW s \in Slots, NEW public \in BOOLEAN, Adopt(s, public)
  PROVE  TypeOK'
<1>1. config' \in Configs /\ history' \in Histories
  BY ExpectedType DEF Adopt, TypeOK
<1>2. Written /\ owed' \in Histories
  BY SaveWrites DEF Adopt
<1>3. QED BY <1>1, <1>2, WrittenType DEF Adopt, TypeOK

LEMMA CancelType ==
  ASSUME TypeOK, NEW j \in Jobs, Cancel(j)
  PROVE  TypeOK'
<1>1. job' \in [Jobs -> Job]
  BY TypeParts DEF Cancel, Cancelling, TypeOK, Job, Status, ActiveStatus
<1>2. QED BY <1>1 DEF Cancel, TypeOK, Observed

LEMMA DeleteType ==
  ASSUME TypeOK, NEW s \in Slots, Delete(s)
  PROVE  TypeOK'
<1>1. job' \in [Jobs -> Job]
  BY TypeParts DEF Delete, TypeOK, Job, Status, ActiveStatus
<1>2. CASE UNCHANGED <<config, history, disk, Observed>>
  BY <1>1, <1>2 DEF Delete, TypeOK, Observed
<1>3. CASE ~ UNCHANGED <<config, history, disk, Observed>>
  <2>1. config' = [config EXCEPT ![s].present = FALSE] /\ Purge(s, TRUE)
    BY <1>3 DEF Delete
  <2>2. credential' \in [Slots -> Credentials \cup {Missing}]
    BY <1>3 DEF Delete, TypeOK
  <2>3. Written /\ owed' \in Histories
    BY <1>3, SaveWrites DEF Delete
  <2>4. config' \in Configs
    BY <2>1 DEF TypeOK, Configs, SlotConfig
  <2>5. history' \in Histories /\ before' \in Histories
    BY <2>1, PurgeType
  <2>6. QED BY <1>1, <2>2, <2>3, <2>4, <2>5, WrittenType DEF Delete, TypeOK
<1>4. QED BY <1>2, <1>3

(* The steps of a task that only read, and the CLI's.                       *)
LEMMA QuietType ==
  ASSUME TypeOK, NEW j \in Jobs,
         Launch(j) \/ SignsIn(j) \/ CliEnds(j) \/ LookForCancel(j) \/ ReadForRepair(j)
  PROVE  TypeOK'
<1>1. CASE Launch(j)
  BY <1>1, TaskTypes DEF Launch, TypeOK, Place, EndedStatus, Pool, Observed
<1>2. CASE SignsIn(j)
  <2>1. credential' \in [Slots -> Credentials \cup {Missing}]
    BY <1>2 DEF SignsIn, TypeOK
  <2>2. UNCHANGED <<Pool, job, task>>
    BY <1>2 DEF SignsIn
  <2>3. QED BY <2>1, <2>2 DEF TypeOK, Pool, Observed
<1>3. CASE CliEnds(j)
  BY <1>3, TaskTypes DEF CliEnds, TypeOK, Place, EndedStatus, Pool, Observed
<1>4. CASE LookForCancel(j)
  BY <1>4, TaskTypes DEF LookForCancel, TypeOK, Place, EndedStatus, Pool, Observed
<1>5. CASE ReadForRepair(j)
  <2> DEFINE s == job[j].slot
             r == [account |-> config[s].account, credential |-> credential[s]]
  <2>1. task' \in [Jobs -> Task]
    <3>1. CASE Goto(j, "refreshed")
      BY <3>1, TaskTypes DEF Place
    <3>2. CASE /\ credential[s] # Missing
               /\ task' = [task EXCEPT ![j] = [at |-> "reading", ending |-> "none", read |-> r]]
      <4>1. r \in Reading
        BY <3>2, TypeParts, NewReading
      <4> HIDE DEF r
      <4>2. [at |-> "reading", ending |-> "none", read |-> r] \in Task
        BY <4>1 DEF Task
      <4>3. QED BY <3>2, <4>2 DEF TypeOK
    <3>3. QED BY <1>5, <3>1, <3>2 DEF ReadForRepair
  <2>2. UNCHANGED <<Pool, credential, job>>
    BY <1>5 DEF ReadForRepair
  <2>3. QED BY <2>1, <2>2 DEF TypeOK, Pool, Observed
<1>6. QED BY <1>1, <1>2, <1>3, <1>4, <1>5

LEMMA ApplyType ==
  ASSUME TypeOK, NEW j \in Jobs, Apply(j), credential[job[j].slot] \in Credentials
  PROVE  /\ config' \in Configs /\ history' \in Histories /\ before' \in Histories
         /\ job' \in [Jobs -> Job]
<1> DEFINE s  == job[j].slot
           id == LoginId(credential[s])
           changed == ChangedIdentity(id, j)
<1>1. id \in Id /\ s \in Slots /\ changed \in BOOLEAN
  BY VerifiedType, TypeParts DEF ChangedIdentity, Job
<1>2. /\ Purge(s, changed)
      /\ config' = [config EXCEPT ![s].known = TRUE,
                      ![s].account = IF changed \/ id # None THEN id ELSE @]
      /\ job' = [job EXCEPT ![j].status = "finalizing", ![j].reset = changed]
  BY DEF Apply
<1> HIDE DEF id, changed
<1>3. history' \in Histories /\ before' \in Histories
  BY <1>1, <1>2, PurgeType
<1>4. config' \in Configs
  <2> DEFINE entry == [config[s] EXCEPT !.known = TRUE,
                         !.account = IF changed \/ id # None THEN id ELSE @]
  <2>1. config \in [Slots -> SlotConfig] /\ config[s] \in SlotConfig
    BY <1>1 DEF TypeOK, Configs
  <2>2. config' = [config EXCEPT ![s] = entry]
    BY <1>1, <1>2, <2>1 DEF SlotConfig
  <2>3. entry \in SlotConfig
    BY <1>1, <2>1 DEF SlotConfig
  <2> HIDE DEF entry
  <2>4. QED BY <1>1, <2>1, <2>2, <2>3 DEF Configs
<1>5. job' \in [Jobs -> Job]
  <2> DEFINE entry == [job[j] EXCEPT !.status = "finalizing", !.reset = changed]
  <2>1. job \in [Jobs -> Job] /\ job[j] \in Job
    BY DEF TypeOK
  <2>2. job' = [job EXCEPT ![j] = entry]
    BY <1>2, <2>1 DEF Job
  <2>3. entry \in Job
    BY <1>1, <2>1 DEF Job, Status, ActiveStatus
  <2> HIDE DEF entry
  <2>4. QED BY <2>1, <2>2, <2>3
<1>6. QED BY <1>3, <1>4, <1>5

LEMMA FinalizeType ==
  ASSUME TypeOK, NEW j \in Jobs, Finalize(j)
  PROVE  TypeOK'
<1>1. CASE CancelRequested(j)
  BY <1>1, TaskTypes DEF Finalize, TypeOK, EndedStatus, Observed
<1>2. CASE ~ CancelRequested(j) /\ ~ Accepted(j)
  <2>1. job' \in [Jobs -> Job]
    BY <1>2, TypeParts DEF Finalize, TypeOK, Job, Status, ActiveStatus
  <2>2. QED BY <1>2, <2>1, TaskTypes DEF Finalize, TypeOK, EndedStatus, Observed
<1>3. CASE ~ CancelRequested(j) /\ Accepted(j)
  <2>1. Apply(j) /\ credential[job[j].slot] \in Credentials
    BY <1>3, TypeParts DEF Finalize, Accepted
  <2>2. /\ config' \in Configs /\ history' \in Histories /\ before' \in Histories
        /\ job' \in [Jobs -> Job]
    BY <2>1, ApplyType
  <2>3. Written /\ owed' \in Histories
    BY <1>3, SaveWrites DEF Finalize, SaveOutcome
  <2>4. task' \in [Jobs -> Task]
    BY <1>3, TaskTypes DEF Finalize, Place, EndedStatus
  <2>5. QED BY <2>2, <2>3, <2>4, WrittenType DEF Finalize, TypeOK
<1>4. QED BY <1>1, <1>2, <1>3

LEMMA ReadingTask ==
  ASSUME TypeOK, NEW j \in Jobs, task[j].at = "reading"
  PROVE  task[j].read \in Reading
BY TypeParts DEF Task

LEMMA RefreshForRepairType ==
  ASSUME TypeOK, NEW j \in Jobs, RefreshForRepair(j)
  PROVE  TypeOK'
<1> DEFINE s == job[j].slot
<1>1. task' \in [Jobs -> Task]
  BY TaskTypes DEF RefreshForRepair, Place, EndedStatus
<1>2. CASE UNCHANGED <<config, disk, owed>>
  BY <1>1, <1>2 DEF RefreshForRepair, TypeOK
<1>3. ASSUME NEW resolved \in BOOLEAN, StoreId(s, Learned(task[j].read, resolved))
      PROVE  TypeOK'
  <2>1. task[j].read \in Reading
    BY ReadingTask DEF RefreshForRepair
  <2>2. Learned(task[j].read, resolved) \in Id /\ s \in Slots
    BY <2>1, LearnedType, TypeParts
  <2>3. history' = history
    BY DEF RefreshForRepair
  <2>4. /\ config' \in Configs /\ disk' \in [config : Configs, history : Histories]
        /\ owed' \in Histories
    BY <1>3, <2>2, <2>3, StoreType
  <2>5. QED BY <1>1, <2>4 DEF RefreshForRepair, TypeOK
<1>4. QED BY <1>2, <1>3 DEF RefreshForRepair

LEMMA ReleaseType ==
  ASSUME TypeOK, NEW j \in Jobs, Release(j)
  PROVE  TypeOK'
<1> DEFINE s       == job[j].slot
           opened  == Gate(s, FALSE, None)
           regated == Gate(s, TRUE, job[j].expected)
<1>1. task' \in [Jobs -> Task]
  BY TaskTypes DEF Release, EndedStatus
<1>2. opened \in Configs /\ regated \in Configs /\ s \in Slots
  BY TypeParts, GateType DEF Job, Id
<1>3. CASE UNCHANGED <<config, history, disk, job, Observed>>
  BY <1>1, <1>3 DEF Release, TypeOK, Observed
<1>4. CASE ~ UNCHANGED <<config, history, disk, job, Observed>>
  <2>1. FinalReset(j) \in BOOLEAN
    BY TypeParts DEF FinalReset, ChangedIdentity, Job
  <2>2. history' \in Histories /\ before' \in Histories
    <3>1. Purge(s, FinalReset(j) /\ ~ job[j].reset)
      BY <1>4 DEF Release
    <3>2. (FinalReset(j) /\ ~ job[j].reset) \in BOOLEAN
      OBVIOUS
    <3>3. QED BY <1>2, <3>1, <3>2, PurgeType
  <2>3. job' \in [Jobs -> Job]
    <3>1. job' = [job EXCEPT ![j].reset = @ \/ FinalReset(j)]
      BY <1>4 DEF Release
    <3>2. QED BY <2>1, <3>1, TypeParts DEF TypeOK, Job
  <2>4. \E outcome \in SaveOutcome :
           /\ SaveCompleted(outcome, opened)
           /\ outcome = "saved" => config' = opened
           /\ config' \in {opened, regated}
    <3> HIDE DEF opened, regated
    <3>1. \/ config' = opened /\ SaveCompleted("saved", opened)
          \/ \E outcome \in {"half", "failed"} :
               config' = regated /\ SaveCompleted(outcome, opened)
      BY <1>4 DEF Release, opened, regated
    <3>2. QED BY <3>1 DEF SaveOutcome
  <2>5. PICK outcome \in SaveOutcome :
           /\ SaveCompleted(outcome, opened)
           /\ outcome = "saved" => config' = opened
           /\ config' \in {opened, regated}
    BY <2>4
  <2> HIDE DEF opened, regated
  <2>6. config' \in Configs /\ Written
    BY <1>2, <2>5, CompletedWrites
  <2>7. owed' \in Histories
    <3>1. Owes(outcome # "failed") /\ (outcome # "failed") \in BOOLEAN
      BY <2>5 DEF SaveCompleted
    <3>2. QED BY <3>1, OwesType
  <2>8. QED BY <1>1, <2>2, <2>3, <2>6, <2>7, WrittenType DEF Release, TypeOK
<1>5. QED BY <1>3, <1>4

LEMMA FinishType ==
  ASSUME TypeOK, NEW j \in Jobs, Finish(j)
  PROVE  TypeOK'
<1>1. job' \in [Jobs -> Job]
  <2> DEFINE ended == [NoJob EXCEPT !.status = task[j].ending]
  <2>1. task[j].ending \in Status
    BY TypeParts DEF Task, Status
  <2>2. ended \in Job
    BY <2>1, BlankType DEF Job
  <2>3. job' = job \/ job' = [job EXCEPT ![j] = ended]
    BY DEF Finish
  <2> HIDE DEF ended
  <2>4. QED BY <2>2, <2>3 DEF TypeOK
<1>2. task' \in [Jobs -> Task]
  BY BlankType DEF Finish, TypeOK
<1>3. QED BY <1>1, <1>2 DEF Finish, TypeOK, Pool, Observed

(* The quota refreshes of the pool.                                         *)
LEMMA ReadingType ==
  ASSUME TypeOK, NEW s \in Slots, StartRefresh(s) \/ ReadAgain(s)
  PROVE  TypeOK'
<1>1. reading' \in [Slots -> SUBSET Reading]
  <2>1. CASE StartRefresh(s)
    <3> DEFINE r == [account |-> config[s].account, credential |-> credential[s]]
    <3>1. r \in Reading /\ reading' = [reading EXCEPT ![s] = @ \cup {r}]
      BY <2>1, NewReading DEF StartRefresh
    <3> HIDE DEF r
    <3>2. QED BY <3>1, TypeParts DEF TypeOK
  <2>2. CASE ReadAgain(s)
    <3>1. PICK r \in reading[s] :
             reading' = [reading EXCEPT
                           ![s] = (@ \ {r}) \cup {[r EXCEPT !.credential = credential[s]]}]
      BY <2>2 DEF ReadAgain
    <3>2. r \in Reading
      BY TypeParts
    <3> DEFINE n == [r EXCEPT !.credential = credential[s]]
    <3>3. n \in Reading /\ reading' = [reading EXCEPT ![s] = (@ \ {r}) \cup {n}]
      BY <2>2, <3>1, <3>2, NewReading DEF ReadAgain
    <3> HIDE DEF n
    <3>4. QED BY <3>3, TypeParts DEF TypeOK
  <2>3. QED BY <2>1, <2>2
<1>2. UNCHANGED <<config, history, disk, credential, job, task, flying, Observed>>
  BY DEF StartRefresh, ReadAgain
<1>3. QED BY <1>1, <1>2 DEF TypeOK, Observed

LEMMA RefreshType ==
  ASSUME TypeOK, NEW s \in Slots, Refresh(s)
  PROVE  TypeOK'
<1>1. PICK r \in reading[s] :
         /\ reading' = [reading EXCEPT ![s] = @ \ {r}]
         /\ UNCHANGED <<history, credential, job, task, flying, before>>
         /\ \/ UNCHANGED <<config, disk, owed>>
            \/ config[s].present /\ \E resolved \in BOOLEAN : StoreId(s, Learned(r, resolved))
  BY DEF Refresh
<1>2. r \in Reading
  BY TypeParts
<1>3. reading' \in [Slots -> SUBSET Reading]
  BY <1>1, TypeParts DEF TypeOK
<1>4. /\ config' \in Configs /\ disk' \in [config : Configs, history : Histories]
      /\ owed' \in Histories
  <2>1. CASE UNCHANGED <<config, disk, owed>>
    BY <2>1 DEF TypeOK
  <2>2. ASSUME NEW resolved \in BOOLEAN, StoreId(s, Learned(r, resolved))
        PROVE  /\ config' \in Configs /\ disk' \in [config : Configs, history : Histories]
               /\ owed' \in Histories
    <3>1. Learned(r, resolved) \in Id
      BY <1>2, LearnedType
    <3>2. QED BY <1>1, <2>2, <3>1, StoreType
  <2>3. QED BY <1>1, <2>1, <2>2
<1>5. QED BY <1>1, <1>3, <1>4 DEF TypeOK

(* The rest of the pool.                                                    *)
LEMMA PoolType ==
  ASSUME TypeOK, (\E s \in Slots : Send(s) \/ Answered(s)) \/ Persist \/ Restart
  PROVE  TypeOK'
<1>1. ASSUME NEW s \in Slots, Send(s) PROVE TypeOK'
  BY <1>1 DEF Send, TypeOK, Histories, Observed
<1>2. ASSUME NEW s \in Slots, Answered(s) PROVE TypeOK'
  <2>1. history' \in Histories /\ flying' \in Histories
    BY <1>2 DEF Answered, TypeOK, Histories
  <2>2. Written /\ owed' \in Histories
    BY <1>2, SaveWrites DEF Answered
  <2>3. QED BY <1>2, <2>1, <2>2, WrittenType DEF Answered, TypeOK
<1>3. ASSUME Persist PROVE TypeOK'
  <2>1. Written /\ owed' \in Histories
    BY <1>3, SaveWrites DEF Persist
  <2>2. QED BY <1>3, <2>1, WrittenType DEF Persist, TypeOK
<1>4. ASSUME Restart PROVE TypeOK'
  <2>1. job' \in [Jobs -> Job] /\ task' \in [Jobs -> Task]
    BY <1>4, BlankType DEF Restart
  <2>2. /\ flying' \in Histories /\ before' \in Histories /\ owed' \in Histories
        /\ reading' \in [Slots -> SUBSET Reading]
    BY <1>4 DEF Restart, Histories
  <2>3. QED BY <1>4, <2>1, <2>2 DEF Restart, TypeOK
<1>5. QED BY <1>1, <1>2, <1>3, <1>4

LEMMA TypeStep ==
  ASSUME TypeOK, [Next]_vars
  PROVE  TypeOK'
<1>1. CASE UNCHANGED vars
  BY <1>1 DEF vars, TypeOK
<1>2. ASSUME NEW s \in Slots, NEW public \in BOOLEAN, Start(s, public) \/ Adopt(s, public)
      PROVE  TypeOK'
  BY <1>2, StartType, AdoptType
<1>3. ASSUME NEW s \in Slots,
             Delete(s) \/ StartRefresh(s) \/ ReadAgain(s) \/ Refresh(s)
      PROVE  TypeOK'
  BY <1>3, DeleteType, ReadingType, RefreshType
<1>4. ASSUME NEW j \in Jobs, Cancel(j) \/ Step(j)
      PROVE  TypeOK'
  BY <1>4, CancelType, QuietType, FinalizeType, RefreshForRepairType, ReleaseType, FinishType
     DEF Step
<1>5. CASE (\E s \in Slots : Send(s) \/ Answered(s)) \/ Persist \/ Restart
  BY <1>5, PoolType
<1>6. QED BY <1>1, <1>2, <1>3, <1>4, <1>5 DEF Next

(* Jobs, slots, files, refreshes and tasks keep their types in every run, for *)
(* any number of slots, jobs and accounts (login.rs, app.rs,                  *)
(* quota_refresh.rs).                                                         *)
THEOREM TypeCorrect == Spec => []TypeOK
<1>1. Init => TypeOK
  BY InitType
<1>2. TypeOK /\ [Next]_vars => TypeOK'
  BY TypeStep
<1>3. QED BY <1>1, <1>2, PTL DEF Spec

-----------------------------------------------------------------------------
(* One sign-in at a time                                                    *)

(* A step of a task moves that task alone and leaves its job active.        *)
LEMMA TaskMoves ==
  ASSUME TypeOK, NEW j \in Jobs, Step(j), ~ Finish(j)
  PROVE  /\ task[j].at # "idle"
         /\ \A i \in Jobs : i # j => task'[i] = task[i] /\ job'[i] = job[i]
         /\ Active(j) => Active(j)'
<1>1. CASE Launch(j) \/ SignsIn(j) \/ CliEnds(j) \/ LookForCancel(j) \/ ReadForRepair(j)
  BY <1>1 DEF Launch, SignsIn, CliEnds, LookForCancel, ReadForRepair, Goto, EndWith, TypeOK, Active
<1>2. CASE Finalize(j)
  <2>1. task[j].at = "finalize" /\ \A i \in Jobs : i # j => task'[i] = task[i]
    BY <1>2 DEF Finalize, Goto, EndWith, TypeOK
  <2>2. \/ job' = job
        \/ job' = [job EXCEPT ![j].status = "finalizing"]
        \/ job' = [job EXCEPT ![j].status = "finalizing",
                            ![j].reset = ChangedIdentity(LoginId(credential[job[j].slot]), j)]
    BY <1>2 DEF Finalize, Apply
  <2>3. /\ job'[j].status \in {job[j].status, "finalizing"}
        /\ \A i \in Jobs : i # j => job'[i] = job[i]
    BY <2>2, TypeParts DEF TypeOK, Job
  <2>4. QED BY <2>1, <2>3 DEF Active, ActiveStatus
<1>3. CASE RefreshForRepair(j)
  BY <1>3 DEF RefreshForRepair, Goto, EndWith, TypeOK, Active
<1>4. CASE Release(j)
  <2>1. task[j].at = "release" /\ \A i \in Jobs : i # j => task'[i] = task[i]
    BY <1>4 DEF Release, EndWith, TypeOK
  <2>2. job' = job \/ job' = [job EXCEPT ![j].reset = @ \/ FinalReset(j)]
    BY <1>4 DEF Release
  <2>3. job'[j].status = job[j].status /\ \A i \in Jobs : i # j => job'[i] = job[i]
    BY <2>2, TypeParts DEF TypeOK, Job
  <2>4. QED BY <2>1, <2>3 DEF Active
<1>5. QED BY <1>1, <1>2, <1>3, <1>4 DEF Step

LEMMA TasksStep ==
  ASSUME TypeOK, TaskActive, OneSignIn, [Next]_vars
  PROVE  TaskActive' /\ OneSignIn'
<1>1. CASE UNCHANGED vars
  BY <1>1 DEF vars, TaskActive, OneSignIn, Active
<1>2. ASSUME NEW s \in Slots, NEW public \in BOOLEAN, Start(s, public)
      PROVE  TaskActive' /\ OneSignIn'
  <2>1. \A j \in Jobs : task[j].at = "idle"
    BY <1>2 DEF Start, TaskActive
  <2>2. CASE UNCHANGED <<job, task>>
    BY <2>1, <2>2 DEF TaskActive, OneSignIn
  <2>3. CASE ~ UNCHANGED <<job, task>>
    <3>1. PICK j \in Jobs : /\ job' = [job EXCEPT ![j] = Started(s, public)]
                            /\ task' = [task EXCEPT ![j] = [NoTask EXCEPT !.at = "launch"]]
      BY <1>2, <2>3 DEF Start
    <3>2. job'[j].status = "running" /\ \A i \in Jobs : i # j => task'[i].at = "idle"
      BY <2>1, <3>1 DEF Started, TypeOK
    <3>3. QED BY <3>2 DEF TaskActive, OneSignIn, Active, ActiveStatus
  <2>4. QED BY <2>2, <2>3
<1>3. ASSUME task' = task, \A j \in Jobs : Active(j) => Active(j)'
      PROVE  TaskActive' /\ OneSignIn'
  BY <1>3 DEF TaskActive, OneSignIn
<1>4. ASSUME NEW s \in Slots, NEW public \in BOOLEAN, Adopt(s, public)
      PROVE  TaskActive' /\ OneSignIn'
  BY <1>3, <1>4 DEF Adopt, Active
<1>5. ASSUME NEW s \in Slots, Delete(s) PROVE TaskActive' /\ OneSignIn'
  <2>1. \A j \in Jobs : Active(j) => Active(j)'
    BY <1>5, TypeParts DEF Delete, Active, ActiveStatus, TypeOK, Job
  <2>2. QED BY <1>3, <1>5, <2>1 DEF Delete
<1>6. ASSUME NEW j \in Jobs, Cancel(j) PROVE TaskActive' /\ OneSignIn'
  <2>1. \A i \in Jobs : Active(i) => Active(i)'
    BY <1>6, TypeParts DEF Cancel, Cancelling, Active, ActiveStatus, TypeOK, Job
  <2>2. QED BY <1>3, <1>6, <2>1 DEF Cancel
<1>7. ASSUME NEW j \in Jobs, Step(j), ~ Finish(j) PROVE TaskActive' /\ OneSignIn'
  <2>1. \A i \in Jobs : i # j => task'[i] = task[i] /\ job'[i] = job[i] /\ task[i].at = "idle"
    BY <1>7, TaskMoves DEF OneSignIn
  <2>2. Active(j)'
    BY <1>7, TaskMoves DEF TaskActive
  <2>3. QED BY <2>1, <2>2 DEF TaskActive, OneSignIn
<1>8. ASSUME NEW j \in Jobs, Finish(j) PROVE TaskActive' /\ OneSignIn'
  <2>1. task'[j].at = "idle" /\ \A i \in Jobs : i # j => task'[i] = task[i] /\ job'[i] = job[i]
    BY <1>8 DEF Finish, NoTask, TypeOK
  <2>2. QED BY <2>1 DEF TaskActive, OneSignIn, Active
<1>9. CASE \/ \E s \in Slots : Send(s) \/ Answered(s) \/ StartRefresh(s) \/ ReadAgain(s) \/ Refresh(s)
           \/ Persist
  BY <1>3, <1>9 DEF Send, Answered, StartRefresh, ReadAgain, Refresh, Persist, Active
<1>10. CASE Restart
  BY <1>10 DEF Restart, NoTask, TaskActive, OneSignIn
<1>11. QED
  BY <1>1, <1>2, <1>4, <1>5, <1>6, <1>7, <1>8, <1>9, <1>10 DEF Next, Step

(* One sign-in at a time, however many jobs were started, cancelled and      *)
(* restarted (login.rs start_login_job_with_policy).                         *)
THEOREM OneAtATime == Spec => []OneSignIn
<1>1. Init => TypeOK /\ TaskActive /\ OneSignIn
  BY InitType DEF Init, NoTask, TaskActive, OneSignIn
<1>2. TypeOK /\ TaskActive /\ OneSignIn /\ [Next]_vars => (TypeOK /\ TaskActive /\ OneSignIn)'
  BY TypeStep, TasksStep
<1>3. QED BY <1>1, <1>2, PTL DEF Spec

-----------------------------------------------------------------------------
(* Repairs                                                                  *)

(* What most steps do to the pool: a gate that is set stays set for the same *)
(* identity, and what runtime.json lacks is of a slot gated on disk.         *)
PoolSteady ==
  /\ Written
  /\ \A s \in Slots :
       /\ config[s].gate => config'[s].gate /\ config'[s].expected = config[s].expected
       /\ Held(config[s]) => Held(config'[s])
       /\ owed'[s] => disk.config[s].gate

(* And to the jobs: one before its release stays the job it was.            *)
JobsSteady ==
  \A j \in Jobs : BeforeRelease(j)' =>
    /\ BeforeRelease(j)
    /\ job'[j].slot = job[j].slot /\ job'[j].expected = job[j].expected
    /\ job'[j].public = job[j].public /\ job'[j].reauth = job[j].reauth
    /\ job'[j].reset \/ ~ job[j].reauth => ~ before'[job[j].slot]

LEMMA PoolStep ==
  ASSUME TypeOK, Repairs, PoolSteady
  PROVE  DiskBehind' /\ OwedGated' /\ AllHeld'
<1>1. \A s \in Slots : disk'.config[s] = config'[s] \/ disk'.config[s] = disk.config[s]
  BY DEF PoolSteady, Written
<1>2. ASSUME NEW s \in Slots
      PROVE  disk'.config[s].gate =>
               config'[s].gate /\ disk'.config[s].expected = config'[s].expected
  BY <1>1 DEF PoolSteady, Repairs, DiskBehind
<1>3. ASSUME NEW s \in Slots, owed'[s]
      PROVE  disk'.config[s].gate
  BY <1>1, <1>3 DEF PoolSteady, Repairs, DiskBehind
<1>4. ASSUME NEW s \in Slots
      PROVE  Held(config'[s]) /\ Held(disk'.config[s])
  BY <1>1 DEF PoolSteady, Repairs, AllHeld
<1>5. DiskBehind' /\ OwedGated'
  BY <1>2, <1>3 DEF DiskBehind, OwedGated
<1>6. AllHeld'
  BY <1>4 DEF AllHeld, Held
<1>7. QED BY <1>5, <1>6

LEMMA SteadyStep ==
  ASSUME TypeOK, Repairs, PoolSteady, JobsSteady
  PROVE  Repairs'
<1>1. DiskBehind' /\ OwedGated' /\ AllHeld'
  BY PoolStep
<1>2. ASSUME NEW j \in Jobs, BeforeRelease(j)'
      PROVE  /\ config'[job'[j].slot].gate
             /\ config'[job'[j].slot].expected = job'[j].expected
             /\ disk'.config[job'[j].slot].gate
  <2>1. BeforeRelease(j) /\ job'[j].slot = job[j].slot /\ job'[j].expected = job[j].expected
    BY <1>2 DEF JobsSteady
  <2>2. job[j].slot \in Slots
    BY TypeParts
  <2>3. disk'.config = config' \/ disk'.config = disk.config
    BY DEF PoolSteady, Written
  <2>4. QED BY <2>1, <2>2, <2>3 DEF PoolSteady, Repairs, TaskGated
<1>3. TaskGated'
  BY <1>2 DEF TaskGated
<1>4. TaskKnows'
  BY DEF JobsSteady, Repairs, TaskKnows
<1>5. QED BY <1>1, <1>3, <1>4 DEF Repairs

LEMMA UnchangedDisk ==
  ASSUME TypeOK, disk' = disk
  PROVE  Written
BY DEF TypeOK, Written

(* A save leaves runtime.json lacking only what it lacked, or the purge of   *)
(* this step.                                                                *)
LEMMA SaveOwes ==
  ASSUME TypeOK, Repairs, NEW outcome \in SaveOutcome, Save(outcome),
         \A s \in Slots :
           history[s] /\ ~ history'[s] /\ config'[s].present => disk.config[s].gate
  PROVE  Written /\ \A s \in Slots : owed'[s] => disk.config[s].gate
<1>1. PICK written \in BOOLEAN : Owes(written)
  BY SaveWrites
<1>2. \A s \in Slots : owed'[s] => owed[s] \/ (history[s] /\ ~ history'[s] /\ config'[s].present)
  BY <1>1 DEF Owes
<1>3. QED BY <1>2, SaveWrites DEF Repairs, OwedGated

(* Steps that leave the configuration, the history and what is owed alone.   *)
LEMMA QuietPool ==
  ASSUME TypeOK, Repairs, UNCHANGED <<config, disk, owed>>
  PROVE  PoolSteady
BY UnchangedDisk DEF PoolSteady, Repairs, OwedGated

SameJob(j) ==
  /\ job'[j].slot = job[j].slot /\ job'[j].expected = job[j].expected
  /\ job'[j].public = job[j].public /\ job'[j].reauth = job[j].reauth
  /\ job'[j].reset = job[j].reset

LEMMA QuietJobs ==
  ASSUME TypeOK, Repairs,
         \A s \in Slots : before'[s] => before[s],
         \A j \in Jobs : BeforeRelease(j)' => BeforeRelease(j) /\ SameJob(j)
  PROVE  JobsSteady
<1>1. \A j \in Jobs : before'[job[j].slot] => before[job[j].slot]
  BY TypeParts
<1>2. QED BY <1>1 DEF JobsSteady, SameJob, Repairs, TaskKnows

LEMMA GateKeeps ==
  ASSUME TypeOK, NEW s \in Slots, config' = Gated(s)
  PROVE  \A t \in Slots :
           /\ config[t].gate => config'[t].gate /\ config'[t].expected = config[t].expected
           /\ Held(config[t]) => Held(config'[t])
           /\ t = s => config'[t].gate /\ config'[t].expected = Expected(s)
           /\ config'[t].account = config[t].account /\ config'[t].known = config[t].known
<1>1. config' = [config EXCEPT ![s] = [@ EXCEPT !.gate = TRUE, !.expected = Expected(s)]]
  BY DEF Gated, Gate
<1>2. /\ config'[s].gate /\ config'[s].expected = Expected(s)
      /\ config'[s].account = config[s].account /\ config'[s].known = config[s].known
      /\ \A t \in Slots : t # s => config'[t] = config[t]
  BY <1>1, TypeParts DEF TypeOK, Configs, SlotConfig
<1>3. QED BY <1>2 DEF Held, Expected

LEMMA GateEffect ==
  ASSUME TypeOK, NEW s \in Slots, NEW set \in BOOLEAN, NEW id \in Id, config' = Gate(s, set, id)
  PROVE  /\ config'[s].gate = set /\ config'[s].expected = id
         /\ config'[s].account = config[s].account /\ config'[s].known = config[s].known
         /\ config'[s].present = config[s].present
         /\ \A t \in Slots : t # s => config'[t] = config[t]
<1>1. config' = [config EXCEPT ![s] = [@ EXCEPT !.gate = set, !.expected = id]]
  BY DEF Gate
<1>2. config[s] \in SlotConfig /\ config \in [Slots -> SlotConfig]
  BY TypeParts DEF TypeOK, Configs
<1>3. config'[s] = [config[s] EXCEPT !.gate = set, !.expected = id]
  BY <1>1, <1>2
<1>4. QED BY <1>1, <1>2, <1>3 DEF SlotConfig

LEMMA StartRepairs ==
  ASSUME Inv, NEW s \in Slots, NEW public \in BOOLEAN, Start(s, public)
  PROVE  Repairs'
<1>1. \A j \in Jobs : ~ BeforeRelease(j)
  BY DEF Inv, TaskActive, Start, BeforeRelease
<1>2. config' = Gated(s) /\ history' = history
  BY DEF Start
<1>3. PoolSteady
  <2>1. Written /\ \A t \in Slots : owed'[t] => disk.config[t].gate
    BY <1>2, SaveOwes DEF Start, Inv
  <2>2. QED BY <1>2, <2>1, GateKeeps DEF Inv, PoolSteady
<1>4. CASE UNCHANGED <<job, task>>
  <2>1. JobsSteady
    BY <1>1, <1>4 DEF JobsSteady, BeforeRelease
  <2>2. QED BY <1>3, <2>1, SteadyStep DEF Inv
<1>5. CASE ~ UNCHANGED <<job, task>>
  <2>1. PICK j \in Jobs : /\ job' = [job EXCEPT ![j] = Started(s, public)]
                          /\ task' = [task EXCEPT ![j] = [NoTask EXCEPT !.at = "launch"]]
    BY <1>5 DEF Start
  <2>2. Save("saved") /\ disk'.config = config'
    BY <1>5 DEF Start, Save
  <2>3. job'[j] = Started(s, public) /\ \A i \in Jobs : BeforeRelease(i)' => i = j
    BY <1>1, <2>1 DEF Inv, TypeOK, BeforeRelease
  <2>4. config'[s].gate /\ config'[s].expected = Expected(s)
    BY <1>2, GateKeeps DEF Inv
  <2>5. TaskGated'
    BY <2>2, <2>3, <2>4 DEF TaskGated, Started
  <2>6. public => HasPriorIdentity(s) /\ Expected(s) # None
    BY DEF Start, Inv, Repairs, AllHeld, Held, HasPriorIdentity, Expected
  <2>7. ~ HasPriorIdentity(s) => ~ before'[s]
    BY DEF HasPriorIdentity, Start, Inv, TypeOK, Histories
  <2>8. TaskKnows'
    BY <2>3, <2>6, <2>7 DEF TaskKnows, Started
  <2>9. QED BY <1>3, <2>5, <2>8, PoolStep DEF Inv, Repairs
<1>6. QED BY <1>4, <1>5

LEMMA AdoptRepairs ==
  ASSUME Inv, NEW s \in Slots, NEW public \in BOOLEAN, Adopt(s, public)
  PROVE  Repairs'
<1>1. config' = Gated(s) /\ history' = history /\ before' = before
  BY DEF Adopt
<1>2. PoolSteady
  <2>1. Written /\ \A t \in Slots : owed'[t] => disk.config[t].gate
    BY <1>1, SaveOwes DEF Adopt, Inv
  <2>2. QED BY <1>1, <2>1, GateKeeps DEF Inv, PoolSteady
<1>3. JobsSteady
  <2>1. \A j \in Jobs : BeforeRelease(j)' => BeforeRelease(j) /\ SameJob(j)
    BY DEF Adopt, BeforeRelease, SameJob
  <2>2. QED BY <1>1, <2>1, QuietJobs DEF Inv
<1>4. QED BY <1>2, <1>3, SteadyStep DEF Inv

LEMMA CancelRepairs ==
  ASSUME Inv, NEW j \in Jobs, Cancel(j)
  PROVE  Repairs'
<1>1. \A i \in Jobs : BeforeRelease(i)' => BeforeRelease(i) /\ SameJob(i)
  BY TypeParts DEF Inv, Cancel, Cancelling, BeforeRelease, SameJob, TypeOK, Job
<1>2. UNCHANGED <<config, disk, owed, before>>
  BY DEF Cancel, Observed
<1>3. QED BY <1>1, <1>2, QuietPool, QuietJobs, SteadyStep DEF Inv

LEMMA DeleteRepairs ==
  ASSUME Inv, NEW s \in Slots, Delete(s)
  PROVE  Repairs'
<1>1. \A i \in Jobs : BeforeRelease(i)' => BeforeRelease(i) /\ SameJob(i)
  BY TypeParts DEF Inv, Delete, BeforeRelease, SameJob, TypeOK, Job
<1>2. CASE UNCHANGED <<config, history, disk, Observed>>
  BY <1>1, <1>2, QuietPool, QuietJobs, SteadyStep DEF Inv, Observed
<1>3. CASE ~ UNCHANGED <<config, history, disk, Observed>>
  <2>1. config' = [config EXCEPT ![s].present = FALSE] /\ Purge(s, TRUE)
    BY <1>3 DEF Delete
  <2>2. \A t \in Slots : /\ config'[t].gate = config[t].gate
                        /\ config'[t].expected = config[t].expected
                        /\ config'[t].account = config[t].account
                        /\ config'[t].known = config[t].known
    BY <2>1, TypeParts DEF Inv, TypeOK, Configs, SlotConfig
  <2>3. ~ config'[s].present
    BY <2>1, TypeParts DEF Inv, TypeOK, Configs, SlotConfig
  <2>4. /\ \A t \in Slots : before'[t] => before[t]
        /\ \A t \in Slots : t # s => history'[t] = history[t]
    BY <2>1, PurgeType DEF Inv
  <2>5. Written /\ \A t \in Slots : owed'[t] => disk.config[t].gate
    BY <1>3, <2>3, <2>4, SaveOwes DEF Delete, Inv
  <2>6. PoolSteady
    BY <2>2, <2>5 DEF PoolSteady, Held
  <2>7. QED BY <1>1, <2>4, <2>6, QuietJobs, SteadyStep DEF Inv
<1>4. QED BY <1>2, <1>3

(* Where a task goes, no job is before its release that was not.            *)
LEMMA TaskOnward ==
  ASSUME Inv, NEW j \in Jobs, Step(j), ~ Finish(j)
  PROVE  \A i \in Jobs : BeforeRelease(i)' => BeforeRelease(i)
<1>1. \A i \in Jobs : i # j => task'[i] = task[i]
  BY TaskMoves DEF Inv
<1>2. CASE task[j].at # "broke"
  <2>1. BeforeRelease(j)
    BY <1>2 DEF Step, Launch, SignsIn, CliEnds, LookForCancel, Finalize, ReadForRepair,
                RefreshForRepair, Release, BeforeRelease
  <2>2. QED BY <1>1, <2>1 DEF BeforeRelease
<1>3. CASE task[j].at = "broke"
  <2>1. \E status \in EndedStatus : EndWith(j, status)
    BY <1>3 DEF Step, Launch, SignsIn, CliEnds, LookForCancel, Finalize, ReadForRepair,
                RefreshForRepair, Release, EndedStatus
  <2>2. task'[j].at = "finish"
    BY <2>1 DEF EndWith, NoTask, Inv, TypeOK
  <2>3. QED BY <1>1, <2>2 DEF BeforeRelease
<1>4. QED BY <1>2, <1>3

LEMMA QuietRepairs ==
  ASSUME Inv, NEW j \in Jobs,
         Launch(j) \/ SignsIn(j) \/ CliEnds(j) \/ LookForCancel(j) \/ ReadForRepair(j)
  PROVE  Repairs'
<1>1. UNCHANGED <<config, history, disk, Observed, job>>
  BY DEF Launch, SignsIn, CliEnds, LookForCancel, ReadForRepair, Pool
<1>2. ~ Finish(j) /\ Step(j)
  BY DEF Launch, SignsIn, CliEnds, LookForCancel, ReadForRepair, Finish, Step
<1>3. \A i \in Jobs : BeforeRelease(i)' => BeforeRelease(i) /\ SameJob(i)
  BY <1>1, <1>2, TaskOnward DEF SameJob
<1>4. QED BY <1>1, <1>3, QuietPool, QuietJobs, SteadyStep DEF Inv, Observed

LEMMA FinalizeRepairs ==
  ASSUME Inv, NEW j \in Jobs, Finalize(j)
  PROVE  Repairs'
<1> DEFINE s  == job[j].slot
           id == LoginId(credential[s])
           changed == ChangedIdentity(id, j)
<1>1. Step(j) /\ ~ Finish(j) /\ BeforeRelease(j) /\ s \in Slots
  BY TypeParts DEF Inv, Finalize, Step, Finish, BeforeRelease
<1>2. \A i \in Jobs : BeforeRelease(i)' => BeforeRelease(i)
  BY <1>1, TaskOnward
<1>3. CASE UNCHANGED <<config, history, disk, Observed, job>>
  <2>1. \A i \in Jobs : BeforeRelease(i)' => BeforeRelease(i) /\ SameJob(i)
    BY <1>2, <1>3 DEF SameJob
  <2>2. QED BY <1>3, <2>1, QuietPool, QuietJobs, SteadyStep DEF Inv, Observed
<1>4. CASE /\ UNCHANGED <<config, history, disk, Observed>>
           /\ job' = [job EXCEPT ![j].status = "finalizing"]
  <2>1. \A i \in Jobs : SameJob(i)
    BY <1>4, TypeParts DEF SameJob, Inv, TypeOK, Job
  <2>2. QED BY <1>2, <1>4, <2>1, QuietPool, QuietJobs, SteadyStep DEF Inv, Observed
<1>5. CASE Apply(j) /\ \E outcome \in SaveOutcome : Save(outcome)
  <2>1. /\ Purge(s, changed)
        /\ config' = [config EXCEPT ![s].known = TRUE,
                        ![s].account = IF changed \/ id # None THEN id ELSE @]
        /\ job' = [job EXCEPT ![j].status = "finalizing", ![j].reset = changed]
    BY <1>5 DEF Apply
  <2>2. changed \in BOOLEAN
    BY TypeParts DEF Inv, Job, ChangedIdentity
  <2> HIDE DEF id, changed
  <2>3. /\ config'[s].gate = config[s].gate /\ config'[s].expected = config[s].expected
        /\ config'[s].known
        /\ \A t \in Slots : t # s => config'[t] = config[t]
    BY <1>1, <2>1, TypeParts DEF Inv, TypeOK, Configs, SlotConfig
  <2>4. /\ \A t \in Slots : before'[t] => before[t]
        /\ \A t \in Slots : t # s => history'[t] = history[t]
        /\ changed => ~ before'[s]
    BY <1>1, <2>1, <2>2, PurgeType DEF Inv
  <2>5. disk.config[s].gate
    BY <1>1 DEF Inv, Repairs, TaskGated
  <2>6. Written /\ \A t \in Slots : owed'[t] => disk.config[t].gate
    BY <1>5, <2>4, <2>5, SaveOwes DEF Inv
  <2>7. PoolSteady
    BY <2>3, <2>6 DEF PoolSteady, Held
  <2>8. /\ job'[j].slot = s /\ job'[j].expected = job[j].expected
        /\ job'[j].public = job[j].public /\ job'[j].reauth = job[j].reauth
        /\ job'[j].reset = changed
        /\ \A i \in Jobs : i # j => job'[i] = job[i]
    BY <2>1, TypeParts DEF Inv, TypeOK, Job
  <2>9. ~ job[j].reauth => ~ before'[s]
    BY <1>1, <2>4 DEF Inv, Repairs, TaskKnows
  <2>10. \A i \in Jobs : BeforeRelease(i) => i = j
    BY <1>1 DEF Inv, OneSignIn, BeforeRelease
  <2>11. JobsSteady
    BY <1>2, <2>4, <2>8, <2>9, <2>10 DEF JobsSteady
  <2>12. QED BY <2>7, <2>11, SteadyStep DEF Inv
<1>6. QED BY <1>3, <1>4, <1>5 DEF Finalize, SaveOutcome

(* A refresh stores an account, which moves no gate.                         *)
LEMMA StoreSteady ==
  ASSUME Inv, NEW s \in Slots, NEW id \in Id, StoreId(s, id), history' = history
  PROVE  PoolSteady
<1>1. Written /\ \A t \in Slots : owed'[t] => disk.config[t].gate
  BY SaveOwes DEF StoreId, Inv
<1>2. /\ config'[s].gate = config[s].gate /\ config'[s].expected = config[s].expected
      /\ config'[s].known = config[s].known
      /\ config'[s].account = IF id = None THEN config[s].account ELSE id
      /\ \A t \in Slots : t # s => config'[t] = config[t]
  BY TypeParts DEF StoreId, Inv, TypeOK, Configs, SlotConfig
<1>3. QED BY <1>1, <1>2 DEF PoolSteady, Held

LEMMA RefreshForRepairRepairs ==
  ASSUME Inv, NEW j \in Jobs, RefreshForRepair(j)
  PROVE  Repairs'
<1> DEFINE s == job[j].slot
<1>1. Step(j) /\ ~ Finish(j) /\ task[j].at = "reading" /\ s \in Slots
  BY TypeParts DEF Inv, RefreshForRepair, Step, Finish
<1>2. history' = history /\ before' = before
  BY DEF RefreshForRepair
<1>3. \A i \in Jobs : BeforeRelease(i)' => BeforeRelease(i) /\ SameJob(i)
  BY <1>1, TaskOnward DEF RefreshForRepair, SameJob
<1>4. PoolSteady
  <2>1. CASE UNCHANGED <<config, disk, owed>>
    BY <2>1, QuietPool DEF Inv
  <2>2. ASSUME NEW resolved \in BOOLEAN, StoreId(s, Learned(task[j].read, resolved))
        PROVE  PoolSteady
    <3>1. Learned(task[j].read, resolved) \in Id
      BY <1>1, ReadingTask, LearnedType DEF Inv
    <3>2. QED BY <1>1, <1>2, <2>2, <3>1, StoreSteady
  <2>3. QED BY <2>1, <2>2 DEF RefreshForRepair
<1>5. QED BY <1>2, <1>3, <1>4, QuietJobs, SteadyStep DEF Inv

LEMMA ReleaseRepairs ==
  ASSUME Inv, NEW j \in Jobs, Release(j)
  PROVE  Repairs'
<1> DEFINE s       == job[j].slot
           opened  == Gate(s, FALSE, None)
           regated == Gate(s, TRUE, job[j].expected)
           purges  == FinalReset(j) /\ ~ job[j].reset
<1>1. Step(j) /\ ~ Finish(j) /\ BeforeRelease(j) /\ s \in Slots
  BY TypeParts DEF Inv, Release, Step, Finish, BeforeRelease
<1>2. \A i \in Jobs : ~ BeforeRelease(i)'
  <2>1. \A i \in Jobs : i # j => ~ BeforeRelease(i)
    BY <1>1 DEF Inv, OneSignIn, BeforeRelease
  <2>2. ~ BeforeRelease(j)'
    <3>1. EndWith(j, "failed") \/ EndWith(j, "completed")
      BY DEF Release
    <3>2. DOMAIN task = Jobs
      BY DEF Inv, TypeOK
    <3>3. ASSUME NEW status, EndWith(j, status)
          PROVE  task'[j].at = "finish"
      BY <3>2, <3>3 DEF EndWith, NoTask
    <3>4. QED BY <3>1, <3>3 DEF BeforeRelease
  <2>3. QED BY <1>1, <2>1, <2>2, TaskOnward
<1>3. JobsSteady
  BY <1>2 DEF JobsSteady
<1>4. CASE UNCHANGED <<config, history, disk, job, Observed>>
  BY <1>3, <1>4, QuietPool, SteadyStep DEF Inv, Observed
<1>5. CASE ~ UNCHANGED <<config, history, disk, job, Observed>>
  <2>1. /\ config[s].gate /\ config[s].expected = job[j].expected /\ disk.config[s].gate
        /\ \A t \in Slots : owed[t] => disk.config[t].gate
    BY <1>1 DEF Inv, Repairs, TaskGated, OwedGated
  <2>2. CASE config' = opened /\ SaveCompleted("saved", opened)
    <3>1. /\ ~ config'[s].gate
          /\ \A t \in Slots : t # s => config'[t] = config[t]
      BY <1>1, <2>2, GateEffect DEF Inv, Id
    <3>2. disk'.config = config' /\ \A t \in Slots : ~ owed'[t]
      BY <2>2 DEF SaveCompleted, Owes
    <3>3. \A t \in Slots : Held(config'[t])
      BY <3>1 DEF Held, Inv, Repairs, AllHeld
    <3>4. DiskBehind' /\ OwedGated' /\ AllHeld'
      BY <3>2, <3>3 DEF DiskBehind, OwedGated, AllHeld, Held
    <3>5. TaskGated' /\ TaskKnows'
      BY <1>2 DEF TaskGated, TaskKnows
    <3>6. QED BY <3>4, <3>5 DEF Repairs
  <2>3. ASSUME NEW outcome \in {"half", "failed"},
               config' = regated, SaveCompleted(outcome, opened)
        PROVE  Repairs'
    <3>1. /\ config'[s].gate = config[s].gate /\ config'[s].account = config[s].account
          /\ config'[s].expected = config[s].expected /\ config'[s].known = config[s].known
          /\ \A t \in Slots : t # s => config'[t] = config[t]
      BY <1>1, <2>1, <2>3, GateEffect, TypeParts DEF Inv, Job
    <3>2. Written
      <4> HIDE DEF opened, regated
      <4>1. QED BY <2>3, CompletedWrites DEF SaveOutcome
    <3>3. \A t \in Slots : owed'[t] => disk.config[t].gate
      <4>1. Purge(s, purges) /\ purges \in BOOLEAN
        BY <1>5 DEF Release
      <4> HIDE DEF purges, opened
      <4>2. \A t \in Slots : t # s => history'[t] = history[t]
        BY <1>1, <4>1, PurgeType DEF Inv
      <4>3. \A t \in Slots : owed'[t] => owed[t] \/ (history[t] /\ ~ history'[t])
        BY <2>3 DEF SaveCompleted, Owes
      <4>4. QED BY <2>1, <4>2, <4>3
    <3>4. PoolSteady
      BY <3>1, <3>2, <3>3 DEF PoolSteady, Held
    <3>5. QED BY <1>3, <3>4, SteadyStep DEF Inv
  <2>4. QED BY <1>5, <2>2, <2>3 DEF Release
<1>6. QED BY <1>4, <1>5

LEMMA FinishRepairs ==
  ASSUME Inv, NEW j \in Jobs, Finish(j)
  PROVE  Repairs'
<1>1. \A i \in Jobs : BeforeRelease(i)' => BeforeRelease(i) /\ i # j
  BY DEF Inv, TypeOK, Finish, BeforeRelease, NoTask
<1>2. \A i \in Jobs : i # j => SameJob(i)
  BY DEF Inv, TypeOK, Finish, SameJob
<1>3. QED BY <1>1, <1>2, QuietPool, QuietJobs, SteadyStep DEF Inv, Finish, Pool, Observed

LEMMA PoolRepairs ==
  ASSUME Inv,
         \/ \E s \in Slots : Send(s) \/ Answered(s) \/ StartRefresh(s) \/ ReadAgain(s) \/ Refresh(s)
         \/ Persist
  PROVE  Repairs'
<1>1. UNCHANGED <<job, task, before>>
  BY DEF Send, Answered, StartRefresh, ReadAgain, Refresh, Persist, Observed
<1>2. \A i \in Jobs : BeforeRelease(i)' => BeforeRelease(i) /\ SameJob(i)
  BY <1>1 DEF BeforeRelease, SameJob
<1>3. PoolSteady
  <2>1. ASSUME NEW s \in Slots, Send(s) \/ StartRefresh(s) \/ ReadAgain(s) PROVE PoolSteady
    BY <2>1, QuietPool DEF Inv, Send, StartRefresh, ReadAgain, Observed
  <2>2. ASSUME NEW s \in Slots, Answered(s) PROVE PoolSteady
    <3>1. config' = config /\ \A t \in Slots : history[t] => history'[t]
      BY <2>2 DEF Answered, Inv, TypeOK, Histories
    <3>2. Written /\ \A t \in Slots : owed'[t] => disk.config[t].gate
      BY <2>2, <3>1, SaveOwes DEF Answered, Inv
    <3>3. QED BY <3>1, <3>2 DEF PoolSteady
  <2>3. ASSUME NEW s \in Slots, Refresh(s) PROVE PoolSteady
    <3>1. history' = history
      BY <2>3 DEF Refresh
    <3>2. CASE UNCHANGED <<config, disk, owed>>
      BY <3>2, QuietPool DEF Inv
    <3>3. ASSUME NEW r \in reading[s], NEW resolved \in BOOLEAN, StoreId(s, Learned(r, resolved))
          PROVE  PoolSteady
      <4>1. r \in Reading
        BY TypeParts DEF Inv
      <4>2. Learned(r, resolved) \in Id
        BY <4>1, LearnedType
      <4>3. QED BY <3>1, <3>3, <4>2, StoreSteady
    <3>4. QED BY <2>3, <3>2, <3>3 DEF Refresh
  <2>4. ASSUME Persist PROVE PoolSteady
    <3>1. config' = config /\ history' = history
      BY <2>4 DEF Persist
    <3>2. Written /\ \A t \in Slots : owed'[t] => disk.config[t].gate
      BY <2>4, <3>1, SaveOwes DEF Persist, Inv
    <3>3. QED BY <3>1, <3>2 DEF PoolSteady
  <2>5. QED BY <2>1, <2>2, <2>3, <2>4
<1>4. QED BY <1>1, <1>2, <1>3, QuietJobs, SteadyStep DEF Inv

LEMMA RestartRepairs ==
  ASSUME Inv, Restart
  PROVE  Repairs'
<1>1. \A j \in Jobs : ~ BeforeRelease(j)'
  BY DEF Restart, BeforeRelease, NoTask
<1>2. config' = disk.config /\ disk' = disk /\ \A s \in Slots : ~ owed'[s]
  BY DEF Restart
<1>3. TaskGated' /\ TaskKnows'
  BY <1>1 DEF TaskGated, TaskKnows
<1>4. DiskBehind' /\ OwedGated'
  BY <1>2 DEF DiskBehind, OwedGated
<1>5. AllHeld'
  BY <1>2 DEF AllHeld, Held, Inv, Repairs
<1>6. QED BY <1>3, <1>4, <1>5 DEF Repairs

LEMMA RepairsStep ==
  ASSUME Inv, [Next]_vars
  PROVE  Repairs'
<1>1. CASE UNCHANGED vars
  <2>1. \A i \in Jobs : BeforeRelease(i)' => BeforeRelease(i) /\ SameJob(i)
    BY <1>1 DEF vars, BeforeRelease, SameJob
  <2>2. QED BY <1>1, <2>1, QuietPool, QuietJobs, SteadyStep DEF Inv, vars
<1>2. ASSUME NEW s \in Slots, NEW public \in BOOLEAN, Start(s, public) \/ Adopt(s, public)
      PROVE  Repairs'
  BY <1>2, StartRepairs, AdoptRepairs
<1>3. ASSUME NEW s \in Slots, Delete(s) PROVE Repairs'
  BY <1>3, DeleteRepairs
<1>4. ASSUME NEW j \in Jobs, Cancel(j) \/ Step(j) PROVE Repairs'
  BY <1>4, CancelRepairs, QuietRepairs, FinalizeRepairs, RefreshForRepairRepairs,
     ReleaseRepairs, FinishRepairs DEF Step
<1>5. CASE \/ \E s \in Slots : Send(s) \/ Answered(s) \/ StartRefresh(s) \/ ReadAgain(s) \/ Refresh(s)
           \/ Persist
  BY <1>5, PoolRepairs
<1>6. CASE Restart
  BY <1>6, RestartRepairs
<1>7. QED BY <1>1, <1>2, <1>3, <1>4, <1>5, <1>6 DEF Next

-----------------------------------------------------------------------------
(* The theorems                                                             *)

LEMMA InvInit == Init => Inv
<1> SUFFICES ASSUME Init PROVE Inv
  OBVIOUS
<1>1. TypeOK
  BY InitType
<1>2. TaskActive /\ OneSignIn
  BY DEF Init, NoTask, TaskActive, OneSignIn
<1>3. \A s \in Slots : ~ config[s].gate
  BY DEF Init, Configured
<1>4. TaskGated /\ TaskKnows
  BY DEF Init, NoTask, TaskGated, TaskKnows, BeforeRelease
<1>5. DiskBehind /\ OwedGated /\ AllHeld
  BY <1>3 DEF Init, DiskBehind, OwedGated, AllHeld, Held
<1>6. QED BY <1>1, <1>2, <1>4, <1>5 DEF Inv, Repairs

LEMMA InvStep == Inv /\ [Next]_vars => Inv'
<1> SUFFICES ASSUME Inv, [Next]_vars PROVE Inv'
  OBVIOUS
<1>1. TypeOK' /\ TaskActive' /\ OneSignIn'
  BY TypeStep, TasksStep DEF Inv
<1>2. Repairs'
  BY RepairsStep
<1>3. QED BY <1>1, <1>2 DEF Inv

LEMMA Invariant == Spec => []Inv
BY InvInit, InvStep, PTL DEF Spec

(* A crash at any point is safe: what config.json has out of repair lacks no *)
(* purge of its repair, and no sign-in is replacing its credential (app.rs    *)
(* save, save_completed_auth_verification).                                   *)
THEOREM CrashIsSafe == Spec => []RestartSafe
<1>1. Inv => RestartSafe
  BY DEF Inv, Repairs, OwedGated, TaskGated, RestartSafe
<1>2. Spec => []Inv
  BY Invariant
<1>3. QED BY <1>1, <1>2, PTL

(* Whatever changes the configuration, step by step.                        *)
LEMMA FrozenStep ==
  ASSUME Inv, [Next]_vars, NEW s \in Slots, config[s].gate, config'[s].gate
  PROVE  config'[s].expected = config[s].expected
<1>1. CASE UNCHANGED config
  BY <1>1
<1>2. CASE \E t \in Slots : config' = Gated(t)
  BY <1>2, GateKeeps DEF Inv
<1>3. ASSUME NEW t \in Slots, config' = [config EXCEPT ![t].present = FALSE]
      PROVE  config'[s].expected = config[s].expected
  BY <1>3, TypeParts DEF Inv, TypeOK, Configs, SlotConfig
<1>4. ASSUME NEW t \in Slots, NEW id, StoreId(t, id)
      PROVE  config'[s].expected = config[s].expected
  BY <1>4, TypeParts DEF StoreId, Inv, TypeOK, Configs, SlotConfig
<1>5. ASSUME NEW j \in Jobs, Apply(j)
      PROVE  config'[s].expected = config[s].expected
  BY <1>5, TypeParts DEF Apply, Inv, TypeOK, Configs, SlotConfig
<1>6. ASSUME NEW j \in Jobs, Release(j)
      PROVE  config'[s].expected = config[s].expected
  <2>1. config[job[j].slot].expected = job[j].expected /\ job[j].slot \in Slots
    BY <1>6, TypeParts DEF Inv, Repairs, TaskGated, BeforeRelease, Release
  <2>2. \/ config' = config
        \/ config' = Gate(job[j].slot, FALSE, None)
        \/ config' = Gate(job[j].slot, TRUE, job[j].expected)
    BY <1>6 DEF Release
  <2>3. job[j].expected \in Id /\ None \in Id
    BY TypeParts DEF Inv, Job, Id
  <2>4. TypeOK
    BY DEF Inv
  <2>5. CASE config' = config
    BY <2>5
  <2>6. ASSUME NEW set \in BOOLEAN, NEW id \in Id, config' = Gate(job[j].slot, set, id),
               set => id = job[j].expected
        PROVE  config'[s].expected = config[s].expected
    <3>1. /\ config'[job[j].slot].gate = set /\ config'[job[j].slot].expected = id
          /\ \A t \in Slots : t # job[j].slot => config'[t] = config[t]
      BY <2>1, <2>4, <2>6, GateEffect
    <3>2. CASE s = job[j].slot
      BY <2>1, <2>6, <3>1, <3>2
    <3>3. CASE s # job[j].slot
      BY <3>1, <3>3
    <3>4. QED BY <3>2, <3>3
  <2>7. QED BY <2>2, <2>3, <2>5, <2>6
<1>7. CASE Restart
  <2>1. config' = disk.config
    BY <1>7 DEF Restart
  <2>2. QED BY <2>1 DEF Inv, Repairs, DiskBehind
<1>8. ASSUME NEW t \in Slots, NEW public \in BOOLEAN, Start(t, public) \/ Adopt(t, public)
      PROVE  config'[s].expected = config[s].expected
  BY <1>2, <1>8 DEF Start, Adopt
<1>9. ASSUME NEW t \in Slots, Delete(t)
      PROVE  config'[s].expected = config[s].expected
  BY <1>1, <1>3, <1>9 DEF Delete
<1>10. ASSUME NEW j \in Jobs, Step(j) \/ Cancel(j)
       PROVE  config'[s].expected = config[s].expected
  <2>1. CASE RefreshForRepair(j)
    <3>1. job[j].slot \in Slots
      BY TypeParts DEF Inv
    <3>2. config' = config \/ \E id : StoreId(job[j].slot, id)
      BY <2>1 DEF RefreshForRepair
    <3>3. QED BY <1>1, <1>4, <3>1, <3>2
  <2>2. CASE Release(j)
    BY <1>6, <2>2
  <2>3. CASE ~ RefreshForRepair(j) /\ ~ Release(j)
    <3>1. config' = config \/ Apply(j)
      BY <1>10, <2>3 DEF Step, Cancel, Launch, SignsIn, CliEnds, LookForCancel, Finalize,
                         ReadForRepair, Finish, Pool
    <3>2. QED BY <1>1, <1>5, <3>1
  <2>4. QED BY <2>1, <2>2, <2>3
<1>11. CASE \/ \E t \in Slots : Send(t) \/ Answered(t) \/ StartRefresh(t) \/ ReadAgain(t) \/ Refresh(t)
            \/ Persist
  BY <1>1, <1>4, <1>11 DEF Send, Answered, StartRefresh, ReadAgain, Refresh, Persist
<1>12. QED BY <1>1, <1>7, <1>8, <1>9, <1>10, <1>11 DEF Next, vars

(* The identity a repair is held to is frozen while the gate is set, across  *)
(* retries and restarts (login.rs start_login_job_with_policy).              *)
THEOREM IdentityFrozen == Spec => FrozenIdentity
<1>1. Inv /\ [Next]_vars =>
        [\A s \in Slots :
           config[s].gate /\ config'[s].gate => config'[s].expected = config[s].expected]_vars
  BY FrozenStep
<1>2. Spec => []Inv
  BY Invariant
<1>3. QED BY <1>1, <1>2, PTL DEF Spec, FrozenIdentity

(* A gate opens only when its job releases it: a restart that finds it open   *)
(* has nothing of before.                                                      *)
LEMMA OpeningStep ==
  ASSUME Inv, [Next]_vars, \A j \in Jobs : ~ Release(j), ~ Restart,
         NEW s \in Slots, config[s].gate
  PROVE  config'[s].gate
<1>1. CASE UNCHANGED config
  BY <1>1
<1>2. CASE \E t \in Slots : config' = Gated(t)
  BY <1>2, GateKeeps DEF Inv
<1>3. ASSUME NEW t \in Slots, config' = [config EXCEPT ![t].present = FALSE]
      PROVE  config'[s].gate
  BY <1>3, TypeParts DEF Inv, TypeOK, Configs, SlotConfig
<1>4. ASSUME NEW t \in Slots, NEW id, StoreId(t, id)
      PROVE  config'[s].gate
  BY <1>4, TypeParts DEF StoreId, Inv, TypeOK, Configs, SlotConfig
<1>5. ASSUME NEW j \in Jobs, Apply(j)
      PROVE  config'[s].gate
  BY <1>5, TypeParts DEF Apply, Inv, TypeOK, Configs, SlotConfig
<1>6. ASSUME NEW t \in Slots, NEW public \in BOOLEAN, Start(t, public) \/ Adopt(t, public)
      PROVE  config'[s].gate
  BY <1>2, <1>6 DEF Start, Adopt
<1>7. ASSUME NEW t \in Slots,
             \/ Delete(t) \/ Send(t) \/ Answered(t) \/ StartRefresh(t) \/ ReadAgain(t) \/ Refresh(t)
      PROVE  config'[s].gate
  BY <1>1, <1>3, <1>4, <1>7 DEF Delete, Send, Answered, StartRefresh, ReadAgain, Refresh
<1>8. ASSUME NEW j \in Jobs, Step(j) \/ Cancel(j)
      PROVE  config'[s].gate
  <2>1. job[j].slot \in Slots
    BY TypeParts DEF Inv
  <2>2. config' = config \/ Apply(j) \/ \E id : StoreId(job[j].slot, id)
    BY <1>8 DEF Step, Cancel, Launch, SignsIn, CliEnds, LookForCancel, Finalize,
                ReadForRepair, RefreshForRepair, Finish, Pool
  <2>3. QED BY <1>1, <1>4, <1>5, <2>1, <2>2
<1>9. CASE Persist
  BY <1>1, <1>9 DEF Persist
<1>10. QED BY <1>1, <1>6, <1>7, <1>8, <1>9 DEF Next, vars

(* What a job leaves when it opens the gate: no record from before it, or the *)
(* account the slot was held to.                                              *)
LEMMA ReleaseClean ==
  ASSUME Inv, NEW j \in Jobs, Release(j), NEW s \in Slots,
         config[s].gate, ~ config'[s].gate, before'[s]
  PROVE  config[s].expected # None /\ config'[s].account = config[s].expected
<1> DEFINE slot   == job[j].slot
           purges == FinalReset(j) /\ ~ job[j].reset
<1>1. slot \in Slots /\ BeforeRelease(j)
  BY TypeParts DEF Inv, Release, BeforeRelease
<1>2. /\ config[slot].expected = job[j].expected /\ config[slot].gate
      /\ job[j].reset \/ ~ job[j].reauth => ~ before[slot]
  BY <1>1 DEF Inv, Repairs, TaskGated, TaskKnows
<1>3. Purge(slot, purges) /\ purges \in BOOLEAN
  BY DEF Release
<1>4. /\ config' = Gate(slot, FALSE, None) \/ config' = Gate(slot, TRUE, job[j].expected)
      /\ job[j].expected \in Id /\ None \in Id
  BY TypeParts DEF Release, Inv, Job, Id
<1>5. s = slot /\ config'[s].account = config[s].account
  BY <1>1, <1>4, GateEffect DEF Inv
<1>6. before[s] /\ ~ purges
  <2> HIDE DEF purges
  <2>1. QED BY <1>1, <1>3, <1>5, PurgeType DEF Inv
<1>7. job[j].reauth /\ ~ FinalReset(j)
  BY <1>2, <1>5, <1>6
<1>8. QED BY <1>2, <1>5, <1>7 DEF FinalReset, ChangedIdentity

(* A repair that ends with another account, or cannot tell, leaves nothing    *)
(* that was recorded before it began, whatever was cancelled, half saved,     *)
(* refreshed meanwhile or lost to a crash (login.rs run_login_job).           *)
THEOREM RepairLeavesNothing == Spec => RepairStartsClean
<1>1. ASSUME Inv, [Next]_vars, NEW s \in Slots, config[s].gate, ~ config'[s].gate, before'[s]
      PROVE  config[s].expected # None /\ config'[s].account = config[s].expected
  <2>1. ~ Restart
    BY <1>1 DEF Restart
  <2>2. PICK j \in Jobs : Release(j)
    BY <1>1, <2>1, OpeningStep
  <2>3. QED BY <1>1, <2>2, ReleaseClean
<1>2. Inv /\ [Next]_vars =>
        [\A s \in Slots :
           config[s].gate /\ ~ config'[s].gate /\ before'[s] =>
             config[s].expected # None /\ config'[s].account = config[s].expected]_vars
  BY <1>1
<1>3. Spec => []Inv
  BY Invariant
<1>4. QED BY <1>2, <1>3, PTL DEF Spec, RepairStartsClean

(* A visitor's job is moved by its own steps alone.                         *)
LEMMA PublicStep ==
  ASSUME Inv, [Next]_vars, NEW j \in Jobs, job[j].public,
         task[j].at # "idle", task'[j].at # "idle", task'[j] # task[j]
  PROVE  /\ history' = history
         /\ \A s \in Slots : config[s].gate /\ ~ config'[s].gate =>
              config'[s].account = config[s].expected
<1>1. Active(j)
  BY DEF Inv, TaskActive
<1>2. Step(j) /\ ~ Finish(j)
  <2>1. ~ UNCHANGED task
    OBVIOUS
  <2>2. \A s \in Slots, public \in BOOLEAN : ~ Start(s, public)
    BY <1>1 DEF Start
  <2>3. ~ Restart /\ ~ Finish(j)
    BY DEF Restart, Finish, Inv, TypeOK, NoTask
  <2>4. \E i \in Jobs : Step(i)
    BY <2>1, <2>2, <2>3 DEF Next, vars, Adopt, Delete, Send, Answered, StartRefresh, ReadAgain,
                            Refresh, Cancel, Persist
  <2>5. PICK i \in Jobs : Step(i)
    BY <2>4
  <2>6. i = j
    <3>1. CASE Finish(i)
      BY <3>1 DEF Finish, Inv, TypeOK
    <3>2. CASE ~ Finish(i)
      BY <2>5, <3>2, TaskMoves DEF Inv
    <3>3. QED BY <3>1, <3>2
  <2>7. QED BY <2>3, <2>5, <2>6
<1>3. CASE Launch(j) \/ SignsIn(j) \/ CliEnds(j) \/ LookForCancel(j) \/ ReadForRepair(j)
  BY <1>3 DEF Launch, SignsIn, CliEnds, LookForCancel, ReadForRepair, Pool
<1>4. CASE Finalize(j)
  <2>1. CASE UNCHANGED <<config, history>>
    BY <2>1
  <2>2. CASE Apply(j) /\ Accepted(j)
    <3>1. ~ ChangedIdentity(LoginId(credential[job[j].slot]), j)
      BY <2>2 DEF Accepted, Foreign
    <3>2. history' = history
      BY <2>2, <3>1 DEF Apply, Purge
    <3>3. \A s \in Slots : config'[s].gate = config[s].gate
      BY <2>2, TypeParts DEF Apply, Inv, TypeOK, Configs, SlotConfig
    <3>4. QED BY <3>2, <3>3
  <2>3. QED BY <1>4, <2>1, <2>2 DEF Finalize
<1>5. CASE RefreshForRepair(j)
  <2>1. config' = config \/ \E id : StoreId(job[j].slot, id)
    BY <1>5 DEF RefreshForRepair
  <2>2. ASSUME NEW id, StoreId(job[j].slot, id), NEW s \in Slots
        PROVE  config'[s].gate = config[s].gate
    <3>1. job[j].slot \in Slots
      BY TypeParts DEF Inv
    <3>2. config' = config \/ config' = [config EXCEPT ![job[j].slot].account = id]
      BY <2>2 DEF StoreId
    <3>3. QED BY SMTT(60), <3>1, <3>2, TypeParts DEF Inv, TypeOK, Configs, SlotConfig
  <2>3. \A s \in Slots : config'[s].gate = config[s].gate
    BY <2>1, <2>2
  <2>4. QED BY <1>5, <2>3 DEF RefreshForRepair
<1>6. CASE Release(j)
  <2>1. CASE UNCHANGED <<config, history>>
    BY <2>1
  <2>2. CASE ~ UNCHANGED <<config, history>>
    <3>1. BeforeRelease(j) /\ job[j].slot \in Slots /\ ~ FinalReset(j)
      BY <1>6, <2>2, TypeParts DEF Release, BeforeRelease, Inv
    <3>2. history' = history
      BY <1>6, <2>2, <3>1 DEF Release, Purge
    <3>3. job[j].reauth /\ config[job[j].slot].expected = job[j].expected
      BY <3>1 DEF Inv, Repairs, TaskKnows, TaskGated
    <3>4. config[job[j].slot].account = config[job[j].slot].expected
      BY <3>1, <3>3 DEF FinalReset, ChangedIdentity
    <3>5. \/ config' = config
          \/ config' = Gate(job[j].slot, FALSE, None)
          \/ config' = Gate(job[j].slot, TRUE, job[j].expected)
      BY <1>6 DEF Release
    <3>6. job[j].expected \in Id /\ None \in Id
      BY TypeParts DEF Inv, Job, Id
    <3>7. QED BY <3>1, <3>2, <3>4, <3>5, <3>6, GateEffect DEF Inv
  <2>3. QED BY <2>1, <2>2
<1>7. QED BY <1>2, <1>3, <1>4, <1>5, <1>6 DEF Step

(* A visitor's repair purges nothing, and opens the gate only for the        *)
(* account the slot is held to (login.rs run_login_job, public_repair).      *)
THEOREM PublicExact == Spec => PublicRepairExact
<1>1. Inv /\ [Next]_vars =>
        [\A j \in Jobs :
           job[j].public /\ task[j].at # "idle" /\ task'[j].at # "idle"
                         /\ task'[j] # task[j] =>
             /\ history' = history
             /\ \A s \in Slots : config[s].gate /\ ~ config'[s].gate =>
                  config'[s].account = config[s].expected]_vars
  BY PublicStep
<1>2. Spec => []Inv
  BY Invariant
<1>3. QED BY <1>1, <1>2, PTL DEF Spec, PublicRepairExact
=============================================================================

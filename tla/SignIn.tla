------------------------------- MODULE SignIn -------------------------------
(***************************************************************************)
(* Signing a slot in again (pool/login.rs): the jobs that run the Codex    *)
(* CLI, their cancellation, the gate that keeps a slot out of routing      *)
(* until its new credential is verified, and the two files configuration   *)
(* and runtime state are kept in (pool/app.rs save, load).                 *)
(*                                                                         *)
(* A job is a task of its own: every look at the job's status, every lock  *)
(* and every await of run_login_job is a step, with cancellation,          *)
(* deletion, a quota refresh or a crash in between.  A quota refresh reads  *)
(* the slot's account, then its credential, asks upstream and stores the    *)
(* account it learned: anything may happen between these (quota_refresh.rs  *)
(* refresh_quota_once).  The CLI rewrites the slot's credential file while  *)
(* it runs.  Whether the slot is in the pool, and its quota, are            *)
(* Eligibility's; here a slot is open or not.                               *)
(***************************************************************************)
EXTENDS FiniteSets, Integers

CONSTANTS
  Slots,        \* device-auth slots
  Jobs,         \* ids of sign-in jobs, used again once a job has ended
  Identities,   \* upstream account ids
  None,         \* an empty account id
  Credentials,  \* what a sign-in may leave in auth.json
  Missing,      \* no auth.json, or none that can be read
  Names,        \* [Credentials -> Identities \cup {None}]: the id in the file
  Acts,         \* [Credentials -> Identities]: the workspace upstream reports
  MaxReadings   \* how many refreshes of a slot are under way, beside its job's

ASSUME SignInAssumption ==
  /\ Slots # {}
  /\ None \notin Identities
  /\ Missing \notin Credentials
  /\ Names \in [Credentials -> Identities \cup {None}]
  /\ Acts \in [Credentials -> Identities]
  /\ MaxReadings \in Nat

VARIABLES
  config,      \* [Slots -> SlotConfig]: config.json, in memory
  history,     \* [Slots -> BOOLEAN]: runtime.json, in memory: whether it holds
               \* metrics or bindings recorded for the slot
  disk,        \* [config, history]: the two files
  credential,  \* [Slots -> Credentials \cup {Missing}]: auth.json
  job,         \* [Jobs -> Job]: inner.jobs
  task,        \* [Jobs -> Task]: where run_login_job is
  flying,      \* [Slots -> BOOLEAN]: requests of the slot are in flight
  reading,     \* [Slots -> SUBSET Reading]: quota refreshes under way
  \* read by the properties only
  before,      \* [Slots -> BOOLEAN]: some of history is older than the last sign-in
  owed         \* [Slots -> BOOLEAN]: runtime.json still has what a repair has purged

Observed == <<before, owed>>
vars == <<config, history, disk, credential, job, task, flying, reading, before, owed>>

Id == Identities \cup {None}

SlotConfig ==
  [present : BOOLEAN, gate : BOOLEAN, expected : Id, account : Id, known : BOOLEAN]

Configs   == [Slots -> SlotConfig]
Histories == [Slots -> BOOLEAN]

\* What a refresh has read: the slot's account, and later its credential.
Reading   == [account : Id, credential : Credentials]
NoReading == [account |-> None, credential |-> Missing]

\* "running" is also waiting_for_user: nothing tells the two apart.
ActiveStatus == {"running", "finalizing", "cancelling"}
EndedStatus  == {"completed", "failed", "cancelled"}
Status       == ActiveStatus \cup EndedStatus \cup {"none"}

Job ==
  [status : Status, slot : Slots, public : BOOLEAN, expected : Id, reauth : BOOLEAN,
   reset : BOOLEAN]

Place == {"idle", "launch", "cli", "exited", "broke", "finalize", "refresh", "reading",
          "refreshed", "release", "finish"}

\* ending: the status finish_login_job is about to set.  read: what the
\* refresh of the repair has read.
Task ==
  [at : Place \ {"reading"}, ending : Status, read : {NoReading}]
    \cup [at : {"reading"}, ending : {"none"}, read : Reading]
NoTask == [at |-> "idle", ending |-> "none", read |-> NoReading]

AnySlot == CHOOSE s \in Slots : TRUE

NoJob ==
  [status |-> "none", slot |-> AnySlot, public |-> FALSE, expected |-> None,
   reauth |-> FALSE, reset |-> FALSE]

TypeOK ==
  /\ config \in Configs
  /\ history \in Histories
  /\ disk \in [config : Configs, history : Histories]
  /\ credential \in [Slots -> Credentials \cup {Missing}]
  /\ job \in [Jobs -> Job]
  /\ task \in [Jobs -> Task]
  /\ flying \in Histories
  /\ reading \in [Slots -> SUBSET Reading]
  /\ before \in Histories /\ owed \in Histories

-----------------------------------------------------------------------------
(* What a slot and a job look like to the rest of the pool                 *)

\* login_job_active_status, login_job_cancellation_requested_status
Active(j) == job[j].status \in ActiveStatus
CancelRequested(j) == job[j].status \in {"cancelling", "cancelled"}

\* account_auth_verification_pending
Pending(s) == config[s].gate \/ \E j \in Jobs : Active(j) /\ job[j].slot = s

\* has_usable_auth
Open(s) == config[s].present /\ ~ Pending(s) /\ credential[s] # Missing

HasPriorIdentity(s) == config[s].account # None \/ config[s].known \/ history[s]

\* The identity a repair is compared with is frozen while the gate is set.
MutantNotFrozen(s) == config[s].account

Expected(s) == IF config[s].gate THEN config[s].expected ELSE config[s].account

\* reauthentication_changed_upstream_identity
ChangedIdentity(id, j) ==
  /\ job[j].reauth
  /\ job[j].expected = None \/ id = None \/ id # job[j].expected

LoginId(k) == Names[k]

-----------------------------------------------------------------------------
(* The two files.  A write of one may fail, and a crash may come after the *)
(* first: both leave "half".                                               *)

SaveOutcome == {"saved", "half", "failed"}

\* A purge of a slot that stays is owed to runtime.json until that is written.
Owes(written) ==
  owed' = [s \in Slots |->
             /\ ~ written
             /\ owed[s] \/ (history[s] /\ ~ history'[s] /\ config'[s].present)]

\* save: config.json, then runtime.json.
Save(outcome) ==
  /\ disk' = [config  |-> IF outcome # "failed" THEN config' ELSE disk.config,
              history |-> IF outcome = "saved" THEN history' ELSE disk.history]
  /\ Owes(outcome = "saved")

MutantConfigFirst(outcome, written) ==
  /\ disk' = [config  |-> IF outcome # "failed" THEN written ELSE disk.config,
              history |-> IF outcome = "saved" THEN history' ELSE disk.history]
  /\ Owes(outcome = "saved")

\* save_completed_auth_verification: runtime.json, then config.json.
SaveCompleted(outcome, written) ==
  /\ disk' = [config  |-> IF outcome = "saved" THEN written ELSE disk.config,
              history |-> IF outcome # "failed" THEN history' ELSE disk.history]
  /\ Owes(outcome # "failed")

\* clear_account_identity_scoped_state
Purge(s, all) ==
  /\ history' = IF all THEN [history EXCEPT ![s] = FALSE] ELSE history
  /\ before' = IF all THEN [before EXCEPT ![s] = FALSE] ELSE before

-----------------------------------------------------------------------------
(* Starting and cancelling                                                 *)

Gate(s, set, id) == [config EXCEPT ![s].gate = set, ![s].expected = id]

Gated(s) == Gate(s, TRUE, Expected(s))

Started(s, public) ==
  [status |-> "running", slot |-> s, public |-> public, expected |-> Expected(s),
   reauth |-> HasPriorIdentity(s), reset |-> FALSE]

\* No job is active; requests and quota refreshes of the slot may be under way.
\* The gate stays set in memory when it cannot be saved.
Start(s, public) ==
  /\ config[s].present
  /\ public => Expected(s) # None
  /\ \A j \in Jobs : ~ Active(j)
  /\ config' = Gated(s)
  /\ before' = [before EXCEPT ![s] = history[s]]
  /\ UNCHANGED <<history, credential, flying, reading>>
  /\ \E outcome \in SaveOutcome :
       /\ Save(outcome)
       /\ IF outcome = "saved"
          THEN \E j \in Jobs :
                 /\ task[j].at = "idle"
                 /\ job' = [job EXCEPT ![j] = Started(s, public)]
                 /\ task' = [task EXCEPT ![j] = [NoTask EXCEPT !.at = "launch"]]
          ELSE UNCHANGED <<job, task>>

\* A job of this slot is active and is returned; a gate it has released already
\* is set again.
Adopt(s, public) ==
  /\ config[s].present
  /\ \E j \in Jobs : Active(j) /\ job[j].slot = s /\ (public => job[j].public)
  /\ public => Expected(s) # None
  /\ ~ config[s].gate
  /\ config' = Gated(s)
  /\ UNCHANGED <<history, credential, job, task, flying, reading, before>>
  /\ \E outcome \in SaveOutcome : Save(outcome)

MutantEndedAtOnce(j) == [job EXCEPT ![j].status = "cancelled"]

Cancelling(j) == [job EXCEPT ![j].status = "cancelling"]

\* cancel_login_job
Cancel(j) ==
  /\ Active(j)
  /\ job' = Cancelling(j)
  /\ UNCHANGED <<config, history, disk, credential, task, flying, reading, Observed>>

\* handle_account_delete: the slot's directory goes before the slot does; when
\* not all of it can be removed the slot stays, its jobs cancelled.
Delete(s) ==
  /\ config[s].present
  /\ job' = [j \in Jobs |-> IF Active(j) /\ job[j].slot = s
                            THEN [job[j] EXCEPT !.status = "cancelling"] ELSE job[j]]
  /\ \/ /\ credential' \in {credential, [credential EXCEPT ![s] = Missing]}
        /\ UNCHANGED <<config, history, disk, Observed>>
     \/ /\ credential' = [credential EXCEPT ![s] = Missing]
        /\ config' = [config EXCEPT ![s].present = FALSE]
        /\ Purge(s, TRUE)
        /\ \E outcome \in SaveOutcome : Save(outcome)
  /\ UNCHANGED <<task, flying, reading>>

-----------------------------------------------------------------------------
(* The job's task (run_login_job)                                          *)

Goto(j, place) == task' = [task EXCEPT ![j] = [NoTask EXCEPT !.at = place]]

EndWith(j, status) == task' = [task EXCEPT ![j] = [NoTask EXCEPT !.at = "finish",
                                                                 !.ending = status]]

\* What no step of the task before its finalization touches.
Pool == <<config, history, disk, flying, reading, Observed>>

\* The home is created and the CLI started.
Launch(j) ==
  /\ task[j].at = "launch"
  /\ Goto(j, "cli") \/ EndWith(j, "failed")
  /\ UNCHANGED <<Pool, credential, job>>

\* The user enters the code and the CLI writes auth.json.
SignsIn(j) ==
  /\ task[j].at = "cli"
  /\ \E k \in Credentials : credential' = [credential EXCEPT ![job[j].slot] = k]
  /\ UNCHANGED <<Pool, job, task>>

\* The CLI ends, on its own or killed.
CliEnds(j) ==
  /\ task[j].at = "cli"
  /\ Goto(j, "exited") \/ Goto(j, "broke")
  /\ UNCHANGED <<Pool, credential, job>>

\* The task looks whether it was cancelled, then goes on without the lock.
LookForCancel(j) ==
  /\ \/ task[j].at \in {"exited", "broke", "refreshed"} /\ CancelRequested(j)
                                                        /\ EndWith(j, "cancelled")
     \/ task[j].at = "exited" /\ ~ CancelRequested(j) /\ Goto(j, "finalize")
     \/ task[j].at = "broke" /\ ~ CancelRequested(j) /\ EndWith(j, "failed")
     \/ task[j].at = "refreshed" /\ ~ CancelRequested(j) /\ Goto(j, "release")
  /\ UNCHANGED <<Pool, credential, job>>

\* apply_completed_device_auth
Apply(j) ==
  LET s  == job[j].slot
      id == LoginId(credential[s])
      changed == ChangedIdentity(id, j)
  IN  /\ Purge(s, changed)
      /\ config' = [config EXCEPT ![s].known = TRUE,
                      ![s].account = IF changed \/ id # None THEN id ELSE @]
      /\ job' = [job EXCEPT ![j].status = "finalizing", ![j].reset = changed]

\* A visitor may sign in only to the account the slot had.
MutantAnyVisitor(id, j) == FALSE

Foreign(id, j) == job[j].public /\ ChangedIdentity(id, j)

Accepted(j) ==
  LET k == credential[job[j].slot]
  IN  k # Missing /\ ~ Foreign(LoginId(k), j)

Finalize(j) ==
  /\ task[j].at = "finalize"
  /\ \/ /\ CancelRequested(j)
        /\ EndWith(j, "cancelled")
        /\ UNCHANGED <<config, history, disk, job, Observed>>
     \/ /\ ~ CancelRequested(j) /\ ~ Accepted(j)
        /\ EndWith(j, "failed")
        /\ job' = [job EXCEPT ![j].status = "finalizing"]
        /\ UNCHANGED <<config, history, disk, Observed>>
     \/ /\ ~ CancelRequested(j) /\ Accepted(j)
        /\ Apply(j)
        /\ \/ Save("saved") /\ Goto(j, "refresh")
           \/ \E outcome \in {"half", "failed"} : Save(outcome) /\ EndWith(j, "failed")
  /\ UNCHANGED <<credential, flying, reading>>

\* What a refresh learns of the credential it read: the workspace, when
\* upstream reports it, or the id in the file.
Verified(k, resolved) == IF resolved THEN Acts[k] ELSE LoginId(k)

\* And what it will store: failing both, the account it read at its start.
Learned(r, resolved) ==
  LET id == Verified(r.credential, resolved) IN IF id = None THEN r.account ELSE id

\* A refresh stores the id it learned, if any.
StoreId(s, id) ==
  /\ config' = IF id = None THEN config ELSE [config EXCEPT ![s].account = id]
  /\ \E outcome \in SaveOutcome : Save(outcome)

\* The refresh of the repair starts, or ends at once.
ReadForRepair(j) ==
  LET s == job[j].slot
  IN  /\ task[j].at = "refresh"
      /\ \/ Goto(j, "refreshed")
         \/ /\ config[s].present /\ credential[s] # Missing
            /\ task' = [task EXCEPT ![j] = [at |-> "reading", ending |-> "none",
                            read |-> [account |-> config[s].account,
                                      credential |-> credential[s]]]]
      /\ UNCHANGED <<Pool, credential, job>>

\* Any other error of it than a mismatch is only logged, and a cancellation
\* abandons it.
RefreshForRepair(j) ==
  LET s == job[j].slot
      r == task[j].read
  IN  /\ task[j].at = "reading"
      /\ UNCHANGED <<history, credential, job, flying, reading, before>>
      /\ \/ Goto(j, "refreshed") /\ UNCHANGED <<config, disk, owed>>
         \/ \E resolved \in BOOLEAN :
              \/ /\ job[j].public /\ Verified(r.credential, resolved) # job[j].expected
                 /\ EndWith(j, "failed") /\ UNCHANGED <<config, disk, owed>>
              \/ /\ ~ (job[j].public /\ Verified(r.credential, resolved) # job[j].expected)
                 /\ config[s].present
                 /\ Goto(j, "refreshed") /\ StoreId(s, Learned(r, resolved))

MutantFirstResetOnly(j) == FALSE

\* The refresh resolved another account than the credential named.
FinalReset(j) == ChangedIdentity(config[job[j].slot].account, j)

\* The gate opens, unless that cannot be saved.
Release(j) ==
  LET s       == job[j].slot
      opened  == Gate(s, FALSE, None)
      regated == Gate(s, TRUE, job[j].expected)
  IN  /\ task[j].at = "release"
      /\ \/ /\ ~ config[s].present \/ (job[j].public /\ FinalReset(j))
            /\ EndWith(j, "failed")
            /\ UNCHANGED <<config, history, disk, job, Observed>>
         \/ /\ config[s].present /\ ~ (job[j].public /\ FinalReset(j))
            /\ Purge(s, FinalReset(j) /\ ~ job[j].reset)
            /\ job' = [job EXCEPT ![j].reset = @ \/ FinalReset(j)]
            /\ \/ config' = opened /\ SaveCompleted("saved", opened)
                                  /\ EndWith(j, "completed")
               \/ \E outcome \in {"half", "failed"} :
                    config' = regated /\ SaveCompleted(outcome, opened)
                                      /\ EndWith(j, "failed")
      /\ UNCHANGED <<credential, flying, reading>>

\* finish_login_job: a cancelled job takes no other ending.  Nothing here reads
\* more of an ended job than its status.
Finish(j) ==
  /\ task[j].at = "finish"
  /\ task' = [task EXCEPT ![j] = NoTask]
  /\ job' = IF CancelRequested(j) /\ task[j].ending # "cancelled" THEN job
            ELSE [job EXCEPT ![j] = [NoJob EXCEPT !.status = task[j].ending]]
  /\ UNCHANGED <<Pool, credential>>

-----------------------------------------------------------------------------
(* The rest of the pool                                                    *)

\* A request is given an open slot.
Send(s) ==
  /\ Open(s)
  /\ flying' = [flying EXCEPT ![s] = TRUE]
  /\ UNCHANGED <<config, history, disk, credential, job, task, reading, Observed>>

\* Its success is recorded and binds its session to the slot, whatever the slot
\* has become (mark_success).
Answered(s) ==
  /\ flying[s]
  /\ \E more \in BOOLEAN : flying' = [flying EXCEPT ![s] = more]
  /\ history' = [history EXCEPT ![s] = TRUE]
  /\ UNCHANGED <<config, credential, job, task, reading, before>>
  /\ \E outcome \in SaveOutcome : Save(outcome)

\* A scheduled refresh, or one the owner asks for.  It does not look at the gate.
StartRefresh(s) ==
  /\ config[s].present /\ credential[s] # Missing
  /\ Cardinality(reading[s]) < MaxReadings
  /\ reading' = [reading EXCEPT ![s] =
                   @ \cup {[account |-> config[s].account, credential |-> credential[s]]}]
  /\ UNCHANGED <<config, history, disk, credential, job, task, flying, Observed>>

\* It had to wait for the credential's lock, or for an exchange of its token.
ReadAgain(s) ==
  /\ credential[s] # Missing
  /\ \E r \in reading[s] :
       reading' = [reading EXCEPT ![s] = (@ \ {r}) \cup {[r EXCEPT !.credential = credential[s]]}]
  /\ UNCHANGED <<config, history, disk, credential, job, task, flying, Observed>>

\* It stores what it learned, in whatever the slot has become, or fails.
Refresh(s) ==
  \E r \in reading[s] :
    /\ reading' = [reading EXCEPT ![s] = @ \ {r}]
    /\ UNCHANGED <<history, credential, job, task, flying, before>>
    /\ \/ UNCHANGED <<config, disk, owed>>
       \/ config[s].present /\ \E resolved \in BOOLEAN : StoreId(s, Learned(r, resolved))

\* Some other handler saves.
Persist ==
  /\ UNCHANGED <<config, history, credential, job, task, flying, reading, before>>
  /\ \E outcome \in SaveOutcome : Save(outcome)

\* The process ends, with its requests and the CLI; the files are loaded.
Restart ==
  /\ config' = disk.config
  /\ history' = disk.history
  /\ job' = [j \in Jobs |-> NoJob]
  /\ task' = [j \in Jobs |-> NoTask]
  /\ flying' = [s \in Slots |-> FALSE] /\ reading' = [s \in Slots |-> {}]
  /\ before' = [s \in Slots |-> FALSE] /\ owed' = [s \in Slots |-> FALSE]
  /\ UNCHANGED <<disk, credential>>

-----------------------------------------------------------------------------

\* Slots that have been signed in before, and slots that have not.
Configured(k) ==
  [present |-> TRUE, gate |-> FALSE, expected |-> None,
   account |-> IF k = Missing THEN None ELSE LoginId(k), known |-> k # Missing]

Init ==
  /\ credential \in [Slots -> Credentials \cup {Missing}]
  /\ config = [s \in Slots |-> Configured(credential[s])]
  /\ history = [s \in Slots |-> FALSE]
  /\ disk = [config |-> config, history |-> history]
  /\ job = [j \in Jobs |-> NoJob]
  /\ task = [j \in Jobs |-> NoTask]
  /\ flying = [s \in Slots |-> FALSE] /\ reading = [s \in Slots |-> {}]
  /\ before = [s \in Slots |-> FALSE] /\ owed = [s \in Slots |-> FALSE]

Step(j) ==
  \/ Launch(j) \/ SignsIn(j) \/ CliEnds(j) \/ LookForCancel(j) \/ Finalize(j)
  \/ ReadForRepair(j) \/ RefreshForRepair(j) \/ Release(j) \/ Finish(j)

Next ==
  \/ \E s \in Slots :
       \/ \E public \in BOOLEAN : Start(s, public) \/ Adopt(s, public)
       \/ Delete(s) \/ Send(s) \/ Answered(s)
       \/ StartRefresh(s) \/ ReadAgain(s) \/ Refresh(s)
  \/ \E j \in Jobs : Cancel(j) \/ Step(j)
  \/ Persist
  \/ Restart

Spec == Init /\ [][Next]_vars
=============================================================================

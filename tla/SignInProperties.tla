-------------------------- MODULE SignInProperties --------------------------
(***************************************************************************)
(* What SignIn must satisfy.                                               *)
(***************************************************************************)
EXTENDS SignIn

(* Sign-in is single-flight: one task runs at a time, from its start until  *)
(* it has torn down its CLI, whatever was cancelled (login.rs               *)
(* start_login_job_with_policy, cancel_login_job; SPEC.md 7.3).             *)
OneSignIn ==
  \A i, j \in Jobs : task[i].at # "idle" /\ task[j].at # "idle" => i = j

(* A repair that ends with another account on record than the one it was     *)
(* held to, or cannot tell, leaves nothing that was recorded before it began *)
(* when the gate opens, whichever of sign-in, refreshes of any age and final *)
(* check brought the account (login.rs apply_completed_device_auth and the   *)
(* final check).  What requests sent before it record while it runs is kept. *)
RepairStartsClean ==
  [][\A s \in Slots :
       config[s].gate /\ ~ config'[s].gate /\ before'[s] =>
         config[s].expected # None /\ config'[s].account = config[s].expected]_vars

(* A crash at any point is safe: a slot that config.json has out of repair   *)
(* has no history in runtime.json that its repair purged, and no sign-in is  *)
(* replacing its credential (app.rs save_completed_auth_verification,        *)
(* login.rs the gate).                                                       *)
BeforeRelease(j) ==
  task[j].at \in {"launch", "cli", "exited", "finalize", "refresh", "reading", "refreshed",
                  "release"}

RestartSafe ==
  \A s \in Slots :
    disk.config[s].present /\ ~ disk.config[s].gate =>
      ~ owed[s] /\ \A j \in Jobs : BeforeRelease(j) => job[j].slot # s

(* The identity a repair is held to is the one before the first rewrite of  *)
(* the credential: no failed attempt, cancellation or restart replaces it   *)
(* while the gate is set (login.rs start_login_job_with_policy).            *)
FrozenIdentity ==
  [][\A s \in Slots :
       config[s].gate /\ config'[s].gate => config'[s].expected = config[s].expected]_vars

(* A visitor's repair never purges the slot's history, and opens the gate   *)
(* only for the account the slot had (login.rs public_repair, SPEC.md 7.3). *)
PublicRepairExact ==
  [][\A j \in Jobs :
       job[j].public /\ task[j].at # "idle" /\ task'[j].at # "idle"
                     /\ task'[j] # task[j] =>
         /\ history' = history
         /\ \A s \in Slots : config[s].gate /\ ~ config'[s].gate =>
              config'[s].account = config[s].expected]_vars

(* A job whose task is over is over: cancelled, failed or completed, it no  *)
(* longer keeps its slot in repair or other sign-ins waiting (login.rs      *)
(* cancel_login_job: it stays "cancelling" until the process has exited).   *)
JobsSettle == \A j \in Jobs : task[j].at = "idle" => ~ Active(j)
=============================================================================

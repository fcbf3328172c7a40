---------------------------- MODULE TokenRefresh ----------------------------
(***************************************************************************)
(* The credential of one account (credentials.rs): requests and quota      *)
(* reads that need it, the refresh that spends its refresh token, the      *)
(* memory of what upstream refused, and the drain that waits for refreshes *)
(* before the process ends (serve.rs).                                     *)
(*                                                                         *)
(* Between taking the account's refresh lock and starting the exchange     *)
(* nothing is awaited, so a caller enters, reads auth.json and decides in  *)
(* one step; the lock is then held by the exchange's own task, whatever    *)
(* becomes of the caller.  Tokens are numbers in the order upstream issued *)
(* them.  Accounts share nothing but the count the drain waits for.        *)
(***************************************************************************)
EXTENDS Integers, FiniteSets

CONSTANTS
  Callers,      \* requests and quota reads, each in at most one place
  Tasks,        \* names of detached exchanges
  None,         \* no caller, no tokens, no record
  MaxIssued     \* how many token pairs upstream and sign-ins issue

ASSUME TokenAssumption ==
  /\ None \notin Callers
  /\ None \notin Nat
  /\ None \notin [access : Nat, refresh : Nat]
  /\ MaxIssued \in Nat

VARIABLES
  auth,      \* auth.json: the token pair it holds, or None
  issued,    \* tokens issued so far
  expiring,  \* its access token is within CODEX_TOKEN_REFRESH_WINDOW_MINUTES of expiry
  refused,   \* RefusedCredentials: the tokens and the reason, or None
  caller,    \* [Callers -> Caller]
  task,      \* [Tasks -> Task]
  server,    \* the process: serve_until_stopped
  \* what upstream and the disk have seen, read by the properties only
  rejected,  \* access tokens upstream answered 401 to
  replaced   \* refresh tokens a refresh has replaced in auth.json

vars == <<auth, issued, expiring, refused, caller, task, server, rejected, replaced>>

Token  == 0..MaxIssued   \* 0: an empty string
Pair   == [access : Token, refresh : Token]
Reason == {"refresh", "usage"}

\* A client's request, or a quota read: the poll's or the owner's.
Kind   == {"request", "quota"}
Caller == [at : {"idle", "lock", "exchange", "read", "use"}, kind : Kind,
           access : Token, forced : BOOLEAN]
Idle   == [at |-> "idle", kind |-> "request", access |-> 0, forced |-> FALSE]

\* answered: the reply is in; write: persist has compared and will write.
\* late: the drain had already looked for the last time.
Task   == [at : {"none", "sent", "answered", "write"}, by : Callers \cup {None},
           tokens : Pair, reply : Pair, forced : BOOLEAN, late : BOOLEAN]
Empty  == [access |-> 0, refresh |-> 0]
NoTask == [at |-> "none", by |-> None, tokens |-> Empty, reply |-> Empty,
           forced |-> FALSE, late |-> FALSE]

\* leaving: drained, the last save is left to do.
Server == {"serving", "draining", "leaving", "stopped"}

TypeOK ==
  /\ auth \in Pair \cup {None}
  /\ issued \in Token
  /\ expiring \in BOOLEAN
  /\ refused \in [tokens : Pair, reason : Reason] \cup {None}
  /\ caller \in [Callers -> Caller]
  /\ task \in [Tasks -> Task]
  /\ server \in Server
  /\ rejected \subseteq Token /\ replaced \subseteq Token

-----------------------------------------------------------------------------

Active(x) == task[x].at # "none"
Settling  == {x \in Tasks : Active(x)}   \* refreshes_settling
InFlight  == {c \in Callers : caller[c].at # "idle" /\ caller[c].kind = "request"}
Running   == server # "stopped"

MutantFreeOnDrop == \A c \in Callers : caller[c].at # "exchange"

\* The account's one permit: it is the exchange task's while that runs.
LockFree == Settling = {}

\* codex_refresh_failure_is_permanent
Permanent(status, code) ==
  \/ code \in {"refresh_token_expired", "refresh_token_reused", "refresh_token_invalidated"}
  \/ status = 401
  \/ status = 400 /\ code = "invalid_grant"

\* What upstream may answer to a refresh it does not grant.
Failures == {400, 401, 500} \X {"other", "invalid_grant", "refresh_token_reused"}

Record(tokens, reason) == refused' = [tokens |-> tokens, reason |-> reason]
Refused(tokens) == refused # None /\ refused.tokens = tokens
RefreshRefused  == Refused(auth) /\ refused.reason = "refresh"

\* Reading the record of other tokens than the account's forgets it.
Consult == refused' = IF auth # None /\ Refused(auth) THEN refused ELSE None

Done(c) == caller' = [caller EXCEPT ![c] = Idle]

MutantNeverSuperseded(c) == FALSE

\* refresh_codex_auth_after_rejection: another request has replaced the token.
Superseded(c) == caller[c].forced /\ auth.access # caller[c].access

\* No tokens to refresh, or none to refresh any more.
NoRefresh(c) ==
  IF auth = None THEN TRUE ELSE auth.refresh = 0 \/ Superseded(c)

\* A refresh is asked for, or due: the token is about to expire.
Due(c) == caller[c].forced \/ expiring

\* What a caller does with auth.json once no refresh is due, or after it.
Continue(c) ==
  IF auth = None \/ (caller[c].forced /\ auth.access = caller[c].access)
  THEN Done(c)
  ELSE caller' = [caller EXCEPT ![c].at = "use", ![c].access = auth.access]

-----------------------------------------------------------------------------
\* Callers.

Begin(c, kind) ==
  /\ caller[c].at = "idle" /\ Running
  /\ caller' = [caller EXCEPT ![c] = [Idle EXCEPT !.at = "lock", !.kind = kind]]
  /\ UNCHANGED <<auth, issued, expiring, task, server, rejected, replaced>>

\* poll_account_quota: background work leaves a refused credential alone, a
\* request or the owner asks all the same.
BeginPoll(c) ==
  /\ IF auth = None THEN UNCHANGED refused ELSE ~ Refused(auth) /\ Consult
  /\ Begin(c, "quota")
BeginAsked(c, kind) == UNCHANGED refused /\ Begin(c, kind)

\* The exchange starts in a task of its own, which takes the permit.
Spawn(c, x) ==
  /\ ~ Active(x)
  /\ task' = [task EXCEPT ![x] = [NoTask EXCEPT !.at = "sent", !.by = c, !.tokens = auth,
                                   !.forced = caller[c].forced, !.late = server = "leaving"]]
  /\ caller' = [caller EXCEPT ![c].at = "exchange"]

\* auth_lock, then refresh_codex_auth_holding up to its spawn.
Enter(c) ==
  /\ caller[c].at = "lock" /\ LockFree
  /\ \/ NoRefresh(c) /\ Continue(c) /\ UNCHANGED <<refused, task>>
     \/ /\ ~ NoRefresh(c)
        /\ Consult
        /\ \/ RefreshRefused /\ Done(c) /\ UNCHANGED task
           \/ ~ RefreshRefused /\ ~ Due(c) /\ Continue(c) /\ UNCHANGED task
           \/ ~ RefreshRefused /\ Due(c) /\ \E x \in Tasks : Spawn(c, x)
  /\ UNCHANGED <<auth, issued, expiring, server, rejected, replaced>>

\* The task is done; its caller reads auth.json again.
Read(c) ==
  /\ caller[c].at = "read"
  /\ Continue(c)
  /\ UNCHANGED <<auth, issued, expiring, refused, task, server, rejected, replaced>>

\* Upstream takes the token.  A successful quota read clears the memory.
Accepted(c) ==
  /\ caller[c].at = "use"
  /\ Done(c)
  /\ refused' = IF caller[c].kind = "request" THEN refused ELSE None
  /\ UNCHANGED <<auth, issued, expiring, task, server, rejected, replaced>>

\* A 401 to a request is answered by one refresh and one retry (forward).
Rejected(c) ==
  /\ caller[c].at = "use" /\ caller[c].kind = "request"
  /\ rejected' = rejected \cup {caller[c].access}
  /\ IF caller[c].forced
     THEN Done(c)
     ELSE caller' = [caller EXCEPT ![c].at = "lock", ![c].forced = TRUE]
  /\ UNCHANGED <<auth, issued, expiring, refused, task, server, replaced>>

\* A quota read is told token_revoked: record_refused_credential reads
\* auth.json again and records what it finds there.
Revoked(c) ==
  /\ caller[c].at = "use" /\ caller[c].kind # "request"
  /\ rejected' = rejected \cup {caller[c].access}
  /\ IF auth = None THEN UNCHANGED refused ELSE Record(auth, "usage")
  /\ Done(c)
  /\ UNCHANGED <<auth, issued, expiring, task, server, replaced>>

\* The client goes away, or the caller's own timeout fires.
Drop(c) ==
  /\ caller[c].at # "idle"
  /\ Done(c)
  /\ UNCHANGED <<auth, issued, expiring, refused, task, server, rejected, replaced>>

-----------------------------------------------------------------------------
\* The exchange, in its own task (RefreshSettle).

\* The task ends: the permit is free, and a caller still there goes on.
Settle(x, ok) ==
  LET c == task[x].by
  IN  /\ task' = [task EXCEPT ![x] = NoTask]
      /\ caller' = IF caller[c].at # "exchange" THEN caller
                   ELSE [caller EXCEPT ![c] = IF ok THEN [@ EXCEPT !.at = "read"] ELSE Idle]

\* Upstream grants it: any token of the reply may be missing.
Grant(x) ==
  /\ task[x].at = "sent"
  /\ \E access, refresh \in {0, issued + 1} \cap Token :
       /\ issued' = IF access = 0 /\ refresh = 0 THEN issued ELSE issued + 1
       /\ task' = [task EXCEPT ![x].at = "answered",
                               ![x].reply = [access |-> access, refresh |-> refresh]]
  /\ UNCHANGED <<auth, expiring, refused, caller, server, rejected, replaced>>

MutantRefuseCurrent(x) == IF auth = None THEN UNCHANGED refused ELSE Record(auth, "refresh")

\* note_refused_tokens, of the tokens the exchange was made with.
NoteRefused(x) == Record(task[x].tokens, "refresh")

\* Upstream does not; for good, or for now.
Fail(x) ==
  /\ task[x].at = "sent"
  /\ \E failure \in Failures :
       IF Permanent(failure[1], failure[2]) THEN NoteRefused(x) ELSE UNCHANGED refused
  /\ Settle(x, FALSE)
  /\ UNCHANGED <<auth, issued, expiring, server, rejected, replaced>>

MutantNoTimeOut(x) ==
  /\ task[x].at = "answered"
  /\ Settle(x, FALSE)
  /\ UNCHANGED <<auth, issued, expiring, refused, server, rejected, replaced>>

\* CODEX_TOKEN_REFRESH_TIMEOUT, a broken connection, an unreadable reply:
\* upstream may have rotated the token all the same.
TimeOut(x) ==
  /\ task[x].at \in {"sent", "answered"}
  /\ Settle(x, FALSE)
  /\ UNCHANGED <<auth, issued, expiring, refused, server, rejected, replaced>>

\* persist writes only over the tokens the refresh was made with.
Unchanged(x) == auth = task[x].tokens

MutantKeepsOldRefresh(pair, reply) ==
  [access |-> IF reply.access = 0 THEN pair.access ELSE reply.access, refresh |-> pair.refresh]

Merged(pair, reply) ==
  [access  |-> IF reply.access = 0 THEN pair.access ELSE reply.access,
   refresh |-> IF reply.refresh = 0 THEN pair.refresh ELSE reply.refresh]

\* persist reads auth.json: a file that is gone is an error, other tokens are
\* left alone.  Nothing keeps the file as it is until persist writes: the CLI
\* of a sign-in takes no lock of the pool's.
Compare(x) ==
  /\ task[x].at = "answered"
  /\ IF Unchanged(x)
     THEN task' = [task EXCEPT ![x].at = "write"] /\ UNCHANGED caller
     ELSE Settle(x, auth # None)
  /\ UNCHANGED <<auth, issued, expiring, refused, server, rejected, replaced>>

\* write_json_atomic replaces the file, whatever it holds by now, or fails.
Write(x) ==
  /\ task[x].at = "write"
  /\ \/ /\ auth' = Merged(task[x].tokens, task[x].reply)
        /\ expiring' \in IF task[x].reply.access # 0 THEN {FALSE}
                         ELSE IF Unchanged(x) THEN {expiring} ELSE BOOLEAN
        /\ replaced' = IF task[x].reply.refresh = 0 THEN replaced
                       ELSE replaced \cup {task[x].tokens.refresh}
        /\ Settle(x, TRUE)
     \/ UNCHANGED <<auth, expiring, replaced>> /\ Settle(x, FALSE)
  /\ UNCHANGED <<issued, refused, server, rejected>>

-----------------------------------------------------------------------------
\* The owner, the clock and the process.

\* The CLI writes a new login, without the lock; or the account goes.
SignIn ==
  /\ issued < MaxIssued
  /\ issued' = issued + 1
  /\ \E refresh \in {0, issued'} : auth' = [access |-> issued', refresh |-> refresh]
  /\ expiring' = FALSE
  /\ UNCHANGED <<refused, caller, task, server, rejected, replaced>>

SignOut ==
  /\ auth # None /\ auth' = None /\ expiring' = FALSE
  /\ UNCHANGED <<issued, refused, caller, task, server, rejected, replaced>>

\* The token auth.json holds comes within the window of its expiry.
Expire ==
  /\ auth # None /\ ~ expiring /\ expiring' = TRUE
  /\ UNCHANGED <<auth, issued, refused, caller, task, server, rejected, replaced>>

Kept == <<auth, issued, expiring, rejected, replaced>>

Stop ==
  /\ server = "serving" /\ server' = "draining"
  /\ UNCHANGED <<Kept, refused, caller, task>>

MutantRequestsOnly == InFlight = {}

\* What serve_until_stopped waits for.
Drained == InFlight = {} /\ Settling = {}

DrainEnds ==
  /\ server = "draining" /\ Drained /\ server' = "leaving"
  /\ UNCHANGED <<Kept, refused, caller, task>>

\* The process ends and takes callers, tasks and the memory with it.
Ends ==
  /\ server' = "stopped" /\ refused' = None
  /\ caller' = [c \in Callers |-> Idle] /\ task' = [x \in Tasks |-> NoTask]
  /\ UNCHANGED Kept

MutantGraceForRefreshesOnly == server = "draining" /\ InFlight = {} /\ Ends

\* shutdown_grace runs out whatever is still in flight.
GraceExpires == server = "draining" /\ Ends

Exit  == server = "leaving" /\ Ends
Crash == server = "serving" /\ Ends

Restart ==
  /\ server = "stopped" /\ server' = "serving"
  /\ UNCHANGED <<Kept, refused, caller, task>>

Init ==
  /\ auth = None /\ issued = 0 /\ expiring = FALSE
  /\ refused = None
  /\ caller = [c \in Callers |-> Idle] /\ task = [x \in Tasks |-> NoTask]
  /\ server = "serving"
  /\ rejected = {} /\ replaced = {}

TaskStep(x) == Grant(x) \/ Fail(x) \/ TimeOut(x) \/ Compare(x) \/ Write(x)

Next ==
  \/ \E c \in Callers :
       \/ BeginPoll(c) \/ \E kind \in Kind : BeginAsked(c, kind)
       \/ Enter(c) \/ Read(c) \/ Accepted(c) \/ Rejected(c) \/ Revoked(c) \/ Drop(c)
  \/ \E x \in Tasks : TaskStep(x)
  \/ SignIn \/ SignOut \/ Expire
  \/ Stop \/ DrainEnds \/ GraceExpires \/ Exit \/ Crash \/ Restart

Spec == Init /\ [][Next]_vars

\* The lock is a fair semaphore; every exchange has its timeout; the grace is
\* a timer.  Nothing is assumed of upstream, of clients or of the owner.
Fairness ==
  /\ \A c \in Callers : SF_vars(Enter(c)) /\ WF_vars(Read(c))
  /\ \A x \in Tasks : WF_vars(TimeOut(x)) /\ WF_vars(Compare(x) \/ Write(x))
  /\ WF_vars(GraceExpires) /\ WF_vars(Exit)

FairSpec == Spec /\ Fairness
=============================================================================

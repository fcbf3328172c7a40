--------------------------- MODULE LineageRouting ---------------------------
(***************************************************************************)
(* Which account each conversation is on: the sticky session and thread    *)
(* binding of every thread, the strict binding of its lineage, how a       *)
(* request is routed by them and how its success rewrites them             *)
(* (pool/routing.rs selection, pool/outcome.rs mark_success).              *)
(*                                                                         *)
(* Requests are concurrent.  The state lock is held within a handler step  *)
(* and released while upstream answers, so a request is routed, selects an *)
(* account and reports its outcome in separate steps, with anything in     *)
(* between.  Accounts change underneath through the actions of Eligibility.*)
(***************************************************************************)
EXTENDS Eligibility

CONSTANTS
  Threads,          \* Codex threads; a lineage is named by its root thread
  NoThread,         \* "no parent"
  Parent,           \* [Threads -> Threads \cup {NoThread}]
  ModelOf,          \* [Threads -> Models]: the model a thread runs
  Requests,         \* requests in flight at once
  Ttl,              \* how many ticks a binding lasts without a success
  InitialAffinity,  \* "Keep subagents together" at the start
  AffinitySwitched, \* whether the owner flips that switch
  Failures,         \* bound: the kinds of failure upstream gives in a run
  AccountEvents,    \* bound: the kinds of account change in a run
  MaxChanges        \* bound: account changes and upstream failures in a run

\* What upstream can answer, and the cooldown each failure sets.
FailureClass ==
  [rate_limited |-> "standing", transport |-> "standing", overload |-> "overload",
   fault |-> "fault", http_5xx |-> "overload"]
FailureKind == DOMAIN FailureClass \cup {"listed_auth", "other_auth"}
AuthFailures == {"listed_auth", "other_auth"}
CapacityFailures == {"rate_limited", "overload", "fault"}

AccountEvent == {"add", "remove", "delete", "repair", "replace", "quota", "credit", "meter",
                 "clear"}

ASSUME LineageAssumption ==
  /\ IsFiniteSet(Threads)
  /\ Threads # {}
  /\ NoThread \notin Threads
  /\ Parent \in [Threads -> Threads \cup {NoThread}]
  /\ ModelOf \in [Threads -> Models]
  /\ Ttl \in Nat \ {0}
  /\ InitialAffinity \in BOOLEAN
  /\ AffinitySwitched \in BOOLEAN
  /\ Failures \subseteq FailureKind
  /\ AccountEvents \subseteq AccountEvent
  /\ MaxChanges \in Nat

VARIABLES
  affinity,  \* the "Keep subagents together" setting
  sticky,    \* [Threads -> StickySession]
  thread,    \* [Threads -> ThreadBinding]
  lineage,   \* [Threads -> LineageBinding], by root
  req,       \* [Requests -> Request]
  changes    \* account changes and failures so far (bounded by MaxChanges)

bindingVars == <<sticky, thread, lineage>>
vars == <<accountVars, affinity, bindingVars, req, changes>>

\* A binding with no ticks left is absent.
MaybeAccount   == Accounts \cup {NoAccount}
StickySession  == [account : MaybeAccount, left : 0..Ttl]
ThreadBinding  == [account : MaybeAccount, left : 0..Ttl, root : Threads]
LineageBinding == [account : MaybeAccount, left : 0..Ttl]

Request ==
  [phase    : {"idle", "routed", "sent"},
   thread   : Threads,
   strict   : BOOLEAN,               \* lineage_affinity, read when routed
   root     : Threads,               \* lineage_root_id
   seen     : MaybeAccount,          \* lineage_account_id
   excluded : SUBSET Accounts,
   capacity : SUBSET Accounts,       \* capacity_excluded
   limit    : Nat,                   \* attempt_limit
   account  : MaybeAccount]          \* the account the attempt is on

Live(b) == b.left > 0

TypeOK ==
  /\ AccountTypeOK
  /\ affinity \in BOOLEAN
  /\ sticky \in [Threads -> StickySession]
  /\ thread \in [Threads -> ThreadBinding]
  /\ lineage \in [Threads -> LineageBinding]
  /\ req \in [Requests -> Request]
  /\ changes \in 0..MaxChanges

-----------------------------------------------------------------------------
(* Reading the bindings *)

Model(r) == ModelOf[req[r].thread]

Members(root) == {t \in Threads : Live(thread[t]) /\ thread[t].root = root}

\* Without a live lineage binding, the member that succeeded last decides.
SeedAccounts(root) ==
  {thread[t].account : t \in {u \in Members(root) :
     \A v \in Members(root) :
       LexLess(<<-thread[u].left, Ord[thread[u].account]>>,
               <<-thread[v].left, Ord[thread[v].account]>>)
         \/ (thread[u].left = thread[v].left /\ thread[u].account = thread[v].account)}}

LineageAccount(root) ==
  IF Live(lineage[root]) THEN lineage[root].account
  ELSE IF Members(root) = {} THEN NoAccount
  ELSE CHOOSE a \in SeedAccounts(root) : TRUE

LineageModels(root, m) == {m} \cup {ModelOf[t] : t \in Members(root)}

ParentBinding(t) ==
  IF Parent[t] \in Threads /\ Live(thread[Parent[t]]) THEN {thread[Parent[t]]} ELSE {}

ParentAccount(t) ==
  IF ParentBinding(t) = {} THEN NoAccount ELSE thread[Parent[t]].account

\* The parent's root when the parent is known, else the parent, else itself.
RootOf(t) ==
  IF ParentBinding(t) # {} THEN thread[Parent[t]].root
  ELSE IF Parent[t] \in Threads THEN Parent[t] ELSE t

-----------------------------------------------------------------------------
(* Choosing an account *)

MutantNoJointAccount(m, models, excluded) == BestTier(Eligible(m, excluded))

PreferredForLineage(m, models, excluded) ==
  LET E     == Eligible(m, excluded)
      Joint == {a \in E : \A o \in models \ {m} : Usable(a, o, 0)}
  IN  BestTier(IF Joint # {} THEN Joint ELSE E)

PreferredForSession(m, excluded) == BestTier(Eligible(m, excluded))

\* A bound account keeps its session unless the session may move and one of
\* the replacements is better.
StayOrMove(a, replacements) ==
  IF MayMove(a) THEN {IF MovesTo(a, b) THEN b ELSE a : b \in replacements}
  ELSE {a}

\* An unhealthy lineage account still holds its lineage while it is in repair.
LineageHeld(r) ==
  LET a == LineageAccount(req[r].root)
  IN  /\ a # NoAccount
      /\ a \notin req[r].excluded
      /\ AuthVerificationPending(a)

LineageChoices(r) ==
  LET a      == LineageAccount(req[r].root)
      wanted == PreferredForLineage(Model(r), LineageModels(req[r].root, Model(r)),
                                    req[r].excluded)
  IN  IF a # NoAccount /\ Selectable(a, Model(r), req[r].excluded)
      THEN StayOrMove(a, wanted)
      ELSE IF LineageHeld(r) THEN {}
      ELSE IF wanted # {} THEN wanted
      ELSE OverloadedFallback(Model(r), req[r].excluded)

\* The sticky session counts while its account has not failed this request.
StickyOf(r) ==
  LET s == sticky[req[r].thread]
  IN  IF Live(s) /\ s.account \notin req[r].excluded THEN s.account ELSE NoAccount

SessionHeld(r) == StickyOf(r) # NoAccount /\ AuthVerificationPending(StickyOf(r))

SessionChoices(r) ==
  LET a      == StickyOf(r)
      parent == req[r].seen
      wanted == PreferredForSession(Model(r), req[r].excluded)
      bound  == IF MayMove(a) /\ wanted # {} THEN StayOrMove(a, wanted) ELSE {a}
  IN  IF a # NoAccount /\ Usable(a, Model(r), 0) THEN bound
      ELSE IF SessionHeld(r) THEN {}
      ELSE IF parent # NoAccount /\ Selectable(parent, Model(r), req[r].excluded)
      THEN StayOrMove(parent, wanted)
      ELSE IF wanted # {} THEN wanted
      ELSE OverloadedFallback(Model(r), req[r].excluded)

\* proxy_attempt_limit without an owner's cap: one attempt per configured slot.
AttemptLimit ==
  LET configured == {a \in Accounts : slot[a] # "gone"}
  IN  IF configured = {} THEN 1 ELSE Cardinality(configured)

-----------------------------------------------------------------------------
(* A request *)

NoSession   == [account |-> NoAccount, left |-> 0]
NoThreadBinding(t) == [account |-> NoAccount, left |-> 0, root |-> t]

AnyThread == CHOOSE t \in Threads : TRUE

Idle ==
  [phase |-> "idle", thread |-> AnyThread, strict |-> FALSE, root |-> AnyThread,
   seen |-> NoAccount, excluded |-> {}, capacity |-> {}, limit |-> 1,
   account |-> NoAccount]

\* routing_decision: reads the bindings, before any account is chosen.
Decide(r, t) ==
  /\ req[r].phase = "idle"
  /\ LET pinned == LineageAccount(RootOf(t))
     IN  req' = [req EXCEPT ![r] =
           [Idle EXCEPT !.phase = "routed", !.thread = t, !.strict = affinity,
              !.root = RootOf(t), !.limit = AttemptLimit,
              !.seen = IF affinity /\ pinned # NoAccount THEN pinned ELSE ParentAccount(t)]]
  /\ UNCHANGED <<accountVars, affinity, bindingVars, changes>>

Choices(r) == IF req[r].strict THEN LineageChoices(r) ELSE SessionChoices(r)

\* The lineage account is read again on every attempt.
SeenNow(r) == IF req[r].strict THEN LineageAccount(req[r].root) ELSE req[r].seen

MayAttempt(r) == Cardinality(req[r].excluded) < req[r].limit

\* A session bound to a deleted account loses its binding when it is selected.
ForgetDeletedSession(r) ==
  IF ~ req[r].strict /\ StickyOf(r) \in {a \in Accounts : slot[a] = "gone"}
  THEN sticky' = [sticky EXCEPT ![req[r].thread] = NoSession]
  ELSE UNCHANGED sticky

Select(r) ==
  /\ req[r].phase = "routed"
  /\ MayAttempt(r)
  /\ \E a \in Choices(r) :
       req' = [req EXCEPT ![r].phase = "sent", ![r].account = a, ![r].seen = SeenNow(r)]
  /\ ForgetDeletedSession(r)
  /\ UNCHANGED <<accountVars, affinity, thread, lineage, changes>>

\* No attempt is left, or no account may serve, or the bound one is in repair:
\* the client gets the pool's own error.
Refuse(r) ==
  /\ req[r].phase = "routed"
  /\ ~ MayAttempt(r) \/ Choices(r) = {}
  /\ req' = [req EXCEPT ![r] = Idle]
  /\ IF MayAttempt(r) THEN ForgetDeletedSession(r) ELSE UNCHANGED sticky
  /\ UNCHANGED <<accountVars, affinity, thread, lineage, changes>>

MutantNoStaleGuard(r, cur) == [account |-> req[r].account, left |-> Ttl]

MutantStaleNotRenewed(r, cur) ==
  IF ~ Live(cur) \/ cur.account = req[r].account \/ cur.account = req[r].seen
  THEN [account |-> req[r].account, left |-> Ttl] ELSE cur

\* record_lineage_success
LineageAfter(r, cur) ==
  IF ~ Live(cur) \/ cur.account = req[r].account \/ cur.account = req[r].seen
  THEN [account |-> req[r].account, left |-> Ttl]
  ELSE [cur EXCEPT !.left = Ttl]

\* mark_success: binds the thread to the account that served it.
Succeed(r) ==
  LET t == req[r].thread
      a == req[r].account
  IN  /\ req[r].phase = "sent"
      /\ sticky' = [sticky EXCEPT ![t] = [account |-> a, left |-> Ttl]]
      /\ thread' = [thread EXCEPT ![t] = [account |-> a, left |-> Ttl, root |-> req[r].root]]
      /\ lineage' = IF req[r].strict
                    THEN [lineage EXCEPT ![req[r].root] = LineageAfter(r, @)]
                    ELSE lineage
      /\ req' = [req EXCEPT ![r] = Idle]
      /\ UNCHANGED <<accountVars, affinity, changes>>

\* The answer ends the request and says nothing against the account: a client
\* error, an unknown failure, a cancelled client.
End(r) ==
  /\ req[r].phase = "sent"
  /\ req' = [req EXCEPT ![r] = Idle]
  /\ UNCHANGED <<accountVars, affinity, bindingVars, changes>>

\* An overload or an unreachable upstream is retried on the same account.
RetrySame(r) ==
  /\ req[r].phase = "sent"
  /\ req' = [req EXCEPT ![r].phase = "routed", ![r].account = NoAccount]
  /\ UNCHANGED <<accountVars, affinity, bindingVars, changes>>

Change == changes < MaxChanges /\ changes' = changes + 1

\* What a failure records against the account.
Penalize(a, m, kind) ==
  IF kind \in AuthFailures THEN Quarantine(a, m, kind = "listed_auth")
  ELSE AppendCooldown(a, m, FailureClass[kind])

Exhausted(r) == req[r].excluded \cup {req[r].account}

\* has_preferred_account, read in a lock of its own.
CanFailOver(r) ==
  Cardinality(Exhausted(r)) < req[r].limit /\ Eligible(Model(r), Exhausted(r)) # {}

\* The account is excluded for the rest of the request, which tries another.
\* A stream that failed for want of capacity is given to the client instead
\* when nobody else may serve; an HTTP refusal goes back to selection.
FailOver(r, kind) ==
  /\ req[r].phase = "sent"
  /\ Change
  /\ kind \in {"overload", "fault"} => CanFailOver(r)
  /\ Penalize(req[r].account, Model(r), kind)
  /\ req' = [req EXCEPT ![r].phase = "routed", ![r].account = NoAccount,
               ![r].excluded = Exhausted(r),
               ![r].capacity = IF kind \in CapacityFailures
                               THEN @ \cup {req[r].account} ELSE @]
  /\ UNCHANGED <<affinity, bindingVars>>

\* Every identity refused: the accounts that refused for capacity are restored
\* and their server-side cooldowns dropped (spend_capacity_retry_round).
Round(r) ==
  LET restored == req[r].capacity \cup {req[r].account}
  IN  /\ req[r].phase = "sent"
      /\ Change
      /\ ~ CanFailOver(r)
      /\ cooldowns' = {c \in cooldowns :
           ~ (c.account \in restored /\ c.model = Model(r) /\ c.class # "standing")}
      /\ req' = [req EXCEPT ![r].phase = "routed", ![r].account = NoAccount,
                   ![r].excluded = @ \ restored, ![r].capacity = {}]
      /\ UNCHANGED <<slot, auth, identity, quota, refused, meters, red, affinity, bindingVars>>

\* The client sees the failure.  (An HTTP 5xx that ends the request says
\* nothing against the account yet: that is End.)
EndFailed(r, kind) ==
  /\ req[r].phase = "sent"
  /\ kind # "http_5xx"
  /\ Change
  /\ Penalize(req[r].account, Model(r), kind)
  /\ req' = [req EXCEPT ![r] = Idle]
  /\ UNCHANGED <<affinity, bindingVars>>

-----------------------------------------------------------------------------
(* Accounts, time and the process *)

\* clear_sticky_for_account
ClearSticky(a) ==
  /\ sticky' = [t \in Threads |-> IF sticky[t].account = a THEN NoSession ELSE sticky[t]]
  /\ thread' = [t \in Threads |->
                 IF thread[t].account = a THEN NoThreadBinding(t) ELSE thread[t]]
  /\ lineage' = [t \in Threads |-> IF lineage[t].account = a THEN NoSession ELSE lineage[t]]

Joins(a) == "add" \in AccountEvents /\ PoolAdd(a) /\ UNCHANGED bindingVars

Leaves(a) ==
  \/ "remove" \in AccountEvents /\ PoolRemove(a) /\ ClearSticky(a)
  \/ "delete" \in AccountEvents /\ Delete(a) /\ ClearSticky(a)

Repairs(a) ==
  \/ "repair" \in AccountEvents /\ StartRepair(a) /\ UNCHANGED bindingVars
  \/ FinishRepair(a, identity[a]) /\ UNCHANGED bindingVars
  \/ /\ "replace" \in AccountEvents
     /\ \E i \in Identities \ {identity[a]} : FinishRepair(a, i)
     /\ ClearSticky(a)

Refreshes(a) ==
  \/ /\ "quota" \in AccountEvents
     /\ \E level \in QuotaLevel \ {quota[a]} : RefreshQuota(a, level, {}, a \in red)
     /\ UNCHANGED bindingVars
  \/ /\ "credit" \in AccountEvents
     /\ RefreshQuota(a, quota[a], {}, a \notin red)
     /\ UNCHANGED bindingVars
  \/ /\ "meter" \in AccountEvents
     /\ \E m \in Models : RefreshQuota(a, quota[a], {m}, a \in red)
     /\ UNCHANGED bindingVars
  \/ "clear" \in AccountEvents /\ ClearCooldowns(a) /\ UNCHANGED bindingVars

AccountChange(a) ==
  /\ Change
  /\ Joins(a) \/ Leaves(a) \/ Repairs(a) \/ Refreshes(a)
  /\ UNCHANGED <<affinity, req>>

SwitchAffinity ==
  /\ AffinitySwitched
  /\ Change
  /\ affinity' = ~ affinity
  /\ UNCHANGED <<accountVars, bindingVars, req>>

Aged(b) ==
  IF b.left > 1 THEN [b EXCEPT !.left = @ - 1]
  ELSE [b EXCEPT !.left = 0, !.account = NoAccount]

\* A tick.  An expired binding is never read; the pruner drops it later.
Tick ==
  /\ Elapse
  /\ sticky' = [t \in Threads |-> Aged(sticky[t])]
  /\ thread' = [t \in Threads |-> IF thread[t].left > 1 THEN Aged(thread[t])
                                  ELSE NoThreadBinding(t)]
  /\ lineage' = [t \in Threads |-> Aged(lineage[t])]
  /\ UNCHANGED <<affinity, req, changes>>

\* Bindings are saved as they change; the requests in flight are lost.
Restart ==
  /\ req' = [r \in Requests |-> Idle]
  /\ UNCHANGED <<accountVars, affinity, bindingVars, changes>>

-----------------------------------------------------------------------------

Init ==
  /\ AccountInit
  /\ affinity = InitialAffinity
  /\ sticky = [t \in Threads |-> NoSession]
  /\ thread = [t \in Threads |-> NoThreadBinding(t)]
  /\ lineage = [t \in Threads |-> NoSession]
  /\ req = [r \in Requests |-> Idle]
  /\ changes = 0

Answer(r) ==
  \/ Succeed(r) \/ End(r) \/ RetrySame(r) \/ Round(r)
  \/ \E kind \in Failures : FailOver(r, kind) \/ EndFailed(r, kind)

Next ==
  \/ \E r \in Requests : \/ \E t \in Threads : Decide(r, t)
                         \/ Select(r) \/ Refuse(r) \/ Answer(r)
  \/ \E a \in Accounts : AccountChange(a)
  \/ SwitchAffinity \/ Tick \/ Restart

Spec == Init /\ [][Next]_vars
=============================================================================

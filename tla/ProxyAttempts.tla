--------------------------- MODULE ProxyAttempts ---------------------------
(***************************************************************************)
(* The attempt loop of one proxied HTTP request (pool/proxy.rs attempts):  *)
(* which failures are retried on the same account, which move to another,  *)
(* what each records against the account, and the four budgets that bound  *)
(* it.  LineageRouting says which account a selection gives; here it is    *)
(* any account selection may give, and only the loop's own state is kept.  *)
(*                                                                         *)
(* Requests are concurrent and share the pool.  Every await of the loop    *)
(* (the upstream answer, a backoff) separates two steps; has_preferred_    *)
(* account is read in a lock of its own, before the selection it predicts. *)
(***************************************************************************)
EXTENDS Eligibility

CONSTANTS
  Requests,          \* requests in flight at once
  MaxRetryAccounts,  \* the owner's cap on accounts per request; 0 = none
  CapacityRounds,    \* tuning.capacity_retry_limit
  OverloadRetries,   \* OVERLOAD_SAME_ACCOUNT_RETRY_LIMIT
  TransportRetries,  \* TRANSPORT_SAME_ACCOUNT_RETRY_LIMIT
  FailoverAfter,     \* UPSTREAM_5XX_FAILOVER_AFTER
  LongWaits          \* whether upstream names waits beyond the round's cap

ASSUME AttemptsAssumption ==
  /\ Models # {}
  /\ MaxRetryAccounts \in Nat
  /\ CapacityRounds \in Nat
  /\ OverloadRetries \in Nat
  /\ TransportRetries \in Nat
  /\ FailoverAfter \in Nat \ {0}
  /\ LongWaits \in BOOLEAN

VARIABLES
  request,  \* [Requests -> Request]: the loop's local state
  streak    \* [Accounts -> 0..FailoverAfter]: upstream 5xx in a row

vars == <<accountVars, request, streak>>

Phase == {"idle", "selecting", "sent", "waiting"}

Request ==
  [phase      : Phase,
   model      : Models,
   account    : Accounts \cup {NoAccount},
   excluded   : SUBSET Accounts,
   capacity   : SUBSET Accounts,   \* capacity_excluded
   attempt    : Int,
   limit      : Nat,               \* attempt_limit
   rounds     : 0..CapacityRounds, \* capacity_retries
   overloads  : 0..OverloadRetries,
   transports : 0..TransportRetries,
   sends      : Nat]               \* attempts handed to forward, counted for the bound

TypeOK ==
  /\ AccountTypeOK
  /\ request \in [Requests -> Request]
  /\ streak \in [Accounts -> 0..FailoverAfter]

AnyModel == CHOOSE m \in Models : TRUE

Idle ==
  [phase |-> "idle", model |-> AnyModel, account |-> NoAccount, excluded |-> {},
   capacity |-> {}, attempt |-> 0, limit |-> 1, rounds |-> 0, overloads |-> 0,
   transports |-> 0, sends |-> 0]

-----------------------------------------------------------------------------

\* proxy_attempt_limit: one attempt per configured slot, or the owner's cap.
AttemptLimit ==
  LET count == Cardinality({a \in Accounts : slot[a] # "gone"})
  IN  IF count = 0 THEN 1
      ELSE IF MaxRetryAccounts > 0 /\ MaxRetryAccounts < count THEN MaxRetryAccounts
      ELSE count

Begin(r, m) ==
  /\ request[r].phase = "idle"
  /\ request' = [request EXCEPT ![r] =
                   [Idle EXCEPT !.phase = "selecting", !.model = m, !.limit = AttemptLimit]]
  /\ UNCHANGED <<accountVars, streak>>

MayAttempt(q) == q.attempt < q.limit

\* A session's own account is kept without the duplicate-identity check that
\* every other choice passes.
Choices(q) ==
  {a \in Accounts \ q.excluded : Usable(a, q.model, 0)}
    \cup (IF Eligible(q.model, q.excluded) = {}
          THEN OverloadedFallback(q.model, q.excluded) ELSE {})

MutantWaitsForAccounts(q) ==
  /\ q.excluded = {}
  /\ Eligible(q.model, {}) = {}
  /\ OverloadedFallback(q.model, {}) = {}

Exhausts(q) ==
  /\ Eligible(q.model, q.excluded) = {}
  /\ OverloadedFallback(q.model, q.excluded) = {}

Select(r) ==
  /\ request[r].phase = "selecting"
  /\ MayAttempt(request[r])
  /\ \E a \in Choices(request[r]) :
       request' = [request EXCEPT ![r].phase = "sent", ![r].account = a, ![r].sends = @ + 1]
  /\ UNCHANGED <<accountVars, streak>>

Finish(r) == request' = [request EXCEPT ![r] = Idle]

\* No attempt is left, or nobody can take the next one: the client gets the
\* pool's own 502 or 503.
GiveUp(r) ==
  /\ request[r].phase = "selecting"
  /\ ~ MayAttempt(request[r]) \/ Exhausts(request[r])
  /\ Finish(r)
  /\ UNCHANGED <<accountVars, streak>>

\* The client went away: nothing is recorded against the account.
Cancel(r) ==
  /\ request[r].phase \in {"sent", "waiting"}
  /\ Finish(r)
  /\ UNCHANGED <<accountVars, streak>>

\* A backoff ends.
Resume(r) ==
  /\ request[r].phase = "waiting"
  /\ request' = [request EXCEPT ![r].phase = "selecting"]
  /\ UNCHANGED <<accountVars, streak>>

-----------------------------------------------------------------------------
(* What upstream answers                                                    *)

InFlight(r) == request[r].phase = "sent"

Exhausted(r) == request[r].excluded \cup {request[r].account}

\* Another account can still serve the request (has_preferred_account).
HasPreferred(r) == Eligible(request[r].model, Exhausted(r)) # {}

CanFailOver(r) == request[r].attempt + 1 < request[r].limit /\ HasPreferred(r)

CoolDown(r, class) == AppendCooldown(request[r].account, request[r].model, class)

\* mark_failure with no duration, or with another reason, ends a 5xx streak.
NoStreak(r) == streak' = [streak EXCEPT ![request[r].account] = 0]

\* The account is excluded for the rest of the request and the next is tried.
MoveOn(r, forCapacity) ==
  request' = [request EXCEPT ![r].phase = "selecting", ![r].account = NoAccount,
                ![r].excluded = Exhausted(r), ![r].attempt = @ + 1,
                ![r].capacity = IF forCapacity THEN @ \cup {request[r].account} ELSE @]

\* Served, or failed for a reason that is not the account's.
Answered(r) ==
  /\ InFlight(r)
  /\ Finish(r)
  /\ NoStreak(r) \/ UNCHANGED streak
  /\ UNCHANGED accountVars

Unreachable(r) ==
  /\ InFlight(r)
  /\ IF request[r].transports < TransportRetries
     THEN /\ request' = [request EXCEPT ![r].phase = "waiting", ![r].transports = @ + 1]
          /\ UNCHANGED <<accountVars, streak>>
     ELSE /\ MoveOn(r, FALSE)
          /\ CoolDown(r, "standing")
          /\ NoStreak(r)

Unauthorized(r, listed) ==
  /\ InFlight(r)
  /\ MoveOn(r, FALSE)
  /\ Quarantine(request[r].account, request[r].model, listed)
  /\ NoStreak(r)

MutantEveryoneRestored(q) == q.excluded \cup {q.account}

\* The accounts that have refused for capacity in this sweep.
Refusing(q) == q.capacity \cup {q.account}

MutantRoundFree(q) ==
  [q EXCEPT !.phase = "waiting", !.account = NoAccount, !.excluded = @ \ Refusing(q),
            !.capacity = {}, !.attempt = @ + 1 - Cardinality(Refusing(q))]

\* They are restored, and the attempts they took given back.
AfterRound(q) ==
  [q EXCEPT !.phase = "waiting", !.account = NoAccount, !.excluded = @ \ Refusing(q),
            !.capacity = {}, !.attempt = @ + 1 - Cardinality(Refusing(q)),
            !.rounds = @ + 1]

RoundsLeft(q) == q.rounds < CapacityRounds

\* spend_capacity_retry_round: then their server-side cooldowns are dropped,
\* and the request waits.
SpendRound(r) ==
  /\ RoundsLeft(request[r])
  /\ request' = [request EXCEPT ![r] = AfterRound(@)]
  /\ cooldowns' = {c \in cooldowns :
       ~ (c.account \in Refusing(request[r]) /\ c.model = request[r].model
                                             /\ c.class \in {"overload", "fault"})}
  /\ NoStreak(r)
  /\ UNCHANGED <<slot, auth, identity, quota, refused, meters, red>>

\* An HTTP 429.  The wait upstream advertises is within the cap, or it is not.
RateLimited(r, withinCap) ==
  /\ InFlight(r)
  /\ \/ /\ ~ CanFailOver(r)
        /\ withinCap
        /\ SpendRound(r)
     \/ /\ CanFailOver(r) \/ ~ withinCap \/ ~ RoundsLeft(request[r])
        /\ MoveOn(r, TRUE)
        /\ CoolDown(r, "standing")
        /\ NoStreak(r)

\* What an account's streak of 5xx comes to with one more: an old streak, or one
\* broken by another failure, starts again.
Strikes(a, recent) ==
  IF ~ recent THEN 1 ELSE IF streak[a] < FailoverAfter THEN streak[a] + 1 ELSE FailoverAfter

Strike(r, recent) ==
  streak' = [streak EXCEPT ![request[r].account] = Strikes(request[r].account, recent)]

\* A 5xx that says when to retry.
ServerErrorWithRetryAfter(r, recent) ==
  /\ InFlight(r)
  /\ MoveOn(r, FALSE)
  /\ CoolDown(r, "overload")
  /\ Strike(r, recent)

\* A 5xx that does not: the request ends until the account has failed several
\* times in a row, recently, and another account can take over.
ServerError(r, recent) ==
  /\ InFlight(r)
  /\ Strike(r, recent)
  /\ IF Strikes(request[r].account, recent) < FailoverAfter \/ ~ HasPreferred(r)
     THEN Finish(r) /\ UNCHANGED accountVars
     ELSE MoveOn(r, FALSE) /\ CoolDown(r, "overload")

\* A stream that failed before anything reached the client.  An overload or a
\* server fault (transient) is first retried on the account; then every other
\* account is tried; then a round is spent; then the client sees the failure.
StreamRefused(r, class) ==
  LET transient == class # "standing"
      sameAgain == transient /\ request[r].overloads < OverloadRetries
  IN  /\ InFlight(r)
      /\ \/ /\ sameAgain
            /\ request' = [request EXCEPT ![r].phase = "waiting", ![r].overloads = @ + 1]
            /\ NoStreak(r)
            /\ UNCHANGED accountVars
         \/ /\ ~ sameAgain
            /\ CanFailOver(r)
            /\ MoveOn(r, TRUE)
            /\ CoolDown(r, class)
            /\ NoStreak(r)
         \/ ~ sameAgain /\ ~ CanFailOver(r) /\ SpendRound(r)
         \/ /\ ~ sameAgain
            /\ ~ CanFailOver(r)
            /\ ~ RoundsLeft(request[r])
            /\ Finish(r)
            /\ CoolDown(r, class)
            /\ NoStreak(r)

\* A stream that failed after part of it reached the client is never retried.
StreamBroken(r, class) ==
  /\ InFlight(r)
  /\ Finish(r)
  /\ CoolDown(r, class)
  /\ NoStreak(r)

\* A stream that says the credential was refused.
StreamUnauthorized(r, listed) ==
  /\ InFlight(r)
  /\ Finish(r)
  /\ Quarantine(request[r].account, request[r].model, listed)
  /\ NoStreak(r)

Answer(r) ==
  \/ Answered(r)
  \/ Unreachable(r)
  \/ \E recent \in BOOLEAN : ServerErrorWithRetryAfter(r, recent) \/ ServerError(r, recent)
  \/ \E listed \in BOOLEAN : Unauthorized(r, listed) \/ StreamUnauthorized(r, listed)
  \/ \E withinCap \in {TRUE, ~ LongWaits} : RateLimited(r, withinCap)
  \/ \E class \in CooldownClass : StreamRefused(r, class) \/ StreamBroken(r, class)

-----------------------------------------------------------------------------

Init ==
  /\ AccountInit
  /\ request = [r \in Requests |-> Idle]
  /\ streak = [a \in Accounts |-> 0]

\* What the handler does by itself.  A backoff has an end; the wait for upstream
\* has none, only the answer or the client's leaving ends it.
Proceed(r) == Select(r) \/ GiveUp(r) \/ Resume(r)

Next ==
  \/ \E r \in Requests :
       (\E m \in Models : Begin(r, m)) \/ Proceed(r) \/ Answer(r) \/ Cancel(r)
  \/ Elapse /\ UNCHANGED <<request, streak>>

Spec == Init /\ [][Next]_vars

\* The runtime schedules every handler.  Nothing is assumed of upstream or of the
\* clients.
FairSpec == Spec /\ \A r \in Requests : WF_vars(Proceed(r))
=============================================================================

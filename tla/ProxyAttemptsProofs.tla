------------------------ MODULE ProxyAttemptsProofs ------------------------
(***************************************************************************)
(* The attempt loop keeps its books and its bounds for every pool, every   *)
(* setting of the budgets and every number of concurrent requests.         *)
(*                                                                         *)
(* SendsBounded is not inductive: a send is paid for by one of the budgets *)
(* only once it has failed.  Paid says which have paid for the sends so    *)
(* far, and a round pays for the attempts it gives back.                   *)
(***************************************************************************)
EXTENDS ProxyAttemptsProperties, FiniteSetTheorems, SequenceTheorems, TLAPS

OnTheWire(q) == IF q.phase = "sent" THEN 1 ELSE 0

Paid(q) == q.transports + q.overloads + q.rounds * q.limit + q.attempt + OnTheWire(q)

RequestInv(q) ==
  /\ q \in Request
  /\ q.phase = "idle" => q = Idle
  /\ q.phase = "sent" => q.account \in Accounts \ q.excluded /\ q.attempt < q.limit
  /\ q.capacity \subseteq q.excluded
  /\ q.attempt = Cardinality(q.excluded)
  /\ q.attempt <= q.limit
  /\ q.limit >= 1
  /\ q.sends <= Paid(q)

IInv ==
  /\ AccountTypeOK
  /\ request \in [Requests -> Request]
  /\ \A r \in Requests : RequestInv(request[r])
  /\ streak \in [Accounts -> 0..FailoverAfter]

-----------------------------------------------------------------------------
(* The changes of an account the attempts make keep its types               *)

LEMMA AccountInitTypes == AccountInit => AccountTypeOK
  BY EligibilityAssumption DEF AccountInit, AccountTypeOK, SlotState, AuthState, QuotaLevel

(* Cooldowns are only ever dropped, renewed by one entry, or aged.          *)
LEMMA CooldownsDropped ==
  ASSUME AccountTypeOK, cooldowns' \subseteq cooldowns,
         UNCHANGED <<slot, auth, identity, quota, refused, meters, red>>
  PROVE  AccountTypeOK'
  BY DEF AccountTypeOK

LEMMA CooldownAppended ==
  ASSUME AccountTypeOK, NEW a \in Accounts, NEW m \in Models, NEW class \in CooldownClass,
         AppendCooldown(a, m, class)
  PROVE  AccountTypeOK'
<1>1. Span[class] \in Nat \ {0}
  BY EligibilityAssumption
<1>2. [account |-> a, model |-> m, class |-> class, left |-> Span[class]] \in CooldownEntry
  BY <1>1 DEF CooldownEntry
<1>3. QED BY <1>2 DEF AccountTypeOK, AppendCooldown, WithCooldown

LEMMA CredentialQuarantined ==
  ASSUME AccountTypeOK, NEW a \in Accounts, NEW m \in Models, NEW listed \in BOOLEAN,
         Quarantine(a, m, listed)
  PROVE  AccountTypeOK'
<1>1. CASE slot[a] # "gone" /\ identity[a] # NoIdentity
  BY <1>1 DEF Quarantine, AccountTypeOK
<1>2. CASE ~ (slot[a] # "gone" /\ identity[a] # NoIdentity)
  <2>1. AppendCooldown(a, m, "standing")
    BY <1>2 DEF Quarantine
  <2>2. QED BY <2>1, CooldownAppended DEF CooldownClass
<1>3. QED BY <1>1, <1>2

LEMMA ClockTicked == AccountTypeOK /\ Elapse => AccountTypeOK'
<1> SUFFICES ASSUME AccountTypeOK, Elapse
             PROVE  AccountTypeOK'
  OBVIOUS
<1>1. ASSUME NEW c \in {d \in cooldowns : d.left > 1}
      PROVE  [c EXCEPT !.left = @ - 1] \in CooldownEntry
  BY DEF AccountTypeOK, CooldownEntry
<1>2. cooldowns' \subseteq CooldownEntry
  BY <1>1 DEF Elapse
<1>3. QED BY <1>2 DEF AccountTypeOK, Elapse

-----------------------------------------------------------------------------
(* A request in itself                                                      *)

LEMMA IdleInv == RequestInv(Idle) /\ Idle.phase = "idle"
<1>1. AnyModel \in Models
  BY AttemptsAssumption DEF AnyModel
<1>2. Idle \in Request
  BY <1>1, AttemptsAssumption DEF Idle, Request, Phase
<1>3. Cardinality({}) = 0
  BY FS_EmptySet
<1>4. Idle.sends <= Paid(Idle)
  BY DEF Idle, Paid, OnTheWire
<1>5. QED BY <1>2, <1>3, <1>4 DEF RequestInv, Idle

LEMMA AttemptLimitType == AttemptLimit \in Nat /\ AttemptLimit >= 1
<1> DEFINE count == Cardinality({a \in Accounts : slot[a] # "gone"})
<1>1. count \in Nat
  BY EligibilityAssumption, FS_Subset, FS_CardinalityType
<1> HIDE DEF count
<1>2. AttemptLimit = IF count = 0 THEN 1
                     ELSE IF MaxRetryAccounts > 0 /\ MaxRetryAccounts < count
                     THEN MaxRetryAccounts ELSE count
  BY DEF AttemptLimit, count
<1>3. QED BY <1>1, <1>2, AttemptsAssumption

(* What a request in flight knows of its sets.                              *)
LEMMA RequestSets ==
  ASSUME NEW q, RequestInv(q)
  PROVE  /\ IsFiniteSet(q.excluded) /\ Cardinality(q.excluded) \in Nat
         /\ IsFiniteSet(q.capacity) /\ Cardinality(q.capacity) \in Nat
         /\ Cardinality(q.capacity) <= Cardinality(q.excluded)
         /\ q.excluded \subseteq Accounts
<1>1. q.excluded \in SUBSET Accounts /\ q.capacity \in SUBSET q.excluded
  BY DEF RequestInv, Request
<1>2. IsFiniteSet(q.excluded) /\ Cardinality(q.excluded) \in Nat
  BY <1>1, EligibilityAssumption, FS_Subset, FS_CardinalityType
<1>3. IsFiniteSet(q.capacity) /\ Cardinality(q.capacity) <= Cardinality(q.excluded)
  BY <1>1, <1>2, FS_Subset
<1>4. QED BY <1>1, <1>2, <1>3, FS_CardinalityType

(* Moving to another account: the attempt is charged to the exclusion.      *)
LEMMA MovedOn ==
  ASSUME NEW q, RequestInv(q), q.phase = "sent",
         NEW capacity \in SUBSET (q.excluded \cup {q.account})
  PROVE  RequestInv([q EXCEPT !.phase = "selecting", !.account = NoAccount,
                       !.excluded = @ \cup {q.account}, !.attempt = @ + 1,
                       !.capacity = capacity])
<1> DEFINE p == [q EXCEPT !.phase = "selecting", !.account = NoAccount,
                   !.excluded = @ \cup {q.account}, !.attempt = @ + 1,
                   !.capacity = capacity]
<1>1. q \in Request /\ q.account \in Accounts /\ q.account \notin q.excluded
  BY DEF RequestInv
<1>2. q.excluded \cup {q.account} \in SUBSET Accounts /\ q.attempt \in Int /\ q.limit \in Nat
  BY <1>1 DEF Request
<1>3. p \in Request
  <2>1. capacity \in SUBSET Accounts /\ q.attempt + 1 \in Int
    BY <1>1, <1>2
  <2>2. "selecting" \in Phase /\ NoAccount \in Accounts \cup {NoAccount}
    BY DEF Phase
  <2>3. QED BY <1>1, <1>2, <2>1, <2>2 DEF Request
<1>4. /\ p.phase = "selecting" /\ p.excluded = q.excluded \cup {q.account}
      /\ p.capacity = capacity /\ p.attempt = q.attempt + 1 /\ p.limit = q.limit
      /\ p.transports = q.transports /\ p.overloads = q.overloads /\ p.rounds = q.rounds
      /\ p.sends = q.sends
  BY <1>1 DEF Request
<1>5. Cardinality(p.excluded) = Cardinality(q.excluded) + 1
  BY <1>1, <1>4, RequestSets, FS_AddElement
<1>6. p.attempt = Cardinality(p.excluded) /\ p.attempt <= p.limit /\ p.limit >= 1
  BY <1>2, <1>4, <1>5, RequestSets DEF RequestInv
<1>7. Paid(p) = Paid(q)
  <2>1. q.rounds * q.limit \in Int /\ q.transports \in Int /\ q.overloads \in Int
    BY <1>1, <1>2 DEF Request
  <2>2. OnTheWire(q) = 1 /\ OnTheWire(p) = 0
    BY <1>4 DEF OnTheWire
  <2>3. QED BY <1>2, <1>4, <2>1, <2>2 DEF Paid
<1>8. p.sends <= Paid(p)
  BY <1>4, <1>7 DEF RequestInv
<1> HIDE DEF p
<1>9. RequestInv(p)
  BY <1>3, <1>4, <1>6, <1>8 DEF RequestInv
<1>10. QED BY <1>9 DEF p

(* A retry on the same account: paid for by its own budget.                 *)
LEMMA RetriedSame ==
  ASSUME NEW q, RequestInv(q), q.phase = "sent",
         NEW p \in Request, p.phase = "waiting", p.excluded = q.excluded,
         p.capacity = q.capacity, p.attempt = q.attempt, p.limit = q.limit,
         p.rounds = q.rounds, p.sends = q.sends,
         p.transports + p.overloads = q.transports + q.overloads + 1
  PROVE  RequestInv(p)
<1>1. q \in Request
  BY DEF RequestInv
<1>2. /\ q.rounds * q.limit \in Int /\ q.transports \in Int /\ q.overloads \in Int
      /\ p.transports \in Int /\ p.overloads \in Int /\ q.attempt \in Int /\ q.sends \in Int
  BY <1>1 DEF Request
<1>3. OnTheWire(q) = 1 /\ OnTheWire(p) = 0
  BY DEF OnTheWire
<1>4. Paid(p) = Paid(q)
  BY <1>2, <1>3 DEF Paid
<1>5. QED BY <1>4 DEF RequestInv

(* A round: the attempts it gives back are exactly the exclusions it lifts, *)
(* and one sweep of the accounts is charged to it.                          *)
LEMMA RoundSpent ==
  ASSUME NEW q, RequestInv(q), q.phase = "sent", RoundsLeft(q)
  PROVE  /\ RequestInv(AfterRound(q)) /\ AfterRound(q).phase = "waiting"
         /\ q.excluded \ q.capacity \subseteq AfterRound(q).excluded
<1> DEFINE p == AfterRound(q)
           back == Cardinality(Refusing(q))
<1>1. q \in Request /\ q.account \in Accounts /\ q.account \notin q.excluded
      /\ q.capacity \subseteq q.excluded /\ q.attempt < q.limit
  BY DEF RequestInv
<1>2. /\ q.attempt \in Int /\ q.limit \in Nat /\ q.rounds \in Nat /\ q.sends \in Nat
      /\ q.transports \in Nat /\ q.overloads \in Nat
  BY <1>1, AttemptsAssumption DEF Request
<1>3. back = Cardinality(q.capacity) + 1
  <2>1. q.account \notin q.capacity
    BY <1>1
  <2>2. QED BY <2>1, RequestSets, FS_AddElement DEF Refusing
<1>4. q.excluded \ Refusing(q) = q.excluded \ q.capacity
  BY <1>1 DEF Refusing
<1>5. Cardinality(q.excluded \ q.capacity) = Cardinality(q.excluded) - Cardinality(q.capacity)
  <2>1. q.excluded \cap q.capacity = q.capacity
    BY <1>1
  <2>2. Cardinality(q.excluded \ q.capacity)
          = Cardinality(q.excluded) - Cardinality(q.excluded \cap q.capacity)
    BY RequestSets, FS_Difference
  <2>3. QED BY <2>1, <2>2
<1>6. back \in Nat /\ back <= q.attempt + 1 /\ back <= q.limit
  BY <1>1, <1>2, <1>3, RequestSets DEF RequestInv
<1> HIDE DEF back
<1>7. /\ p.phase = "waiting" /\ p.excluded = q.excluded \ q.capacity /\ p.capacity = {}
      /\ p.attempt = q.attempt + 1 - back /\ p.rounds = q.rounds + 1 /\ p.limit = q.limit
      /\ p.transports = q.transports /\ p.overloads = q.overloads /\ p.sends = q.sends
  BY <1>1, <1>4 DEF AfterRound, Request, back
<1>8. p \in Request
  <2>1. q.rounds + 1 \in 0..CapacityRounds
    BY <1>2, AttemptsAssumption DEF RoundsLeft
  <2>2. back \in Int /\ q.attempt + 1 - back \in Int
    BY <1>2, <1>6
  <2>3. q.excluded \ Refusing(q) \in SUBSET Accounts
    BY <1>1 DEF Request
  <2>4. QED BY <1>1, <2>1, <2>2, <2>3 DEF AfterRound, Request, Phase, back
<1> HIDE DEF p
<1>9. p.attempt = Cardinality(p.excluded) /\ p.attempt <= p.limit /\ p.limit >= 1
  BY <1>1, <1>2, <1>3, <1>5, <1>6, <1>7, RequestSets DEF RequestInv
<1>10. p.sends <= Paid(p)
  <2>1. q.rounds * q.limit \in Int /\ (q.rounds + 1) * q.limit = q.rounds * q.limit + q.limit
    BY <1>2
  <2>2. OnTheWire(q) = 1 /\ OnTheWire(p) = 0
    BY <1>7 DEF OnTheWire
  <2>3. q.sends <= q.transports + q.overloads + q.rounds * q.limit + q.attempt + 1
    BY <2>2 DEF RequestInv, Paid
  <2>4. Paid(p) = q.transports + q.overloads + (q.rounds + 1) * q.limit + (q.attempt + 1 - back) + 0
    BY <1>7, <2>2 DEF Paid
  <2> DEFINE swept == q.rounds * q.limit
  <2>5. swept \in Int /\ Paid(p) = q.transports + q.overloads + (swept + q.limit) + (q.attempt + 1 - back)
        /\ q.sends <= q.transports + q.overloads + swept + q.attempt + 1
    BY <1>2, <1>6, <2>1, <2>3, <2>4
  <2> HIDE DEF swept
  <2>6. QED BY <1>2, <1>6, <1>7, <2>5
<1>11. RequestInv(p)
  BY <1>7, <1>8, <1>9, <1>10 DEF RequestInv
<1>12. QED BY <1>7, <1>11 DEF p

-----------------------------------------------------------------------------
(* The steps                                                                *)

BarredKept(q, p) == p.phase # "idle" => q.excluded \ q.capacity \subseteq p.excluded

\* A step leaves every request in order, and none forgets who is barred.
RequestsStep ==
  /\ request' \in [Requests -> Request]
  /\ \A r \in Requests : RequestInv(request'[r]) /\ BarredKept(request[r], request'[r])

LEMMA OneRequestStep ==
  ASSUME IInv, NEW r \in Requests, NEW p, RequestInv(p), BarredKept(request[r], p),
         request' = [request EXCEPT ![r] = p]
  PROVE  RequestsStep
<1>1. p \in Request /\ request \in [Requests -> Request]
  BY DEF IInv, RequestInv
<1>2. \A x \in Requests : request'[x] = IF x = r THEN p ELSE request[x]
  BY <1>1
<1>3. \A x \in Requests : RequestInv(request[x]) /\ BarredKept(request[x], request[x])
  BY DEF IInv, BarredKept
<1>4. request' \in [Requests -> Request]
  BY <1>1
<1>5. QED BY <1>2, <1>3, <1>4 DEF RequestsStep

LEMMA NoRequestStep == IInv /\ UNCHANGED request => RequestsStep
  BY DEF IInv, RequestsStep, BarredKept

LEMMA FinishStep ==
  ASSUME IInv, NEW r \in Requests, Finish(r)
  PROVE  RequestsStep
  BY IdleInv, OneRequestStep DEF Finish, BarredKept

LEMMA BeginStep ==
  ASSUME IInv, NEW r \in Requests, NEW m \in Models, Begin(r, m)
  PROVE  RequestsStep
<1> DEFINE p == [Idle EXCEPT !.phase = "selecting", !.model = m, !.limit = AttemptLimit]
<1>1. Idle \in Request /\ AttemptLimit \in Nat /\ AttemptLimit >= 1
  BY IdleInv, AttemptLimitType DEF RequestInv
<1>2. p \in Request
  BY <1>1 DEF Request, Phase
<1>3. /\ p.phase = "selecting" /\ p.excluded = {} /\ p.capacity = {} /\ p.attempt = 0
      /\ p.limit = AttemptLimit /\ p.rounds = 0 /\ p.overloads = 0 /\ p.transports = 0
      /\ p.sends = 0
  BY DEF Idle
<1>4. request[r] = Idle
  BY DEF IInv, Begin, RequestInv
<1>5. request' = [request EXCEPT ![r] = p]
  BY DEF Begin
<1> HIDE DEF p
<1>6. Paid(p) = 0
  BY <1>1, <1>3 DEF Paid, OnTheWire
<1>7. RequestInv(p)
  BY <1>1, <1>2, <1>3, <1>6, FS_EmptySet DEF RequestInv
<1>8. BarredKept(request[r], p)
  BY <1>4 DEF BarredKept, Idle
<1>9. QED BY <1>5, <1>7, <1>8, OneRequestStep

LEMMA SelectStep ==
  ASSUME IInv, NEW r \in Requests, Select(r)
  PROVE  RequestsStep
<1> DEFINE q == request[r]
<1>1. PICK a \in Choices(q) :
        request' = [request EXCEPT ![r].phase = "sent", ![r].account = a, ![r].sends = @ + 1]
  BY DEF Select
<1> DEFINE p == [q EXCEPT !.phase = "sent", !.account = a, !.sends = @ + 1]
<1>2. q \in Request /\ RequestInv(q) /\ q.phase = "selecting" /\ q.attempt < q.limit
  BY DEF IInv, Select, MayAttempt
<1>3. a \in Accounts \ q.excluded
  BY DEF Choices, OverloadedFallback, FallbackCandidates
<1>4. q.sends \in Nat /\ q.attempt \in Int
  BY <1>2 DEF Request
<1>5. p \in Request
  <2>1. a \in Accounts \cup {NoAccount} /\ q.sends + 1 \in Nat /\ "sent" \in Phase
    BY <1>3, <1>4 DEF Phase
  <2>2. QED BY <1>2, <2>1 DEF Request
<1>6. /\ p.phase = "sent" /\ p.account = a /\ p.excluded = q.excluded
      /\ p.capacity = q.capacity /\ p.attempt = q.attempt /\ p.limit = q.limit
      /\ p.rounds = q.rounds /\ p.overloads = q.overloads /\ p.transports = q.transports
      /\ p.sends = q.sends + 1
  BY <1>2 DEF Request
<1>7. request' = [request EXCEPT ![r] = p]
  BY <1>1 DEF IInv
<1> HIDE DEF p
<1>8. Paid(p) = Paid(q) + 1 /\ Paid(q) \in Int
  <2>1. q.rounds * q.limit \in Int /\ q.transports \in Int /\ q.overloads \in Int
    BY <1>2 DEF Request
  <2>2. OnTheWire(q) = 0 /\ OnTheWire(p) = 1
    BY <1>2, <1>6 DEF OnTheWire
  <2>3. QED BY <1>4, <1>6, <2>1, <2>2 DEF Paid
<1>9. p.sends <= Paid(p)
  BY <1>2, <1>4, <1>6, <1>8 DEF RequestInv
<1>10. RequestInv(p)
  BY <1>2, <1>3, <1>5, <1>6, <1>9 DEF RequestInv
<1>11. BarredKept(q, p)
  BY <1>6 DEF BarredKept
<1>12. QED BY <1>7, <1>10, <1>11, OneRequestStep

LEMMA ResumeStep ==
  ASSUME IInv, NEW r \in Requests, Resume(r)
  PROVE  RequestsStep
<1> DEFINE q == request[r]
           p == [q EXCEPT !.phase = "selecting"]
<1>1. q \in Request /\ RequestInv(q) /\ q.phase = "waiting"
  BY DEF IInv, Resume
<1>2. p \in Request
  BY <1>1 DEF Request, Phase
<1>3. /\ p.phase = "selecting" /\ p.excluded = q.excluded /\ p.capacity = q.capacity
      /\ p.attempt = q.attempt /\ p.limit = q.limit /\ p.rounds = q.rounds
      /\ p.overloads = q.overloads /\ p.transports = q.transports /\ p.sends = q.sends
  BY <1>1 DEF Request
<1>4. request' = [request EXCEPT ![r] = p]
  BY DEF IInv, Resume
<1> HIDE DEF p
<1>5. Paid(p) = Paid(q)
  BY <1>1, <1>3 DEF Paid, OnTheWire
<1>6. RequestInv(p)
  BY <1>1, <1>2, <1>3, <1>5 DEF RequestInv
<1>7. QED BY <1>3, <1>4, <1>6, OneRequestStep DEF BarredKept

LEMMA MoveOnStep ==
  ASSUME IInv, NEW r \in Requests, InFlight(r), NEW forCapacity \in BOOLEAN,
         MoveOn(r, forCapacity)
  PROVE  RequestsStep
<1> DEFINE q == request[r]
           capacity == IF forCapacity THEN q.capacity \cup {q.account} ELSE q.capacity
           p == [q EXCEPT !.phase = "selecting", !.account = NoAccount,
                   !.excluded = @ \cup {q.account}, !.attempt = @ + 1, !.capacity = capacity]
<1>1. q \in Request /\ RequestInv(q) /\ q.phase = "sent"
  BY DEF IInv, InFlight
<1>2. capacity \in SUBSET (q.excluded \cup {q.account})
  BY <1>1 DEF RequestInv
<1>3. request' = [request EXCEPT ![r] = p]
  BY DEF IInv, MoveOn, Exhausted
<1>4. p.excluded = q.excluded \cup {q.account}
  BY <1>1 DEF Request
<1>5. RequestInv(p)
  <2> HIDE DEF capacity
  <2>1. QED BY <1>1, <1>2, MovedOn
<1> HIDE DEF p
<1>6. QED BY <1>3, <1>4, <1>5, OneRequestStep DEF BarredKept

LEMMA SameAgainStep ==
  ASSUME IInv, NEW r \in Requests, InFlight(r),
         \/ /\ request[r].transports < TransportRetries
            /\ request' = [request EXCEPT ![r].phase = "waiting", ![r].transports = @ + 1]
         \/ /\ request[r].overloads < OverloadRetries
            /\ request' = [request EXCEPT ![r].phase = "waiting", ![r].overloads = @ + 1]
  PROVE  RequestsStep
<1> DEFINE q == request[r]
<1>1. q \in Request /\ RequestInv(q) /\ q.phase = "sent" /\ request \in [Requests -> Request]
  BY DEF IInv, InFlight
<1>2. q.transports \in 0..TransportRetries /\ q.overloads \in 0..OverloadRetries
  BY <1>1 DEF Request
<1>3. CASE /\ q.transports < TransportRetries
           /\ request' = [request EXCEPT ![r].phase = "waiting", ![r].transports = @ + 1]
  <2> DEFINE p == [q EXCEPT !.phase = "waiting", !.transports = @ + 1]
  <2>1. q.transports + 1 \in 0..TransportRetries
    BY <1>2, <1>3, AttemptsAssumption
  <2>2. p \in Request
    BY <1>1, <2>1 DEF Request, Phase
  <2>3. /\ p.phase = "waiting" /\ p.excluded = q.excluded /\ p.capacity = q.capacity
        /\ p.attempt = q.attempt /\ p.limit = q.limit /\ p.rounds = q.rounds
        /\ p.overloads = q.overloads /\ p.transports = q.transports + 1 /\ p.sends = q.sends
    BY <1>1 DEF Request
  <2>4. request' = [request EXCEPT ![r] = p]
    BY <1>1, <1>3
  <2> HIDE DEF p
  <2>5. p.transports + p.overloads = q.transports + q.overloads + 1
    BY <1>2, <2>3, AttemptsAssumption
  <2>6. RequestInv(p)
    BY <1>1, <2>2, <2>3, <2>5, RetriedSame
  <2>7. QED BY <2>3, <2>4, <2>6, OneRequestStep DEF BarredKept
<1>4. CASE /\ q.overloads < OverloadRetries
           /\ request' = [request EXCEPT ![r].phase = "waiting", ![r].overloads = @ + 1]
  <2> DEFINE p == [q EXCEPT !.phase = "waiting", !.overloads = @ + 1]
  <2>1. q.overloads + 1 \in 0..OverloadRetries
    BY <1>2, <1>4, AttemptsAssumption
  <2>2. p \in Request
    BY <1>1, <2>1 DEF Request, Phase
  <2>3. /\ p.phase = "waiting" /\ p.excluded = q.excluded /\ p.capacity = q.capacity
        /\ p.attempt = q.attempt /\ p.limit = q.limit /\ p.rounds = q.rounds
        /\ p.overloads = q.overloads + 1 /\ p.transports = q.transports /\ p.sends = q.sends
    BY <1>1 DEF Request
  <2>4. request' = [request EXCEPT ![r] = p]
    BY <1>1, <1>4
  <2> HIDE DEF p
  <2>5. p.transports + p.overloads = q.transports + q.overloads + 1
    BY <1>2, <2>3, AttemptsAssumption
  <2>6. RequestInv(p)
    BY <1>1, <2>2, <2>3, <2>5, RetriedSame
  <2>7. QED BY <2>3, <2>4, <2>6, OneRequestStep DEF BarredKept
<1>5. QED BY <1>3, <1>4

LEMMA SpendRoundStep ==
  ASSUME IInv, NEW r \in Requests, InFlight(r), SpendRound(r)
  PROVE  RequestsStep
<1>1. RequestInv(request[r]) /\ request[r].phase = "sent" /\ RoundsLeft(request[r])
  BY DEF IInv, InFlight, SpendRound
<1>2. request' = [request EXCEPT ![r] = AfterRound(request[r])]
  BY DEF SpendRound
<1>3. QED BY <1>1, <1>2, RoundSpent, OneRequestStep DEF BarredKept

(* What an answer does to the request, to its account and to the streaks.   *)
LEMMA AnswerStep ==
  ASSUME IInv, NEW r \in Requests, Answer(r)
  PROVE  RequestsStep /\ AccountTypeOK' /\ streak' \in [Accounts -> 0..FailoverAfter]
<1> DEFINE q == request[r]
           a == q.account
<1>1. InFlight(r)
  BY DEF Answer, Answered, Unreachable, ServerErrorWithRetryAfter, ServerError, Unauthorized,
         RateLimited, StreamRefused, StreamBroken, StreamUnauthorized
<1>2. a \in Accounts /\ q.model \in Models /\ AccountTypeOK
  BY <1>1 DEF IInv, InFlight, RequestInv, Request
<1>3. streak \in [Accounts -> 0..FailoverAfter] /\ FailoverAfter \in Nat \ {0}
  BY AttemptsAssumption DEF IInv
<1>4. NoStreak(r) \/ UNCHANGED streak => streak' \in [Accounts -> 0..FailoverAfter]
  BY <1>3 DEF NoStreak
<1>5. \A class \in CooldownClass : CoolDown(r, class) => AccountTypeOK'
  BY <1>2, CooldownAppended DEF CoolDown
<1>6. UNCHANGED accountVars => AccountTypeOK'
  BY <1>2 DEF accountVars, AccountTypeOK
<1>7. SpendRound(r) => AccountTypeOK'
  <2>1. SUFFICES ASSUME SpendRound(r)
                 PROVE  AccountTypeOK'
    OBVIOUS
  <2>2. cooldowns' \subseteq cooldowns
    BY <2>1 DEF SpendRound
  <2>3. QED BY <1>2, <2>1, <2>2, CooldownsDropped DEF SpendRound
<1>8. /\ "standing" \in CooldownClass /\ "overload" \in CooldownClass
      /\ TRUE \in BOOLEAN /\ FALSE \in BOOLEAN
  BY DEF CooldownClass
<1>9. CASE Answered(r)
  BY <1>4, <1>6, <1>9, FinishStep DEF Answered
<1>10. CASE Unreachable(r)
  <2>1. CASE q.transports < TransportRetries
    BY <1>1, <1>4, <1>6, <1>10, <2>1, SameAgainStep DEF Unreachable
  <2>2. CASE ~ q.transports < TransportRetries
    BY <1>1, <1>4, <1>5, <1>8, <1>10, <2>2, MoveOnStep DEF Unreachable
  <2>3. QED BY <2>1, <2>2
<1>11. ASSUME NEW listed \in BOOLEAN, Unauthorized(r, listed)
       PROVE  RequestsStep /\ AccountTypeOK' /\ streak' \in [Accounts -> 0..FailoverAfter]
  <2>1. AccountTypeOK'
    BY <1>2, <1>11, CredentialQuarantined DEF Unauthorized
  <2>2. QED BY <1>1, <1>4, <1>8, <1>11, <2>1, MoveOnStep DEF Unauthorized
<1>12. ASSUME NEW withinCap, RateLimited(r, withinCap)
       PROVE  RequestsStep /\ AccountTypeOK' /\ streak' \in [Accounts -> 0..FailoverAfter]
  <2>1. CASE SpendRound(r)
    BY <1>1, <1>4, <1>7, <2>1, SpendRoundStep DEF SpendRound
  <2>2. CASE MoveOn(r, TRUE) /\ CoolDown(r, "standing") /\ NoStreak(r)
    BY <1>1, <1>4, <1>5, <1>8, <2>2, MoveOnStep
  <2>3. QED BY <1>12, <2>1, <2>2 DEF RateLimited
<1>13. ASSUME NEW recent \in BOOLEAN, Strike(r, recent)
       PROVE  streak' \in [Accounts -> 0..FailoverAfter]
  <2>1. streak[a] \in 0..FailoverAfter
    BY <1>2, <1>3
  <2>2. Strikes(a, recent) \in 0..FailoverAfter
    BY <1>3, <2>1 DEF Strikes
  <2>3. QED BY <1>3, <1>13, <2>2 DEF Strike
<1>14. ASSUME NEW recent \in BOOLEAN,
              ServerErrorWithRetryAfter(r, recent) \/ ServerError(r, recent)
       PROVE  RequestsStep /\ AccountTypeOK' /\ streak' \in [Accounts -> 0..FailoverAfter]
  <2>1. \/ Finish(r) /\ UNCHANGED accountVars
        \/ MoveOn(r, FALSE) /\ CoolDown(r, "overload")
    BY <1>14 DEF ServerErrorWithRetryAfter, ServerError
  <2>2. streak' \in [Accounts -> 0..FailoverAfter]
    BY <1>13, <1>14 DEF ServerErrorWithRetryAfter, ServerError
  <2>3. QED BY <1>1, <1>5, <1>6, <1>8, <2>1, <2>2, FinishStep, MoveOnStep
<1>15. ASSUME NEW class \in CooldownClass, StreamRefused(r, class)
       PROVE  RequestsStep /\ AccountTypeOK' /\ streak' \in [Accounts -> 0..FailoverAfter]
  <2>1. CASE SpendRound(r)
    BY <1>1, <1>4, <1>7, <2>1, SpendRoundStep DEF SpendRound
  <2>2. CASE MoveOn(r, TRUE) /\ CoolDown(r, class) /\ NoStreak(r)
    BY <1>1, <1>4, <1>5, <1>8, <2>2, MoveOnStep
  <2>3. CASE Finish(r) /\ CoolDown(r, class) /\ NoStreak(r)
    BY <1>4, <1>5, <2>3, FinishStep
  <2>4. CASE /\ q.overloads < OverloadRetries
             /\ request' = [request EXCEPT ![r].phase = "waiting", ![r].overloads = @ + 1]
             /\ NoStreak(r)
             /\ UNCHANGED accountVars
    BY <1>1, <1>4, <1>6, <2>4, SameAgainStep
  <2>5. QED BY <1>15, <2>1, <2>2, <2>3, <2>4 DEF StreamRefused
<1>16. ASSUME NEW class \in CooldownClass, StreamBroken(r, class)
       PROVE  RequestsStep /\ AccountTypeOK' /\ streak' \in [Accounts -> 0..FailoverAfter]
  BY <1>4, <1>5, <1>16, FinishStep DEF StreamBroken
<1>17. ASSUME NEW listed \in BOOLEAN, StreamUnauthorized(r, listed)
       PROVE  RequestsStep /\ AccountTypeOK' /\ streak' \in [Accounts -> 0..FailoverAfter]
  <2>1. AccountTypeOK'
    BY <1>2, <1>17, CredentialQuarantined DEF StreamUnauthorized
  <2>2. QED BY <1>4, <1>17, <2>1, FinishStep DEF StreamUnauthorized
<1>18. QED BY <1>9, <1>10, <1>11, <1>12, <1>14, <1>15, <1>16, <1>17 DEF Answer

LEMMA NextStep ==
  ASSUME IInv, [Next]_vars
  PROVE  RequestsStep /\ IInv'
<1>1. AccountTypeOK /\ streak \in [Accounts -> 0..FailoverAfter]
  BY DEF IInv
<1>2. UNCHANGED <<accountVars, streak>> =>
        AccountTypeOK' /\ streak' \in [Accounts -> 0..FailoverAfter]
  BY <1>1 DEF accountVars, AccountTypeOK
<1>3. RequestsStep /\ AccountTypeOK' /\ streak' \in [Accounts -> 0..FailoverAfter]
  <2>1. CASE UNCHANGED vars
    BY <1>2, <2>1, NoRequestStep DEF vars
  <2>2. ASSUME NEW r \in Requests, NEW m \in Models, Begin(r, m)
        PROVE  RequestsStep /\ AccountTypeOK' /\ streak' \in [Accounts -> 0..FailoverAfter]
    BY <1>2, <2>2, BeginStep DEF Begin
  <2>3. ASSUME NEW r \in Requests, Select(r)
        PROVE  RequestsStep /\ AccountTypeOK' /\ streak' \in [Accounts -> 0..FailoverAfter]
    BY <1>2, <2>3, SelectStep DEF Select
  <2>4. ASSUME NEW r \in Requests, GiveUp(r) \/ Cancel(r)
        PROVE  RequestsStep /\ AccountTypeOK' /\ streak' \in [Accounts -> 0..FailoverAfter]
    BY <1>2, <2>4, FinishStep DEF GiveUp, Cancel
  <2>5. ASSUME NEW r \in Requests, Resume(r)
        PROVE  RequestsStep /\ AccountTypeOK' /\ streak' \in [Accounts -> 0..FailoverAfter]
    BY <1>2, <2>5, ResumeStep DEF Resume
  <2>6. ASSUME NEW r \in Requests, Answer(r)
        PROVE  RequestsStep /\ AccountTypeOK' /\ streak' \in [Accounts -> 0..FailoverAfter]
    BY <2>6, AnswerStep
  <2>7. CASE Elapse /\ UNCHANGED <<request, streak>>
    BY <1>1, <2>7, ClockTicked, NoRequestStep
  <2>8. QED BY <2>1, <2>2, <2>3, <2>4, <2>5, <2>6, <2>7 DEF Next, Proceed
<1>4. QED BY <1>3 DEF IInv, RequestsStep

LEMMA Invariant == Spec => []IInv
<1>1. Init => IInv
  <2> SUFFICES ASSUME Init
               PROVE  IInv
    OBVIOUS
  <2>1. AccountTypeOK
    BY AccountInitTypes DEF Init
  <2>2. request \in [Requests -> Request] /\ \A r \in Requests : RequestInv(request[r])
    BY IdleInv DEF Init, RequestInv
  <2>3. streak \in [Accounts -> 0..FailoverAfter]
    BY AttemptsAssumption DEF Init
  <2>4. QED BY <2>1, <2>2, <2>3 DEF IInv
<1>2. IInv /\ [Next]_vars => IInv'
  BY NextStep
<1>3. QED BY <1>1, <1>2, PTL DEF Spec

-----------------------------------------------------------------------------

(* The loop keeps its types: no budget is overspent, however the failures   *)
(* of concurrent requests interleave.                                       *)
THEOREM TypeCorrect == Spec => []TypeOK
<1>1. IInv => TypeOK
  BY DEF IInv, TypeOK
<1>2. QED BY <1>1, Invariant, PTL

(* Attempts are exactly the exclusions, through every round.                *)
THEOREM AttemptsCount == Spec => []AttemptsCountExclusions
<1>1. IInv => AttemptsCountExclusions
  BY DEF IInv, RequestInv, AttemptsCountExclusions
<1>2. QED BY <1>1, Invariant, PTL

(* A request is sent no more often than its budgets allow, whatever         *)
(* upstream answers.                                                        *)
THEOREM SendsAreBounded == Spec => []SendsBounded
<1>1. IInv => SendsBounded
  <2> SUFFICES ASSUME IInv, NEW r \in Requests
               PROVE  request[r].sends <= TransportRetries + OverloadRetries
                                          + (CapacityRounds + 1) * request[r].limit
    BY DEF SendsBounded
  <2> DEFINE q == request[r]
             swept == q.rounds * q.limit
             sweeps == CapacityRounds * q.limit
  <2>1. q \in Request /\ RequestInv(q)
    BY DEF IInv
  <2>2. /\ q.transports \in 0..TransportRetries /\ q.overloads \in 0..OverloadRetries
        /\ q.rounds \in 0..CapacityRounds /\ q.limit \in Nat /\ q.attempt \in Int
        /\ q.sends \in Nat
    BY <2>1 DEF Request
  <2>3. swept <= sweeps /\ swept \in Int /\ sweeps \in Int
    <3>1. ASSUME NEW i \in Nat, NEW j \in Nat, NEW l \in Nat, i <= j
          PROVE  i * l <= j * l
      BY <3>1
    <3>2. QED BY <2>2, <3>1, AttemptsAssumption
  <2>4. (CapacityRounds + 1) * q.limit = sweeps + q.limit
    <3>1. \A c, l \in Nat : (c + 1) * l = c * l + l
      OBVIOUS
    <3>2. QED BY <2>2, <3>1, AttemptsAssumption
  <2>5. q.attempt + OnTheWire(q) <= q.limit /\ OnTheWire(q) \in {0, 1}
    BY <2>1, <2>2 DEF RequestInv, OnTheWire
  <2>6. q.sends <= q.transports + q.overloads + swept + q.attempt + OnTheWire(q)
    BY <2>1 DEF RequestInv, Paid
  <2> HIDE DEF swept, sweeps
  <2>7. QED BY <2>2, <2>3, <2>4, <2>5, <2>6, AttemptsAssumption
<1>2. QED BY <1>1, Invariant, PTL

(* No round restores an account that was excluded for anything but          *)
(* capacity.                                                                *)
THEOREM BarredStays == Spec => BarredStaysBarred
<1>1. IInv /\ [Next]_vars =>
        [\A r \in Requests : request'[r].phase # "idle" =>
           request[r].excluded \ request[r].capacity \subseteq request'[r].excluded]_vars
  BY NextStep DEF RequestsStep, BarredKept
<1>2. QED BY <1>1, Invariant, PTL DEF Spec, BarredStaysBarred
=============================================================================

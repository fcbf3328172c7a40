---------------------------- MODULE Eligibility ----------------------------
(***************************************************************************)
(* Which account may serve a request: the slots of the pool, the facts the *)
(* pool knows about them, and the predicates selection is built from       *)
(* (pool/app.rs "identity" and "eligibility", pool/routing.rs selection).  *)
(*                                                                         *)
(* A slot is a local credential.  Several slots may be copies of one       *)
(* upstream identity; only the identity's representative serves.  A        *)
(* cooldown is an entry of its own: two refusals of one account leave two  *)
(* entries, each with its own expiry.  Times are kept as the ticks left,   *)
(* so the clock needs no bound.                                            *)
(*                                                                         *)
(* The weighted rendezvous draw among the accounts of the best tier, and   *)
(* the idle-first rule before it, are data: a placement is any account of  *)
(* the best tier.                                                          *)
(***************************************************************************)
EXTENDS Integers, FiniteSets, Sequences

CONSTANTS
  Accounts,      \* the configured slots
  Models,        \* requested models
  Identities,    \* upstream accounts a slot can be signed in to
  NoIdentity,    \* an API-key slot has no upstream identity
  SignedIn,      \* [Accounts -> Identities \cup {NoIdentity}]: as configured
  NoAccount,     \* "no account" (an empty account id)
  Serves,        \* [Accounts -> SUBSET Models]: plan::allowed_model
  Tier,          \* [Accounts -> 0..2]: ordinary, Pro Lite, Pro
  Priority,      \* [Accounts -> Int]: the owner's priority
  Ord,           \* [Accounts -> Nat]: the order of the account ids
  PreservePro,   \* the "Use Pro last" setting
  Span           \* [CooldownClass -> Nat]: how many ticks a cooldown lasts

CooldownClass == {"overload", "fault", "standing"}
SlotState     == {"in", "out", "gone"}
AuthState     == {"ready", "missing", "pending"}
QuotaLevel    == {"spent", "reserved", "unknown", "low", "ample"}

ASSUME EligibilityAssumption ==
  /\ IsFiniteSet(Accounts)
  /\ NoAccount \notin Accounts
  /\ NoIdentity \notin Identities
  /\ SignedIn \in [Accounts -> Identities \cup {NoIdentity}]
  /\ Serves \in [Accounts -> SUBSET Models]
  /\ Tier \in [Accounts -> 0..2]
  /\ Priority \in [Accounts -> Int]
  /\ Ord \in [Accounts -> Nat]
  /\ \A a, b \in Accounts : Ord[a] = Ord[b] => a = b
  /\ PreservePro \in BOOLEAN
  /\ Span \in [CooldownClass -> Nat \ {0}]

VARIABLES
  slot,       \* [Accounts -> SlotState]: enabled and in the pool, not, deleted
  auth,       \* [Accounts -> AuthState]: the credential; pending = in repair
  identity,   \* [Accounts -> Identities \cup {NoIdentity}]
  quota,      \* [Accounts -> QuotaLevel]: what the quota snapshot says
  refused,    \* SUBSET Accounts: upstream refused the credential (quota error)
  meters,     \* SUBSET (Accounts \X Models): the model meters upstream reports
  red,        \* SUBSET Accounts: holds a reset credit about to expire
  cooldowns   \* a set of CooldownEntry: the cooldowns in force

accountVars == <<slot, auth, identity, quota, refused, meters, red, cooldowns>>

CooldownEntry == [account : Accounts, model : Models, class : CooldownClass,
                  left : Nat \ {0}]

AccountTypeOK ==
  /\ slot \in [Accounts -> SlotState]
  /\ auth \in [Accounts -> AuthState]
  /\ identity \in [Accounts -> Identities \cup {NoIdentity}]
  /\ quota \in [Accounts -> QuotaLevel]
  /\ refused \subseteq Accounts
  /\ meters \subseteq Accounts \X Models
  /\ red \subseteq Accounts
  /\ cooldowns \subseteq CooldownEntry

-----------------------------------------------------------------------------
(* Orders *)

LexLess(s, t) ==
  \E i \in DOMAIN s : s[i] < t[i] /\ \A j \in 1..(i - 1) : s[j] = t[j]

Bit(b) == IF b THEN 1 ELSE 0

\* Red outline first, then Use Pro last, then priority, then the id.
StandingKey(a) ==
  <<Bit(a \notin red), IF PreservePro THEN Tier[a] ELSE 0, -Priority[a], Ord[a]>>

PreferredBefore(a, b) == LexLess(StandingKey(a), StandingKey(b))

-----------------------------------------------------------------------------
(* Identity *)

AuthVerificationPending(a) == slot[a] # "gone" /\ auth[a] = "pending"

HasUsableAuth(a) == auth[a] = "ready"

ActiveCooldowns(a, m, t) ==
  {c \in cooldowns : c.account = a /\ c.model = m /\ c.left > t}

CoolingDown(a, m, t) == ActiveCooldowns(a, m, t) # {}

QuotaRank == [spent |-> 0, reserved |-> 0, unknown |-> 1, low |-> 2, ample |-> 3]

MutantQuotaIgnored(a, m, t) == <<Bit(CoolingDown(a, m, t))>> \o StandingKey(a)

RepresentativeKey(a, m, t) ==
  <<Bit(CoolingDown(a, m, t)), -QuotaRank[quota[a]]>> \o StandingKey(a)

SameIdentity(a) ==
  {b \in Accounts : identity[a] # NoIdentity /\ identity[b] = identity[a]}

RepresentativeCandidates(a, m) ==
  {b \in SameIdentity(a) :
      slot[b] = "in" /\ m \in Serves[b] /\ HasUsableAuth(b) /\ b \notin refused}

\* a is the slot its identity serves through (primary_upstream_account_id), or
\* nothing represents the identity and nothing stands in a's way.
Represents(a, m, t) ==
  LET C == RepresentativeCandidates(a, m)
  IN  \/ C = {}
      \/ a \in C /\ \A d \in C \ {a} :
           LexLess(RepresentativeKey(a, m, t), RepresentativeKey(d, m, t))

\* The upstream identities of the slots a request has already failed on.
ExcludedIdentities(excluded) ==
  {identity[b] : b \in {x \in excluded : slot[x] # "gone"}} \ {NoIdentity}

-----------------------------------------------------------------------------
(* Eligibility *)

SiblingQuotaHint(a, m, t) ==
  /\ Represents(a, m, t)
  /\ \E b \in SameIdentity(a) \ {a} :
       /\ slot[b] = "in"
       /\ HasUsableAuth(b)
       /\ b \notin refused
       /\ quota[b] \in {"low", "ample"}

QuotaAvailable(a, m, t) ==
  /\ a \notin refused
  /\ \/ quota[a] \in {"unknown", "low", "ample"}
     \/ quota[a] = "spent" /\ SiblingQuotaHint(a, m, t)

\* Some account reports the meter: only accounts that report it may serve.
ModelMeterAllows(a, m) ==
  \/ <<a, m>> \in meters
  \/ ~ \E b \in Accounts \ {a} : slot[b] = "in" /\ <<b, m>> \in meters

MutantEveryCopyServes(a, m, t) ==
  /\ slot[a] = "in" /\ m \in Serves[a] /\ auth[a] = "ready"
  /\ QuotaAvailable(a, m, t) /\ ModelMeterAllows(a, m) /\ ~ CoolingDown(a, m, t)

Usable(a, m, t) ==
  /\ slot[a] = "in"
  /\ m \in Serves[a]
  /\ auth[a] = "ready"
  /\ Represents(a, m, t)
  /\ QuotaAvailable(a, m, t)
  /\ ModelMeterAllows(a, m)
  /\ ~ CoolingDown(a, m, t)

MutantNoIdentityExclusion(a, m, excluded) == a \notin excluded /\ Usable(a, m, 0)

Selectable(a, m, excluded) ==
  /\ a \notin excluded
  /\ Usable(a, m, 0)
  /\ identity[a] \notin ExcludedIdentities(excluded)

Eligible(m, excluded) == {a \in Accounts : Selectable(a, m, excluded)}

-----------------------------------------------------------------------------
(* Placement *)

RedFirst(S) == IF S \cap red # {} THEN S \cap red ELSE S

LowestTier(S) ==
  IF PreservePro THEN {a \in S : \A b \in S : Tier[a] <= Tier[b]} ELSE S

HighestPriority(S) == {a \in S : \A b \in S : Priority[a] >= Priority[b]}

MutantTierBeforeRed(S) == HighestPriority(RedFirst(LowestTier(S)))

\* pick_balanced_account: any account of the best tier of S.
BestTier(S) == HighestPriority(LowestTier(RedFirst(S)))

MayMove(a) == (PreservePro /\ Tier[a] > 0) \/ a \notin red

MutantMovesToEqual(a, b) ==
  a # b /\ (a \in red => b \in red) /\ PreservePro /\ Tier[b] <= Tier[a]

MovesTo(a, b) ==
  /\ a # b
  /\ \/ b \in red /\ a \notin red
     \/ (a \in red => b \in red) /\ PreservePro /\ Tier[b] < Tier[a]

\* overloaded_only_cooldown: the soonest expiry, when every active cooldown is
\* an upstream overload.
OverloadedOnly(a, m) ==
  /\ CoolingDown(a, m, 0)
  /\ \A c \in ActiveCooldowns(a, m, 0) : c.class = "overload"

SoonestRetry(a, m) ==
  CHOOSE t \in {c.left : c \in ActiveCooldowns(a, m, 0)} :
    \A c \in ActiveCooldowns(a, m, 0) : t <= c.left

FallbackCandidates(m, excluded) ==
  {a \in Accounts \ excluded :
     /\ slot[a] # "gone"
     /\ OverloadedOnly(a, m)
     /\ Usable(a, m, SoonestRetry(a, m))
     /\ identity[a] \notin ExcludedIdentities(excluded)}

OverloadedFallback(m, excluded) ==
  LET F == FallbackCandidates(m, excluded)
  IN  {a \in F : \A b \in F \ {a} :
         LexLess(<<SoonestRetry(a, m)>> \o StandingKey(a),
                 <<SoonestRetry(b, m)>> \o StandingKey(b))}

-----------------------------------------------------------------------------
(* What changes an account.  Init is any pool freshly configured.          *)

AccountInit ==
  /\ slot = [a \in Accounts |-> "in"]
  /\ auth = [a \in Accounts |-> "ready"]
  /\ identity = SignedIn
  /\ quota = [a \in Accounts |-> "unknown"]
  /\ refused = {}
  /\ meters = {}
  /\ red = {}
  /\ cooldowns = {}

\* append_cooldown adds an entry beside those in force.
WithCooldown(a, m, class) ==
  cooldowns \cup {[account |-> a, model |-> m, class |-> class, left |-> Span[class]]}

AppendCooldown(a, m, class) ==
  /\ cooldowns' = WithCooldown(a, m, class)
  /\ UNCHANGED <<slot, auth, identity, quota, refused, meters, red>>

\* quarantine_credential: a device-auth slot carries a quota error, which gates
\* routing when its code is one quota_error_blocks_routing lists; an API-key
\* slot cools down.
Quarantine(a, m, listed) ==
  IF slot[a] # "gone" /\ identity[a] # NoIdentity
  THEN /\ refused' = IF listed THEN refused \cup {a} ELSE refused \ {a}
       /\ UNCHANGED <<slot, auth, identity, quota, meters, red, cooldowns>>
  ELSE AppendCooldown(a, m, "standing")

ClearCooldowns(a) ==
  /\ slot[a] # "gone"
  /\ cooldowns' = {c \in cooldowns : c.account # a}
  /\ UNCHANGED <<slot, auth, identity, quota, refused, meters, red>>

PoolAdd(a) ==
  /\ slot[a] = "out"
  /\ slot' = [slot EXCEPT ![a] = "in"]
  /\ UNCHANGED <<auth, identity, quota, refused, meters, red, cooldowns>>

PoolRemove(a) ==
  /\ slot[a] = "in"
  /\ slot' = [slot EXCEPT ![a] = "out"]
  /\ UNCHANGED <<auth, identity, quota, refused, meters, red, cooldowns>>

\* Deletion drops everything recorded about the slot.
Delete(a) ==
  /\ slot[a] # "gone"
  /\ slot' = [slot EXCEPT ![a] = "gone"]
  /\ auth' = [auth EXCEPT ![a] = "missing"]
  /\ quota' = [quota EXCEPT ![a] = "unknown"]
  /\ refused' = refused \ {a}
  /\ meters' = {p \in meters : p[1] # a}
  /\ red' = red \ {a}
  /\ cooldowns' = {c \in cooldowns : c.account # a}
  /\ UNCHANGED identity

\* A stored quota snapshot: its level, its meters and its reset credit.
RefreshQuota(a, level, models, credit) ==
  /\ slot[a] # "gone"
  /\ auth[a] = "ready"
  /\ quota' = [quota EXCEPT ![a] = level]
  /\ refused' = refused \ {a}
  /\ meters' = {p \in meters : p[1] # a} \cup ({a} \X models)
  /\ red' = IF credit THEN red \cup {a} ELSE red \ {a}
  /\ UNCHANGED <<slot, auth, identity, cooldowns>>

\* The durable gate is set when a sign-in starts; a sign-in that fails leaves
\* it set, so several slots can be pending although one job runs at a time.
StartRepair(a) ==
  /\ slot[a] # "gone"
  /\ identity[a] # NoIdentity
  /\ auth[a] # "pending"
  /\ auth' = [auth EXCEPT ![a] = "pending"]
  /\ UNCHANGED <<slot, identity, quota, refused, meters, red, cooldowns>>

\* A verified sign-in.  The same identity keeps the slot's quota history with
\* its error and cooldowns cleared; another one starts clean.
FinishRepair(a, i) ==
  /\ AuthVerificationPending(a)
  /\ auth' = [auth EXCEPT ![a] = "ready"]
  /\ identity' = [identity EXCEPT ![a] = i]
  /\ refused' = refused \ {a}
  /\ cooldowns' = {c \in cooldowns : c.account # a}
  /\ IF i = identity[a]
     THEN UNCHANGED <<quota, meters, red>>
     ELSE /\ quota' = [quota EXCEPT ![a] = "unknown"]
          /\ meters' = {p \in meters : p[1] # a}
          /\ red' = red \ {a}
  /\ UNCHANGED slot

\* The clock.  Selection ignores a cooldown whose time has passed.
Elapse ==
  /\ cooldowns' = {[c EXCEPT !.left = @ - 1] : c \in {d \in cooldowns : d.left > 1}}
  /\ UNCHANGED <<slot, auth, identity, quota, refused, meters, red>>
=============================================================================

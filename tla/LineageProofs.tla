--------------------------- MODULE LineageProofs ---------------------------
(***************************************************************************)
(* LineageRouting keeps its types, an identity serves through one slot at  *)
(* every step, and, while strict lineage binding is on, a recorded lineage *)
(* outlives the bindings of its members, its account implements the pin of *)
(* LineagePin, and a request never tries two copies of one identity: for   *)
(* every pool, every tree of threads and every number of concurrent        *)
(* requests.                                                               *)
(***************************************************************************)
EXTENDS LineageProperties, FiniteSetTheorems, SequenceTheorems, WellFoundedInduction, TLAPS

-----------------------------------------------------------------------------
(* The order of accounts, and what EligibilityProperties states of every    *)
(* pool, from the types of its state                                        *)

(* A finite set ordered by an irreflexive, transitive relation has a first  *)
(* element: the one whose set of predecessors is minimal.                   *)
LEMMA FirstElement ==
  ASSUME NEW C, IsFiniteSet(C), C # {}, NEW R,
         \A x \in C : <<x, x>> \notin R,
         \A x, y, z \in C : <<x, y>> \in R /\ <<y, z>> \in R => <<x, z>> \in R
  PROVE  \E x \in C : \A y \in C : <<y, x>> \notin R
<1> DEFINE Before(x) == {y \in C : <<y, x>> \in R}
           T == {P \in SUBSET C : \E x \in C : P = Before(x)}
<1>1. T \subseteq FiniteSubsetsOf(C)
  BY FS_Subset DEF FiniteSubsetsOf
<1>2. T # {}
  <2>1. PICK x \in C : TRUE
    OBVIOUS
  <2>2. Before(x) \in T
    OBVIOUS
  <2>3. QED BY <2>2
<1>3. IsWellFoundedOn(StrictSubsetOrdering(C), FiniteSubsetsOf(C))
  BY FS_StrictSubsetOrderingWellFounded
<1>4. PICK least \in T : \A other \in T : <<other, least>> \notin StrictSubsetOrdering(C)
  <2> HIDE DEF T
  <2>1. QED BY <1>1, <1>2, <1>3, WFMin
<1>5. PICK x \in C : least = Before(x)
  OBVIOUS
<1>6. ASSUME NEW y \in C, <<y, x>> \in R
      PROVE  FALSE
  <2>1. Before(y) \subseteq Before(x) /\ y \in Before(x) /\ y \notin Before(y)
    BY <1>6
  <2>2. <<Before(y), Before(x)>> \in StrictSubsetOrdering(C)
    BY <2>1 DEF StrictSubsetOrdering
  <2>3. QED BY <1>4, <1>5, <2>2
<1>7. QED BY <1>6

(* Two keys of one length are never each before the other: the first place  *)
(* where they differ decides (Rust's comparison of tuples).                 *)
LEMMA LexLessAsymmetric ==
  ASSUME NEW n \in Nat, NEW s \in [1..n -> Int], NEW t \in [1..n -> Int],
         LexLess(s, t), LexLess(t, s)
  PROVE  FALSE
<1>1. PICK i \in 1..n : s[i] < t[i] /\ \A k \in 1..(i - 1) : s[k] = t[k]
  BY DEF LexLess
<1>2. PICK j \in 1..n : t[j] < s[j] /\ \A k \in 1..(j - 1) : t[k] = s[k]
  BY DEF LexLess
<1>3. s[i] \in Int /\ t[i] \in Int /\ s[j] \in Int /\ t[j] \in Int
  OBVIOUS
<1>4. CASE i < j
  <2>1. i \in 1..(j - 1)
    BY <1>4
  <2>2. QED BY <1>1, <1>2, <1>3, <2>1
<1>5. CASE j < i
  <2>1. j \in 1..(i - 1)
    BY <1>5
  <2>2. QED BY <1>1, <1>2, <1>3, <2>1
<1>6. CASE i = j
  BY <1>1, <1>2, <1>3, <1>6
<1>7. QED BY <1>4, <1>5, <1>6

LEMMA LexLessTransitive ==
  ASSUME NEW n \in Nat, NEW s \in [1..n -> Int], NEW t \in [1..n -> Int],
         NEW u \in [1..n -> Int], LexLess(s, t), LexLess(t, u)
  PROVE  LexLess(s, u)
<1>1. PICK i \in 1..n : s[i] < t[i] /\ \A k \in 1..(i - 1) : s[k] = t[k]
  BY DEF LexLess
<1>2. PICK j \in 1..n : t[j] < u[j] /\ \A k \in 1..(j - 1) : t[k] = u[k]
  BY DEF LexLess
<1>3. \A k \in 1..n : s[k] \in Int /\ t[k] \in Int /\ u[k] \in Int
  OBVIOUS
<1> DEFINE first == IF i < j THEN i ELSE j
<1>4. first \in 1..n /\ \A k \in 1..(first - 1) : k \in 1..(i - 1) /\ k \in 1..(j - 1)
  OBVIOUS
<1>5. \A k \in 1..(first - 1) : s[k] = u[k]
  BY <1>1, <1>2, <1>4
<1>6. s[first] < u[first]
  <2>1. CASE i < j
    BY <1>1, <1>2, <1>3, <2>1
  <2>2. CASE j < i
    BY <1>1, <1>2, <1>3, <2>2
  <2>3. CASE i = j
    BY <1>1, <1>2, <1>3, <2>3
  <2>4. QED BY <2>1, <2>2, <2>3
<1>7. DOMAIN s = 1..n
  OBVIOUS
<1> HIDE DEF first
<1>8. QED BY <1>4, <1>5, <1>6, <1>7 DEF LexLess

LEMMA LexLessTotal ==
  ASSUME NEW n \in Nat, NEW s \in [1..n -> Int], NEW t \in [1..n -> Int], s # t
  PROVE  LexLess(s, t) \/ LexLess(t, s)
<1> DEFINE D == {i \in 1..n : s[i] # t[i]}
           R == {p \in D \X D : p[1] < p[2]}
<1>1. D # {}
  OBVIOUS
<1>2. IsFiniteSet(D)
  BY FS_Interval, FS_Subset
<1>3. \A x \in D : <<x, x>> \notin R
  OBVIOUS
<1>4. \A x, y, z \in D : <<x, y>> \in R /\ <<y, z>> \in R => <<x, z>> \in R
  OBVIOUS
<1>5. PICK i \in D : \A y \in D : <<y, i>> \notin R
  <2> HIDE DEF D, R
  <2>1. QED BY <1>1, <1>2, <1>3, <1>4, FirstElement
<1>6. i \in 1..n /\ s[i] # t[i]
  OBVIOUS
<1>7. ASSUME NEW k \in 1..(i - 1), s[k] # t[k]
      PROVE  FALSE
  <2>1. k \in D /\ k < i
    BY <1>7
  <2>2. <<k, i>> \in R
    BY <2>1
  <2>3. QED BY <1>5, <2>1, <2>2
<1>8. s[i] < t[i] \/ t[i] < s[i]
  BY <1>6
<1>9. QED BY <1>6, <1>7, <1>8 DEF LexLess

(* If a key of integers is before another, its first two entries are not    *)
(* after the other's.                                                       *)
LEMMA LexLessStart ==
  ASSUME NEW s \in [1..6 -> Int], NEW t \in [1..6 -> Int], LexLess(s, t)
  PROVE  s[1] < t[1] \/ (s[1] = t[1] /\ s[2] <= t[2])
<1>1. PICK i \in 1..6 : s[i] < t[i] /\ \A k \in 1..(i - 1) : s[k] = t[k]
  BY DEF LexLess
<1>2. s[1] \in Int /\ s[2] \in Int /\ t[1] \in Int /\ t[2] \in Int
  OBVIOUS
<1>3. CASE i = 1
  BY <1>1, <1>3
<1>4. CASE i = 2
  BY <1>1, <1>2, <1>4
<1>5. CASE i > 2
  BY <1>1, <1>2, <1>5
<1>6. QED BY <1>3, <1>4, <1>5

(* A key of two followed by a key of four is a key of six.                  *)
LEMMA KeysConcatenate ==
  ASSUME NEW s \in Seq(Int), NEW t \in Seq(Int), Len(s) = 2, Len(t) = 4
  PROVE  /\ s \o t \in [1..6 -> Int]
         /\ (s \o t)[1] = s[1] /\ (s \o t)[2] = s[2] /\ (s \o t)[6] = t[4]
<1>1. s \o t \in Seq(Int)
  BY ConcatProperties
<1>2. Len(s \o t) = Len(s) + Len(t)
  BY ConcatProperties
<1>3. s \o t \in [1..Len(s \o t) -> Int]
  BY <1>1, LenProperties
<1>4. Len(s \o t) = 6
  BY <1>2
<1>5. \A i \in 1..(Len(s) + Len(t)) :
        (s \o t)[i] = IF i <= Len(s) THEN s[i] ELSE t[i - Len(s)]
  BY ConcatProperties
<1>6. s \o t \in [1..6 -> Int]
  BY <1>3, <1>4
<1> DEFINE st == s \o t
<1>7. \A i \in 1..(Len(s) + Len(t)) :
        st[i] = IF i <= Len(s) THEN s[i] ELSE t[i - Len(s)]
  BY <1>5, Zenon DEF st
<1> HIDE DEF st
<1>8. \A i \in 1..6 : st[i] = IF i <= 2 THEN s[i] ELSE t[i - 2]
  BY <1>7
<1>9. st[1] = s[1] /\ st[2] = s[2] /\ st[6] = t[4]
  BY <1>8
<1>10. QED BY <1>6, <1>9 DEF st

(* The key an account is ranked by among the copies of its identity: six    *)
(* integers, whatever is known of the account, that begin with its cooldown *)
(* and its quota and end with its id.                                       *)
LEMMA KeyEntries ==
  ASSUME AccountTypeOK, NEW a \in Accounts, NEW m, NEW t
  PROVE  /\ RepresentativeKey(a, m, t) \in [1..6 -> Int]
         /\ RepresentativeKey(a, m, t)[1] = Bit(CoolingDown(a, m, t))
         /\ RepresentativeKey(a, m, t)[2] = -QuotaRank[quota[a]]
         /\ RepresentativeKey(a, m, t)[6] = Ord[a]
<1> DEFINE first == <<Bit(CoolingDown(a, m, t)), -QuotaRank[quota[a]]>>
<1>1. Bit(CoolingDown(a, m, t)) \in Int /\ Bit(a \notin red) \in Int
  BY DEF Bit
<1>2. QuotaRank[quota[a]] \in Int
  <2>1. quota[a] \in {"spent", "reserved", "unknown", "low", "ample"}
    BY DEF AccountTypeOK, QuotaLevel
  <2>2. QED BY <2>1 DEF QuotaRank
<1>3. Tier[a] \in Int /\ Priority[a] \in Int /\ Ord[a] \in Int
  BY EligibilityAssumption
<1>4. first \in Seq(Int) /\ Len(first) = 2
  BY <1>1, <1>2
<1>5. StandingKey(a) \in Seq(Int) /\ Len(StandingKey(a)) = 4
  BY <1>1, <1>3 DEF StandingKey
<1>6. StandingKey(a)[4] = Ord[a]
  BY DEF StandingKey
<1>7. first[1] = Bit(CoolingDown(a, m, t)) /\ first[2] = -QuotaRank[quota[a]]
  OBVIOUS
<1> HIDE DEF first
<1>8. first \o StandingKey(a) \in [1..6 -> Int]
  BY <1>4, <1>5, KeysConcatenate
<1>9. /\ (first \o StandingKey(a))[1] = first[1]
      /\ (first \o StandingKey(a))[2] = first[2]
      /\ (first \o StandingKey(a))[6] = StandingKey(a)[4]
  BY <1>4, <1>5, KeysConcatenate
<1>10. RepresentativeKey(a, m, t) = first \o StandingKey(a)
  BY DEF RepresentativeKey, first
<1>11. QED BY <1>6, <1>7, <1>8, <1>9, <1>10

LEMMA RepresentativeKeyType ==
  ASSUME AccountTypeOK, NEW a \in Accounts, NEW m, NEW t
  PROVE  RepresentativeKey(a, m, t) \in [1..6 -> Int]
  BY KeyEntries

(* An identity serves a model through at most one of its slots, in every    *)
(* state the pool can be in (app.rs primary_upstream_account_id, usable).   *)
THEOREM OneServes == AccountTypeOK => OneServesPerIdentity
<1> SUFFICES ASSUME AccountTypeOK, NEW m \in Models, NEW a \in Accounts, NEW b \in Accounts,
                    Usable(a, m, 0), Usable(b, m, 0), identity[a] = identity[b],
                    a # b, identity[a] # NoIdentity
             PROVE  FALSE
  BY DEF OneServesPerIdentity
<1>1. SameIdentity(a) = SameIdentity(b)
  BY DEF SameIdentity
<1>2. RepresentativeCandidates(a, m) = RepresentativeCandidates(b, m)
  BY <1>1 DEF RepresentativeCandidates
<1>3. a \in RepresentativeCandidates(a, m) /\ b \in RepresentativeCandidates(a, m)
  BY DEF RepresentativeCandidates, SameIdentity, Usable, HasUsableAuth, QuotaAvailable
<1>4. LexLess(RepresentativeKey(a, m, 0), RepresentativeKey(b, m, 0))
  BY <1>3 DEF Usable, Represents
<1>5. LexLess(RepresentativeKey(b, m, 0), RepresentativeKey(a, m, 0))
  BY <1>2, <1>3 DEF Usable, Represents
<1>6. RepresentativeKey(a, m, 0) \in [1..6 -> Int] /\ RepresentativeKey(b, m, 0) \in [1..6 -> Int]
  BY RepresentativeKeyType
<1>7. QED BY <1>4, <1>5, <1>6, LexLessAsymmetric

(* The key ranks distinct accounts apart: it ends in the account's id.      *)
LEMMA KeysDiffer ==
  ASSUME AccountTypeOK, NEW a \in Accounts, NEW b \in Accounts, a # b, NEW m, NEW t
  PROVE  RepresentativeKey(a, m, t) # RepresentativeKey(b, m, t)
<1>1. Ord[a] # Ord[b]
  BY EligibilityAssumption
<1>2. RepresentativeKey(a, m, t)[6] = Ord[a] /\ RepresentativeKey(b, m, t)[6] = Ord[b]
  BY KeyEntries
<1>3. QED BY <1>1, <1>2

(* An identity some slot can stand for is represented by one of its slots:  *)
(* the first in the order of the keys.                                      *)
LEMMA SomeCopyRepresents ==
  ASSUME AccountTypeOK, NEW m \in Models, NEW a \in Accounts,
         RepresentativeCandidates(a, m) # {}
  PROVE  \E d \in RepresentativeCandidates(a, m) :
           /\ Represents(d, m, 0)
           /\ \A b \in RepresentativeCandidates(a, m) \ {d} :
                LexLess(RepresentativeKey(d, m, 0), RepresentativeKey(b, m, 0))
<1> DEFINE C == RepresentativeCandidates(a, m)
           R == {p \in C \X C : LexLess(RepresentativeKey(p[1], m, 0),
                                        RepresentativeKey(p[2], m, 0))}
<1>1. C \subseteq Accounts /\ IsFiniteSet(C)
  <2>1. C \subseteq Accounts
    BY DEF RepresentativeCandidates, SameIdentity
  <2>2. QED BY <2>1, EligibilityAssumption, FS_Subset
<1>2. \A x \in C : RepresentativeKey(x, m, 0) \in [1..6 -> Int]
  BY <1>1, RepresentativeKeyType
<1>3. \A x \in C : <<x, x>> \notin R
  <2>1. ASSUME NEW x \in C, LexLess(RepresentativeKey(x, m, 0), RepresentativeKey(x, m, 0))
        PROVE  FALSE
    BY <1>2, <2>1, LexLessAsymmetric
  <2>2. QED BY <2>1
<1>4. \A x, y, z \in C : <<x, y>> \in R /\ <<y, z>> \in R => <<x, z>> \in R
  <2>1. ASSUME NEW x \in C, NEW y \in C, NEW z \in C,
               LexLess(RepresentativeKey(x, m, 0), RepresentativeKey(y, m, 0)),
               LexLess(RepresentativeKey(y, m, 0), RepresentativeKey(z, m, 0))
        PROVE  LexLess(RepresentativeKey(x, m, 0), RepresentativeKey(z, m, 0))
    BY <1>2, <2>1, LexLessTransitive
  <2>2. QED BY <2>1
<1>5. PICK d \in C : \A y \in C : <<y, d>> \notin R
  <2> HIDE DEF C, R
  <2>1. C # {}
    BY DEF C
  <2>2. QED BY <1>1, <1>3, <1>4, <2>1, FirstElement
<1>6. ASSUME NEW b \in C \ {d}
      PROVE  LexLess(RepresentativeKey(d, m, 0), RepresentativeKey(b, m, 0))
  <2>1. RepresentativeKey(d, m, 0) # RepresentativeKey(b, m, 0)
    BY <1>1, KeysDiffer
  <2>2. ~ LexLess(RepresentativeKey(b, m, 0), RepresentativeKey(d, m, 0))
    BY <1>5
  <2>3. QED BY <1>2, <2>1, <2>2, LexLessTotal
<1>7. RepresentativeCandidates(d, m) = C
  BY DEF RepresentativeCandidates, SameIdentity
<1>8. QED BY <1>6, <1>7 DEF Represents

(* An identity with a healthy copy is represented by a healthy copy         *)
(* (app.rs identity_representative_before), whatever the copies' standing.  *)
THEOREM HealthyRepresents == AccountTypeOK => HealthyCopyRepresents
<1> SUFFICES ASSUME AccountTypeOK, NEW m \in Models, NEW a \in Accounts,
                    NEW b \in RepresentativeCandidates(a, m), Healthy(b, m)
             PROVE  \E d \in RepresentativeCandidates(a, m) :
                      Represents(d, m, 0) /\ Healthy(d, m)
  BY DEF HealthyCopyRepresents
<1>1. PICK d \in RepresentativeCandidates(a, m) :
        /\ Represents(d, m, 0)
        /\ \A c \in RepresentativeCandidates(a, m) \ {d} :
             LexLess(RepresentativeKey(d, m, 0), RepresentativeKey(c, m, 0))
  BY SomeCopyRepresents
<1>2. d \in Accounts /\ b \in Accounts
  BY DEF RepresentativeCandidates, SameIdentity
<1>3. CASE b = d
  BY <1>1, <1>3
<1>4. CASE b # d
  <2> DEFINE kd == RepresentativeKey(d, m, 0)
             kb == RepresentativeKey(b, m, 0)
  <2>1. kd \in [1..6 -> Int] /\ kb \in [1..6 -> Int] /\ LexLess(kd, kb)
    BY <1>1, <1>2, <1>4, RepresentativeKeyType
  <2>2. kd[1] < kb[1] \/ (kd[1] = kb[1] /\ kd[2] <= kb[2])
    BY <2>1, LexLessStart
  <2>3. /\ kd[1] = Bit(CoolingDown(d, m, 0)) /\ kd[2] = -QuotaRank[quota[d]]
        /\ kb[1] = Bit(CoolingDown(b, m, 0)) /\ kb[2] = -QuotaRank[quota[b]]
    BY <1>2, KeyEntries
  <2>4. kb[1] = 0
    BY <2>3 DEF Healthy, Bit
  <2>5. kd[1] = 0 /\ kd[2] <= kb[2]
    <3>1. kd[1] \in {0, 1}
      BY <2>3 DEF Bit
    <3>2. QED BY <2>2, <2>4, <3>1
  <2>6. ~ CoolingDown(d, m, 0)
    BY <2>3, <2>5 DEF Bit
  <2>7. QuotaRank[quota[b]] >= 1 /\ QuotaRank[quota[b]] \in Nat
    BY DEF Healthy, QuotaRank
  <2>8. quota[d] \in {"spent", "reserved", "unknown", "low", "ample"}
    BY <1>2 DEF AccountTypeOK, QuotaLevel
  <2>9. QuotaRank[quota[d]] \in Nat
    BY <2>8 DEF QuotaRank
  <2>10. QuotaRank[quota[d]] >= 1
    <3> HIDE DEF kd, kb
    <3>1. QED BY <2>3, <2>5, <2>7, <2>9
  <2>11. quota[d] \in {"unknown", "low", "ample"}
    BY <2>8, <2>10 DEF QuotaRank
  <2>12. QED BY <1>1, <2>6, <2>11 DEF Healthy
<1>5. QED BY <1>3, <1>4

(* Placement and movement rank accounts alike: no account of the best tier  *)
(* of a set moves to another account of the set, whatever the tiers, the    *)
(* priorities and the credits are (routing.rs pick_balanced_account,        *)
(* bound_session_moves_to).                                                 *)
THEOREM BestStays == BestPlacementStays
<1> SUFFICES ASSUME NEW S \in SUBSET Accounts, NEW b \in BestTier(S), NEW a \in S,
                    MovesTo(b, a)
             PROVE  FALSE
  BY DEF BestPlacementStays
<1>1. b \in LowestTier(RedFirst(S)) /\ b \in RedFirst(S)
  BY DEF BestTier, HighestPriority, LowestTier
<1>2. CASE a \in red /\ b \notin red
  BY <1>1, <1>2 DEF RedFirst
<1>3. CASE (b \in red => a \in red) /\ PreservePro /\ Tier[a] < Tier[b]
  <2>1. a \in RedFirst(S)
    BY <1>1, <1>3 DEF RedFirst
  <2>2. Tier[b] <= Tier[a]
    BY <1>1, <1>3, <2>1 DEF LowestTier
  <2>3. Tier[a] \in Int /\ Tier[b] \in Int
    <3>1. a \in Accounts /\ b \in Accounts
      BY <1>1 DEF RedFirst
    <3>2. QED BY <3>1, EligibilityAssumption
  <2>4. QED BY <1>3, <2>2, <2>3
<1>4. QED BY <1>2, <1>3 DEF MovesTo

-----------------------------------------------------------------------------
(* The changes of an account keep the types                                 *)

LEMMA AccountInitTypes == AccountInit => AccountTypeOK
  BY EligibilityAssumption DEF AccountInit, AccountTypeOK, SlotState, AuthState, QuotaLevel

(* Cooldowns are only ever dropped, renewed by one entry, or aged.          *)
LEMMA CooldownsDropped ==
  ASSUME AccountTypeOK, cooldowns' \subseteq cooldowns,
         UNCHANGED <<slot, auth, identity, quota, refused, meters, red>>
  PROVE  AccountTypeOK'
  BY DEF AccountTypeOK

LEMMA CooldownAppended ==
  ASSUME AccountTypeOK, NEW a \in Accounts, NEW m \in Models, NEW class \in CooldownClass,
         AppendCooldown(a, m, class)
  PROVE  AccountTypeOK'
<1>1. Span[class] \in Nat \ {0}
  BY EligibilityAssumption
<1>2. [account |-> a, model |-> m, class |-> class, left |-> Span[class]] \in CooldownEntry
  BY <1>1 DEF CooldownEntry
<1>3. QED BY <1>2 DEF AccountTypeOK, AppendCooldown, WithCooldown

LEMMA CredentialQuarantined ==
  ASSUME AccountTypeOK, NEW a \in Accounts, NEW m \in Models, NEW listed \in BOOLEAN,
         Quarantine(a, m, listed)
  PROVE  AccountTypeOK'
<1>1. CASE slot[a] # "gone" /\ identity[a] # NoIdentity
  BY <1>1 DEF Quarantine, AccountTypeOK
<1>2. CASE ~ (slot[a] # "gone" /\ identity[a] # NoIdentity)
  <2>1. AppendCooldown(a, m, "standing")
    BY <1>2 DEF Quarantine
  <2>2. QED BY <2>1, CooldownAppended DEF CooldownClass
<1>3. QED BY <1>1, <1>2

LEMMA ClockTicked == AccountTypeOK /\ Elapse => AccountTypeOK'
<1> SUFFICES ASSUME AccountTypeOK, Elapse
             PROVE  AccountTypeOK'
  OBVIOUS
<1>1. ASSUME NEW c \in {d \in cooldowns : d.left > 1}
      PROVE  [c EXCEPT !.left = @ - 1] \in CooldownEntry
  BY DEF AccountTypeOK, CooldownEntry
<1>2. cooldowns' \subseteq CooldownEntry
  BY <1>1 DEF Elapse
<1>3. QED BY <1>2 DEF AccountTypeOK, Elapse

LEMMA SlotMoved ==
  ASSUME AccountTypeOK, NEW a \in Accounts, PoolAdd(a) \/ PoolRemove(a) \/ Delete(a)
  PROVE  AccountTypeOK'
<1>1. CASE PoolAdd(a)
  BY <1>1 DEF PoolAdd, AccountTypeOK, SlotState
<1>2. CASE PoolRemove(a)
  BY <1>2 DEF PoolRemove, AccountTypeOK, SlotState
<1>3. CASE Delete(a)
  <2>1. slot' \in [Accounts -> SlotState] /\ auth' \in [Accounts -> AuthState]
    BY <1>3 DEF Delete, AccountTypeOK, SlotState, AuthState
  <2>2. quota' \in [Accounts -> QuotaLevel] /\ identity' = identity
    BY <1>3 DEF Delete, AccountTypeOK, QuotaLevel
  <2>3. /\ refused' \subseteq Accounts /\ meters' \subseteq Accounts \X Models
        /\ red' \subseteq Accounts /\ cooldowns' \subseteq CooldownEntry
    BY <1>3 DEF Delete, AccountTypeOK
  <2>4. QED BY <2>1, <2>2, <2>3 DEF AccountTypeOK
<1>4. QED BY <1>1, <1>2, <1>3

LEMMA QuotaRefreshed ==
  ASSUME AccountTypeOK, NEW a \in Accounts, NEW level \in QuotaLevel,
         NEW models \in SUBSET Models, NEW credit \in BOOLEAN,
         RefreshQuota(a, level, models, credit)
  PROVE  AccountTypeOK'
<1>1. quota' \in [Accounts -> QuotaLevel]
  BY DEF RefreshQuota, AccountTypeOK
<1>2. /\ refused' \subseteq Accounts /\ meters' \subseteq Accounts \X Models
      /\ red' \subseteq Accounts
  BY DEF RefreshQuota, AccountTypeOK
<1>3. QED BY <1>1, <1>2 DEF RefreshQuota, AccountTypeOK

LEMMA RepairStepped ==
  ASSUME AccountTypeOK, NEW a \in Accounts, NEW i \in Identities \cup {NoIdentity},
         StartRepair(a) \/ FinishRepair(a, i) \/ ClearCooldowns(a)
  PROVE  AccountTypeOK'
<1>1. CASE StartRepair(a)
  BY <1>1 DEF StartRepair, AccountTypeOK, AuthState
<1>2. CASE FinishRepair(a, i)
  <2>1. auth' \in [Accounts -> AuthState]
    BY <1>2 DEF FinishRepair, AccountTypeOK, AuthState
  <2>2. identity' \in [Accounts -> Identities \cup {NoIdentity}]
    BY <1>2 DEF FinishRepair, AccountTypeOK
  <2>3. quota' \in [Accounts -> QuotaLevel]
    BY <1>2 DEF FinishRepair, AccountTypeOK, QuotaLevel
  <2>4. /\ refused' \subseteq Accounts /\ meters' \subseteq Accounts \X Models
        /\ red' \subseteq Accounts /\ cooldowns' \subseteq CooldownEntry
    BY <1>2 DEF FinishRepair, AccountTypeOK
  <2>5. QED BY <1>2, <2>1, <2>2, <2>3, <2>4 DEF FinishRepair, AccountTypeOK
<1>3. CASE ClearCooldowns(a)
  BY <1>3 DEF ClearCooldowns, AccountTypeOK
<1>4. QED BY <1>1, <1>2, <1>3

-----------------------------------------------------------------------------
(* What TypeOK needs                                                        *)

(* What TypeOK needs besides itself to be kept: an attempt and a live       *)
(* thread binding name a slot.                                              *)
SentNamesSlot == \A r \in Requests : req[r].phase = "sent" => req[r].account \in Accounts

BoundNamesSlot == \A t \in Threads : Live(thread[t]) => thread[t].account \in Accounts

TypeInv == TypeOK /\ SentNamesSlot /\ BoundNamesSlot

-----------------------------------------------------------------------------
(* Reading the bindings                                                     *)

(* A lineage without a record has a seed whenever it has a member: among    *)
(* finitely many, one succeeded last.                                       *)
LEMMA SomeMemberSeeds ==
  ASSUME TypeInv, NEW root \in Threads, Members(root) # {}
  PROVE  SeedAccounts(root) # {} /\ SeedAccounts(root) \subseteq Accounts
<1> DEFINE C == Members(root)
           K(u) == <<-thread[u].left, Ord[thread[u].account]>>
           R == {p \in C \X C : LexLess(K(p[1]), K(p[2]))}
<1>1. C \subseteq Threads /\ IsFiniteSet(C)
  <2>1. C \subseteq Threads
    BY DEF Members
  <2>2. QED BY <2>1, LineageAssumption, FS_Subset
<1>2. \A u \in C : thread[u].account \in Accounts /\ thread[u].left \in Nat
  <2>1. ASSUME NEW u \in C
        PROVE  thread[u].account \in Accounts /\ thread[u].left \in Nat
    <3>1. u \in Threads /\ Live(thread[u])
      BY DEF Members
    <3>2. thread[u] \in ThreadBinding
      BY <3>1 DEF TypeInv, TypeOK
    <3>3. thread[u].left \in 0..Ttl
      BY <3>2 DEF ThreadBinding
    <3>4. QED BY <3>1, <3>3, LineageAssumption DEF TypeInv, BoundNamesSlot
  <2>2. QED BY <2>1
<1>3. \A u \in C : K(u) \in [1..2 -> Int] /\ K(u)[1] = -thread[u].left
                     /\ K(u)[2] = Ord[thread[u].account]
  <2>1. ASSUME NEW u \in C
        PROVE  /\ K(u) \in [1..2 -> Int] /\ K(u)[1] = -thread[u].left
               /\ K(u)[2] = Ord[thread[u].account]
    <3>1. -thread[u].left \in Int /\ Ord[thread[u].account] \in Int
      BY <1>2, EligibilityAssumption
    <3>2. QED BY <3>1
  <2>2. QED BY <2>1
<1> HIDE DEF K
<1>4. \A x \in C : <<x, x>> \notin R
  <2>1. ASSUME NEW x \in C, LexLess(K(x), K(x))
        PROVE  FALSE
    BY <1>3, <2>1, LexLessAsymmetric
  <2>2. QED BY <2>1
<1>5. \A x, y, z \in C : <<x, y>> \in R /\ <<y, z>> \in R => <<x, z>> \in R
  <2>1. ASSUME NEW x \in C, NEW y \in C, NEW z \in C,
               LexLess(K(x), K(y)), LexLess(K(y), K(z))
        PROVE  LexLess(K(x), K(z))
    BY <1>3, <2>1, LexLessTransitive
  <2>2. QED BY <2>1
<1>6. PICK u \in C : \A v \in C : <<v, u>> \notin R
  <2> HIDE DEF C, R
  <2>1. C # {}
    BY DEF C
  <2>2. QED BY <1>1, <1>4, <1>5, <2>1, FirstElement
<1>7. ASSUME NEW v \in C, ~ LexLess(K(u), K(v))
      PROVE  thread[u].left = thread[v].left /\ thread[u].account = thread[v].account
  <2>1. ~ LexLess(K(v), K(u))
    BY <1>6
  <2>2. K(u) = K(v)
    BY <1>3, <1>7, <2>1, LexLessTotal
  <2>3. -thread[u].left = -thread[v].left
    BY <1>3, <2>2
  <2>4. thread[u].left = thread[v].left
    BY <1>2, <2>3
  <2>5. Ord[thread[u].account] = Ord[thread[v].account]
    BY <1>3, <2>2
  <2>6. QED BY <1>2, <2>4, <2>5, EligibilityAssumption
<1>8. thread[u].account \in SeedAccounts(root)
  BY <1>7 DEF SeedAccounts, K
<1>9. SeedAccounts(root) \subseteq Accounts
  BY <1>2 DEF SeedAccounts
<1>10. QED BY <1>8, <1>9

LEMMA LineageAccountType ==
  ASSUME TypeInv, NEW root \in Threads
  PROVE  LineageAccount(root) \in MaybeAccount
<1>1. CASE Live(lineage[root])
  <2>1. lineage[root] \in LineageBinding
    BY DEF TypeInv, TypeOK
  <2>2. QED BY <1>1, <2>1 DEF LineageAccount, LineageBinding
<1>2. CASE ~ Live(lineage[root]) /\ Members(root) = {}
  BY <1>2 DEF LineageAccount, MaybeAccount
<1>3. CASE ~ Live(lineage[root]) /\ Members(root) # {}
  <2>1. (CHOOSE a \in SeedAccounts(root) : TRUE) \in SeedAccounts(root)
    BY <1>3, SomeMemberSeeds
  <2>2. QED BY <1>3, <2>1, SomeMemberSeeds DEF LineageAccount, MaybeAccount
<1>4. QED BY <1>1, <1>2, <1>3

LEMMA RootOfType ==
  ASSUME TypeInv, NEW t \in Threads
  PROVE  RootOf(t) \in Threads /\ ParentAccount(t) \in MaybeAccount
<1>1. CASE ParentBinding(t) # {}
  <2>1. Parent[t] \in Threads
    BY <1>1 DEF ParentBinding
  <2>2. thread[Parent[t]] \in ThreadBinding
    BY <2>1 DEF TypeInv, TypeOK
  <2>3. QED BY <1>1, <2>2 DEF RootOf, ParentAccount, ThreadBinding
<1>2. CASE ParentBinding(t) = {}
  BY <1>2 DEF RootOf, ParentAccount, MaybeAccount
<1>3. QED BY <1>1, <1>2

LEMMA AttemptLimitType == AttemptLimit \in Nat
<1> DEFINE configured == {a \in Accounts : slot[a] # "gone"}
<1>1. IsFiniteSet(configured)
  BY EligibilityAssumption, FS_Subset
<1>2. Cardinality(configured) \in Nat
  BY <1>1, FS_CardinalityType
<1>3. QED BY <1>2 DEF AttemptLimit

-----------------------------------------------------------------------------
(* Choosing an account                                                      *)

LEMMA BestTierSubset ==
  ASSUME NEW S
  PROVE  BestTier(S) \subseteq S
  BY DEF BestTier, HighestPriority, LowestTier, RedFirst

LEMMA StayOrMoveType ==
  ASSUME NEW a \in Accounts, NEW R \in SUBSET Accounts
  PROVE  StayOrMove(a, R) \subseteq Accounts
  BY DEF StayOrMove

LEMMA FallbackType ==
  ASSUME NEW m, NEW excluded
  PROVE  OverloadedFallback(m, excluded) \subseteq Accounts
  BY DEF OverloadedFallback, FallbackCandidates

LEMMA PreferredType ==
  ASSUME NEW m, NEW models, NEW excluded
  PROVE  /\ PreferredForLineage(m, models, excluded) \subseteq Accounts
         /\ PreferredForSession(m, excluded) \subseteq Accounts
<1>1. Eligible(m, excluded) \subseteq Accounts
  BY DEF Eligible
<1>2. PreferredForSession(m, excluded) \subseteq Accounts
  BY <1>1, BestTierSubset DEF PreferredForSession
<1> DEFINE Joint == {a \in Eligible(m, excluded) : \A o \in models \ {m} : Usable(a, o, 0)}
           From == IF Joint # {} THEN Joint ELSE Eligible(m, excluded)
<1>3. From \subseteq Accounts
  BY <1>1
<1>4. PreferredForLineage(m, models, excluded) = BestTier(From)
  BY DEF PreferredForLineage
<1> HIDE DEF From
<1>5. QED BY <1>2, <1>3, <1>4, BestTierSubset

LEMMA StickyOfType ==
  ASSUME TypeInv, NEW r \in Requests
  PROVE  StickyOf(r) \in MaybeAccount
<1>1. req[r] \in Request
  BY DEF TypeInv, TypeOK
<1>2. req[r].thread \in Threads
  BY <1>1 DEF Request
<1>3. sticky[req[r].thread] \in StickySession
  BY <1>2 DEF TypeInv, TypeOK
<1>4. QED BY <1>3 DEF StickyOf, StickySession, MaybeAccount

(* Selection gives a slot, whichever mode the request was routed in.        *)
LEMMA ChoicesAreSlots ==
  ASSUME TypeInv, NEW r \in Requests
  PROVE  Choices(r) \subseteq Accounts
<1>1. req[r] \in Request
  BY DEF TypeInv, TypeOK
<1>2. req[r].root \in Threads /\ req[r].seen \in MaybeAccount
  BY <1>1 DEF Request
<1>3. LineageAccount(req[r].root) \in MaybeAccount
  BY <1>2, LineageAccountType
<1>4. LineageChoices(r) \subseteq Accounts
  <2> DEFINE a == LineageAccount(req[r].root)
             wanted == PreferredForLineage(Model(r), LineageModels(req[r].root, Model(r)),
                                           req[r].excluded)
             fallback == OverloadedFallback(Model(r), req[r].excluded)
  <2>1. wanted \subseteq Accounts /\ fallback \subseteq Accounts
    BY PreferredType, FallbackType
  <2>2. a # NoAccount => StayOrMove(a, wanted) \subseteq Accounts
    BY <1>3, <2>1, StayOrMoveType DEF MaybeAccount
  <2>3. QED BY <2>1, <2>2 DEF LineageChoices
<1>5. SessionChoices(r) \subseteq Accounts
  <2> DEFINE a == StickyOf(r)
             parent == req[r].seen
             wanted == PreferredForSession(Model(r), req[r].excluded)
             fallback == OverloadedFallback(Model(r), req[r].excluded)
  <2>1. wanted \subseteq Accounts /\ fallback \subseteq Accounts
    BY PreferredType, FallbackType
  <2>2. a # NoAccount => a \in Accounts /\ StayOrMove(a, wanted) \subseteq Accounts
    BY <2>1, StickyOfType, StayOrMoveType DEF MaybeAccount
  <2>3. parent # NoAccount => StayOrMove(parent, wanted) \subseteq Accounts
    BY <1>2, <2>1, StayOrMoveType DEF MaybeAccount
  <2>4. QED BY <2>1, <2>2, <2>3 DEF SessionChoices
<1>6. QED BY <1>4, <1>5 DEF Choices

-----------------------------------------------------------------------------
(* Every step keeps the types                                               *)

LEMMA IdleIsRequest == Idle \in Request /\ Idle.phase = "idle"
<1>1. AnyThread \in Threads
  BY LineageAssumption DEF AnyThread
<1>2. QED BY <1>1 DEF Idle, Request, MaybeAccount

LEMMA BlankBindings ==
  /\ NoSession \in StickySession /\ NoSession \in LineageBinding
  /\ \A t \in Threads : NoThreadBinding(t) \in ThreadBinding /\ ~ Live(NoThreadBinding(t))
  /\ ~ Live(NoSession)
  BY LineageAssumption DEF NoSession, NoThreadBinding, StickySession, LineageBinding,
     ThreadBinding, MaybeAccount, Live

LEMMA TypeInit == Init => TypeInv
<1> SUFFICES ASSUME Init
             PROVE  TypeInv
  OBVIOUS
<1>1. AccountTypeOK
  BY AccountInitTypes DEF Init
<1>2. /\ sticky \in [Threads -> StickySession]
      /\ thread \in [Threads -> ThreadBinding]
      /\ lineage \in [Threads -> LineageBinding]
  BY BlankBindings DEF Init
<1>3. req \in [Requests -> Request]
  BY IdleIsRequest DEF Init
<1>4. affinity \in BOOLEAN /\ changes \in 0..MaxChanges
  BY LineageAssumption DEF Init
<1>5. SentNamesSlot
  BY IdleIsRequest DEF Init, SentNamesSlot
<1>6. BoundNamesSlot
  BY BlankBindings DEF Init, BoundNamesSlot
<1>7. QED BY <1>1, <1>2, <1>3, <1>4, <1>5, <1>6 DEF TypeInv, TypeOK

(* A step that only changes one request, into a request that names a slot   *)
(* when it is sent, keeps the types.                                        *)
LEMMA RequestChanged ==
  ASSUME TypeInv, NEW r \in Requests, NEW q \in Request,
         q.phase = "sent" => q.account \in Accounts,
         req' = [req EXCEPT ![r] = q]
  PROVE  req' \in [Requests -> Request] /\ SentNamesSlot'
<1>1. req \in [Requests -> Request]
  BY DEF TypeInv, TypeOK
<1>2. req' \in [Requests -> Request]
  BY <1>1
<1>3. \A x \in Requests : req'[x] = IF x = r THEN q ELSE req[x]
  BY <1>1
<1>4. QED BY <1>2, <1>3 DEF TypeInv, SentNamesSlot

LEMMA DecideType ==
  ASSUME TypeInv, NEW r \in Requests, NEW t \in Threads, Decide(r, t)
  PROVE  TypeInv'
<1> DEFINE pinned == LineageAccount(RootOf(t))
           seen == IF affinity /\ pinned # NoAccount THEN pinned ELSE ParentAccount(t)
           q == [Idle EXCEPT !.phase = "routed", !.thread = t, !.strict = affinity,
                   !.root = RootOf(t), !.limit = AttemptLimit, !.seen = seen]
<1>1. pinned \in MaybeAccount /\ RootOf(t) \in Threads /\ ParentAccount(t) \in MaybeAccount
  BY RootOfType, LineageAccountType
<1>2. seen \in MaybeAccount /\ AttemptLimit \in Nat /\ affinity \in BOOLEAN
  BY <1>1, AttemptLimitType DEF TypeInv, TypeOK
<1>3. req' = [req EXCEPT ![r] = q]
  BY DEF Decide
<1> HIDE DEF pinned, seen
<1>4. q \in Request /\ q.phase = "routed"
  BY <1>1, <1>2, IdleIsRequest DEF Request
<1> HIDE DEF q
<1>5. req' \in [Requests -> Request] /\ SentNamesSlot'
  BY <1>3, <1>4, RequestChanged
<1>6. QED BY <1>5 DEF Decide, TypeInv, TypeOK, AccountTypeOK, accountVars, bindingVars, BoundNamesSlot

(* Dropping a session's binding keeps the types.                            *)
LEMMA ForgetType ==
  ASSUME TypeInv, NEW r \in Requests, ForgetDeletedSession(r) \/ UNCHANGED sticky
  PROVE  sticky' \in [Threads -> StickySession]
  BY BlankBindings DEF ForgetDeletedSession, TypeInv, TypeOK

LEMMA SelectType ==
  ASSUME TypeInv, NEW r \in Requests, Select(r)
  PROVE  TypeInv'
<1>1. PICK a \in Choices(r) :
        req' = [req EXCEPT ![r].phase = "sent", ![r].account = a, ![r].seen = SeenNow(r)]
  BY DEF Select
<1> DEFINE q == [req[r] EXCEPT !.phase = "sent", !.account = a, !.seen = SeenNow(r)]
<1>2. a \in Accounts
  BY ChoicesAreSlots
<1>3. req[r] \in Request
  BY DEF TypeInv, TypeOK
<1>4. SeenNow(r) \in MaybeAccount
  BY <1>3, LineageAccountType DEF SeenNow, Request
<1>5. q \in Request /\ q.phase = "sent" /\ q.account = a
  BY <1>2, <1>3, <1>4 DEF Request, MaybeAccount
<1>6. req' = [req EXCEPT ![r] = q]
  BY <1>1 DEF TypeInv, TypeOK
<1> HIDE DEF q
<1>7. req' \in [Requests -> Request] /\ SentNamesSlot'
  BY <1>2, <1>5, <1>6, RequestChanged
<1>8. sticky' \in [Threads -> StickySession]
  BY ForgetType DEF Select
<1>9. QED BY <1>7, <1>8 DEF Select, TypeInv, TypeOK, AccountTypeOK, accountVars, BoundNamesSlot

LEMMA RefuseType ==
  ASSUME TypeInv, NEW r \in Requests, Refuse(r)
  PROVE  TypeInv'
<1>1. req' \in [Requests -> Request] /\ SentNamesSlot'
  BY IdleIsRequest, RequestChanged DEF Refuse
<1>2. sticky' \in [Threads -> StickySession]
  BY ForgetType DEF Refuse
<1>3. QED BY <1>1, <1>2 DEF Refuse, TypeInv, TypeOK, AccountTypeOK, accountVars, BoundNamesSlot

LEMMA SucceedType ==
  ASSUME TypeInv, NEW r \in Requests, Succeed(r)
  PROVE  TypeInv'
<1>1. req[r] \in Request /\ req[r].account \in Accounts
  BY DEF TypeInv, TypeOK, SentNamesSlot, Succeed
<1>2. req[r].thread \in Threads /\ req[r].root \in Threads /\ Ttl \in 0..Ttl
  BY <1>1, LineageAssumption DEF Request
<1>3. req' \in [Requests -> Request] /\ SentNamesSlot'
  BY IdleIsRequest, RequestChanged DEF Succeed
<1>4. sticky' \in [Threads -> StickySession]
  BY <1>1, <1>2 DEF Succeed, TypeInv, TypeOK, StickySession, MaybeAccount
<1>5. thread' \in [Threads -> ThreadBinding]
  BY <1>1, <1>2 DEF Succeed, TypeInv, TypeOK, ThreadBinding, MaybeAccount
<1>6. LineageAfter(r, lineage[req[r].root]) \in LineageBinding
  <2>1. lineage[req[r].root] \in LineageBinding
    BY <1>2 DEF TypeInv, TypeOK
  <2>2. QED BY <1>1, <1>2, <2>1 DEF LineageAfter, LineageBinding, MaybeAccount
<1>7. lineage' \in [Threads -> LineageBinding]
  BY <1>2, <1>6 DEF Succeed, TypeInv, TypeOK
<1>8. BoundNamesSlot'
  BY <1>1, <1>2 DEF Succeed, TypeInv, TypeOK, BoundNamesSlot, Live
<1>9. QED BY <1>3, <1>4, <1>5, <1>7, <1>8 DEF Succeed, TypeInv, TypeOK, AccountTypeOK, accountVars

LEMMA ChangeType ==
  ASSUME TypeInv, Change
  PROVE  changes' \in 0..MaxChanges
  BY LineageAssumption DEF Change, TypeInv, TypeOK

LEMMA ModelType ==
  ASSUME TypeInv, NEW r \in Requests
  PROVE  Model(r) \in Models
<1>1. req[r] \in Request
  BY DEF TypeInv, TypeOK
<1>2. req[r].thread \in Threads
  BY <1>1 DEF Request
<1>3. QED BY <1>2, LineageAssumption DEF Model

LEMMA PenalizeType ==
  ASSUME TypeInv, NEW r \in Requests, req[r].phase = "sent", NEW kind \in Failures,
         Penalize(req[r].account, Model(r), kind)
  PROVE  AccountTypeOK'
<1>1. req[r].account \in Accounts /\ Model(r) \in Models /\ AccountTypeOK
  BY ModelType DEF TypeInv, TypeOK, SentNamesSlot
<1>2. CASE kind \in AuthFailures
  <2>1. Quarantine(req[r].account, Model(r), kind = "listed_auth")
    BY <1>2 DEF Penalize
  <2>2. (kind = "listed_auth") \in BOOLEAN
    OBVIOUS
  <2>3. QED BY <1>1, <2>1, <2>2, CredentialQuarantined
<1>3. CASE kind \notin AuthFailures
  <2>1. AppendCooldown(req[r].account, Model(r), FailureClass[kind])
    BY <1>3 DEF Penalize
  <2>2. kind \in {"rate_limited", "transport", "overload", "fault", "http_5xx"}
    BY <1>3, LineageAssumption DEF FailureKind, FailureClass, AuthFailures
  <2>3. FailureClass[kind] \in CooldownClass
    BY <2>2 DEF FailureClass, CooldownClass
  <2>4. QED BY <1>1, <2>1, <2>3, CooldownAppended
<1>4. QED BY <1>2, <1>3

(* The answers that are not a success.                                      *)
LEMMA AnswerType ==
  ASSUME TypeInv, NEW r \in Requests,
         \/ End(r) \/ RetrySame(r) \/ Round(r)
         \/ \E kind \in Failures : FailOver(r, kind) \/ EndFailed(r, kind)
  PROVE  TypeInv'
<1>1. req[r] \in Request /\ req \in [Requests -> Request]
  BY DEF TypeInv, TypeOK
<1>2. CASE End(r)
  <2>1. req' \in [Requests -> Request] /\ SentNamesSlot'
    BY <1>2, IdleIsRequest, RequestChanged DEF End
  <2>2. QED BY <1>2, <2>1
          DEF End, TypeInv, TypeOK, AccountTypeOK, accountVars, bindingVars, BoundNamesSlot
<1>3. CASE RetrySame(r)
  <2> DEFINE q == [req[r] EXCEPT !.phase = "routed", !.account = NoAccount]
  <2>1. q \in Request /\ q.phase = "routed" /\ req' = [req EXCEPT ![r] = q]
    BY <1>1, <1>3 DEF RetrySame, Request, MaybeAccount
  <2> HIDE DEF q
  <2>2. req' \in [Requests -> Request] /\ SentNamesSlot'
    BY <2>1, RequestChanged
  <2>3. QED BY <1>3, <2>2
          DEF RetrySame, TypeInv, TypeOK, AccountTypeOK, accountVars, bindingVars, BoundNamesSlot
<1>4. CASE Round(r)
  <2> DEFINE restored == req[r].capacity \cup {req[r].account}
             q == [req[r] EXCEPT !.phase = "routed", !.account = NoAccount,
                     !.excluded = @ \ restored, !.capacity = {}]
  <2>1. q \in Request /\ q.phase = "routed" /\ req' = [req EXCEPT ![r] = q]
    BY <1>1, <1>4 DEF Round, Request, MaybeAccount
  <2> HIDE DEF q
  <2>2. req' \in [Requests -> Request] /\ SentNamesSlot'
    BY <2>1, RequestChanged
  <2>3. AccountTypeOK'
    <3>1. cooldowns' \subseteq cooldowns
      BY <1>4 DEF Round
    <3>2. QED BY <1>4, <3>1, CooldownsDropped DEF Round, TypeInv, TypeOK
  <2>4. changes' \in 0..MaxChanges
    BY <1>4, ChangeType DEF Round
  <2>5. QED BY <1>4, <2>2, <2>3, <2>4 DEF Round, TypeInv, TypeOK, bindingVars, BoundNamesSlot
<1>5. ASSUME NEW kind \in Failures, FailOver(r, kind)
      PROVE  TypeInv'
  <2> DEFINE q == [req[r] EXCEPT !.phase = "routed", !.account = NoAccount,
                     !.excluded = Exhausted(r),
                     !.capacity = IF kind \in CapacityFailures
                                  THEN @ \cup {req[r].account} ELSE @]
  <2>1. req[r].account \in Accounts /\ req[r].phase = "sent"
    BY <1>5 DEF FailOver, TypeInv, SentNamesSlot
  <2>2. q \in Request /\ q.phase = "routed" /\ req' = [req EXCEPT ![r] = q]
    BY <1>1, <1>5, <2>1 DEF FailOver, Exhausted, Request, MaybeAccount
  <2> HIDE DEF q
  <2>3. req' \in [Requests -> Request] /\ SentNamesSlot'
    BY <2>2, RequestChanged
  <2>4. AccountTypeOK'
    BY <1>5, <2>1, PenalizeType DEF FailOver
  <2>5. changes' \in 0..MaxChanges
    BY <1>5, ChangeType DEF FailOver
  <2>6. QED BY <1>5, <2>3, <2>4, <2>5 DEF FailOver, TypeInv, TypeOK, bindingVars, BoundNamesSlot
<1>6. ASSUME NEW kind \in Failures, EndFailed(r, kind)
      PROVE  TypeInv'
  <2>1. req' \in [Requests -> Request] /\ SentNamesSlot'
    BY <1>6, IdleIsRequest, RequestChanged DEF EndFailed
  <2>2. AccountTypeOK'
    BY <1>6, PenalizeType DEF EndFailed
  <2>3. changes' \in 0..MaxChanges
    BY <1>6, ChangeType DEF EndFailed
  <2>4. QED BY <1>6, <2>1, <2>2, <2>3 DEF EndFailed, TypeInv, TypeOK, bindingVars, BoundNamesSlot
<1>7. QED BY <1>2, <1>3, <1>4, <1>5, <1>6

(* Bindings that are kept or dropped keep their types.                      *)
LEMMA BindingsKept ==
  ASSUME TypeInv, NEW a, ClearSticky(a) \/ UNCHANGED bindingVars
  PROVE  /\ sticky' \in [Threads -> StickySession] /\ thread' \in [Threads -> ThreadBinding]
         /\ lineage' \in [Threads -> LineageBinding] /\ BoundNamesSlot'
<1>1. CASE UNCHANGED bindingVars
  BY <1>1 DEF bindingVars, TypeInv, TypeOK, BoundNamesSlot
<1>2. CASE ClearSticky(a)
  <2>1. /\ sticky' \in [Threads -> StickySession] /\ thread' \in [Threads -> ThreadBinding]
        /\ lineage' \in [Threads -> LineageBinding]
    BY <1>2, BlankBindings DEF ClearSticky, TypeInv, TypeOK
  <2>2. BoundNamesSlot'
    BY <1>2, BlankBindings DEF ClearSticky, TypeInv, BoundNamesSlot
  <2>3. QED BY <2>1, <2>2
<1>3. QED BY <1>1, <1>2

LEMMA AccountChangeType ==
  ASSUME TypeInv, NEW a \in Accounts, AccountChange(a)
  PROVE  TypeInv'
<1>1. AccountTypeOK /\ identity[a] \in Identities \cup {NoIdentity} /\ quota[a] \in QuotaLevel
  BY DEF TypeInv, TypeOK, AccountTypeOK
<1>2. AccountTypeOK'
  <2>1. CASE Joins(a) \/ Leaves(a)
    BY <1>1, <2>1, SlotMoved DEF Joins, Leaves
  <2>2. CASE Repairs(a)
    <3>1. PICK i \in Identities \cup {NoIdentity} : StartRepair(a) \/ FinishRepair(a, i)
      BY <1>1, <2>2 DEF Repairs
    <3>2. QED BY <1>1, <3>1, RepairStepped
  <2>3. CASE Refreshes(a)
    <3>1. CASE ClearCooldowns(a)
      BY <1>1, <3>1, RepairStepped
    <3>2. CASE \E level \in QuotaLevel, models \in SUBSET Models, credit \in BOOLEAN :
                 RefreshQuota(a, level, models, credit)
      BY <1>1, <3>2, QuotaRefreshed
    <3>3. {} \in SUBSET Models /\ \A m \in Models : {m} \in SUBSET Models
      OBVIOUS
    <3>4. (a \in red) \in BOOLEAN /\ (a \notin red) \in BOOLEAN
      OBVIOUS
    <3>5. QED BY <1>1, <2>3, <3>1, <3>2, <3>3, <3>4, Zenon DEF Refreshes
  <2>4. QED BY <2>1, <2>2, <2>3 DEF AccountChange
<1>3. ClearSticky(a) \/ UNCHANGED bindingVars
  BY DEF AccountChange, Joins, Leaves, Repairs, Refreshes
<1>4. changes' \in 0..MaxChanges
  BY ChangeType DEF AccountChange
<1>5. UNCHANGED <<affinity, req>>
  BY DEF AccountChange
<1>6. QED BY <1>2, <1>3, <1>4, <1>5, BindingsKept DEF TypeInv, TypeOK, SentNamesSlot

LEMMA TickType ==
  ASSUME TypeInv, Tick
  PROVE  TypeInv'
<1>1. AccountTypeOK'
  BY ClockTicked DEF Tick, TypeInv, TypeOK
<1>2. /\ \A b \in StickySession : Aged(b) \in StickySession
      /\ \A b \in LineageBinding : Aged(b) \in LineageBinding
      /\ \A b \in ThreadBinding : Aged(b) \in ThreadBinding
                                    /\ (b.left > 1 => Aged(b).account = b.account)
  <2>1. \A n \in 0..Ttl : (n > 1 => n - 1 \in 0..Ttl) /\ 0 \in 0..Ttl
    BY LineageAssumption
  <2>2. ASSUME NEW b \in StickySession
        PROVE  Aged(b) \in StickySession
    BY <2>1 DEF Aged, StickySession, MaybeAccount
  <2>3. LineageBinding = StickySession
    BY DEF StickySession, LineageBinding
  <2>4. ASSUME NEW b \in ThreadBinding
        PROVE  Aged(b) \in ThreadBinding /\ (b.left > 1 => Aged(b).account = b.account)
    BY <2>1 DEF Aged, ThreadBinding, MaybeAccount
  <2>5. QED BY <2>2, <2>3, <2>4
<1>3. sticky' \in [Threads -> StickySession] /\ lineage' \in [Threads -> LineageBinding]
  BY <1>2 DEF Tick, TypeInv, TypeOK
<1>4. thread' \in [Threads -> ThreadBinding]
  BY <1>2, BlankBindings DEF Tick, TypeInv, TypeOK
<1>5. BoundNamesSlot'
  <2>1. SUFFICES ASSUME NEW t \in Threads, Live(thread'[t])
                 PROVE  thread'[t].account \in Accounts
    BY DEF BoundNamesSlot, Live
  <2>2. thread[t] \in ThreadBinding /\ thread[t].left > 1 /\ thread'[t] = Aged(thread[t])
    BY <2>1, BlankBindings DEF Tick, TypeInv, TypeOK
  <2>3. thread[t].left \in Nat
    BY <2>2 DEF ThreadBinding
  <2>4. thread[t].account \in Accounts
    BY <2>2, <2>3 DEF TypeInv, BoundNamesSlot, Live
  <2>5. QED BY <1>2, <2>2, <2>4
<1>6. QED BY <1>1, <1>3, <1>4, <1>5 DEF Tick, TypeInv, TypeOK, SentNamesSlot

LEMMA TypeStep == TypeInv /\ [Next]_vars => TypeInv'
<1> SUFFICES ASSUME TypeInv, [Next]_vars
             PROVE  TypeInv'
  OBVIOUS
<1>1. CASE UNCHANGED vars
  BY <1>1 DEF vars, accountVars, bindingVars, TypeInv, TypeOK, AccountTypeOK, SentNamesSlot,
              BoundNamesSlot
<1>2. ASSUME NEW r \in Requests,
             (\E t \in Threads : Decide(r, t)) \/ Select(r) \/ Refuse(r) \/ Answer(r)
      PROVE  TypeInv'
  BY <1>2, DecideType, SelectType, RefuseType, SucceedType, AnswerType DEF Answer
<1>3. ASSUME NEW a \in Accounts, AccountChange(a)
      PROVE  TypeInv'
  BY <1>3, AccountChangeType
<1>4. CASE SwitchAffinity
  BY <1>4, ChangeType DEF SwitchAffinity, TypeInv, TypeOK, AccountTypeOK, accountVars,
     bindingVars, SentNamesSlot, BoundNamesSlot
<1>5. CASE Tick
  BY <1>5, TickType
<1>6. CASE Restart
  BY <1>6, IdleIsRequest DEF Restart, TypeInv, TypeOK, AccountTypeOK, accountVars, bindingVars,
     SentNamesSlot, BoundNamesSlot
<1>7. QED BY <1>1, <1>2, <1>3, <1>4, <1>5, <1>6 DEF Next

LEMMA TypeInvariant == Spec => []TypeInv
<1>1. QED BY TypeInit, TypeStep, PTL DEF Spec

(* Every step of LineageRouting keeps its types: selection gives a slot,    *)
(* whatever the bindings say, and no binding outgrows its lifetime.         *)
THEOREM TypeCorrect == Spec => []TypeOK
<1>1. TypeInv => TypeOK
  BY DEF TypeInv
<1>2. QED BY <1>1, TypeInvariant, PTL

(* However requests, failures, repairs and quota refreshes interleave, an   *)
(* identity serves a model through at most one slot.                        *)
THEOREM AlwaysOneServes == Spec => []OneServesPerIdentity
<1>1. TypeOK => OneServesPerIdentity
  BY OneServes DEF TypeOK
<1>2. QED BY <1>1, TypeCorrect, PTL

(* An identity with a healthy copy is always represented by a healthy one.  *)
THEOREM AlwaysHealthyRepresents == Spec => []HealthyCopyRepresents
<1>1. TypeOK => HealthyCopyRepresents
  BY HealthyRepresents DEF TypeOK
<1>2. QED BY <1>1, TypeCorrect, PTL

-----------------------------------------------------------------------------
(* Strict lineage binding                                                   *)

(* While the switch stays on, every request in flight was routed strictly.  *)
RoutedStrictly == affinity /\ \A r \in Requests : req[r].phase # "idle" => req[r].strict

OutlivesInv == TypeInv /\ RoutedStrictly /\ LineageOutlivesMembers

LEMMA RoutedStrictlyKept ==
  ASSUME ~ AffinitySwitched, TypeInv, RoutedStrictly, [Next]_vars
  PROVE  RoutedStrictly'
<1>1. req \in [Requests -> Request] /\ affinity
  BY DEF TypeInv, TypeOK, RoutedStrictly
<1>2. affinity' = affinity
  <2>1. CASE UNCHANGED vars
    BY <2>1 DEF vars
  <2>2. ASSUME NEW r \in Requests,
               (\E t \in Threads : Decide(r, t)) \/ Select(r) \/ Refuse(r) \/ Answer(r)
        PROVE  affinity' = affinity
    BY <2>2 DEF Decide, Select, Refuse, Answer, Succeed, End, RetrySame, Round, FailOver,
                EndFailed
  <2>3. ASSUME NEW a \in Accounts, AccountChange(a)
        PROVE  affinity' = affinity
    BY <2>3 DEF AccountChange
  <2>4. CASE Tick \/ Restart
    BY <2>4 DEF Tick, Restart
  <2>5. ~ SwitchAffinity
    BY DEF SwitchAffinity
  <2>6. QED BY <2>1, <2>2, <2>3, <2>4, <2>5 DEF Next
<1>3. ASSUME NEW r \in Requests, req'[r].phase # "idle"
      PROVE  req'[r].strict
  <2>1. CASE req'[r] = req[r]
    BY <1>3, <2>1 DEF RoutedStrictly
  <2>2. CASE \E t \in Threads : Decide(r, t)
    <3>1. PICK t \in Threads : Decide(r, t)
      BY <2>2
    <3>2. req'[r].strict = affinity
      BY <1>1, <3>1 DEF Decide, Idle
    <3>3. QED BY <1>1, <3>2
  <2>3. CASE Select(r) \/ Refuse(r) \/ Answer(r)
    <3>1. req[r].phase # "idle"
      BY <2>3 DEF Select, Refuse, Answer, Succeed, End, RetrySame, Round, FailOver, EndFailed
    <3>2. CASE Select(r)
      <4>1. req'[r].strict = req[r].strict
        BY <1>1, <3>2 DEF Select, Request
      <4>2. QED BY <3>1, <4>1 DEF RoutedStrictly
    <3>3. CASE RetrySame(r)
      <4>1. req'[r].strict = req[r].strict
        BY <1>1, <3>3 DEF RetrySame, Request
      <4>2. QED BY <3>1, <4>1 DEF RoutedStrictly
    <3>4. CASE Round(r)
      <4>1. req'[r].strict = req[r].strict
        BY <1>1, <3>4 DEF Round, Request
      <4>2. QED BY <3>1, <4>1 DEF RoutedStrictly
    <3>5. ASSUME NEW kind \in Failures, FailOver(r, kind)
          PROVE  req'[r].strict
      <4>1. req'[r].strict = req[r].strict
        BY <1>1, <3>5 DEF FailOver, Request
      <4>2. QED BY <3>1, <4>1 DEF RoutedStrictly
    <3>6. CASE Refuse(r) \/ Succeed(r) \/ End(r) \/ \E kind \in Failures : EndFailed(r, kind)
      <4>1. req'[r] = Idle
        BY <1>1, <3>6 DEF Refuse, Succeed, End, EndFailed
      <4>2. QED BY <1>3, <4>1, IdleIsRequest
    <3>7. QED BY <2>3, <3>2, <3>3, <3>4, <3>5, <3>6 DEF Answer
  <2>4. ASSUME NEW s \in Requests, s # r,
               (\E t \in Threads : Decide(s, t)) \/ Select(s) \/ Refuse(s) \/ Answer(s)
        PROVE  req'[r] = req[r]
    BY <1>1, <2>4 DEF Decide, Select, Refuse, Answer, Succeed, End, RetrySame, Round, FailOver,
                      EndFailed
  <2>5. CASE UNCHANGED vars \/ Tick \/ SwitchAffinity \/ (\E a \in Accounts : AccountChange(a))
    <3>1. req' = req
      BY <2>5 DEF vars, Tick, SwitchAffinity, AccountChange
    <3>2. QED BY <2>1, <3>1
  <2>6. CASE Restart
    BY <1>3, <2>6, IdleIsRequest DEF Restart
  <2>7. QED BY <2>1, <2>2, <2>3, <2>4, <2>5, <2>6 DEF Next
<1>4. QED BY <1>1, <1>2, <1>3 DEF RoutedStrictly

(* A success renews the lineage along with the member that had it, and      *)
(* touches no other lineage.                                                *)
LEMMA OutlivesSucceed ==
  ASSUME OutlivesInv, TypeInv', NEW r \in Requests, Succeed(r)
  PROVE  LineageOutlivesMembers'
<1> SUFFICES ASSUME NEW x \in Threads, Live(lineage'[x]), NEW t \in Threads,
                    Live(thread'[t]), thread'[t].root = x
             PROVE  thread'[t].left <= lineage'[x].left
  BY DEF LineageOutlivesMembers, Members, Live
<1>1. req[r].strict /\ req[r].root \in Threads
  BY DEF OutlivesInv, RoutedStrictly, Succeed, TypeInv, TypeOK, Request
<1>2. thread'[t].left \in 0..Ttl
  BY DEF TypeInv, TypeOK, ThreadBinding
<1>3. lineage \in [Threads -> LineageBinding] /\ thread \in [Threads -> ThreadBinding]
  BY DEF OutlivesInv, TypeInv, TypeOK
<1>4. CASE x = req[r].root
  <2>1. lineage'[x] = LineageAfter(r, lineage[x])
    BY <1>1, <1>3, <1>4 DEF Succeed
  <2>2. lineage'[x].left = Ttl
    BY <1>3, <2>1 DEF LineageAfter, LineageBinding
  <2>3. QED BY <1>2, <2>2, LineageAssumption
<1>5. CASE x # req[r].root
  <2>1. lineage'[x] = lineage[x]
    BY <1>1, <1>3, <1>5 DEF Succeed
  <2>2. t # req[r].thread
    BY <1>3, <1>5 DEF Succeed
  <2>3. thread'[t] = thread[t]
    BY <1>3, <2>2 DEF Succeed
  <2>4. QED BY <2>1, <2>3 DEF OutlivesInv, LineageOutlivesMembers, Members
<1>6. QED BY <1>4, <1>5

(* Time takes a tick from both, and a member never longer than its lineage. *)
LEMMA OutlivesTick ==
  ASSUME OutlivesInv, Tick
  PROVE  LineageOutlivesMembers'
<1> SUFFICES ASSUME NEW x \in Threads, Live(lineage'[x]), NEW t \in Threads,
                    Live(thread'[t]), thread'[t].root = x
             PROVE  thread'[t].left <= lineage'[x].left
  BY DEF LineageOutlivesMembers, Members, Live
<1>1. lineage[x] \in LineageBinding /\ thread[t] \in ThreadBinding
  BY DEF OutlivesInv, TypeInv, TypeOK
<1>2. thread[t].left \in Nat /\ lineage[x].left \in Nat
  BY <1>1 DEF LineageBinding, ThreadBinding
<1>3. lineage[x].left > 1 /\ lineage'[x].left = lineage[x].left - 1
  <2>1. lineage'[x] = Aged(lineage[x])
    BY DEF Tick
  <2>2. CASE lineage[x].left > 1
    BY <1>1, <2>1, <2>2 DEF Aged, LineageBinding
  <2>3. CASE ~ lineage[x].left > 1
    <3>1. lineage'[x].left = 0
      BY <1>1, <2>1, <2>3 DEF Aged, LineageBinding
    <3>2. QED BY <3>1 DEF Live
  <2>4. QED BY <2>2, <2>3
<1>4. thread[t].left > 1 /\ thread'[t] = Aged(thread[t])
  BY BlankBindings DEF Tick
<1>5. thread'[t].left = thread[t].left - 1 /\ thread'[t].root = thread[t].root
  BY <1>1, <1>4 DEF Aged, ThreadBinding
<1>6. t \in Members(x) /\ Live(lineage[x])
  BY <1>2, <1>3, <1>4, <1>5 DEF Members, Live
<1>7. thread[t].left <= lineage[x].left
  BY <1>6 DEF OutlivesInv, LineageOutlivesMembers
<1>8. QED BY <1>2, <1>3, <1>5, <1>7

(* Bindings that are dropped or left alone cannot come to disagree.         *)
LEMMA OutlivesKept ==
  ASSUME OutlivesInv, NEW a, ClearSticky(a) \/ UNCHANGED <<thread, lineage>>
  PROVE  LineageOutlivesMembers'
<1> SUFFICES ASSUME NEW x \in Threads, Live(lineage'[x]), NEW t \in Threads,
                    Live(thread'[t]), thread'[t].root = x
             PROVE  thread'[t].left <= lineage'[x].left
  BY DEF LineageOutlivesMembers, Members, Live
<1>1. lineage'[x] = lineage[x] /\ thread'[t] = thread[t]
  BY BlankBindings DEF ClearSticky
<1>2. QED BY <1>1 DEF OutlivesInv, LineageOutlivesMembers, Members

LEMMA OutlivesStep ==
  ASSUME ~ AffinitySwitched, OutlivesInv, [Next]_vars
  PROVE  OutlivesInv'
<1>1. TypeInv' /\ RoutedStrictly'
  BY TypeStep, RoutedStrictlyKept DEF OutlivesInv
<1>2. LineageOutlivesMembers'
  <2>1. ASSUME NEW r \in Requests, Succeed(r)
        PROVE  LineageOutlivesMembers'
    BY <1>1, <2>1, OutlivesSucceed
  <2>2. ASSUME NEW r \in Requests,
               \/ (\E t \in Threads : Decide(r, t)) \/ Select(r) \/ Refuse(r) \/ End(r)
               \/ RetrySame(r) \/ Round(r)
               \/ \E kind \in Failures : FailOver(r, kind) \/ EndFailed(r, kind)
        PROVE  UNCHANGED <<thread, lineage>>
    BY <2>2 DEF Decide, Select, Refuse, End, RetrySame, Round, FailOver, EndFailed, bindingVars
  <2>3. ASSUME NEW a \in Accounts, AccountChange(a)
        PROVE  ClearSticky(a) \/ UNCHANGED <<thread, lineage>>
    BY <2>3 DEF AccountChange, Joins, Leaves, Repairs, Refreshes, bindingVars
  <2>4. CASE UNCHANGED vars \/ SwitchAffinity \/ Restart
    <3>1. UNCHANGED <<thread, lineage>>
      BY <2>4 DEF vars, bindingVars, SwitchAffinity, Restart
    <3>2. QED BY <3>1, OutlivesKept
  <2>5. CASE Tick
    BY <2>5, OutlivesTick
  <2>6. QED BY <2>1, <2>2, <2>3, <2>4, <2>5, OutlivesKept DEF Next, Answer
<1>3. QED BY <1>1, <1>2 DEF OutlivesInv

LEMMA OutlivesInit == InitialAffinity /\ Init => OutlivesInv
<1> SUFFICES ASSUME InitialAffinity, Init
             PROVE  OutlivesInv
  OBVIOUS
<1>1. RoutedStrictly
  BY IdleIsRequest DEF Init, RoutedStrictly
<1>2. LineageOutlivesMembers
  BY BlankBindings DEF Init, LineageOutlivesMembers
<1>3. QED BY <1>1, <1>2, TypeInit DEF OutlivesInv

(* With "Keep subagents together" on throughout, a lineage's record never   *)
(* expires before a member's binding, so it is never seeded again from the  *)
(* members while one of them is alive.                                      *)
THEOREM LineageOutlives ==
  ASSUME InitialAffinity, ~ AffinitySwitched
  PROVE  Spec => []LineageOutlivesMembers
<1>1. Init => OutlivesInv
  BY OutlivesInit
<1>2. OutlivesInv /\ [Next]_vars => OutlivesInv'
  BY OutlivesStep
<1>3. OutlivesInv => LineageOutlivesMembers
  BY DEF OutlivesInv
<1>4. QED BY <1>1, <1>2, <1>3, PTL DEF Spec

-----------------------------------------------------------------------------
(* The accounts a request tries                                             *)

(* No slot is deleted, and none changes its identity.                       *)
SlotsStay == \A a \in Accounts : slot[a] # "gone"

(* The accounts a request failed on, and the one it is on.                  *)
Tried(r) == req[r].excluded \cup (IF req[r].phase = "sent" THEN {req[r].account} ELSE {})

SetApart(S) == \A x, y \in S : x # y => identity[x] # identity[y] \/ identity[x] = NoIdentity

ApartInv == TypeInv /\ RoutedStrictly /\ SlotsStay /\ \A r \in Requests : SetApart(Tried(r))

(* While no slot is deleted, the identities of the failed accounts are all  *)
(* known to be excluded.                                                    *)
LEMMA ExcludedKnown ==
  ASSUME TypeInv, SlotsStay, NEW excluded \in SUBSET Accounts, NEW a \in Accounts,
         identity[a] \notin ExcludedIdentities(excluded), SetApart(excluded)
  PROVE  SetApart(excluded \cup {a})
<1>1. ASSUME NEW x \in excluded
      PROVE  identity[x] # identity[a] \/ identity[a] = NoIdentity
  BY <1>1 DEF SlotsStay, ExcludedIdentities
<1>2. QED BY <1>1 DEF SetApart

(* A bound account stays or gives way to one of its replacements.           *)
LEMMA StayOrMoveWithin ==
  ASSUME NEW a, NEW R
  PROVE  StayOrMove(a, R) \subseteq R \cup {a}
  BY DEF StayOrMove

LEMMA PreferredWithin ==
  ASSUME NEW m, NEW models, NEW excluded
  PROVE  PreferredForLineage(m, models, excluded) \subseteq Eligible(m, excluded)
<1> DEFINE E == Eligible(m, excluded)
           Joint == {a \in E : \A o \in models \ {m} : Usable(a, o, 0)}
           From == IF Joint # {} THEN Joint ELSE E
<1>1. From \subseteq E
  OBVIOUS
<1>2. PreferredForLineage(m, models, excluded) = BestTier(From)
  BY DEF PreferredForLineage
<1> HIDE DEF From
<1>3. QED BY <1>1, <1>2, BestTierSubset

(* A strict request takes no copy of an identity it has failed on, whether  *)
(* it follows its lineage, is placed anew or falls back on an account held  *)
(* by overloads.                                                            *)
LEMMA ChoiceApart ==
  ASSUME TypeInv, NEW r \in Requests, NEW c \in LineageChoices(r)
  PROVE  c \in Accounts /\ identity[c] \notin ExcludedIdentities(req[r].excluded)
<1> DEFINE a == LineageAccount(req[r].root)
           excluded == req[r].excluded
           wanted == PreferredForLineage(Model(r), LineageModels(req[r].root, Model(r)),
                                         excluded)
           fallback == OverloadedFallback(Model(r), excluded)
           Fresh(x) == x \in Accounts /\ identity[x] \notin ExcludedIdentities(excluded)
<1>1. a \in MaybeAccount
  <2>1. req[r].root \in Threads
    BY DEF TypeInv, TypeOK, Request
  <2>2. QED BY <2>1, LineageAccountType
<1>2. ASSUME NEW x \in wanted
      PROVE  Fresh(x)
  BY PreferredWithin DEF Eligible, Selectable
<1>3. ASSUME NEW x \in fallback
      PROVE  Fresh(x)
  BY <1>3 DEF OverloadedFallback, FallbackCandidates
<1>4. CASE a # NoAccount /\ Selectable(a, Model(r), excluded)
  <2>1. c \in StayOrMove(a, wanted)
    BY <1>4 DEF LineageChoices
  <2>2. c \in wanted \cup {a}
    BY <2>1, StayOrMoveWithin
  <2>3. Fresh(a)
    BY <1>1, <1>4 DEF Selectable, MaybeAccount
  <2>4. QED BY <1>2, <2>2, <2>3
<1>5. CASE ~ (a # NoAccount /\ Selectable(a, Model(r), excluded))
  <2>1. c \in wanted \cup fallback
    BY <1>5 DEF LineageChoices
  <2>2. QED BY <1>2, <1>3, <2>1
<1>6. QED BY <1>4, <1>5

(* A step that changes no identity keeps the requests it leaves alone, or   *)
(* whose accounts become fewer, apart.                                      *)
LEMMA ApartKept ==
  ASSUME ApartInv, identity' = identity,
         \A r \in Requests : Tried(r)' \subseteq Tried(r)
  PROVE  \A r \in Requests : SetApart(Tried(r))'
<1>1. ASSUME NEW r \in Requests
      PROVE  SetApart(Tried(r))'
  <2>1. SetApart(Tried(r))
    BY DEF ApartInv
  <2>2. QED BY <2>1 DEF SetApart
<1>2. QED BY <1>1

LEMMA ApartSelect ==
  ASSUME ApartInv, NEW r \in Requests, Select(r)
  PROVE  \A s \in Requests : SetApart(Tried(s))'
<1>1. PICK a \in Choices(r) :
        req' = [req EXCEPT ![r].phase = "sent", ![r].account = a, ![r].seen = SeenNow(r)]
  BY DEF Select
<1>2. req \in [Requests -> Request] /\ req[r] \in Request /\ TypeInv
  BY DEF ApartInv, TypeInv, TypeOK
<1>3. req[r].strict /\ req[r].phase = "routed"
  BY DEF Select, ApartInv, RoutedStrictly
<1>4. a \in Accounts /\ identity[a] \notin ExcludedIdentities(req[r].excluded)
  BY <1>2, <1>3, ChoiceApart DEF Choices
<1>5. Tried(r)' = req[r].excluded \cup {a} /\ Tried(r) = req[r].excluded
  BY <1>1, <1>2, <1>3 DEF Tried, Request
<1>6. req[r].excluded \in SUBSET Accounts
  BY <1>2 DEF Request
<1>7. SetApart(req[r].excluded \cup {a})
  <2>1. SetApart(req[r].excluded)
    BY <1>5 DEF ApartInv
  <2>2. QED BY <1>2, <1>4, <1>6, <2>1, ExcludedKnown DEF ApartInv
<1>8. identity' = identity
  BY DEF Select, accountVars
<1>9. ASSUME NEW s \in Requests, s # r
      PROVE  SetApart(Tried(s))'
  <2>1. Tried(s)' = Tried(s)
    BY <1>1, <1>2, <1>9 DEF Tried
  <2>2. QED BY <1>8, <2>1 DEF ApartInv, SetApart
<1>10. SetApart(Tried(r))'
  BY <1>5, <1>7, <1>8 DEF SetApart
<1>11. QED BY <1>9, <1>10

(* Every other answer leaves the accounts as they were, or fewer.           *)
LEMMA TriedAfter ==
  ASSUME TypeInv, NEW r \in Requests,
         \/ (\E t \in Threads : Decide(r, t)) \/ Refuse(r) \/ Succeed(r) \/ End(r)
         \/ RetrySame(r) \/ Round(r)
         \/ \E kind \in Failures : FailOver(r, kind) \/ EndFailed(r, kind)
  PROVE  identity' = identity /\ \A s \in Requests : Tried(s)' \subseteq Tried(s)
<1>1. req \in [Requests -> Request] /\ req[r] \in Request
  BY DEF TypeInv, TypeOK
<1>2. \A s \in Requests : s # r => req'[s] = req[s]
  BY <1>1 DEF Decide, Refuse, Succeed, End, RetrySame, Round, FailOver, EndFailed
<1>3. \A s \in Requests : s # r => Tried(s)' = Tried(s)
  BY <1>2 DEF Tried
<1>4. identity' = identity
  BY DEF Decide, Refuse, Succeed, End, RetrySame, Round, FailOver, EndFailed, accountVars,
         Penalize, Quarantine, AppendCooldown
<1>5. Tried(r)' \subseteq Tried(r)
  <2>1. CASE \E t \in Threads : Decide(r, t)
    <3>1. PICK t \in Threads : Decide(r, t)
      BY <2>1
    <3>2. req'[r].excluded = {} /\ req'[r].phase = "routed"
      BY <1>1, <3>1 DEF Decide, Idle
    <3>3. QED BY <3>2 DEF Tried
  <2>2. CASE Refuse(r) \/ Succeed(r) \/ End(r) \/ \E kind \in Failures : EndFailed(r, kind)
    <3>1. req'[r] = Idle
      BY <1>1, <2>2 DEF Refuse, Succeed, End, EndFailed
    <3>2. Idle.excluded = {} /\ Idle.phase = "idle"
      BY DEF Idle
    <3>3. QED BY <3>1, <3>2 DEF Tried
  <2>3. CASE RetrySame(r)
    <3>1. req'[r].excluded = req[r].excluded /\ req'[r].phase = "routed"
      BY <1>1, <2>3 DEF RetrySame, Request
    <3>2. QED BY <3>1 DEF Tried
  <2>4. CASE Round(r)
    <3>1. req'[r].excluded \subseteq req[r].excluded /\ req'[r].phase = "routed"
      BY <1>1, <2>4 DEF Round, Request
    <3>2. QED BY <3>1 DEF Tried
  <2>5. ASSUME NEW kind \in Failures, FailOver(r, kind)
        PROVE  Tried(r)' \subseteq Tried(r)
    <3>1. /\ req'[r].excluded = req[r].excluded \cup {req[r].account}
          /\ req'[r].phase = "routed" /\ req[r].phase = "sent"
      BY <1>1, <2>5 DEF FailOver, Exhausted, Request
    <3>2. QED BY <3>1 DEF Tried
  <2>6. QED BY <2>1, <2>2, <2>3, <2>4, <2>5
<1>6. QED BY <1>3, <1>4, <1>5

(* While slots are neither deleted nor repaired to another identity, no     *)
(* account change touches an identity.                                      *)
LEMMA IdentityKept ==
  ASSUME "delete" \notin AccountEvents, "replace" \notin AccountEvents,
         TypeInv, SlotsStay, NEW a \in Accounts, AccountChange(a)
  PROVE  identity' = identity /\ SlotsStay'
<1>1. AccountTypeOK
  BY DEF TypeInv, TypeOK
<1>2. CASE Joins(a) \/ Leaves(a)
  BY <1>1, <1>2 DEF Joins, Leaves, PoolAdd, PoolRemove, AccountTypeOK, SlotsStay
<1>3. CASE Repairs(a)
  BY <1>1, <1>3 DEF Repairs, StartRepair, FinishRepair, AccountTypeOK, SlotsStay
<1>4. CASE Refreshes(a)
  BY <1>4 DEF Refreshes, RefreshQuota, ClearCooldowns, SlotsStay
<1>5. QED BY <1>2, <1>3, <1>4 DEF AccountChange

LEMMA ApartStep ==
  ASSUME ~ AffinitySwitched, "delete" \notin AccountEvents, "replace" \notin AccountEvents,
         ApartInv, [Next]_vars
  PROVE  ApartInv'
<1>1. TypeInv' /\ RoutedStrictly' /\ TypeInv /\ SlotsStay
  BY TypeStep, RoutedStrictlyKept DEF ApartInv
<1>2. ASSUME NEW a \in Accounts, AccountChange(a)
      PROVE  SlotsStay' /\ \A r \in Requests : SetApart(Tried(r))'
  <2>1. identity' = identity /\ SlotsStay'
    BY <1>1, <1>2, IdentityKept
  <2>2. req' = req
    BY <1>2 DEF AccountChange
  <2>3. \A r \in Requests : Tried(r)' = Tried(r)
    BY <2>2 DEF Tried
  <2>4. QED BY <2>1, <2>3, ApartKept
<1>3. ASSUME NEW r \in Requests, Select(r)
      PROVE  SlotsStay' /\ \A s \in Requests : SetApart(Tried(s))'
  <2>1. SlotsStay'
    BY <1>1, <1>3 DEF Select, accountVars, SlotsStay
  <2>2. QED BY <1>3, <2>1, ApartSelect
<1>4. ASSUME NEW r \in Requests,
             (\E t \in Threads : Decide(r, t)) \/ Refuse(r) \/ Succeed(r) \/ End(r)
             \/ RetrySame(r) \/ Round(r)
             \/ \E kind \in Failures : FailOver(r, kind) \/ EndFailed(r, kind)
      PROVE  SlotsStay' /\ \A s \in Requests : SetApart(Tried(s))'
  <2>1. slot' = slot
    BY <1>4 DEF Decide, Refuse, Succeed, End, RetrySame, Round, FailOver, EndFailed,
                accountVars, Penalize, Quarantine, AppendCooldown
  <2>2. SlotsStay'
    BY <1>1, <2>1 DEF SlotsStay
  <2>3. identity' = identity /\ \A s \in Requests : Tried(s)' \subseteq Tried(s)
    BY <1>1, <1>4, TriedAfter
  <2>4. QED BY <2>2, <2>3, ApartKept
<1>5. CASE UNCHANGED vars \/ Tick
  <2>1. identity' = identity /\ slot' = slot /\ req' = req
    BY <1>5 DEF vars, accountVars, Tick, Elapse
  <2>2. \A r \in Requests : Tried(r)' = Tried(r)
    BY <2>1 DEF Tried
  <2>3. SlotsStay'
    BY <1>1, <2>1 DEF SlotsStay
  <2>4. \A r \in Requests : SetApart(Tried(r))'
    BY <2>1, <2>2, ApartKept
  <2>5. QED BY <1>1, <2>3, <2>4 DEF ApartInv
<1>6. CASE Restart
  <2>1. identity' = identity /\ slot' = slot /\ \A r \in Requests : req'[r] = Idle
    BY <1>6 DEF Restart, accountVars
  <2>2. Idle.excluded = {} /\ Idle.phase = "idle"
    BY DEF Idle
  <2>3. \A r \in Requests : Tried(r)' = {}
    BY <2>1, <2>2 DEF Tried
  <2>4. SlotsStay'
    BY <1>1, <2>1 DEF SlotsStay
  <2>5. \A r \in Requests : SetApart(Tried(r))'
    BY <2>1, <2>3, ApartKept
  <2>6. QED BY <1>1, <2>4, <2>5 DEF ApartInv
<1>7. ~ SwitchAffinity
  BY DEF SwitchAffinity
<1>8. SlotsStay' /\ \A r \in Requests : SetApart(Tried(r))'
  BY <1>2, <1>3, <1>4, <1>5, <1>6, <1>7 DEF Next, Answer, ApartInv
<1>9. QED BY <1>1, <1>8 DEF ApartInv

(* With "Keep subagents together" on throughout, a request never tries two  *)
(* copies of one upstream identity, whatever fails and however accounts     *)
(* leave, return, are repaired and change their quota between its attempts, *)
(* in a pool whose slots are neither deleted nor repaired to another        *)
(* identity.                                                                *)
THEOREM DistinctTried ==
  ASSUME InitialAffinity, ~ AffinitySwitched,
         "delete" \notin AccountEvents, "replace" \notin AccountEvents
  PROVE  Spec => []DistinctIdentitiesTried
<1>1. Init => ApartInv
  <2> SUFFICES ASSUME Init
               PROVE  ApartInv
    OBVIOUS
  <2>1. RoutedStrictly
    BY IdleIsRequest DEF Init, RoutedStrictly
  <2>2. SlotsStay
    BY DEF Init, AccountInit, SlotsStay
  <2>3. Idle.excluded = {} /\ Idle.phase = "idle"
    BY DEF Idle
  <2>4. \A r \in Requests : SetApart(Tried(r))
    BY <2>3 DEF Init, Tried, SetApart
  <2>5. QED BY <2>1, <2>2, <2>4, TypeInit DEF ApartInv
<1>2. ApartInv /\ [Next]_vars => ApartInv'
  BY ApartStep
<1>3. ApartInv => DistinctIdentitiesTried
  BY DEF ApartInv, SetApart, Tried, DistinctIdentitiesTried
<1>4. QED BY <1>1, <1>2, <1>3, PTL DEF Spec

-----------------------------------------------------------------------------
(* The pin                                                                  *)

(* The order of members: who succeeded last, then the smaller id.           *)
LEMMA PairLess ==
  ASSUME NEW a \in Int, NEW b \in Int, NEW c \in Int, NEW d \in Int
  PROVE  LexLess(<<a, b>>, <<c, d>>) <=> a < c \/ (a = c /\ b < d)
<1> DEFINE s == <<a, b>>
           t == <<c, d>>
<1>1. DOMAIN s = {1, 2} /\ s[1] = a /\ s[2] = b /\ t[1] = c /\ t[2] = d
  OBVIOUS
<1>2. 1..(1 - 1) = {} /\ 1..(2 - 1) = {1}
  OBVIOUS
<1>3. ASSUME LexLess(s, t)
      PROVE  a < c \/ (a = c /\ b < d)
  <2>1. PICK i \in {1, 2} : s[i] < t[i] /\ \A j \in 1..(i - 1) : s[j] = t[j]
    BY <1>1, <1>3 DEF LexLess
  <2>2. QED BY <1>1, <1>2, <2>1
<1>4. ASSUME a < c \/ (a = c /\ b < d)
      PROVE  LexLess(s, t)
  <2>1. CASE a < c
    BY <1>1, <1>2, <2>1 DEF LexLess
  <2>2. CASE a = c /\ b < d
    BY <1>1, <1>2, <2>2 DEF LexLess
  <2>3. QED BY <1>4, <2>1, <2>2
<1>5. QED BY <1>3, <1>4

(* Some account of a set: what seeds a lineage.                             *)
SomeOf(S) == CHOOSE a \in S : TRUE

(* u is as far forward as v among the members of a lineage.                 *)
Ahead(u, v) ==
  \/ thread[v].left < thread[u].left
  \/ thread[u].left = thread[v].left /\ Ord[thread[u].account] < Ord[thread[v].account]
  \/ thread[u].left = thread[v].left /\ thread[u].account = thread[v].account

FirstMembers(root) == {u \in Members(root) : \A v \in Members(root) : Ahead(u, v)}

LEMMA MemberTypes ==
  ASSUME TypeInv, NEW root, NEW u \in Members(root)
  PROVE  /\ u \in Threads /\ Live(thread[u]) /\ thread[u].root = root
         /\ thread[u].account \in Accounts /\ thread[u].left \in Nat \ {0}
         /\ Ord[thread[u].account] \in Nat
<1>1. u \in Threads /\ Live(thread[u]) /\ thread[u].root = root
  BY DEF Members
<1>2. thread[u] \in ThreadBinding
  BY <1>1 DEF TypeInv, TypeOK
<1>3. thread[u].left \in 0..Ttl /\ thread[u].left > 0
  BY <1>1, <1>2 DEF ThreadBinding, Live
<1>4. thread[u].account \in Accounts
  BY <1>1 DEF TypeInv, BoundNamesSlot
<1>5. QED BY <1>1, <1>3, <1>4, EligibilityAssumption, LineageAssumption

(* The pin, read off the bindings without the keys.                         *)
LEMMA SeedsAreFirst ==
  ASSUME TypeInv, NEW root
  PROVE  SeedAccounts(root) = {thread[u].account : u \in FirstMembers(root)}
<1>1. ASSUME NEW u \in Members(root), NEW v \in Members(root)
      PROVE  Ahead(u, v) <=>
               \/ LexLess(<<-thread[u].left, Ord[thread[u].account]>>,
                          <<-thread[v].left, Ord[thread[v].account]>>)
               \/ (thread[u].left = thread[v].left /\ thread[u].account = thread[v].account)
  <2> DEFINE lu == thread[u].left
             lv == thread[v].left
             ou == Ord[thread[u].account]
             ov == Ord[thread[v].account]
  <2>1. lu \in Nat /\ lv \in Nat /\ ou \in Nat /\ ov \in Nat
    BY MemberTypes
  <2> HIDE DEF lu, lv, ou, ov
  <2>2. -lu \in Int /\ -lv \in Int /\ ou \in Int /\ ov \in Int
    BY <2>1
  <2>3. LexLess(<<-lu, ou>>, <<-lv, ov>>) <=> -lu < -lv \/ (-lu = -lv /\ ou < ov)
    BY <2>2, PairLess
  <2>4. LexLess(<<-lu, ou>>, <<-lv, ov>>) <=> lv < lu \/ (lu = lv /\ ou < ov)
    BY <2>1, <2>3
  <2>5. QED BY <2>4 DEF Ahead, lu, lv, ou, ov
<1>2. QED BY <1>1 DEF SeedAccounts, FirstMembers

(* The same of every lineage, as a state predicate.                         *)
SeedsKnown ==
  \A x \in Threads :
    /\ SeedAccounts(x) = {thread[u].account : u \in FirstMembers(x)}
    /\ Members(x) # {} => SeedAccounts(x) # {}

LEMMA SeedsAreKnown == TypeInv => SeedsKnown
  BY SeedsAreFirst, SomeMemberSeeds DEF SeedsKnown

LEMMA PinValue ==
  ASSUME NEW x
  PROVE  LineageAccount(x) = IF Live(lineage[x]) THEN lineage[x].account
                             ELSE IF Members(x) = {} THEN NoAccount
                             ELSE SomeOf(SeedAccounts(x))
  BY DEF LineageAccount, SomeOf

LEMMA PinValueNext ==
  ASSUME NEW x
  PROVE  LineageAccount(x)' = IF Live(lineage[x])' THEN lineage'[x].account
                              ELSE IF Members(x)' = {} THEN NoAccount
                              ELSE SomeOf(SeedAccounts(x)')
  BY DEF LineageAccount, SomeOf

(* The pin depends on the bindings alone.                                   *)
LEMMA PinStays ==
  ASSUME UNCHANGED <<thread, lineage>>, NEW x
  PROVE  LineageAccount(x)' = LineageAccount(x) /\ Live(lineage[x])' = Live(lineage[x])
<1>1. Members(x)' = Members(x)
  BY DEF Members, Live
<1>2. SeedAccounts(x)' = SeedAccounts(x)
  BY <1>1 DEF SeedAccounts
<1>3. Live(lineage[x])' = Live(lineage[x])
  BY DEF Live
<1>4. QED BY <1>1, <1>2, <1>3, PinValue, PinValueNext

(* What a request in flight has taken, as the pin sees it.                  *)
ClaimOf(r) ==
  IF req[r].phase = "sent" /\ req[r].strict
  THEN <<req[r].root, req[r].seen, req[r].account>> ELSE <<>>

(* A step that leaves the bindings and the claims alone is no step of the   *)
(* pin.                                                                     *)
LEMMA PinsStutter ==
  ASSUME UNCHANGED <<thread, lineage, req>>
  PROVE  UNCHANGED Pins!vars
<1>1. \A x \in Threads : LineageAccount(x)' = LineageAccount(x)
                         /\ Live(lineage[x])' = Live(lineage[x])
  BY PinStays
<1>2. QED BY <1>1 DEF Pins!vars

(* Requests give up what they took, and the bindings stay.                  *)
LEMMA PinsDrop ==
  ASSUME UNCHANGED <<thread, lineage>>, NEW R \in SUBSET Requests,
         \A s \in R : req'[s].phase # "sent",
         \A s \in Requests \ R : req'[s] = req[s]
  PROVE  Pins!Next
<1>1. \A x \in Threads : LineageAccount(x)' = LineageAccount(x)
                         /\ Live(lineage[x])' = Live(lineage[x])
  BY PinStays
<1>2. \A s \in R : ClaimOf(s)' = <<>>
  BY DEF ClaimOf
<1>3. \A s \in Requests \ R : ClaimOf(s)' = ClaimOf(s)
  BY DEF ClaimOf
<1>4. Pins!Drop(R)
  BY <1>1, <1>2, <1>3 DEF Pins!Drop, Pins!NoClaim, ClaimOf
<1>5. QED BY <1>4 DEF Pins!Next

LEMMA PinsTake ==
  ASSUME TypeInv, RoutedStrictly, NEW r \in Requests, Select(r)
  PROVE  Pins!Next
<1>1. PICK a \in Choices(r) :
        req' = [req EXCEPT ![r].phase = "sent", ![r].account = a, ![r].seen = SeenNow(r)]
  BY DEF Select
<1>2. req \in [Requests -> Request] /\ req[r] \in Request
  BY DEF TypeInv, TypeOK
<1>3. req[r].phase = "routed" /\ req[r].strict /\ UNCHANGED <<thread, lineage>>
  BY DEF Select, RoutedStrictly
<1>4. a \in Accounts /\ req[r].root \in Threads
  BY <1>2, ChoicesAreSlots DEF Request
<1>5. ClaimOf(r) = <<>> /\ ClaimOf(r)' = <<req[r].root, LineageAccount(req[r].root), a>>
  BY <1>1, <1>2, <1>3 DEF ClaimOf, SeenNow, Request
<1>6. \A s \in Requests \ {r} : ClaimOf(s)' = ClaimOf(s)
  BY <1>1, <1>2 DEF ClaimOf
<1>7. \A x \in Threads : LineageAccount(x)' = LineageAccount(x)
                         /\ Live(lineage[x])' = Live(lineage[x])
  BY <1>3, PinStays
<1>8. Pins!Take(r)
  <2> DEFINE pin == [x \in Threads |-> LineageAccount(x)]
             firm == [x \in Threads |-> Live(lineage[x])]
             claim == [s \in Requests |-> ClaimOf(s)]
             root == req[r].root
  <2>1. claim[r] = <<>> /\ pin' = pin /\ firm' = firm
    BY <1>5, <1>7
  <2>2. claim' = [claim EXCEPT ![r] = <<root, pin[root], a>>]
    BY <1>4, <1>5, <1>6
  <2>3. root \in Threads
    BY <1>4
  <2> HIDE DEF pin, firm, claim, root
  <2>4. /\ claim[r] = <<>>
        /\ \E x \in Threads, b \in Accounts : claim' = [claim EXCEPT ![r] = <<x, pin[x], b>>]
        /\ pin' = pin /\ firm' = firm
    BY <1>4, <2>1, <2>2, <2>3
  <2>5. QED BY <2>4 DEF Pins!Take, Pins!NoClaim, pin, firm, claim, ClaimOf
<1>9. QED BY <1>8 DEF Pins!Next

(* A success lands: record_lineage_success replaces the record only when it *)
(* is gone, names the account already, or is the one the request observed.  *)
LEMMA PinsLand ==
  ASSUME OutlivesInv, NEW r \in Requests, Succeed(r)
  PROVE  Pins!Next
<1>0. PICK x \in Threads, a \in Accounts, seen \in MaybeAccount :
        x = req[r].root /\ a = req[r].account /\ seen = req[r].seen
  BY DEF OutlivesInv, TypeInv, TypeOK, SentNamesSlot, Request, Succeed
<1>1. /\ req \in [Requests -> Request] /\ lineage \in [Threads -> LineageBinding]
      /\ req[r].phase = "sent" /\ req[r].strict
  BY DEF OutlivesInv, RoutedStrictly, TypeInv, TypeOK, Succeed
<1>2. ClaimOf(r) = <<x, seen, a>>
  BY <1>0, <1>1 DEF ClaimOf
<1>3. ClaimOf(r)' = <<>> /\ \A s \in Requests \ {r} : ClaimOf(s)' = ClaimOf(s)
  BY <1>1, IdleIsRequest DEF Succeed, ClaimOf
<1>4. lineage'[x] = LineageAfter(r, lineage[x])
      /\ \A y \in Threads \ {x} : lineage'[y] = lineage[y]
  BY <1>0, <1>1 DEF Succeed
<1>5. lineage[x] \in LineageBinding
  BY <1>1
<1>6. Live(lineage'[x]) /\ LineageAfter(r, lineage[x]).left = Ttl
  BY <1>4, <1>5, LineageAssumption DEF LineageAfter, LineageBinding, Live
<1>7. LineageAccount(x)' = LineageAfter(r, lineage[x]).account
  BY <1>4, <1>6, PinValueNext DEF Live
<1>8. Live(lineage[x]) => LineageAccount(x) = lineage[x].account
  BY DEF LineageAccount
<1>9. LineageAccount(x)' = IF Live(lineage[x]) /\ LineageAccount(x) # seen
                           THEN LineageAccount(x) ELSE a
  <2>1. CASE Live(lineage[x]) /\ lineage[x].account # a /\ lineage[x].account # seen
    BY <1>0, <1>5, <1>7, <1>8, <2>1 DEF LineageAfter, LineageBinding
  <2>2. CASE ~ (Live(lineage[x]) /\ lineage[x].account # a /\ lineage[x].account # seen)
    BY <1>0, <1>7, <1>8, <2>2 DEF LineageAfter
  <2>3. QED BY <2>1, <2>2
<1>10. \A y \in Threads \ {x} :
         /\ Live(lineage[y])' = Live(lineage[y])
         /\ Live(lineage[y]) => LineageAccount(y)' = LineageAccount(y)
  BY <1>4, PinValue, PinValueNext DEF Live
<1>11. Live(lineage[x])'
  BY <1>6 DEF Live
<1>12. Pins!Land(r)
  <2> DEFINE pin == [y \in Threads |-> LineageAccount(y)]
             firm == [y \in Threads |-> Live(lineage[y])]
             claim == [s \in Requests |-> ClaimOf(s)]
  <2>1. claim[r] = <<x, seen, a>> /\ claim[r] # <<>>
    BY <1>2
  <2>2. claim' = [claim EXCEPT ![r] = <<>>]
    BY <1>3
  <2>3. firm' = [firm EXCEPT ![x] = TRUE]
    BY <1>1, <1>10, <1>11
  <2>4. pin'[x] = IF firm[x] /\ pin[x] # seen THEN pin[x] ELSE a
    BY <1>1, <1>9
  <2>5. \A y \in Threads \ {x} : firm[y] => pin'[y] = pin[y]
    BY <1>10
  <2> HIDE DEF pin, firm, claim
  <2>6. /\ claim[r] # <<>>
        /\ pin'[claim[r][1]] = IF firm[claim[r][1]] /\ pin[claim[r][1]] # claim[r][2]
                               THEN pin[claim[r][1]] ELSE claim[r][3]
        /\ firm' = [firm EXCEPT ![claim[r][1]] = TRUE]
        /\ \A y \in Threads \ {claim[r][1]} : firm[y] => pin'[y] = pin[y]
        /\ claim' = [claim EXCEPT ![r] = <<>>]
    BY <2>1, <2>2, <2>3, <2>4, <2>5
  <2>7. QED BY <2>6 DEF Pins!Land, Pins!NoClaim, pin, firm, claim, ClaimOf
<1>13. QED BY <1>12 DEF Pins!Next

(* An account that leaves, or becomes another, takes its pins with it; a    *)
(* lineage without a record follows the members that are left.              *)
LEMMA PinsRelease ==
  ASSUME TypeInv, TypeInv', NEW a \in Accounts, ClearSticky(a), UNCHANGED req
  PROVE  Pins!Next
<1>1. ASSUME NEW x \in Threads
      PROVE  /\ LineageAccount(x)' # a
             /\ Live(lineage[x])' <=> Live(lineage[x]) /\ LineageAccount(x) # a
             /\ Live(lineage[x])' => LineageAccount(x)' = LineageAccount(x)
  <2>1. lineage'[x] = IF lineage[x].account = a THEN NoSession ELSE lineage[x]
    BY DEF ClearSticky
  <2>2. CASE Live(lineage[x]) /\ lineage[x].account # a
    <3>1. lineage'[x] = lineage[x]
      BY <2>1, <2>2
    <3>2. QED BY <2>2, <3>1, PinValue, PinValueNext DEF Live
  <2>3. CASE ~ (Live(lineage[x]) /\ lineage[x].account # a)
    <3>1. ~ Live(lineage[x])' /\ ~ (Live(lineage[x]) /\ LineageAccount(x) # a)
      BY <2>1, <2>3, BlankBindings, PinValue DEF Live
    <3>2. CASE Members(x)' = {}
      <4>1. LineageAccount(x)' = NoAccount
        BY <3>1, <3>2, PinValueNext
      <4>2. QED BY <3>1, <4>1, EligibilityAssumption
    <3>3. CASE Members(x)' # {}
      <4>1. (TypeInv => SeedsKnown)'
        BY SeedsAreKnown, PTL
      <4>2. SeedAccounts(x)' # {}
        BY <3>3, <4>1 DEF SeedsKnown
      <4>3. ASSUME NEW t \in Members(x)'
            PROVE  thread'[t].account # a
        <5>1. t \in Threads /\ Live(thread'[t])
          BY DEF Members, Live
        <5>2. QED BY <5>1, BlankBindings DEF ClearSticky
      <4>4. \A b \in SeedAccounts(x)' : b # a
        BY <4>3 DEF SeedAccounts
      <4>5. LineageAccount(x)' = SomeOf(SeedAccounts(x)')
        BY <3>1, <3>3, PinValueNext
      <4>6. SomeOf(SeedAccounts(x)') \in SeedAccounts(x)'
        BY <4>2 DEF SomeOf
      <4>7. QED BY <3>1, <4>4, <4>5, <4>6
    <3>4. QED BY <3>2, <3>3
  <2>4. QED BY <2>2, <2>3
<1>2. \A s \in Requests : ClaimOf(s)' = ClaimOf(s)
  BY DEF ClaimOf
<1>3. Pins!Release(a)
  <2>1. \A x \in Threads : Live(lineage[x])' = (Live(lineage[x]) /\ LineageAccount(x) # a)
    BY <1>1 DEF Live
  <2>2. \A x \in Threads :
          /\ [y \in Threads |-> LineageAccount(y)]'[x] # a
          /\ [y \in Threads |-> Live(lineage[y])]'[x]
               = ([y \in Threads |-> Live(lineage[y])][x]
                  /\ [y \in Threads |-> LineageAccount(y)][x] # a)
          /\ [y \in Threads |-> Live(lineage[y])]'[x] =>
               [y \in Threads |-> LineageAccount(y)]'[x] = [y \in Threads |-> LineageAccount(y)][x]
    BY <1>1, <2>1
  <2>3. UNCHANGED [r \in Requests |-> IF req[r].phase = "sent" /\ req[r].strict
                                     THEN <<req[r].root, req[r].seen, req[r].account>>
                                     ELSE <<>>]
    BY <1>2 DEF ClaimOf
  <2>4. QED BY <2>2, <2>3 DEF Pins!Release
<1>4. QED BY <1>3 DEF Pins!Next

(* Members age together: those still alive after a tick are the ones with   *)
(* more than a tick left, and none overtakes another.                       *)
LEMMA MembersAge ==
  ASSUME TypeInv, Tick, NEW x
  PROVE  /\ Members(x)' = {t \in Members(x) : thread[t].left > 1}
         /\ \A t \in Members(x)' : /\ thread'[t].left = thread[t].left - 1
                                   /\ thread'[t].account = thread[t].account
<1>1. ASSUME NEW t \in Threads, thread[t].left > 1
      PROVE  /\ thread'[t].left = thread[t].left - 1
             /\ thread'[t].account = thread[t].account /\ thread'[t].root = thread[t].root
             /\ Live(thread[t]) /\ Live(thread'[t])
  <2>1. thread[t] \in ThreadBinding /\ thread'[t] = Aged(thread[t])
    BY <1>1 DEF Tick, TypeInv, TypeOK
  <2>2. thread[t].left \in Nat
    BY <2>1 DEF ThreadBinding
  <2>3. thread'[t] = [thread[t] EXCEPT !.left = @ - 1]
    BY <1>1, <2>1 DEF Aged
  <2>4. /\ thread'[t].left = thread[t].left - 1
        /\ thread'[t].account = thread[t].account /\ thread'[t].root = thread[t].root
    BY <2>1, <2>3 DEF ThreadBinding
  <2>5. QED BY <1>1, <2>2, <2>4 DEF Live
<1>2. ASSUME NEW t \in Threads, ~ thread[t].left > 1
      PROVE  ~ Live(thread'[t])
  BY <1>2, BlankBindings DEF Tick
<1>3. Members(x)' = {t \in Threads : Live(thread'[t]) /\ thread'[t].root = x}
  BY DEF Members, Live
<1>4. QED BY <1>1, <1>2, <1>3 DEF Members

(* A lineage that follows its members keeps to the same one while any of    *)
(* them is alive.                                                           *)
LEMMA SeedsAge ==
  ASSUME TypeInv, TypeInv', Tick, NEW x \in Threads, Members(x)' # {}
  PROVE  SeedAccounts(x)' = SeedAccounts(x)
<1>1. /\ Members(x)' = {t \in Members(x) : thread[t].left > 1}
      /\ \A t \in Members(x)' : /\ thread'[t].left = thread[t].left - 1
                                /\ thread'[t].account = thread[t].account
  BY MembersAge
<1>2. \A t \in Members(x) : thread[t].left \in Nat
  BY MemberTypes
<1>3. ASSUME NEW u \in Members(x)', NEW v \in Members(x)'
      PROVE  Ahead(u, v)' <=> Ahead(u, v)
  BY <1>1, <1>2 DEF Ahead
<1>4. ASSUME NEW u \in Members(x)', NEW v \in Members(x), v \notin Members(x)'
      PROVE  Ahead(u, v)
  BY <1>1, <1>2, <1>4 DEF Ahead
<1>5. ASSUME NEW u \in FirstMembers(x)
      PROVE  u \in Members(x)'
  <2>1. PICK w \in Members(x)' : TRUE
    OBVIOUS
  <2>2. Ahead(u, w) /\ u \in Members(x) /\ w \in Members(x)
    BY <1>1, <2>1 DEF FirstMembers
  <2>3. thread[u].left >= thread[w].left
    BY <1>2, <2>2 DEF Ahead
  <2>4. QED BY <1>1, <1>2, <2>1, <2>2, <2>3
<1>6. FirstMembers(x)' = {u \in Members(x)' : \A v \in Members(x)' : Ahead(u, v)'}
  BY DEF FirstMembers
<1>7. FirstMembers(x)' = FirstMembers(x)
  BY <1>1, <1>3, <1>4, <1>5, <1>6 DEF FirstMembers
<1>8. SeedAccounts(x) = {thread[u].account : u \in FirstMembers(x)}
  BY SeedsAreFirst
<1>9. SeedAccounts(x)' = {thread'[u].account : u \in FirstMembers(x)'}
  <2>1. (TypeInv => SeedsKnown)'
    BY SeedsAreKnown, PTL
  <2>2. QED BY <2>1 DEF SeedsKnown
<1>10. \A u \in FirstMembers(x) : thread'[u].account = thread[u].account
  BY <1>1, <1>5
<1>11. QED BY <1>7, <1>8, <1>9, <1>10

(* Time lapses pins and moves none.                                         *)
LEMMA PinsLapse ==
  ASSUME OutlivesInv, TypeInv', Tick
  PROVE  Pins!Next
<1>1. ASSUME NEW x \in Threads
      PROVE  /\ LineageAccount(x)' \in {LineageAccount(x), NoAccount}
             /\ Live(lineage[x])' => Live(lineage[x]) /\ LineageAccount(x)' = LineageAccount(x)
             /\ Live(lineage[x]) /\ ~ Live(lineage[x])' => LineageAccount(x)' = NoAccount
  <2>1. lineage[x] \in LineageBinding /\ lineage'[x] = Aged(lineage[x])
    BY DEF OutlivesInv, TypeInv, TypeOK, Tick
  <2>2. lineage[x].left \in Nat
    BY <2>1 DEF LineageBinding
  <2>3. CASE lineage[x].left > 1
    <3>1. lineage'[x].left = lineage[x].left - 1 /\ lineage'[x].account = lineage[x].account
      BY <2>1, <2>3 DEF Aged, LineageBinding
    <3>2. Live(lineage[x]) /\ Live(lineage[x])'
      BY <2>2, <2>3, <3>1 DEF Live
    <3>3. QED BY <3>1, <3>2, PinValue, PinValueNext
  <2>4. CASE ~ lineage[x].left > 1
    <3>1. lineage'[x].left = 0
      BY <2>1, <2>4 DEF Aged, LineageBinding
    <3>2. ~ Live(lineage[x])'
      BY <3>1 DEF Live
    <3>3. CASE Members(x)' = {}
      <4>1. LineageAccount(x)' = NoAccount
        BY <3>2, <3>3, PinValueNext
      <4>2. QED BY <3>2, <4>1
    <3>4. CASE Members(x)' # {}
      <4>1. PICK t \in Members(x) : thread[t].left > 1
        BY <3>4, MembersAge DEF OutlivesInv
      <4>2. ~ Live(lineage[x])
        <5>1. thread[t].left \in Nat
          BY <4>1, MemberTypes DEF OutlivesInv
        <5>2. Live(lineage[x]) => thread[t].left <= lineage[x].left
          BY <4>1 DEF OutlivesInv, LineageOutlivesMembers
        <5>3. QED BY <2>2, <2>4, <4>1, <5>1, <5>2
      <4>3. SeedAccounts(x)' = SeedAccounts(x)
        BY <3>4, SeedsAge DEF OutlivesInv
      <4>4. LineageAccount(x) = SomeOf(SeedAccounts(x))
        BY <4>1, <4>2, PinValue
      <4>5. LineageAccount(x)' = SomeOf(SeedAccounts(x)')
        BY <3>2, <3>4, PinValueNext
      <4>6. QED BY <3>2, <4>2, <4>3, <4>4, <4>5
    <3>5. QED BY <3>3, <3>4
  <2>5. QED BY <2>3, <2>4
<1>2. \A s \in Requests : ClaimOf(s)' = ClaimOf(s)
  BY DEF Tick, ClaimOf
<1>3. Pins!Lapse
  BY <1>1, <1>2 DEF Pins!Lapse, ClaimOf
<1>4. QED BY <1>3 DEF Pins!Next

LEMMA PinsStep ==
  ASSUME ~ AffinitySwitched, OutlivesInv, [Next]_vars
  PROVE  [Pins!Next]_(Pins!vars)
<1>1. TypeInv /\ TypeInv' /\ RoutedStrictly /\ req \in [Requests -> Request]
  BY TypeStep DEF OutlivesInv, TypeInv, TypeOK
<1>2. ASSUME NEW r \in Requests, Select(r)
      PROVE  Pins!Next
  BY <1>1, <1>2, PinsTake
<1>3. ASSUME NEW r \in Requests, Succeed(r)
      PROVE  Pins!Next
  BY <1>3, PinsLand
<1>4. ASSUME NEW r \in Requests,
             (\E t \in Threads : Decide(r, t)) \/ Refuse(r) \/ End(r)
             \/ RetrySame(r) \/ Round(r)
             \/ \E kind \in Failures : FailOver(r, kind) \/ EndFailed(r, kind)
      PROVE  Pins!Next
  <2>1. UNCHANGED <<thread, lineage>>
    BY <1>4 DEF Decide, Refuse, End, RetrySame, Round, FailOver, EndFailed, bindingVars
  <2>2. req'[r].phase # "sent" /\ \A s \in Requests \ {r} : req'[s] = req[s]
    <3>1. CASE \E t \in Threads : Decide(r, t)
      BY <1>1, <3>1 DEF Decide, Idle
    <3>2. CASE Refuse(r) \/ End(r) \/ \E kind \in Failures : EndFailed(r, kind)
      BY <1>1, <3>2, IdleIsRequest DEF Refuse, End, EndFailed
    <3>3. CASE RetrySame(r) \/ Round(r) \/ \E kind \in Failures : FailOver(r, kind)
      BY <1>1, <3>3 DEF RetrySame, Round, FailOver, Request
    <3>4. QED BY <1>4, <3>1, <3>2, <3>3
  <2>3. {r} \in SUBSET Requests
    OBVIOUS
  <2>4. QED BY <2>1, <2>2, <2>3, PinsDrop
<1>5. ASSUME NEW a \in Accounts, AccountChange(a)
      PROVE  [Pins!Next]_(Pins!vars)
  <2>1. ClearSticky(a) \/ UNCHANGED <<thread, lineage>>
    BY <1>5 DEF AccountChange, Joins, Leaves, Repairs, Refreshes, bindingVars
  <2>2. UNCHANGED req
    BY <1>5 DEF AccountChange
  <2>3. QED BY <1>1, <2>1, <2>2, PinsRelease, PinsStutter
<1>6. CASE UNCHANGED vars
  <2>1. UNCHANGED <<thread, lineage, req>>
    BY <1>6 DEF vars, bindingVars
  <2>2. QED BY <2>1, PinsStutter
<1>7. CASE Tick
  BY <1>1, <1>7, PinsLapse
<1>8. CASE Restart
  <2>1. UNCHANGED <<thread, lineage>> /\ \A s \in Requests : req'[s].phase # "sent"
    BY <1>8, IdleIsRequest DEF Restart, bindingVars
  <2>2. Requests \in SUBSET Requests
    OBVIOUS
  <2>3. QED BY <2>1, <2>2, PinsDrop
<1>9. ~ SwitchAffinity
  BY DEF SwitchAffinity
<1>10. QED BY <1>2, <1>3, <1>4, <1>5, <1>6, <1>7, <1>8, <1>9 DEF Next, Answer

(* With "Keep subagents together" on throughout, the lineage's account, as  *)
(* the bindings of any tree of threads leave it, implements LineagePin: a   *)
(* recorded pin moves only through a request that observed it, an account   *)
(* that leaves takes its pins with it, and time lapses pins without moving  *)
(* them.                                                                    *)
THEOREM PinImplemented ==
  ASSUME InitialAffinity, ~ AffinitySwitched
  PROVE  Spec => ImplementsLineagePin
<1>1. Init => OutlivesInv
  BY OutlivesInit
<1>2. Init => Pins!Init
  <2> SUFFICES ASSUME Init
               PROVE  Pins!Init
    OBVIOUS
  <2>1. \A x \in Threads : Members(x) = {} /\ ~ Live(lineage[x])
    BY BlankBindings DEF Init, Members
  <2>2. \A x \in Threads : LineageAccount(x) = NoAccount
    BY <2>1 DEF LineageAccount
  <2>3. \A r \in Requests : req[r].phase # "sent"
    BY IdleIsRequest DEF Init
  <2>4. \A x \in Threads : Live(lineage[x]) = FALSE
    BY <2>1 DEF Live
  <2>5. /\ [x \in Threads |-> LineageAccount(x)] = [x \in Threads |-> NoAccount]
        /\ [x \in Threads |-> Live(lineage[x])] = [x \in Threads |-> FALSE]
    BY <2>2, <2>4
  <2>6. [r \in Requests |-> ClaimOf(r)] = [r \in Requests |-> <<>>]
    BY <2>3 DEF ClaimOf
  <2>7. QED BY <2>5, <2>6 DEF Pins!Init, Pins!NoClaim, ClaimOf
<1>3. OutlivesInv /\ [Next]_vars => OutlivesInv'
  BY OutlivesStep
<1>4. OutlivesInv /\ [Next]_vars => [Pins!Next]_(Pins!vars)
  BY PinsStep
<1>5. QED BY <1>1, <1>2, <1>3, <1>4, PTL DEF Spec, ImplementsLineagePin, Pins!Spec
=============================================================================

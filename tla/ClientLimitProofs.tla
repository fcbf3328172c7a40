------------------------- MODULE ClientLimitProofs -------------------------
(***************************************************************************)
(* A key's counter is the number of its permits, the minute never holds    *)
(* more than the limit and the wait a client is told is enough: for every  *)
(* limit, every number of requests and every delay of their clock reading. *)
(***************************************************************************)
EXTENDS ClientLimitProperties, FiniteSetTheorems, SequenceTheorems, NaturalsInduction,
        WellFoundedInduction, TLAPS

IInv == TypeOK /\ InFlightIsPermits

-----------------------------------------------------------------------------
(* The minute                                                               *)

(* A nonempty set of numbers has a least one.                               *)
LEMMA LeastNumber ==
  ASSUME NEW S \in SUBSET Nat, S # {}
  PROVE  \E x \in S : \A y \in S : x <= y
<1>1. IsWellFoundedOn(OpToRel(<, Nat), Nat)
  BY NatLessThanWellFounded
<1>2. PICK x \in S : \A y \in S : <<y, x>> \notin OpToRel(<, Nat)
  BY <1>1, WFMin
<1>3. ASSUME NEW y \in S
      PROVE  x <= y
  <2>1. ~ y < x
    BY <1>2 DEF OpToRel
  <2>2. QED BY <2>1
<1>4. QED BY <1>3

(* Pruning keeps the entries from the first that has not expired.           *)
LEMMA UnexpiredIsSuffix ==
  ASSUME NEW s \in Seq(Int), NEW reading \in Int
  PROVE  \E first \in 1..(Len(s) + 1) :
           /\ Unexpired(s, reading) = SubSeq(s, first, Len(s))
           /\ \A i \in 1..(first - 1) : Since(s[i], reading) >= Window
           /\ first <= Len(s) => Since(s[first], reading) < Window
<1> DEFINE kept == {i \in DOMAIN s : Since(s[i], reading) < Window}
<1>1. DOMAIN s = 1..Len(s) /\ Len(s) \in Nat
  BY LenProperties
<1>2. ASSUME NEW i \in 1..Len(s), i \notin kept
      PROVE  Since(s[i], reading) >= Window
  <2>1. s[i] \in Int
    BY ElementOfSeq
  <2>2. Since(s[i], reading) \in Int
    BY <2>1 DEF Since
  <2>3. QED BY <1>1, <1>2, <2>2, ClientLimitAssumption
<1>3. CASE kept = {}
  <2>1. Unexpired(s, reading) = SubSeq(s, Len(s) + 1, Len(s))
    BY <1>1, <1>3, SubSeqEmpty DEF Unexpired
  <2>2. \A i \in 1..Len(s) : Since(s[i], reading) >= Window
    BY <1>2, <1>3
  <2> WITNESS Len(s) + 1 \in 1..(Len(s) + 1)
  <2>3. QED BY <1>1, <2>1, <2>2
<1>4. CASE kept # {}
  <2> DEFINE first == Min(kept)
  <2>1. kept \in SUBSET Nat
    BY <1>1
  <2>2. first \in kept /\ \A y \in kept : first <= y
    <3> HIDE DEF kept
    <3>1. \E x \in kept : \A y \in kept : x <= y
      BY <1>4, <2>1, LeastNumber
    <3>2. QED BY <3>1 DEF Min
  <2>3. first \in 1..Len(s) /\ Since(s[first], reading) < Window
    BY <1>1, <2>2
  <2>4. Unexpired(s, reading) = SubSeq(s, first, Len(s))
    BY <1>4 DEF Unexpired
  <2>5. ASSUME NEW i \in 1..(first - 1)
        PROVE  Since(s[i], reading) >= Window
    <3>1. i \in 1..Len(s) /\ ~ first <= i
      BY <1>1, <2>3
    <3>2. QED BY <1>2, <2>2, <3>1
  <2> HIDE DEF first
  <2>6. first \in 1..(Len(s) + 1)
    BY <1>1, <2>3
  <2>7. QED BY <2>3, <2>4, <2>5, <2>6
<1>5. QED BY <1>3, <1>4

(* What is kept, entry by entry.                                            *)
LEMMA SuffixEntries ==
  ASSUME NEW T, NEW s \in Seq(T), NEW first \in 1..(Len(s) + 1)
  PROVE  LET u == SubSeq(s, first, Len(s))
         IN  /\ u \in Seq(T) /\ Len(u) \in Nat /\ Len(u) = Len(s) - first + 1
             /\ \A i \in 1..Len(u) : u[i] = s[first + i - 1]
<1>1. Len(s) \in Nat
  BY LenProperties
<1>2. \A i \in first..Len(s) : s[i] \in T
  BY <1>1, ElementOfSeq
<1> DEFINE u == SubSeq(s, first, Len(s))
<1>3. /\ u \in Seq(T)
      /\ Len(u) = IF first <= Len(s) THEN Len(s) - first + 1 ELSE 0
      /\ \A i \in 1..(Len(s) - first + 1) : u[i] = s[first + i - 1]
  BY <1>1, <1>2, SubSeqProperties
<1> HIDE DEF u
<1>4. Len(u) = Len(s) - first + 1 /\ Len(u) \in Nat
  BY <1>1, <1>3
<1>5. QED BY <1>3, <1>4 DEF u

(* Pruning drops a prefix of the entries, and the first if it has expired.  *)
LEMMA Pruned ==
  ASSUME NEW s \in Seq(Int), NEW reading \in Int
  PROVE  /\ \A T : s \in Seq(T) => Unexpired(s, reading) \in Seq(T)
         /\ Len(Unexpired(s, reading)) \in Nat
         /\ Len(Unexpired(s, reading)) <= Len(s)
         /\ s # <<>> /\ Since(s[1], reading) >= Window =>
              Len(Unexpired(s, reading)) < Len(s)
<1> DEFINE u == Unexpired(s, reading)
<1>1. PICK first \in 1..(Len(s) + 1) :
        /\ u = SubSeq(s, first, Len(s))
        /\ first <= Len(s) => Since(s[first], reading) < Window
  BY UnexpiredIsSuffix
<1>2. \A T : s \in Seq(T) => u \in Seq(T)
  BY <1>1, SuffixEntries
<1>3. Len(u) \in Nat /\ Len(u) = Len(s) - first + 1 /\ Len(s) \in Nat
  BY <1>1, SuffixEntries, LenProperties
<1>4. ASSUME s # <<>>, Since(s[1], reading) >= Window
      PROVE  first # 1
  <2>1. Len(s) >= 1
    BY <1>4, EmptySeq
  <2>2. s[1] \in Int
    BY <1>3, <2>1, ElementOfSeq
  <2>3. Since(s[1], reading) \in Int
    BY <2>2 DEF Since
  <2>4. QED BY <1>1, <1>4, <2>1, <2>3, ClientLimitAssumption
<1> HIDE DEF u
<1>5. QED BY <1>2, <1>3, <1>4 DEF u

(* The table's entries after any operation on it.                           *)
LEMMA PrunedEntries ==
  ASSUME TypeOK, NEW k \in Keys, NEW reading \in 0..MaxDelay
  PROVE  /\ Unexpired(started[k], reading) \in Seq(Age)
         /\ Len(Unexpired(started[k], reading)) \in Nat
         /\ Len(Unexpired(started[k], reading)) <= MaxPerMinute
<1>1. started[k] \in Seq(Age) /\ Len(started[k]) <= MaxPerMinute
  BY DEF TypeOK
<1>2. started[k] \in Seq(Int) /\ Len(started[k]) \in Nat
  <2>1. Age \subseteq Int
    BY DEF Age
  <2>2. QED BY <1>1, <2>1, SeqMonotonic, LenProperties
<1>3. QED BY <1>1, <1>2, Pruned, ClientLimitAssumption

LEMMA TableKept ==
  ASSUME TypeOK, NEW k \in Keys, NEW reading \in 0..MaxDelay,
         \/ Prune(k, reading)
         \/ Enter(k, reading) /\ Room(started[k], reading)
  PROVE  started' \in [Keys -> Seq(Age)] /\ \A j \in Keys : Len(started'[j]) <= MaxPerMinute
<1> DEFINE s == Unexpired(started[k], reading)
<1>1. s \in Seq(Age) /\ Len(s) \in Nat /\ Len(s) <= MaxPerMinute
  BY PrunedEntries
<1>2. started \in [Keys -> Seq(Age)] /\ \A j \in Keys : Len(started[j]) <= MaxPerMinute
  BY DEF TypeOK
<1>3. CASE Prune(k, reading)
  <2>1. started' = [started EXCEPT ![k] = s]
    BY <1>3 DEF Prune
  <2> HIDE DEF s
  <2>2. QED BY <1>1, <1>2, <2>1
<1>4. CASE Enter(k, reading) /\ Room(started[k], reading)
  <2>1. started' = [started EXCEPT ![k] = Append(s, reading)]
    BY <1>4 DEF Enter
  <2>2. Len(s) < MaxPerMinute
    BY <1>4 DEF Room
  <2> HIDE DEF s
  <2>3. reading \in Age
    BY ClientLimitAssumption DEF Age
  <2>4. Append(s, reading) \in Seq(Age) /\ Len(Append(s, reading)) = Len(s) + 1
    BY <1>1, <2>3
  <2>5. Len(Append(s, reading)) <= MaxPerMinute
    BY <1>1, <2>2, <2>4, ClientLimitAssumption
  <2> DEFINE t == Append(s, reading)
  <2>6. started' = [started EXCEPT ![k] = t] /\ t \in Seq(Age) /\ Len(t) <= MaxPerMinute
    BY <2>1, <2>4, <2>5
  <2> HIDE DEF t
  <2>7. QED BY <1>2, <2>6
<1>5. QED BY <1>3, <1>4

LEMMA TableAged ==
  ASSUME TypeOK, Tick
  PROVE  started' \in [Keys -> Seq(Age)] /\ \A k \in Keys : Len(started'[k]) <= MaxPerMinute
<1>1. ASSUME NEW k \in Keys
      PROVE  started'[k] \in Seq(Age) /\ Len(started'[k]) <= MaxPerMinute
  <2>1. started[k] \in Seq(Age) /\ Len(started[k]) <= MaxPerMinute
    BY DEF TypeOK
  <2>2. Len(started[k]) \in Nat /\ DOMAIN started[k] = 1..Len(started[k])
    BY <2>1, LenProperties
  <2> DEFINE e(i) == Older(started[k][i], Window + MaxDelay)
             n == Len(started[k])
  <2>3. \A i \in 1..n : e(i) \in Age
    <3>1. ASSUME NEW i \in 1..n
          PROVE  e(i) \in Age
      <4>1. started[k][i] \in Age
        BY <2>1, ElementOfSeq
      <4>2. QED BY <4>1, ClientLimitAssumption DEF Older, Age
    <3>2. QED BY <3>1
  <2>4. started'[k] = [i \in 1..n |-> e(i)]
    BY <2>2 DEF Tick
  <2> HIDE DEF e, n
  <2>5. n \in Nat
    BY <2>2 DEF n
  <2>6. [i \in 1..n |-> e(i)] \in Seq(Age)
    BY <2>3, <2>5
  <2>7. Len([i \in 1..n |-> e(i)]) = n
    BY <2>5
  <2>8. QED BY <2>1, <2>4, <2>6, <2>7 DEF n
<1>2. started' \in [Keys -> Seq(Age)]
  BY <1>1 DEF Tick
<1>3. QED BY <1>1, <1>2

-----------------------------------------------------------------------------
(* The permits                                                              *)

Running(k) == {r \in Requests : request[r].phase = "running" /\ request[r].key = k}

LEMMA RunningFinite ==
  ASSUME NEW k \in Keys
  PROVE  IsFiniteSet(Running(k)) /\ Cardinality(Running(k)) \in Nat
  BY ClientLimitAssumption, FS_Subset, FS_CardinalityType DEF Running

LEMMA RequestKinds ==
  ASSUME TypeOK, NEW r \in Requests
  PROVE  /\ request[r].phase = "read" =>
              /\ request[r].key \in Keys /\ request[r].responds \in BOOLEAN
              /\ request[r].age \in 0..MaxDelay
         /\ request[r].phase = "running" => request[r].key \in Keys
  BY DEF TypeOK, Request, Idle

(* A request that comes or goes without a permit changes no key's permits.  *)
LEMMA NoPermitStep ==
  ASSUME IInv, NEW r \in Requests, request[r].phase # "running",
         NEW q \in Request, q.phase # "running",
         request' = [request EXCEPT ![r] = q], inFlight' = inFlight
  PROVE  /\ request' \in [Requests -> Request] /\ inFlight' \in [Keys -> 0..MaxInFlight]
         /\ InFlightIsPermits'
<1>1. request \in [Requests -> Request] /\ inFlight \in [Keys -> 0..MaxInFlight]
  BY DEF IInv, TypeOK
<1>2. \A k \in Keys : Running(k)' = Running(k)
  BY <1>1 DEF Running
<1>3. QED BY <1>1, <1>2 DEF IInv, InFlightIsPermits, Running

LEMMA IdleRequest == Idle \in Request /\ Idle.phase = "outside"
  BY DEF Idle, Request

(* What a step does to the requests and to the counters.                    *)
PermitsKept ==
  /\ request' \in [Requests -> Request]
  /\ inFlight' \in [Keys -> 0..MaxInFlight]
  /\ InFlightIsPermits'

LEMMA AdmitStep ==
  ASSUME IInv, NEW r \in Requests, Admit(r)
  PROVE  PermitsKept
<1> DEFINE k == request[r].key
           q == [phase |-> "running", key |-> k]
<1>1. request \in [Requests -> Request] /\ inFlight \in [Keys -> 0..MaxInFlight]
  BY DEF IInv, TypeOK
<1>2. k \in Keys /\ request[r].phase = "read"
  BY RequestKinds DEF IInv, Admit
<1>3. q \in Request
  BY <1>2 DEF Request
<1>4. request' = [request EXCEPT ![r] = q] /\ inFlight' = [inFlight EXCEPT ![k] = @ + 1]
  BY DEF Admit
<1>5. inFlight[k] + 1 \in 0..MaxInFlight
  BY <1>1, <1>2, ClientLimitAssumption DEF Admit, SlotFree
<1>6. request' \in [Requests -> Request] /\ inFlight' \in [Keys -> 0..MaxInFlight]
  BY <1>1, <1>3, <1>4, <1>5
<1>7. ASSUME NEW j \in Keys
      PROVE  inFlight'[j] = Cardinality(Running(j)')
  <2>1. inFlight[j] = Cardinality(Running(j))
    BY DEF IInv, InFlightIsPermits, Running
  <2>2. CASE j = k
    <3>1. Running(j)' = Running(j) \cup {r} /\ r \notin Running(j)
      BY <1>1, <1>2, <1>4, <2>2 DEF Running
    <3>2. Cardinality(Running(j)') = Cardinality(Running(j)) + 1
      BY <3>1, RunningFinite, FS_AddElement
    <3>3. inFlight'[j] = inFlight[j] + 1
      BY <1>1, <1>4, <2>2
    <3>4. QED BY <2>1, <3>2, <3>3
  <2>3. CASE j # k
    <3>1. Running(j)' = Running(j)
      BY <1>1, <1>2, <1>4, <2>3 DEF Running
    <3>2. inFlight'[j] = inFlight[j]
      BY <1>1, <1>4, <2>3
    <3>3. QED BY <2>1, <3>1, <3>2
  <2>4. QED BY <2>2, <2>3
<1>8. QED BY <1>6, <1>7 DEF PermitsKept, InFlightIsPermits, Running

LEMMA DropStep ==
  ASSUME IInv, NEW r \in Requests, DropPermit(r)
  PROVE  PermitsKept
<1> DEFINE k == request[r].key
<1>1. request \in [Requests -> Request] /\ inFlight \in [Keys -> 0..MaxInFlight]
  BY DEF IInv, TypeOK
<1>2. k \in Keys /\ request[r].phase = "running"
  BY RequestKinds DEF IInv, DropPermit
<1>3. request' = [request EXCEPT ![r] = Idle]
  BY DEF DropPermit
<1>4. inFlight[k] = Cardinality(Running(k)) /\ r \in Running(k)
  BY <1>2 DEF IInv, InFlightIsPermits, Running
<1>5. inFlight[k] > 0 /\ inFlight[k] - 1 \in 0..MaxInFlight
  <2>1. Cardinality(Running(k)) # 0
    BY <1>2, <1>4, RunningFinite, FS_EmptySet
  <2>2. QED BY <1>1, <1>2, <1>4, <2>1, ClientLimitAssumption
<1>6. inFlight' = [inFlight EXCEPT ![k] = inFlight[k] - 1]
  BY <1>5 DEF DropPermit, FreeSlot
<1>7. request' \in [Requests -> Request] /\ inFlight' \in [Keys -> 0..MaxInFlight]
  BY <1>1, <1>3, <1>5, <1>6, IdleRequest
<1>8. ASSUME NEW j \in Keys
      PROVE  inFlight'[j] = Cardinality(Running(j)')
  <2>1. inFlight[j] = Cardinality(Running(j))
    BY DEF IInv, InFlightIsPermits, Running
  <2>2. CASE j = k
    <3>1. Running(j)' = Running(j) \ {r}
      BY <1>1, <1>3, <2>2, IdleRequest DEF Running
    <3>2. Cardinality(Running(j)') = Cardinality(Running(j)) - 1
      BY <1>4, <2>2, <3>1, RunningFinite, FS_RemoveElement
    <3>3. inFlight'[j] = inFlight[j] - 1
      BY <1>1, <1>6, <2>2
    <3>4. QED BY <2>1, <3>2, <3>3
  <2>3. CASE j # k
    <3>1. Running(j)' = Running(j)
      BY <1>1, <1>3, <2>3, IdleRequest DEF Running
    <3>2. inFlight'[j] = inFlight[j]
      BY <1>1, <1>6, <2>3
    <3>3. QED BY <2>1, <3>1, <3>2
  <2>4. QED BY <2>2, <2>3
<1>9. QED BY <1>7, <1>8 DEF PermitsKept, InFlightIsPermits, Running

LEMMA ArriveStep ==
  ASSUME IInv, NEW r \in Requests, NEW k \in Keys, NEW responds \in BOOLEAN,
         Arrive(r, k, responds)
  PROVE  PermitsKept
<1> DEFINE q == [phase |-> "read", key |-> k, responds |-> responds, age |-> 0]
<1>1. q \in Request /\ q.phase = "read"
  BY ClientLimitAssumption DEF Request
<1>2. request' = [request EXCEPT ![r] = q] /\ inFlight' = inFlight
  BY DEF Arrive
<1>3. request[r].phase # "running"
  BY IdleRequest DEF Arrive
<1> HIDE DEF q
<1>4. QED BY <1>1, <1>2, <1>3, NoPermitStep DEF PermitsKept

LEMMA LeaveStep ==
  ASSUME IInv, NEW r \in Requests, Count(r) \/ HoldInFlight(r) \/ HoldPerMinute(r)
  PROVE  PermitsKept
<1>1. /\ request[r].phase # "running" /\ request' = [request EXCEPT ![r] = Idle]
      /\ inFlight' = inFlight
  BY DEF Count, HoldInFlight, HoldPerMinute
<1>2. QED BY <1>1, IdleRequest, NoPermitStep DEF PermitsKept

LEMMA TickStep ==
  ASSUME IInv, Tick
  PROVE  PermitsKept
<1>1. request \in [Requests -> Request] /\ inFlight \in [Keys -> 0..MaxInFlight]
  BY DEF IInv, TypeOK
<1>2. ASSUME NEW r \in Requests
      PROVE  /\ request'[r] \in Request
             /\ request'[r].phase = request[r].phase
             /\ request[r].phase = "running" => request'[r] = request[r]
  <2>1. CASE request[r].phase = "read"
    <3>1. request[r] \in [phase : {"read"}, key : Keys, responds : BOOLEAN, age : 0..MaxDelay]
      BY <1>1, <2>1 DEF Request, Idle
    <3>2. request[r].age + 1 \in 0..MaxDelay
      BY <2>1, <3>1, ClientLimitAssumption DEF Tick
    <3>3. request'[r] = [request[r] EXCEPT !.age = @ + 1]
      BY <2>1 DEF Tick
    <3>4. request'[r] \in [phase : {"read"}, key : Keys, responds : BOOLEAN, age : 0..MaxDelay]
      BY <3>1, <3>2, <3>3
    <3>5. QED BY <2>1, <3>1, <3>4 DEF Request
  <2>2. CASE request[r].phase # "read"
    BY <1>1, <2>2 DEF Tick
  <2>3. QED BY <2>1, <2>2
<1>3. \A k \in Keys : Running(k)' = Running(k)
  BY <1>2 DEF Running
<1>4. request' \in [Requests -> Request]
  BY <1>2 DEF Tick
<1>5. inFlight' = inFlight
  BY DEF Tick
<1>6. QED BY <1>1, <1>3, <1>4, <1>5 DEF PermitsKept, IInv, InFlightIsPermits, Running

-----------------------------------------------------------------------------

LEMMA NextStep ==
  ASSUME IInv, [Next]_vars
  PROVE  IInv'
<1>1. TypeOK
  BY DEF IInv
<1>2. UNCHANGED started =>
        started' \in [Keys -> Seq(Age)] /\ \A k \in Keys : Len(started'[k]) <= MaxPerMinute
  BY <1>1 DEF TypeOK
<1>3. PermitsKept /\ started' \in [Keys -> Seq(Age)]
                  /\ \A k \in Keys : Len(started'[k]) <= MaxPerMinute
  <2>1. CASE UNCHANGED vars
    <3>1. PermitsKept
      BY <2>1 DEF vars, PermitsKept, IInv, TypeOK, InFlightIsPermits
    <3>2. QED BY <1>2, <2>1, <3>1 DEF vars
  <2>2. ASSUME NEW r \in Requests, NEW k \in Keys, NEW responds \in BOOLEAN,
               Arrive(r, k, responds)
        PROVE  PermitsKept /\ UNCHANGED started
    BY <2>2, ArriveStep DEF Arrive
  <2>3. ASSUME NEW r \in Requests, Admit(r)
        PROVE  PermitsKept /\ started' \in [Keys -> Seq(Age)]
                           /\ \A k \in Keys : Len(started'[k]) <= MaxPerMinute
    <3>1. request[r].key \in Keys /\ request[r].age \in 0..MaxDelay
      BY <1>1, <2>3, RequestKinds DEF Admit
    <3>2. QED BY <1>1, <2>3, <3>1, AdmitStep, TableKept DEF Admit
  <2>4. ASSUME NEW r \in Requests, Count(r)
        PROVE  PermitsKept /\ started' \in [Keys -> Seq(Age)]
                           /\ \A k \in Keys : Len(started'[k]) <= MaxPerMinute
    <3>1. request[r].key \in Keys /\ request[r].age \in 0..MaxDelay
      BY <1>1, <2>4, RequestKinds DEF Count
    <3>2. QED BY <1>1, <2>4, <3>1, LeaveStep, TableKept DEF Count
  <2>5. ASSUME NEW r \in Requests, HoldInFlight(r)
        PROVE  PermitsKept /\ UNCHANGED started
    BY <2>5, LeaveStep DEF HoldInFlight
  <2>6. ASSUME NEW r \in Requests, HoldPerMinute(r)
        PROVE  PermitsKept /\ started' \in [Keys -> Seq(Age)]
                           /\ \A k \in Keys : Len(started'[k]) <= MaxPerMinute
    <3>1. request[r].key \in Keys /\ request[r].age \in 0..MaxDelay
      BY <1>1, <2>6, RequestKinds DEF HoldPerMinute
    <3>2. QED BY <1>1, <2>6, <3>1, LeaveStep, TableKept DEF HoldPerMinute
  <2>7. ASSUME NEW r \in Requests, DropPermit(r)
        PROVE  PermitsKept /\ UNCHANGED started
    BY <2>7, DropStep DEF DropPermit
  <2>8. CASE Tick
    BY <1>1, <2>8, TickStep, TableAged
  <2>9. QED BY <1>2, <2>1, <2>2, <2>3, <2>4, <2>5, <2>6, <2>7, <2>8 DEF Next
<1>4. QED BY <1>3 DEF PermitsKept, IInv, TypeOK

LEMMA InitialInv == Init => IInv
<1> SUFFICES ASSUME Init
             PROVE  IInv
  OBVIOUS
<1>1. request \in [Requests -> Request] /\ inFlight \in [Keys -> 0..MaxInFlight]
  BY IdleRequest, ClientLimitAssumption DEF Init
<1>2. started \in [Keys -> Seq(Age)] /\ \A k \in Keys : Len(started[k]) <= MaxPerMinute
  BY EmptySeq, ClientLimitAssumption DEF Init
<1>3. \A k \in Keys : Running(k) = {}
  BY IdleRequest DEF Init, Running
<1>4. InFlightIsPermits
  BY <1>3, FS_EmptySet DEF Init, InFlightIsPermits, Running
<1>5. QED BY <1>1, <1>2, <1>4 DEF IInv, TypeOK

LEMMA Invariant == Spec => []IInv
<1>1. IInv /\ [Next]_vars => IInv'
  BY NextStep
<1>2. QED BY <1>1, InitialInv, PTL DEF Spec

(* No key ever runs more responses or starts more requests in a minute of   *)
(* its table than it may.                                                   *)
THEOREM TypeCorrect == Spec => []TypeOK
<1>1. IInv => TypeOK
  BY DEF IInv
<1>2. QED BY <1>1, Invariant, PTL

(* A key's counter is its permits: no slot leaks and none is given twice.   *)
THEOREM InFlightCorrect == Spec => []InFlightIsPermits
<1>1. IInv => InFlightIsPermits
  BY DEF IInv
<1>2. QED BY <1>1, Invariant, PTL

(* A client that waits as long as it is told finds room, whatever the       *)
(* delays of the clock readings in the table and of its own.                *)
THEOREM RetryAfterCorrect == Spec => []RetryAfterIsEnough
<1>1. TypeOK => RetryAfterIsEnough
  <2> SUFFICES ASSUME TypeOK, NEW k \in Keys, NEW reading \in 0..MaxDelay,
                      Len(Unexpired(started[k], reading)) >= MaxPerMinute
               PROVE  LET s     == Unexpired(started[k], reading)
                          later == [i \in DOMAIN s |-> s[i] + RetryAfter(s, reading)]
                      IN  Room(later, 0)
    BY DEF RetryAfterIsEnough
  <2> DEFINE s == Unexpired(started[k], reading)
             wait == RetryAfter(s, reading)
             e(i) == s[i] + wait
             later == [i \in DOMAIN s |-> e(i)]
  <2>1. s \in Seq(Age) /\ Len(s) \in Nat /\ Len(s) = MaxPerMinute /\ Len(s) >= 1
    BY PrunedEntries, ClientLimitAssumption
  <2> HIDE DEF s
  <2>2. DOMAIN s = 1..Len(s) /\ s[1] \in Age
    BY <2>1, LenProperties, ElementOfSeq
  <2>3. wait \in Int /\ s[1] + wait >= Window
    BY <2>2, ClientLimitAssumption DEF RetryAfter, Since, Age
  <2> HIDE DEF wait
  <2>4. \A i \in 1..Len(s) : e(i) \in Int
    <3>1. ASSUME NEW i \in 1..Len(s)
          PROVE  s[i] + wait \in Int
      <4>1. s[i] \in Age
        BY <2>1, ElementOfSeq
      <4>2. QED BY <2>3, <4>1 DEF Age
    <3>2. QED BY <3>1
  <2>5. later = [i \in 1..Len(s) |-> e(i)]
    BY <2>2
  <2>6. later[1] >= Window
    BY <2>1, <2>3, <2>5
  <2> HIDE DEF e, later
  <2>7. later \in Seq(Int) /\ Len(later) = Len(s)
    BY <2>1, <2>4, <2>5
  <2>8. later # <<>> /\ later[1] \in Int
    <3>1. 1 \in 1..Len(later)
      BY <2>1, <2>7
    <3>2. QED BY <2>1, <2>7, <3>1, EmptySeq, ElementOfSeq
  <2>9. Since(later[1], 0) >= Window
    BY <2>6, <2>8, ClientLimitAssumption DEF Since
  <2>10. Len(Unexpired(later, 0)) < Len(later)
    BY <2>7, <2>8, <2>9, Pruned
  <2>11. Room(later, 0)
    BY <2>1, <2>7, <2>10 DEF Room
  <2>12. QED BY <2>11 DEF later, e, wait, s
<1>2. QED BY <1>1, TypeCorrect, PTL

-----------------------------------------------------------------------------
(* The real ages of the starts                                              *)

ObservedVars == <<vars, begun>>

(* The table, read from its latest entry backwards, against what really     *)
(* began: an entry is at most MaxDelay older than its start, and a start    *)
(* that has no entry any more is at least the minute less MaxDelay old.     *)
Tracks(s, b) ==
  /\ b \in Seq(0..Window)
  /\ \A j \in Nat : j < Len(b) =>
       IF j < Len(s) THEN s[Len(s) - j] <= b[Len(b) - j] + MaxDelay
       ELSE b[Len(b) - j] >= Window - MaxDelay

ObservedInv == IInv /\ begun \in [Keys -> Seq(0..Window)]
                    /\ \A k \in Keys : Tracks(started[k], begun[k])

(* Only entries whose starts are old enough are pruned: the reading that    *)
(* expires an entry is never ahead of the clock.                            *)
LEMMA TracksPruned ==
  ASSUME NEW s \in Seq(Age), NEW b \in Seq(0..Window), NEW reading \in 0..MaxDelay, Tracks(s, b)
  PROVE  Tracks(Unexpired(s, reading), b)
<1> DEFINE u == Unexpired(s, reading)
<1>1. s \in Seq(Int) /\ reading \in Int /\ Age \subseteq Int
  <2>1. Age \subseteq Int
    BY DEF Age
  <2>2. s \in Seq(Int)
    BY <2>1, SeqMonotonic
  <2>3. reading \in Int
    BY ClientLimitAssumption
  <2>4. QED BY <2>1, <2>2, <2>3
<1>2. PICK first \in 1..(Len(s) + 1) :
        /\ u = SubSeq(s, first, Len(s))
        /\ \A i \in 1..(first - 1) : Since(s[i], reading) >= Window
  BY <1>1, UnexpiredIsSuffix
<1>3. /\ Len(u) \in Nat /\ Len(u) = Len(s) - first + 1
      /\ \A i \in 1..Len(u) : u[i] = s[first + i - 1]
  BY <1>1, <1>2, SuffixEntries
<1>4. Len(s) \in Nat /\ Len(b) \in Nat
  BY LenProperties
<1> HIDE DEF u
<1>5. ASSUME NEW j \in Nat, j < Len(b)
      PROVE  IF j < Len(u) THEN u[Len(u) - j] <= b[Len(b) - j] + MaxDelay
             ELSE b[Len(b) - j] >= Window - MaxDelay
  <2>1. CASE j < Len(u)
    <3>1. u[Len(u) - j] = s[Len(s) - j] /\ j < Len(s)
      BY <1>3, <1>4, <2>1
    <3>2. QED BY <1>5, <2>1, <3>1 DEF Tracks
  <2>2. CASE ~ j < Len(u) /\ j < Len(s)
    <3> DEFINE i == Len(s) - j
    <3>1. i \in 1..(first - 1) /\ i \in 1..Len(s)
      BY <1>3, <1>4, <2>2
    <3>2. s[i] \in Int
      BY <1>1, <3>1, ElementOfSeq
    <3>3. s[i] >= Window
      BY <1>2, <3>1, <3>2, ClientLimitAssumption DEF Since
    <3>4. s[i] <= b[Len(b) - j] + MaxDelay
      BY <1>5, <2>2 DEF Tracks
    <3>5. b[Len(b) - j] \in Int
      <4>1. Len(b) - j \in 1..Len(b)
        BY <1>4, <1>5
      <4>2. b[Len(b) - j] \in 0..Window
        BY <4>1, ElementOfSeq
      <4>3. QED BY <4>2, ClientLimitAssumption
    <3>6. b[Len(b) - j] >= Window - MaxDelay
      <4> DEFINE entry == s[i]
                 start == b[Len(b) - j]
      <4>1. entry \in Int /\ start \in Int /\ entry >= Window /\ entry <= start + MaxDelay
        BY <3>2, <3>3, <3>4, <3>5
      <4> HIDE DEF entry, start
      <4>2. start >= Window - MaxDelay
        BY <4>1, ClientLimitAssumption
      <4>3. QED BY <4>2 DEF start
    <3>7. QED BY <2>2, <3>6
  <2>3. CASE ~ j < Len(s)
    <3>1. ~ j < Len(u)
      BY <1>3, <1>4, <2>3
    <3>2. QED BY <1>5, <2>3, <3>1 DEF Tracks
  <2>4. QED BY <1>3, <2>1, <2>2, <2>3
<1>6. QED BY <1>5 DEF Tracks, u

(* The starts that are remembered are the latest ones.                      *)
LEMMA LatestEntries ==
  ASSUME NEW T, NEW b \in Seq(T)
  PROVE  /\ Latest(b) \in Seq(T) /\ Len(Latest(b)) \in Nat
         /\ Len(Latest(b)) <= Len(b) /\ Len(Latest(b)) <= MaxPerMinute + 1
         /\ \A j \in Nat : j < Len(Latest(b)) =>
              Latest(b)[Len(Latest(b)) - j] = b[Len(b) - j]
<1>1. Len(b) \in Nat
  BY LenProperties
<1>2. CASE Len(b) > MaxPerMinute
  <2> DEFINE first == Len(b) - MaxPerMinute
             u == SubSeq(b, first, Len(b))
  <2>1. Latest(b) = u /\ first \in 1..(Len(b) + 1)
    BY <1>1, <1>2, ClientLimitAssumption DEF Latest
  <2>2. /\ u \in Seq(T) /\ Len(u) \in Nat /\ Len(u) = Len(b) - first + 1
        /\ \A i \in 1..Len(u) : u[i] = b[first + i - 1]
    BY <2>1, SuffixEntries
  <2> HIDE DEF u
  <2>3. Len(u) = MaxPerMinute + 1 /\ Len(u) <= Len(b)
    BY <1>1, <1>2, <2>2, ClientLimitAssumption
  <2>4. ASSUME NEW j \in Nat, j < Len(u)
        PROVE  u[Len(u) - j] = b[Len(b) - j]
    <3>1. Len(u) - j \in 1..Len(u) /\ first + (Len(u) - j) - 1 = Len(b) - j
      BY <1>1, <2>2, <2>4, ClientLimitAssumption
    <3>2. QED BY <2>2, <3>1
  <2>5. QED BY <2>1, <2>2, <2>3, <2>4
<1>3. CASE ~ Len(b) > MaxPerMinute
  <2>1. Latest(b) = b
    BY <1>3 DEF Latest
  <2>2. Len(b) <= MaxPerMinute + 1
    BY <1>1, <1>3, ClientLimitAssumption
  <2>3. QED BY <1>1, <2>1, <2>2
<1>4. QED BY <1>2, <1>3

LEMMA AppendEntries ==
  ASSUME NEW T, NEW s \in Seq(T), NEW x \in T
  PROVE  /\ Append(s, x) \in Seq(T) /\ Len(s) \in Nat /\ Len(Append(s, x)) = Len(s) + 1
         /\ Append(s, x)[Len(s) + 1] = x
         /\ \A i \in 1..Len(s) : Append(s, x)[i] = s[i]
  BY LenProperties

(* A start is entered with the age of its reading.                          *)
LEMMA TracksEntered ==
  ASSUME NEW s \in Seq(Age), NEW b \in Seq(0..Window), NEW reading \in 0..MaxDelay, Tracks(s, b)
  PROVE  Tracks(Append(s, reading), Latest(Append(b, 0)))
<1> DEFINE t == Append(s, reading)
           c == Append(b, 0)
           d == Latest(c)
<1>1. reading \in Age /\ 0 \in 0..Window
  BY ClientLimitAssumption DEF Age
<1>2. /\ t \in Seq(Age) /\ Len(s) \in Nat /\ Len(t) = Len(s) + 1 /\ t[Len(s) + 1] = reading
      /\ \A i \in 1..Len(s) : t[i] = s[i]
  BY <1>1, AppendEntries
<1>3. /\ c \in Seq(0..Window) /\ Len(b) \in Nat /\ Len(c) = Len(b) + 1 /\ c[Len(b) + 1] = 0
      /\ \A i \in 1..Len(b) : c[i] = b[i]
  BY <1>1, AppendEntries
<1>4. /\ d \in Seq(0..Window) /\ Len(d) \in Nat /\ Len(d) <= Len(c)
      /\ \A j \in Nat : j < Len(d) => d[Len(d) - j] = c[Len(c) - j]
  BY <1>3, LatestEntries
<1> HIDE DEF t, c, d
<1>5. ASSUME NEW j \in Nat, j < Len(d)
      PROVE  IF j < Len(t) THEN t[Len(t) - j] <= d[Len(d) - j] + MaxDelay
             ELSE d[Len(d) - j] >= Window - MaxDelay
  <2>1. d[Len(d) - j] = c[Len(c) - j] /\ j < Len(c)
    BY <1>3, <1>4, <1>5
  <2>2. CASE j = 0
    <3>1. t[Len(t) - j] = reading /\ c[Len(c) - j] = 0 /\ j < Len(t)
      BY <1>2, <1>3, <2>2
    <3>2. QED BY <2>1, <3>1, ClientLimitAssumption
  <2>3. CASE j > 0
    <3> DEFINE i == j - 1
    <3>1. i \in Nat /\ i < Len(b) /\ (j < Len(t) <=> i < Len(s))
      BY <1>2, <1>3, <2>1, <2>3
    <3>2. c[Len(c) - j] = b[Len(b) - i]
      <4>1. Len(c) - j = Len(b) - i /\ Len(b) - i \in 1..Len(b)
        BY <1>3, <2>1, <2>3
      <4>2. QED BY <1>3, <4>1
    <3>3. i < Len(s) => t[Len(t) - j] = s[Len(s) - i]
      <4>1. i < Len(s) => Len(t) - j = Len(s) - i /\ Len(s) - i \in 1..Len(s)
        BY <1>2, <2>3
      <4>2. QED BY <1>2, <4>1
    <3>4. IF i < Len(s) THEN s[Len(s) - i] <= b[Len(b) - i] + MaxDelay
          ELSE b[Len(b) - i] >= Window - MaxDelay
      BY <3>1 DEF Tracks
    <3> HIDE DEF i
    <3>5. QED BY <2>1, <3>1, <3>2, <3>3, <3>4
  <2>4. QED BY <2>2, <2>3
<1>6. QED BY <1>4, <1>5 DEF Tracks, t, c, d

(* The clock ages both, and a capped age is past every question.            *)
LEMMA TracksAged ==
  ASSUME NEW s \in Seq(Age), NEW b \in Seq(0..Window), Tracks(s, b)
  PROVE  Tracks([i \in DOMAIN s |-> Older(s[i], Window + MaxDelay)],
                [i \in DOMAIN b |-> Older(b[i], Window)])
<1> DEFINE es(i) == Older(s[i], Window + MaxDelay)
           eb(i) == Older(b[i], Window)
           m == Len(s)
           n == Len(b)
           t == [i \in DOMAIN s |-> es(i)]
           c == [i \in DOMAIN b |-> eb(i)]
<1>1. m \in Nat /\ n \in Nat /\ DOMAIN s = 1..m /\ DOMAIN b = 1..n
  BY LenProperties
<1>2. ASSUME NEW i \in 1..m
      PROVE  s[i] \in Age /\ es(i) \in Age
  <2>1. s[i] \in Age
    BY ElementOfSeq
  <2>2. QED BY <2>1, ClientLimitAssumption DEF Older, Age
<1>3. ASSUME NEW i \in 1..n
      PROVE  b[i] \in 0..Window /\ eb(i) \in 0..Window
  <2>1. b[i] \in 0..Window
    BY ElementOfSeq
  <2>2. QED BY <2>1, ClientLimitAssumption DEF Older
<1>4. t = [i \in 1..m |-> es(i)] /\ c = [i \in 1..n |-> eb(i)]
  BY <1>1
<1>5. ASSUME NEW i \in 1..m, NEW l \in 1..n, s[i] <= b[l] + MaxDelay
      PROVE  es(i) <= eb(l) + MaxDelay
  <2>1. s[i] \in 0..(Window + MaxDelay) /\ b[l] \in 0..Window
    BY <1>2, <1>3 DEF Age
  <2> DEFINE x == s[i]
             y == b[l]
  <2>2. Older(x, Window + MaxDelay) <= Older(y, Window) + MaxDelay
    <3>1. x \in 0..(Window + MaxDelay) /\ y \in 0..Window /\ x <= y + MaxDelay
      BY <1>5, <2>1
    <3> HIDE DEF x, y
    <3>2. QED BY <3>1, ClientLimitAssumption DEF Older
  <2>3. QED BY <2>2
<1>6. ASSUME NEW l \in 1..n, b[l] >= Window - MaxDelay
      PROVE  eb(l) >= Window - MaxDelay
  BY <1>3, <1>6, ClientLimitAssumption DEF Older
<1> HIDE DEF t, c, es, eb
<1>7. Len(t) = m /\ Len(c) = n /\ c \in Seq(0..Window)
  BY <1>1, <1>3, <1>4
<1>8. (\A i \in 1..m : t[i] = es(i)) /\ (\A i \in 1..n : c[i] = eb(i))
  BY <1>4
<1>9. ASSUME NEW j \in Nat, j < Len(c)
      PROVE  IF j < Len(t) THEN t[Len(t) - j] <= c[Len(c) - j] + MaxDelay
             ELSE c[Len(c) - j] >= Window - MaxDelay
  <2>1. n - j \in 1..n /\ (j < m => m - j \in 1..m)
    BY <1>1, <1>7, <1>9
  <2>2. IF j < m THEN s[m - j] <= b[n - j] + MaxDelay ELSE b[n - j] >= Window - MaxDelay
    BY <1>7, <1>9 DEF Tracks
  <2> HIDE DEF m, n
  <2>3. QED BY <1>5, <1>6, <1>7, <1>8, <2>1, <2>2
<1>10. QED BY <1>7, <1>9 DEF Tracks, t, c, es, eb

(* No more starts are recent than the table holds.                          *)
LEMMA TracksBounds ==
  ASSUME NEW s \in Seq(Age), NEW b \in Seq(0..Window), Tracks(s, b), Len(s) <= MaxPerMinute
  PROVE  Cardinality({i \in DOMAIN b : b[i] < Window - MaxDelay}) <= MaxPerMinute
<1> DEFINE recent == {i \in DOMAIN b : b[i] < Window - MaxDelay}
           low == Len(b) - Len(s) + 1
<1>1. Len(s) \in Nat /\ Len(b) \in Nat /\ DOMAIN b = 1..Len(b)
  BY LenProperties
<1>2. ASSUME NEW i \in recent
      PROVE  i \in low..Len(b)
  <2>1. i \in 1..Len(b) /\ b[i] < Window - MaxDelay
    BY <1>1
  <2> DEFINE j == Len(b) - i
  <2>2. j \in Nat /\ j < Len(b) /\ Len(b) - j = i
    BY <1>1, <2>1
  <2>3. b[i] \in Int
    <3>1. b[i] \in 0..Window
      BY <2>1, ElementOfSeq
    <3>2. QED BY <3>1, ClientLimitAssumption
  <2>4. IF j < Len(s) THEN TRUE ELSE b[Len(b) - j] >= Window - MaxDelay
    BY <2>2 DEF Tracks
  <2> HIDE DEF j
  <2>5. j < Len(s)
    BY <2>1, <2>2, <2>3, <2>4, ClientLimitAssumption
  <2>6. QED BY <1>1, <2>1, <2>2, <2>5
<1>3. recent \subseteq low..Len(b)
  BY <1>2
<1>4. IsFiniteSet(low..Len(b)) /\ Cardinality(low..Len(b)) = Len(s)
  <2>1. low \in Int /\ Len(b) \in Int
    BY <1>1
  <2>2. Cardinality(low..Len(b)) = IF low > Len(b) THEN 0 ELSE Len(b) - low + 1
    BY <2>1, FS_Interval
  <2>3. IsFiniteSet(low..Len(b))
    BY <2>1, FS_Interval
  <2>4. (IF low > Len(b) THEN 0 ELSE Len(b) - low + 1) = Len(s)
    BY <1>1
  <2>5. QED BY <2>2, <2>3, <2>4
<1> HIDE DEF recent, low
<1>5. Cardinality(recent) <= Len(s) /\ Cardinality(recent) \in Nat
  BY <1>3, <1>4, FS_Subset, FS_CardinalityType
<1>6. QED BY <1>1, <1>5, ClientLimitAssumption DEF recent

(* What a step does to the table of a key, as the observer sees it.         *)
LEMMA TableObserved ==
  ASSUME TypeOK, [Next]_vars, ~ Tick, NEW k \in Keys
  PROVE  \E reading \in 0..MaxDelay :
           \/ Counts(k) /\ started'[k] = Append(Unexpired(started[k], reading), reading)
           \/ ~ Counts(k) /\ started'[k] \in {started[k], Unexpired(started[k], reading)}
<1>1. 0 \in 0..MaxDelay /\ started \in [Keys -> Seq(Age)]
  BY ClientLimitAssumption DEF TypeOK
<1>2. CASE Counts(k)
  <2>1. PICK r \in Requests : request[r].phase = "read" /\ request[r].key = k
                                /\ (Admit(r) \/ Count(r))
    BY <1>2 DEF Counts
  <2>2. request[r].age \in 0..MaxDelay
    BY <2>1, RequestKinds
  <2>3. Enter(k, request[r].age)
    BY <2>1 DEF Admit, Count
  <2>4. started'[k] = Append(Unexpired(started[k], request[r].age), request[r].age)
    BY <1>1, <2>3 DEF Enter
  <2>5. QED BY <1>2, <2>2, <2>4
<1>3. CASE ~ Counts(k)
  <2>1. ASSUME NEW r \in Requests, HoldPerMinute(r)
        PROVE  \E reading \in 0..MaxDelay :
                 started'[k] \in {started[k], Unexpired(started[k], reading)}
    <3>1. request[r].age \in 0..MaxDelay
      BY <2>1, RequestKinds DEF HoldPerMinute
    <3>2. started'[k] \in {started[k], Unexpired(started[k], request[r].age)}
      BY <1>1, <2>1 DEF HoldPerMinute, Prune
    <3>3. QED BY <3>1, <3>2
  <2>2. ASSUME NEW r \in Requests, Admit(r) \/ Count(r)
        PROVE  started'[k] = started[k]
    <3>1. request[r].key # k
      BY <1>3, <2>2 DEF Counts, Admit, Count
    <3>2. QED BY <1>1, <2>2, <3>1 DEF Admit, Count, Enter
  <2>3. ASSUME NEW r \in Requests,
               \/ \E j \in Keys, responds \in BOOLEAN : Arrive(r, j, responds)
               \/ HoldInFlight(r) \/ DropPermit(r)
        PROVE  started'[k] = started[k]
    BY <2>3 DEF Arrive, HoldInFlight, DropPermit
  <2>4. CASE UNCHANGED vars
    BY <1>1, <1>3, <2>4 DEF vars
  <2>5. QED BY <1>1, <1>3, <2>1, <2>2, <2>3, <2>4 DEF Next
<1>4. QED BY <1>2, <1>3

LEMMA ObservedStep ==
  ASSUME ObservedInv, [ObservedNext]_ObservedVars
  PROVE  ObservedInv'
<1>1. TypeOK /\ [Next]_vars /\ IInv
  BY DEF ObservedInv, IInv, ObservedNext, ObservedVars
<1>2. IInv'
  BY <1>1, NextStep
<1>3. CASE UNCHANGED ObservedVars
  BY <1>2, <1>3 DEF ObservedVars, vars, ObservedInv
<1>4. CASE ObservedNext
  <2>1. begun' = [k \in Keys |->
          IF Tick THEN [i \in DOMAIN begun[k] |-> Older(begun[k][i], Window)]
          ELSE IF Counts(k) THEN Latest(Append(begun[k], 0)) ELSE begun[k]]
    BY <1>4 DEF ObservedNext
  <2>2. ASSUME NEW k \in Keys
        PROVE  Tracks(started'[k], begun'[k])
    <3>1. /\ started[k] \in Seq(Age) /\ begun[k] \in Seq(0..Window)
          /\ Tracks(started[k], begun[k])
      BY <1>1 DEF ObservedInv, TypeOK
    <3>2. CASE Tick
      <4>1. /\ started'[k] = [i \in DOMAIN started[k] |-> Older(started[k][i], Window + MaxDelay)]
            /\ begun'[k] = [i \in DOMAIN begun[k] |-> Older(begun[k][i], Window)]
        BY <2>1, <3>2 DEF Tick
      <4>2. QED BY <3>1, <4>1, TracksAged
    <3>3. CASE ~ Tick
      <4>1. PICK reading \in 0..MaxDelay :
              \/ Counts(k) /\ started'[k] = Append(Unexpired(started[k], reading), reading)
              \/ ~ Counts(k) /\ started'[k] \in {started[k], Unexpired(started[k], reading)}
        BY <1>1, <3>3, TableObserved
      <4>2. Unexpired(started[k], reading) \in Seq(Age)
        BY <1>1, PrunedEntries
      <4>3. Tracks(Unexpired(started[k], reading), begun[k])
        BY <3>1, TracksPruned
      <4>4. CASE Counts(k)
        <5>1. /\ started'[k] = Append(Unexpired(started[k], reading), reading)
              /\ begun'[k] = Latest(Append(begun[k], 0))
          BY <2>1, <3>3, <4>1, <4>4
        <5>2. QED BY <3>1, <4>2, <4>3, <5>1, TracksEntered
      <4>5. CASE ~ Counts(k)
        <5>1. begun'[k] = begun[k]
          BY <2>1, <3>3, <4>5
        <5>2. QED BY <3>1, <4>1, <4>3, <4>5, <5>1
      <4>6. QED BY <4>4, <4>5
    <3>4. QED BY <3>2, <3>3
  <2>3. begun' \in [Keys -> Seq(0..Window)]
    <3>1. \A k \in Keys : begun'[k] \in Seq(0..Window)
      BY <2>2 DEF Tracks
    <3>2. QED BY <2>1, <3>1
  <2>4. QED BY <1>2, <2>2, <2>3 DEF ObservedInv
<1>5. QED BY <1>3, <1>4

(* However late the clock readings reach the table, no stretch of a minute  *)
(* less the longest delay sees more starts on a key than the limit.         *)
THEOREM MinuteCorrect == ObservedSpec => []MinuteBounded
<1>1. ObservedInit => ObservedInv
  <2> SUFFICES ASSUME ObservedInit
               PROVE  ObservedInv
    OBVIOUS
  <2>1. IInv
    BY InitialInv DEF ObservedInit
  <2>2. \A k \in Keys : begun[k] = <<>> /\ begun \in [Keys -> Seq(0..Window)]
    BY EmptySeq DEF ObservedInit
  <2>3. ASSUME NEW k \in Keys
        PROVE  Tracks(started[k], begun[k])
    <3>1. begun[k] \in Seq(0..Window) /\ Len(begun[k]) = 0
      BY <2>2, EmptySeq
    <3>2. QED BY <3>1 DEF Tracks
  <2>4. QED BY <2>1, <2>2, <2>3 DEF ObservedInv, ObservedInit
<1>2. ObservedInv /\ [ObservedNext]_ObservedVars => ObservedInv'
  BY ObservedStep
<1>3. ObservedInv => MinuteBounded
  BY TracksBounds DEF ObservedInv, IInv, TypeOK, MinuteBounded
<1>4. QED BY <1>1, <1>2, <1>3, PTL DEF ObservedSpec, ObservedVars
=============================================================================

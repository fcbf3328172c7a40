---------------------------- MODULE ClientLimit ----------------------------
(***************************************************************************)
(* How much one client key may send through the pool (client_limit.rs):    *)
(* responses running at once, and requests started in the last minute.     *)
(*                                                                         *)
(* The clock is read before the table is locked, so requests reach the     *)
(* table with readings that are out of order.  Times are kept as ages in   *)
(* ticks: a reading of age g sees an entry of age e as e - g old.          *)
(***************************************************************************)
EXTENDS Integers, FiniteSets, Sequences, FiniteSetsExt

CONSTANTS
  Keys,         \* client API keys
  Requests,     \* requests, each in at most one place at a time
  MaxInFlight,  \* max_in_flight
  MaxPerMinute, \* max_per_minute
  Window,       \* WINDOW, in ticks
  MaxDelay      \* the longest wait between reading the clock and the lock

ASSUME ClientLimitAssumption ==
  /\ IsFiniteSet(Requests)
  /\ MaxInFlight \in Nat
  /\ MaxPerMinute \in Nat \ {0}
  /\ MaxDelay \in Nat
  /\ Window \in Nat
  /\ Window > MaxDelay

VARIABLES
  inFlight,  \* [Keys -> Nat]: KeyUse.in_flight
  started,   \* [Keys -> Seq(ages)]: KeyUse.started, oldest push first
  request    \* [Requests -> Request]: where each request is

vars == <<inFlight, started, request>>

Age == 0..(Window + MaxDelay)

\* outside, read: it has read the clock; running: it holds a permit.
Idle == [phase |-> "outside"]

Request ==
  {Idle}
    \cup [phase : {"read"}, key : Keys, responds : BOOLEAN, age : 0..MaxDelay]
    \cup [phase : {"running"}, key : Keys]

TypeOK ==
  /\ inFlight \in [Keys -> 0..MaxInFlight]
  /\ started \in [Keys -> Seq(Age)]
  /\ \A k \in Keys : Len(started[k]) <= MaxPerMinute
  /\ request \in [Requests -> Request]

-----------------------------------------------------------------------------

\* saturating_duration_since
Since(age, reading) == IF age > reading THEN age - reading ELSE 0

MutantExpiresEarly(s, reading) ==
  LET kept == {i \in DOMAIN s : Since(s[i], reading) < Window - 1}
  IN  IF kept = {} THEN <<>> ELSE SubSeq(s, Min(kept), Len(s))

\* Entries leave from the front, and only while the front has expired.
Unexpired(s, reading) ==
  LET kept == {i \in DOMAIN s : Since(s[i], reading) < Window}
  IN  IF kept = {} THEN <<>> ELSE SubSeq(s, Min(kept), Len(s))

MutantWaitsTheAge(s, reading) == Since(s[1], reading)

\* How long a client over the minute is asked to wait.
RetryAfter(s, reading) == Window - Since(s[1], reading)

Room(s, reading) == Len(Unexpired(s, reading)) < MaxPerMinute

Arrive(r, k, responds) ==
  /\ request[r] = Idle
  /\ request' = [request EXCEPT ![r] =
                   [phase |-> "read", key |-> k, responds |-> responds, age |-> 0]]
  /\ UNCHANGED <<inFlight, started>>

\* The in-flight limit is looked at first, and only for a response.
SlotFree(r) == inFlight[request[r].key] < MaxInFlight

Prune(k, reading) == started' = [started EXCEPT ![k] = Unexpired(@, reading)]

Enter(k, reading) ==
  started' = [started EXCEPT ![k] = Append(Unexpired(@, reading), reading)]

\* A response is counted in the minute and holds a permit.
Admit(r) ==
  /\ request[r].phase = "read"
  /\ request[r].responds
  /\ SlotFree(r)
  /\ Room(started[request[r].key], request[r].age)
  /\ Enter(request[r].key, request[r].age)
  /\ inFlight' = [inFlight EXCEPT ![request[r].key] = @ + 1]
  /\ request' = [request EXCEPT ![r] = [phase |-> "running", key |-> request[r].key]]

\* A WebSocket handshake is counted in the minute and holds none.
Count(r) ==
  /\ request[r].phase = "read"
  /\ ~ request[r].responds
  /\ Room(started[request[r].key], request[r].age)
  /\ Enter(request[r].key, request[r].age)
  /\ request' = [request EXCEPT ![r] = Idle]
  /\ UNCHANGED inFlight

\* Too many responses run: the table is not touched.
HoldInFlight(r) ==
  /\ request[r].phase = "read"
  /\ request[r].responds
  /\ ~ SlotFree(r)
  /\ request' = [request EXCEPT ![r] = Idle]
  /\ UNCHANGED <<inFlight, started>>

MutantSlotTakenFirst(r) ==
  /\ request[r].phase = "read"
  /\ request[r].responds => SlotFree(r)
  /\ ~ Room(started[request[r].key], request[r].age)
  /\ Prune(request[r].key, request[r].age)
  /\ request' = [request EXCEPT ![r] = Idle]
  /\ inFlight' = IF request[r].responds THEN [inFlight EXCEPT ![request[r].key] = @ + 1]
                 ELSE inFlight

\* Too many started in the minute: the expired are dropped all the same.
HoldPerMinute(r) ==
  /\ request[r].phase = "read"
  /\ request[r].responds => SlotFree(r)
  /\ ~ Room(started[request[r].key], request[r].age)
  /\ Prune(request[r].key, request[r].age)
  /\ request' = [request EXCEPT ![r] = Idle]
  /\ UNCHANGED inFlight

FreeSlot(k) == inFlight' = [inFlight EXCEPT ![k] = IF @ > 0 THEN @ - 1 ELSE 0]

\* The response ends, however it ends: its permit drops.
DropPermit(r) ==
  /\ request[r].phase = "running"
  /\ FreeSlot(request[r].key)
  /\ request' = [request EXCEPT ![r] = Idle]
  /\ UNCHANGED started

Older(age, cap) == IF age < cap THEN age + 1 ELSE cap

\* The clock.  No request is between reading and locking for over MaxDelay.
Tick ==
  /\ \A r \in Requests : request[r].phase = "read" => request[r].age < MaxDelay
  /\ started' = [k \in Keys |->
                   [i \in DOMAIN started[k] |-> Older(started[k][i], Window + MaxDelay)]]
  /\ request' = [r \in Requests |->
                   IF request[r].phase = "read" THEN [request[r] EXCEPT !.age = @ + 1]
                   ELSE request[r]]
  /\ UNCHANGED inFlight

-----------------------------------------------------------------------------

Init ==
  /\ inFlight = [k \in Keys |-> 0]
  /\ started = [k \in Keys |-> <<>>]
  /\ request = [r \in Requests |-> Idle]

Next ==
  \/ \E r \in Requests :
       \/ \E k \in Keys, responds \in BOOLEAN : Arrive(r, k, responds)
       \/ Admit(r) \/ Count(r) \/ HoldInFlight(r) \/ HoldPerMinute(r) \/ DropPermit(r)
  \/ Tick

Spec == Init /\ [][Next]_vars
=============================================================================

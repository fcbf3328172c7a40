----------------------- MODULE ClientLimitProperties -----------------------
(***************************************************************************)
(* What ClientLimit must satisfy.  begun is an observer: the real age of   *)
(* every start, taken when the table counted it.                           *)
(***************************************************************************)
EXTENDS ClientLimit

VARIABLE begun  \* [Keys -> Seq(0..Window)]: the latest starts, real ages

\* One start more than the minute allows is as many as need remembering.
Latest(b) ==
  IF Len(b) > MaxPerMinute THEN SubSeq(b, Len(b) - MaxPerMinute, Len(b)) ELSE b

Counts(k) == \E r \in Requests : request[r].phase = "read" /\ request[r].key = k
                                   /\ (Admit(r) \/ Count(r))

ObservedInit == Init /\ begun = [k \in Keys |-> <<>>]

ObservedNext ==
  /\ Next
  /\ begun' = [k \in Keys |->
       IF Tick THEN [i \in DOMAIN begun[k] |-> Older(begun[k][i], Window)]
       ELSE IF Counts(k) THEN Latest(Append(begun[k], 0)) ELSE begun[k]]

ObservedSpec == ObservedInit /\ [][ObservedNext]_<<vars, begun>>

(* The counter is the number of permits alive, so no end of a response      *)
(* leaves a key a slot short or a slot over (client_limit.rs Permit).       *)
InFlightIsPermits ==
  \A k \in Keys :
    inFlight[k] = Cardinality({r \in Requests : request[r].phase = "running"
                                                  /\ request[r].key = k})

(* A client told to wait is told enough: once the wait has passed, and      *)
(* nothing else has started on the key, the minute has room.  It holds for  *)
(* a reading that is older than the entries in the table.                   *)
RetryAfterIsEnough ==
  \A k \in Keys : \A reading \in 0..MaxDelay :
    LET s     == Unexpired(started[k], reading)
        later == [i \in DOMAIN s |-> s[i] + RetryAfter(s, reading)]
    IN  Len(s) >= MaxPerMinute => Room(later, 0)

(* However late the readings are, no stretch of the minute less that delay  *)
(* sees more starts than the limit: expired entries are dropped by a later  *)
(* reading, never by one that is behind.                                    *)
MinuteBounded ==
  \A k \in Keys :
    Cardinality({i \in DOMAIN begun[k] : begun[k][i] < Window - MaxDelay}) <= MaxPerMinute
=============================================================================

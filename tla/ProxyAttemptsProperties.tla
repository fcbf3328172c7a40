---------------------- MODULE ProxyAttemptsProperties ----------------------
(***************************************************************************)
(* What ProxyAttempts must satisfy.                                        *)
(***************************************************************************)
EXTENDS ProxyAttempts

(* The attempts a request has used are the accounts it has excluded: a      *)
(* round gives back exactly what the accounts it restores had taken, and no *)
(* retry on the same account is charged (outcome.rs                         *)
(* spend_capacity_retry_round).                                             *)
AttemptsCountExclusions ==
  \A r \in Requests : request[r].attempt = Cardinality(request[r].excluded)

(* However upstream fails, a request makes a bounded number of attempts: one *)
(* full sweep of the accounts per round, and the same-account retries.  An  *)
(* attempt is up to two sends: forward (proxy.rs) sends it once more with   *)
(* refreshed tokens when the answer is a 401.                               *)
SendsBounded ==
  \A r \in Requests :
    request[r].sends <= TransportRetries + OverloadRetries
                        + (CapacityRounds + 1) * request[r].limit

(* An account excluded for anything but capacity (a refused credential, an  *)
(* unreachable upstream) is out for the rest of the request, through every  *)
(* round that restores the others (proxy.rs capacity_excluded).             *)
BarredStaysBarred ==
  [][\A r \in Requests :
       request'[r].phase # "idle" =>
         request[r].excluded \ request[r].capacity \subseteq request'[r].excluded]_vars

(* No sequence of failures, rounds and backoffs keeps a request in the loop *)
(* (proxy.rs attempts): each one ends, unless upstream leaves an attempt    *)
(* without an answer for ever.  That wait has no timeout (transport.rs      *)
(* builds its client without one); only the client's leaving ends it.       *)
RequestsEnd ==
  \A r \in Requests : []<>(request[r].phase = "idle") \/ <>[](request[r].phase = "sent")

(* The client is refused last: a request that some account refused for      *)
(* capacity alone ends in failure only when the schedule of rounds is spent *)
(* (proxy.rs, the rule of the sweep; SPEC.md 12.3).                         *)
RefusedLast ==
  [][\A r \in Requests :
       GiveUp(r) /\ request[r].capacity # {} => request[r].rounds = CapacityRounds]_vars
=============================================================================

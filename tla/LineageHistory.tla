--------------------------- MODULE LineageHistory ---------------------------
(***************************************************************************)
(* LineageRouting with a memory the code does not have: for every request  *)
(* in flight, the accounts its lineage has left since it was selected.     *)
(***************************************************************************)
EXTENDS LineageProperties

VARIABLE departed   \* [Requests -> SUBSET Accounts]

Moves(x) ==
  /\ Live(lineage[x])
  /\ Live(lineage'[x])
  /\ lineage'[x].account # lineage[x].account

HistoryInit == Init /\ departed = [r \in Requests |-> {}]

HistoryNext ==
  /\ Next
  /\ departed' = [r \in Requests |->
       IF req[r].phase # "sent" \/ req'[r].phase # "sent" THEN {}
       ELSE IF Moves(req[r].root) THEN departed[r] \cup {lineage[req[r].root].account}
       ELSE departed[r]]

HistorySpec == HistoryInit /\ [][HistoryNext]_<<vars, departed>>

(* A late success never moves its lineage back to an account the lineage    *)
(* has left while the request was in flight (SPEC.md 6.2.1, outcome.rs      *)
(* record_lineage_success).  The code compares the account it observed with *)
(* the account recorded now, and a lineage that left and came back looks    *)
(* unmoved.                                                                 *)
NeverMovedBack ==
  [][\A r \in Requests :
       req[r].phase = "sent" /\ Moves(req[r].root) =>
         req'[r].phase = "sent" \/ req[r].account \notin departed[r]]_<<vars, departed>>
=============================================================================

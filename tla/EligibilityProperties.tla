----------------------- MODULE EligibilityProperties -----------------------
(***************************************************************************)
(* What Eligibility must satisfy in every state of the pool.               *)
(***************************************************************************)
EXTENDS Eligibility

(* At most one credential copy of an upstream identity serves a model at a  *)
(* time, whatever the copies' quota, cooldowns and order (SPEC.md 9.1,      *)
(* app.rs primary_upstream_account_id and usable).                          *)
OneServesPerIdentity ==
  \A m \in Models : \A a, b \in Accounts :
    Usable(a, m, 0) /\ Usable(b, m, 0) /\ identity[a] = identity[b] =>
      a = b \/ identity[a] = NoIdentity

(* A copy that is not cooling down and has quota of its own.                *)
Healthy(a, m) == ~ CoolingDown(a, m, 0) /\ quota[a] \in {"unknown", "low", "ample"}

(* An identity with a healthy copy is represented by a healthy copy: a      *)
(* stale, spent or cooling slot does not keep the identity (SPEC.md 9.1,    *)
(* app.rs identity_representative_before).                                  *)
HealthyCopyRepresents ==
  \A m \in Models : \A a \in Accounts :
    LET C == RepresentativeCandidates(a, m)
    IN  (\E b \in C : Healthy(b, m)) =>
          \E d \in C : Represents(d, m, 0) /\ Healthy(d, m)

(* A session placed on any account of the best tier has no reason to move   *)
(* to another candidate: placement and the moves of bound sessions rank     *)
(* accounts alike (routing.rs pick_balanced_account, bound_session_moves_to). *)
BestPlacementStays ==
  \A S \in SUBSET Accounts : \A b \in BestTier(S), a \in S : ~ MovesTo(b, a)
=============================================================================

------------------------- MODULE LineageProperties -------------------------
(***************************************************************************)
(* What LineageRouting must satisfy.                                       *)
(***************************************************************************)
EXTENDS LineageRouting, EligibilityProperties

-----------------------------------------------------------------------------
(* The strict mode: "Keep subagents together" is on throughout.            *)

(* A recorded lineage lives at least as long as the binding of any member:  *)
(* every success of a member renews it, a stale one included.  Were it to   *)
(* expire first, the lineage would be seeded again from its members and     *)
(* could jump to the account of a stale success without anybody moving it.  *)
LineageOutlivesMembers ==
  \A x \in Threads : Live(lineage[x]) =>
    \A t \in Members(x) : thread[t].left <= lineage[x].left

(* The lineage's account, as record_lineage_success, clear_sticky_for_      *)
(* account and expiry leave it, implements the pin of SPEC.md 6.2.1: a      *)
(* recorded pin moves only through a request that observed it.              *)
Pins == INSTANCE LineagePin WITH
  Roots <- Threads,
  pin   <- [x \in Threads |-> LineageAccount(x)],
  firm  <- [x \in Threads |-> Live(lineage[x])],
  claim <- [r \in Requests |->
              IF req[r].phase = "sent" /\ req[r].strict
              THEN <<req[r].root, req[r].seen, req[r].account>> ELSE <<>>]

ImplementsLineagePin == Pins!Spec

(* A lineage does not oscillate: while its threads stay in conversation and *)
(* some account can serve all their models, once the accounts stop changing *)
(* it stops moving between accounts, although requests of all its members   *)
(* keep arriving (routing.rs bound_session_may_move, bound_session_moves_to *)
(* and preferred_lineage_account).  A thread that falls silent past its     *)
(* lifetime no longer counts as a member, and its return may move the       *)
(* lineage again; so does every model that only one of its accounts serves. *)
InConversation ==
  /\ \A t \in Threads : Live(thread[t])
  /\ \E x \in Accounts : \A t \in Threads : Usable(x, ModelOf[t], 0)

LineageSettles ==
  <>[]InConversation =>
    \A x \in {t \in Threads : Parent[t] = NoThread} :
      <>[][Live(lineage[x]) /\ Live(lineage[x])' =>
             lineage[x].account' = lineage[x].account]_vars

-----------------------------------------------------------------------------
(* Either mode.                                                             *)

(* With the switch off every thread has a session of its own, and it does   *)
(* not oscillate either: while it lives and some account can serve it, once *)
(* the accounts stop changing it stays where it is, for a client that waits *)
(* for an answer before it asks again.  "Use Pro last" and the red outline  *)
(* rank the accounts alike when a session is placed and when it may move.   *)
SessionSettles ==
  \A t \in Threads :
    <>[](~ affinity /\ Live(sticky[t]) /\ \E x \in Accounts : Usable(x, ModelOf[t], 0)) =>
      <>[][Live(sticky[t]) /\ Live(sticky[t])' =>
             sticky[t].account' = sticky[t].account]_vars

(* A request routed with strict lineage binding never tries two copies of   *)
(* one upstream identity, whichever of its three choices (the lineage's     *)
(* account as a sibling may have moved it, a replacement, an overloaded     *)
(* account) gives the next one: a duplicated credential is the same budget  *)
(* and would only repeat the refusal (routing.rs select_lineage_account,    *)
(* app.rs excluded_upstream_identities; for pools whose slots keep their    *)
(* identities).  Other requests may: the sticky path looks at slots only.   *)
DistinctIdentitiesTried ==
  \A r \in Requests : req[r].strict =>
    \A x, y \in req[r].excluded :
      x # y => identity[x] # identity[y] \/ identity[x] = NoIdentity

(* While some account is held back by nothing but upstream overloads, a     *)
(* request that no account may serve retries one of those accounts rather   *)
(* than fail (routing.rs overloaded_fallback_account, SPEC.md 6.5).         *)
HeldByOverloadOnly(a, m) ==
  OverloadedOnly(a, m) /\ Usable(a, m, Span["overload"])

OverloadedStillServes ==
  \A m \in Models :
    (\E a \in Accounts : HeldByOverloadOnly(a, m)) /\ Eligible(m, {}) = {} =>
      OverloadedFallback(m, {}) # {}
=============================================================================

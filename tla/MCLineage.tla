------------------------------ MODULE MCLineage ------------------------------
(* A pool of three accounts: s1 serves one model, s2 and s3 serve both.  The *)
(* main thread and its subagent run different models.                         *)
EXTENDS LineageProperties, TLC
CONSTANTS s1, s2, s3, main, sub, m1, m2, i1, i2

MCServes    == (s1 :> {m1}) @@ (s2 :> {m1, m2}) @@ (s3 :> {m1, m2})
MCSignedIn  == (s1 :> i1) @@ (s2 :> i1) @@ (s3 :> i2)
MCTier      == (s1 :> 0) @@ (s2 :> 1) @@ (s3 :> 1)
MCPriority  == [x \in {s1, s2, s3} |-> 0]
MCOrd       == (s1 :> 1) @@ (s2 :> 2) @@ (s3 :> 3)
MCSpan      == [k \in CooldownClass |-> 1]
MCLongOverload == [k \in CooldownClass |-> IF k = "overload" THEN 2 ELSE 1]
MCParent    == (main :> NoThread) @@ (sub :> main)
Symmetry    == Permutations(Requests)
MCModelOf   == (main :> m1) @@ (sub :> m2)
=============================================================================

------------------------------ MODULE MCQuota ------------------------------
(* Two accounts of one workspace, and a poll that never stops.               *)
EXTENDS QuotaCycleProperties, TLC
CONSTANTS s1, s2, w
MCWorkspaceOf == [x \in {s1, s2} |-> w]
MCOrd == (s1 :> 1) @@ (s2 :> 2)
=============================================================================

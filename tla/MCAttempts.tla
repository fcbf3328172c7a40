---------------------------- MODULE MCAttempts ----------------------------
(* Two accounts and one model: every budget runs out.                        *)
EXTENDS ProxyAttemptsProperties, TLC
CONSTANTS s1, s2, m1, i1

MCSignedIn == (s1 :> i1) @@ (s2 :> NoIdentity)
MCServes   == [x \in {s1, s2} |-> {m1}]
MCZero     == [x \in {s1, s2} |-> 0]
MCOrd      == (s1 :> 1) @@ (s2 :> 2)
MCSpan     == [k \in CooldownClass |-> 1]
Symmetry   == Permutations(Requests)
=============================================================================

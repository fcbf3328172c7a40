------------------------------ MODULE MCSignIn ------------------------------
(* A credential that names its account, one that does not, and one whose      *)
(* login can act only as another workspace than the one it names.             *)
EXTENDS SignInProperties, TLC
CONSTANTS i1, i2, named, unnamed, elsewhere

MCNames  == (named :> i1) @@ (unnamed :> None) @@ (elsewhere :> i2)
MCActs   == (named :> i1) @@ (unnamed :> i2) @@ (elsewhere :> i1)
Symmetry == Permutations(Jobs)
=============================================================================

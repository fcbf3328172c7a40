----------------------------- MODULE LineagePin -----------------------------
(***************************************************************************)
(* What strict lineage binding promises (SPEC.md 6.2.1): a lineage is      *)
(* pinned to one account.  A request observes the pin when it takes an     *)
(* account; the pin moves when a request lands on another account having   *)
(* observed that very pin, when its account leaves, or it lapses when the  *)
(* lineage has been quiet for the binding's lifetime.  Nothing else moves  *)
(* it, and time alone never moves it to another account.                   *)
(*                                                                         *)
(* A pin is firm while it is recorded.  A lineage whose pinned account     *)
(* left has no record: it follows whichever member succeeded last.         *)
(***************************************************************************)
CONSTANTS Roots, Accounts, NoAccount, Requests

VARIABLES
  pin,    \* [Roots -> Accounts \cup {NoAccount}]
  firm,   \* [Roots -> BOOLEAN]
  claim   \* [Requests -> {NoClaim} \cup Claim]: what a request in flight took

vars == <<pin, firm, claim>>

NoClaim == <<>>
Claim   == Roots \X (Accounts \cup {NoAccount}) \X Accounts   \* root, seen, account

Init ==
  /\ pin = [x \in Roots |-> NoAccount]
  /\ firm = [x \in Roots |-> FALSE]
  /\ claim = [r \in Requests |-> NoClaim]

\* A request takes an account, having observed the pin.
Take(r) ==
  /\ claim[r] = NoClaim
  /\ \E x \in Roots, a \in Accounts :
       claim' = [claim EXCEPT ![r] = <<x, pin[x], a>>]
  /\ UNCHANGED <<pin, firm>>

\* Requests end, or give their account up to try another.
Drop(R) ==
  /\ claim' = [r \in Requests |-> IF r \in R THEN NoClaim ELSE claim[r]]
  /\ UNCHANGED <<pin, firm>>

\* A request succeeds.  A firm pin other than the one it observed stays.
Land(r) ==
  /\ claim[r] # NoClaim
  /\ LET x == claim[r][1]
         a == IF firm[x] /\ pin[x] # claim[r][2] THEN pin[x] ELSE claim[r][3]
     IN  /\ pin'[x] = a
         /\ firm' = [firm EXCEPT ![x] = TRUE]
         /\ \A y \in Roots \ {x} : firm[y] => pin'[y] = pin[y]
  /\ claim' = [claim EXCEPT ![r] = NoClaim]

\* Account a leaves the pool, or becomes another upstream account.
Release(a) ==
  /\ \A x \in Roots :
       /\ pin'[x] # a
       /\ firm'[x] = (firm[x] /\ pin[x] # a)
       /\ firm'[x] => pin'[x] = pin[x]
  /\ UNCHANGED claim

\* Time passes: pins lapse, none moves.
Lapse ==
  /\ \A x \in Roots :
       /\ pin'[x] \in {pin[x], NoAccount}
       /\ firm'[x] => firm[x] /\ pin'[x] = pin[x]
       /\ firm[x] /\ ~ firm'[x] => pin'[x] = NoAccount
  /\ UNCHANGED claim

Next ==
  \/ \E r \in Requests : Take(r) \/ Land(r)
  \/ \E R \in SUBSET Requests : Drop(R)
  \/ \E a \in Accounts : Release(a)
  \/ Lapse

Spec == Init /\ [][Next]_vars
=============================================================================

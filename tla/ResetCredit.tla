----------------------------- MODULE ResetCredit -----------------------------
(***************************************************************************)
(* The quota/reset-credit action of one account (reset_credit.rs): it      *)
(* spends an earned credit, and a failed attempt is kept so that "Try      *)
(* again" resends it under the same request id.  Every request has a task  *)
(* of its own, so that two may be under way on one account.                *)
(***************************************************************************)
EXTENDS Naturals, FiniteSets

CONSTANTS
  Handlers,  \* requests in progress
  Credits,   \* the account's earned credits
  Ids,       \* redeem request ids, drawn by random_uuid
  None,
  Expires    \* whether RESET_CREDIT_RETRY_WINDOW_MINUTES may pass

VARIABLES
  handler,  \* [Handlers -> Handler]
  pending,  \* ResetCreditAttempts: the failed attempt a retry resends
  drawn,    \* ids already used
  spent,    \* upstream: [Ids -> the credit redeemed under it, or None]
  shown     \* the attempt the owner was last told to try again, or None

vars == <<handler, pending, drawn, spent, shown>>

Attempt == [id : Ids, credit : Credits \cup {None}]

\* retry: the attempt the owner was told to try again when the request came.
Handler == [at : {"idle", "auth", "list", "consume"},
            attempt : Attempt \cup {None}, retry : Attempt \cup {None}]
Idle    == [at |-> "idle", attempt |-> None, retry |-> None]

TypeOK ==
  /\ handler \in [Handlers -> Handler]
  /\ pending \in Attempt \cup {None}
  /\ drawn \subseteq Ids
  /\ spent \in [Ids -> Credits \cup {None}]
  /\ shown \in Attempt \cup {None}

Init ==
  /\ handler = [h \in Handlers |-> Idle]
  /\ pending = None /\ shown = None
  /\ drawn = {}
  /\ spent = [i \in Ids |-> None]

Left == Credits \ {spent[i] : i \in Ids}

\* The action is refused while the snapshot shows no credit; the snapshot
\* may be older than the last spend.
Click(h) ==
  /\ handler[h].at = "idle"
  /\ handler' = [handler EXCEPT ![h] = [Idle EXCEPT !.at = "auth", !.retry = shown]]
  /\ UNCHANGED <<pending, drawn, spent, shown>>

AuthFails(h) ==
  /\ handler[h].at = "auth"
  /\ handler' = [handler EXCEPT ![h] = Idle]
  /\ UNCHANGED <<pending, drawn, spent, shown>>

\* resume: an attempt kept for longer than the retry window is dropped.
Expire ==
  /\ Expires /\ pending # None
  /\ pending' = None
  /\ UNCHANGED <<handler, drawn, spent, shown>>

\* The sign-in is there: a kept attempt is resent, else the credits are
\* listed.
Authorized(h) ==
  /\ handler[h].at = "auth"
  /\ handler' = [handler EXCEPT ![h].at = IF pending = None THEN "list" ELSE "consume",
                                ![h].attempt = pending]
  /\ UNCHANGED <<pending, drawn, spent, shown>>

\* native_reset_credit_choice under a fresh id; a listing that fails names
\* no credit.
Listed(h) ==
  /\ handler[h].at = "list"
  /\ \E i \in Ids \ drawn, c \in Left \cup {None} :
       /\ handler' = [handler EXCEPT ![h].at = "consume",
                                     ![h].attempt = [id |-> i, credit |-> c]]
       /\ drawn' = drawn \cup {i}
  /\ UNCHANGED <<pending, spent, shown>>

\* Upstream's side of a redemption: an id is redeemed once; without a credit
\* named it takes any left.
Redeems(a) ==
  IF spent[a.id] # None THEN {spent}
  ELSE {[spent EXCEPT ![a.id] = c] :
          c \in IF a.credit = None THEN Left ELSE Left \cap {a.credit}} \cup {spent}

\* A verdict, whatever it is, ends the attempt; then the quota is read again.
Verdict(h) ==
  /\ handler[h].at = "consume"
  /\ spent' \in Redeems(handler[h].attempt)
  /\ pending' = None
  /\ shown' = None
  /\ handler' = [handler EXCEPT ![h] = Idle]
  /\ UNCHANGED drawn

\* No answer, or one that says nothing: upstream may have redeemed it.  The
\* owner is told that trying again resends the same reset.
Lost(h) ==
  /\ handler[h].at = "consume"
  /\ spent' \in Redeems(handler[h].attempt)
  /\ pending' = handler[h].attempt
  /\ shown' = handler[h].attempt
  /\ handler' = [handler EXCEPT ![h] = Idle]
  /\ UNCHANGED drawn

Next ==
  \/ Expire
  \/ \E h \in Handlers :
       Click(h) \/ AuthFails(h) \/ Authorized(h) \/ Listed(h) \/ Verdict(h) \/ Lost(h)

Spec == Init /\ [][Next]_vars

(* Trying again, as the failed reset said, never spends a second credit:    *)
(* when the attempt it repeats went through, the retry redeems nothing.     *)
RetrySpendsOnce ==
  [][\A h \in Handlers :
       handler[h].at = "consume" /\ handler'[h].at = "idle"
         /\ handler[h].retry # None /\ spent[handler[h].retry.id] # None
       => spent' = spent]_vars
=============================================================================

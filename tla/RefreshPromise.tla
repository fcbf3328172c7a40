--------------------------- MODULE RefreshPromise ---------------------------
(***************************************************************************)
(* What the refresh of one account promises upstream, without callers,     *)
(* tasks or failures (credentials.rs, refresh_codex_auth_holding and       *)
(* persist).  Refresh tokens rotate on use.  One is presented by one       *)
(* exchange at a time, and once its successor is in auth.json it is never  *)
(* in auth.json again, hence never presented.  It promises no more: an     *)
(* exchange given up may have been granted by upstream, and its token is   *)
(* then presented a second time; and what an exchange stores takes the     *)
(* place of whatever auth.json holds at that moment.                       *)
(***************************************************************************)
CONSTANT Tokens   \* refresh tokens; 0 is none
VARIABLES
  held,  \* the refresh token auth.json holds
  out,   \* the one an exchange is presenting, or 0
  gone   \* the ones whose successor has been stored

vars == <<held, out, gone>>

Init == held = 0 /\ out = 0 /\ gone = {}

Present == out = 0 /\ held # 0 /\ held \notin gone /\ out' = held /\ UNCHANGED <<held, gone>>

\* The exchange ends and stores nothing: refused, timed out, cut off, its
\* reply left unread or not written.
Abandon == out # 0 /\ out' = 0 /\ UNCHANGED <<held, gone>>

\* It stores the successor upstream gave it.
Replace ==
  /\ out # 0
  /\ gone' = gone \cup {out} /\ out' = 0
  /\ held' \in Tokens \ gone'

\* It stores an access token only: upstream left the refresh token as it is.
Renew ==
  /\ out # 0 /\ out \notin gone
  /\ held' = out /\ out' = 0 /\ UNCHANGED gone

\* A login comes or goes.
SignIn == held' \in Tokens \ gone /\ UNCHANGED <<out, gone>>

Next == Present \/ Abandon \/ Replace \/ Renew \/ SignIn

Spec == Init /\ [][Next]_vars
=============================================================================

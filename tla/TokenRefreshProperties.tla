----------------------- MODULE TokenRefreshProperties -----------------------
(***************************************************************************)
(* What makes the refresh of an account's credential correct.              *)
(***************************************************************************)
EXTENDS TokenRefresh

\* The lock outlives the caller: however callers come, leave and come back, at
\* most one exchange of the account is out (refresh_codex_auth_holding keeps
\* the permit inside the task).
OneExchange == \A x, y \in Settling : x = y

\* A refresh forced by a 401 spends the credential the 401 was about: of
\* several requests rejected with one token the first refreshes and the others
\* take what it got (refresh_codex_auth_after_rejection).
ForcedOnlyIfRejected == \A x \in Settling : task[x].forced => task[x].tokens.access \in rejected

\* The refusal of a refresh is remembered against the tokens that were
\* presented, although auth.json may hold others by then (RefreshSettle.run).
RefusalsExact ==
  [][refused' \notin {None, refused} /\ refused'.reason = "refresh" =>
       \E x \in Settling : ~ Active(x)' /\ refused'.tokens = task[x].tokens]_vars

\* A drained process leaves no refresh behind but one that began after the
\* drain's last look (serve_until_stopped waits for refreshes, whoever started
\* them; the quota poll is never stopped).
DrainWaits == server = "leaving" => \A x \in Settling : task[x].late

Held == IF auth = None THEN 0 ELSE auth.refresh
Out  == IF Settling = {} THEN 0 ELSE task[CHOOSE x \in Settling : TRUE].tokens.refresh

\* Of one account's refresh tokens one is presented at a time, and one whose
\* replacement has been stored is never presented, held or stored again:
\* RefreshPromise, with the token of auth.json, that of the running task and
\* those that were replaced.  One whose exchange ended without a stored
\* replacement may be presented again, though upstream may have rotated it.
Promise == INSTANCE RefreshPromise WITH Tokens <- Token, held <- Held, out <- Out, gone <- replaced
SpentInTurn == Promise!Spec

\* Nobody waits for the lock or for an exchange for ever, though upstream may
\* never answer (CODEX_TOKEN_REFRESH_TIMEOUT bounds what the lock is held for).
LockReached == \A c \in Callers : caller[c].at \in {"lock", "exchange", "read"}
                                    ~> caller[c].at \notin {"lock", "exchange", "read"}

\* A stop signal ends the process although a stream or an exchange may not end
\* (the grace of serve_until_stopped).
Stops == server = "draining" ~> server = "stopped"

\* As the comments of record_refused_credential and RefusedCredentials have it:
\* tokens are remembered as refused by a quota read only if upstream did
\* refuse them.
CondemnsOnlyRefused ==
  refused # None /\ refused.reason = "usage" => refused.tokens.access \in rejected
=============================================================================

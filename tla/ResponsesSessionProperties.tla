--------------------- MODULE ResponsesSessionProperties ---------------------
(***************************************************************************)
(* What makes the relay of a Responses WebSocket correct.                  *)
(***************************************************************************)
EXTENDS ResponsesSession

\* The relay still has the response's last event to record.
InHand(r) == \E u \in Sockets : relay[u].at = "record" /\ relay[u].resp = r /\ Terminal(relay[u].event)

\* A response that has not been recorded is the session's active one or is
\* about to be recorded: however its terminal event, the end of either socket
\* and Codex's next request interleave, nothing that runs is out of shutdown's
\* reach (record clears the active response only if it is still its own).
RunningIsActive == \A r \in Responses : Unfinished(r) => bound.active = r \/ InHand(r)

\* The count the drain waits for is that of the responses that run (one is
\* counted right after it is made active, and may have ended before), and an
\* idle or a closed socket holds no drain.
Counting == IF loop.at = "count" THEN 1 ELSE 0
DrainExact ==
  /\ inFlight + Counting = Cardinality({r \in Responses : Unfinished(r)})
  /\ loop.at = "over" => \A r \in Responses : Unfinished(r) => InHand(r)

\* Every request of the session that went upstream went on one socket: a
\* request may refer to what its predecessors left there (sent).
OneSocketCarries == \A u, v \in Sockets : sock[u].carried # {} /\ sock[v].carried # {} => u = v

\* A capacity or account failure of the request upstream serves is not shown
\* to a waiting Codex before content, whatever other sessions do to the
\* account's run of overloads (one reported once more, when no request runs,
\* is passed on).
FailuresHeldBack ==
  [][\A u \in Sockets :
       /\ relay[u].at = "got" /\ relay[u].at' # "got" /\ Retryable(relay[u].event)
       /\ relay[u].asked /\ codex.at = "waiting" /\ codex.at' = "leaving"
       => relay[u].resp # None /\ response[relay[u].resp].committed]_vars

\* Codex is not left waiting for nobody: while its socket is open and upstream
\* serves no request of it, the reader has its message or a relay has something
\* to deliver, to record or to close (messages queued behind the Close of an
\* upstream socket are lost).
Busy(u) == relay[u].at \in {"got", "record", "backoff"}
             \/ (relay[u].at = "next" /\ sock[u].at = "closing")
NobodyForgotten ==
  /\ codex.at = "waiting" /\ channel = "open"
  /\ \A u \in Sockets : sock[u].serving = None
  => codex.message # None \/ loop.at \notin {"read", "over"} \/ \E u \in Sockets : Busy(u)

\* As the comment of finish has it, a response is recorded exactly once; so a
\* session that is over, with nothing left to record, runs none.
DrainReleased ==
  loop.at = "over" /\ (\A u \in Sockets : relay[u].at # "record") => inFlight = 0
=============================================================================

-------------------------- MODULE ResponsesSession --------------------------
(***************************************************************************)
(* One Responses WebSocket (responses_ws.rs): the reader of Codex's        *)
(* messages, the upstream socket it is bound to, the relay of every        *)
(* upstream socket it has opened, and Codex at the other end.              *)
(*                                                                         *)
(* The reader and the relays run in parallel and share the session's       *)
(* state, one lock at a time; a step here is what happens between two      *)
(* looks at that state.  Messages are passed on as they are, so only their *)
(* kind is kept.  Other sessions share the account's run of overloads.     *)
(***************************************************************************)
EXTENDS Integers, FiniteSets

CONSTANTS
  Accounts,   \* ids
  Direct,     \* those with a Codex WebSocket: uses_codex_backend_directly
  Sockets,    \* upstream sockets the session may open
  Responses,  \* response.create messages Codex may send
  Warmups,    \* those with generate=false: connection setup, not a request
  Pins,       \* routing pins of the parent thread (routing_pin.rs)
  None,       \* no socket, no response, no account
  Attempts,   \* proxy_attempt_limit
  Drops,      \* OVERLOAD_SAME_ACCOUNT_RETRY_LIMIT
  MaxHeld,    \* WS_PRECOMMIT_MAX_BLOCKS
  Reviewer,   \* a Guardian reviewer's socket: it follows its parent's pin
  Overlap,    \* Codex may send a request before the last one ended
  Stray       \* what upstream may say on a socket that has carried no request

ASSUME SessionAssumption ==
  /\ Direct \subseteq Accounts
  /\ IsFiniteSet(Responses) /\ Warmups \subseteq Responses
  /\ None \notin Accounts \cup Sockets \cup Responses
  /\ Attempts \in Nat \ {0} /\ Drops \in Nat /\ MaxHeld \in Nat
  /\ Reviewer \in BOOLEAN /\ Overlap \in BOOLEAN
  /\ Stray \subseteq {"life", "over", "account", "caller"}

VARIABLES
  codex,     \* what Codex does and has seen
  channel,   \* the client leg's writer
  loop,      \* run: the reader of Codex's messages
  bound,     \* SessionState
  sock,      \* [Sockets -> Socket]
  relay,     \* [Sockets -> Relay]
  response,  \* [Responses -> Response]
  inFlight,  \* app.in_flight, this session's part
  pin,       \* the parent thread's latest pin
  drops,     \* ws_overload_drops, per account
  cooling    \* accounts a cooldown keeps out of selection

vars == <<codex, channel, loop, bound, sock, relay, response, inFlight, pin, drops, cooling>>

\* life: a lifecycle event, held back; over: an overload without advice;
\* account: any other failure of the account; caller: the request's own.
Failure == {"over", "account", "caller"}
Event   == {"life", "content", "completed"} \cup Failure
Terminal(e)  == e = "completed" \/ e \in Failure
Retryable(e) == e \in {"over", "account"}

Codex    == [at : {"opening", "ready", "waiting", "leaving", "gone"},
             message : Responses \cup {None}]
Loop     == [at : {"dial", "opening", "read", "place", "pin", "bind", "count", "send", "over"},
             next : {"read", "pin", "bind"}, resp : Responses \cup {None},
             excluded : SUBSET Accounts, candidate : Accounts \cup {None}, pin : Pins]
Bound    == [upstream : Sockets \cup {None}, account : Accounts \cup {None},
             active : Responses \cup {None}, sent : BOOLEAN, pin : Pins]
Socket   == [at : {"free", "open", "closing", "closed"}, account : Accounts \cup {None},
             serving : Responses \cup {None}, carried : SUBSET Responses]
Relay    == [at : {"none", "next", "got", "record", "backoff", "over"},
             event : Event, asked : BOOLEAN, resp : Responses \cup {None}]
Response == [account : Accounts \cup {None}, started : BOOLEAN, finished : BOOLEAN,
             held : 0..MaxHeld, committed : BOOLEAN,
             outcome : {"none", "success", "failure", "cut"}]

TypeOK ==
  /\ codex \in Codex
  /\ channel \in {"open", "closing", "closed"}
  /\ loop \in Loop
  /\ bound \in Bound
  /\ sock \in [Sockets -> Socket]
  /\ relay \in [Sockets -> Relay]
  /\ response \in [Responses -> Response]
  /\ inFlight \in Int
  /\ pin \in Pins
  /\ drops \in [Accounts -> 0..Drops]
  /\ cooling \subseteq Accounts

-----------------------------------------------------------------------------
\* Codex and the client leg.

\* The writer passes frames until the first Close; then the channel is dead.
SendClient(seen) ==
  codex' = IF channel = "open" /\ codex.at = "waiting" THEN seen ELSE codex
CloseClient == channel' = IF channel = "open" THEN "closing" ELSE channel

\* What Codex makes of a terminal event: it leaves a socket whose response
\* failed.
Sees(e) ==
  IF ~ Terminal(e) THEN codex
  ELSE [codex EXCEPT !.at = IF e = "completed" THEN "ready" ELSE "leaving"]

CodexSends(r) ==
  /\ codex.at = "ready" \/ (Overlap /\ codex.at = "waiting")
  /\ codex.message = None
  /\ ~ response[r].started /\ loop.resp # r
  /\ codex' = [codex EXCEPT !.at = "waiting", !.message = r]
  /\ UNCHANGED <<channel, loop, bound, sock, relay, response, inFlight, pin, drops, cooling>>

\* Codex leaves, or sees its socket closed.
CodexGoes ==
  /\ codex.at \in {"ready", "waiting", "leaving"}
  /\ codex' = [at |-> "gone", message |-> None]
  /\ UNCHANGED <<channel, loop, bound, sock, relay, response, inFlight, pin, drops, cooling>>

\* write_loop has written the Close and ends.
WriterEnds ==
  /\ channel = "closing" /\ channel' = "closed"
  /\ UNCHANGED <<codex, loop, bound, sock, relay, response, inFlight, pin, drops, cooling>>

-----------------------------------------------------------------------------
\* A response ends.

MutantNeverSwapped(r) == response[r].started

\* finished.swap: whoever is first records it.
Unfinished(r) == response[r].started /\ ~ response[r].finished

\* A prewarm leaves no mark on its account.
Counted(r) == Unfinished(r) /\ r \notin Warmups

\* finish, of the responses rs with the given outcome.
Finish(rs, outcome) ==
  LET first == {r \in rs : Unfinished(r)}
  IN  /\ response' = [r \in Responses |->
                        IF r \notin first THEN response[r]
                        ELSE [response[r] EXCEPT !.finished = TRUE, !.outcome = outcome]]
      /\ inFlight' = inFlight - Cardinality(first)

Active == {bound.active} \ {None}

CloseSocket(u) == [sock EXCEPT ![u].at = IF @ = "open" THEN "closing" ELSE @]

\* shutdown: the reader is done with Codex.
Shutdown(rs) ==
  /\ Finish(rs \cup Active, "cut")
  /\ bound' = [bound EXCEPT !.upstream = None, !.active = None]
  /\ sock' = IF bound.upstream = None THEN sock ELSE CloseSocket(bound.upstream)
  /\ loop' = [loop EXCEPT !.at = "over", !.resp = None, !.candidate = None, !.excluded = {}]
  /\ CloseClient

-----------------------------------------------------------------------------
\* Opening an upstream socket: dial, at the handshake and again in redial.

\* select_account_for_route, among the accounts it may choose from
\* (LineageRouting says which); an API-key account is passed over.
Selectable == Accounts \ cooling

Dial(c) ==
  /\ loop.at \in {"dial"} /\ loop.candidate = None
  /\ Cardinality(loop.excluded) < Attempts
  /\ c \in Selectable \ loop.excluded
  /\ loop' = [loop EXCEPT !.excluded = @ \cup {c}, !.pin = pin,
                          !.candidate = IF c \in Direct THEN c ELSE None]
  /\ UNCHANGED <<codex, channel, bound, sock, relay, response, inFlight, pin, drops, cooling>>

BoundTo(u) ==
  [bound EXCEPT !.upstream = u, !.account = loop.candidate, !.sent = FALSE, !.pin = loop.pin]

\* The socket is open; at the handshake Codex is let in, and the relay starts.
Dialled(u) ==
  /\ loop.at = "dial" /\ loop.candidate # None /\ sock[u].at = "free"
  /\ sock' = [sock EXCEPT ![u] = [at |-> "open", account |-> loop.candidate,
                                  serving |-> None, carried |-> {}]]
  /\ relay' = [relay EXCEPT ![u].at = "next"]
  /\ bound' = BoundTo(u)
  /\ loop' = [loop EXCEPT !.at = loop.next, !.candidate = None, !.excluded = {}]
  /\ codex' = IF codex.at = "opening" THEN [codex EXCEPT !.at = "ready"] ELSE codex
  /\ UNCHANGED <<channel, response, inFlight, pin, drops, cooling>>

\* Unreachable after its retries, or refused: the account cools down and the
\* next one is tried.
DialFails ==
  /\ loop.at = "dial" /\ loop.candidate # None
  /\ cooling' = cooling \cup {loop.candidate}
  /\ loop' = [loop EXCEPT !.candidate = None]
  /\ UNCHANGED <<codex, channel, bound, sock, relay, response, inFlight, pin, drops>>

\* Nobody is left, or upstream answered 426: the handshake is refused, or the
\* open socket is closed.
NoUpstream ==
  /\ loop.at = "dial"
  /\ \/ loop.candidate # None
     \/ Cardinality(loop.excluded) >= Attempts \/ Selectable \subseteq loop.excluded
  /\ codex' = IF codex.at = "opening" THEN [codex EXCEPT !.at = "gone"] ELSE codex
  /\ Shutdown({})
  /\ UNCHANGED <<relay, pin, drops, cooling>>

\* redial: the old socket is let go before the new one is dialled.
Redial(next) ==
  /\ loop' = [loop EXCEPT !.at = "dial", !.next = next]
  /\ bound' = [bound EXCEPT !.upstream = None]
  /\ sock' = IF bound.upstream = None THEN sock ELSE CloseSocket(bound.upstream)

-----------------------------------------------------------------------------
\* The reader: run and start_response.

\* Codex is gone, or said something the reader ends on.
ReadEnd ==
  /\ loop.at = "read" /\ codex.at = "gone"
  /\ Shutdown({})
  /\ UNCHANGED <<codex, relay, pin, drops, cooling>>

\* gate_response_create, the upstream switch and the key's limits may refuse
\* it: nothing of it goes upstream and the socket is closed.
ReadCreate ==
  /\ loop.at = "read" /\ codex.message # None
  /\ codex' = [codex EXCEPT !.message = None]
  /\ \/ /\ loop' = [loop EXCEPT !.at = "place", !.resp = codex.message]
        /\ UNCHANGED <<channel, bound, sock, response, inFlight>>
     \/ Shutdown({})
  /\ UNCHANGED <<relay, pin, drops, cooling>>

MutantAlwaysMovable == TRUE

\* Nothing has gone out on the upstream socket, so it may still be replaced.
Movable == ~ bound.sent

\* Selection may keep the bound account, name another, or find none.
Place ==
  /\ loop.at = "place"
  /\ \/ /\ bound.account \in Selectable
        /\ loop' = [loop EXCEPT !.at = "pin"]
        /\ UNCHANGED <<channel, bound, sock, response, inFlight>>
     \/ /\ Selectable # {bound.account} /\ Movable /\ Redial("pin")
        /\ UNCHANGED <<channel, response, inFlight>>
     \/ Selectable # {bound.account} /\ ~ Movable /\ Shutdown({})
  /\ UNCHANGED <<codex, relay, pin, drops, cooling>>

\* A reviewer's socket carries its parent's latest pin.
CheckPin ==
  /\ loop.at = "pin"
  /\ LET moved == Reviewer /\ pin # bound.pin
     IN  \/ /\ ~ moved
            /\ loop' = [loop EXCEPT !.at = "bind"]
            /\ UNCHANGED <<channel, bound, sock, response, inFlight>>
         \/ moved /\ Movable /\ Redial("bind") /\ UNCHANGED <<channel, response, inFlight>>
         \/ moved /\ ~ Movable /\ Shutdown({})
  /\ UNCHANGED <<codex, relay, pin, drops, cooling>>

\* The response is the session's active one, and its socket is used;
Bind ==
  /\ loop.at = "bind"
  /\ response' = [response EXCEPT ![loop.resp].started = TRUE,
                                  ![loop.resp].account = bound.account]
  /\ bound' = [bound EXCEPT !.active = loop.resp, !.sent = TRUE]
  /\ loop' = [loop EXCEPT !.at = "count"]
  /\ UNCHANGED <<codex, channel, sock, relay, inFlight, pin, drops, cooling>>

\* then the drain waits for it.
Count ==
  /\ loop.at = "count"
  /\ inFlight' = inFlight + 1
  /\ loop' = [loop EXCEPT !.at = "send"]
  /\ UNCHANGED <<codex, channel, bound, sock, relay, response, pin, drops, cooling>>

\* The upstream leg's writer drops what is queued behind its Close.
Send ==
  /\ loop.at = "send"
  /\ LET u == bound.upstream
         r == loop.resp
     IN  \/ /\ u # None
            /\ sock' = IF sock[u].at # "open" THEN sock
                       ELSE [sock EXCEPT ![u].serving = r, ![u].carried = @ \cup {r}]
            /\ loop' = [loop EXCEPT !.at = "read", !.resp = None]
            /\ UNCHANGED <<channel, bound, response, inFlight>>
         \/ (IF u = None THEN TRUE ELSE sock[u].at # "open") /\ Shutdown({r})
  /\ UNCHANGED <<codex, relay, pin, drops, cooling>>

-----------------------------------------------------------------------------
\* The relay of an upstream socket.

\* Upstream speaks of the request it serves, reports a failure once more on a
\* socket that has carried one, and says some things unasked: a notice on any
\* socket it has open.  Whatever it is, the relay takes it to be of the
\* response that is active, on a socket the session has replaced too.
Receive(u, e) ==
  /\ relay[u].at = "next" /\ sock[u].at \in {"open", "closing"}
  /\ sock[u].serving # None \/ (sock[u].carried # {} /\ e \in Failure) \/ e \in Stray
  /\ sock' = [sock EXCEPT ![u].serving = IF Terminal(e) THEN None ELSE @]
  /\ relay' = [relay EXCEPT ![u] = [at |-> "got", event |-> e, asked |-> sock[u].serving # None,
                                    resp |-> bound.active]]
  /\ UNCHANGED <<codex, channel, loop, bound, response, inFlight, pin, drops, cooling>>

Got(u) == relay[u].at = "got"
Held(u) == relay[u].resp # None /\ ~ response[relay[u].resp].committed
Unheard == [at |-> "none", event |-> "life", asked |-> FALSE, resp |-> None]
Goes(u, at) ==
  relay' = [relay EXCEPT ![u] = IF at = "record" THEN [@ EXCEPT !.at = at]
                                ELSE [Unheard EXCEPT !.at = at]]

\* Content is flowing, or no response runs: the event goes to Codex.
Pass(u) ==
  /\ Got(u) /\ ~ Held(u)
  /\ SendClient(Sees(relay[u].event))
  /\ IF channel = "closed"
     THEN Goes(u, "over") /\ sock' = CloseSocket(u)
     ELSE Goes(u, IF relay[u].resp = None THEN "next" ELSE "record") /\ UNCHANGED sock
  /\ UNCHANGED <<channel, loop, bound, response, inFlight, pin, drops, cooling>>

\* The lifecycle preamble is held back.
Hold(u) ==
  /\ Got(u) /\ Held(u) /\ relay[u].event = "life"
  /\ response[relay[u].resp].held < MaxHeld
  /\ response' = [response EXCEPT ![relay[u].resp].held = @ + 1]
  /\ Goes(u, "next")
  /\ UNCHANGED <<codex, channel, loop, bound, sock, inFlight, pin, drops, cooling>>

MutantShowOverload(e) == e = "account"

\* A failure another socket may yet answer.
HandedOver(e) == Retryable(e)

\* note_ws_overload_drop: past the schedule the account cools down.
Spent(a) == drops[a] + 1 > Drops

\* Such a failure before content is not shown: the response is recorded, the
\* upstream socket closed, and Codex's own socket too, after the backoff when
\* the account is to be tried again.
HandOver(u) ==
  /\ Got(u) /\ Held(u) /\ HandedOver(relay[u].event)
  /\ LET a == response[relay[u].resp].account
         again == relay[u].event = "over" /\ ~ Spent(a)
     IN  /\ drops' = IF relay[u].event = "over"
                     THEN [drops EXCEPT ![a] = IF Spent(a) THEN 0 ELSE @ + 1]
                     ELSE drops
         /\ cooling' = IF again THEN cooling ELSE cooling \cup {a}
         /\ Finish({relay[u].resp}, "cut")
         /\ bound' = [bound EXCEPT !.active = None]
         /\ sock' = CloseSocket(u)
         /\ IF again THEN Goes(u, "backoff") /\ UNCHANGED channel
                     ELSE Goes(u, "over") /\ CloseClient
  /\ UNCHANGED <<codex, loop, pin>>

\* overload_retry_wait; the session's end cuts it short.
Backoff(u) ==
  /\ relay[u].at = "backoff"
  /\ IF loop.at = "over" THEN UNCHANGED channel ELSE CloseClient
  /\ Goes(u, "over")
  /\ UNCHANGED <<codex, loop, bound, sock, response, inFlight, pin, drops, cooling>>

\* First content, or a failure of the request's own: the preamble goes out,
\* and everything from here on.
Commit(u) ==
  /\ Got(u) /\ Held(u) /\ ~ HandedOver(relay[u].event)
  /\ relay[u].event = "life" => response[relay[u].resp].held = MaxHeld
  /\ response' = [response EXCEPT ![relay[u].resp].committed = TRUE,
                                  ![relay[u].resp].held = 0]
  /\ SendClient(Sees(relay[u].event))
  /\ IF channel = "closed"
     THEN Goes(u, "over") /\ sock' = CloseSocket(u)
     ELSE Goes(u, "record") /\ UNCHANGED sock
  /\ UNCHANGED <<channel, loop, bound, inFlight, pin, drops, cooling>>

MutantClearsActive(r) == None

\* Codex may have sent its next request since: that one stays active.
ActiveAfter(r) == IF bound.active = r THEN None ELSE bound.active

\* record: the event is the response's last one, or it is merged into it.
Record(u) ==
  /\ relay[u].at = "record"
  /\ LET r == relay[u].resp
         e == relay[u].event
         a == response[r].account
     IN  /\ IF ~ Terminal(e)
            THEN UNCHANGED <<bound, response, inFlight>>
            ELSE /\ bound' = [bound EXCEPT !.active = ActiveAfter(r)]
                 /\ Finish({r}, IF e = "completed" THEN "success" ELSE "failure")
         /\ drops' = IF e = "completed" /\ Counted(r) THEN [drops EXCEPT ![a] = 0] ELSE drops
         /\ IF e = "account"
            THEN /\ cooling' = IF Counted(r) THEN cooling \cup {a} ELSE cooling
                 /\ CloseClient /\ sock' = CloseSocket(u) /\ Goes(u, "over")
            ELSE UNCHANGED <<channel, sock, cooling>> /\ Goes(u, "next")
  /\ UNCHANGED <<codex, loop, pin>>

MutantWhileActive(u) == bound.upstream = u /\ bound.active # None

\* A socket the session has replaced is no longer current.
Current(u) == bound.upstream = u

\* upstream_gone: the response it was serving is cut; a drop cools nobody.
Gone(u) ==
  /\ relay[u].at = "next" /\ sock[u].at # "free"
  /\ sock' = [sock EXCEPT ![u].at = "closed", ![u].serving = None]
  /\ IF Current(u)
     THEN /\ bound' = [bound EXCEPT !.active = None]
          /\ Finish(Active, "cut")
          /\ CloseClient
     ELSE UNCHANGED <<bound, response, inFlight, channel>>
  /\ Goes(u, "over")
  /\ UNCHANGED <<codex, loop, pin, drops, cooling>>

-----------------------------------------------------------------------------
\* Everyone else.

\* The parent thread opens a new socket.
NewPin ==
  /\ Reviewer /\ pin' \in Pins \ {pin}
  /\ UNCHANGED <<codex, channel, loop, bound, sock, relay, response, inFlight, drops, cooling>>

\* Other sessions on the account: an overload of theirs, a success, a
\* cooldown; and the clock.
OtherDrop(a) ==
  /\ drops' = [drops EXCEPT ![a] = IF Spent(a) THEN 0 ELSE @ + 1]
  /\ cooling' = IF Spent(a) THEN cooling \cup {a} ELSE cooling
  /\ UNCHANGED <<codex, channel, loop, bound, sock, relay, response, inFlight, pin>>

OtherSuccess(a) ==
  /\ drops' = [drops EXCEPT ![a] = 0]
  /\ UNCHANGED <<codex, channel, loop, bound, sock, relay, response, inFlight, pin, cooling>>

CooldownEnds(a) ==
  /\ a \in cooling /\ cooling' = cooling \ {a}
  /\ UNCHANGED <<codex, channel, loop, bound, sock, relay, response, inFlight, pin, drops>>

Init ==
  /\ codex = [at |-> "opening", message |-> None]
  /\ channel = "open"
  /\ pin \in Pins
  /\ loop = [at |-> "dial", next |-> "read", resp |-> None, excluded |-> {},
             candidate |-> None, pin |-> pin]
  /\ bound = [upstream |-> None, account |-> None, active |-> None, sent |-> FALSE, pin |-> pin]
  /\ sock = [u \in Sockets |-> [at |-> "free", account |-> None, serving |-> None, carried |-> {}]]
  /\ relay = [u \in Sockets |-> Unheard]
  /\ response = [r \in Responses |-> [account |-> None, started |-> FALSE, finished |-> FALSE,
                                      held |-> 0, committed |-> FALSE, outcome |-> "none"]]
  /\ inFlight = 0
  /\ drops = [a \in Accounts |-> 0]
  /\ cooling = {}

RelayStep(u) ==
  Pass(u) \/ Hold(u) \/ HandOver(u) \/ Backoff(u) \/ Commit(u) \/ Record(u) \/ Gone(u)

ReaderStep ==
  \/ \E c \in Accounts : Dial(c)
  \/ \E u \in Sockets : Dialled(u)
  \/ DialFails \/ NoUpstream
  \/ ReadEnd \/ ReadCreate \/ Place \/ CheckPin \/ Bind \/ Count \/ Send

Next ==
  \/ \E r \in Responses : CodexSends(r)
  \/ CodexGoes \/ WriterEnds \/ ReaderStep
  \/ \E u \in Sockets : RelayStep(u) \/ \E e \in Event : Receive(u, e)
  \/ NewPin
  \/ \E a \in Accounts : OtherDrop(a) \/ OtherSuccess(a) \/ CooldownEnds(a)

Spec == Init /\ [][Next]_vars
=============================================================================

----------------------- MODULE ResponsesSessionProofs -----------------------
(***************************************************************************)
(* Theorems about ResponsesSession, for any number of accounts, of         *)
(* upstream sockets and of requests.                                       *)
(***************************************************************************)
EXTENDS ResponsesSessionProperties, FiniteSetTheorems, TLAPS

-----------------------------------------------------------------------------
(* Types                                                                    *)

LEMMA InitType == Init => TypeOK
<1> SUFFICES ASSUME Init PROVE TypeOK
  OBVIOUS
<1>1. codex \in Codex /\ channel \in {"open", "closing", "closed"} /\ loop \in Loop /\ bound \in Bound
  BY DEF Init, Codex, Loop, Bound
<1>2. sock \in [Sockets -> Socket] /\ relay \in [Sockets -> Relay]
  BY DEF Init, Socket, Relay, Unheard, Event, Failure
<1>3. response \in [Responses -> Response] /\ drops \in [Accounts -> 0..Drops]
  BY SessionAssumption DEF Init, Response
<1>4. inFlight \in Int /\ pin \in Pins /\ cooling \subseteq Accounts
  BY DEF Init
<1>5. QED BY <1>1, <1>2, <1>3, <1>4 DEF TypeOK

\* The parts of the state steps are typed by.
ClientType == codex \in Codex /\ channel \in {"open", "closing", "closed"}
ReaderType == loop \in Loop /\ bound \in Bound
SocketType == sock \in [Sockets -> Socket] /\ relay \in [Sockets -> Relay]
ServeType  == response \in [Responses -> Response] /\ inFlight \in Int
OtherType  == pin \in Pins /\ drops \in [Accounts -> 0..Drops] /\ cooling \subseteq Accounts

LEMMA Parts == TypeOK <=> ClientType /\ ReaderType /\ SocketType /\ ServeType /\ OtherType
BY DEF TypeOK, ClientType, ReaderType, SocketType, ServeType, OtherType

\* The responses sessions record are finite in number.
LEMMA FinishType ==
  ASSUME ServeType, NEW rs \in SUBSET Responses, NEW outcome \in {"success", "failure", "cut"},
         Finish(rs, outcome)
  PROVE  ServeType'
<1> DEFINE first == {r \in rs : Unfinished(r)}
<1>1. response' \in [Responses -> Response]
  <2>1. \A r \in Responses :
          [response[r] EXCEPT !.finished = TRUE, !.outcome = outcome] \in Response
    BY DEF ServeType, Response
  <2>2. QED BY <2>1 DEF Finish, ServeType
<1>2. Cardinality(first) \in Int
  <2>1. IsFiniteSet(first)
    BY SessionAssumption, FS_Subset
  <2>2. QED BY <2>1, FS_CardinalityType
<1>3. inFlight' = inFlight - Cardinality(first)
  BY DEF Finish
<1>4. QED BY <1>1, <1>2, <1>3 DEF ServeType

LEMMA CloseSocketType ==
  ASSUME SocketType, NEW u \in Sockets
  PROVE  CloseSocket(u) \in [Sockets -> Socket]
BY DEF SocketType, Socket, CloseSocket

LEMMA GoesType ==
  ASSUME SocketType, NEW u \in Sockets, NEW at \in {"next", "record", "backoff", "over"},
         Goes(u, at)
  PROVE  relay' \in [Sockets -> Relay]
BY DEF SocketType, Relay, Goes, Unheard, Event, Failure

LEMMA ShutdownType ==
  ASSUME TypeOK, NEW rs \in SUBSET Responses, Shutdown(rs)
  PROVE  /\ ServeType' /\ ReaderType' /\ sock' \in [Sockets -> Socket]
         /\ channel' \in {"open", "closing", "closed"}
<1>1. ServeType'
  <2>1. rs \cup Active \subseteq Responses
    BY DEF TypeOK, Active, Bound
  <2>2. QED BY <2>1, Parts, FinishType DEF Shutdown
<1>2. loop' \in Loop /\ bound' \in Bound
  BY DEF TypeOK, Shutdown, Loop, Bound
<1>3. sock' \in [Sockets -> Socket]
  BY Parts, CloseSocketType DEF TypeOK, Shutdown, Bound
<1>4. channel' \in {"open", "closing", "closed"}
  BY DEF TypeOK, Shutdown, CloseClient
<1>5. QED BY <1>1, <1>2, <1>3, <1>4 DEF ReaderType

LEMMA RedialType ==
  ASSUME TypeOK, NEW next \in {"read", "pin", "bind"}, Redial(next)
  PROVE  ReaderType' /\ sock' \in [Sockets -> Socket]
<1>1. loop' \in Loop /\ bound' \in Bound
  BY DEF TypeOK, Redial, Loop, Bound
<1>2. sock' \in [Sockets -> Socket]
  BY Parts, CloseSocketType DEF TypeOK, Redial, Bound
<1>3. QED BY <1>1, <1>2 DEF ReaderType

LEMMA SeesType ==
  ASSUME ClientType, NEW e \in Event, SendClient(Sees(e))
  PROVE  codex' \in Codex
BY DEF ClientType, SendClient, Sees, Codex

LEMMA CodexSendsType ==
  ASSUME TypeOK, NEW r \in Responses, CodexSends(r)
  PROVE  TypeOK'
BY DEF TypeOK, CodexSends, Codex

LEMMA CodexGoesType == ASSUME TypeOK, CodexGoes \/ WriterEnds PROVE TypeOK'
<1>1. codex' \in Codex /\ channel' \in {"open", "closing", "closed"}
  BY DEF TypeOK, CodexGoes, WriterEnds, Codex
<1>2. QED BY <1>1 DEF TypeOK, CodexGoes, WriterEnds

LEMMA DialType ==
  ASSUME TypeOK, NEW c \in Accounts, NEW u \in Sockets, Dial(c) \/ Dialled(u) \/ DialFails
  PROVE  TypeOK'
<1>1. CASE Dial(c)
  BY <1>1 DEF TypeOK, Dial, Loop, Selectable
<1>2. CASE Dialled(u)
  <2>1. loop' \in Loop /\ codex' \in Codex
    BY <1>2 DEF TypeOK, Dialled, Loop, Codex
  <2>2. bound' \in Bound
    BY <1>2 DEF TypeOK, Dialled, BoundTo, Loop, Bound
  <2>3. sock' \in [Sockets -> Socket]
    BY <1>2 DEF TypeOK, Dialled, Loop, Socket
  <2>4. relay' \in [Sockets -> Relay]
    BY <1>2 DEF TypeOK, Dialled, Relay
  <2>5. QED BY <1>2, <2>1, <2>2, <2>3, <2>4 DEF TypeOK, Dialled
<1>3. CASE DialFails
  BY <1>3 DEF TypeOK, DialFails, Loop
<1>4. QED BY <1>1, <1>2, <1>3

LEMMA EndType ==
  ASSUME TypeOK, NEW rs \in SUBSET Responses, Shutdown(rs), codex' \in Codex,
         UNCHANGED <<relay, pin, drops, cooling>>
  PROVE  TypeOK'
<1>1. /\ ServeType' /\ ReaderType' /\ sock' \in [Sockets -> Socket]
      /\ channel' \in {"open", "closing", "closed"}
  BY ShutdownType
<1>2. QED BY <1>1 DEF TypeOK, ServeType, ReaderType

LEMMA NoUpstreamType == ASSUME TypeOK, NoUpstream PROVE TypeOK'
<1>1. codex' \in Codex
  BY DEF TypeOK, NoUpstream, Codex
<1>2. QED BY <1>1, EndType DEF NoUpstream

LEMMA ReadType == ASSUME TypeOK, ReadEnd \/ ReadCreate PROVE TypeOK'
<1>1. codex' \in Codex /\ UNCHANGED <<relay, pin, drops, cooling>>
  BY DEF TypeOK, ReadEnd, ReadCreate, Codex
<1>2. CASE Shutdown({})
  BY <1>1, <1>2, EndType
<1>3. CASE /\ loop' = [loop EXCEPT !.at = "place", !.resp = codex.message]
           /\ UNCHANGED <<channel, bound, sock, response, inFlight>>
  <2>1. loop' \in Loop
    BY <1>3 DEF TypeOK, Loop, Codex
  <2>2. QED BY <1>1, <1>3, <2>1 DEF TypeOK
<1>4. QED BY <1>2, <1>3 DEF ReadEnd, ReadCreate

LEMMA PlaceType == ASSUME TypeOK, Place \/ CheckPin PROVE TypeOK'
<1>1. UNCHANGED <<codex, relay, pin, drops, cooling>>
  BY DEF Place, CheckPin
<1>2. CASE Shutdown({})
  BY <1>1, <1>2, EndType DEF TypeOK
<1>3. ASSUME NEW next \in {"pin", "bind"}, Redial(next),
             UNCHANGED <<channel, response, inFlight>>
      PROVE  TypeOK'
  <2>1. ReaderType' /\ sock' \in [Sockets -> Socket]
    BY <1>3, RedialType
  <2>2. QED BY <1>1, <1>3, <2>1 DEF TypeOK, ReaderType
<1>4. ASSUME NEW at \in {"pin", "bind"}, loop' = [loop EXCEPT !.at = at],
             UNCHANGED <<channel, bound, sock, response, inFlight>>
      PROVE  TypeOK'
  <2>1. loop' \in Loop
    BY <1>4 DEF TypeOK, Loop
  <2>2. QED BY <1>1, <1>4, <2>1 DEF TypeOK
<1>5. QED BY <1>2, <1>3, <1>4 DEF Place, CheckPin

LEMMA BindType == ASSUME TypeOK, Bind PROVE TypeOK'
<1>1. loop.resp \in Responses \cup {None} /\ bound.account \in Accounts \cup {None}
  BY DEF TypeOK, Loop, Bound
<1>2. response' \in [Responses -> Response]
  <2> DEFINE first == [response EXCEPT ![loop.resp].started = TRUE]
  <2>1. first \in [Responses -> Response]
    <3>1. \A r \in Responses : [response[r] EXCEPT !.started = TRUE] \in Response
      BY DEF TypeOK, Response
    <3>2. QED BY <3>1 DEF TypeOK
  <2>2. ASSUME NEW f \in [Responses -> Response], NEW a \in Accounts \cup {None}
        PROVE  [f EXCEPT ![loop.resp].account = a] \in [Responses -> Response]
    <3>1. \A r \in Responses : [f[r] EXCEPT !.account = a] \in Response
      BY DEF Response
    <3>2. QED BY <3>1
  <2>3. response' = [first EXCEPT ![loop.resp].account = bound.account]
    BY DEF Bind
  <2>4. QED BY <1>1, <2>1, <2>2, <2>3
<1>3. bound' \in Bound /\ loop' \in Loop
  BY <1>1 DEF TypeOK, Bind, Bound, Loop
<1>4. QED BY <1>2, <1>3 DEF TypeOK, Bind

LEMMA CountType == ASSUME TypeOK, Count PROVE TypeOK'
BY DEF TypeOK, Count, Loop

\* A request being placed, or made active and sent, is one; and what runs has
\* an account.
Placing == loop.at \in {"place", "pin", "bind"} \/ (loop.at = "dial" /\ loop.next # "read")
Binding == loop.at \in {"count", "send"}
Known(r) == r # None => response[r].account # None
Named ==
  /\ Placing \/ Binding => loop.resp # None
  /\ loop.at \in {"read", "place", "pin", "bind", "count", "send"} => bound.account # None
  /\ Known(bound.active)
  /\ \A u \in Sockets : /\ Known(relay[u].resp)
                        /\ relay[u].at = "record" => relay[u].resp # None

LEMMA SendType == ASSUME TypeOK, Named, Send PROVE TypeOK'
<1> DEFINE u == bound.upstream
           r == loop.resp
<1>1. r \in Responses /\ u \in Sockets \cup {None}
  BY DEF TypeOK, Loop, Bound, Named, Binding, Send
<1>2. CASE Shutdown({r})
  BY <1>1, <1>2, EndType DEF Send, TypeOK
<1>3. CASE /\ u # None
           /\ sock' = IF sock[u].at # "open" THEN sock
                      ELSE [sock EXCEPT ![u].serving = r, ![u].carried = @ \cup {r}]
           /\ loop' = [loop EXCEPT !.at = "read", !.resp = None]
           /\ UNCHANGED <<channel, bound, response, inFlight>>
  <2>1. loop' \in Loop
    BY <1>3 DEF TypeOK, Loop
  <2>2. sock' \in [Sockets -> Socket]
    BY <1>1, <1>3 DEF TypeOK, Socket
  <2>3. QED BY <1>3, <2>1, <2>2 DEF TypeOK, Send
<1>4. QED BY <1>2, <1>3 DEF Send

LEMMA ReceiveType ==
  ASSUME TypeOK, NEW u \in Sockets, NEW e \in Event, Receive(u, e)
  PROVE  TypeOK'
<1>1. sock' \in [Sockets -> Socket]
  BY DEF TypeOK, Receive, Socket
<1>2. relay' \in [Sockets -> Relay]
  BY DEF TypeOK, Receive, Relay, Bound
<1>3. QED BY <1>1, <1>2 DEF TypeOK, Receive

LEMMA PassType ==
  ASSUME TypeOK, NEW u \in Sockets, Pass(u) \/ Backoff(u)
  PROVE  TypeOK'
<1>1. relay[u].event \in Event
  BY DEF TypeOK, Relay
<1>2. codex' \in Codex
  BY <1>1, SeesType, Parts DEF Pass, Backoff, ClientType
<1>3. relay' \in [Sockets -> Relay]
  BY GoesType, Parts DEF Pass, Backoff
<1>4. sock' \in [Sockets -> Socket]
  BY CloseSocketType, Parts DEF Pass, Backoff, SocketType
<1>5. channel' \in {"open", "closing", "closed"}
  BY DEF TypeOK, Pass, Backoff, CloseClient
<1>6. QED BY <1>2, <1>3, <1>4, <1>5 DEF TypeOK, Pass, Backoff

LEMMA HoldType == ASSUME TypeOK, NEW u \in Sockets, Hold(u) PROVE TypeOK'
<1>1. relay' \in [Sockets -> Relay]
  BY GoesType, Parts DEF Hold
<1>2. response' \in [Responses -> Response]
  <2>1. relay[u].resp \in Responses
    BY DEF TypeOK, Relay, Hold, Held
  <2>2. response[relay[u].resp].held + 1 \in 0..MaxHeld
    BY <2>1, SessionAssumption DEF TypeOK, Response, Hold
  <2>3. QED BY <2>1, <2>2 DEF TypeOK, Response, Hold
<1>3. QED BY <1>1, <1>2 DEF TypeOK, Hold

LEMMA HandOverType ==
  ASSUME TypeOK, Named, NEW u \in Sockets, HandOver(u)
  PROVE  TypeOK'
<1> DEFINE a == response[relay[u].resp].account
<1>1. relay[u].resp \in Responses /\ a \in Accounts
  <2>1. relay[u].resp \in Responses
    BY DEF TypeOK, Relay, HandOver, Held
  <2>2. a # None
    <3>1. Known(relay[u].resp)
      BY DEF Named
    <3>2. QED BY <3>1 DEF HandOver, Held, Known
  <2>3. response[relay[u].resp] \in Response
    BY <2>1 DEF TypeOK
  <2>4. response[relay[u].resp].account \in Accounts \cup {None}
    BY <2>3 DEF Response
  <2>5. QED BY <2>1, <2>2, <2>4
<1>2. ServeType'
  BY <1>1, FinishType, Parts DEF HandOver
<1>3. drops' \in [Accounts -> 0..Drops] /\ cooling' \subseteq Accounts
  BY <1>1, SessionAssumption DEF TypeOK, HandOver, Spent
<1>4. relay' \in [Sockets -> Relay]
  BY GoesType, Parts DEF HandOver
<1>5. sock' \in [Sockets -> Socket]
  BY CloseSocketType, Parts DEF HandOver
<1>6. bound' \in Bound /\ channel' \in {"open", "closing", "closed"}
  BY DEF TypeOK, HandOver, Bound, CloseClient
<1>7. QED BY <1>2, <1>3, <1>4, <1>5, <1>6 DEF TypeOK, ServeType, HandOver

LEMMA HeldType ==
  ASSUME NEW f \in [Responses -> Response], NEW r \in Responses, NEW n \in 0..MaxHeld
  PROVE  [f EXCEPT ![r].held = n] \in [Responses -> Response]
BY DEF Response

LEMMA CommitType == ASSUME TypeOK, NEW u \in Sockets, Commit(u) PROVE TypeOK'
<1>1. relay[u].event \in Event /\ relay[u].resp \in Responses
  BY DEF TypeOK, Relay, Commit, Held
<1>2. codex' \in Codex
  BY <1>1, SeesType, Parts DEF Commit
<1>3. relay' \in [Sockets -> Relay]
  BY GoesType, Parts DEF Commit
<1>4. sock' \in [Sockets -> Socket]
  BY CloseSocketType, Parts DEF Commit, SocketType
<1>5. response' \in [Responses -> Response]
  <2> DEFINE first == [response EXCEPT ![relay[u].resp].committed = TRUE]
  <2>1. first \in [Responses -> Response]
    <3>1. \A r \in Responses : [response[r] EXCEPT !.committed = TRUE] \in Response
      BY DEF TypeOK, Response
    <3>2. QED BY <3>1 DEF TypeOK
  <2>2. [first EXCEPT ![relay[u].resp].held = 0] \in [Responses -> Response]
    <3>1. 0 \in 0..MaxHeld
      BY SessionAssumption
    <3>2. QED BY ONLY <1>1, <2>1, <3>1, HeldType
  <2>3. response' = [first EXCEPT ![relay[u].resp].held = 0]
    BY DEF Commit
  <2>4. QED BY <2>2, <2>3
<1>6. QED BY <1>2, <1>3, <1>4, <1>5 DEF TypeOK, Commit

LEMMA RecordType ==
  ASSUME TypeOK, Named, NEW u \in Sockets, relay[u].resp # None, Record(u)
  PROVE  TypeOK'
<1> DEFINE r == relay[u].resp
           a == response[r].account
<1>1. r \in Responses /\ a \in Accounts
  <2>1. r \in Responses
    BY DEF TypeOK, Relay
  <2>2. a # None
    <3>1. Known(r)
      BY DEF Named
    <3>2. QED BY <3>1 DEF Known
  <2>3. response[r] \in Response
    BY <2>1 DEF TypeOK
  <2>4. response[r].account \in Accounts \cup {None}
    BY <2>3 DEF Response
  <2>5. QED BY <2>1, <2>2, <2>4
<1>2. ServeType'
  <2>1. CASE ~ Terminal(relay[u].event)
    BY <2>1, Parts DEF Record, ServeType
  <2>2. CASE Terminal(relay[u].event)
    BY <1>1, <2>2, FinishType, Parts DEF Record
  <2>3. QED BY <2>1, <2>2
<1>3. drops' \in [Accounts -> 0..Drops] /\ cooling' \subseteq Accounts
  BY <1>1, SessionAssumption DEF TypeOK, Record
<1>4. relay' \in [Sockets -> Relay]
  BY GoesType, Parts DEF Record
<1>5. sock' \in [Sockets -> Socket]
  BY CloseSocketType, Parts DEF Record, SocketType
<1>6. bound' \in Bound /\ channel' \in {"open", "closing", "closed"}
  BY DEF TypeOK, Record, Bound, CloseClient, ActiveAfter
<1>7. QED BY <1>2, <1>3, <1>4, <1>5, <1>6 DEF TypeOK, ServeType, Record

LEMMA GoneType == ASSUME TypeOK, NEW u \in Sockets, Gone(u) PROVE TypeOK'
<1>1. relay' \in [Sockets -> Relay]
  BY GoesType, Parts DEF Gone
<1>2. sock' \in [Sockets -> Socket]
  <2> DEFINE first == [sock EXCEPT ![u].at = "closed"]
  <2>1. first \in [Sockets -> Socket]
    BY DEF TypeOK, Socket
  <2>2. \A f \in [Sockets -> Socket] : [f EXCEPT ![u].serving = None] \in [Sockets -> Socket]
    BY DEF Socket
  <2>3. sock' = [first EXCEPT ![u].serving = None]
    BY DEF Gone
  <2>4. QED BY <2>1, <2>2, <2>3
<1>3. ServeType' /\ bound' \in Bound /\ channel' \in {"open", "closing", "closed"}
  <2>1. CASE Current(u)
    <3>1. Active \subseteq Responses
      BY DEF TypeOK, Active, Bound
    <3>2. ServeType'
      BY <2>1, <3>1, FinishType, Parts DEF Gone
    <3>3. QED BY <2>1, <3>2 DEF Gone, TypeOK, Bound, CloseClient
  <2>2. CASE ~ Current(u)
    BY <2>2, Parts DEF Gone, TypeOK, ServeType
  <2>3. QED BY <2>1, <2>2
<1>4. QED BY <1>1, <1>2, <1>3 DEF TypeOK, ServeType, Gone

LEMMA OthersType ==
  ASSUME TypeOK, NEW a \in Accounts, NewPin \/ OtherDrop(a) \/ OtherSuccess(a) \/ CooldownEnds(a)
  PROVE  TypeOK'
<1>1. CASE NewPin
  BY <1>1 DEF TypeOK, NewPin
<1>2. CASE OtherDrop(a)
  <2>1. drops' \in [Accounts -> 0..Drops] /\ cooling' \subseteq Accounts
    BY <1>2, SessionAssumption DEF TypeOK, OtherDrop, Spent
  <2>2. QED BY <1>2, <2>1 DEF TypeOK, OtherDrop
<1>3. CASE OtherSuccess(a) \/ CooldownEnds(a)
  <2>1. drops' \in [Accounts -> 0..Drops] /\ cooling' \subseteq Accounts
    BY <1>3, SessionAssumption DEF TypeOK, OtherSuccess, CooldownEnds
  <2>2. QED BY <1>3, <2>1 DEF TypeOK, OtherSuccess, CooldownEnds
<1>4. QED BY <1>1, <1>2, <1>3

-----------------------------------------------------------------------------
(* What the operations share by the steps do, field by field                *)

\* Sockets may close; what they carry stays.
SockKept ==
  \A v \in Sockets :
    /\ sock'[v].serving = sock[v].serving /\ sock'[v].carried = sock[v].carried
    /\ sock'[v].account = sock[v].account
    /\ sock'[v].at = sock[v].at \/ (sock[v].at = "open" /\ sock'[v].at = "closing")

\* Responses may be recorded; whose they are stays.
ResponseKept ==
  \A r \in Responses : /\ response'[r].started = response[r].started
                       /\ response'[r].account = response[r].account
                       /\ response'[r].finished => response[r].finished \/ response[r].started

RelaysKept(u) == \A v \in Sockets \ {u} : relay'[v] = relay[v]

LEMMA FinishDoes ==
  ASSUME TypeOK, NEW rs \in SUBSET Responses, NEW outcome, Finish(rs, outcome)
  PROVE  /\ ResponseKept
         /\ \A r \in Responses : Unfinished(r)' <=> Unfinished(r) /\ r \notin rs
         /\ \A r \in Responses : response'[r].committed = response[r].committed
         /\ \A r \in Responses : response'[r].outcome = IF r \in rs /\ Unfinished(r) THEN outcome
                                                        ELSE response[r].outcome
         /\ inFlight' = inFlight - Cardinality({r \in rs : Unfinished(r)})
BY DEF Finish, TypeOK, Response, ResponseKept, Unfinished

LEMMA CloseSocketDoes ==
  ASSUME TypeOK, NEW u \in Sockets, sock' = CloseSocket(u)
  PROVE  SockKept /\ sock'[u].at # "open" /\ \A v \in Sockets \ {u} : sock'[v] = sock[v]
BY DEF CloseSocket, TypeOK, Socket, SockKept

LEMMA CloseClientDoes == ASSUME TypeOK, CloseClient PROVE channel' # "open"
BY DEF CloseClient, TypeOK

LEMMA GoesDoes ==
  ASSUME TypeOK, NEW u \in Sockets, NEW at, Goes(u, at)
  PROVE  /\ relay'[u].at = at /\ RelaysKept(u)
         /\ at = "record" => /\ relay'[u].resp = relay[u].resp /\ relay'[u].event = relay[u].event
                            /\ relay'[u].asked = relay[u].asked
         /\ at # "record" => /\ relay'[u].resp = None /\ relay'[u].event = "life"
                            /\ ~ relay'[u].asked
BY DEF Goes, TypeOK, Relay, Unheard, RelaysKept

\* The session ends: its reader, its active response and rs.
Ended(rs) ==
  /\ ResponseKept /\ SockKept
  /\ \A r \in Responses : Unfinished(r)' <=> Unfinished(r) /\ r \notin rs /\ bound.active # r
  /\ \A r \in Responses : response'[r].committed = response[r].committed
  /\ \A r \in Responses : response'[r].outcome = IF Unfinished(r) /\ (r \in rs \/ bound.active = r)
                                                 THEN "cut" ELSE response[r].outcome
  /\ loop'.at = "over" /\ loop'.resp = None /\ channel' # "open"
  /\ bound'.upstream = None /\ bound'.active = None /\ bound'.sent = bound.sent
  /\ bound'.account = bound.account
  /\ inFlight' = inFlight - Cardinality({r \in rs \cup Active : Unfinished(r)})

LEMMA ShutdownDoes ==
  ASSUME TypeOK, NEW rs \in SUBSET Responses, Shutdown(rs)
  PROVE  Ended(rs)
<1>1. rs \cup Active \subseteq Responses
  BY DEF TypeOK, Active, Bound
<1>2. ResponseKept /\ (\A r \in Responses : response'[r].committed = response[r].committed)
      /\ inFlight' = inFlight - Cardinality({r \in rs \cup Active : Unfinished(r)})
  BY <1>1, FinishDoes DEF Shutdown
<1>3. \A r \in Responses : Unfinished(r)' <=> Unfinished(r) /\ r \notin rs \cup Active
  BY <1>1, FinishDoes DEF Shutdown
<1>4. \A r \in Responses :
        response'[r].outcome = IF r \in rs \cup Active /\ Unfinished(r) THEN "cut"
                               ELSE response[r].outcome
  BY <1>1, FinishDoes DEF Shutdown
<1>5. \A r \in Responses : r \in Active <=> bound.active = r
  BY SessionAssumption DEF Active
<1>6. SockKept
  <2>1. CASE bound.upstream = None
    BY <2>1 DEF Shutdown, SockKept
  <2>2. CASE bound.upstream # None
    BY <2>2, CloseSocketDoes DEF Shutdown, TypeOK, Bound
  <2>3. QED BY <2>1, <2>2
<1>7. /\ loop'.at = "over" /\ loop'.resp = None /\ channel' # "open"
      /\ bound'.upstream = None /\ bound'.active = None /\ bound'.sent = bound.sent
      /\ bound'.account = bound.account
  BY CloseClientDoes DEF Shutdown, TypeOK, Bound, Loop
<1>8. QED BY <1>2, <1>3, <1>4, <1>5, <1>6, <1>7 DEF Ended

LEMMA RedialDoes ==
  ASSUME TypeOK, NEW next, Redial(next)
  PROVE  /\ SockKept
         /\ loop'.at = "dial" /\ loop'.next = next /\ loop'.resp = loop.resp
         /\ bound'.upstream = None /\ bound'.active = bound.active /\ bound'.sent = bound.sent
         /\ bound'.account = bound.account
<1>1. SockKept
  <2>1. CASE bound.upstream = None
    BY <2>1 DEF Redial, SockKept
  <2>2. CASE bound.upstream # None
    BY <2>2, CloseSocketDoes DEF Redial, TypeOK, Bound
  <2>3. QED BY <2>1, <2>2
<1>2. QED BY <1>1 DEF Redial, TypeOK, Loop, Bound

-----------------------------------------------------------------------------
(* The invariant                                                            *)

\* The reader is at the handshake exactly while Codex is not let in.
Opening == (codex.at = "opening") <=> (loop.at = "dial" /\ loop.next = "read")

\* Only one upstream socket has carried anything: the one the session holds,
\* if it still holds one.  The others' relays have at most a notice in hand.
Carries ==
  /\ \A u \in Sockets :
       \/ sock[u].serving # None \/ relay[u].event # "life" \/ relay[u].asked
       \/ relay[u].at = "backoff"
       => sock[u].carried # {}
  /\ \A u \in Sockets :
       sock[u].carried # {} => bound.sent /\ (bound.upstream = u \/ loop.at = "over")
  /\ \A u \in Sockets : relay[u].resp # None => bound.sent
  /\ bound.active # None => bound.sent
  /\ loop.at = "dial" => ~ bound.sent
  /\ Binding => bound.sent
  /\ OneSocketCarries

\* From Codex's next request, or its chance to send it, until it goes upstream.
Asking == codex.at = "ready" \/ codex.message # None \/ Placing
Phase  == Asking \/ Binding

\* Meanwhile upstream serves nothing and nothing it said of what it served is
\* in hand; and what it says unasked is of no response, until the next one is
\* active.
Silent ==
  /\ Phase => \A u \in Sockets : sock[u].serving = None /\ (relay[u].at = "got" => ~ relay[u].asked)
  /\ Asking => \A u \in Sockets :
       /\ relay[u].at = "got" /\ relay[u].event # "life" => relay[u].resp = None
       /\ relay[u].at = "backoff" => channel # "open"

\* The last request has ended, or its end is in hand.
Between == Asking => bound.active = None \/ InHand(bound.active)

\* Codex waits for what it has sent, unless it was told of a failure.
Waits ==
  /\ codex.message # None => codex.at \in {"waiting", "leaving"}
  /\ Placing \/ Binding => codex.at # "ready" /\ codex.message = None

\* Only a response that has started is finished.
Fresh == \A r \in Responses : response[r].finished => response[r].started

\* The next request is another one than those that run.
Distinct ==
  /\ Placing => ~ response[loop.resp].started
  /\ codex.message # None =>
       codex.message # loop.resp /\ ~ response[codex.message].started
  /\ Binding => response[loop.resp].started
  /\ bound.active # None => response[bound.active].started

\* Codex waits for what comes on its socket.
Heeding == channel = "open" /\ codex.at = "waiting"

\* Upstream serves the active response, or one that was; while Codex waits it
\* is still active, or its end is on its way.
Serves ==
  /\ Binding =>
       /\ bound.active \in {loop.resp, None}
       /\ Heeding => bound.active = loop.resp \/ relay[bound.upstream].at = "backoff"
  /\ \A u \in Sockets : sock[u].serving # None =>
       /\ bound.active \in {sock[u].serving, None}
       /\ Heeding => bound.active = sock[u].serving \/ relay[u].at \in {"over", "backoff"}

\* What a relay has in hand is of a response that started: of the active one,
\* when it may end it.
Hears ==
  \A u \in Sockets :
    /\ relay[u].event # "life" => relay[u].at \in {"got", "record"}
    /\ relay[u].event \in {"content", "completed"} => relay[u].asked
    /\ relay[u].resp # None => relay[u].at \in {"got", "record"} /\ response[relay[u].resp].started
    /\ relay[u].at = "got" /\ relay[u].event # "life" /\ (relay[u].asked \/ relay[u].resp # None) =>
         bound.active \in {relay[u].resp, None}
    /\ relay[u].at = "got" /\ relay[u].asked =>
         /\ Heeding => relay[u].resp # None
         /\ Terminal(relay[u].event) => sock[u].serving = None
    /\ relay[u].at = "record" /\ relay[u].event = "completed" =>
         /\ relay[u].resp # sock[u].serving
         /\ Binding => relay[u].resp # loop.resp
    /\ relay[u].at = "record" /\ relay[u].event \in Failure /\ channel = "open" =>
         codex.at \notin {"ready", "waiting"}

\* What a socket carried has started; the session's socket is one it opened.
Owned ==
  /\ \A u \in Sockets : \A r \in sock[u].carried : response[r].started
  /\ bound.upstream # None => sock[bound.upstream].at # "free"
  /\ \A u \in Sockets : sock[u].at = "free" => relay[u].at = "none"

\* While the session's socket is open its upstream socket is, or a relay is
\* about to close them; and Codex waits for somebody.
Alive ==
  /\ loop.at \in {"read", "place", "pin", "bind", "count", "send"} => bound.upstream # None
  /\ bound.upstream # None /\ channel = "open" =>
       sock[bound.upstream].at = "open" \/ relay[bound.upstream].at = "backoff"
  /\ Heeding /\ loop.at = "read" /\ codex.message = None =>
       \/ sock[bound.upstream].serving # None \/ relay[bound.upstream].at = "backoff"
       \/ relay[bound.upstream].at = "got" /\ Terminal(relay[bound.upstream].event)

Over == loop.at = "over" => bound.active = None /\ channel # "open"

Counted1 == inFlight + Counting = Cardinality({r \in Responses : Unfinished(r)})

SessInv ==
  /\ TypeOK /\ Named /\ Opening
  /\ Waits /\ Fresh
  /\ Carries /\ Silent /\ Between /\ Distinct
  /\ Serves /\ Hears /\ Owned /\ Alive /\ Over
  /\ RunningIsActive /\ Counted1

\* Steps that leave the session as it is.
LEMMA IdleInv ==
  ASSUME SessInv, TypeOK', UNCHANGED <<codex, bound, sock, relay, response, inFlight>>,
         loop'.at = loop.at, loop'.next = loop.next, loop'.resp = loop.resp,
         channel' = "open" <=> channel = "open"
  PROVE  SessInv'
<1>1. (Placing' <=> Placing) /\ (Binding' <=> Binding) /\ (Heeding' <=> Heeding)
  BY DEF Placing, Binding, Heeding
<1>2. \A r : Known(r)' <=> Known(r)
  BY DEF Known
<1>3. \A r : (Unfinished(r)' <=> Unfinished(r)) /\ (InHand(r)' <=> InHand(r))
  BY DEF Unfinished, InHand
<1>4. Named' /\ Opening' /\ Waits' /\ Fresh'
  BY <1>1, <1>2 DEF SessInv, Named, Opening, Waits, Fresh
<1>5. (Asking' <=> Asking) /\ (Phase' <=> Phase)
  BY <1>1 DEF Asking, Phase
<1>6. Carries' /\ Silent' /\ Between'
  BY <1>1, <1>3, <1>5 DEF SessInv, Carries, OneSocketCarries, Silent, Between
<1>7. Distinct' /\ Serves'
  BY <1>1 DEF SessInv, Distinct, Serves
<1>8. Hears' /\ Owned' /\ Alive' /\ Over'
  BY <1>1 DEF SessInv, Hears, Owned, Alive, Over
<1>9. RunningIsActive' /\ Counted1'
  BY <1>3 DEF SessInv, RunningIsActive, Counted1, Counting, Unfinished
<1>10. QED BY <1>4, <1>6, <1>7, <1>8, <1>9 DEF SessInv

\* Codex sends its next request, or goes.
LEMMA CodexSendsInv ==
  ASSUME ~ Overlap, SessInv, TypeOK', NEW q \in Responses, CodexSends(q)
  PROVE  SessInv'
<1>1. /\ codex.at = "ready" /\ codex.message = None /\ codex'.at = "waiting" /\ codex'.message = q
      /\ ~ response[q].started /\ loop.resp # q
      /\ UNCHANGED <<channel, loop, bound, sock, relay, response, inFlight>>
  BY DEF CodexSends
<1>2. Asking /\ (Placing' <=> Placing) /\ (Binding' <=> Binding) /\ q # None
      /\ ~ Placing /\ ~ Binding
  BY <1>1, SessionAssumption DEF Asking, Placing, Binding, SessInv, Waits
<1>3. \A r : (Unfinished(r)' <=> Unfinished(r)) /\ (InHand(r)' <=> InHand(r)) /\ (Known(r)' <=> Known(r))
  BY <1>1 DEF Unfinished, InHand, Known
<1>4. Named' /\ Opening' /\ Waits' /\ Fresh'
  BY <1>1, <1>2, <1>3 DEF SessInv, Named, Opening, Waits, Fresh
<1>5. Carries' /\ Silent' /\ Between'
  BY <1>1, <1>2, <1>3 DEF SessInv, Carries, OneSocketCarries, Silent, Phase, Asking, Between
<1>6. Distinct' /\ Serves'
  <2>1. \A u \in Sockets : sock[u].serving = None
    BY <1>2 DEF SessInv, Silent, Phase
  <2>2. QED BY <1>1, <1>2, <2>1 DEF SessInv, Distinct, Serves
<1>7. Hears' /\ Owned' /\ Alive' /\ Over'
  <2>1. \A u \in Sockets : relay[u].at = "got" => ~ relay[u].asked
    BY <1>2 DEF SessInv, Silent, Phase
  <2>2. QED BY <1>1, <1>2, <2>1 DEF SessInv, Hears, Owned, Alive, Over
<1>8. RunningIsActive' /\ Counted1'
  BY <1>1, <1>3 DEF SessInv, RunningIsActive, Counted1, Counting, Unfinished
<1>9. QED BY <1>4, <1>5, <1>6, <1>7, <1>8 DEF SessInv

LEMMA CodexGoesInv == ASSUME SessInv, TypeOK', CodexGoes PROVE SessInv'
<1>1. /\ codex.at \notin {"opening", "gone"} /\ codex'.at = "gone" /\ codex'.message = None
      /\ UNCHANGED <<channel, loop, bound, sock, relay, response, inFlight>>
  BY DEF CodexGoes
<1>2. (Placing' <=> Placing) /\ (Binding' <=> Binding) /\ (Asking' => Asking) /\ (Phase' => Phase)
      /\ ~ Heeding'
  BY <1>1, SessionAssumption DEF Asking, Placing, Binding, Phase, Heeding
<1>3. \A r : (Unfinished(r)' <=> Unfinished(r)) /\ (InHand(r)' <=> InHand(r)) /\ (Known(r)' <=> Known(r))
  BY <1>1 DEF Unfinished, InHand, Known
<1>4. Named' /\ Opening' /\ Waits' /\ Fresh'
  BY <1>1, <1>2, <1>3 DEF SessInv, Named, Opening, Waits, Fresh
<1>5. Carries' /\ Silent' /\ Between'
  BY <1>1, <1>2, <1>3 DEF SessInv, Carries, OneSocketCarries, Silent, Between
<1>6. Distinct' /\ Serves'
  BY <1>1, <1>2 DEF SessInv, Distinct, Serves
<1>7. Hears' /\ Owned' /\ Alive' /\ Over'
  BY <1>1, <1>2 DEF SessInv, Hears, Owned, Alive, Over
<1>8. RunningIsActive' /\ Counted1'
  BY <1>1, <1>3 DEF SessInv, RunningIsActive, Counted1, Counting, Unfinished
<1>9. QED BY <1>4, <1>5, <1>6, <1>7, <1>8 DEF SessInv

LEMMA DialledInv ==
  ASSUME SessInv, TypeOK', NEW u \in Sockets, Dialled(u)
  PROVE  SessInv'
<1>1. /\ loop.at = "dial" /\ loop.candidate # None /\ sock[u].at = "free"
      /\ UNCHANGED <<channel, response, inFlight>>
      /\ loop'.at = loop.next /\ loop'.resp = loop.resp
  BY DEF Dialled, SessInv, TypeOK, Loop
<1>2. /\ sock'[u].at = "open" /\ sock'[u].account = loop.candidate
      /\ sock'[u].serving = None /\ sock'[u].carried = {}
      /\ \A v \in Sockets \ {u} : sock'[v] = sock[v]
  BY DEF Dialled, SessInv, TypeOK
<1>3. /\ relay'[u].at = "next" /\ relay'[u].resp = relay[u].resp /\ relay'[u].event = relay[u].event
      /\ relay'[u].asked = relay[u].asked
      /\ \A v \in Sockets \ {u} : relay'[v] = relay[v]
  BY DEF Dialled, SessInv, TypeOK, Relay
<1>4. /\ bound'.upstream = u /\ bound'.account = loop.candidate /\ bound'.active = bound.active
  BY DEF Dialled, BoundTo, SessInv, TypeOK, Bound
<1>5. /\ codex'.message = codex.message
      /\ codex'.at = IF codex.at = "opening" THEN "ready" ELSE codex.at
  BY DEF Dialled, SessInv, TypeOK, Codex
<1>6. /\ \A v \in Sockets : sock[v].carried = {} /\ sock[v].serving = None
                            /\ relay[v].event = "life" /\ relay[v].at # "backoff" /\ ~ relay[v].asked
                            /\ relay[v].resp = None /\ relay[v].at # "record"
      /\ bound.active = None
  BY <1>1 DEF SessInv, Carries, OneSocketCarries, Named
<1>7. \A v \in Sockets : /\ sock'[v].carried = {} /\ sock'[v].serving = None
                         /\ relay'[v].event = "life" /\ relay'[v].at # "backoff" /\ ~ relay'[v].asked
                         /\ relay'[v].resp = None /\ relay'[v].at # "record"
  BY <1>2, <1>3, <1>6
<1>8. loop.next \in {"read", "pin", "bind"}
  BY DEF SessInv, TypeOK, Loop
<1>9. (Placing' <=> Placing) /\ ~ Binding /\ ~ Binding'
  BY <1>1, <1>8 DEF Placing, Binding
<1>10. Named' /\ Opening' /\ Fresh'
  BY <1>1, <1>4, <1>5, <1>6, <1>7, <1>8, <1>9 DEF SessInv, Named, Known, Opening, Fresh
<1>11. Carries' /\ Between'
  BY <1>1, <1>4, <1>6, <1>7, <1>8, <1>9 DEF SessInv, Carries, OneSocketCarries, Between
<1>18. Silent'
  BY <1>7 DEF Silent
<1>12. Distinct' /\ Serves'
  BY <1>1, <1>4, <1>5, <1>6, <1>7, <1>8, <1>9 DEF SessInv, Distinct, Serves
<1>13. Hears' /\ Owned' /\ Over'
  <2>1. Hears'
    BY <1>7, <1>9 DEF Hears
  <2>2. \A v \in Sockets : sock'[v].at = "free" => relay'[v].at = "none"
    BY <1>2, <1>3 DEF SessInv, Owned
  <2>3. Owned'
    BY <1>2, <1>4, <1>7, <2>2 DEF Owned
  <2>4. QED BY <1>1, <1>8, <2>1, <2>3 DEF Over
<1>14. Alive'
  <2>1. loop.next = "read" => codex.at = "opening"
    BY <1>1 DEF SessInv, Opening
  <2>2. loop.next = "read" => ~ Heeding'
    BY <1>5, <2>1 DEF Heeding
  <2>3. /\ bound'.upstream = u /\ u # None /\ sock'[u].at = "open"
        /\ ~ (Heeding' /\ loop'.at = "read")
    BY <1>1, <1>2, <1>4, <2>2, SessionAssumption
  <2>4. QED BY <2>3 DEF Alive
<1>15. RunningIsActive' /\ Counted1'
  <2>1. \A r : Unfinished(r)' <=> Unfinished(r)
    BY <1>1 DEF Unfinished
  <2>2. \A r \in Responses : ~ InHand(r)
    BY <1>6 DEF InHand
  <2>3. Counting' = Counting
    BY <1>1, <1>8 DEF Counting
  <2>4. QED BY <1>1, <1>4, <2>1, <2>2, <2>3 DEF SessInv, RunningIsActive, Counted1, Unfinished
<1>16. Waits'
  <2>1. codex.at = "opening" => ~ Placing /\ codex.message = None
    BY <1>1 DEF SessInv, Opening, Waits, Placing
  <2>2. QED BY <1>1, <1>5, <1>8, <1>9, <2>1 DEF SessInv, Waits
<1>17. QED BY <1>10, <1>11, <1>12, <1>13, <1>14, <1>15, <1>16, <1>18 DEF SessInv

\* Recorded responses leave the count.
LEMMA CountFinish ==
  ASSUME TypeOK, Counted1, NEW rs \in SUBSET Responses, loop'.at = "count" <=> loop.at = "count",
         \A r \in Responses : Unfinished(r)' <=> Unfinished(r) /\ r \notin rs,
         inFlight' = inFlight - Cardinality({r \in rs : Unfinished(r)})
  PROVE  Counted1'
<1> DEFINE S == {r \in Responses : Unfinished(r)}
<1>1. IsFiniteSet(S)
  BY SessionAssumption, FS_Subset
<1>2. Cardinality(S \ rs) = Cardinality(S) - Cardinality(S \cap rs)
  BY <1>1, FS_Difference
<1>3. {r \in Responses : Unfinished(r)'} = S \ rs
  OBVIOUS
<1>4. {r \in rs : Unfinished(r)} = S \cap rs
  OBVIOUS
<1>5. Cardinality(S) \in Int /\ Cardinality(S \cap rs) \in Int
  BY <1>1, FS_CardinalityType, FS_Subset
<1>6. Counting \in Int /\ Counting' = Counting /\ inFlight \in Int
  BY DEF Counting, TypeOK
<1>7. inFlight + Counting = Cardinality(S) /\ inFlight' = inFlight - Cardinality(S \cap rs)
  BY <1>4 DEF Counted1
<1>8. inFlight' + Counting = Cardinality(S \ rs)
  <2> DEFINE c == Counting
             n == Cardinality(S)
             m == Cardinality(S \cap rs)
             k == Cardinality(S \ rs)
  <2>1. k = n - m /\ n \in Int /\ m \in Int /\ c \in Int /\ inFlight \in Int
        /\ inFlight + c = n /\ inFlight' = inFlight - m
    BY <1>2, <1>5, <1>6, <1>7
  <2> HIDE DEF c, n, m, k
  <2>2. inFlight' + c = k
    BY <2>1
  <2>3. QED BY <2>2 DEF c, k
<1>9. QED BY <1>3, <1>6, <1>8 DEF Counted1

LEMMA EndInv ==
  ASSUME SessInv, TypeOK', NEW rs \in SUBSET Responses, Ended(rs), UNCHANGED relay,
         loop.at # "count",
         codex'.at # "opening", codex'.at \in {"ready", "waiting"} <=> codex.at \in {"ready", "waiting"},
         codex'.at = "ready" => codex.at = "ready",
         codex.at = "leaving" => codex'.at = "leaving",
         codex'.message \in {None, codex.message}
  PROVE  SessInv'
<1>1. /\ loop'.at = "over" /\ loop'.resp = None /\ channel' # "open"
      /\ bound'.upstream = None /\ bound'.active = None /\ bound'.sent = bound.sent
  BY DEF Ended
<1>2. ~ Placing' /\ ~ Binding' /\ (Phase' => Asking') /\ (Asking' => Asking) /\ ~ Heeding'
  BY <1>1 DEF Placing, Binding, Phase, Asking, Heeding
<1>3. Named' /\ Opening' /\ Waits' /\ Fresh'
  <2>1. \A r \in Responses : Known(r)' <=> Known(r)
    BY DEF Ended, ResponseKept, Known
  <2>2. \A u \in Sockets : relay[u].resp \in Responses \cup {None}
    BY DEF SessInv, TypeOK, Relay
  <2>3. Named' /\ Opening' /\ Waits'
    BY <1>1, <1>2, <2>1, <2>2 DEF SessInv, Named, Known, Opening, Waits
  <2>4. Fresh'
    BY DEF SessInv, Fresh, Ended, ResponseKept
  <2>5. QED BY <2>3, <2>4
<1>4. Carries' /\ Between'
  BY <1>1, <1>2 DEF SessInv, Carries, OneSocketCarries, Between, Ended, SockKept
<1>5. Silent'
  BY <1>1, <1>2 DEF SessInv, Silent, Phase, Ended, SockKept
<1>6. Distinct' /\ Serves'
  <2>1. codex.message \in Responses \cup {None}
    BY DEF SessInv, TypeOK, Codex
  <2>2. Distinct'
    BY <1>1, <1>2, <2>1 DEF SessInv, Distinct, Ended, ResponseKept
  <2>3. Serves'
    BY <1>1, <1>2 DEF SessInv, Serves, Ended, SockKept
  <2>4. QED BY <2>2, <2>3
<1>7. Hears' /\ Alive' /\ Over'
  <2>1. \A u \in Sockets : relay[u].resp \in Responses \cup {None}
    BY DEF SessInv, TypeOK, Relay
  <2>2. \A r \in Responses : response'[r].started = response[r].started
    BY DEF Ended, ResponseKept
  <2>3. \A u \in Sockets : sock'[u].serving = sock[u].serving
    BY DEF Ended, SockKept
  <2>4. Hears'
    BY <1>1, <1>2, <2>1, <2>2, <2>3 DEF SessInv, Hears
  <2>5. QED BY <1>1, <1>2, <2>4 DEF Alive, Over
<1>8. Owned'
  <2>1. \A u \in Sockets : sock[u].carried \subseteq Responses
    BY DEF SessInv, TypeOK, Socket
  <2>2. QED BY <1>1, <2>1 DEF SessInv, Owned, Ended, SockKept, ResponseKept
<1>9. RunningIsActive'
  <2>1. \A r : InHand(r)' <=> InHand(r)
    BY DEF InHand
  <2>2. QED BY <2>1 DEF SessInv, RunningIsActive, Ended
<1>10. Counted1'
  <2>1. rs \cup Active \subseteq Responses
    BY DEF SessInv, TypeOK, Active, Bound
  <2>2. \A r \in Responses : r \in Active <=> bound.active = r
    BY SessionAssumption DEF Active
  <2>3. \A r \in Responses : Unfinished(r)' <=> Unfinished(r) /\ r \notin rs \cup Active
    BY <2>2 DEF Ended
  <2>4. /\ loop'.at = "count" <=> loop.at = "count"
        /\ inFlight' = inFlight - Cardinality({r \in rs \cup Active : Unfinished(r)})
    BY <1>1 DEF Ended
  <2>5. QED BY <2>1, <2>3, <2>4, CountFinish DEF SessInv
<1>11. QED BY <1>3, <1>4, <1>5, <1>6, <1>7, <1>8, <1>9, <1>10 DEF SessInv

LEMMA NoUpstreamInv == ASSUME SessInv, TypeOK', NoUpstream PROVE SessInv'
<1>1. Ended({}) /\ UNCHANGED relay
  BY ShutdownDoes DEF NoUpstream, SessInv
<1>2. codex'.at # "opening" /\ (codex'.at = "ready" => codex.at = "ready") /\ loop.at # "count"
      /\ (codex.at = "leaving" => codex'.at = "leaving")
      /\ (codex'.at \in {"ready", "waiting"} <=> codex.at \in {"ready", "waiting"})
      /\ codex'.message = codex.message
  BY DEF NoUpstream, SessInv, TypeOK, Codex
<1>3. QED BY <1>1, <1>2, EndInv

LEMMA ReadEndInv == ASSUME SessInv, TypeOK', ReadEnd PROVE SessInv'
<1>1. Ended({}) /\ UNCHANGED <<codex, relay>> /\ codex.at # "opening" /\ loop.at # "count"
  BY ShutdownDoes DEF ReadEnd, SessInv
<1>2. QED BY <1>1, EndInv

LEMMA ReadCreateInv == ASSUME SessInv, TypeOK', ReadCreate PROVE SessInv'
<1>1. /\ codex'.message = None /\ codex'.at = codex.at /\ codex.message # None
      /\ codex.at \in {"waiting", "leaving"} /\ loop.at = "read" /\ codex.at # "opening"
      /\ UNCHANGED relay
  BY DEF ReadCreate, SessInv, TypeOK, Codex, Opening, Waits
<1>2. CASE Shutdown({})
  BY <1>1, <1>2, ShutdownDoes, EndInv DEF SessInv
<1>3. CASE /\ loop' = [loop EXCEPT !.at = "place", !.resp = codex.message]
           /\ UNCHANGED <<channel, bound, sock, response, inFlight>>
  <2>1. loop'.at = "place" /\ loop'.resp = codex.message
    BY <1>3 DEF SessInv, TypeOK, Loop
  <2>2. Asking /\ Placing' /\ ~ Binding /\ ~ Binding' /\ (Heeding' <=> Heeding)
    BY <1>1, <1>3, <2>1 DEF Asking, Placing, Binding, Heeding
  <2>3. \A r : (Unfinished(r)' <=> Unfinished(r)) /\ (InHand(r)' <=> InHand(r)) /\ (Known(r)' <=> Known(r))
    BY <1>1, <1>3 DEF Unfinished, InHand, Known
  <2>4. Named' /\ Opening' /\ Waits' /\ Fresh'
    BY <1>1, <1>3, <2>1, <2>2, <2>3 DEF SessInv, Named, Opening, Waits, Fresh
  <2>5. Carries' /\ Silent' /\ Between'
    BY <1>1, <1>3, <2>1, <2>2, <2>3 DEF SessInv, Carries, OneSocketCarries, Silent, Phase, Between
  <2>6. Distinct' /\ Serves'
    BY <1>1, <1>3, <2>1, <2>2 DEF SessInv, Distinct, Serves
  <2>7. Hears' /\ Owned' /\ Alive' /\ Over'
    BY <1>1, <1>3, <2>1, <2>2 DEF SessInv, Hears, Owned, Alive, Over
  <2>8. RunningIsActive' /\ Counted1'
    BY <1>1, <1>3, <2>1, <2>3 DEF SessInv, RunningIsActive, Counted1, Counting, Unfinished
  <2>9. QED BY <2>4, <2>5, <2>6, <2>7, <2>8 DEF SessInv
<1>4. QED BY <1>2, <1>3 DEF ReadCreate

\* Placing goes on with the socket the session has,
LEMMA AdvanceInv ==
  ASSUME SessInv, TypeOK', NEW at \in {"pin", "bind"}, Placing, loop.at # "dial",
         loop' = [loop EXCEPT !.at = at],
         UNCHANGED <<codex, relay, channel, bound, sock, response, inFlight>>
  PROVE  SessInv'
<1>1. loop'.at = at /\ loop'.resp = loop.resp /\ loop.at \in {"place", "pin", "bind"}
  BY DEF SessInv, TypeOK, Loop, Placing
<1>2. Placing' /\ Asking /\ ~ Binding /\ ~ Binding' /\ (Heeding' <=> Heeding)
  BY <1>1 DEF Placing, Asking, Binding, Heeding
<1>3. \A r : (Unfinished(r)' <=> Unfinished(r)) /\ (InHand(r)' <=> InHand(r)) /\ (Known(r)' <=> Known(r))
  BY DEF Unfinished, InHand, Known
<1>4. Named' /\ Opening' /\ Waits' /\ Fresh'
  BY <1>1, <1>2, <1>3 DEF SessInv, Named, Opening, Waits, Fresh
<1>5. Carries' /\ Silent' /\ Between'
  BY <1>1, <1>2, <1>3 DEF SessInv, Carries, OneSocketCarries, Silent, Phase, Between
<1>6. Distinct' /\ Serves'
  BY <1>1, <1>2 DEF SessInv, Distinct, Serves
<1>7. Hears' /\ Owned' /\ Alive' /\ Over'
  BY <1>1, <1>2 DEF SessInv, Hears, Owned, Alive, Over
<1>8. RunningIsActive' /\ Counted1'
  BY <1>1, <1>3 DEF SessInv, RunningIsActive, Counted1, Counting, Unfinished
<1>9. QED BY <1>4, <1>5, <1>6, <1>7, <1>8 DEF SessInv

\* or with another one, as nothing has gone out.
LEMMA RedialInv ==
  ASSUME SessInv, TypeOK', NEW next \in {"pin", "bind"}, Placing, loop.at # "dial",
         Redial(next), Movable, UNCHANGED <<codex, relay, channel, response, inFlight>>
  PROVE  SessInv'
<1>1. /\ SockKept
      /\ loop'.at = "dial" /\ loop'.next = next /\ loop'.resp = loop.resp
      /\ bound'.upstream = None /\ bound'.active = bound.active /\ bound'.sent = bound.sent
  BY RedialDoes DEF SessInv
<1>2. /\ \A v \in Sockets : sock'[v].carried = {} /\ sock'[v].serving = None
                            /\ relay[v].event = "life" /\ relay[v].at # "backoff"
                            /\ ~ relay[v].asked /\ relay[v].resp = None /\ relay[v].at # "record"
      /\ bound.active = None /\ ~ bound.sent
  <2>1. \A v \in Sockets : sock[v].carried = {} /\ relay[v].resp = None
    BY DEF SessInv, Carries, Movable
  <2>2. \A v \in Sockets : /\ sock[v].serving = None /\ relay[v].event = "life"
                           /\ relay[v].at # "backoff" /\ ~ relay[v].asked
    BY <2>1 DEF SessInv, Carries
  <2>3. \A v \in Sockets : relay[v].at # "record"
    BY <2>1 DEF SessInv, Named
  <2>4. bound.active = None /\ ~ bound.sent
    BY DEF SessInv, Carries, Movable
  <2>5. QED BY <1>1, <2>1, <2>2, <2>3, <2>4 DEF SockKept
<1>3. Placing' /\ Asking /\ ~ Binding /\ ~ Binding'
  <2>1. next # "read"
    OBVIOUS
  <2>2. QED BY <1>1, <2>1 DEF Placing, Asking, Binding
<1>4. \A r : (Unfinished(r)' <=> Unfinished(r)) /\ (InHand(r)' <=> InHand(r)) /\ (Known(r)' <=> Known(r))
  BY DEF Unfinished, InHand, Known
<1>5. Named' /\ Opening' /\ Waits' /\ Fresh'
  BY <1>1, <1>3, <1>4 DEF SessInv, Named, Opening, Waits, Fresh, Placing
<1>6. Carries' /\ Silent' /\ Between'
  BY <1>1, <1>2, <1>3 DEF Carries, OneSocketCarries, Silent, Between
<1>7. Distinct' /\ Serves'
  BY <1>1, <1>2, <1>3 DEF SessInv, Distinct, Serves
<1>8. Hears' /\ Owned' /\ Alive' /\ Over'
  BY <1>1, <1>2, <1>3 DEF SessInv, Hears, Owned, Alive, Over, SockKept
<1>9. RunningIsActive' /\ Counted1'
  BY <1>1, <1>4 DEF SessInv, RunningIsActive, Counted1, Counting, Unfinished, Placing
<1>10. QED BY <1>5, <1>6, <1>7, <1>8, <1>9 DEF SessInv

LEMMA PlaceInv == ASSUME SessInv, TypeOK', Place \/ CheckPin PROVE SessInv'
<1>1. Placing /\ loop.at \notin {"dial", "count"} /\ UNCHANGED <<codex, relay>> /\ codex.at # "opening"
  BY DEF Place, CheckPin, Placing, SessInv, Opening
<1>2. CASE Shutdown({})
  BY <1>1, <1>2, ShutdownDoes, EndInv DEF SessInv
<1>3. ASSUME NEW next \in {"pin", "bind"}, Redial(next), Movable,
             UNCHANGED <<channel, response, inFlight>>
      PROVE  SessInv'
  BY <1>1, <1>3, RedialInv
<1>4. ASSUME NEW at \in {"pin", "bind"}, loop' = [loop EXCEPT !.at = at],
             UNCHANGED <<channel, bound, sock, response, inFlight>>
      PROVE  SessInv'
  BY <1>1, <1>4, AdvanceInv
<1>5. QED BY <1>2, <1>3, <1>4 DEF Place, CheckPin

LEMMA BindInv == ASSUME SessInv, TypeOK', Bind PROVE SessInv'
<1> DEFINE q == loop.resp
<1>1. /\ loop.at = "bind" /\ q \in Responses /\ q # None /\ bound.account \in Accounts
      /\ bound.account # None
  BY SessionAssumption DEF Bind, SessInv, Named, Placing, TypeOK, Loop, Bound
<1>2. /\ loop'.at = "count" /\ loop'.resp = q
      /\ bound'.active = q /\ bound'.sent = TRUE /\ bound'.upstream = bound.upstream
      /\ bound'.account = bound.account
      /\ UNCHANGED <<codex, channel, sock, relay>>
  BY DEF Bind, SessInv, TypeOK, Loop, Bound
<1>3. /\ response'[q].started /\ response'[q].account = bound.account
      /\ response'[q].finished = response[q].finished
      /\ \A r \in Responses \ {q} : response'[r] = response[r]
  BY <1>1 DEF Bind, SessInv, TypeOK, Response
<1>4. Placing /\ Asking /\ ~ response[q].started /\ ~ Placing' /\ ~ Binding /\ Binding'
      /\ (Heeding' <=> Heeding)
  BY <1>1, <1>2 DEF Placing, Asking, Binding, Heeding, SessInv, Distinct
<1>5. \A r : InHand(r)' <=> InHand(r)
  BY <1>2 DEF InHand
<1>6. \A u \in Sockets : /\ relay[u].resp \in Responses \cup {None}
                         /\ sock[u].carried \subseteq Responses
  BY DEF SessInv, TypeOK, Relay, Socket
<1>7. \A u \in Sockets : q \notin sock[u].carried /\ relay[u].resp # q
  BY <1>1, <1>4 DEF SessInv, Owned, Hears
<1>8. \A u \in Sockets : /\ sock[u].serving = None /\ (relay[u].at = "got" => ~ relay[u].asked)
                         /\ relay[u].at = "got" /\ relay[u].event # "life" => relay[u].resp = None
  BY <1>4 DEF SessInv, Silent, Phase
<1>9. Named' /\ Waits' /\ Fresh'
  <2>1. \A r \in Responses : Known(r) => response'[r].account # None \/ r = None
    BY <1>1, <1>3 DEF Known
  <2>2. Known(q)'
    BY <1>1, <1>2, <1>3 DEF Known
  <2>3. \A u \in Sockets : Known(relay[u].resp)'
    BY <1>2, <1>6, <2>1 DEF SessInv, Named, Known
  <2>4. Fresh'
    BY <1>1, <1>3 DEF SessInv, Fresh
  <2>5. QED BY <1>1, <1>2, <1>4, <2>2, <2>3, <2>4 DEF SessInv, Named, Waits
<1>10. Opening'
  BY <1>1, <1>2 DEF SessInv, Opening
<1>11. Carries'
  BY <1>1, <1>2 DEF SessInv, Carries, OneSocketCarries
<1>12. Silent'
  <2>1. ~ Asking'
    <3>1. codex.at # "ready" /\ codex.message = None
      BY <1>4 DEF SessInv, Waits
    <3>2. QED BY <1>2, <1>4, <3>1 DEF Asking
  <2>2. QED BY <1>2, <1>8, <2>1 DEF Silent
<1>13. Between'
  <2>1. ~ Asking'
    <3>1. codex.at # "ready" /\ codex.message = None
      BY <1>4 DEF SessInv, Waits
    <3>2. QED BY <1>2, <1>4, <3>1 DEF Asking
  <2>2. QED BY <2>1 DEF Between
<1>14. Distinct'
  BY <1>1, <1>2, <1>3, <1>4 DEF SessInv, Distinct, TypeOK, Codex
<1>15. Serves'
  BY <1>1, <1>2, <1>4, <1>8 DEF SessInv, Serves
<1>16. Hears'
  <2>1. \A u \in Sockets : relay[u].resp # None => response'[relay[u].resp].started
    BY <1>3, <1>6 DEF SessInv, Hears
  <2>2. \A u \in Sockets : relay[u].at = "record" => relay[u].resp # None
    BY DEF SessInv, Named
  <2>3. QED BY <1>1, <1>2, <1>4, <1>7, <1>8, <2>1, <2>2 DEF SessInv, Hears
<1>17. Owned'
  BY <1>2, <1>3, <1>6, <1>7 DEF SessInv, Owned
<1>18. Alive' /\ Over'
  BY <1>1, <1>2, <1>4 DEF SessInv, Alive, Over
<1>19. RunningIsActive'
  <2>1. ASSUME NEW r \in Responses, r # q, Unfinished(r)' PROVE InHand(r)'
    <3>1. Unfinished(r)
      BY <1>3, <2>1 DEF Unfinished
    <3>2. bound.active = r \/ InHand(r)
      BY <3>1 DEF SessInv, RunningIsActive
    <3>3. bound.active = None \/ InHand(bound.active)
      BY <1>4 DEF SessInv, Between
    <3>4. QED BY <1>5, <3>2, <3>3, SessionAssumption
  <2>2. QED BY <1>2, <2>1 DEF RunningIsActive
<1>20. Counted1'
  <2> DEFINE S == {r \in Responses : Unfinished(r)}
             n == Cardinality(S)
  <2>1. IsFiniteSet(S) /\ q \notin S
    BY <1>4, SessionAssumption, FS_Subset DEF Unfinished
  <2>2. Cardinality(S \cup {q}) = n + 1
    BY <2>1, FS_AddElement
  <2>3. Unfinished(q)'
    <3>1. ~ response[q].finished
      BY <1>1, <1>4 DEF SessInv, Fresh
    <3>2. QED BY <1>2, <1>3, <3>1 DEF Unfinished
  <2>4. {r \in Responses : Unfinished(r)'} = S \cup {q}
    BY <1>1, <1>2, <1>3, <2>3 DEF Unfinished
  <2>5. Counting = 0 /\ Counting' = 1 /\ inFlight' = inFlight /\ inFlight \in Int
    BY <1>1, <1>2 DEF Counting, Bind, SessInv, TypeOK
  <2>6. inFlight + Counting = n
    BY DEF SessInv, Counted1
  <2> HIDE DEF n
  <2>7. inFlight' + Counting' = n + 1
    BY <2>5, <2>6
  <2>8. QED BY <2>2, <2>4, <2>7 DEF Counted1
<1>21. QED
  BY <1>9, <1>10, <1>11, <1>12, <1>13, <1>14, <1>15, <1>16, <1>17, <1>18, <1>19, <1>20 DEF SessInv

LEMMA CountInv == ASSUME SessInv, TypeOK', Count PROVE SessInv'
<1>1. /\ loop.at = "count" /\ loop'.at = "send" /\ loop'.resp = loop.resp
      /\ UNCHANGED <<codex, channel, bound, sock, relay, response>>
  BY DEF Count, SessInv, TypeOK, Loop
<1>2. /\ (Placing' <=> Placing) /\ (Binding' <=> Binding) /\ (Asking' <=> Asking)
      /\ (Phase' <=> Phase) /\ (Heeding' <=> Heeding)
  BY <1>1 DEF Placing, Binding, Asking, Phase, Heeding
<1>3. \A r : (Unfinished(r)' <=> Unfinished(r)) /\ (InHand(r)' <=> InHand(r)) /\ (Known(r)' <=> Known(r))
  BY <1>1 DEF Unfinished, InHand, Known
<1>4. Named' /\ Opening' /\ Waits' /\ Fresh'
  BY <1>1, <1>2, <1>3 DEF SessInv, Named, Opening, Waits, Fresh
<1>5. Carries' /\ Silent' /\ Between'
  BY <1>1, <1>2, <1>3 DEF SessInv, Carries, OneSocketCarries, Silent, Between
<1>6. Distinct' /\ Serves'
  BY <1>1, <1>2 DEF SessInv, Distinct, Serves
<1>7. Hears' /\ Owned' /\ Alive' /\ Over'
  BY <1>1, <1>2 DEF SessInv, Hears, Owned, Alive, Over
<1>8. RunningIsActive' /\ Counted1'
  <2>1. Counting = 1 /\ Counting' = 0 /\ inFlight' = inFlight + 1 /\ inFlight \in Int
    BY <1>1 DEF Counting, Count, SessInv, TypeOK
  <2>2. inFlight' + Counting' = inFlight + Counting
    BY <2>1
  <2>3. Counted1'
    BY <1>3, <2>2 DEF SessInv, Counted1
  <2>4. QED BY <1>1, <1>3, <2>3 DEF SessInv, RunningIsActive
<1>9. QED BY <1>4, <1>5, <1>6, <1>7, <1>8 DEF SessInv

\* The request is queued for upstream, or lost behind the socket's close.
LEMMA SentInv ==
  ASSUME SessInv, TypeOK', NEW u \in Sockets, NEW q \in Responses,
         loop.at = "send", u = bound.upstream, q = loop.resp,
         \A v \in Sockets \ {u} : sock'[v] = sock[v],
         sock'[u].at = sock[u].at, sock'[u].account = sock[u].account,
         \/ sock[u].at # "open" /\ sock'[u].serving = sock[u].serving
            /\ sock'[u].carried = sock[u].carried
         \/ sock'[u].serving = q /\ sock'[u].carried = sock[u].carried \cup {q},
         loop'.at = "read", loop'.resp = None,
         UNCHANGED <<codex, relay, channel, bound, response, inFlight>>
  PROVE  SessInv'
<1>1. /\ q # None /\ u # None /\ codex.at \notin {"opening", "ready"} /\ codex.message = None
      /\ loop'.at = "read" /\ loop'.resp = None /\ bound.sent
  BY SessionAssumption DEF SessInv, Waits, Binding, Opening, TypeOK, Loop, Carries
<1>2. /\ \A v \in Sockets \ {u} : sock'[v] = sock[v]
      /\ sock'[u].at = sock[u].at /\ sock'[u].account = sock[u].account
      /\ \/ sock[u].at # "open" /\ sock'[u].serving = sock[u].serving
            /\ sock'[u].carried = sock[u].carried
         \/ sock'[u].serving = q /\ sock'[u].carried = sock[u].carried \cup {q}
  OBVIOUS
<1>3. ~ Placing' /\ ~ Phase' /\ ~ Asking' /\ Binding /\ ~ Binding' /\ (Heeding' <=> Heeding)
  BY <1>1 DEF Placing, Phase, Asking, Binding, Heeding
<1>4. \A r : (Unfinished(r)' <=> Unfinished(r)) /\ (InHand(r)' <=> InHand(r)) /\ (Known(r)' <=> Known(r))
  BY DEF Unfinished, InHand, Known
<1>5. Named' /\ Opening' /\ Waits' /\ Fresh'
  BY <1>1, <1>3, <1>4 DEF SessInv, Named, Opening, Waits, Fresh
<1>6. /\ \A v \in Sockets : sock[v].serving = None /\ (relay[v].at = "got" => ~ relay[v].asked)
      /\ \A v \in Sockets \ {u} : sock'[v].carried = {} /\ sock'[v].serving = None
  <2>1. \A v \in Sockets : sock[v].serving = None /\ (relay[v].at = "got" => ~ relay[v].asked)
    BY <1>3 DEF SessInv, Silent, Phase
  <2>2. \A v \in Sockets \ {u} : sock[v].carried = {}
    BY DEF SessInv, Carries
  <2>3. QED BY <1>2, <2>1, <2>2
<1>7. Carries'
  <2>1. \A v \in Sockets :
          \/ sock'[v].serving # None \/ relay[v].event # "life" \/ relay[v].asked
          \/ relay[v].at = "backoff"
          => sock'[v].carried # {}
    <3>1. \A v \in Sockets : relay[v].event # "life" \/ relay[v].asked \/ relay[v].at = "backoff" =>
            sock[v].carried # {}
      BY DEF SessInv, Carries
    <3>2. \A v \in Sockets \ {u} : sock'[v] = sock[v] /\ sock[v].serving = None
      BY <1>2, <1>6
    <3>3. \/ sock'[u].carried = sock[u].carried /\ sock'[u].serving = None
          \/ sock'[u].carried # {}
      BY <1>2, <1>6
    <3>4. QED BY <3>1, <3>2, <3>3
  <2>2. \A v \in Sockets : sock'[v].carried # {} => v = u
    BY <1>6
  <2>3. bound.active # None => bound.sent
    BY DEF SessInv, Carries
  <2>4. QED BY <1>1, <1>3, <2>1, <2>2, <2>3 DEF Carries, OneSocketCarries
<1>8. Silent' /\ Between'
  BY <1>3 DEF Silent, Between
<1>9. Distinct'
  BY <1>1, <1>3 DEF SessInv, Distinct
<1>10. Serves'
  <2>1. bound.active \in {q, None} /\ (Heeding => bound.active = q \/ relay[u].at = "backoff")
    BY <1>3 DEF SessInv, Serves
  <2>2. sock'[u].serving # None => sock'[u].serving = q
    BY <1>2, <1>6
  <2>3. QED BY <1>1, <1>3, <1>6, <2>1, <2>2 DEF Serves
<1>11. Hears'
  <2>1. \A v \in Sockets :
          relay[v].at = "record" /\ relay[v].event = "completed" => relay[v].resp # q /\ relay[v].resp # None
    BY <1>3 DEF SessInv, Hears, Named
  <2>2. \A v \in Sockets : sock'[v].serving = q \/ sock'[v].serving = None
    BY <1>2, <1>6
  <2>3. QED BY <1>1, <1>3, <1>6, <2>1, <2>2 DEF SessInv, Hears
<1>12. Owned'
  <2>1. response[q].started /\ sock[u].at # "free"
    BY <1>1, <1>3 DEF SessInv, Distinct, Owned
  <2>2. \A v \in Sockets : \A r \in sock'[v].carried : r \in sock[v].carried \/ r = q
    BY <1>2
  <2>3. \A v \in Sockets : sock'[v].at = sock[v].at
    BY <1>2
  <2>4. QED BY <2>1, <2>2, <2>3 DEF SessInv, Owned
<1>13. Alive' /\ Over'
  <2>1. channel = "open" => sock[u].at = "open" \/ relay[u].at = "backoff"
    BY <1>1 DEF SessInv, Alive
  <2>2. channel = "open" => sock'[u].serving # None \/ relay[u].at = "backoff"
    BY <1>1, <1>2, <2>1
  <2>3. channel = "open" => sock'[u].at = "open" \/ relay[u].at = "backoff"
    BY <1>2, <2>1
  <2>4. QED BY <1>1, <2>2, <2>3 DEF Alive, Over, Heeding
<1>14. RunningIsActive' /\ Counted1'
  <2>1. Counting' = Counting
    BY <1>1 DEF Counting
  <2>2. QED BY <1>4, <2>1 DEF SessInv, RunningIsActive, Counted1, Unfinished
<1>15. QED
  BY <1>5, <1>7, <1>8, <1>9, <1>10, <1>11, <1>12, <1>13, <1>14 DEF SessInv

LEMMA SendInv == ASSUME SessInv, TypeOK', Send PROVE SessInv'
<1>1. /\ loop.resp \in Responses /\ UNCHANGED <<codex, relay>> /\ codex.at # "opening"
      /\ bound.upstream \in Sockets \cup {None} /\ loop.at # "count"
  BY DEF Send, SessInv, Named, Binding, Opening, TypeOK, Loop, Bound
<1>2. CASE Shutdown({loop.resp})
  <2>1. Ended({loop.resp})
    BY <1>1, <1>2, ShutdownDoes DEF SessInv
  <2>2. QED BY <1>1, <2>1, EndInv
<1>3. CASE ~ Shutdown({loop.resp})
  <2> DEFINE u == bound.upstream
             q == loop.resp
  <2>1. /\ loop.at = "send" /\ u \in Sockets
        /\ sock' = IF sock[u].at # "open" THEN sock
                   ELSE [sock EXCEPT ![u].serving = q, ![u].carried = @ \cup {q}]
        /\ loop' = [loop EXCEPT !.at = "read", !.resp = None]
        /\ UNCHANGED <<channel, bound, response, inFlight>>
    BY <1>1, <1>3 DEF Send
  <2>2. loop'.at = "read" /\ loop'.resp = None
    BY <2>1 DEF SessInv, TypeOK, Loop
  <2>3. \A v \in Sockets \ {u} : sock'[v] = sock[v]
    BY <2>1 DEF SessInv, TypeOK
  <2>4. /\ sock'[u].at = sock[u].at /\ sock'[u].account = sock[u].account
        /\ \/ sock[u].at # "open" /\ sock'[u].serving = sock[u].serving
              /\ sock'[u].carried = sock[u].carried
           \/ sock'[u].serving = q /\ sock'[u].carried = sock[u].carried \cup {q}
    BY <2>1 DEF SessInv, TypeOK, Socket
  <2>5. QED BY <1>1, <2>1, <2>2, <2>3, <2>4, SentInv
<1>4. QED BY <1>2, <1>3

-----------------------------------------------------------------------------
(* The relays                                                               *)

\* A relay with more than a notice in hand is that of the one socket that has
\* carried requests.
LEMMA OneSpeaks ==
  ASSUME SessInv, NEW u \in Sockets,
         \/ sock[u].serving # None \/ relay[u].event # "life" \/ relay[u].asked
         \/ relay[u].at = "backoff"
  PROVE  /\ sock[u].carried # {} /\ (bound.upstream = u \/ loop.at = "over")
         /\ \A v \in Sockets \ {u} :
              /\ sock[v].carried = {} /\ sock[v].serving = None
              /\ relay[v].event = "life" /\ ~ relay[v].asked /\ relay[v].at # "backoff"
<1>1. sock[u].carried # {}
  BY DEF SessInv, Carries
<1>2. \A v \in Sockets \ {u} : sock[v].carried = {}
  BY <1>1 DEF SessInv, Carries, OneSocketCarries
<1>3. bound.upstream = u \/ loop.at = "over"
  BY <1>1 DEF SessInv, Carries
<1>4. QED BY <1>1, <1>2, <1>3 DEF SessInv, Carries

LEMMA ReceiveInv ==
  ASSUME Stray \subseteq {"life"}, SessInv, TypeOK', NEW u \in Sockets, NEW e \in Event, Receive(u, e)
  PROVE  SessInv'
<1> DEFINE s == sock[u].serving
<1>1. /\ relay[u].at = "next" /\ sock[u].at \in {"open", "closing"}
      /\ s # None \/ (sock[u].carried # {} /\ e \in Failure) \/ e = "life"
      /\ UNCHANGED <<codex, channel, loop, bound, response, inFlight>>
  BY DEF Receive
<1>2. /\ sock'[u].serving = (IF Terminal(e) THEN None ELSE s)
      /\ sock'[u].carried = sock[u].carried /\ sock'[u].account = sock[u].account
      /\ sock'[u].at = sock[u].at
      /\ \A v \in Sockets \ {u} : sock'[v] = sock[v]
  BY DEF Receive, SessInv, TypeOK, Socket
<1>3. /\ relay'[u].at = "got" /\ relay'[u].event = e /\ relay'[u].resp = bound.active
      /\ relay'[u].asked <=> s # None
      /\ \A v \in Sockets \ {u} : relay'[v] = relay[v]
  BY DEF Receive, SessInv, TypeOK
<1>4. /\ (Phase' <=> Phase) /\ (Placing' <=> Placing) /\ (Asking' <=> Asking) /\ (Binding' <=> Binding)
      /\ (Heeding' <=> Heeding)
  BY <1>1 DEF Phase, Asking, Placing, Binding, Heeding
<1>5. \A r : (Unfinished(r)' <=> Unfinished(r)) /\ (Known(r)' <=> Known(r))
  BY <1>1 DEF Unfinished, Known
<1>6. \A r : InHand(r)' <=> InHand(r)
  BY <1>1, <1>3 DEF InHand
<1>7. e # "life" \/ s # None => sock[u].carried # {}
  BY <1>1 DEF SessInv, Carries
<1>8. Named' /\ Opening' /\ Waits' /\ Fresh'
  <2>1. \A v \in Sockets : /\ Known(relay'[v].resp)
                           /\ relay'[v].at = "record" => relay'[v].resp # None
    BY <1>3 DEF SessInv, Named
  <2>2. \A v \in Sockets : Known(relay[v].resp)'
    BY <1>5, <2>1
  <2>3. Named'
    BY <1>1, <1>4, <1>5, <2>1, <2>2 DEF SessInv, Named
  <2>4. QED BY <1>1, <1>4, <2>3 DEF SessInv, Opening, Waits, Fresh
<1>9. Carries'
  BY <1>1, <1>2, <1>3, <1>4, <1>7 DEF SessInv, Carries, OneSocketCarries
<1>10. Silent'
  <2>1. Phase => s = None
    BY DEF SessInv, Silent
  <2>2. ASSUME Asking, e # "life" PROVE bound.active = None
    <3>1. ASSUME InHand(bound.active) PROVE FALSE
      <4>1. PICK v \in Sockets : relay[v].at = "record" /\ Terminal(relay[v].event)
        BY <3>1 DEF InHand
      <4>2. v # u /\ relay[v].event # "life"
        BY <1>1, <4>1 DEF Terminal, Failure
      <4>3. QED BY <1>7, <2>2, <4>2, OneSpeaks
    <3>2. QED BY <2>2, <3>1 DEF SessInv, Between
  <2>3. QED BY <1>1, <1>2, <1>3, <1>4, <2>1, <2>2 DEF SessInv, Silent
<1>11. Between' /\ Distinct'
  BY <1>1, <1>4, <1>6 DEF SessInv, Between, Distinct
<1>12. Serves'
  <2>1. Binding => bound.upstream \in Sockets
    BY DEF SessInv, Alive, Binding, TypeOK, Bound
  <2>2. \A v \in Sockets :
          /\ relay[v].at \in {"over", "backoff"} => relay'[v].at = relay[v].at
          /\ sock'[v].serving # None => sock'[v].serving = sock[v].serving
    BY <1>1, <1>2, <1>3
  <2>3. \A v \in Sockets : sock'[v].serving # None =>
          /\ bound.active \in {sock'[v].serving, None}
          /\ Heeding => bound.active = sock'[v].serving \/ relay'[v].at \in {"over", "backoff"}
    BY <2>2 DEF SessInv, Serves
  <2>4. Binding =>
          /\ bound.active \in {loop.resp, None}
          /\ Heeding => bound.active = loop.resp \/ relay'[bound.upstream].at = "backoff"
    BY <2>1, <2>2 DEF SessInv, Serves
  <2>5. QED BY <1>1, <1>4, <2>3, <2>4 DEF Serves
<1>13. Hears'
  <2>1. s # None /\ Heeding => bound.active # None
    BY <1>1 DEF SessInv, Serves
  <2>2. bound.active # None => response[bound.active].started
    BY DEF SessInv, Distinct
  <2>3. e \in {"content", "completed"} => s # None
    BY <1>1 DEF Failure
  <2>4. QED BY <1>1, <1>2, <1>3, <1>4, <2>1, <2>2, <2>3 DEF SessInv, Hears
<1>14. Owned'
  <2>1. \A v \in Sockets : /\ sock'[v].at = sock[v].at /\ sock'[v].carried = sock[v].carried
                           /\ sock'[v].at = "free" => relay'[v] = relay[v]
    BY <1>1, <1>2, <1>3
  <2>2. bound.upstream # None => bound.upstream \in Sockets
    BY DEF SessInv, TypeOK, Bound
  <2>3. QED BY <1>1, <2>1, <2>2 DEF SessInv, Owned
<1>15. Alive' /\ Over'
  <2>1. bound.upstream # None => bound.upstream \in Sockets
    BY DEF SessInv, TypeOK, Bound
  <2>2. \A v \in Sockets :
          /\ sock'[v].at = sock[v].at /\ (relay'[v].at = "backoff" <=> relay[v].at = "backoff")
          /\ sock[v].serving # None => \/ sock'[v].serving # None
                                       \/ relay'[v].at = "got" /\ Terminal(relay'[v].event)
          /\ v # u => relay'[v] = relay[v]
    BY <1>1, <1>2, <1>3
  <2>3. QED BY <1>1, <1>4, <2>1, <2>2 DEF SessInv, Alive, Over
<1>16. RunningIsActive' /\ Counted1'
  BY <1>1, <1>5, <1>6 DEF SessInv, RunningIsActive, Counted1, Counting
<1>17. QED
  BY <1>8, <1>9, <1>10, <1>11, <1>12, <1>13, <1>14, <1>15, <1>16 DEF SessInv

\* What a relay has got is passed on, held, or kept for the record: at most
\* Codex learns of it.
LEMMA HeardInv ==
  ASSUME SessInv, TypeOK', NEW u \in Sockets, Got(u),
         UNCHANGED <<loop, bound, inFlight, channel>>,
         ResponseKept, \A r \in Responses : response'[r].finished = response[r].finished,
         SockKept, channel = "open" => sock' = sock,
         RelaysKept(u), relay'[u].at \in {"next", "record", "over"},
         relay'[u].at = "record" =>
           /\ relay'[u].resp = relay[u].resp /\ relay'[u].event = relay[u].event
           /\ relay'[u].asked = relay[u].asked /\ relay'[u].resp # None,
         relay'[u].at # "record" =>
           relay'[u].resp = None /\ relay'[u].event = "life" /\ ~ relay'[u].asked,
         channel = "open" /\ relay[u].resp # None /\ Terminal(relay[u].event) => relay'[u].at = "record",
         codex'.message = codex.message,
         codex'.at # codex.at =>
           /\ Heeding /\ Terminal(relay[u].event)
           /\ codex'.at = IF relay[u].event = "completed" THEN "ready" ELSE "leaving",
         Heeding /\ Terminal(relay[u].event) => codex'.at # "waiting"
  PROVE  SessInv'
<1>1. relay[u].at = "got" /\ \A v \in Sockets \ {u} : relay'[v] = relay[v]
  BY DEF Got, RelaysKept
<1>2. relay[u].event # "life" \/ relay[u].asked =>
        \A v \in Sockets \ {u} :
          /\ sock[v].carried = {} /\ sock[v].serving = None
          /\ relay[v].event = "life" /\ ~ relay[v].asked /\ relay[v].at # "backoff"
  BY OneSpeaks
<1>3. /\ (Placing' <=> Placing) /\ (Binding' <=> Binding) /\ (Heeding' => Heeding)
      /\ Terminal(relay[u].event) => relay[u].event # "life"
      /\ (Asking' => Asking \/ (codex'.at = "ready" /\ codex.at # "ready"))
      /\ (Phase' => Phase \/ (codex'.at = "ready" /\ codex.at # "ready"))
  BY DEF Placing, Binding, Heeding, Asking, Phase, Terminal, Failure
<1>4. \A r \in Responses : /\ response'[r].started = response[r].started
                           /\ response'[r].account = response[r].account
                           /\ Unfinished(r)' <=> Unfinished(r)
  BY DEF ResponseKept, Unfinished
<1>5. \A v \in Sockets : relay[v].resp \in Responses \cup {None} /\ sock[v].carried \subseteq Responses
  BY DEF SessInv, TypeOK, Relay, Socket
<1>6. ASSUME codex'.at = "ready", codex.at # "ready"
      PROVE  /\ channel = "open" /\ relay[u].event = "completed" /\ Terminal(relay[u].event)
             /\ relay[u].asked /\ relay[u].resp # None /\ ~ Phase
             /\ relay'[u].at = "record" /\ sock' = sock /\ sock[u].serving = None
             /\ bound.active \in {relay[u].resp, None}
  <2>1. channel = "open" /\ relay[u].event = "completed" /\ Terminal(relay[u].event) /\ Heeding
    BY <1>6 DEF Heeding, Terminal
  <2>2. relay[u].asked
    BY <2>1 DEF SessInv, Hears
  <2>3. ~ Phase
    BY <1>1, <2>2 DEF SessInv, Silent
  <2>4. relay[u].resp # None /\ sock[u].serving = None /\ bound.active \in {relay[u].resp, None}
    BY <1>1, <2>1, <2>2 DEF SessInv, Hears
  <2>5. QED BY <2>1, <2>2, <2>3, <2>4
<1>7. Named'
  <2>1. bound.active \in Responses \cup {None}
    BY DEF SessInv, TypeOK, Bound
  <2>2. \A v \in Sockets :
          /\ relay'[v].resp # None => response'[relay'[v].resp].account # None
          /\ relay'[v].at = "record" => relay'[v].resp # None
    <3>1. \A v \in Sockets : relay[v].resp # None => response'[relay[v].resp].account # None
      BY <1>4, <1>5 DEF SessInv, Named, Known
    <3>2. \A v \in Sockets : relay[v].at = "record" => relay[v].resp # None
      BY DEF SessInv, Named
    <3>3. relay'[u].resp = relay[u].resp \/ relay'[u].resp = None
      OBVIOUS
    <3>4. QED BY <1>1, <3>1, <3>2, <3>3
  <2>3. bound.active # None => response'[bound.active].account # None
    BY <1>4, <2>1 DEF SessInv, Named, Known
  <2>4. loop.at \in {"read", "place", "pin", "bind", "count", "send"} => bound.account # None
    BY DEF SessInv, Named
  <2>5. Placing \/ Binding => loop.resp # None
    BY DEF SessInv, Named
  <2>6. QED BY <1>3, <2>2, <2>3, <2>4, <2>5 DEF Named, Known
<1>8. Opening' /\ Waits' /\ Fresh'
  <2>1. codex'.at = "ready" /\ codex.at # "ready" => codex.message = None /\ ~ Placing /\ ~ Binding
    BY <1>6 DEF Phase, Asking
  <2>2. codex'.at # codex.at => codex.at = "waiting" /\ codex'.at \in {"ready", "leaving"}
    BY DEF Heeding
  <2>3. Opening'
    BY <2>2 DEF SessInv, Opening
  <2>4. Waits'
    BY <1>3, <2>1, <2>2 DEF SessInv, Waits
  <2>5. Fresh'
    BY <1>4 DEF SessInv, Fresh
  <2>6. QED BY <2>3, <2>4, <2>5
<1>9. Carries'
  <2>1. \A v \in Sockets : sock'[v].carried = sock[v].carried /\ sock'[v].serving = sock[v].serving
    BY DEF SockKept
  <2>2. QED BY <1>1, <1>3, <2>1 DEF SessInv, Carries, OneSocketCarries
<1>10. Silent'
  <2>1. CASE codex'.at = "ready" /\ codex.at # "ready"
    <3>1. \A v \in Sockets : sock'[v].serving = None
      BY <1>2, <1>6, <2>1
    <3>2. \A v \in Sockets : relay'[v].at = "got" => relay'[v].event = "life" /\ ~ relay'[v].asked
      BY <1>1, <1>2, <1>6, <2>1
    <3>3. \A v \in Sockets : relay'[v].at # "backoff"
      BY <1>1, <1>2, <1>6, <2>1
    <3>4. QED BY <3>1, <3>2, <3>3 DEF Silent
  <2>2. CASE ~ (codex'.at = "ready" /\ codex.at # "ready")
    BY <1>1, <1>3, <2>2 DEF SessInv, Silent, SockKept
  <2>3. QED BY <2>1, <2>2
<1>11. Between'
  <2>1. CASE codex'.at = "ready" /\ codex.at # "ready"
    BY <1>6, <2>1 DEF Between, InHand
  <2>2. CASE ~ (codex'.at = "ready" /\ codex.at # "ready")
    <3>1. InHand(bound.active) => InHand(bound.active)'
      BY <1>1 DEF InHand
    <3>2. QED BY <1>3, <2>2, <3>1 DEF SessInv, Between
  <2>3. QED BY <2>1, <2>2
<1>12. Distinct'
  <2>1. /\ bound.active \in Responses \cup {None} /\ loop.resp \in Responses \cup {None}
        /\ codex.message \in Responses \cup {None} /\ (Placing \/ Binding => loop.resp # None)
    BY DEF SessInv, TypeOK, Bound, Loop, Codex, Named
  <2>2. QED BY <1>3, <1>4, <2>1 DEF SessInv, Distinct
<1>13. Serves'
  <2>1. \A v \in Sockets : relay[v].at \in {"over", "backoff"} => relay'[v].at = relay[v].at
    BY <1>1
  <2>2. bound.upstream # None => bound.upstream \in Sockets
    BY DEF SessInv, TypeOK, Bound
  <2>3. Binding => bound.upstream # None
    BY DEF SessInv, Alive, Binding
  <2>4. QED BY <1>3, <2>1, <2>2, <2>3 DEF SessInv, Serves, SockKept
<1>14. Hears'
  <2>1. ASSUME relay'[u].at = "record", relay[u].event = "completed"
        PROVE  relay[u].resp # sock'[u].serving /\ ~ Binding
    <3>1. relay[u].asked /\ relay[u].resp # None
      BY <2>1 DEF SessInv, Hears
    <3>2. sock[u].serving = None /\ ~ Phase
      BY <1>1, <2>1, <3>1 DEF SessInv, Hears, Silent, Terminal
    <3>3. QED BY <3>1, <3>2 DEF SockKept, Phase
  <2>2. ASSUME relay'[u].at = "record", relay[u].event \in Failure, channel = "open"
        PROVE  codex'.at \notin {"ready", "waiting"}
    <3>1. relay[u].resp # None /\ relay[u].event \notin {"life", "completed"} /\ Terminal(relay[u].event)
      BY <2>2 DEF Failure, Terminal
    <3>2. ~ Asking
      BY <1>1, <3>1 DEF SessInv, Silent
    <3>3. codex.at # "ready"
      BY <3>2 DEF Asking
    <3>4. QED BY <2>2, <3>1, <3>3 DEF Heeding
  <2>3. ASSUME NEW v \in Sockets \ {u}, relay[v].event \in Failure PROVE codex'.at = codex.at
    <3>1. relay[v].event # "life"
      BY <2>3 DEF Failure
    <3>2. QED BY <1>2, <1>3, <3>1
  <2>4. ASSUME NEW v \in Sockets
        PROVE  relay[v].resp # None => response'[relay[v].resp].started = response[relay[v].resp].started
    BY <1>4, <1>5
  <2>5. \A v \in Sockets : sock'[v].serving = sock[v].serving
    BY DEF SockKept
  <2>6. \A v \in Sockets \ {u} :
          /\ relay'[v].event # "life" => relay'[v].at \in {"got", "record"}
          /\ relay'[v].event \in {"content", "completed"} => relay'[v].asked
          /\ relay'[v].resp # None => relay'[v].at \in {"got", "record"} /\ response'[relay'[v].resp].started
          /\ relay'[v].at = "got" /\ relay'[v].event # "life" /\ (relay'[v].asked \/ relay'[v].resp # None) =>
               bound.active \in {relay'[v].resp, None}
          /\ relay'[v].at = "got" /\ relay'[v].asked =>
               /\ Heeding' => relay'[v].resp # None
               /\ Terminal(relay'[v].event) => sock'[v].serving = None
          /\ relay'[v].at = "record" /\ relay'[v].event = "completed" =>
               /\ relay'[v].resp # sock'[v].serving
               /\ Binding => relay'[v].resp # loop.resp
          /\ relay'[v].at = "record" /\ relay'[v].event \in Failure /\ channel = "open" =>
               codex'.at \notin {"ready", "waiting"}
    BY <1>1, <1>3, <2>3, <2>4, <2>5 DEF SessInv, Hears
  <2>7. /\ relay'[u].event # "life" => relay'[u].at = "record"
        /\ relay'[u].event \in {"content", "completed"} => relay'[u].asked
        /\ relay'[u].resp # None => relay'[u].at = "record" /\ response'[relay'[u].resp].started
    BY <2>4 DEF SessInv, Hears
  <2>8. QED BY <1>3, <2>1, <2>2, <2>6, <2>7 DEF Hears
<1>15. Owned'
  <2>1. \A v \in Sockets : \A r \in sock[v].carried : response'[r].started
    BY <1>4, <1>5 DEF SessInv, Owned
  <2>2. \A v \in Sockets : sock'[v].at = "free" => sock[v].at = "free" /\ v # u
    BY <1>1 DEF SessInv, Owned, SockKept
  <2>3. bound.upstream # None => bound.upstream \in Sockets /\ sock[bound.upstream].at # "free"
    BY DEF SessInv, Owned, TypeOK, Bound
  <2>4. \A v \in Sockets : sock[v].at = "free" => relay[v].at = "none"
    BY DEF SessInv, Owned
  <2>5. QED BY <1>1, <2>1, <2>2, <2>3, <2>4 DEF Owned, SockKept
<1>16. Alive' /\ Over'
  <2>1. loop.at \in {"read", "place", "pin", "bind", "count", "send"} => bound.upstream # None
    BY DEF SessInv, Alive
  <2>2. bound.upstream # None => bound.upstream \in Sockets
    BY DEF SessInv, TypeOK, Bound
  <2>3. bound.upstream # None /\ channel = "open" =>
          sock'[bound.upstream].at = "open" \/ relay'[bound.upstream].at = "backoff"
    BY <1>1, <2>2 DEF SessInv, Alive
  <2>4. ASSUME Heeding', loop.at = "read", codex.message = None
        PROVE  \/ sock'[bound.upstream].serving # None \/ relay'[bound.upstream].at = "backoff"
               \/ relay'[bound.upstream].at = "got" /\ Terminal(relay'[bound.upstream].event)
    <3>1. Heeding /\ codex'.at = "waiting" /\ sock' = sock
      BY <1>3, <2>4 DEF Heeding
    <3>2. ~ Terminal(relay[u].event)
      BY <3>1
    <3>3. QED BY <1>1, <2>1, <2>2, <2>4, <3>1, <3>2 DEF SessInv, Alive
  <2>5. QED BY <2>1, <2>3, <2>4 DEF SessInv, Alive, Over
<1>17. RunningIsActive' /\ Counted1'
  <2>1. \A r : InHand(r) => InHand(r)'
    BY <1>1 DEF InHand
  <2>2. RunningIsActive'
    BY <1>4, <2>1 DEF SessInv, RunningIsActive
  <2>3. {r \in Responses : Unfinished(r)'} = {r \in Responses : Unfinished(r)}
    BY <1>4
  <2>4. QED BY <2>2, <2>3 DEF SessInv, Counted1, Counting
<1>18. QED
  BY <1>7, <1>8, <1>9, <1>10, <1>11, <1>12, <1>13, <1>14, <1>15, <1>16, <1>17 DEF SessInv

\* It is passed on, held back, or the first of the content,
LEMMA PassInv ==
  ASSUME SessInv, TypeOK', NEW u \in Sockets, Pass(u) \/ Hold(u) \/ Commit(u)
  PROVE  SessInv'
<1>1. Got(u) /\ UNCHANGED <<loop, bound, inFlight, channel>>
  BY DEF Pass, Hold, Commit
<1>2. ResponseKept /\ \A r \in Responses : response'[r].finished = response[r].finished
  <2>1. CASE Pass(u)
    BY <2>1 DEF Pass, ResponseKept
  <2>2. CASE Hold(u) \/ Commit(u)
    <3>1. relay[u].resp \in Responses
      BY <2>2 DEF Hold, Commit, Held, SessInv, TypeOK, Relay
    <3>2. \A r \in Responses \ {relay[u].resp} : response'[r] = response[r]
      BY <2>2 DEF Hold, Commit, SessInv, TypeOK
    <3>3. /\ response'[relay[u].resp].started = response[relay[u].resp].started
          /\ response'[relay[u].resp].account = response[relay[u].resp].account
          /\ response'[relay[u].resp].finished = response[relay[u].resp].finished
      BY <2>2, <3>1 DEF Hold, Commit, SessInv, TypeOK, Response
    <3>4. QED BY <3>1, <3>2, <3>3 DEF ResponseKept
  <2>3. QED BY <2>1, <2>2
<1>3. SockKept /\ (channel = "open" => sock' = sock)
  <2>1. CASE UNCHANGED sock
    BY <2>1 DEF SockKept
  <2>2. CASE channel = "closed" /\ sock' = CloseSocket(u)
    BY <2>2, CloseSocketDoes DEF SessInv
  <2>3. QED BY <2>1, <2>2 DEF Pass, Hold, Commit
<1>4. PICK at \in {"next", "record", "over"} :
         /\ Goes(u, at) /\ (at = "record" => relay[u].resp # None)
         /\ (channel = "open" /\ relay[u].resp # None /\ Terminal(relay[u].event) => at = "record")
  BY DEF Pass, Hold, Commit, Held, Terminal, Failure
<1>5. /\ relay'[u].at = at /\ RelaysKept(u)
      /\ at = "record" => /\ relay'[u].resp = relay[u].resp /\ relay'[u].event = relay[u].event
                         /\ relay'[u].asked = relay[u].asked
      /\ at # "record" => relay'[u].resp = None /\ relay'[u].event = "life" /\ ~ relay'[u].asked
  BY <1>4, GoesDoes DEF SessInv
<1>6. /\ codex'.message = codex.message
      /\ codex'.at # codex.at =>
           /\ Heeding /\ Terminal(relay[u].event)
           /\ codex'.at = IF relay[u].event = "completed" THEN "ready" ELSE "leaving"
      /\ Heeding /\ Terminal(relay[u].event) => codex'.at # "waiting"
  <2>1. CASE Hold(u)
    BY <2>1 DEF Hold, Terminal, Failure
  <2>2. CASE SendClient(Sees(relay[u].event))
    BY <2>2 DEF SendClient, Sees, Heeding, SessInv, TypeOK, Codex
  <2>3. QED BY <2>1, <2>2 DEF Pass, Commit
<1>7. QED BY <1>1, <1>2, <1>3, <1>4, <1>5, <1>6, HeardInv

\* What a relay finds recorded leaves the types of what the others hold.
LEMMA KnownKept ==
  ASSUME TypeOK, Named, ResponseKept,
         \A v \in Sockets : \/ relay'[v] = relay[v]
                            \/ relay'[v].resp = None /\ relay'[v].at # "record",
         bound'.active \in {bound.active, None}, bound'.account = bound.account, loop' = loop
  PROVE  Named'
<1>1. \A v \in Sockets : relay[v].resp \in Responses \cup {None}
  BY DEF TypeOK, Relay
<1>2. bound.active \in Responses \cup {None}
  BY DEF TypeOK, Bound
<1>3. \A r \in Responses : response'[r].account = response[r].account
  BY DEF ResponseKept
<1>4. \A v \in Sockets :
        /\ relay[v].resp # None => response'[relay[v].resp].account # None
        /\ relay[v].at = "record" => relay[v].resp # None
  BY <1>1, <1>3 DEF Named, Known
<1>5. \A v \in Sockets :
        /\ relay'[v].resp # None => response'[relay'[v].resp].account # None
        /\ relay'[v].at = "record" => relay'[v].resp # None
  BY <1>4
<1>6. bound'.active # None => response'[bound'.active].account # None
  BY <1>2, <1>3 DEF Named, Known
<1>7. (Placing' <=> Placing) /\ (Binding' <=> Binding)
  BY DEF Placing, Binding
<1>8. (Placing \/ Binding => loop.resp # None)
      /\ (loop.at \in {"read", "place", "pin", "bind", "count", "send"} => bound.account # None)
  BY DEF Named
<1>9. QED BY <1>5, <1>6, <1>7, <1>8 DEF Named, Known

LEMMA OwnedKept ==
  ASSUME TypeOK, Owned, ResponseKept,
         \A v \in Sockets : /\ sock'[v].carried = sock[v].carried
                            /\ sock'[v].at = "free" => sock[v].at = "free" /\ relay'[v] = relay[v]
                            /\ sock[v].at # "free" => sock'[v].at # "free",
         bound'.upstream = bound.upstream
  PROVE  Owned'
<1>1. \A v \in Sockets : sock[v].carried \subseteq Responses
  BY DEF TypeOK, Socket
<1>2. \A v \in Sockets : \A r \in sock[v].carried : response'[r].started
  BY <1>1 DEF Owned, ResponseKept
<1>3. bound.upstream # None => bound.upstream \in Sockets
  BY DEF TypeOK, Bound
<1>4. QED BY <1>2, <1>3 DEF Owned

\* or a failure another socket may answer.
LEMMA HandOverInv == ASSUME SessInv, TypeOK', NEW u \in Sockets, HandOver(u) PROVE SessInv'
<1> DEFINE q == relay[u].resp
<1>1. /\ relay[u].at = "got" /\ q \in Responses /\ q # None /\ Terminal(relay[u].event)
      /\ UNCHANGED <<codex, loop>>
  BY SessionAssumption
     DEF HandOver, Got, Held, HandedOver, Retryable, Terminal, Failure, SessInv, TypeOK, Relay
<1>2. /\ relay[u].event \in Failure /\ relay[u].event # "life"
      /\ sock[u].carried # {} /\ (bound.upstream = u \/ loop.at = "over")
      /\ \A v \in Sockets \ {u} :
           /\ sock[v].carried = {} /\ sock[v].serving = None
           /\ relay[v].event = "life" /\ ~ relay[v].asked /\ relay[v].at # "backoff"
  <2>1. relay[u].event \in Failure /\ relay[u].event # "life"
    BY DEF HandOver, HandedOver, Retryable, Failure
  <2>2. QED BY <2>1, OneSpeaks
<1>21. /\ ~ Asking /\ ~ Asking' /\ ~ Placing /\ ~ Placing' /\ codex.message = None
       /\ codex.at # "ready" /\ (Binding' <=> Binding)
  <2>1. ~ Asking
    BY <1>1, <1>2 DEF SessInv, Silent
  <2>2. QED BY <1>1, <2>1 DEF Asking, Placing, Binding
<1>3. /\ bound'.active = None /\ bound'.upstream = bound.upstream /\ bound'.account = bound.account
      /\ bound'.sent = bound.sent
  BY DEF HandOver, SessInv, TypeOK, Bound
<1>4. /\ ResponseKept /\ \A r \in Responses : Unfinished(r)' <=> Unfinished(r) /\ r # q
      /\ inFlight' = inFlight - Cardinality({r \in {q} : Unfinished(r)})
  BY <1>1, FinishDoes DEF HandOver, SessInv
<1>5. /\ SockKept /\ sock'[u].at # "open" /\ \A v \in Sockets \ {u} : sock'[v] = sock[v]
  BY CloseSocketDoes DEF HandOver, SessInv
<1>6. PICK at \in {"backoff", "over"} : /\ Goes(u, at) /\ (at = "over" => channel' # "open")
                                        /\ (channel' = "open" => channel = "open")
  <2>1. CASE Goes(u, "backoff") /\ UNCHANGED channel
    BY <2>1
  <2>2. CASE Goes(u, "over") /\ CloseClient
    BY <2>2, CloseClientDoes DEF SessInv
  <2>3. QED BY <2>1, <2>2 DEF HandOver
<1>7. /\ relay'[u].at = at /\ relay'[u].resp = None /\ relay'[u].event = "life" /\ ~ relay'[u].asked
      /\ \A v \in Sockets \ {u} : relay'[v] = relay[v]
  BY <1>6, GoesDoes DEF SessInv, RelaysKept
<1>8. bound.active \in {q, None} /\ sock[u].at # "free"
  BY <1>1, <1>2 DEF SessInv, Hears, Owned
<1>9. Heeding' => Heeding /\ bound.upstream = u /\ relay'[u].at = "backoff"
  <2>1. channel' = "open" => channel = "open" /\ relay'[u].at = "backoff"
    BY <1>6, <1>7
  <2>2. channel = "open" => bound.upstream = u
    BY <1>2 DEF SessInv, Over
  <2>3. QED BY <1>1, <2>1, <2>2 DEF Heeding
<1>10. Named'
  BY <1>1, <1>3, <1>4, <1>7, KnownKept DEF SessInv
<1>11. Opening' /\ Waits'
  BY <1>1, <1>21 DEF SessInv, Opening, Waits
<1>12. Fresh'
  BY <1>4 DEF SessInv, Fresh, ResponseKept
<1>13. Carries'
  <2>1. \A v \in Sockets : sock'[v].carried = sock[v].carried /\ sock'[v].serving = sock[v].serving
    BY <1>5 DEF SockKept
  <2>2. \A v \in Sockets \ {u} : relay'[v] = relay[v] /\ sock[v].carried = {}
    BY <1>2, <1>7
  <2>3. QED BY <1>1, <1>2, <1>3, <1>7, <1>21, <2>1, <2>2 DEF SessInv, Carries, OneSocketCarries
<1>14. Silent' /\ Between'
  <2>1. Phase' => Phase
    BY <1>21 DEF Phase
  <2>2. \A v \in Sockets : /\ sock'[v].serving = sock[v].serving
                           /\ relay'[v].at = "got" => relay'[v] = relay[v]
    BY <1>5, <1>7 DEF SockKept
  <2>3. QED BY <1>21, <2>1, <2>2 DEF SessInv, Silent, Between
<1>15. Distinct'
  <2>1. Binding => loop.resp \in Responses
    BY SessionAssumption DEF SessInv, Named, TypeOK, Loop
  <2>2. QED BY <1>1, <1>3, <1>4, <1>21, <2>1 DEF SessInv, Distinct, ResponseKept
<1>22. Serves'
  <2>1. \A v \in Sockets : sock'[v].serving # None => v = u
    BY <1>2, <1>5
  <2>2. relay'[u].at \in {"over", "backoff"}
    BY <1>7
  <2>3. QED BY <1>3, <1>9, <2>1, <2>2 DEF Serves
<1>23. Hears'
  <2>1. \A v \in Sockets : relay[v].resp # None =>
          /\ relay[v].at \in {"got", "record"}
          /\ response'[relay[v].resp].started
    BY <1>4 DEF SessInv, Hears, TypeOK, Relay, ResponseKept
  <2>2. \A v \in Sockets : /\ relay'[v].event = "life" /\ ~ relay'[v].asked
                           /\ relay'[v].resp = None \/ (relay'[v].resp = relay[v].resp /\ relay'[v].at = relay[v].at)
    BY <1>2, <1>7
  <2>3. "life" \notin Failure
    BY DEF Failure
  <2>4. QED BY <2>1, <2>2, <2>3 DEF Hears
<1>16. Owned'
  BY <1>3, <1>4, <1>5, <1>7, <1>8, OwnedKept DEF SessInv, SockKept
<1>17. Alive' /\ Over'
  <2>1. bound.upstream # None => bound.upstream \in Sockets
    BY DEF SessInv, TypeOK, Bound
  <2>2. loop.at \in {"read", "place", "pin", "bind", "count", "send"} => bound.upstream # None
    BY DEF SessInv, Alive
  <2>3. channel' = "open" => channel = "open" /\ relay'[u].at = "backoff"
    BY <1>6, <1>7
  <2>4. bound.upstream # None /\ channel' = "open" =>
          sock'[bound.upstream].at = "open" \/ relay'[bound.upstream].at = "backoff"
    BY <1>5, <1>7, <2>1, <2>3 DEF SessInv, Alive
  <2>5. QED BY <1>1, <1>3, <1>9, <2>2, <2>3, <2>4 DEF SessInv, Alive, Over
<1>18. RunningIsActive'
  <2>1. \A r : ~ InHand(r)
    BY <1>1, <1>2 DEF InHand, Terminal, Failure
  <2>2. QED BY <1>4, <1>8, <2>1, SessionAssumption DEF SessInv, RunningIsActive
<1>19. Counted1'
  <2>1. loop'.at = "count" <=> loop.at = "count"
    BY <1>1
  <2>2. \A r \in Responses : Unfinished(r)' <=> Unfinished(r) /\ r \notin {q}
    BY <1>4
  <2>3. QED BY <1>1, <1>4, <2>1, <2>2, CountFinish DEF SessInv
<1>20. QED
  BY <1>10, <1>11, <1>12, <1>13, <1>14, <1>15, <1>16, <1>17, <1>18, <1>19, <1>22, <1>23 DEF SessInv

\* The wait is over, or the session is.
LEMMA BackoffInv == ASSUME SessInv, TypeOK', NEW u \in Sockets, Backoff(u) PROVE SessInv'
<1>1. /\ relay[u].at = "backoff" /\ Goes(u, "over")
      /\ UNCHANGED <<codex, loop, bound, sock, response, inFlight>>
  BY DEF Backoff
<1>2. channel' # "open" /\ ~ Heeding'
  BY CloseClientDoes DEF Backoff, SessInv, Over, Heeding
<1>3. /\ relay'[u].at = "over" /\ relay'[u].resp = None /\ relay'[u].event = "life" /\ ~ relay'[u].asked
      /\ \A v \in Sockets \ {u} : relay'[v] = relay[v]
  BY <1>1, GoesDoes DEF SessInv, RelaysKept
<1>4. /\ (Placing' <=> Placing) /\ (Binding' <=> Binding) /\ (Asking' <=> Asking) /\ (Phase' <=> Phase)
  BY <1>1 DEF Placing, Binding, Asking, Phase
<1>5. \A r : (Unfinished(r)' <=> Unfinished(r)) /\ (InHand(r)' <=> InHand(r))
  BY <1>1, <1>3 DEF Unfinished, InHand
<1>6. Named'
  BY <1>1, <1>3, KnownKept DEF SessInv, ResponseKept
<1>7. Opening' /\ Waits' /\ Fresh'
  BY <1>1, <1>4 DEF SessInv, Opening, Waits, Fresh
<1>8. Carries'
  BY <1>1, <1>3, <1>4 DEF SessInv, Carries, OneSocketCarries
<1>9. Silent' /\ Between'
  BY <1>1, <1>2, <1>3, <1>4, <1>5 DEF SessInv, Silent, Between
<1>10. Distinct' /\ Serves'
  BY <1>1, <1>2, <1>4 DEF SessInv, Distinct, Serves
<1>11. Hears'
  BY <1>1, <1>2, <1>3, <1>4 DEF SessInv, Hears, Failure
<1>12. Owned' /\ Alive' /\ Over'
  BY <1>1, <1>2, <1>3 DEF SessInv, Owned, Alive, Over
<1>13. RunningIsActive' /\ Counted1'
  BY <1>1, <1>5 DEF SessInv, RunningIsActive, Counted1, Counting
<1>14. QED
  BY <1>6, <1>7, <1>8, <1>9, <1>10, <1>11, <1>12, <1>13 DEF SessInv

\* The record of an event that is not the last one.
LEMMA MergedInv ==
  ASSUME SessInv, TypeOK', NEW u \in Sockets, Record(u), ~ Terminal(relay[u].event)
  PROVE  SessInv'
<1>1. /\ relay[u].at = "record" /\ Goes(u, "next")
      /\ UNCHANGED <<codex, channel, loop, bound, sock, response, inFlight>>
  BY DEF Record, Terminal, Failure
<1>2. /\ relay'[u].at = "next" /\ relay'[u].resp = None /\ relay'[u].event = "life" /\ ~ relay'[u].asked
      /\ \A v \in Sockets \ {u} : relay'[v] = relay[v]
  BY <1>1, GoesDoes DEF SessInv, RelaysKept
<1>3. /\ (Placing' <=> Placing) /\ (Binding' <=> Binding) /\ (Asking' <=> Asking) /\ (Phase' <=> Phase)
      /\ (Heeding' <=> Heeding)
  BY <1>1 DEF Placing, Binding, Asking, Phase, Heeding
<1>4. \A r : (Unfinished(r)' <=> Unfinished(r)) /\ (InHand(r)' <=> InHand(r))
  BY <1>1, <1>2 DEF Unfinished, InHand
<1>5. Named'
  BY <1>1, <1>2, KnownKept DEF SessInv, ResponseKept
<1>6. Opening' /\ Waits' /\ Fresh'
  BY <1>1, <1>3 DEF SessInv, Opening, Waits, Fresh
<1>7. Carries'
  BY <1>1, <1>2, <1>3 DEF SessInv, Carries, OneSocketCarries
<1>8. Silent' /\ Between'
  BY <1>1, <1>2, <1>3, <1>4 DEF SessInv, Silent, Between
<1>9. Distinct'
  BY <1>1, <1>3 DEF SessInv, Distinct
<1>14. \A v \in Sockets : /\ relay'[v].at = "backoff" <=> relay[v].at = "backoff"
                          /\ relay'[v].at = "over" <=> relay[v].at = "over"
                          /\ relay[v].at = "got" => relay'[v] = relay[v]
  BY <1>1, <1>2
<1>15. bound.upstream # None => bound.upstream \in Sockets
  BY DEF SessInv, TypeOK, Bound
<1>16. Binding => bound.upstream # None
  BY DEF SessInv, Alive, Binding
<1>17. Serves'
  BY <1>1, <1>3, <1>14, <1>15, <1>16 DEF SessInv, Serves
<1>10. Hears'
  BY <1>1, <1>2, <1>3 DEF SessInv, Hears, Failure
<1>11. Owned' /\ Alive' /\ Over'
  <2>1. sock[u].at # "free"
    BY <1>1 DEF SessInv, Owned
  <2>2. Owned'
    BY <1>1, <1>2, <2>1, OwnedKept DEF SessInv, ResponseKept
  <2>3. Alive' /\ Over'
    BY <1>1, <1>3, <1>14, <1>15 DEF SessInv, Alive, Over
  <2>4. QED BY <2>2, <2>3
<1>12. RunningIsActive' /\ Counted1'
  BY <1>1, <1>4 DEF SessInv, RunningIsActive, Counted1, Counting
<1>13. QED
  BY <1>5, <1>6, <1>7, <1>8, <1>9, <1>10, <1>11, <1>12, <1>17 DEF SessInv

\* The record of a response's last event.
LEMMA RecordedInv ==
  ASSUME SessInv, TypeOK', NEW u \in Sockets, Record(u), Terminal(relay[u].event)
  PROVE  SessInv'
<1> DEFINE q == relay[u].resp
<1>1. /\ relay[u].at = "record" /\ q \in Responses /\ q # None /\ UNCHANGED <<codex, loop>>
  BY SessionAssumption DEF Record, SessInv, Named, TypeOK, Relay
<1>2. /\ bound'.active = ActiveAfter(q) /\ bound'.upstream = bound.upstream
      /\ bound'.account = bound.account /\ bound'.sent = bound.sent
  BY DEF Record, SessInv, TypeOK, Bound
<1>3. /\ ResponseKept /\ \A r \in Responses : Unfinished(r)' <=> Unfinished(r) /\ r # q
      /\ inFlight' = inFlight - Cardinality({r \in {q} : Unfinished(r)})
  <2>1. PICK outcome : Finish({q}, outcome)
    BY DEF Record
  <2>2. TypeOK /\ {q} \in SUBSET Responses
    BY <1>1 DEF SessInv
  <2>3. QED BY <2>1, <2>2, FinishDoes
<1>4. PICK at \in {"next", "over"} :
        /\ Goes(u, at) /\ SockKept
        /\ channel' = "open" => at = "next" /\ channel = "open" /\ sock' = sock
  <2>1. CASE Goes(u, "over") /\ CloseClient /\ sock' = CloseSocket(u)
    BY <2>1, CloseClientDoes, CloseSocketDoes DEF SessInv
  <2>2. CASE Goes(u, "next") /\ UNCHANGED <<channel, sock>>
    BY <2>2 DEF SockKept
  <2>3. QED BY <2>1, <2>2 DEF Record
<1>5. /\ relay'[u].at = at /\ relay'[u].resp = None /\ relay'[u].event = "life" /\ ~ relay'[u].asked
      /\ \A v \in Sockets \ {u} : relay'[v] = relay[v]
  BY <1>4, GoesDoes DEF SessInv, RelaysKept
<1>6. /\ (Placing' <=> Placing) /\ (Binding' <=> Binding) /\ (Asking' <=> Asking) /\ (Phase' <=> Phase)
      /\ Heeding' => Heeding
  BY <1>1, <1>4 DEF Placing, Binding, Asking, Phase, Heeding
<1>7. /\ bound'.active # None => bound'.active = bound.active /\ bound.active # q
      /\ bound.active # q => bound'.active = bound.active
      /\ bound.active \in Responses \cup {None}
  BY <1>2 DEF ActiveAfter, SessInv, TypeOK, Bound
<1>8. \A r : r # q => (InHand(r)' <=> InHand(r))
  BY <1>1, <1>5 DEF InHand
<1>9. \A v \in Sockets \ {u} : /\ sock[v].carried = {} /\ sock[v].serving = None
                               /\ relay[v].event = "life" /\ ~ relay[v].asked
  <2>1. relay[u].event # "life"
    BY DEF Terminal, Failure
  <2>2. QED BY <2>1, OneSpeaks
<1>10. Heeding' => /\ Heeding /\ q # sock[u].serving /\ (Binding => q # loop.resp)
  <2>1. ASSUME Heeding' PROVE relay[u].event \notin Failure
    BY <1>1, <1>6, <2>1 DEF SessInv, Hears, Heeding
  <2>2. ASSUME Heeding' PROVE relay[u].event = "completed"
    BY <2>1, <2>2 DEF Terminal
  <2>3. QED BY <1>1, <1>6, <2>2 DEF SessInv, Hears
<1>11. Named'
  BY <1>1, <1>2, <1>3, <1>5, <1>7, KnownKept DEF SessInv
<1>12. Opening' /\ Waits' /\ Fresh'
  <2>1. Opening' /\ Waits'
    BY <1>1, <1>6 DEF SessInv, Opening, Waits
  <2>2. Fresh'
    BY <1>3 DEF SessInv, Fresh, ResponseKept
  <2>3. QED BY <2>1, <2>2
<1>13. Carries'
  BY <1>1, <1>2, <1>4, <1>5, <1>6, <1>7 DEF SessInv, Carries, OneSocketCarries, SockKept
<1>14. Silent'
  BY <1>1, <1>4, <1>5, <1>6 DEF SessInv, Silent, SockKept
<1>15. Between'
  BY <1>6, <1>7, <1>8 DEF SessInv, Between
<1>16. Distinct'
  <2>1. /\ loop.resp \in Responses \cup {None} /\ codex.message \in Responses \cup {None}
        /\ (Placing \/ Binding => loop.resp # None)
    BY DEF SessInv, TypeOK, Loop, Codex, Named
  <2>2. \A r \in Responses : response'[r].started = response[r].started
    BY <1>3 DEF ResponseKept
  <2>3. QED BY <1>1, <1>6, <1>7, <2>1, <2>2 DEF SessInv, Distinct
<1>17. Serves'
  <2>1. \A v \in Sockets : /\ relay[v].at = "backoff" => relay'[v].at = "backoff"
                           /\ sock'[v].serving = sock[v].serving
    BY <1>1, <1>4, <1>5 DEF SockKept
  <2>2. Binding => bound.upstream \in Sockets
    BY DEF SessInv, Alive, Binding, TypeOK, Bound
  <2>3. Binding =>
          /\ bound'.active \in {loop.resp, None}
          /\ Heeding' => bound'.active = loop.resp \/ relay'[bound.upstream].at = "backoff"
    BY <1>7, <1>10, <2>1, <2>2 DEF SessInv, Serves
  <2>4. ASSUME NEW v \in Sockets, sock[v].serving # None
        PROVE  /\ bound'.active \in {sock[v].serving, None}
               /\ Heeding' => bound'.active = sock[v].serving
    <3>1. v = u
      BY <1>9, <2>4
    <3>2. bound.active \in {sock[u].serving, None} /\ (Heeding => bound.active = sock[u].serving)
      BY <1>1, <2>4, <3>1 DEF SessInv, Serves
    <3>3. QED BY <1>7, <1>10, <3>1, <3>2
  <2>5. QED BY <1>1, <1>2, <1>6, <2>1, <2>3, <2>4 DEF Serves
<1>18. Hears'
  <2>1. \A v \in Sockets : relay[v].resp # None =>
          /\ relay[v].at \in {"got", "record"}
          /\ response'[relay[v].resp].started
    BY <1>3 DEF SessInv, Hears, TypeOK, Relay, ResponseKept
  <2>2. \A v \in Sockets : /\ relay'[v].event = "life" /\ ~ relay'[v].asked
                           /\ relay'[v].resp = None \/ (relay'[v].resp = relay[v].resp /\ relay'[v].at = relay[v].at)
    BY <1>5, <1>9
  <2>3. "life" \notin Failure
    BY DEF Failure
  <2>4. QED BY <2>1, <2>2, <2>3 DEF Hears
<1>19. Owned'
  <2>1. sock[u].at # "free"
    BY <1>1 DEF SessInv, Owned
  <2>2. QED BY <1>2, <1>3, <1>4, <1>5, <2>1, OwnedKept DEF SessInv, SockKept
<1>20. Alive' /\ Over'
  <2>1. \A v \in Sockets : /\ relay'[v].at = "backoff" <=> relay[v].at = "backoff"
                           /\ relay[v].at = "got" => relay'[v] = relay[v]
    BY <1>1, <1>5
  <2>2. bound.upstream # None => bound.upstream \in Sockets
    BY DEF SessInv, TypeOK, Bound
  <2>3. loop.at \in {"read", "place", "pin", "bind", "count", "send"} => bound.upstream # None
    BY DEF SessInv, Alive
  <2>4. channel' = "open" => channel = "open" /\ sock' = sock
    BY <1>4
  <2>5. Heeding' => sock' = sock
    BY <2>4 DEF Heeding
  <2>6. QED BY <1>1, <1>2, <1>6, <1>7, <2>1, <2>2, <2>3, <2>4, <2>5 DEF SessInv, Alive, Over
<1>21. RunningIsActive'
  BY <1>3, <1>7, <1>8 DEF SessInv, RunningIsActive
<1>22. Counted1'
  <2>1. loop'.at = "count" <=> loop.at = "count"
    BY <1>1
  <2>2. \A r \in Responses : Unfinished(r)' <=> Unfinished(r) /\ r \notin {q}
    BY <1>3
  <2>3. QED BY <1>1, <1>3, <2>1, <2>2, CountFinish DEF SessInv
<1>23. QED
  BY <1>11, <1>12, <1>13, <1>14, <1>15, <1>16, <1>17, <1>18, <1>19, <1>20, <1>21, <1>22 DEF SessInv

\* An upstream socket ends.
LEMMA GoneInv == ASSUME SessInv, TypeOK', NEW u \in Sockets, Gone(u) PROVE SessInv'
<1>1. relay[u].at = "next" /\ sock[u].at # "free" /\ Goes(u, "over") /\ UNCHANGED <<codex, loop>>
  BY DEF Gone
<1>2. /\ sock'[u].at = "closed" /\ sock'[u].serving = None /\ sock'[u].carried = sock[u].carried
      /\ sock'[u].account = sock[u].account /\ \A v \in Sockets \ {u} : sock'[v] = sock[v]
  BY DEF Gone, SessInv, TypeOK, Socket
<1>3. /\ relay'[u].at = "over" /\ relay'[u].resp = None /\ relay'[u].event = "life" /\ ~ relay'[u].asked
      /\ \A v \in Sockets \ {u} : relay'[v] = relay[v]
  BY <1>1, GoesDoes DEF SessInv, RelaysKept
<1>4. PICK rs \in SUBSET Responses :
        /\ ResponseKept /\ \A r \in Responses : Unfinished(r)' <=> Unfinished(r) /\ r \notin rs
        /\ inFlight' = inFlight - Cardinality({r \in rs : Unfinished(r)})
        /\ \A r \in rs : bound.active = r
        /\ bound'.active \in {bound.active, None} /\ (bound'.active # bound.active => channel' # "open")
        /\ rs = {} => bound'.active = bound.active \/ bound.active = None
        /\ channel' = "open" => channel = "open" /\ bound.upstream # u
  <2>1. CASE Current(u)
    <3>1. Active \subseteq Responses
      BY DEF SessInv, TypeOK, Active, Bound
    <3>2. /\ ResponseKept /\ \A r \in Responses : Unfinished(r)' <=> Unfinished(r) /\ r \notin Active
          /\ inFlight' = inFlight - Cardinality({r \in Active : Unfinished(r)})
      BY <2>1, <3>1, FinishDoes DEF Gone, SessInv
    <3>3. bound'.active = None /\ channel' # "open"
      BY <2>1, CloseClientDoes DEF Gone, SessInv, TypeOK, Bound
    <3>4. QED BY <3>1, <3>2, <3>3 DEF Active
  <2>2. CASE ~ Current(u)
    <3>1. UNCHANGED <<bound, response, inFlight, channel>> /\ bound.upstream # u
      BY <2>2 DEF Gone, Current
    <3>2. Cardinality({}) = 0 /\ inFlight \in Int
      BY FS_EmptySet DEF SessInv, TypeOK
    <3>3. {r \in {} : Unfinished(r)} = {}
      OBVIOUS
    <3>4. \A r \in Responses : Unfinished(r)' <=> Unfinished(r) /\ r \notin {}
      BY <3>1 DEF Unfinished
    <3>5. ResponseKept /\ inFlight' = inFlight - Cardinality({r \in {} : Unfinished(r)})
      BY <3>1, <3>2, <3>3 DEF ResponseKept
    <3>6. {} \in SUBSET Responses /\ \A r \in {} : bound.active = r
      OBVIOUS
    <3>7. QED BY <3>1, <3>4, <3>5, <3>6
  <2>3. QED BY <2>1, <2>2
<1>5. /\ bound'.upstream = bound.upstream /\ bound'.account = bound.account /\ bound'.sent = bound.sent
  BY DEF Gone, SessInv, TypeOK, Bound
<1>6. /\ (Placing' <=> Placing) /\ (Binding' <=> Binding) /\ (Asking' <=> Asking) /\ (Phase' <=> Phase)
      /\ Heeding' => Heeding /\ bound'.active = bound.active /\ bound.upstream # u
  BY <1>1, <1>4 DEF Placing, Binding, Asking, Phase, Heeding
<1>7. \A r : InHand(r)' <=> InHand(r)
  BY <1>1, <1>3 DEF InHand
<1>8. Named'
  BY <1>1, <1>3, <1>4, <1>5, KnownKept DEF SessInv
<1>9. Opening' /\ Waits' /\ Fresh'
  BY <1>1, <1>4, <1>6 DEF SessInv, Opening, Waits, Fresh, ResponseKept
<1>10. Carries'
  BY <1>1, <1>2, <1>3, <1>4, <1>5, <1>6 DEF SessInv, Carries, OneSocketCarries
<1>11. Silent'
  BY <1>2, <1>3, <1>4, <1>6 DEF SessInv, Silent
<1>12. Between'
  BY <1>4, <1>6, <1>7 DEF SessInv, Between
<1>13. Distinct'
  <2>1. /\ loop.resp \in Responses \cup {None} /\ codex.message \in Responses \cup {None}
        /\ bound.active \in Responses \cup {None}
    BY DEF SessInv, TypeOK, Loop, Codex, Bound
  <2>2. \A r \in Responses : response'[r].started = response[r].started
    BY <1>4 DEF ResponseKept
  <2>3. Placing \/ Binding => loop.resp # None
    BY DEF SessInv, Named
  <2>4. QED BY <1>1, <1>4, <1>5, <1>6, <2>1, <2>2, <2>3 DEF SessInv, Distinct
<1>14. Serves'
  <2>1. Binding => bound.upstream \in Sockets
    BY DEF SessInv, Alive, Binding, TypeOK, Bound
  <2>2. Binding =>
          /\ bound'.active \in {loop.resp, None}
          /\ Heeding' => bound'.active = loop.resp \/ relay'[bound.upstream].at = "backoff"
    BY <1>3, <1>4, <1>6, <2>1 DEF SessInv, Serves
  <2>3. ASSUME NEW v \in Sockets, sock'[v].serving # None
        PROVE  /\ bound'.active \in {sock'[v].serving, None}
               /\ Heeding' => bound'.active = sock'[v].serving \/ relay'[v].at \in {"over", "backoff"}
    BY <1>2, <1>3, <1>4, <1>6, <2>3 DEF SessInv, Serves
  <2>4. QED BY <1>1, <1>5, <1>6, <2>2, <2>3 DEF Serves
<1>15. Hears'
  <2>1. \A v \in Sockets : relay[v].resp # None =>
          relay[v].at \in {"got", "record"} /\ response'[relay[v].resp].started
    BY <1>4 DEF SessInv, Hears, TypeOK, Relay, ResponseKept
  <2>2. channel' = "open" => channel = "open"
    BY <1>4
  <2>3. "life" \notin Failure
    BY DEF Failure
  <2>4. QED BY <1>1, <1>2, <1>3, <1>4, <1>6, <2>1, <2>2, <2>3 DEF SessInv, Hears
<1>16. Owned'
  BY <1>1, <1>2, <1>3, <1>4, <1>5, OwnedKept DEF SessInv
<1>17. Alive' /\ Over'
  <2>1. bound.upstream # None => bound.upstream \in Sockets
    BY DEF SessInv, TypeOK, Bound
  <2>2. loop.at \in {"read", "place", "pin", "bind", "count", "send"} => bound.upstream # None
    BY DEF SessInv, Alive
  <2>3. channel' = "open" => channel = "open" /\ bound.upstream # u
    BY <1>4
  <2>4. QED BY <1>1, <1>2, <1>3, <1>4, <1>5, <1>6, <2>1, <2>2, <2>3 DEF SessInv, Alive, Over
<1>18. RunningIsActive'
  BY <1>4, <1>7 DEF SessInv, RunningIsActive
<1>19. Counted1'
  <2>1. loop'.at = "count" <=> loop.at = "count"
    BY <1>1
  <2>2. QED BY <1>4, <2>1, CountFinish DEF SessInv
<1>20. QED
  BY <1>8, <1>9, <1>10, <1>11, <1>12, <1>13, <1>14, <1>15, <1>16, <1>17, <1>18, <1>19 DEF SessInv

LEMMA RecordInv == ASSUME SessInv, TypeOK', NEW u \in Sockets, Record(u) PROVE SessInv'
BY MergedInv, RecordedInv

-----------------------------------------------------------------------------
(* The theorems                                                             *)

LEMMA InitInv == Init => SessInv
<1> SUFFICES ASSUME Init PROVE SessInv
  OBVIOUS
<1>1. TypeOK
  BY InitType
<1>2. \A u \in Sockets : /\ sock[u].serving = None /\ sock[u].carried = {} /\ sock[u].at = "free"
                         /\ relay[u].at = "none" /\ relay[u].resp = None
                         /\ relay[u].event = "life" /\ ~ relay[u].asked
  BY DEF Init, Unheard
<1>3. /\ loop.at = "dial" /\ loop.next = "read" /\ codex.at = "opening" /\ codex.message = None
      /\ bound.active = None /\ bound.upstream = None /\ ~ bound.sent
  BY DEF Init
<1>4. \A r \in Responses : ~ response[r].started /\ ~ response[r].finished
  BY DEF Init
<1>5. ~ Placing /\ ~ Binding /\ ~ Phase /\ ~ Asking /\ ~ Heeding
  BY <1>3 DEF Placing, Binding, Phase, Asking, Heeding
<1>6. Named /\ Opening /\ Waits /\ Fresh
  BY <1>2, <1>3, <1>4, <1>5 DEF Named, Known, Opening, Waits, Fresh
<1>7. Carries /\ Silent /\ Between /\ Distinct
  BY <1>2, <1>3, <1>5 DEF Carries, OneSocketCarries, Silent, Between, Distinct
<1>8. Serves /\ Hears /\ Owned /\ Alive /\ Over
  <2>1. "life" \notin Failure
    BY DEF Failure
  <2>2. QED BY <1>2, <1>3, <1>5, <2>1 DEF Serves, Hears, Owned, Alive, Over
<1>9. RunningIsActive
  BY <1>4 DEF RunningIsActive, Unfinished
<1>10. Counted1
  <2>1. {r \in Responses : Unfinished(r)} = {}
    BY <1>4 DEF Unfinished
  <2>2. inFlight = 0 /\ Counting = 0
    BY <1>3 DEF Init, Counting
  <2>3. QED BY <2>1, <2>2, FS_EmptySet DEF Counted1
<1>11. QED BY <1>1, <1>6, <1>7, <1>8, <1>9, <1>10 DEF SessInv

LEMMA TypeStep == ASSUME SessInv, Next PROVE TypeOK'
<1>1. TypeOK /\ Named
  BY DEF SessInv
<1>2. CASE CodexGoes \/ WriterEnds \/ \E r \in Responses : CodexSends(r)
  BY <1>1, <1>2, CodexSendsType, CodexGoesType
<1>3. CASE DialFails \/ \E c \in Accounts : Dial(c)
  <2>1. CASE \E c \in Accounts : Dial(c)
    <3>1. PICK c \in Accounts : Dial(c)
      BY <2>1
    <3>2. loop' \in Loop
      BY <1>1, <3>1 DEF TypeOK, Dial, Loop, Selectable
    <3>3. QED BY <1>1, <3>1, <3>2 DEF TypeOK, Dial
  <2>2. CASE DialFails
    <3>1. loop' \in Loop /\ cooling' \subseteq Accounts
      BY <1>1, <2>2 DEF TypeOK, DialFails, Loop
    <3>2. QED BY <1>1, <2>2, <3>1 DEF TypeOK, DialFails
  <2>3. QED BY <1>3, <2>1, <2>2
<1>4. CASE \E u \in Sockets : Dialled(u)
  <2>1. PICK u \in Sockets : Dialled(u)
    BY <1>4
  <2>2. loop.candidate \in Accounts
    BY <1>1, <2>1 DEF Dialled, TypeOK, Loop
  <2>3. QED BY <1>1, <2>1, <2>2, DialType
<1>5. CASE NoUpstream \/ ReadEnd \/ ReadCreate \/ Place \/ CheckPin \/ Bind \/ Count \/ Send
  BY <1>1, <1>5, NoUpstreamType, ReadType, PlaceType, BindType, CountType, SendType
<1>6. ASSUME NEW u \in Sockets, RelayStep(u) \/ \E e \in Event : Receive(u, e)
      PROVE  TypeOK'
  <2>1. relay[u].at = "record" => relay[u].resp # None
    BY <1>1 DEF Named
  <2>2. CASE Record(u)
    BY <1>1, <2>1, <2>2, RecordType DEF Record
  <2>3. CASE ~ Record(u)
    BY <1>1, <1>6, <2>3, ReceiveType, PassType, HoldType, HandOverType, CommitType, GoneType
       DEF RelayStep
  <2>4. QED BY <2>2, <2>3
<1>7. CASE NewPin
  BY <1>1, <1>7 DEF TypeOK, NewPin
<1>8. CASE \E a \in Accounts : OtherDrop(a) \/ OtherSuccess(a) \/ CooldownEnds(a)
  BY <1>1, <1>8, OthersType
<1>9. QED BY <1>2, <1>3, <1>4, <1>5, <1>6, <1>7, <1>8 DEF Next, ReaderStep

LEMMA SessStep ==
  ASSUME ~ Overlap, Stray \subseteq {"life"}, SessInv, [Next]_vars
  PROVE  SessInv'
<1>1. CASE UNCHANGED vars
  <2>1. TypeOK'
    BY <1>1 DEF SessInv, TypeOK, vars
  <2>2. QED BY <1>1, <2>1, IdleInv DEF vars
<1>2. CASE Next
  <2>1. TypeOK'
    BY <1>2, TypeStep
  <2>2. CASE CodexGoes \/ \E r \in Responses : CodexSends(r)
    BY <2>1, <2>2, CodexSendsInv, CodexGoesInv
  <2>3. CASE WriterEnds \/ DialFails \/ \E c \in Accounts : Dial(c)
    <3>1. /\ UNCHANGED <<codex, bound, sock, relay, response, inFlight>>
          /\ loop'.at = loop.at /\ loop'.next = loop.next /\ loop'.resp = loop.resp
          /\ channel' = "open" <=> channel = "open"
      BY <2>3 DEF WriterEnds, DialFails, Dial, SessInv, TypeOK, Loop
    <3>2. QED BY <2>1, <3>1, IdleInv
  <2>4. CASE \E u \in Sockets : Dialled(u)
    BY <2>1, <2>4, DialledInv
  <2>5. CASE NoUpstream \/ ReadEnd \/ ReadCreate \/ Place \/ CheckPin \/ Bind \/ Count \/ Send
    BY <2>1, <2>5, NoUpstreamInv, ReadEndInv, ReadCreateInv, PlaceInv, BindInv, CountInv, SendInv
  <2>6. ASSUME NEW u \in Sockets, RelayStep(u) \/ \E e \in Event : Receive(u, e)
        PROVE  SessInv'
    BY <2>1, <2>6, ReceiveInv, PassInv, HandOverInv, BackoffInv, RecordInv, GoneInv DEF RelayStep
  <2>7. CASE NewPin \/ \E a \in Accounts : OtherDrop(a) \/ OtherSuccess(a) \/ CooldownEnds(a)
    <3>1. UNCHANGED <<codex, channel, loop, bound, sock, relay, response, inFlight>>
      BY <2>7 DEF NewPin, OtherDrop, OtherSuccess, CooldownEnds
    <3>2. QED BY <2>1, <3>1, IdleInv
  <2>8. QED BY <1>2, <2>2, <2>3, <2>4, <2>5, <2>6, <2>7 DEF Next, ReaderStep
<1>3. QED BY <1>1, <1>2

\* The session's state stays what it should be, when Codex sends its next
\* request after the last one has ended (as it does) and upstream says no more
\* than notices on a socket that has carried no request.
LEMMA SessInvariant == ASSUME ~ Overlap, Stray \subseteq {"life"} PROVE Spec => []SessInv
<1>1. Init => SessInv
  BY InitInv
<1>2. SessInv /\ [Next]_vars => SessInv'
  BY SessStep
<1>3. QED BY <1>1, <1>2, PTL DEF Spec

\* Every field of the session keeps to its type: nobody records a response for
\* no account, and no relay acts for a response that is none.
THEOREM TypeCorrect == ASSUME ~ Overlap, Stray \subseteq {"life"} PROVE Spec => []TypeOK
<1>1. SessInv => TypeOK
  BY DEF SessInv
<1>2. QED BY <1>1, SessInvariant, PTL

\* A response that has not been recorded is the session's active one or its
\* record is in hand, however events, ends and requests interleave.
THEOREM RunningInReach == ASSUME ~ Overlap, Stray \subseteq {"life"} PROVE Spec => []RunningIsActive
<1>1. SessInv => RunningIsActive
  BY DEF SessInv
<1>2. QED BY <1>1, SessInvariant, PTL

\* The count the drain waits for is that of the responses that run; a session
\* that is over runs those whose record is in hand, and no other.
THEOREM DrainIsExact == ASSUME ~ Overlap, Stray \subseteq {"life"} PROVE Spec => []DrainExact
<1>1. SessInv => DrainExact
  <2>1. SUFFICES ASSUME SessInv, NEW r \in Responses, loop.at = "over", Unfinished(r)
                 PROVE  InHand(r)
    BY DEF SessInv, Counted1, DrainExact
  <2>2. bound.active # r
    BY <2>1, SessionAssumption DEF SessInv, Over
  <2>3. QED BY <2>1, <2>2 DEF SessInv, RunningIsActive
<1>2. QED BY <1>1, SessInvariant, PTL

\* All requests of a session that went upstream went on one socket.
THEOREM OneSocket == ASSUME ~ Overlap, Stray \subseteq {"life"} PROVE Spec => []OneSocketCarries
<1>1. SessInv => OneSocketCarries
  BY DEF SessInv, Carries
<1>2. QED BY <1>1, SessInvariant, PTL

\* Codex never waits on an open socket that nobody is about to answer or close.
THEOREM NobodyIsForgotten == ASSUME ~ Overlap, Stray \subseteq {"life"} PROVE Spec => []NobodyForgotten
<1>1. SessInv => NobodyForgotten
  <2>1. SUFFICES ASSUME SessInv, codex.at = "waiting", channel = "open", codex.message = None,
                        loop.at \in {"read", "over"}, \A u \in Sockets : sock[u].serving = None
                 PROVE  \E u \in Sockets : Busy(u)
    BY DEF NobodyForgotten
  <2>2. loop.at = "read"
    BY <2>1 DEF SessInv, Over
  <2>3. bound.upstream \in Sockets
    BY <2>1, <2>2 DEF SessInv, Alive, TypeOK, Bound
  <2>4. relay[bound.upstream].at \in {"got", "backoff"}
    BY <2>1, <2>2, <2>3 DEF SessInv, Alive, Heeding
  <2>5. QED BY <2>3, <2>4 DEF Busy
<1>2. QED BY <1>1, SessInvariant, PTL

\* A capacity or account failure of a request upstream serves is not shown to
\* a waiting Codex before content.
THEOREM HeldBack == ASSUME ~ Overlap, Stray \subseteq {"life"} PROVE Spec => FailuresHeldBack
<1> DEFINE Shown(u) == /\ relay[u].at = "got" /\ relay[u].at' # "got" /\ Retryable(relay[u].event)
                       /\ relay[u].asked /\ codex.at = "waiting" /\ codex.at' = "leaving"
           Committed(u) == relay[u].resp # None /\ response[relay[u].resp].committed
<1>1. ASSUME SessInv, Next, NEW u \in Sockets, Shown(u) PROVE Committed(u)
  <2>1. TypeOK /\ codex.at = "waiting" /\ codex'.at = "leaving"
    BY <1>1 DEF SessInv
  <2>2. \E v \in Sockets : Pass(v) \/ Commit(v)
    <3>1. UNCHANGED codex => FALSE
      BY <2>1
    <3>2. \A r \in Responses : ~ CodexSends(r)
      BY <2>1 DEF CodexSends, TypeOK, Codex
    <3>3. ~ CodexGoes /\ ~ ReadCreate /\ ~ NoUpstream
      BY <2>1 DEF CodexGoes, ReadCreate, NoUpstream, TypeOK, Codex
    <3>4. \A v \in Sockets : ~ Dialled(v)
      BY <2>1 DEF Dialled, TypeOK, Codex
    <3>5. QED
      BY <1>1, <3>1, <3>2, <3>3, <3>4
         DEF Next, ReaderStep, RelayStep, WriterEnds, Dial, DialFails, ReadEnd, Place, CheckPin,
             Bind, Count, Send, Hold, HandOver, Backoff, Record, Gone, Receive,
             NewPin, OtherDrop, OtherSuccess, CooldownEnds
  <2>3. PICK v \in Sockets : Pass(v) \/ Commit(v)
    BY <2>2
  <2>4. v = u
    <3>1. \E at : Goes(v, at)
      BY <2>3 DEF Pass, Commit
    <3>2. RelaysKept(v)
      BY <2>1, <3>1, GoesDoes
    <3>3. QED BY <1>1, <3>2 DEF RelaysKept
  <2>5. ~ Commit(u)
    BY <1>1 DEF Commit, HandedOver
  <2>6. Pass(u)
    BY <2>3, <2>4, <2>5
  <2>7. channel = "open"
    BY <2>1, <2>6 DEF Pass, SendClient
  <2>8. relay[u].resp # None
    BY <1>1, <2>1, <2>7 DEF SessInv, Hears, Heeding
  <2>9. QED BY <2>6, <2>8 DEF Pass, Held
<1>2. SessInv /\ [Next]_vars => [\A u \in Sockets : Shown(u) => Committed(u)]_vars
  BY <1>1
<1>3. QED BY <1>2, SessInvariant, PTL DEF Spec, FailuresHeldBack
=============================================================================

------------------------------ MODULE KeyLogin ------------------------------
(***************************************************************************)
(* A Codex signed in with an API key on the native endpoint (key_login.rs).*)
(* It offers fewer tools than one signed in with ChatGPT, and answers a    *)
(* call to one of those with "unsupported call".  The pool adds the tools  *)
(* to every request, for the account it goes to, and puts a native Codex's *)
(* answer in the place of that one, so upstream sees a native conversation.*)
(*                                                                         *)
(* The three MCP resource helpers go together and are one tool here.       *)
(***************************************************************************)
EXTENDS Integers, FiniteSets, SequencesExt

CONSTANTS
  Clients,   \* what a Codex offers: [shell, own, middle, last], see Offered
  Catalogs,  \* what the models catalog says: [images, text]
  Talks,     \* conversations of key-login Codexes
  Calls,     \* calls upstream makes to a completed tool
  Knowable,  \* those whose native answer follows from the arguments
  LogLimit,  \* CALL_LOG_LIMIT
  NoRequest  \* no request yet

Shell      == {"exec_command", "shell"}
Afterwards == {"tool_search", "web_search"}
Helpers    == {"helpers", "described helpers"}

\* Tools that have no place of their own.
Plain == STRING \ (Afterwards \cup Helpers \cup {"image_gen"})

ASSUME KeyLoginAssumption == Knowable \subseteq Calls /\ LogLimit \in Nat \ {0}

\* The shell tools come first, and what comes last starts with a search.
ASSUME ToolAssumption ==
  /\ Catalogs \subseteq [images : BOOLEAN, text : {"built in", "described", "schema"}]
  /\ \A c \in Clients :
       /\ c.shell \in Seq(Shell) /\ c.own \in BOOLEAN
       /\ c.middle \in Seq(Plain) /\ c.last \in Seq(Plain \cup Afterwards)
       /\ c.middle # <<>> => c.middle[1] \notin Shell
       /\ c.last # <<>> => c.last[1] \in Afterwards

VARIABLES
  catalog,  \* the catalog upstream last served, or the built-in facts
  offer,    \* the last request's tools, with what they were completed for
  log,      \* CallLog.order
  talk,     \* [Talks -> the client's history and whether its socket is open]
  answer    \* [Calls -> how upstream was shown its answer, the last time]

loginVars == <<catalog, offer, log, talk, answer>>

LoginInit ==
  /\ catalog = [images |-> TRUE, text |-> "built in"]
  /\ offer = NoRequest /\ log = <<>>
  /\ talk = [t \in Talks |-> [calls |-> <<>>, answered |-> 0, linked |-> FALSE]]
  /\ answer = [c \in Calls |-> "none"]

-----------------------------------------------------------------------------
\* Tools.

\* The catalog's own text takes the built-in one's place; its own schema the
\* pool cannot apply.
OwnHelpers(facts) == IF facts.text = "described" THEN "described helpers" ELSE "helpers"
ResourceHelpers(facts) == IF facts.text = "schema" THEN <<>> ELSE <<OwnHelpers(facts)>>

\* The plan and the model decide about images.
Images(facts, free) == IF facts.images /\ ~ free THEN <<"image_gen">> ELSE <<>>

MutantLast(tools, facts, free) ==
  tools \o (IF \E i \in DOMAIN tools : tools[i] \in Helpers THEN <<>> ELSE ResourceHelpers(facts))
        \o Images(facts, free)

\* completed_tools.
Completed(tools, facts, free) ==
  LET Listed(names) == \E i \in DOMAIN tools : tools[i] \in names
      lead    == {n \in 0..Len(tools) : \A i \in 1..n : tools[i] \in Shell}
      after   == {i \in DOMAIN tools : tools[i] \in Afterwards}
      helpers == Max(lead)
      image   == IF after = {} THEN Len(tools) ELSE Min(after) - 1
      added   == IF Listed(Helpers) THEN <<>> ELSE ResourceHelpers(facts)
      drawn   == IF Listed({"image_gen"}) THEN <<>> ELSE Images(facts, free)
      \* applied from the back; at one place the helpers come first
      pictured == SubSeq(tools, 1, image) \o drawn \o SubSeq(tools, image + 1, Len(tools))
      moved    == IF image < helpers THEN helpers + Len(drawn) ELSE helpers
  IN  SubSeq(pictured, 1, moved) \o added \o SubSeq(pictured, moved + 1, Len(pictured))

\* What a Codex offers, with these helpers and these image tools.
Offered(client, helpers, images) ==
  client.shell \o helpers \o client.middle \o images \o client.last

\* Signed in with a key it has no images, and helpers only with a server of
\* its own.
ByKey(client, facts) ==
  Offered(client, IF client.own THEN <<OwnHelpers(facts)>> ELSE <<>>, <<>>)

\* note_catalog: any native client's catalog replaces the last one.
CatalogServed(c) ==
  /\ catalog' = c /\ c # catalog
  /\ UNCHANGED <<offer, log, talk, answer>>

\* One attempt of a request, to an account on the Free plan or not.
Offers(client, free) ==
  /\ offer' = [client |-> client, facts |-> catalog, free |-> free,
               tools |-> Completed(ByKey(client, catalog), catalog, free)]
  /\ UNCHANGED <<catalog, log, talk, answer>>

-----------------------------------------------------------------------------
\* Calls and their answers.

Waiting(t)  == SubSeq(talk[t].calls, talk[t].answered + 1, Len(talk[t].calls))
Made        == UNION {Range(talk[t].calls) : t \in Talks}

MutantRoomForOneLess(c) ==
  LET order == IF Contains(log, c) THEN log ELSE Append(log, c)
  IN  IF Len(order) >= LogLimit THEN Tail(order) ELSE order

\* remember: the oldest call makes room.
Remembered(c) ==
  LET order == IF Contains(log, c) THEN log ELSE Append(log, c)
  IN  IF Len(order) > LogLimit THEN Tail(order) ELSE order

\* An environment bound: a Codex answers before LogLimit further calls.
Timely ==
  \A t \in Talks : \A i \in DOMAIN log :
    log[i] \in Range(Waiting(t)) => Len(log) - i + 1 < LogLimit

\* The relay of a socket keeps the call before Codex sees it; over HTTP the
\* next request repeats it.
UpstreamCalls(t, c) ==
  /\ c \notin Made
  /\ Len(Waiting(t)) < 2
  /\ talk[t].linked => Timely
  /\ log' = IF talk[t].linked THEN Remembered(c) ELSE log
  /\ talk' = [talk EXCEPT ![t].calls = Append(@, c)]
  /\ UNCHANGED <<catalog, offer, answer>>

\* answered_calls: the call is in the same input or in the log, and its
\* answer follows from it.
Shown(c, input) ==
  IF (c \in input \/ Contains(log, c)) /\ c \in Knowable THEN "native" ELSE "unsupported"

\* Codex answers what was called.  On an open socket it sends what is new,
\* over HTTP and on a new socket the whole conversation.
Answers(t, socket) ==
  /\ talk[t].calls # <<>>
  /\ Waiting(t) # <<>> \/ ~ talk[t].linked
  /\ LET increment == socket /\ talk[t].linked
         sent  == Range(IF increment THEN Waiting(t) ELSE talk[t].calls)
         input == IF increment THEN {} ELSE sent
     IN  answer' = [c \in Calls |-> IF c \in sent THEN Shown(c, input) ELSE answer[c]]
  /\ talk' = [talk EXCEPT ![t].answered = Len(talk[t].calls), ![t].linked = socket]
  /\ UNCHANGED <<catalog, offer, log>>

\* The socket ends.
SocketEnds(t) ==
  /\ talk[t].linked
  /\ talk' = [talk EXCEPT ![t].linked = FALSE]
  /\ UNCHANGED <<catalog, offer, log, answer>>

\* The pool starts again: the log is only in memory, and no socket lives on.
Restarts ==
  /\ log' = <<>>
  /\ talk' = [t \in Talks |-> [talk[t] EXCEPT !.linked = FALSE]]
  /\ UNCHANGED <<catalog, offer, answer>>

ToolsNext == \/ \E c \in Catalogs : CatalogServed(c)
             \/ \E client \in Clients, free \in BOOLEAN : Offers(client, free)

CallsNext ==
  \/ Restarts
  \/ \E t \in Talks : \/ SocketEnds(t)
                      \/ \E c \in Calls : UpstreamCalls(t, c)
                      \/ \E socket \in BOOLEAN : Answers(t, socket)

LoginSpec == LoginInit /\ [][ToolsNext \/ CallsNext]_loginVars

-----------------------------------------------------------------------------
\* Every attempt offers what a Codex signed in with ChatGPT on that account
\* offers, each tool once and in Codex's order (key_login.rs: "the request
\* is the one a native Codex signed in with that account sends"); with a
\* schema of the catalog's own, all but the helpers.
NativeTools ==
  offer # NoRequest =>
    LET helpers == IF offer.facts.text = "schema" /\ ~ offer.client.own THEN <<>>
                   ELSE <<OwnHelpers(offer.facts)>>
    IN  offer.tools = Offered(offer.client, helpers, Images(offer.facts, offer.free))

\* An answer upstream has seen is never shown another way, over a socket or
\* over HTTP, before or after a restart, so the cached prompt prefix does
\* not move (key_login.rs: "the same item is rewritten the same way in every
\* request that repeats it").
AnswersStand ==
  [][\A c \in Calls : answer[c] # "none" => answer'[c] = answer[c]]_loginVars
=============================================================================

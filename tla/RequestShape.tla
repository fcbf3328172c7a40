---------------------------- MODULE RequestShape ----------------------------
(***************************************************************************)
(* What a request is turned into on its way to the Codex backend: the gate *)
(* (codex_request.rs check_responses, check_chat), the Chat Completions    *)
(* bridge (proxy.rs prepare_upstream_request), the completion of an app's  *)
(* request (codex_request.rs normalize, complete) and the adaptation of a  *)
(* custom-provider Codex's (proxy.rs codex_backend_request_body).          *)
(*                                                                         *)
(* A payload is a function from field names to values.  A value keeps what *)
(* the code tells apart: its kind, and the entries of a list or object.    *)
(* Of each list of names the code treats alike, one or two stand for all.  *)
(***************************************************************************)
EXTENDS Integers, FiniteSets, Sequences

CONSTANTS
  Requests,  \* the requests that may arrive
  Verbosity, \* the catalog gives the model a verbosity
  Added,     \* the fields the prompt cache settings add to a request
  None

VARIABLES
  request,   \* the last one that arrived
  verdict,   \* gate_http_request: what becomes of it
  sent       \* the payload the last attempt sent, and how it was shaped

shapeVars == <<request, verdict, sent>>

\* Values.
Kinds == {"absent", "null", "true", "false", "number", "string", "auto", "default",
          "plain", "tier", "list", "object"}

\* Only a list and an object have entries: parts, names, or for an object in
\* the place of a list of parts, its own type.
ValuesOf(entries) ==
  {v \in [kind : Kinds, list : Seq(entries)] : v.kind \in {"list", "object"} \/ v.list = <<>>}

InputItems   == [type : STRING, role : STRING, content : ValuesOf(STRING)]
ChatMessages == [role : STRING, calls : BOOLEAN, content : ValuesOf(STRING)]
Entries(f)   == CASE f = "input" -> InputItems
                  [] f = "messages" -> ChatMessages
                  [] OTHER -> STRING

ASSUME RequestAssumption ==
  \A r \in Requests :
    /\ r # None
    /\ {r.native, r.socket, r.chat, r.compact, r.newer, r.identity, r.session} \subseteq BOOLEAN
    /\ \A f \in DOMAIN r.payload : r.payload[f] \in ValuesOf(Entries(f))

Is(kind)     == [kind |-> kind, list |-> <<>>]
ListOf(s)    == [kind |-> "list", list |-> s]
Object(keys) == [kind |-> "object", list |-> keys]
Has(v, kinds) == \E i \in DOMAIN v.list : v.list[i] \in kinds
Map(v, Op(_)) == [v EXCEPT !.list = [i \in DOMAIN v.list |-> Op(v.list[i])]]

\* The entries of s that S has, in their order.
Only(s, S) ==
  LET kept == {i \in DOMAIN s : s[i] \in S}
  IN  [n \in 1..Cardinality(kept) |->
         s[CHOOSE i \in kept : Cardinality({j \in kept : j <= i}) = n]]

Keeping(v, kinds) == [v EXCEPT !.list = Only(@, kinds)]
Without(v, kinds) == Keeping(v, {v.list[i] : i \in DOMAIN v.list} \ kinds)
With(p, f, v) == [g \in DOMAIN p \cup {f} |-> IF g = f THEN v ELSE p[g]]
Value(p, f)   == IF f \in DOMAIN p THEN p[f] ELSE Is("absent")

\* Names.  "fresh" is one the pool has never seen.
CodexFields     == {"model", "instructions", "stream", "service_tier", "input", "tools",
                    "tool_choice", "parallel_tool_calls", "reasoning", "store",
                    "stream_options", "include", "prompt_cache_key", "text",
                    "client_metadata"}
WebSocketFields == {"previous_response_id", "generate"}
RequiredFields  == {"model", "stream", "input", "tool_choice", "parallel_tool_calls",
                    "reasoning", "store", "include"}
RefusedFields   == {"temperature", "previous_response_id"}
IdentityFields  == {"user", "metadata", "prompt_cache_retention"}
BackendRefuses  == {"temperature", "user", "stream_options", "previous_response_id",
                    "prompt_cache_retention"}

RefusedItems  == {"item_reference"}
RefusedParts  == {"input_file"}
ChatParts     == {"text", "image_url"}
RefusedTools  == {"mcp"}
PreviewTools  == {"web_search_preview"}
CodexIncludes == {"reasoning.encrypted_content"}
OwnOptions    == {"reasoning_summary_delivery"}
AppOptions    == {"include_usage"}

ChatRefused == {"temperature", "response_format"}
ChatRoles   == {"system", "developer", "user", "assistant"}

-----------------------------------------------------------------------------
\* The gate.

\* A message without a type is one by its role; a type that is no string
\* reads as none (Value::as_str).
Typed(item) == item.type \notin {"absent", "null"}

RefusesItem(item, native) ==
  \/ item.type = "no object"
  \/ ~ Typed(item) /\ (native \/ item.role = "absent")
  \/ item.type \in RefusedItems
  \/ /\ item.type = "message" \/ ~ Typed(item)
     /\ \/ native /\ item.role = "system"
        \/ native /\ item.content.kind = "string"
        \/ item.content.kind = "list"
           /\ Has(item.content, RefusedParts)

RefusesField(f, v, native) ==
  CASE f = "stream"         -> native /\ v.kind # "true"
    [] f = "store"          -> native /\ v.kind # "false"
    [] f = "tool_choice"    -> v.kind # "auto"
    [] f = "include"        -> \/ v.kind # "list"
                               \/ \E i \in DOMAIN v.list : v.list[i] \notin CodexIncludes
    [] f = "input"          -> \/ v.kind \notin {"list", "string"}
                               \/ v.kind = "string" /\ native
                               \/ \E i \in DOMAIN v.list : RefusesItem(v.list[i], native)
    [] f = "tools"          -> \/ v.kind # "list"
                               \/ Has(v, RefusedTools)
                               \/ native /\ Has(v, PreviewTools)
    [] f = "text"           -> /\ v.kind = "object"
                               /\ Has(v, {"json_object"}) \/ (native /\ Has(v, {"plain"}))
    [] f = "stream_options" -> native /\ v.kind = "object" /\ Has(v, AppOptions)
    [] OTHER                -> FALSE

\* body: "responses", "compact" or "socket".
CheckResponses(p, native, body, newer) ==
  LET passed == IF body = "socket" THEN WebSocketFields ELSE {}
  IN  /\ (DOMAIN p \ passed) \cap RefusedFields = {}
      /\ native => DOMAIN p \cap IdentityFields = {}
      /\ \A f \in DOMAIN p \cap CodexFields : ~ RefusesField(f, p[f], native)
      /\ native /\ body # "compact" /\ ~ newer => RequiredFields \subseteq DOMAIN p

CheckChat(p) ==
  /\ DOMAIN p \cap ChatRefused = {}
  /\ \A i \in DOMAIN Value(p, "messages").list :
       LET m == p["messages"].list[i]
       IN  /\ m.role \in ChatRoles
           /\ ~ m.calls
           /\ m.content.kind = "list" => \A j \in DOMAIN m.content.list :
                                           m.content.list[j] \in ChatParts

CodexShaped(r) == r.identity /\ r.session /\ Value(r.payload, "client_metadata").kind = "object"

\* The endpoint holds a socket to the native rules, whichever it is; one of
\* /v1 may leave fields out.
Gate(r) ==
  LET passes ==
        IF r.socket THEN CheckResponses(r.payload, TRUE, "socket", ~ r.native \/ r.newer)
        ELSE /\ r.native \/ r.compact => r.identity
             /\ IF r.chat THEN CheckChat(r.payload)
                ELSE CheckResponses(r.payload, r.native,
                                    IF r.compact THEN "compact" ELSE "responses", r.newer)
  IN  IF ~ passes THEN "refused"
      ELSE IF r.socket \/ r.native THEN "exact"
      ELSE IF ~ r.compact /\ (r.chat \/ ~ CodexShaped(r)) THEN "foreign"
      ELSE "adapt"

-----------------------------------------------------------------------------
\* What the pool writes into a /v1 request before an account is chosen.

\* drop_hosted_tool_conflicts: a client's own twin of a hosted tool goes when
\* the request declares that tool; the twin of image_gen always does.
Untwinned(v) ==
  LET hosted == Has(v, PreviewTools \cup {"web_search"})
  IN  IF v.kind # "list" THEN v
      ELSE Without(v, {"image twin"} \cup IF hosted THEN {"search twin"} ELSE {})

\* A tier in the model's name is an effort.  A socket's message and a native
\* request go as Codex wrote them.
Prepared(r) ==
  LET p      == r.payload
      tiered == Value(p, "model").kind = "tier" /\ ~ r.chat
  IN  IF r.native \/ r.socket THEN p
      ELSE [f \in DOMAIN p \cup {"model"} \cup Added
                   \cup IF tiered THEN {"reasoning"} ELSE {} |->
              CASE f = "model" -> Is("plain")
                [] f = "reasoning" /\ tiered -> Object(<<"effort">>)
                [] f = "tools" /\ f \in DOMAIN p -> Untwinned(p[f])
                [] OTHER -> IF f \in DOMAIN p THEN p[f] ELSE Is("string")]

\* prepare_upstream_request: a chat request as a Responses request.
Bridged(p) ==
  LET Item(m) == [type |-> "absent", role |-> m.role,
                  content |-> IF m.content.kind = "absent" THEN Is("null") ELSE m.content]
      kept == DOMAIN p \cap {"model", "prompt_cache_key", "prompt_cache_retention"}
      streams == IF Value(p, "stream").kind = "true" THEN {"stream"} ELSE {}
      effort  == IF "reasoning_effort" \in DOMAIN p THEN {"reasoning"} ELSE {}
      verbose == IF "verbosity" \in DOMAIN p THEN {"text"} ELSE {}
  IN  [f \in kept \cup streams \cup effort \cup verbose \cup {"input"} |->
         CASE f = "input" -> Map(ListOf(Value(p, "messages").list), Item)
           [] f = "reasoning" -> Object(<<"effort">>)
           [] f = "text" -> Object(<<"verbosity">>)
           [] OTHER -> p[f]]

-----------------------------------------------------------------------------
\* Completion.

Part(role)  == IF role = "assistant" THEN "output_text" ELSE "input_text"
Message(role, parts) == [type |-> "message", role |-> role, content |-> ListOf(parts)]

NormalPart(role, part) ==
  IF part = "text" THEN Part(role) ELSE IF part = "image_url" THEN "input_image" ELSE part

MutantKeepsSystem(item) ==
  IF item.type = "absent" THEN [item EXCEPT !.type = "message"] ELSE item

\* A type that is there but no string is left as it is, and content that is
\* neither a string nor a list becomes the one part of a list, as it is.
NormalItem(item) ==
  LET type == IF item.type = "absent" /\ item.role # "absent" THEN "message" ELSE item.type
      role == IF item.role \in {"system", "absent"} THEN "developer" ELSE item.role
      parts == CASE item.content.kind = "string" -> <<Part(role)>>
                 [] item.content.kind = "list" ->
                      [i \in DOMAIN item.content.list |-> NormalPart(role, item.content.list[i])]
                 [] item.content.kind = "object" -> item.content.list
                 [] item.content.kind = "absent" -> <<>>
                 [] OTHER -> <<item.content.kind>>
  IN  IF type # "message" THEN item ELSE Message(role, parts)

Items(p) ==
  LET input == Value(p, "input")
  IN  CASE input.kind = "string" -> <<Message("user", <<"input_text">>)>>
        [] input.kind = "list" -> [i \in DOMAIN input.list |-> NormalItem(input.list[i])]
        [] OTHER -> <<>>

\* normalize: what names the app and what only Codex's own value replaces
\* is removed, what is written differently rewritten, nothing invented.
Normalize(p) ==
  LET Renamed(t) == IF t \in PreviewTools THEN "web_search" ELSE t
      Rewritten(f) == CASE f = "tools" /\ p[f].kind = "list" -> Map(p[f], Renamed)
                        [] f = "text" /\ p[f].kind = "object" -> Without(p[f], {"plain"})
                        [] f = "stream_options" /\ p[f].kind = "object" ->
                             Keeping(p[f], OwnOptions)
                        [] OTHER -> p[f]
      emptied == {f \in {"text", "stream_options"} \cap DOMAIN p :
                    p[f].kind = "object" /\ Rewritten(f).list = <<>>}
      plain   == IF Value(p, "service_tier").kind = "default" THEN {"service_tier"} ELSE {}
      removed == IdentityFields \cup emptied \cup plain
                   \cup {"client_metadata", "prompt_cache_key", "instructions", "input"}
  IN  [payload      |-> [f \in DOMAIN p \ removed |-> Rewritten(f)],
       instructions |-> Value(p, "instructions").kind = "string",
       items        |-> Items(p)]

\* complete: ResponsesApiRequest's fields, and no other.
Complete(n) ==
  LET p == n.payload
      lead == IF n.instructions THEN <<Message("developer", <<"input_text">>)>> ELSE <<>>
      kept == {"service_tier", "stream_options"} \cap DOMAIN p
      tools == IF Value(p, "tools").kind = "list" THEN {"tools"} ELSE {}
      text  == IF Value(p, "text").kind = "object" \/ Verbosity THEN {"text"} ELSE {}
      OrElse(f, kinds, default) == IF Value(p, f).kind \in kinds THEN p[f] ELSE default
  IN  [f \in RequiredFields \cup {"prompt_cache_key", "client_metadata"}
               \cup kept \cup tools \cup text |->
         CASE f = "model"               -> Is("plain")
           [] f = "stream"              -> Is("true")
           [] f = "store"               -> Is("false")
           [] f = "tool_choice"         -> Is("auto")
           [] f = "input"               -> ListOf(lead \o n.items)
           [] f = "parallel_tool_calls" -> OrElse(f, {"true", "false"}, Is("true"))
           [] f = "reasoning"           -> OrElse(f, {"object"}, Object(<<"effort">>))
           [] f = "include"             -> OrElse(f, {"list"}, ListOf(<<"reasoning.encrypted_content">>))
           [] f = "text"                -> OrElse(f, {"object"}, Object(<<"verbosity">>))
           [] f = "prompt_cache_key"    -> Is("string")
           [] f = "client_metadata"     -> Object(<<>>)
           [] OTHER                     -> p[f]]

\* codex_backend_request_body: the least that makes the backend take it.
Adapted(p) ==
  LET Turned(item) == IF item.role = "system" THEN [item EXCEPT !.role = "developer"] ELSE item
      input == Value(p, "input")
  IN  [f \in (DOMAIN p \ BackendRefuses) \cup {"stream", "store"} |->
         CASE f = "stream" -> Is("true")
           [] f = "store" -> Is("false")
           [] f = "input" /\ input.kind = "string" ->
                ListOf(<<Message("user", <<"input_text">>)>>)
           [] f = "input" /\ input.kind = "list" -> Map(input, Turned)
           [] OTHER -> p[f]]

-----------------------------------------------------------------------------

ShapeInit == request = None /\ verdict = "none" /\ sent = None

\* Checked before routing; a refused one never reaches upstream.
Arrives(r) ==
  /\ request' = r /\ verdict' = Gate(r)
  /\ UNCHANGED sent

\* One attempt: to a Codex account, or to one with an endpoint of its own,
\* which may speak Chat Completions.  Every attempt is shaped from the
\* request, not from what the last attempt sent.
Attempts(account) ==
  /\ verdict \notin {"none", "refused"}
  /\ request.socket => account = "codex"
  /\ LET body  == Prepared(request)
         wire  == IF request.chat /\ account # "chat" THEN Bridged(body) ELSE body
         shape == IF account = "codex" THEN verdict ELSE "relayed"
     IN  sent' = [shape |-> shape,
                  payload |-> CASE shape = "foreign" -> Complete(Normalize(wire))
                                [] shape = "adapt" /\ ~ request.compact -> Adapted(wire)
                                [] OTHER -> wire]
  /\ UNCHANGED <<request, verdict>>

ShapeNext == \/ request = None /\ \E r \in Requests : Arrives(r)
             \/ \E account \in {"codex", "responses", "chat"} : Attempts(account)

ShapeSpec == ShapeInit /\ [][ShapeNext]_shapeVars

\* The type every message with a null one keeps: check_item takes it for a
\* message by its role, normalize_item only looks whether a type is there.
NullTyped(p) == \E i \in DOMAIN Value(p, "input").list : p["input"].list[i].type = "null"

\* A message whose content is an object, not a list: check_item looks at the
\* parts of a list only, and normalize_item makes a list of it.
Wraps(item)  == item.content.kind = "object" /\ Has(item.content, RefusedParts)
FileWrapped(r) ==
  \E f \in {"input", "messages"} :
    \E i \in DOMAIN Value(r.payload, f).list : Wraps(r.payload[f].list[i])

\* Whatever an app sends and the gate lets through, the request it is
\* completed into passes the check the native endpoint holds Codex itself
\* to, and none of the app's own labels or options is left in it
\* (codex_request.rs: "The pool only sends requests that a native Codex
\* sends").  Two messages are the exception, which the gate does not look
\* into: one whose type is null, and one whose content is a file itself.
CompletedIsCodex ==
  /\ sent # None /\ sent.shape = "foreign"
  /\ ~ NullTyped(sent.payload) /\ ~ FileWrapped(request)
  => CheckResponses(sent.payload, TRUE, "responses", FALSE)
=============================================================================

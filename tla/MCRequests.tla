---------------------------- MODULE MCRequests ------------------------------
(***************************************************************************)
(* The three modules of request shaping share no variable, so a behaviour  *)
(* here takes the steps of one of them: every behaviour of the three side  *)
(* by side is one of each.                                                 *)
(***************************************************************************)
EXTENDS RequestShape, Conversations, KeyLogin, TLC

VARIABLE part

mcVars == <<part, shapeVars, threadVars, loginVars>>

-----------------------------------------------------------------------------
\* Requests: an app's, a custom-provider Codex's and a native one, with
\* fields left out, added or changed.

Item(type, role, content) == [type |-> type, role |-> role, content |-> content]
User == Item("message", "user", ListOf(<<"input_text">>))

CodexPayload ==
  [model |-> Is("plain"), stream |-> Is("true"), input |-> ListOf(<<User>>),
   tool_choice |-> Is("auto"), parallel_tool_calls |-> Is("true"),
   reasoning |-> Object(<<"effort">>), store |-> Is("false"),
   include |-> ListOf(<<"reasoning.encrypted_content">>),
   client_metadata |-> Object(<<>>), prompt_cache_key |-> Is("string")]

AppPayload == [model |-> Is("plain"), input |-> Is("string")]

ItemEdits ==
  {Item("absent", role, content) : role \in {"system", "assistant"},
     content \in {Is("string"), ListOf(<<"text", "image_url">>)}}
  \cup {Item("message", "system", Is("string")), Item("message", "absent", Is("number")),
        Item("message", "user", Is("absent")), Item("null", "system", Is("string")),
        Item("message", "user", ListOf(<<"input_file">>)),
        Item("message", "user", ListOf(<<"fresh">>)),
        Item("message", "user", Object(<<"input_file">>)),
        Item("absent", "assistant", Object(<<"fresh">>)),
        Item("absent", "absent", Is("absent")), Item("no object", "absent", Is("absent")),
        Item("item_reference", "absent", Is("absent")),
        Item("function_call_output", "absent", Is("absent")),
        Item("fresh", "absent", Is("absent"))}

ToolEdits == {<<"function">>, <<"web_search">>, <<"web_search_preview", "search twin">>,
              <<"image twin", "search twin">>, <<"mcp">>, <<"fresh">>}

Edits ==
  {[field |-> f, value |-> Is("absent")] : f \in {"model", "stream", "input", "store", "include",
                                                  "reasoning", "client_metadata"}}
  \cup {[field |-> f, value |-> Is("string")] : f \in {"temperature", "previous_response_id",
          "generate", "user", "metadata", "prompt_cache_retention", "fresh", "instructions",
          "service_tier", "input", "tools", "include", "text", "reasoning", "tool_choice"}}
  \cup {[field |-> "stream", value |-> Is(k)] : k \in {"true", "false"}}
  \cup {[field |-> "store", value |-> Is("true")], [field |-> "model", value |-> Is("tier")],
        [field |-> "service_tier", value |-> Is("default")], [field |-> "input", value |-> Is("number")],
        [field |-> "parallel_tool_calls", value |-> Is("false")],
        [field |-> "client_metadata", value |-> Object(<<>>)]}
  \cup {[field |-> "input", value |-> ListOf(<<User, item>>)] : item \in ItemEdits}
  \cup {[field |-> "tools", value |-> ListOf(tools)] : tools \in ToolEdits}
  \cup {[field |-> "include", value |-> ListOf(s)] : s \in {<<>>, <<"logprobs">>}}
  \cup {[field |-> "text", value |-> Object(s)] :
          s \in {<<"plain">>, <<"plain", "verbosity">>, <<"json_object">>, <<"json_schema">>}}
  \cup {[field |-> "stream_options", value |-> Object(s)] :
          s \in {<<"include_usage">>, <<"include_usage", "reasoning_summary_delivery">>, <<"fresh">>}}

Edited(p, e) ==
  IF e.value.kind = "absent" THEN [f \in DOMAIN p \ {e.field} |-> p[f]]
  ELSE With(p, e.field, e.value)

Arriving(native, socket, compact, chat, identity, newer, payload) ==
  [native |-> native, socket |-> socket, compact |-> compact, chat |-> chat,
   identity |-> identity, session |-> identity, newer |-> newer, payload |-> payload]

FromApps == {Arriving(FALSE, FALSE, FALSE, FALSE, FALSE, FALSE, Edited(Edited(AppPayload, d), e)) :
               d \in Edits, e \in Edits}
FromCodex == {Arriving(native, socket, compact, FALSE, identity, newer, Edited(CodexPayload, e)) :
                native \in BOOLEAN, socket \in BOOLEAN, compact \in BOOLEAN,
                identity \in BOOLEAN, newer \in BOOLEAN, e \in Edits}

Said(role, calls, content) == [role |-> role, calls |-> calls, content |-> content]
Messages == {Said(role, calls, content) : role \in ChatRoles \cup {"tool"}, calls \in BOOLEAN,
               content \in {Is("string"), Is("absent"), ListOf(<<"text", "image_url">>),
                           ListOf(<<"file">>), Object(<<"input_file">>)}}
ChatEdits ==
  {[field |-> f, value |-> Is("string")] : f \in {"temperature", "user", "fresh", "verbosity",
      "prompt_cache_key", "prompt_cache_retention", "reasoning_effort", "stream_options"}}
  \cup {[field |-> "stream", value |-> Is("true")], [field |-> "model", value |-> Is("tier")],
        [field |-> "messages", value |-> Is("absent")]}
FromChats ==
  {Arriving(FALSE, FALSE, FALSE, TRUE, FALSE, FALSE,
            Edited([model |-> Is("plain"), messages |-> ListOf(<<m, Said("user", FALSE, Is("string"))>>)], e)) :
     m \in Messages, e \in ChatEdits}

MCRequestsSet == FromApps \cup FromCodex \cup FromChats

-----------------------------------------------------------------------------
\* Key logins.

MCClients == [shell : {<<>>, <<"exec_command">>}, own : BOOLEAN,
              middle : {<<>>, <<"update_plan", "shell">>},
              last : {<<>>, <<"web_search">>, <<"tool_search", "web_search">>}]
MCCatalogs == [images : BOOLEAN, text : {"built in", "described", "schema"}]

-----------------------------------------------------------------------------

\* One conversation has a history; of the others it matters that they are there.
MCSays == [a \in Apps |-> IF a = "long" THEN {"hello", "found"} ELSE {"hello"}]
MCMaxItems == [a \in Apps |-> IF a = "long" THEN 2 ELSE 0]

Init == /\ part \in {"shape", "threads", "tools", "calls"}
        /\ ShapeInit /\ ThreadInit /\ LoginInit

Next ==
  /\ UNCHANGED part
  /\ \/ part = "shape"   /\ ShapeNext  /\ UNCHANGED <<threadVars, loginVars>>
     \/ part = "threads" /\ ThreadNext /\ UNCHANGED <<shapeVars, loginVars>>
     \/ part = "tools"   /\ ToolsNext  /\ UNCHANGED <<shapeVars, threadVars>>
     \/ part = "calls"   /\ CallsNext  /\ UNCHANGED <<shapeVars, threadVars>>

Spec == Init /\ [][Next]_mcVars
=============================================================================

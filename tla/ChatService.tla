------------------------------ MODULE ChatService ------------------------------
(***************************************************************************)
(* The way of a chat completion request: a JSON conversation template is   *)
(* loaded, a JSON request is parsed, made a prompt with the template and   *)
(* added to the echo engine.  The code that calls the parsers, the prompt  *)
(* builder and the engine in this order is not part of the repository, nor *)
(* is the tokenizer, which makes one token of every word here.             *)
(***************************************************************************)
EXTENDS ConvTemplate, MockEchoEngine

CONSTANTS Templates,   \* sequence of JSON templates, one of which is loaded
          Requests,    \* [RequestId -> sequence of JSON requests], one of which is made
          Vision       \* whether the model's configuration has a vision_config

VARIABLES template,    \* the template loaded: its outcome and JSON
          asked,       \* history: the JSON request of each request made
          answer       \* history: the outcome and the inputs of each request made

chatVars == <<template, asked, answer, request_map, received>>

ChatInit == /\ EngineInit
            /\ template = [outcome |-> "none", json |-> <<>>]
            /\ asked = <<>> /\ answer = <<>>

(* A template that is refused leaves the service without one.              *)
LoadConversation ==
  /\ template.outcome = "none"
  /\ \E i \in DOMAIN Templates :
       template' = [outcome |-> ConversationFromJSON(Templates[i]), json |-> Templates[i]]
  /\ UNCHANGED <<asked, answer, engineVars>>

PromptFor(json) ==
  IF ChatCompletionRequest(json) # "ok"
  THEN [outcome |-> ChatCompletionRequest(json), inputs |-> <<>>]
  ELSE CreatePrompt(Conversation(template.json), Parsed(json), Vision)

ChatCompletion(r) ==
  /\ template.outcome = "ok" /\ r \notin DOMAIN asked
  /\ \E i \in DOMAIN Requests[r] :
       LET json   == Requests[r][i]
           prompt == PromptFor(json)
       IN
       /\ asked' = With(asked, r, json)
       /\ answer' = With(answer, r, prompt)
       /\ \/ /\ prompt.outcome = "ok"
             /\ EchoAddRequest(r, prompt.inputs, Parsed(json).max_tokens, Parsed(json).n)
          \/ prompt.outcome # "ok" /\ UNCHANGED engineVars
  /\ UNCHANGED template

ChatStep == Step /\ UNCHANGED <<template, asked, answer>>
ChatNext ==
  \/ LoadConversation
  \/ \E r \in RequestId : \/ ChatCompletion(r)
                          \/ EchoAbortRequest(r) /\ UNCHANGED <<template, asked, answer>>
  \/ EchoAbortAllRequests /\ UNCHANGED <<template, asked, answer>>
  \/ ChatStep

ChatSpec == ChatInit /\ [][ChatNext]_chatVars

-----------------------------------------------------------------------------
(* What JSON holds, where it has the type that is asked of it: an array is *)
(* a sequence, a text one of words, W being the words there are.  What a   *)
(* part of a content holds is text of whatever type it was                 *)
(* (ContentPartValueToString).  An image takes a position at least, and    *)
(* max_tokens is -1 or a number of tokens.                                 *)
IsSequence(s)   == Len(s) \in Nat /\ s = [i \in 1..Len(s) |-> s[i]]
IsText(json, W) == json.type = "string" => json.of \in Seq(W)
IsArray(json)   == json.type = "array" => IsSequence(json.of)
IsContent(json, W) ==
  /\ json = [type |-> json.type, of |-> json.of] /\ IsText(json, W) /\ IsArray(json)
  /\ json.type = "array" => \A i \in DOMAIN json.of : json.of[i].type = "object" =>
       /\ "text" \in DOMAIN json.of[i].of => json.of[i].of.text.of \in Seq(W)
       /\ "image_url" \in DOMAIN json.of[i].of => json.of[i].of.image_url.of \in Seq(W) \ {<<>>}
IsTemplate(json, W) ==
  /\ json.type = "object"
  /\ \A f \in {"system_template", "system_message", "role_content_sep", "role_empty_sep"} :
       f \in DOMAIN json.of => IsText(json.of[f], W)
  /\ \A f \in {"roles", "role_templates", "seps"} :
       Has(json, f, "array") \/ Has(json, f, "object")
         => \A i \in DOMAIN json.of[f].of : IsText(json.of[f].of[i], W)
  /\ \A f \in {"messages", "seps", "system_prefix_token_ids"} :
       f \in DOMAIN json.of => IsArray(json.of[f])
  /\ Has(json, "system_prefix_token_ids", "array") =>
       \A i \in DOMAIN json.of.system_prefix_token_ids.of :
         json.of.system_prefix_token_ids.of[i].type = "number"
           => json.of.system_prefix_token_ids.of[i].of \in W
  /\ Has(json, "messages", "array") => \A i \in DOMAIN json.of.messages.of :
       LET message == json.of.messages.of[i] IN
       message.type = "array" /\ Len(message.of) = 2 => IsContent(message.of[2], W)
IsRequest(json, W) ==
  /\ json.type = "object"
  /\ \A f \in {"messages", "tools"} : f \in DOMAIN json.of => IsArray(json.of[f])
  /\ Has(json, "messages", "array") => \A i \in DOMAIN json.of.messages.of :
       LET message == json.of.messages.of[i] IN
       message.type = "object" =>
         /\ "content" \in DOMAIN message.of => IsContent(message.of.content, W)
         /\ "tool_calls" \in DOMAIN message.of => IsArray(message.of.tool_calls)
  /\ Has(json, "tools", "array") => \A i \in DOMAIN json.of.tools.of :
       ChatTool(json.of.tools.of[i]) = "ok" => json.of.tools.of[i].of.function.of.name.of \in W
  /\ Has(json, "max_tokens", "number") =>
       json.of.max_tokens.of \in Int /\ json.of.max_tokens.of >= -1
IsJSON(W) ==
  /\ {"[", "]"} \subseteq W /\ \A role \in DOMAIN Placeholder : Placeholder[role] \in W
  /\ \A i \in DOMAIN Templates : IsTemplate(Templates[i], W)
  /\ \A r \in RequestId : \A i \in DOMAIN Requests[r] : IsRequest(Requests[r][i], W)

-----------------------------------------------------------------------------
(* Properties.                                                             *)

Outcomes == {"ok", "error", "exception"}
Served   == {r \in DOMAIN answer : answer[r].outcome = "ok"}
Conv     == Conversation(template.json)

(* Text is put into data only if there is some; only the template's prefix *)
(* of tokens may be empty.                                                 *)
IsData(data) ==
  /\ data.kind \in {"text", "token", "image"}
  /\ data.kind # "token" => Len(data.ids) > 0

ChatTypeOK ==
  /\ template.outcome \in {"none"} \cup Outcomes
  /\ DOMAIN asked \subseteq RequestId /\ DOMAIN answer = DOMAIN asked
  /\ \A r \in DOMAIN answer :
       /\ answer[r].outcome \in Outcomes
       /\ \A i \in DOMAIN answer[r].inputs : IsData(answer[r].inputs[i])
  /\ DOMAIN request_map \subseteq Served
  /\ \A r \in DOMAIN request_map : Len(request_map[r]) >= 2

(* What the client and the template put into the conversation.             *)
Messages(r) == Conv.messages \o Parsed(asked[r]).messages
Dialogue(r) == Chosen(Messages(r), FALSE)
Prompt(r)   == IdsOf(answer[r].inputs)
Only(text, words) ==
  FoldLeft(LAMBDA kept, word : IF word \in words THEN Append(kept, word) ELSE kept, <<>>, text)

PartIds(part) == IF part.of.type.of = "text" THEN part.of.text.of ELSE part.of.image_url.of
Content(m) ==
  IF \/ m.content.type = "null"
     \/ m.role # "system" /\ Placeholder[m.role] \notin ToSet(Conv.role_templates[m.role])
  THEN <<>>
  ELSE IF m.content.type = "string" THEN m.content.of
  ELSE FlattenSeq([i \in DOMAIN m.content.of |-> PartIds(m.content.of[i])])
ReasoningEnd(m) == IF m.role = "assistant" /\ m.content.type = "string"
                   THEN SelectLastInSeq(m.content.of, LAMBDA word : word = CloseTag) ELSE 0
Reasoning(m) == ToSet(SubSeq(Content(m), 1, ReasoningEnd(m))) \ {CloseTag}
Answered(m)  == SubSeq(Content(m), ReasoningEnd(m) + 1, Len(Content(m)))

(* The system text, the text and the images of every message reach the     *)
(* engine once, in the order of the conversation, however the text was     *)
(* gathered into data around the images (CreatePrompt).  Reasoning is left *)
(* to HistoryStripped, newlines to the template.                           *)
SystemWords(r) ==
  LET custom == SystemMessages(Messages(r)) IN
  IF Placeholder.system \notin ToSet(Conv.system_template) THEN <<>>
  ELSE IF custom = <<>> THEN Conv.system_message
  ELSE FlattenSeq([i \in DOMAIN custom |-> Content(custom[i])])
ContentsInOrder ==
  \A r \in Served :
    LET text == SystemWords(r) \o FlattenSeq([i \in DOMAIN Dialogue(r) |-> Answered(Dialogue(r)[i])])
        said == ToSet(text) \ {"newline"}
    IN Only(Prompt(r), said) = Only(text, said)

(* With strip_reasoning_in_history the reasoning of an assistant message   *)
(* that a user message follows, in the template's messages or in the       *)
(* request's, is not in the prompt; all other reasoning is.                *)
HistoryStripped ==
  \A r \in Served : \A i \in DOMAIN Messages(r) :
    LET followed == \E j \in DOMAIN Messages(r) : j > i /\ Messages(r)[j].role = "user" IN
    Reasoning(Messages(r)[i]) \cap ToSet(Prompt(r)) =
      IF Conv.strip_reasoning_in_history /\ followed THEN {} ELSE Reasoning(Messages(r)[i])

(* The prompt names the role of every message in turn and the assistant's  *)
(* at its end.  Only the first message with content may go without, when   *)
(* the template asks for it and some text comes before.                    *)
RoleNames(roles) == FlattenSeq([i \in DOMAIN roles |-> Conv.roles[roles[i]]])
RolesAnnounced ==
  \A r \in Served :
    LET spoken == Append([i \in DOMAIN Dialogue(r) |-> Dialogue(r)[i].role], "assistant")
        first  == SelectInSeq(Dialogue(r), LAMBDA m : m.content.type # "null")
        behind == first > 1 \/ Conv.system_template \o SystemWords(r) # <<>>
        names  == UNION {ToSet(Conv.roles[role]) : role \in DOMAIN Conv.roles}
    IN Only(Prompt(r), names) =
         IF first # 0 /\ behind /\ ~Conv.add_role_after_system_message
         THEN RoleNames(RemoveAt(spoken, first)) ELSE RoleNames(spoken)

(* A template and a request of the OpenAI protocol: at every depth a field *)
(* that is required is there, and a field that is there has its type.      *)
Shape(json, required, fields) ==
  /\ json.type = "object" /\ required \subseteq DOMAIN json.of
  /\ \A f \in DOMAIN fields \cap DOMAIN json.of : json.of[f].type \in fields[f]
WellFormedMessage(json) ==
  /\ Shape(json, {"role", "content"},
           [role |-> {"string"}, content |-> {"string", "null", "array"}, name |-> {"string"},
            tool_calls |-> {"array"}, tool_call_id |-> {"string"}])
  /\ json.of.role.of \in {"system", "user", "assistant", "tool"}
  /\ json.of.content.type = "array" => AllOf(json, "content", "object")
WellFormedTool(json) ==
  /\ Shape(json, {"function"}, [function |-> {"object"}])
  /\ Shape(json.of.function, {"name", "parameters"},
           [name |-> {"string"}, parameters |-> {"object"}, description |-> {"string"}])
WellFormedRequest(json) ==
  /\ Shape(json, {"messages"},
           [messages |-> {"array"}, model |-> {"string"}, stop |-> {"array"},
            tool_choice |-> {"string"}, tools |-> {"array"}, response_format |-> {"object"},
            debug_config |-> {"object"}])
  /\ Shape(json, {}, [f \in Numbers |-> {"number"}])
  /\ AllOf(json, "stop", "string")
  /\ \A i \in DOMAIN json.of.messages.of : WellFormedMessage(json.of.messages.of[i])
  /\ \A i \in DOMAIN Items(json, "tools") : WellFormedTool(json.of.tools.of[i])
WellFormedTurn(json) ==
  /\ json.type = "array" /\ Len(json.of) = 2 /\ json.of[1].type = "string"
  /\ \/ json.of[2].type = "string"
     \/ /\ json.of[2].type = "array"
        /\ \A k \in DOMAIN json.of[2].of : json.of[2].of[k].type = "object"
WellFormedTemplate(json) ==
  /\ Shape(json,
           {"system_template", "system_message", "add_role_after_system_message", "roles",
            "messages", "seps", "role_content_sep", "role_empty_sep", "stop_str",
            "stop_token_ids"},
           [name |-> {"string"}, system_template |-> {"string"}, system_message |-> {"string"},
            system_prefix_token_ids |-> {"array"}, add_role_after_system_message |-> {"bool"},
            roles |-> {"object"}, role_templates |-> {"object"}, messages |-> {"array"},
            seps |-> {"array"}, role_content_sep |-> {"string"}, role_empty_sep |-> {"string"},
            stop_str |-> {"array"}, stop_token_ids |-> {"array"},
            strip_reasoning_in_history |-> {"bool"}])
  /\ \A f \in {"roles", "role_templates", "seps", "stop_str"} : AllOf(json, f, "string")
  /\ \A f \in {"system_prefix_token_ids", "stop_token_ids"} : AllOf(json, f, "number")
  /\ \A i \in DOMAIN json.of.messages.of : WellFormedTurn(json.of.messages.of[i])

(* What a template can say: text in a turn of a role it has a text for,    *)
(* images if the model sees, the system in text only.                      *)
Templated(conv, role) == role \in DOMAIN conv.role_templates \cap DOMAIN Placeholder
Presentable(conv, vision, role, part) ==
  /\ "type" \in DOMAIN part.of
  /\ \/ part.of.type.of = "text" /\ "text" \in DOMAIN part.of /\ Templated(conv, role)
     \/ part.of.type.of = "image_url" /\ "image_url" \in DOMAIN part.of /\ vision
Sayable(conv, vision, m) ==
  IF m.role = "system" THEN m.content.type = "string"
  ELSE /\ m.role \in DOMAIN conv.roles
       /\ m.content.type # "null" => conv.seps # <<>>
       /\ m.content.type = "string" => Templated(conv, m.role)
       /\ m.content.type = "array" =>
            \A k \in DOMAIN m.content.of : Presentable(conv, vision, m.role, m.content.of[k])

(* Requests are served exactly when they can be: the template is loaded if *)
(* and only if it is well-formed, and a request reaches the engine if and  *)
(* only if it is well-formed, brings no tool calls (the parser throws on   *)
(* any), chooses a tool it has, and the template has an assistant to       *)
(* answer and can say each of its own messages and of the request's.  The  *)
(* fields are parsed one by one by hand (one check tests the wrong         *)
(* result), and what a template cannot say is found out piece by piece     *)
(* while the prompt is made.                                               *)
Servable(json) ==
  /\ WellFormedRequest(json)
  /\ \A i \in DOMAIN json.of.messages.of : Items(json.of.messages.of[i], "tool_calls") = <<>>
  /\ LET request == Parsed(json) IN
     /\ request.tools # <<>> =>
          request.tool_choice \in {"none", "auto"} \cup ToSet(request.tools[1])
     /\ "assistant" \in DOMAIN Conv.roles
     /\ \A m \in ToSet(Conv.messages \o request.messages) : Sayable(Conv, Vision, m)
ServedExactly ==
  /\ template.outcome # "none" =>
       (template.outcome = "ok") = WellFormedTemplate(template.json)
  /\ \A r \in DOMAIN asked : (r \in Served) = Servable(asked[r])

(* A client gets the words of its prompt, images aside, each once and in   *)
(* order.  One finish reason comes, just before the usage, which is last:  *)
(* "stop" if all the words came, "length" if max_tokens did and some were  *)
(* withheld.                                                               *)
Echoed(r) == FlattenSeq([i \in DOMAIN received[r] |-> received[r][i].ids])
EchoExact ==
  \A r \in Served :
    LET words  == EchoedTokens(FromUntokenized(answer[r].inputs))
        stream == received[r]
        given  == {i \in DOMAIN stream : stream[i].finish_reason # "none"}
    IN
    /\ IsPrefix(Echoed(r), words)
    /\ given = IF r \in DOMAIN request_map THEN {} ELSE {Len(stream) - 1}
    /\ \A i \in DOMAIN stream : (stream[i].usage # <<>>) = (i - 1 \in given)
    /\ \A i \in given :
         CASE stream[i].finish_reason = "stop"   -> Echoed(r) = words
           [] stream[i].finish_reason = "length" ->
                Echoed(r) # words /\ Len(Echoed(r)) = Parsed(asked[r]).max_tokens
           [] OTHER -> stream[i].finish_reason = "abort"
=============================================================================

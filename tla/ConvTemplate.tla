----------------------------- MODULE ConvTemplate ------------------------------
(***************************************************************************)
(* json_ffi/conv_template.cc: which conversation templates are parsed, and *)
(* the prompt made of a template and a request.  A text is a sequence of   *)
(* words; placeholders, tags and newlines are words.                       *)
(***************************************************************************)
EXTENDS OpenAIProtocol

ArrayOf(json, f, type)   == ErrorUnless(Has(json, f, "array") /\ AllOf(json, f, type))
ObjectOf(json, f, type)  == ErrorUnless(Has(json, f, "object") /\ AllOf(json, f, type))
IfPresent(json, f, check) == IF Absent(json, f) THEN "ok" ELSE check

(* A message of a template is an array of a role and a content.            *)
TemplateMessages(json) ==
  ErrorUnless(/\ Has(json, "messages", "array")
              /\ \A i \in DOMAIN Items(json, "messages") :
                   LET message == json.of.messages.of[i] IN
                   /\ message.type = "array" /\ Len(message.of) = 2
                   /\ message.of[1].type = "string"
                   /\ \/ message.of[2].type = "string"
                      \/ /\ message.of[2].type = "array"
                         /\ \A k \in DOMAIN message.of[2].of : message.of[2].of[k].type = "object")

ConversationFromJSON(json) ==
  InTurn(<<Optional(json, "name", "string"), Required(json, "system_template", "string"),
           Required(json, "system_message", "string"),
           IfPresent(json, "system_prefix_token_ids",
                     ArrayOf(json, "system_prefix_token_ids", "number")),
           Required(json, "add_role_after_system_message", "bool"),
           ObjectOf(json, "roles", "string"),
           IfPresent(json, "role_templates", ObjectOf(json, "role_templates", "string")),
           TemplateMessages(json),
           ArrayOf(json, "seps", "string"),
           Required(json, "role_content_sep", "string"), Required(json, "role_empty_sep", "string"),
           ArrayOf(json, "stop_str", "string"), ArrayOf(json, "stop_token_ids", "number"),
           Optional(json, "strip_reasoning_in_history", "bool")>>)

Placeholder == [system    |-> "{system_message}", user |-> "{user_message}",
                assistant |-> "{assistant_message}", tool |-> "{tool_message}",
                function  |-> "{function_string}"]

(* The parsed template.  A std::optional is a sequence of at most one.     *)
Field(json, f, default) == IF Absent(json, f) THEN default ELSE json.of[f].of
Texts(json, f) == [i \in DOMAIN Items(json, f) |-> json.of[f].of[i].of]
Conversation(json) ==
  [system_template |-> json.of.system_template.of,
   system_message  |-> json.of.system_message.of,
   system_prefix_token_ids |-> IF Absent(json, "system_prefix_token_ids") THEN <<>>
                               ELSE <<Texts(json, "system_prefix_token_ids")>>,
   add_role_after_system_message |-> json.of.add_role_after_system_message.of,
   roles           |-> Texts(json, "roles"),
   role_templates  |->
     [role \in {"user", "assistant", "tool"} \cup DOMAIN Items(json, "role_templates") |->
        IF role \in DOMAIN Items(json, "role_templates") THEN Texts(json, "role_templates")[role]
        ELSE <<Placeholder[role]>>],
   messages        |-> [i \in DOMAIN json.of.messages.of |->
                          [role    |-> json.of.messages.of[i].of[1].of,
                           content |-> json.of.messages.of[i].of[2]]],
   seps            |-> Texts(json, "seps"),
   role_content_sep |-> json.of.role_content_sep.of,
   role_empty_sep   |-> json.of.role_empty_sep.of,
   strip_reasoning_in_history |-> Field(json, "strip_reasoning_in_history", FALSE)]

-----------------------------------------------------------------------------
(* std::string::find and replace of a placeholder: the first one.          *)
Replaced(text, placeholder, new) ==
  LET at == SelectInSeq(text, LAMBDA word : word = placeholder) IN
  IF at = 0 THEN text ELSE SubSeq(text, 1, at - 1) \o new \o SubSeq(text, at + 1, Len(text))

GetSystemText(conv, message) == Replaced(conv.system_template, Placeholder.system, message)

(* A function string replaces the first placeholder of the whole text, the *)
(* message included.                                                       *)
GetRoleText(conv, role, content, function) ==
  LET text == Replaced(conv.role_templates[role], Placeholder[role], content) IN
  IF function = <<>> THEN text ELSE Replaced(text, Placeholder.function, function)
RoleTextThrows(conv, role) ==
  role \notin DOMAIN conv.role_templates \/ role \notin DOMAIN Placeholder

(* TryGetFunctionCallingString: the tool chosen, or the list of all; a     *)
(* choice that is no tool's name and not "auto" is an error.  <<>> is no   *)
(* function string.                                                        *)
InvalidToolChoice(request) ==
  /\ request.tools # <<>> /\ request.tool_choice \notin {"none", "auto"}
  /\ request.tool_choice \notin ToSet(request.tools[1])
FunctionString(request) ==
  IF request.tools = <<>> \/ request.tool_choice = "none" THEN <<>>
  ELSE IF request.tool_choice \in ToSet(request.tools[1]) THEN <<request.tool_choice>>
  ELSE <<"[">> \o request.tools[1] \o <<"]">>

-----------------------------------------------------------------------------
(* Reasoning in earlier assistant messages, up to the last closing tag and *)
(* the newlines behind it, is dropped.                                     *)
CloseTag == "</think>"
WithoutReasoning(text) ==
  LET tag == SelectLastInSeq(text, LAMBDA word : word = CloseTag)
      start == Min({i \in (tag + 1)..(Len(text) + 1) : i > Len(text) \/ text[i] # "newline"}) IN
  IF tag = 0 THEN text ELSE SubSeq(text, start, Len(text))

LastUser_First(messages) == SelectInSeq(messages, LAMBDA m : m.role = "user")
LastUser(messages) == SelectLastInSeq(messages, LAMBDA m : m.role = "user")
Stripped(conv, messages) ==
  [i \in DOMAIN messages |->
     LET m == messages[i] IN
     IF /\ conv.strip_reasoning_in_history
        /\ m.role = "assistant" /\ i < LastUser(messages) /\ m.content.type = "string"
     THEN [m EXCEPT !.content.of = WithoutReasoning(@)]
     ELSE m]

-----------------------------------------------------------------------------
(* CreatePrompt goes through the messages with the data made so far, the   *)
(* text not yet put into data and the number of messages that had content. *)

Say(s, words)      == [s EXCEPT !.pending_text = @ \o words]
StopWith(s, result) == [s EXCEPT !.outcome = result]
Flushed_Drops(s) == [s EXCEPT !.pending_text = <<>>]
Flushed_Always(s) ==
  [s EXCEPT !.data = Append(@, [kind |-> "text", ids |-> s.pending_text]), !.pending_text = <<>>]
Flushed(s) ==
  IF s.pending_text = <<>> THEN s
  ELSE [s EXCEPT !.data = Append(@, [kind |-> "text", ids |-> s.pending_text]), !.pending_text = <<>>]

(* An item of a content in parts.                                          *)
ProcessPart(conv, role, function, vision, s, item) ==
  IF s.outcome # "ok" THEN s
  ELSE IF Absent(item, "type") THEN StopWith(s, "error")
  ELSE IF item.of.type.of = "text" THEN
         IF Absent(item, "text") THEN StopWith(s, "error")
         ELSE IF RoleTextThrows(conv, role) THEN StopWith(s, "exception")
         ELSE Say(s, GetRoleText(conv, role, item.of.text.of, function))
  ELSE IF item.of.type.of = "image_url" THEN
         IF Absent(item, "image_url") \/ ~vision THEN StopWith(s, "error")
         ELSE LET flushed == Flushed(s) IN
              [flushed EXCEPT !.data = Append(@, [kind |-> "image", ids |-> item.of.image_url.of])]
  ELSE StopWith(s, "error")

(* The role is left out for the first message with content behind a system *)
(* text, if the template says so.                                          *)
RolePrefix_Second(conv, s, role) ==
  IF conv.add_role_after_system_message \/ s.pending_text = <<>> \/ s.count > 1
  THEN conv.roles[role] \o conv.role_content_sep ELSE <<>>
RolePrefix(conv, s, role) ==
  IF conv.add_role_after_system_message \/ s.pending_text = <<>> \/ s.count # 0
  THEN conv.roles[role] \o conv.role_content_sep ELSE <<>>
Separator(conv, role) ==
  conv.seps[((IF role = "assistant" THEN 1 ELSE 0) % Len(conv.seps)) + 1]

ProcessMessage(conv, function, vision, s, m) ==
  IF s.outcome # "ok" \/ m.role = "system" THEN s
  ELSE IF m.role \notin DOMAIN conv.roles THEN StopWith(s, "error")
  ELSE IF m.content.type = "null" THEN Say(s, conv.roles[m.role] \o conv.role_empty_sep)
  ELSE IF conv.seps = <<>> THEN StopWith(s, "exception")      \* remainder of a division by zero
  ELSE   LET begun == Say([s EXCEPT !.count = @ + 1], RolePrefix(conv, s, m.role))
             said  ==
               IF m.content.type = "array"
               THEN FoldLeft(LAMBDA x, item :
                               ProcessPart(conv, m.role, function, vision, x, item),
                             begun, m.content.of)
               ELSE IF RoleTextThrows(conv, m.role) THEN StopWith(begun, "exception")
               ELSE Say(begun, GetRoleText(conv, m.role, m.content.of, function))
         IN IF said.outcome = "ok" THEN Say(said, Separator(conv, m.role)) ELSE said

(* The messages of the system, or all others.                              *)
Chosen(messages, from_system) ==
  FoldLeft(LAMBDA chosen, m : IF (m.role = "system") = from_system THEN Append(chosen, m) ELSE chosen,
           <<>>, messages)

(* System messages of the request replace that of the template; they must  *)
(* be text.                                                                *)
SystemMessages(messages) == Chosen(messages, TRUE)
SystemMessage(conv, messages) ==
  LET custom == SystemMessages(messages) IN
  IF custom = <<>> THEN conv.system_message
  ELSE FlattenSeq([i \in DOMAIN custom |-> custom[i].content.of])

AssistantBegin == [role |-> "assistant", content |-> [type |-> "null", of |-> <<>>]]

(* The tokens of a template's prefix come first, as a datum of their own   *)
(* that is empty if the template gives none.                               *)
Prefixed(conv, data) ==
  IF conv.system_prefix_token_ids = <<>> THEN data
  ELSE <<[kind |-> "token", ids |-> conv.system_prefix_token_ids[1]]>> \o data

CreatePrompt(conv, request, vision) ==
  LET messages == conv.messages \o request.messages
      function == FunctionString(request)
      start == [outcome |-> IF InvalidToolChoice(request) THEN "error"
                            ELSE IF \E i \in DOMAIN SystemMessages(messages) :
                                      SystemMessages(messages)[i].content.type # "string"
                            THEN "exception" ELSE "ok",
                pending_text |-> <<>>, data |-> <<>>, count |-> 0]
      end == Flushed(
               FoldLeft(LAMBDA s, m : ProcessMessage(conv, function, vision, s, m),
                        Say(start, GetSystemText(conv, SystemMessage(conv, messages))),
                        Append(Stripped(conv, messages), AssistantBegin)))
  IN [outcome |-> end.outcome,
      inputs  |-> IF end.outcome # "ok" THEN <<>> ELSE Prefixed(conv, end.data)]
=============================================================================

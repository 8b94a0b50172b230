---------------------------- MODULE OpenAIProtocol -----------------------------
(***************************************************************************)
(* json_ffi/openai_api_protocol.cc: which chat completion requests are     *)
(* parsed.  A JSON value is tagged with its type:                          *)
(* [type |-> "string", of |-> ...]; an object is a function from the       *)
(* fields it has.  A parser is given by its outcome: "ok", "error" (the    *)
(* Result holds an error message) or "exception" (a check throws).         *)
(* Integers and floats are one type, and no optional field is null.        *)
(***************************************************************************)
EXTENDS Integers, Sequences, FiniteSets, SequencesExt

(* The checks of a parser are made in order; the first that fails decides. *)
InTurn(checks) ==
  LET failed == {i \in DOMAIN checks : checks[i] # "ok"} IN
  IF failed = {} THEN "ok" ELSE checks[Min(failed)]

ErrorUnless(condition) == IF condition THEN "ok" ELSE "error"

(* The lookups of support/json_parser.h.                                   *)
Has(json, f, type)      == f \in DOMAIN json.of /\ json.of[f].type = type
Absent(json, f)         == f \notin DOMAIN json.of
Required(json, f, type) == ErrorUnless(Has(json, f, type))
Optional(json, f, type) == ErrorUnless(Absent(json, f) \/ Has(json, f, type))

(* A field that holds an object, parsed in its turn, and the items of an   *)
(* array or of an object.                                                  *)
Nested(json, f, Parser(_)) == IF Has(json, f, "object") THEN Parser(json.of[f]) ELSE "error"
Items(json, f) == IF Absent(json, f) THEN <<>> ELSE json.of[f].of
AllOf(json, f, type) == \A i \in DOMAIN Items(json, f) : json.of[f].of[i].type = type
EachObject(json, f, Parser(_)) ==
  InTurn([i \in DOMAIN Items(json, f) |->
            IF json.of[f].of[i].type = "object" THEN Parser(json.of[f].of[i]) ELSE "error"])

ChatFunction_NoParameters(json) ==
  InTurn(<<Optional(json, "description", "string"), Required(json, "name", "string")>>)
ChatFunction(json) ==
  InTurn(<<Optional(json, "description", "string"), Required(json, "name", "string"),
           Required(json, "parameters", "object")>>)
ChatTool(json) == Nested(json, "function", ChatFunction)

ChatFunctionCall(json) ==
  InTurn(<<Required(json, "name", "string"), Optional(json, "arguments", "object")>>)

(* The id that was found is taken with UnwrapErr, which throws unless the  *)
(* Result is an error.                                                     *)
ChatToolCall(json) ==
  InTurn(<<Nested(json, "function", ChatFunctionCall), Optional(json, "id", "string"),
           "exception">>)

ParsedContent(json) ==
  IF Absent(json, "content") THEN "error"
  ELSE ErrorUnless(\/ json.of.content.type \in {"string", "null"}
                   \/ Has(json, "content", "array") /\ AllOf(json, "content", "object"))

ChatCompletionMessage(json) ==
  InTurn(<<ParsedContent(json),
           ErrorUnless(/\ Has(json, "role", "string")
                       /\ json.of.role.of \in {"system", "user", "assistant", "tool"}),
           Optional(json, "name", "string"),
           Optional(json, "tool_calls", "array"),
           IF Has(json, "tool_calls", "array") THEN EachObject(json, "tool_calls", ChatToolCall)
           ELSE "ok",
           Optional(json, "tool_call_id", "string")>>)

Numbers == {"temperature", "top_p", "max_tokens", "n", "frequency_penalty", "presence_penalty",
            "seed"}

(* A "tools" of another type is not refused: the test after the lookup is  *)
(* that of "tool_choice" again, and unwrapping the error throws, as the    *)
(* plain lookup of "response_format" does.                                 *)
ChatCompletionRequest(json) ==
  InTurn(<<Required(json, "messages", "array"),
           IF Has(json, "messages", "array")
           THEN EachObject(json, "messages", ChatCompletionMessage) ELSE "ok",
           Optional(json, "model", "string"),
           ErrorUnless(\A f \in Numbers : Optional(json, f, "number") = "ok"),
           ErrorUnless(/\ Optional(json, "stop", "array") = "ok"
                       /\ Has(json, "stop", "array") => AllOf(json, "stop", "string")),
           Optional(json, "tool_choice", "string"),
           IF Optional(json, "tools", "array") = "ok" THEN "ok" ELSE "exception",
           IF Has(json, "tools", "array") THEN EachObject(json, "tools", ChatTool) ELSE "ok",
           IF Optional(json, "response_format", "object") = "ok" THEN "ok" ELSE "exception",
           Optional(json, "debug_config", "object")>>)

(* The parsed request, with the defaults FromJSON fills in.  The tools, if *)
(* any are given, are a sequence of one, their names; there may be none.   *)
Parsed(json) ==
  [messages    |-> [i \in DOMAIN json.of.messages.of |->
                      [role    |-> json.of.messages.of[i].of.role.of,
                       content |-> json.of.messages.of[i].of.content]],
   max_tokens  |-> IF Absent(json, "max_tokens") THEN -1 ELSE json.of.max_tokens.of,
   n           |-> IF Absent(json, "n") THEN 1 ELSE json.of.n.of,
   tool_choice |-> IF Absent(json, "tool_choice") THEN "auto" ELSE json.of.tool_choice.of,
   tools       |-> IF Absent(json, "tools") THEN <<>>
                   ELSE <<[i \in DOMAIN json.of.tools.of |->
                             json.of.tools.of[i].of.function.of.name.of]>>]
=============================================================================

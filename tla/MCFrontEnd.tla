------------------------------ MODULE MCFrontEnd -------------------------------
(***************************************************************************)
(* An instance of FrontEnd for TLC: what clients send to the echo engine,  *)
(* and what they submit in disaggregation mode.                            *)
(***************************************************************************)
EXTENDS FrontEnd, TLC

CONSTANTS c1, c2, d1, d2, d3

-----------------------------------------------------------------------------
(* JSON.                                                                   *)
Str(s)  == [type |-> "string", of |-> s]
Num(n)  == [type |-> "number", of |-> n]
Bool(b) == [type |-> "bool", of |-> b]
Arr(s)  == [type |-> "array", of |-> s]
Obj(f)  == [type |-> "object", of |-> f]
Null    == [type |-> "null", of |-> <<>>]

Says(role, words) == Obj([role |-> Str(role), content |-> Str(words)])
Silent(role)      == Obj([role |-> Str(role), content |-> Null])
Shows(role, parts) == Obj([role |-> Str(role), content |-> Arr(parts)])
TextPart(words)   == Obj([type |-> Str("text"), text |-> Str(words)])
ImagePart(ids)    == Obj([type |-> Str("image_url"), image_url |-> Str(ids)])
Asks(messages)   == Obj([messages |-> Arr(messages)])
And(json, fields) == Obj(fields @@ json.of)
Lacking(json, f) == Obj([g \in DOMAIN json.of \ {f} |-> json.of[g]])
ToolNamed(name)   ==
  Obj([type |-> Str("function"),
       function |-> Obj([name |-> Str(name), parameters |-> Obj([p \in {} |-> Null])])])

-----------------------------------------------------------------------------
(* Templates: few-shot messages with reasoning, a prefix of token ids, no  *)
(* system text, roles left out behind a system text, a tool's description  *)
(* in the user's turn; and what FromJSON refuses or overlooks.             *)
Plain ==
  Obj([system_template |-> Str(<<"{system_message}">>), system_message |-> Str(<<"be">>),
       add_role_after_system_message |-> Bool(TRUE),
       roles |-> Obj([user |-> Str(<<"USER">>), assistant |-> Str(<<"BOT">>)]),
       messages |-> Arr(<<>>), seps |-> Arr(<<Str(<<"sep">>)>>),
       role_content_sep |-> Str(<<":">>), role_empty_sep |-> Str(<<":">>),
       stop_str |-> Arr(<<>>), stop_token_ids |-> Arr(<<Num(2)>>)])
FewShot ==
  And(Plain, [messages |-> Arr(<<Arr(<<Str("user"), Str(<<"ex">>)>>),
                                 Arr(<<Str("assistant"), Str(<<"r0", "</think>", "newline", "a0">>)>>)>>),
              strip_reasoning_in_history |-> Bool(TRUE)])
NoRole ==
  And(Plain, [add_role_after_system_message |-> Bool(FALSE),
              seps |-> Arr(<<Str(<<"s0">>), Str(<<"s1">>)>>),
              system_prefix_token_ids |-> Arr(<<Num("bos")>>)])
NoSystem ==
  And(NoRole, [system_template |-> Str(<<>>), strip_reasoning_in_history |-> Bool(TRUE)])
WithTools ==
  And(Plain, [role_templates |-> Obj([user |-> Str(<<"{function_string}", "{user_message}">>)])])
NoSeparator == And(Plain, [seps |-> Arr(<<>>)])
NoPrefix == And(Plain, [system_prefix_token_ids |-> Arr(<<>>)])
NoAssistant == And(Plain, [roles |-> Obj([user |-> Str(<<"USER">>)])])
Refused ==
  <<Lacking(Plain, "system_template"), Lacking(Plain, "roles"), Lacking(Plain, "role_empty_sep"),
    And(Plain, [seps |-> Arr(<<Num(1)>>)]), And(Plain, [name |-> Num(1)]),
    And(Plain, [messages |-> Arr(<<Arr(<<Str("user")>>)>>)]),
    And(Plain, [messages |-> Arr(<<Arr(<<Str("user"), Arr(<<Str(<<"ex">>)>>)>>)>>)]),
    And(Plain, [stop_token_ids |-> Arr(<<Str(<<"sep">>)>>)]),
    And(Plain, [role_templates |-> Obj([user |-> Num(1)])])>>
MCTemplates ==
  <<Plain, FewShot, NoRole, NoSystem, WithTools, NoSeparator, NoPrefix, NoAssistant>> \o Refused

Hello   == Says("user", <<"hello">>)
Thought == Says("assistant", <<"r1", "</think>", "newline", "a1">>)
MCRequests ==
  [r \in {c1, c2} |->
     IF r = c2 THEN <<And(Asks(<<Hello>>), [max_tokens |-> Num(1)])>>
     ELSE <<Asks(<<Says("system", <<"custom">>), Hello, Thought, Says("user", <<"more">>)>>),
            And(Asks(<<Hello, Thought>>), [n |-> Num(2), max_tokens |-> Num(-1)]),
            And(Asks(<<Hello, Thought, Says("user", <<"more">>),
                       Says("assistant", <<"r2", "</think>", "a2">>)>>), [max_tokens |-> Num(3)]),
            And(Asks(<<Silent("assistant"), Hello>>), [max_tokens |-> Num(0)]),
            Asks(<<Shows("user", <<TextPart(<<"see">>), ImagePart(<<"i1", "i2">>),
                                   ImagePart(<<"i3">>), TextPart(<<"and">>)>>)>>),
            And(Asks(<<Hello>>), [tools |-> Arr(<<ToolNamed("f"), ToolNamed("g")>>),
                                  max_tokens |-> Num(7)]),    \* the length of the prompt, in Plain
            And(Asks(<<Hello>>), [tools |-> Arr(<<ToolNamed("f"), ToolNamed("g")>>),
                                  tool_choice |-> Str("g")]),
            And(Asks(<<Hello>>), [tools |-> Arr(<<ToolNamed("f")>>), tool_choice |-> Str("h")]),
            And(Asks(<<Hello>>), [tools |-> Arr(<<>>)]),
            And(Asks(<<Hello>>), [tools |-> Arr(<<>>), tool_choice |-> Str("g")]),
            And(Asks(<<Hello>>), [tools |-> Str("f")]),
            And(Asks(<<Hello>>), [tools |-> Arr(<<Obj([function |-> Obj([name |-> Str("f")])])>>)]),
            And(Asks(<<Hello>>), [response_format |-> Str("json")]),
            And(Asks(<<Hello>>), [stop |-> Arr(<<Num(1)>>)]),
            And(Asks(<<Hello>>), [max_tokens |-> Str("3")]),
            And(Asks(<<Hello>>), [presence_penalty |-> Str("0")]),
            Asks(<<And(Thought, [tool_calls |->
                     Arr(<<Obj([function |-> Obj([name |-> Str("f")])])>>)])>>),
            Asks(<<Says("critic", <<"no">>)>>), Asks(<<Says("tool", <<"out">>)>>),
            Asks(<<Lacking(Hello, "content")>>), Asks(<<Silent("system"), Hello>>),
            Asks(<<Shows("user", <<Obj([type |-> Str("video")])>>)>>),
            Asks(<<Shows("user", <<Str(<<"bare">>)>>)>>), Asks(<<>>)>>]

(* The words of these.                                                     *)
MCWords ==
  {"{system_message}", "{user_message}", "{assistant_message}", "{tool_message}",
   "{function_string}", "be", "USER", "BOT", "sep", ":", "ex", "r0", "</think>", "newline", "a0",
   "s0", "s1", "bos", "hello", "r1", "a1", "custom", "more", "r2", "a2", "see", "i1", "i2", "i3",
   "and", "bare", "no", "out", "f", "g", "h", "[", "]"}
ASSUME JSONGiven == IsJSON(MCWords)

-----------------------------------------------------------------------------
(* Submissions to the engine in disaggregation mode.  The window sent from *)
(* the second engine is its beginning: `end` is kv_window_end of the       *)
(* request and kv_window_begin of its StartGeneration.                     *)
Image(ids) == [kind |-> "image", ids |-> ids]
Text(ids)  == [kind |-> "text", ids |-> ids]
Submit(kind, inputs, end, max_tokens) ==
  [kind |-> kind, inputs |-> inputs, begin |-> 0, end |-> end, max_tokens |-> max_tokens]
P == <<Token(<<1>>), Text(<<2, 3, 4>>)>>
Q == <<Token(<<1, 2>>), Image(<<3, 4>>), Token(<<5>>)>>
R == <<Token(<<1>>), Token(<<2, 3>>), Token(<<4>>)>>
Long == <<Token(<<1, 2, 3, 4>>), Text(<<5, 6, 7, 8>>)>>
MCOffered ==
  [r \in {d1, d2, d3} |->
     CASE r = d1 -> {Submit("none", Q, 0, 2), Submit("none", P, 0, -1),
                     Submit("prepare_receive", P, -1, 1), Submit("prepare_receive", Q, 4, 2),
                     Submit("prepare_receive", P, 1, 1), Submit("prepare_receive", R, 2, 2),
                     Submit("remote_send", P, -1, 1), Submit("remote_send", Q, 4, 1),
                     Submit("none", Long, 0, 1)}
       [] r = d2 -> {Submit("none", P, 0, -1), Submit("prepare_receive", P, -1, 1),
                     Submit("remote_send", R, 2, 1)}
       [] OTHER  -> {Submit("none", P, 0, 1)}]

(* No window of these has several data behind the edge of one.             *)
ASSUME CutsInOrder == \A r \in {d1, d2, d3} : \A q \in MCOffered[r] : CutInOrder(q)
=============================================================================

---------------------------- MODULE MockEchoEngine -----------------------------
(***************************************************************************)
(* serve/engine.cc, MockEchoEngineImpl: the engine of the model library    *)
(* "mock://echo" sends the tokens of a request's inputs back.  What a      *)
(* request will be sent is planned when it is added; Step sends one output *)
(* of every request, the last one together with the usage.  The n          *)
(* generations of a request are sent alike: one stands for all.            *)
(***************************************************************************)
EXTENDS RequestInputs, Functions

CONSTANT RequestId
VARIABLES request_map,  \* the outputs still to be sent to each live request
          received      \* history: the outputs each request was sent

engineVars == <<request_map, received>>

Delta(ids, reason) == [ids |-> ids, finish_reason |-> reason, usage |-> <<>>]
Usage(prompt_tokens, completion_tokens) ==
  [ids |-> <<>>, finish_reason |-> "none", usage |-> <<prompt_tokens, completion_tokens>>]

EngineInit == /\ request_map = <<>>
              /\ received = [r \in RequestId |-> <<>>]

EchoedTokens(inputs) ==
  FlattenSeq([i \in DOMAIN inputs |-> IF inputs[i].kind = "token" THEN inputs[i].ids ELSE <<>>])

(* Tokens beyond max_tokens are counted, not sent; the last output carries *)
(* the finish reason, and is empty if nothing is sent.                     *)
Sent(tokens, max_tokens) ==
  IF max_tokens = -1 THEN tokens ELSE SubSeq(tokens, 1, Min({max_tokens, Len(tokens)}))
FinishReason_AtLimit(tokens, max_tokens) ==
  IF max_tokens # -1 /\ Len(tokens) >= max_tokens THEN "length" ELSE "stop"
FinishReason(tokens, max_tokens) ==
  IF max_tokens # -1 /\ Len(tokens) > max_tokens THEN "length" ELSE "stop"
Outputs(inputs, max_tokens, n) ==
  LET tokens == EchoedTokens(inputs)
      deltas == [i \in DOMAIN Sent(tokens, max_tokens) |-> Delta(<<tokens[i]>>, "none")]
      last   == IF deltas = <<>> THEN <<>> ELSE Last(deltas).ids
  IN UpTo(deltas, Len(deltas) - 1)
       \o <<Delta(last, FinishReason(tokens, max_tokens)),
            Usage(Len(tokens), Len(tokens) * n)>>

(* AddRequest, AbortRequest and AbortAllRequests of the class.             *)
With(f, x, value) == [y \in DOMAIN f \cup {x} |-> IF y = x THEN value ELSE f[y]]
EchoAddRequest(r, inputs, max_tokens, n) ==
  /\ request_map' = With(request_map, r, Outputs(FromUntokenized(inputs), max_tokens, n))
  /\ UNCHANGED received

AbortAll(requests) ==
  /\ request_map' = Restrict(request_map, DOMAIN request_map \ requests)
  /\ received' = [r \in RequestId |->
                    received[r] \o IF r \in requests THEN <<Delta(<<>>, "abort"), Usage(0, 0)>>
                                   ELSE <<>>]
EchoAbortRequest(r)  == r \in DOMAIN request_map /\ AbortAll({r})
EchoAbortAllRequests == request_map # <<>> /\ AbortAll(DOMAIN request_map)

Due_NoUsage(outputs) == 1
Due(outputs) == IF Len(outputs) = 2 THEN 2 ELSE 1
Step ==
  /\ request_map # <<>>
  /\ request_map' = [r \in {s \in DOMAIN request_map : Len(request_map[s]) > 2} |->
                       Behind(request_map[r], Due(request_map[r]))]
  /\ received' = [r \in RequestId |->
                    received[r] \o IF r \in DOMAIN request_map
                                   THEN UpTo(request_map[r], Due(request_map[r])) ELSE <<>>]
=============================================================================

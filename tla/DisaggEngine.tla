----------------------------- MODULE DisaggEngine ------------------------------
(***************************************************************************)
(* The engine in disaggregation mode: one model, n = 1.  A request of kind *)
(* "prepare_receive" gets a sequence into which another engine writes the  *)
(* K/V of the prompt's beginning; it is then parked, in neither queue,     *)
(* until the client starts its generation.  One of kind "remote_send"      *)
(* prefills the beginning of its prompt for another engine and ends.       *)
(* Requests of kind "none" are served as usual, except that one that would *)
(* be preempted is aborted.                                                *)
(*                                                                         *)
(* Tokens are named by their positions: the prompt is 1..n and the token   *)
(* sampled behind k others is k + 1, so a token lost, repeated or out of   *)
(* place shows.  Pages are not modelled: a decode may find them missing at *)
(* any time, and which action of a Step has work and room is a choice.     *)
(* The prefix cache is modelled by what it matches: the sequences it keeps *)
(* for later are not among those of the requests.                          *)
(***************************************************************************)
EXTENDS RequestInputs, Queue

CONSTANTS
  Request,
  Offered,                     \* what a client may submit: [Request -> set of submissions]
  prefill_chunk_size,
  max_single_sequence_length

NoLimit == -1
Kinds   == {"none", "prepare_receive", "remote_send"}
Wrapped(position, length) == IF position < 0 THEN length + position ELSE position

(* A request has some input ("No input data is given", request.cc), its    *)
(* tokens are named by their positions, and the window it awaits from      *)
(* another engine ends inside its prompt, as kStartGeneration checks.      *)
ASSUME OfferedAssumption ==
  \A r \in Request : \A q \in Offered[r] :
    /\ q.kind \in Kinds
    /\ q.inputs \in Seq(Data) /\ q.inputs # <<>>
    /\ IdsOf(q.inputs) = [i \in 1..LengthOf(q.inputs) |-> i]
    /\ q.begin \in Int /\ q.end \in Int
    /\ q.kind = "prepare_receive" =>
         Wrapped(q.end, LengthOf(q.inputs)) \in 0..(LengthOf(q.inputs) - 1)
    /\ q.max_tokens \in (Nat \ {0}) \cup {NoLimit}
ASSUME SizesAssumption ==
  prefill_chunk_size \in Nat \ {0} /\ max_single_sequence_length \in Nat \ {0}

VARIABLES
  entry,          \* request_states: the state entry of each live request
  waiting_queue,
  running_queue,
  used_ids,       \* id_manager: sequence ids handed out
  sequences,      \* KV cache: sequence id -> its tokens
  submission,     \* history: what was submitted, per request
  streamed,       \* history: tokens sent
  ended,          \* history: why the final usages were sent
  handed,         \* history: the K/V a remote_send request left to the other engine
  lost_ids,       \* history: ids of requests aborted outside the running queue
  leaked          \* history: those of them that had a sequence

vars == <<entry, waiting_queue, running_queue, used_ids, sequences, submission, streamed, ended,
          handed, lost_ids, leaked>>

Live      == DOMAIN entry
IdsIn(S)  == {entry[r].internal_id : r \in S}
Parked(r) == r \notin Elements(waiting_queue) \cup Elements(running_queue)
Put(f, x, v) == [y \in DOMAIN f \cup {x} |-> IF y = x THEN v ELSE f[y]]
NewId     == Min(0..Cardinality(used_ids) \ used_ids)
Init ==
  /\ entry = <<>> /\ waiting_queue = <<>> /\ running_queue = <<>>
  /\ used_ids = {} /\ sequences = <<>> /\ submission = <<>>
  /\ streamed = [r \in Request |-> <<>>]
  /\ ended = [r \in Request |-> <<>>]
  /\ handed = <<>> /\ lost_ids = {} /\ leaked = {}

-----------------------------------------------------------------------------
(* Client operations.  A check of HandleDisaggRequest that fails throws    *)
(* before anything changes: such a call is not made here.                  *)

RemoteSendAllowed(q, inputs) ==
  LET end == Wrapped(q.end, LengthOf(inputs)) IN
  0 <= q.begin /\ q.begin < end /\ end < LengthOf(inputs) /\ CanSplit(inputs, end)

Truncated_Never(q, inputs) == inputs
Truncated(q, inputs) ==
  IF q.kind = "remote_send"
  THEN SplitData(inputs, Wrapped(q.end, LengthOf(inputs))).lhs ELSE inputs

AddRequest(r) ==
  \E q \in Offered[r] :
    LET tokenized == FromUntokenized(q.inputs)
        inputs == Truncated(q, tokenized) IN
    /\ r \notin DOMAIN submission
    /\ submission' = Put(submission, r, q)
    /\ \/ /\ LengthOf(tokenized) >= max_single_sequence_length
          /\ ended' = [ended EXCEPT ![r] = Append(@, "length")]
          /\ UNCHANGED <<entry, waiting_queue, used_ids>>
       \/ /\ LengthOf(tokenized) < max_single_sequence_length
          /\ q.kind = "remote_send" => RemoteSendAllowed(q, tokenized)
          /\ waiting_queue' = Append(waiting_queue, r)
          /\ entry' = Put(entry, r,
               [kind |-> q.kind, inputs |-> inputs, max_tokens |-> q.max_tokens,
                status |-> "pending", internal_id |-> NewId, left |-> inputs,
                committed_tokens |-> <<>>, next_callback_token_pos |-> 0])
          /\ used_ids' = used_ids \cup {NewId}
          /\ UNCHANGED ended
    /\ UNCHANGED <<running_queue, sequences, streamed, handed, lost_ids, leaked>>

(* kStartGeneration: the K/V up to kv_window_begin has arrived.  A single  *)
(* token behind it is committed, not to be streamed; more are prefilled,   *)
(* before anything that waits.                                             *)
WithLastToken_SameLimit(e, split) ==
  [e EXCEPT !.inputs = split.lhs, !.committed_tokens = IdsOf(split.rhs),
            !.next_callback_token_pos = 1]
WithLastToken(e, split) ==
  [e EXCEPT !.inputs = split.lhs, !.committed_tokens = IdsOf(split.rhs),
            !.next_callback_token_pos = 1,
            !.max_tokens = IF @ = NoLimit THEN @ ELSE @ + 1]

StartGeneration(r) ==
  /\ r \in Live /\ entry[r].kind = "prepare_receive" /\ Parked(r)
  /\ LET e      == entry[r]
         length == LengthOf(e.inputs)
         begin  == Wrapped(submission[r].end, length)
         split  == SplitData(e.inputs, begin)
     IN
     /\ begin \in 0..(length - 1) /\ CanSplit(e.inputs, begin)
     /\ \/ /\ length - begin = 1
           /\ Len(split.rhs) = 1 /\ split.rhs[1].kind = "token"
           /\ entry' = [entry EXCEPT ![r] = [WithLastToken(e, split) EXCEPT !.kind = "none"]]
           /\ UNCHANGED waiting_queue
        \/ /\ length - begin > 1
           /\ entry' = [entry EXCEPT ![r].left = split.rhs, ![r].kind = "none"]
           /\ waiting_queue' = <<r>> \o waiting_queue
  /\ running_queue' = Append(running_queue, r)
  /\ UNCHANGED <<used_ids, sequences, submission, streamed, ended, handed, lost_ids, leaked>>

(* AbortRequestImpl.  Only a running entry gives back its id and its       *)
(* sequence: the id of a waiting or a parked one is lost, and the sequence *)
(* of a parked one with it.                                                *)
RecycledByAbort_Always(r) == {entry[r].internal_id}
RecycledByAbort(r) == IF r \in Elements(running_queue) THEN {entry[r].internal_id} ELSE {}
Abort(r, reason) ==
  LET id == entry[r].internal_id
      running == r \in Elements(running_queue) IN
  /\ entry' = Restrict(entry, Live \ {r})
  /\ waiting_queue' = Without(waiting_queue, {r})
  /\ running_queue' = Without(running_queue, {r})
  /\ used_ids' = used_ids \ RecycledByAbort(r)
  /\ sequences' = Restrict(sequences, DOMAIN sequences \ (IF running THEN {id} ELSE {}))
  /\ ended' = [ended EXCEPT ![r] = Append(@, reason)]
  /\ lost_ids' = IF running THEN lost_ids ELSE lost_ids \cup {id}
  /\ leaked' = IF Parked(r) THEN leaked \cup {id} ELSE leaked
  /\ UNCHANGED <<submission, streamed, handed>>
AbortRequest(r) == r \in Live /\ Abort(r, "abort")

(* Every request is aborted, then the id manager and the cache start anew. *)
Reset ==
  /\ entry' = <<>> /\ waiting_queue' = <<>> /\ running_queue' = <<>>
  /\ used_ids' = {} /\ sequences' = <<>> /\ lost_ids' = {} /\ leaked' = {}
  /\ ended' = [r \in Request |-> IF r \in Live THEN Append(ended[r], "abort") ELSE ended[r]]
  /\ UNCHANGED <<submission, streamed, handed>>

-----------------------------------------------------------------------------
(* The actions of a Step.                                                  *)

(* The first waiting request of a kind: the others are passed over.        *)
FirstWaiting(kind) ==
  LET q == Keep(waiting_queue, {r \in Live : entry[r].kind = kind}) IN
  IF q = <<>> THEN {} ELSE {Head(q)}

(* DisaggPrepareReceive: the sequence is added and space for the window    *)
(* reserved; the other engine fills it before the client starts the        *)
(* generation.                                                             *)
PrepareReceive(r) ==
  LET e == entry[r]
      end == Wrapped(submission[r].end, LengthOf(e.inputs)) IN
  /\ r \in FirstWaiting("prepare_receive")
  /\ entry' = [entry EXCEPT ![r].status = "alive", ![r].left = <<>>]
  /\ sequences' = Put(sequences, e.internal_id, SubSeq(IdsOf(e.inputs), 1, end))
  /\ waiting_queue' = Without(waiting_queue, {r})
  /\ UNCHANGED <<running_queue, used_ids, submission, streamed, ended, handed, lost_ids, leaked>>

Exhausted(e) ==
  \/ e.max_tokens # NoLimit /\ Len(e.committed_tokens) >= e.max_tokens
  \/ LengthOf(e.inputs) + Len(e.committed_tokens) >= max_single_sequence_length

NewTokens_FromStart(e) == e.committed_tokens
NewTokens(e) == SubSeq(e.committed_tokens, e.next_callback_token_pos + 1, Len(e.committed_tokens))

(* Entries that finished leave their queue, their sequence and their id.   *)
Retire(finished, entries, running, seqs) ==
  LET ids == {entries[r].internal_id : r \in finished} IN
  /\ entry' = Restrict(entries, DOMAIN entries \ finished)
  /\ running_queue' = Without(running, finished)
  /\ sequences' = Restrict(seqs, DOMAIN seqs \ ids)
  /\ used_ids' = used_ids \ ids

FinalUsage_Stopped(r, stopped, exhausted) == IF r \in stopped THEN <<"stop">> ELSE <<>>
FinalUsage(r, stopped, exhausted) ==
  CASE r \in exhausted -> <<"length">>
    [] r \in stopped \ exhausted -> <<"stop">>
    [] OTHER -> <<>>

(* ActionStepPostProcess after the requests `sampled` committed a token.   *)
PostProcess(sampled, entries, running, seqs) ==
  \E stopped \in SUBSET sampled :
    LET exhausted == {r \in sampled : Exhausted(entries[r])} IN
    /\ Retire(stopped \cup exhausted,
              [r \in DOMAIN entries |->
                 IF r \in sampled
                 THEN [entries[r] EXCEPT
                         !.next_callback_token_pos = Len(entries[r].committed_tokens)]
                 ELSE entries[r]],
              running, seqs)
    /\ streamed' = [r \in Request |->
                     streamed[r] \o IF r \in sampled THEN NewTokens(entries[r]) ELSE <<>>]
    /\ ended' = [r \in Request |-> ended[r] \o FinalUsage(r, stopped, exhausted)]
    /\ UNCHANGED <<submission, handed, lost_ids, leaked>>

NextChunk(left) ==
  LET length == LengthOf(left) IN
  ChunkPrefillInputData(left, IF length < prefill_chunk_size THEN length ELSE prefill_chunk_size)

(* A request leaves the waiting queue with the last of its inputs.         *)
Dequeued_Always(r, left) == Without(waiting_queue, {r})
Dequeued(r, left) == IF left = <<>> THEN Without(waiting_queue, {r}) ELSE waiting_queue

(* Prefill the next chunk.  The prefix cache may hold the beginning of a   *)
(* prompt of tokens; the last chunk samples a token.                       *)
NewRequestPrefill(r) ==
  LET e == entry[r]
      pending == e.status = "pending"
      prompt == GetConcatPrefillInputData(e.left) IN
  /\ r \in FirstWaiting("none")
  /\ \E matched \in (IF pending THEN 0..(Len(prompt) - 1) ELSE {}) \cup {0} :
       LET step == NextChunk(IF matched = 0 THEN e.left ELSE PopPrefillInputData(e.left, matched))
           done == step.left = <<>>
           seq  == (IF pending THEN SubSeq(prompt, 1, matched) ELSE sequences[e.internal_id])
                     \o IdsOf(step.chunk)
       IN
       /\ step.chunk # <<>>
       /\ waiting_queue' = Dequeued(r, step.left)
       /\ PostProcess(IF done THEN {r} ELSE {},
            [entry EXCEPT ![r].status = "alive", ![r].left = step.left,
                          ![r].committed_tokens = IF done THEN Append(@, Len(seq) + 1) ELSE @],
            IF pending THEN Append(running_queue, r) ELSE running_queue,
            Put(sequences, e.internal_id, seq))

(* DisaggRemoteSend prefills the next chunk and sends its K/V; the request *)
(* is finished when it has left the waiting queue, without a token.        *)
SentWhole_Chunk(left) == TRUE
SentWhole(left) == left = <<>>
RemoteSend(r) ==
  LET e    == entry[r]
      step == NextChunk(e.left)
      seq  == (IF e.status = "pending" THEN <<>> ELSE sequences[e.internal_id]) \o IdsOf(step.chunk)
      done == SentWhole(step.left)
  IN
  /\ r \in FirstWaiting("remote_send")
  /\ step.chunk # <<>>
  /\ waiting_queue' = Dequeued(r, step.left)
  /\ Retire(IF done THEN {r} ELSE {},
            [entry EXCEPT ![r].status = "alive", ![r].left = step.left],
            IF e.status = "pending" THEN Append(running_queue, r) ELSE running_queue,
            Put(sequences, e.internal_id, seq))
  /\ ended' = IF done THEN [ended EXCEPT ![r] = Append(@, "sent")] ELSE ended
  /\ handed' = IF done THEN Put(handed, r, seq) ELSE handed
  /\ UNCHANGED <<submission, streamed, lost_ids, leaked>>

(* Alive entries with no input left decode: their last committed token is  *)
(* appended to the cache and one is sampled.                               *)
Decoding == {r \in Elements(running_queue) : entry[r].left = <<>>}
BatchDecode ==
  LET seqs == [id \in DOMAIN sequences |->
                 sequences[id] \o
                   IF id \in IdsIn(Decoding)
                   THEN <<Last(entry[CHOOSE r \in Decoding :
                                       entry[r].internal_id = id].committed_tokens)>>
                   ELSE <<>>]
  IN
  /\ Decoding # {}
  /\ PostProcess(Decoding,
       [r \in Live |->
          IF r \in Decoding
          THEN [entry[r] EXCEPT !.committed_tokens =
                  Append(@, Len(seqs[entry[r].internal_id]) + 1)]
          ELSE entry[r]],
       running_queue, seqs)
  /\ UNCHANGED waiting_queue

(* With no page left for a decode, PreemptLastRunningRequestStateEntry     *)
(* aborts the last running request.                                        *)
Preempt == Decoding # {} /\ Abort(Last(running_queue), "preempt")

EngineStep ==
  \/ \E r \in Live : PrepareReceive(r) \/ RemoteSend(r) \/ NewRequestPrefill(r)
  \/ BatchDecode
  \/ Preempt

Next ==
  \/ \E r \in Request : AddRequest(r) \/ StartGeneration(r) \/ AbortRequest(r)
  \/ Reset
  \/ EngineStep

(* The background loop steps the engine while it has requests: weak        *)
(* fairness of EngineStep, with the condition that enables it written out, *)
(* which TLC would take long to find.                                      *)
HasWork  == \E r \in Live : entry[r].left # <<>> \/ r \in Decoding
Fairness == []<>~HasWork \/ []<><<EngineStep>>_vars
Spec == Init /\ [][Next]_vars /\ Fairness

-----------------------------------------------------------------------------
(* Properties.                                                             *)

Entry ==
  [kind : Kinds, inputs : Seq(Data), max_tokens : Nat \cup {NoLimit},
   status : {"pending", "alive"}, internal_id : Nat, left : Seq(Data),
   committed_tokens : Seq(Nat), next_callback_token_pos : Nat]
Reasons == {"length", "stop", "abort", "preempt", "sent"}

TypeOK ==
  /\ DOMAIN submission \subseteq Request
  /\ \A r \in DOMAIN submission : submission[r] \in Offered[r]
  /\ Live \subseteq DOMAIN submission /\ entry \in [Live -> Entry]
  /\ waiting_queue \in Seq(Live) /\ running_queue \in Seq(Live)
  /\ used_ids \subseteq Nat /\ IsFiniteSet(used_ids)
  /\ sequences \in [DOMAIN sequences -> Seq(Nat)]
  /\ streamed \in [Request -> Seq(Nat)] /\ ended \in [Request -> Seq(Reasons)]
  /\ DOMAIN handed \subseteq DOMAIN submission

Alive == {r \in Live : entry[r].status = "alive"}

(* A live request is where its state says: pending ones wait, one with     *)
(* part of its input left waits and runs, and only a request whose K/V is  *)
(* awaited from another engine is in neither queue, the case               *)
(* AbortRequestImpl leaves open.                                           *)
PlaceAgrees ==
  /\ NoRepeats(waiting_queue) /\ NoRepeats(running_queue)
  /\ Elements(waiting_queue) = {r \in Live : entry[r].left # <<>>}
  /\ Elements(running_queue) =
       {r \in Alive : entry[r].kind # "prepare_receive"}
  /\ \A r \in Live : Parked(r) <=> r \in Alive /\ entry[r].kind = "prepare_receive"

(* No two requests share a sequence id, and a new request never gets one   *)
(* whose sequence is still in the cache.  Sequences are those of the alive *)
(* entries and of requests aborted while parked; ids in use are those of   *)
(* live requests and of requests aborted while waiting or parked: nothing  *)
(* else is leaked by a finish, an abort or a preemption (AbortRequestImpl  *)
(* and RemoveRequestStateEntry).                                           *)
SequencesAccounted ==
  /\ \A r, s \in Live : entry[r].internal_id = entry[s].internal_id => r = s
  /\ DOMAIN sequences \subseteq used_ids
  /\ DOMAIN sequences = IdsIn(Alive) \cup leaked
  /\ used_ids = IdsIn(Live) \cup lost_ids
  /\ IdsIn(Live) \cap lost_ids = {} /\ leaked \subseteq lost_ids

(* What an alive entry has in the cache, the committed token the cache     *)
(* lacks and the inputs left are the tokens of the request in their order, *)
(* up to the last sampled one: no chunk, prefix match, hand-over or decode *)
(* loses, repeats or reorders any (SplitData, ChunkPrefillInputData,       *)
(* PopPrefillInputData).                                                   *)
Expected(r) ==
  IF Parked(r) THEN Wrapped(submission[r].end, LengthOf(entry[r].inputs))
  ELSE IF entry[r].kind = "remote_send"
  THEN Wrapped(submission[r].end, LengthOf(submission[r].inputs))
  ELSE LengthOf(submission[r].inputs) + Len(streamed[r])
Pending(e) == IF e.committed_tokens = <<>> THEN <<>> ELSE <<Last(e.committed_tokens)>>
TokensInOrder ==
  \A r \in Alive :
    sequences[entry[r].internal_id] \o Pending(entry[r]) \o IdsOf(entry[r].left)
      = [i \in 1..Expected(r) |-> i]

(* A client gets the sampled tokens, each once and in order, and never one *)
(* of its prompt, not even the one committed when the generation starts.   *)
(* A request ended by its limit got as many as it asked for: the limit     *)
(* raised in kStartGeneration is the client's again (the limit on the      *)
(* length of a sequence aside).                                            *)
StreamedInBudget ==
  \A r \in DOMAIN submission :
    LET prompt == LengthOf(submission[r].inputs) IN
    /\ \A i \in DOMAIN streamed[r] : streamed[r][i] = prompt + i
    /\ submission[r].max_tokens # NoLimit => Len(streamed[r]) <= submission[r].max_tokens
    /\ ended[r] = <<"length">> =>
         \/ Len(streamed[r]) = submission[r].max_tokens
         \/ prompt + Len(streamed[r]) + 1 >= max_single_sequence_length

(* A remote_send request ends only when the K/V of all its window has been *)
(* prefilled, chunk by chunk (ActionStepPostProcess), and no more of it.   *)
HandoverComplete ==
  \A r \in DOMAIN handed :
    handed[r] = [i \in 1..Wrapped(submission[r].end, LengthOf(submission[r].inputs)) |-> i]

(* To its clients this engine is a RequestStream as well, through refused  *)
(* requests, hand-overs, aborts, preemptions and resets.                   *)
Clients == INSTANCE RequestStream WITH
  live <- Live, delivered <- streamed, usages <- [r \in Request |-> Len(ended[r])]
ServesClients == Clients!Spec

-----------------------------------------------------------------------------
(* Why these hold: what is known between two operations of a live request, *)
(* submitted as q, with the entry e, the K/V held and `sent` tokens        *)
(* streamed.                                                               *)

Window(q) == Wrapped(q.end, LengthOf(q.inputs))
Held(r)   == IF entry[r].status = "alive" THEN sequences[entry[r].internal_id] ELSE <<>>

(* The K/V and the inputs left of a remote_send request are its window.    *)
KeepsWindow(q, e, held) ==
  e.kind = "remote_send" => held \o IdsOf(e.left) = [i \in 1..Window(q) |-> i]

(* It is below its limit, raised by the committed token that is not to be  *)
(* streamed, if there is one.                                              *)
KeepsBudget(q, e, sent) ==
  LET extra == Len(e.committed_tokens) - sent IN
  /\ extra \in {0, 1} /\ e.next_callback_token_pos = Len(e.committed_tokens)
  /\ e.kind # "remote_send" => LengthOf(e.inputs) + extra = LengthOf(q.inputs)
  /\ e.max_tokens = IF q.max_tokens = NoLimit THEN NoLimit ELSE q.max_tokens + extra
  /\ q.max_tokens # NoLimit => sent < q.max_tokens

(* A token is committed once no input is left.  The K/V, the committed     *)
(* token it lacks and the inputs left are as many as the prompt and the    *)
(* tokens sent; the K/V awaited is as long as its window.  A remote_send   *)
(* request leaves with the last of its inputs.                             *)
KeepsCount(q, e, held, sent) ==
  LET count == Len(held) + LengthOf(e.left)
      none  == e.committed_tokens = <<>> IN
  /\ none => sent = 0
  /\ e.status = "pending" => none
  /\ e.kind # "none" => none /\ e.kind = q.kind
  /\ e.kind = "remote_send" => e.left # <<>>
  /\ e.kind = "none" =>
       /\ q.kind # "remote_send" /\ (none <=> e.left # <<>>)
       /\ count + (IF none THEN 0 ELSE 1) = LengthOf(q.inputs) + sent
  /\ e.kind = "prepare_receive" =>
       count = IF e.status = "alive" THEN Window(q) ELSE LengthOf(q.inputs)

(* SplitData does not turn round what is behind the window: it ends inside *)
(* a datum, or at most one datum follows it.                               *)
CutInOrder(q) ==
  q.kind = "prepare_receive" =>
    \A k \in 0..Len(q.inputs) : Reach(q.inputs, k) = Window(q) => k + 1 >= Len(q.inputs)

(* The K/V awaited is its window, and the K/V, the committed token it      *)
(* lacks and the inputs left are the prompt and the tokens sent, in order. *)
KeepsOrder(q, e, held, sent) ==
  /\ e.kind = "prepare_receive" =>
       /\ e.inputs = FromUntokenized(q.inputs)
       /\ e.status = "alive" => held = [i \in 1..Window(q) |-> i]
  /\ e.kind = "none" /\ CutInOrder(q) =>
       held \o Pending(e) \o IdsOf(e.left) = [i \in 1..(LengthOf(q.inputs) + sent) |-> i]

Kept(q, e, held, sent) ==
  /\ KeepsWindow(q, e, held) /\ KeepsBudget(q, e, sent)
  /\ KeepsCount(q, e, held, sent) /\ KeepsOrder(q, e, held, sent)

(* With the final usage sent only when a request ends, and nothing before  *)
(* it is submitted, these are preserved by every operation.                *)
Unanswered ==
  /\ \A r \in Live : ended[r] = <<>>
  /\ \A r \in Request \ DOMAIN submission : ended[r] = <<>> /\ streamed[r] = <<>>
LiveKept == \A r \in Live : Kept(submission[r], entry[r], Held(r), Len(streamed[r]))

Structure == TypeOK /\ PlaceAgrees /\ SequencesAccounted
Inductive ==
  Structure /\ Unanswered /\ LiveKept /\ StreamedInBudget /\ HandoverComplete
=============================================================================

------------------------------ MODULE ServeEngine ------------------------------
(***************************************************************************)
(* The serving engine in its normal mode: one decode model with a paged KV *)
(* cache, the prefix cache disabled (external K/V requires it), no         *)
(* speculation, no disaggregation and n = 1.  Engine::Step runs its        *)
(* actions in order,                                                       *)
(*                                                                         *)
(*    PDExternalKVPrefill,  NewRequestPrefill,  BatchDecode,               *)
(*                                                                         *)
(* until one of them reports processed requests; `pc` is the action that   *)
(* comes next.  Clients are served between two Steps, when pc = "client".  *)
(* A failed ICHECK ends the engine: pc then names the check.               *)
(*                                                                         *)
(* Tokens are counted, not named.  A request has a prompt (for an external *)
(* request: the K/V prefix a producer computed), seed tokens if it is      *)
(* external, and generated tokens; `committed_tokens` counts the last two. *)
(***************************************************************************)
EXTENDS KVCapacity, Queue

CONSTANTS
  Request,                     \* requests a client may submit
  ExternalKV,                  \* those whose sole input is ExternalKVData
  PromptTokens,                \* [Request -> Nat]: prompt or prefill_length
  DecodeTokenIds,              \* [Request -> Nat]: number of seed tokens
  MaxTokens,                   \* [Request -> Int]: max_tokens, -1 = no limit
  prefill_mode,                \* "hybrid" or "chunked"
  prefill_chunk_size,
  max_num_sequence,
  max_single_sequence_length

NoLimit == -1
NoSeq   == -1

ASSUME RequestAssumption ==
  /\ IsFiniteSet(Request)
  /\ ExternalKV \subseteq Request
  /\ PromptTokens \in [Request -> Nat \ {0}]
  /\ DecodeTokenIds \in [Request -> Nat]
  /\ \A r \in Request : DecodeTokenIds[r] > 0 <=> r \in ExternalKV
  /\ MaxTokens \in [Request -> (Nat \ {0}) \cup {NoLimit}]
ASSUME ConfigAssumption ==
  /\ prefill_mode \in {"hybrid", "chunked"}
  /\ prefill_chunk_size \in Nat \ {0}
  /\ max_num_sequence \in Nat \ {0}
  /\ max_single_sequence_length \in Nat \ {0}

VARIABLES
  pc,                          \* next action of Step, "client", or a failed check
  waiting_queue,               \* Seq(Request)
  running_queue,               \* Seq(Request)
  status,                      \* status of the request's sole state entry
  input_length,                \* tokens of `inputs` not prefilled yet
  committed_tokens,            \* seed and generated tokens committed
  num_tokens_for_next_decode,  \* committed tokens the KV cache lacks
  max_tokens,                  \* generation_cfg->max_tokens, mutable
  next_callback_token_pos,     \* committed tokens already handed to the stream
  seq_length,                  \* length of the KV cache sequence, or NoSeq
  streamed,                    \* history: positions of the tokens sent, in order
  final_outputs,               \* history: final usage messages sent
  stamp,                       \* history: order of admission, 0 before it
  injected                     \* history: request injected in the current Step

queues   == <<waiting_queue, running_queue>>
progress == <<input_length, committed_tokens, num_tokens_for_next_decode, max_tokens, seq_length>>
outputs  == <<next_callback_token_pos, streamed, final_outputs>>
vars     == <<pc, queues, status, progress, outputs, stamp, injected>>

FailedCheck == {"ReserveFailed",        \* pd_external_kv.cc: cannot reserve KV pages
                "ChunkCheckFailed",     \* batch_prefill_base.cc: inputs exceed the chunk
                "KVCacheFull",          \* paged_kv_cache.cc: no page can be allocated
                "NoActionTaken"}        \* engine.cc: running requests but no action

-----------------------------------------------------------------------------
(* What the actions read of the KV cache.  With the prefix cache disabled  *)
(* and n = 1 no sequence is forked, so a sequence of length n holds        *)
(* CountPagesForTokens(n) pages of its own.                                *)

PagesOf(len, S)   == Total([r \in S |-> CountPagesForTokens(len[r])], S)
Cached            == {r \in Request : seq_length[r] # NoSeq}
GetNumAvailablePages        == NumTotalPages - PagesOf(seq_length, Cached)
GetCurrentTotalSequenceLength == Total(seq_length, Cached)

(* Lengths after appending add[r] tokens to each sequence; AddNewSequence  *)
(* starts at zero.                                                         *)
Appended(len, add) ==
  [r \in Request |-> IF add[r] = 0 THEN len[r]
                     ELSE IF len[r] = NoSeq THEN add[r] ELSE len[r] + add[r]]
FitsInPages(len) == PagesOf(len, {r \in Request : len[r] # NoSeq}) <= NumTotalPages

(* Running entries that can decode: alive, with no input left to prefill.  *)
RunningRequestStateEntries == {r \in Elements(running_queue) : input_length[r] = 0}

-----------------------------------------------------------------------------
Init ==
  /\ pc = "client"
  /\ waiting_queue = <<>>
  /\ running_queue = <<>>
  /\ status = [r \in Request |-> "new"]
  /\ input_length = [r \in Request |-> 0]
  /\ committed_tokens = [r \in Request |-> 0]
  /\ num_tokens_for_next_decode = [r \in Request |-> 0]
  /\ max_tokens = MaxTokens
  /\ next_callback_token_pos = [r \in Request |-> 0]
  /\ seq_length = [r \in Request |-> NoSeq]
  /\ streamed = [r \in Request |-> <<>>]
  /\ final_outputs = [r \in Request |-> 0]
  /\ stamp = [r \in Request |-> 0]
  /\ injected = {}

(* A failed ICHECK.                                                        *)
Fail(check) ==
  /\ pc' = check
  /\ UNCHANGED <<queues, status, progress, outputs, stamp, injected>>

-----------------------------------------------------------------------------
(* Client operations.                                                      *)

Admitted == {r \in Request : stamp[r] # 0}

(* The ICHECKs of AddRequest on an external request throw before anything  *)
(* changes: such a request is never submitted here.                        *)
AddRequest(r) ==
  /\ pc = "client"
  /\ status[r] = "new"
  /\ r \in ExternalKV => PromptTokens[r] + DecodeTokenIds[r] <= max_total_sequence_length
  /\ \/ /\ PromptTokens[r] >= max_single_sequence_length
        /\ status' = [status EXCEPT ![r] = "gone"]
        /\ final_outputs' = [final_outputs EXCEPT ![r] = @ + 1]
        /\ UNCHANGED <<waiting_queue, input_length, stamp>>
     \/ /\ PromptTokens[r] < max_single_sequence_length
        /\ waiting_queue' = Append(waiting_queue, r)
        /\ status' = [status EXCEPT ![r] = "pending"]
        /\ input_length' = [input_length EXCEPT ![r] = PromptTokens[r]]
        /\ stamp' = [stamp EXCEPT ![r] = Cardinality(Admitted) + 1]
        /\ UNCHANGED final_outputs
  /\ UNCHANGED <<pc, running_queue, committed_tokens, num_tokens_for_next_decode, max_tokens,
                 next_callback_token_pos, seq_length, streamed, injected>>

Alive   == {r \in Request : status[r] = "alive"}
Pending == {r \in Request : status[r] = "pending"}
Live_Unchecked == {r \in Request : status[r] # "new"}
Live == Pending \cup Alive

(* AbortRequestImpl for every request of S.  Only a running entry that is  *)
(* alive has a sequence to remove; every aborted request gets its final    *)
(* usage from StreamBackErrorImpl.                                         *)
RemovedByAbort_KeepsPartial(S) ==
  {r \in S \cap Elements(running_queue) : status[r] = "alive" /\ input_length[r] = 0}
RemovedByAbort(S) == {r \in S \cap Elements(running_queue) : status[r] = "alive"}
Abort(S) ==
  /\ pc = "client"
  /\ waiting_queue' = Without(waiting_queue, S)
  /\ running_queue' = Without(running_queue, S)
  /\ status' = [r \in Request |-> IF r \in S THEN "gone" ELSE status[r]]
  /\ seq_length' = [r \in Request |->
                     IF r \in RemovedByAbort(S) THEN NoSeq ELSE seq_length[r]]
  /\ final_outputs' = [r \in Request |-> final_outputs[r] + IF r \in S THEN 1 ELSE 0]
  /\ UNCHANGED <<pc, input_length, committed_tokens, num_tokens_for_next_decode, max_tokens,
                 next_callback_token_pos, streamed, stamp, injected>>

AbortRequest(r) == r \in Live /\ Abort({r})

(* Reset aborts everything and clears the model's cache, which the aborts  *)
(* have emptied already.                                                   *)
Reset == Live # {} /\ Abort(Live)

-----------------------------------------------------------------------------
(* ActionStepPostProcess, for the requests that sampled a token in this    *)
(* Step: hand the new committed tokens to the stream, then retire the      *)
(* requests that finished.  Whether a sampled token stops a request is the *)
(* model's choice.  `running`, `len` and `st` are the values the action    *)
(* leaves; its other results are already in the primed variables.          *)

Exhausted_Late(r) ==
  \/ max_tokens[r] # NoLimit /\ committed_tokens'[r] > max_tokens[r]
  \/ PromptTokens[r] + committed_tokens'[r] >= max_single_sequence_length
Exhausted(r) ==
  \/ max_tokens[r] # NoLimit /\ committed_tokens'[r] >= max_tokens[r]
  \/ PromptTokens[r] + committed_tokens'[r] >= max_single_sequence_length

NewTokens_FromStart(r) == [i \in 1..committed_tokens'[r] |-> i]
NewTokens(r) == [i \in 1..(committed_tokens'[r] - next_callback_token_pos[r])
                   |-> next_callback_token_pos[r] + i]

ActionStepPostProcess(sampled, running, len, st) ==
  \E finished \in SUBSET sampled :
    /\ \A r \in sampled : Exhausted(r) => r \in finished
    /\ streamed' = [r \in Request |->
                     IF r \in sampled THEN streamed[r] \o NewTokens(r) ELSE streamed[r]]
    /\ next_callback_token_pos' =
         [r \in Request |-> IF r \in sampled THEN committed_tokens'[r] ELSE next_callback_token_pos[r]]
    /\ running_queue' = Without(running, finished)
    /\ seq_length' = [r \in Request |-> IF r \in finished THEN NoSeq ELSE len[r]]
    /\ status' = [r \in Request |-> IF r \in finished THEN "gone" ELSE st[r]]
    /\ final_outputs' = [r \in Request |-> final_outputs[r] + IF r \in finished THEN 1 ELSE 0]
    /\ pc' = "client"
    /\ injected' = {}
    /\ UNCHANGED <<max_tokens, stamp>>

(* A sampled token is committed, and is the one the next decode appends.   *)
CommitToken(sampled) ==
  committed_tokens' = [r \in Request |-> committed_tokens[r] + IF r \in sampled THEN 1 ELSE 0]

-----------------------------------------------------------------------------
(* PDExternalKVPrefill: inject the external K/V at the head of the waiting *)
(* queue, one request at a time and only into an idle engine.  The first   *)
(* injection commits the seed tokens; one after a preemption replays every *)
(* token committed so far.                                                 *)

InitialInjection(r) == committed_tokens[r] = 0
NumReplayTokens(r) == IF InitialInjection(r) THEN DecodeTokenIds[r] ELSE committed_tokens[r]

InjectAndSeedDecode(r) ==
  LET seeds == DecodeTokenIds[r] IN
  /\ status' = [status EXCEPT ![r] = "alive"]
  /\ running_queue' = Append(running_queue, r)
  /\ waiting_queue' = Tail(waiting_queue)
  /\ seq_length' = [seq_length EXCEPT ![r] = PromptTokens[r]]
  /\ input_length' = [input_length EXCEPT ![r] = 0]
  /\ num_tokens_for_next_decode' = [num_tokens_for_next_decode EXCEPT ![r] = NumReplayTokens(r)]
  /\ IF InitialInjection(r)
     THEN /\ committed_tokens' = [committed_tokens EXCEPT ![r] = seeds]
          /\ next_callback_token_pos' = [next_callback_token_pos EXCEPT ![r] = seeds]
          /\ max_tokens' = [max_tokens EXCEPT ![r] = IF @ = NoLimit THEN @ ELSE @ + seeds]
     ELSE UNCHANGED <<committed_tokens, next_callback_token_pos, max_tokens>>
  /\ injected' = {r}
  /\ pc' = "prefill"
  /\ UNCHANGED <<streamed, final_outputs, stamp>>

(* External requests are serialized with running ones.                     *)
MustWait_Never == FALSE
MustWait == running_queue # <<>>

(* A Step begins here; the serving loop takes one when a queue has work.   *)
PDExternalKVPrefill ==
  /\ pc = "client"
  /\ waiting_queue # <<>> \/ running_queue # <<>>
  /\ IF waiting_queue = <<>> \/ MustWait \/ waiting_queue[1] \notin ExternalKV
     THEN /\ pc' = "prefill"
          /\ UNCHANGED <<queues, status, progress, outputs, stamp, injected>>
     ELSE LET r == Head(waiting_queue) IN
          IF CanReserveKV(PromptTokens[r], NumReplayTokens(r),
                          GetNumAvailablePages, GetCurrentTotalSequenceLength)
          THEN InjectAndSeedDecode(r)
          ELSE Fail("ReserveFailed")

-----------------------------------------------------------------------------
(* NewRequestPrefill.                                                      *)

NumDecodeInputs == Cardinality(RunningRequestStateEntries)

(* The scan of the waiting queue stops at an ExternalKVData request.       *)
Candidates_Skip == Without(waiting_queue, ExternalKV)
Candidates ==
  CHOOSE q \in {SubSeq(waiting_queue, 1, n) : n \in 0..Len(waiting_queue)} :
    /\ Elements(q) \cap ExternalKV = {}
    /\ Len(q) < Len(waiting_queue) => waiting_queue[Len(q) + 1] \in ExternalKV
FirstCandidates(k) == {Candidates[i] : i \in 1..k}

(* What the running entries and the first k candidates ask for.            *)
TotalInputLength(k) ==
  Total(num_tokens_for_next_decode, RunningRequestStateEntries)
    + Total(input_length, FirstCandidates(k))
TotalRequiredPages(k) == NumDecodeInputs + PagesOf(input_length, FirstCandidates(k))

CanPrefill_IgnoresRunning(num_prefill, total_input_length, required_pages) ==
  /\ num_prefill <= max_num_sequence
  /\ num_prefill <= prefill_chunk_size
  /\ total_input_length <= prefill_chunk_size
  /\ HasPrefillSpace(required_pages, NumDecodeInputs + num_prefill, GetNumAvailablePages,
                     GetCurrentTotalSequenceLength, total_input_length)
CanPrefill(num_prefill, total_input_length, required_pages) ==
  /\ NumDecodeInputs + num_prefill <= max_num_sequence
  /\ NumDecodeInputs + num_prefill <= prefill_chunk_size
  /\ total_input_length <= prefill_chunk_size
  /\ HasPrefillSpace(required_pages, NumDecodeInputs + num_prefill, GetNumAvailablePages,
                     GetCurrentTotalSequenceLength, total_input_length)

(* Attempt 1: the k-th candidate is prefilled whole.                       *)
Attempt1(k) ==
  /\ k <= Len(Candidates)
  /\ CanPrefill(k, TotalInputLength(k), TotalRequiredPages(k))

(* Attempt 2: candidate k + 1 gets what is left of the prefill chunk, when     *)
(* that is less than its input.                                            *)
RemainingChunk(k) == prefill_chunk_size - TotalInputLength(k)
Attempt2(k) ==
  /\ RemainingChunk(k) \in 1..(input_length[Candidates[k + 1]] - 1)
  /\ CanPrefill(k + 1, prefill_chunk_size,
                TotalRequiredPages(k) + CountPagesForTokens(RemainingChunk(k)))

(* The running entries that decode in the batch of a prefill.              *)
HybridDecodes_None == {}
HybridDecodes == IF prefill_mode = "hybrid" THEN RunningRequestStateEntries ELSE {}

(* Prefill `whole` candidates entirely and `chunk` tokens of the next one; in *)
(* hybrid mode the running entries decode in the same batch.               *)
Prefill(whole, chunk) ==
  LET entire  == FirstCandidates(whole)
      chosen  == SubSeq(Candidates, 1, whole + IF chunk > 0 THEN 1 ELSE 0)
      decoded == HybridDecodes
      sampled == entire \cup decoded
      take(r) == IF r \in entire THEN input_length[r]
                 ELSE IF r \in Elements(chosen) THEN chunk ELSE 0
      len == Appended(seq_length, [r \in Request |->
               take(r) + IF r \in decoded THEN num_tokens_for_next_decode[r] ELSE 0])
  IN
  IF ~FitsInPages(len) THEN Fail("KVCacheFull") ELSE
    /\ input_length' = [r \in Request |-> input_length[r] - take(r)]
    /\ num_tokens_for_next_decode' =
         [r \in Request |-> IF r \in decoded THEN 1
                            ELSE num_tokens_for_next_decode[r] + IF r \in entire THEN 1 ELSE 0]
    /\ CommitToken(sampled)
    /\ waiting_queue' = Without(waiting_queue, entire)
    /\ ActionStepPostProcess(sampled, running_queue \o Keep(chosen, Pending), len,
         [r \in Request |-> IF r \in Elements(chosen) THEN "alive" ELSE status[r]])

NothingToPrefill == /\ pc' = "decode"
                    /\ UNCHANGED <<queues, status, progress, outputs, stamp, injected>>

NewRequestPrefill ==
  /\ pc = "prefill"
  /\ IF NumDecodeInputs > GetNumAvailablePages
     THEN NothingToPrefill
     ELSE \E whole \in 0..Len(Candidates) :
            /\ \A k \in 1..whole : Attempt1(k)
            /\ ~Attempt1(whole + 1)
            /\ IF whole < Len(Candidates) /\ TotalInputLength(whole) > prefill_chunk_size
               THEN Fail("ChunkCheckFailed")
               ELSE IF whole < Len(Candidates) /\ Attempt2(whole)
               THEN Prefill(whole, RemainingChunk(whole))
               ELSE IF whole > 0
               THEN Prefill(whole, 0)
               ELSE NothingToPrefill

-----------------------------------------------------------------------------
(* BatchDecode, with the preemptions that make room for one page per       *)
(* decoding entry.                                                         *)

LastRunning(m) == SubSeq(running_queue, Len(running_queue) - m + 1, Len(running_queue))

CanDecodeWithout_OneShort(m) ==
  LET gone == Elements(LastRunning(m)) IN
  Cardinality(RunningRequestStateEntries \ gone) <= NumTotalPages - PagesOf(seq_length, Cached \ gone) + 1
CanDecodeWithout(m) ==
  LET gone == Elements(LastRunning(m)) IN
  Cardinality(RunningRequestStateEntries \ gone) <= NumTotalPages - PagesOf(seq_length, Cached \ gone)

(* The inputs of a preempted entry: its prompt and its committed tokens.   *)
RebuiltInput_ForgetsDecoded(r) == PromptTokens[r]
RebuiltInput(r) == PromptTokens[r] + committed_tokens[r]

(* Preempted entries that are not waiting yet go to the front of the       *)
(* queue; a partially alive one never left it.                             *)
PutBack_Drops(preempted) == waiting_queue
PutBack(preempted) == Keep(preempted, {r \in Request : input_length[r] = 0}) \o waiting_queue

(* Preempt the last m running entries, then decode the others in a batch.  *)
PreemptAndDecode(m) ==
  LET preempted == Elements(LastRunning(m))
      running == SubSeq(running_queue, 1, Len(running_queue) - m)
      decoded == RunningRequestStateEntries \ preempted
      st  == [r \in Request |-> IF r \in preempted THEN "pending" ELSE status[r]]
      kept == [r \in Request |-> IF r \in preempted THEN NoSeq ELSE seq_length[r]]
      len == Appended(kept, [r \in Request |->
               IF r \in decoded THEN num_tokens_for_next_decode[r] ELSE 0])
  IN
  IF ~FitsInPages(len) THEN Fail("KVCacheFull") ELSE
    /\ input_length' = [r \in Request |->
                          IF r \in preempted THEN RebuiltInput(r) ELSE input_length[r]]
    /\ num_tokens_for_next_decode' =
         [r \in Request |-> IF r \in preempted THEN 0
                            ELSE IF r \in decoded THEN 1 ELSE num_tokens_for_next_decode[r]]
    /\ CommitToken(decoded)
    /\ waiting_queue' = PutBack(LastRunning(m))
    /\ IF decoded # {}
       THEN ActionStepPostProcess(decoded, running, len, st)
       ELSE /\ running_queue' = running
            /\ seq_length' = kept
            /\ status' = st
            /\ pc' = IF running = <<>> THEN "client" ELSE "NoActionTaken"
            /\ injected' = {}
            /\ UNCHANGED <<max_tokens, outputs, stamp>>

(* As few entries are preempted as make the rest decodable.                *)
BatchDecode ==
  /\ pc = "decode"
  /\ \E m \in 0..Len(running_queue) :
       /\ CanDecodeWithout(m)
       /\ \A n \in 0..(m - 1) : ~CanDecodeWithout(n)
       /\ PreemptAndDecode(m)

-----------------------------------------------------------------------------
EngineStep == PDExternalKVPrefill \/ NewRequestPrefill \/ BatchDecode

Next ==
  \/ \E r \in Request : AddRequest(r) \/ AbortRequest(r)
  \/ Reset
  \/ EngineStep

Spec == Init /\ [][Next]_vars

(* The background loop steps the engine for as long as it has requests;    *)
(* clients need never do anything more.                                    *)
FairSpec == Spec /\ WF_vars(EngineStep)

-----------------------------------------------------------------------------
(* Properties.                                                             *)

(* Every variable has its type; counters are natural numbers and at most   *)
(* one final message is counted per request.                               *)
TypeOK ==
  /\ pc \in {"client", "prefill", "decode"} \cup FailedCheck
  /\ waiting_queue \in Seq(Request)
  /\ running_queue \in Seq(Request)
  /\ status \in [Request -> {"new", "pending", "alive", "gone"}]
  /\ input_length \in [Request -> Nat]
  /\ committed_tokens \in [Request -> Nat]
  /\ num_tokens_for_next_decode \in [Request -> Nat]
  /\ max_tokens \in [Request -> Nat \cup {NoLimit}]
  /\ next_callback_token_pos \in [Request -> Nat]
  /\ seq_length \in [Request -> Nat \cup {NoSeq}]
  /\ streamed \in [Request -> Seq(Nat)]
  /\ final_outputs \in [Request -> {0, 1}]
  /\ stamp \in [Request -> Nat]
  /\ injected \subseteq Request

(* The tokens the KV cache holds for a running request, those the next     *)
(* decode appends and those still to prefill are together its prompt and   *)
(* its committed tokens: no chunking, replay or preemption loses or        *)
(* repeats one.  An entry that decodes has a token to decode from (ICHECK  *)
(* in ChunkPrefillInputData).                                              *)
KVMatchesTokens ==
  /\ \A r \in Alive :
       /\ seq_length[r] > 0
       /\ seq_length[r] + num_tokens_for_next_decode[r] + input_length[r]
            = PromptTokens[r] + committed_tokens[r]
       /\ input_length[r] = 0 => num_tokens_for_next_decode[r] > 0
  /\ \A r \in Pending :
       /\ input_length[r] = PromptTokens[r] + committed_tokens[r]
       /\ num_tokens_for_next_decode[r] = 0

(* Where a request is tells what it is: running ones are alive and are     *)
(* exactly those with a cache sequence, so that an abort, a finish or a    *)
(* preemption leaks none; a waiting one is pending or has input left; no   *)
(* queue holds a request twice and no live request is in neither queue,    *)
(* the case AbortRequestImpl leaves open.                                  *)
QueueStatus ==
  /\ Elements(running_queue) = Alive
  /\ Cached = Alive
  /\ Pending \subseteq Elements(waiting_queue)
  /\ Elements(waiting_queue) = Pending \cup {r \in Alive : input_length[r] > 0}
  /\ NoRepeats(running_queue)
  /\ NoRepeats(waiting_queue)

(* Requests are served in the order of admission: the running queue and    *)
(* then the pending ones of the waiting queue are in that order, also      *)
(* after a preemption and around an ExternalKVData request, which later    *)
(* requests may not overtake (batch_prefill_base.cc, the break of the      *)
(* scan).                                                                  *)
FIFO == Increasing(stamp, running_queue \o Keep(waiting_queue, Pending))

(* A client gets every generated token once and in order, never a seed     *)
(* token, and no Step leaves a committed token behind.                     *)
StreamExact ==
  \A r \in Request :
    /\ \A i \in DOMAIN streamed[r] : streamed[r][i] = DecodeTokenIds[r] + i
    /\ Len(streamed[r]) = IF committed_tokens[r] = 0 THEN 0
                          ELSE committed_tokens[r] - DecodeTokenIds[r]
    /\ next_callback_token_pos[r] = committed_tokens[r]

(* No request is sent more tokens than it asked for; seed tokens do not    *)
(* count.                                                                  *)
StreamBudget ==
  \A r \in Request : MaxTokens[r] # NoLimit => Len(streamed[r]) <= MaxTokens[r]

(* A request gets its final usage message when it leaves the engine, by    *)
(* whichever way, and never another one.                                   *)
ExactlyOneFinal ==
  \A r \in Request : final_outputs[r] = IF status[r] = "gone" THEN 1 ELSE 0

(* As many entries run as the model's cache has slots for and one prefill  *)
(* batch can take (ICHECK in CanPrefill).                                  *)
RunningBounded ==
  /\ Len(running_queue) <= max_num_sequence
  /\ Len(running_queue) <= prefill_chunk_size

(* An admitted external request can always be injected when its turn       *)
(* comes: the ICHECKs of ReserveKVCapacity do not fail.                    *)
ReservationHolds == pc # "ReserveFailed"

(* The pages the admission tests leave free are enough for every batch.    *)
NoKVCacheFull == pc # "KVCacheFull"

(* The inputs collected so far never exceed the prefill chunk (ICHECK      *)
(* before attempt 2).                                                      *)
ChunkNotExceeded == pc # "ChunkCheckFailed"

(* A Step with running requests takes an action (ICHECK in Step).          *)
ActionTaken == pc # "NoActionTaken"

(* A request whose external K/V was injected is not preempted: it is the   *)
(* first of the running queue, and alone it always leaves a page.          *)
ExternalNeverPreempted ==
  [][\A r \in ExternalKV : status[r] = "alive" => status'[r] # "pending"]_vars

(* The Step that injects external K/V also appends its replay tokens.      *)
ReplayInSameStep ==
  [][\A r \in injected :
       pc' = "client" => status'[r] = "gone" \/ seq_length'[r] > PromptTokens[r]]_vars

(* What a client sees of its requests is a RequestStream: nothing after    *)
(* the final usage, never a token taken back or changed, also when a       *)
(* request is preempted, injected or prefilled again in between.           *)
Stream == INSTANCE RequestStream WITH
  live <- Pending \cup Alive, delivered <- streamed, usages <- final_outputs
ServesStream == Stream!Spec

(* Every admitted request leaves the engine, with its final message.       *)
EventuallyFinal ==
  \A r \in Request : (stamp[r] # 0) ~> (final_outputs[r] = 1)

-----------------------------------------------------------------------------
(* The inductive invariant behind the theorems of ServeEngineProofs.       *)

(* The limit a live request runs under counts its seed tokens once, from   *)
(* the first injection on, and a live request has not reached it.          *)
Budget ==
  \A r \in Request :
    /\ max_tokens[r] = NoLimit <=> MaxTokens[r] = NoLimit
    /\ MaxTokens[r] # NoLimit =>
         /\ max_tokens[r] = MaxTokens[r] + IF committed_tokens[r] = 0 THEN 0 ELSE DecodeTokenIds[r]
         /\ committed_tokens[r] <= max_tokens[r]
         /\ status[r] # "gone" => committed_tokens[r] < max_tokens[r]

(* Seed tokens are committed when an external request is injected.         *)
Seeded == \A r \in Alive \cap ExternalKV : committed_tokens[r] > 0

(* Nothing has been done for a request that was not submitted.             *)
Unstarted ==
  \A r \in Request : status[r] = "new" =>
    committed_tokens[r] = 0 /\ num_tokens_for_next_decode[r] = 0

IInv == /\ TypeOK
        /\ QueueStatus
        /\ KVMatchesTokens
        /\ ExactlyOneFinal
        /\ StreamExact
        /\ Budget
        /\ Seeded
        /\ Unstarted

(* Behind FIFO and RunningBounded: both queues are in the order of         *)
(* admission, nothing pending came before a running request, and a request *)
(* prefilled in part is the last of the running ones.  No external one is  *)
(* prefilled in part, so the scan of the waiting queue always reaches it.  *)
Ordered ==
  /\ Increasing(stamp, running_queue)
  /\ Increasing(stamp, waiting_queue)
  /\ \A r \in Alive, s \in Pending : stamp[r] < stamp[s]
  /\ \A r, s \in Alive : input_length[s] > 0 => stamp[r] <= stamp[s] /\ s \notin ExternalKV
  /\ \A r \in Request : status[r] = "new" => stamp[r] = 0
  /\ \A r \in Request : stamp[r] <= Cardinality(Admitted)

OInv == IInv /\ Ordered /\ RunningBounded

(* Behind the properties of external requests and of the pages: live       *)
(* requests are short enough to stay, an external one is injected once,    *)
(* as the only running request, and decodes its seeds or else one token.   *)
Fits ==
  /\ \A r \in Live :
       /\ PromptTokens[r] < max_single_sequence_length
       /\ r \in ExternalKV => PromptTokens[r] + DecodeTokenIds[r] <= max_total_sequence_length
       /\ r \notin ExternalKV => PromptTokens[r] + committed_tokens[r] < max_single_sequence_length
  /\ \A r \in Pending \cap ExternalKV : committed_tokens[r] = 0
  /\ \A r \in Alive \ ExternalKV :
       num_tokens_for_next_decode[r] = IF input_length[r] = 0 THEN 1 ELSE 0
  /\ \A r \in Alive \cap ExternalKV :
       /\ \A s \in Alive : stamp[r] <= stamp[s]
       /\ input_length[r] = 0
       /\ \/ seq_length[r] = PromptTokens[r] /\ committed_tokens[r] = DecodeTokenIds[r]
          \/ /\ num_tokens_for_next_decode[r] = 1
             /\ PromptTokens[r] + committed_tokens[r] < max_single_sequence_length

Injected ==
  /\ pc = "client" => injected = {}
  /\ \A r \in injected : r \in Alive \cap ExternalKV /\ seq_length[r] = PromptTokens[r]

XInv == Fits /\ Injected /\ ReservationHolds

(* All of what is proved to be inductive.                                  *)
Inductive == OInv /\ XInv
=============================================================================

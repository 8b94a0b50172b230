# Heter-MLC: a TLA+ model of the serving engine and its KV cache

Heter-MLC is a fork of the MLC-LLM serving engine that adds *external K/V*
requests: a producer (another engine, another machine) computes the K/V cache of a
prompt, and the engine injects it and decodes from there.  The repository holds
the C++ files the fork touches, the TVM paged KV cache they run on, two JSON
conversion files, thin Python wrappers and an example; the rest of MLC-LLM
(models, samplers, the other engine actions, the threaded engine) is not in it.

Paths below are relative to `src/src/mlc-llm/`.

## Inventory

| component | code | state | operations |
|---|---|---|---|
| engine loop | `cpp/serve/engine.cc` (`EngineImpl`) | waiting and running queue, request states, id manager | `AddRequest`, `AbortRequest`, `Reset`, `Step` |
| external K/V prefill | `cpp/serve/engine_actions/pd_external_kv.cc` | none of its own | `Step`: guards, reservation, injection, seeding |
| prefill planning | `cpp/serve/engine_actions/batch_prefill_base.cc` | prefix cache hooks | entry selection, activation, queue removal, commit |
| post-processing, preemption | `cpp/serve/engine_actions/action_commons.cc` | none of its own | streaming, finishing, `PreemptLastRunningRequestStateEntry` |
| paged KV cache | `3rdparty/tvm/src/runtime/vm/paged_kv_cache.cc` | blocks, pages, sequences, auxiliary arrays | add, remove, fork, pop, reserve, sliding window, token trees, disaggregation |
| request data | `cpp/serve/data.cc`, `data.h`, `request.cc` | immutable values | `SplitData`, validation of `ExternalKVData` |
| disaggregation | `engine.cc` (`HandleDisaggRequest`), KV cache | as above | prepare receive, mark send |
| mock echo engine | `engine.cc` (`MockEchoEngineImpl`) | request map | add, abort, step |
| conversation template, OpenAI protocol | `cpp/json_ffi/*.cc` | none | parse, check, format |
| Python wrappers, example | `python/mlc_llm/serve`, `examples/` | none | construct data, drive the engine |

How they interact.  A client calls `AddRequest` and `AbortRequest` between two
`Step`s (the engine is driven by one thread, which serves its request queue before
every step).  `Step` tries the actions in their order and stops after the first
one that returns processed requests.  Actions share `EngineState` (the two queues
and the per-request entries) and call the model, which owns the KV cache; they read
from it only the number of free pages and the total sequence length, and act on
those numbers before the pages are taken.  `ActionStepPostProcess` ends the step:
it collects the new tokens, removes what finished and then calls the stream
callback once.

Which engine there is decides `EngineImpl::Create`: the echo engine for the model library
`mock://echo`, else the real one, in disaggregation mode if the model was compiled for it.
In that mode two engines share the work on a request.  The decoding engine gets it as
`prepare_receive` and reserves a sequence; the prefilling engine gets it as `remote_send`,
prefills the beginning of the prompt and sends the K/V; then the client starts the
generation on the first.  A JSON front end parses templates and requests
(`json_ffi`), makes the prompt and submits it; the code that calls these in turn is not here.

What is hard here:

- **One step is several decisions.**  The external prefill returns *nothing* on
  purpose so that the decode of the replay tokens follows in the same step, but
  the ordinary prefill is asked in between.
- **Capacity is checked in one place and consumed in another**, with three
  different tests (`HasPrefillSpace`, `ReserveKVCapacity`, one page per decoding
  entry in the preemption loop).
- **A request's tokens live in three places** (inputs not prefilled, cache,
  committed but not appended) and move under chunking, hybrid batches, replay and
  preemption.
- **A request can be in both queues** while it is partly prefilled; abort, finish
  and preemption must each treat that case.
- **Every request must be answered exactly once**, whichever way it leaves.
- **In disaggregation mode a request may be in neither queue** while another engine writes
  its K/V, and comes back with one token committed or with more to prefill.
- **Inputs are cut by index arithmetic in three places** (windows, chunks, prefix matches),
  with images among them that cannot be cut.
- **The prompt is made lazily**: what was said so far decides where text becomes data, whether
  a role is announced and whose reasoning is dropped.

The hazards are listed one by one, with their lines, in `PROJECT.json`.

## What makes each component correct

- Engine: no token is lost or repeated; queues, statuses and cache sequences
  agree; clients get each generated token once and in order and one final message;
  requests are served in order; every admitted request ends.
- External prefill: the reservation suffices; seed tokens are never streamed nor
  counted against the client's limit; an injected request is not preempted; its
  replay is appended in the injecting step.
- Prefill planning: running entries never exceed the slots; pages suffice for
  every batch; the chunk limit holds.
- Disaggregation: what is in the cache, committed and left spells the request's tokens
  in order; a hand-over is complete; no two requests share a sequence id, and only the leaks
  the code has leak.
- Front end: what reaches the engine is well-formed, and the prompt holds every content once,
  in order, under its role, without the reasoning to be dropped.
- Every engine: a request is streamed tokens only while it is live, and one final usage.
- KV cache: pages and blocks are partitioned between the free lists and the
  sequences, reference counts count, a shared page is never written, and the pages of a
  sequence spell its tokens.

## Modules

| module | models |
|---|---|
| `KVCapacity` | pages for tokens, the size of the cache, the two admission tests |
| `Queue` | the vectors used as queues: order-preserving filters and erasures |
| `QueueLemmas` | facts about the latter, and about sequences that are joined, proved |
| `ServeEngine` | the engine loop with its three actions, clients, preemption, streaming |
| `ServeEngineProofs` | its queues, tokens, streams, order of service, running requests, pages, reservations and injections, proved; it implements `RequestStream` |
| `MCServeEngine` | sizes for model checking |
| `RequestInputs` | the data of a request: windows, chunks and prefix matches cut from it |
| `InputLemmas` | facts about these, proved |
| `DisaggEngine` | the engine in disaggregation mode |
| `DisaggEngineProofs` | its queues, ids, sequences, limits and tokens, proved; it implements `RequestStream` |
| `OpenAIProtocol` | which JSON requests are parsed |
| `ConvTemplate` | which templates are parsed, and the prompt made of template and request |
| `MockEchoEngine` | the echo engine |
| `ChatService` | template, request, prompt and echo engine together |
| `ChatProofs` | what is parsed, prompted and echoed there, proved |
| `RequestStream` | what every engine promises to the readers of its stream |
| `FrontEnd` | the choice of the engine (`DisaggEngine` or `ChatService`), the refinement of `RequestStream` |
| `FrontEndProofs` | that composition, proved; it implements `RequestStream` |
| `MCFrontEnd` | JSON and submissions to check |
| `KVStore` | what a KV cache promises: a sequence is the string of its tokens |
| `PagedKVCache` | blocks, pages, reference counts, sliding windows and token trees of the paged cache |
| `PagedKVCacheProofs` | its blocks, pages, reference counts and lengths without sliding windows, proved |
| `PagedKVStore` | the refinement mapping from `PagedKVCache` to `KVStore` |
| `PagedKVStoreProofs` | that refinement without sliding windows, proved |
| `MCPagedKVCache` | its instances and the view |

`ServeEngine` and `PagedKVCache` are separate levels: the engine model keeps the
length of each sequence and computes its pages; `PagedKVCache` shows what stands
behind a length.

### ServeEngine and the code

The modelled engine is the normal mode the external K/V path is written for: one
model, paged KV cache, prefix cache disabled (`AddRequest` rejects external K/V
otherwise), no speculation, no disaggregation, no grammar (so `BatchJumpForward`,
which only looks at entries with one, is not asked), `n = 1`.  Then a request has one
`RequestState` with one entry, and the model speaks of requests only.

| variable | code |
|---|---|
| `pc` | which action `Step` asks next; `"client"` between steps; a failed `ICHECK` otherwise |
| `waiting_queue`, `running_queue` | `estate->waiting_queue`, `running_queue` |
| `status` | `RequestStateEntry::status` (`"new"` and `"gone"`: not in `request_states`) |
| `input_length` | `GetInputLength()` of the entry's `mstate->inputs` |
| `committed_tokens` | `mstate->committed_tokens.size()` |
| `num_tokens_for_next_decode` | same name |
| `max_tokens` | `request->generation_cfg->max_tokens`, which injection changes |
| `next_callback_token_pos` | same name |
| `seq_length` | length of the sequence in the KV cache, `NoSeq` if it has none |
| `streamed`, `final_outputs`, `stamp`, `injected` | history: tokens and final messages sent, order of admission, request injected in this step |

Actions: `AddRequest`, `AbortRequest`, `Reset` are the client's;
`PDExternalKVPrefill`, `NewRequestPrefill` and `BatchDecode` are one action of
`Step` each, with the post-processing that ends the step folded in
(`ActionStepPostProcess`).  Whether a sampled token stops a request is
nondeterministic; the length limits force a stop.  `NewRequestPrefill` is the scan
of the waiting queue with its two attempts (a whole entry, else what is left of
the chunk), then activation, commit and removal.  `PDExternalKVPrefill` and
`NewRequestPrefill` leave `pc` at the next action when they process nothing.

Abstractions.  Tokens are counted; `streamed` records positions, which is what
"once, in order, no seed" needs.  Without forks a sequence of length n owns
`CountPagesForTokens(n)` pages, so pages are computed from lengths.  `BatchDecode`,
the sampling helpers and `GetDeltaRequestReturn` are not in the repository: they are
modelled from what the code here relies on and marked external in the map.  A failed
`ICHECK` stops the engine: the model moves `pc` to the name of the check and
nothing happens afterwards.  `ICHECK`s of `AddRequest` throw before any change, so a
request they reject is simply not submitted.

### PagedKVCache and the code

`cache` is the cache object with its members of the same names: `free_page_ids`,
`free_block_idx`, `pool` (`global_block_pool_`), `seq_map`, and `kv`, the contents
of `pages_`.  An operation is an operator from caches to caches (`Added`,
`Removed`, `Forked`, `Popped`, `Reserved`, `Slid`, `Committed`), since `PopN` calls
`ForkSequence` and `RemoveSequence`, and an action that applies it under the
operation's `ICHECK`s.  `round` holds a speculative round until its commit
(`cur_seq_ids_`, `cur_append_lengths_`, `append_position_map_host_` and the
sequences' `token_tree_parent_ptr`), `threw` the check that failed inside a call.

| code | model |
|---|---|
| `ForkSequence` | `Forked`: `ReadyToFork` (new last block at an aligned end), `SplitBlock` or `SharedFrom`, `CopiedPage` |
| `PopN` | `Popped`: `Behind` (the loop), `WithoutBlocks`, then `Truncated` or `Reforked` |
| `ReserveAppendLengthInSeq` | `Reserved`, `Slid` (`SlideWindowForSequence`), `Allocated` |
| `BeginForward` and the attention after it | `Forwarded`: reservation, `AppendSlot` (the position map), `Written` |
| `CommitAcceptedTokenTreeNodes` | `Committed`: `CopyNeeded`, `Compacted`, `Popped` |
| `BuildPhysicalPositionMap` | `Contents` |
| `DisaggPrepareRecv`, `DebugSetKV` | actions of these names: reserve without writing, then write a range |

Abstractions.  K/V of a token is an opaque token, new ones different from all the
cache holds.  Page and block ids are interchangeable, so the free lists are sets;
what a freed page or block contained is forgotten, so that a use of it would show.
The block pool is finite and large enough to never run out, as the growing pool of the
code never does.  The copy kernel of the commit is not in the repository: it is taken to move slot after slot in the order of the list
it is given, for which the code makes that list ascend; moves the code leaves out, of nodes that are in place, are
here moves of a slot onto itself.  A commit names the sequences of the round in its order, which the code relies on when it takes
appended lengths by place (`cur_append_lengths_[i]`).  The model verifies a tree outside the cache: which
path is accepted is nondeterministic.  `Ready` is the discipline of the caller, that
a speculative round is committed before anything else is asked; imports go
to a sequence that was just added (`DisaggPrepareRecv` in the engine) or to slots
reserved and not yet written (`DebugSetKV`).

`KVStore` is the abstract specification: `store` maps each live sequence to its
tokens, `window` to its sliding window, `trees` to the shape of a round that awaits its
commit.  `StoreSpec` in `PagedKVStore` maps `store` to the contents read
through the position map, and says that every call changes the tokens of the
sequences as the abstract store does, those of the other sequences included.

### DisaggEngine and the code

The same engine in disaggregation mode, where `ServeEngine` leaves off: the three kinds of
`HandleDisaggRequest`, aborts by preemption, sequence ids.  `entry` is `request_states` with
the fields of the one entry of each request; `left` is `mstate->inputs`,
`waiting_queue`, `running_queue` and `next_callback_token_pos` are those of the code, `used_ids` the ids the
id manager handed out.  Tokens are named by their positions: prompt 1 to n, and the token sampled
behind k others is k + 1.  So whatever lies in `sequences` shows where it
belongs, and `TokensInOrder` compares it with what was submitted.

| code | model |
|---|---|
| `AddRequest`, kind `remote_send` | `AddRequest` with `RemoteSendAllowed` (the checks) and `Truncated` |
| kind `start_generation` | `StartGeneration`: `WithLastToken` for one token left, else prefill before all that wait |
| `AbortRequestImpl` | `Abort`; `RecycledByAbort` is what it gives back |
| `ProcessFinishedRequestStateEntries`, `RemoveRequestStateEntry` | `Retire`, `FinalUsage` |
| `ActionStepPostProcess` | `PostProcess` for sampled requests, `SentWhole` for those to be sent |
| `PreemptLastRunningRequestStateEntry` | `Preempt` |
| `SplitData`, `ChunkPrefillInputData`, `PopPrefillInputData` | the operators of `RequestInputs` |

The actions DisaggPrepareReceive, DisaggRemoteSend, NewRequestPrefill and BatchDecode have
their code elsewhere; they are modelled from their descriptions in `action.h`, from what the code here does with what
they leave, and marked external.  Which of them finds work and room in a step is a
choice, and so are missing pages and the length the prefix cache matches: every order the engine can take is among those
checked, with more.  `lost_ids` and `leaked` name what `AbortRequestImpl` does not give back: the id of a
waiting request, the id and the sequence of a parked one (its "Todo").  `SequencesAccounted` says
that nothing else is lost, and that a lost id is never handed out again.

### ChatService and the code

JSON is tagged with its types.  A parser of `OpenAIProtocol` or `ConvTemplate` is given by its
outcome: parsed, error or exception, from the same lookups in the same order.  A text is a
sequence of words, placeholders and tags among them; that is all that finding, replacing and stripping
need.  An optional field the code keeps apart from an empty one (`tools`, `system_prefix_token_ids`) is a sequence of at most
one, so `[]` is not taken for absent: an empty prefix puts an empty `TokenData` before the prompt, as the code does, and
`tools: []` admits no choice of a tool.  `CreatePrompt` folds `ProcessMessage` over the messages with the state the code keeps
(`pending_text`, `message_list`, the count of messages); `MockEchoEngine` plans the outputs in
`AddRequest` and sends them in `Step`, as the code does.  `received` is what clients got.  The
glue between parser, prompt and engine (`JSONFFIEngine`) and the tokenizer, here one token for a
word, are external.  Loops over a list are folds, as filters and merged functions of the libraries are
recursive or lead to definitions that are, which the provers do not take.

`ServedExactly` compares what is loaded and served with a declarative description: `WellFormedTemplate`,
`WellFormedRequest` with the types of all fields that are read, and `Sayable`, what a template can say.  The objects below
`response_format` and `debug_config` are not part of it, nor of the model.

`RequestStream` is the abstract specification of an engine to its clients.  All three engines implement
it: `ServesStream` is the mapping for `ServeEngine` (live requests are those pending or alive),
`ServesClients` for `DisaggEngine`, and `EngineStream` of `FrontEnd` maps whichever engine was made: live requests are
`request_map` or `entry`, delivered tokens what was echoed or streamed, usages those sent.

## Runs

Deadlock is not reported as an error anywhere: when all requests have left, the engine
has nothing to do.

| run | instance | shows |
|---|---|---|
| `serve_hybrid` | two text requests, one external; page 8, capacity 32, chunk 6, 2 slots, hybrid | tokens, queues, streams, order, final messages, no preemption of external requests, replay in the injecting step, refinement of `RequestStream`, termination |
| `serve_chunked` | the same in chunked mode | the inductive invariant `Inductive` behind the theorems, and termination, when decodes wait for prefills |
| `serve_tight` | three text requests, one external of 29 + 2 tokens; page 4, capacity 32, chunk 8, 2 slots | slots, reservation and pages always suffice |
| `replay_delayed` | chunked, external and text | *violated*: replay in the injecting step |
| `replay_exceeds_chunk` | 7 seed tokens, chunk 6 | *violated*: `ICHECK` on the chunk |
| `reserved_pages_taken` | page 32, replay of 129 tokens | *violated*: the cache does not run full |
| `prompt_near_capacity` | prompt 28 of 32 | *violated*: every admitted request ends |
| `chunked_near_capacity` | the same with chunk 16 | *violated*: a step takes an action |
| `kv_fork` | three sequences, three pages of two slots, up to 4 tokens, trees of up to 3 nodes | the page structure and `StoreSpec`, the order of the copy in a commit included |
| `kv_window` | two sequences, four pages, windows of 4 with a sink of 3 and of 3 without, two sequences in a round | pages, the checks of the slide, `StoreSpec` |
| `front_end` | either engine.  Echo: 17 templates, 9 of them refused, 24 JSON requests and a second one.  Disaggregated: three requests of 9, 3 and 1 submissions, chunk 2, sequences up to 8 | prompts, echo, windows and chunks, sequence ids, hand-over, limits, that just the well-formed requests the template can say are served; both engines implement `RequestStream`; every request ends |
| `commit_mixed_batch` | two sequences in a speculative round | *violated*: `StoreSpec` |

**Why the bounds are enough.**  Every interaction is between the head of the
waiting queue, the entries running and one request behind them, so three or four
requests show them all.  In `serve_hybrid` a prompt is split over two chunks behind
another one (4 + 6 under a chunk of 6), growth past a page boundary makes two
running entries compete for the last pages, and the preempted one is rebuilt from
prompt and committed tokens; one request has no token limit and ends at the
sequence limit.  In `serve_tight` three requests would fit the chunk and the cache at once
(only the slots forbid it), two of equal length cross a page boundary in the same
decode with one page left, and prefix plus seeds take every page of the cache,
the spare one included.  No counter needs a bound: each is limited by the lengths.

For the KV cache, pages of two slots have a first and a last slot, so aligned and
unaligned positions both occur; four tokens make two pages, so a block can be split, and
a third sequence makes a block that two others share lose one of them.  Three pages are
too few for three sequences of two pages: allocation fails as well as succeeds, and a
window borrows pages.  A tree of three nodes has paths whose target slots overlap
their sources.  `kv_fork` and `kv_window` use a view that names blocks and tokens
by the sequences and positions where they are found, and symmetry of sequence
ids; all properties there are safety properties.  `contents` is a history variable that caches
the refinement mapping.

In `front_end`, three requests in disaggregation mode are one to be parked, one to be sent or served and one
behind them.  Prompts of three data with an image and a chunk of two positions put cuts at, before and inside every
kind of datum; a window ends inside a datum, at its edge and one before the prompt's end.  The templates cover the
branches of `CreatePrompt`: few-shot messages with reasoning, two separators, no system text, roles left
out, tools, an empty prefix of tokens, and templates `FromJSON` accepts but no message survives (no separator, no assistant).  Two requests to
the echo engine show two ending in the same step; limits of -1, 0, 1, 3 and exactly the prompt's
length occur.

**Fairness.**  `FairSpec` adds weak fairness of `EngineStep`: the background loop
calls `Step` for as long as the engine has requests.  Nothing is assumed of the
clients.  `EventuallyFinal` needs nothing else, since every token limit or the
sequence limit ends a request.  `front_end` has the same for both engines (`EveryRequestEnds`); for
`DisaggEngine` weak fairness is written out with `HasWork`, the condition under which a step is
possible, because TLC takes long to find `ENABLED` of a step.  A request that awaits K/V waits for its
client, of whom nothing is assumed.

### Findings

1. *Replay may be delayed* (`replay_delayed`).  The comment that `BatchDecode` runs
   in the same step is false in chunked mode when a text request waits behind the
   injected one: its prefill ends the step.
2. *Replay may exceed the chunk* (`replay_exceeds_chunk`).  Replay tokens of a
   running external request are counted in the prefill's input length, unbounded
   by the chunk; with a text request behind, the `ICHECK` before attempt 2
   fails.
3. *Reserved pages may be taken* (`reserved_pages_taken`).  The reservation is a check
   only; the prefill in between counts one page per decoding entry, so a
   replay of several pages may find the cache full.
4. *A prompt near the capacity is never served* (`prompt_near_capacity`).  It
   passes `AddRequest`, but never the headroom of 8 tokens; it blocks the queue and
   never gets the final message.
5. *The same prompt split over chunks stops the engine* (`chunked_near_capacity`):
   the first chunk runs, the rest is never admitted, and `Step` fails its check that it
   takes an action.

6. *A chain in the batch keeps a tree from being compacted* (`commit_mixed_batch`).
   `CommitAcceptedTokenTreeNodes` decides whether to move K/V by the `is_chain` of the
   last sequence only.  A tree committed in the same call before a chain keeps the
   K/V of the nodes that happen to be first, accepted or not.

`kv_fork` therefore has one sequence in a speculative round.  `kv_window` leaves out calls that
put a sequence with a window out of order; each of these was seen in a run without the
restriction:

- `PopN` after the block has slid computes the pages to keep from the length
  alone (811-813), although the block's first page starts at an offset: a page in use is
  freed.
- `PopN` into the shared prefix replaces the sequence by a fork, which has no
  window (829-837), or fails the check that forks stay in the sink.
- A fork at the aligned end of the sequence, inside the sink, starts a new block and
  leaves `last_block_attn_sink_size` (615-625): the sink grows by the old block.
- A fork behind the first page of a block that has slid splits it and leaves
  `sink_length` and `sliding_window_offset` in the rest (650-682).
- A window shorter than the shared prefix fails a check at the first slide.

In the engine here none of these calls follows a slide: it enables windows on
sequences just added and neither forks nor pops.

The passing runs of the engine choose sizes outside these cases: replay within the chunk and within one page
beyond the prefix, prompts 8 below the capacity.  In hybrid mode with such sizes
`ReplayInSameStep` holds.

An observation that is not a finding: the rehydration branch (an external request
injected again after a preemption) cannot be reached if no sequence may outgrow the cache
(`SequenceFits` below).  External requests are injected only when nothing runs, so they are first in the
running queue, and preemption takes the last; alone, a request then always leaves a page.
`ExternalNeverPreempted` states it, and is proved from `SequenceFits`.  The code does not check that
`max_single_sequence_length` is at most `max_total_sequence_length`; where it is larger, a lone
external request can fill the cache and be preempted.

**Seen in other runs or while reading, outside `front_end`.**

- `SplitData` returns its right-hand side backwards when the cut is at the edge of a datum and two or
  more data are behind it (`data.cc:62` turns it round only in the branch that cuts).  A
  `prepare_receive` request started there prefills its prompt in the wrong order.  With such a
  submission (`Q`, window 2) `TokensInOrder` is violated; the submissions of `front_end` have at most
  one datum behind an edge (`CutInOrder`, which `CutsInOrder` assumes of them and `OrderKept` of all).
- A request aborted while its K/V is awaited keeps its sequence in the cache and its id for good
  (`engine.cc:145`), until a reset; one aborted while it waits keeps its id.
- In disaggregation mode no action serves external K/V (`action_commons.cc:103`), but `AddRequest` accepts it: the prefill scan
  stops at it and all behind it wait.
- An image longer than the prefill chunk never progresses (`batch_prefill_base.cc:372`).
- Every well-formed tool call in a message throws: the id is taken with `UnwrapErr`
  (`openai_api_protocol.cc:168`).  `tools` or `response_format` of another type throw as well
  (393 tests the result of `tool_choice` again), where all other fields give an error.
- A system message that is null or in parts throws (`conv_template.cc:253`); an empty `seps` is accepted and then
  divided by (294).
- `{function_string}` stays in the prompt when no tool is given, and a user's text that holds this word may be
  replaced by the tools (193).
- A message without content before the first one with content counts as text before it: the role is left out without
  any system message (299).
- The echo engine counts tokens beyond `max_tokens` as completed (213), and overwrites a live request
  of the same id (260).

## Proofs

Every theorem below is for all values of the constants: any requests, sizes, limits, chunks and
submissions, any pools of pages and blocks.

| module | theorem | statement |
|---|---|---|
| `ServeEngineProofs` | `Invariance` | `Spec => []IInv` |
| | `TypeCorrect` | `Spec => []TypeOK` |
| | `TokensAccounted` | `Spec => []KVMatchesTokens` |
| | `QueuesAgree` | `Spec => []QueueStatus` |
| | `StreamsExactly` | `Spec => []StreamExact` |
| | `StreamsWithinBudget` | `Spec => []StreamBudget` |
| | `OneFinalMessage` | `Spec => []ExactlyOneFinal` |
| | `ImplementsStream` | `Spec => ServesStream` |
| | `OrderInvariance` | `Spec => []OInv`, for its `OInv` |
| | `ServedInOrder` | `Spec => []FIFO` |
| | `RunsBounded` | `Spec => []RunningBounded` |
| | `InductiveInvariance` | `SequenceFits`: `Spec => []Inductive` |
| | `ReservationSucceeds` | `SequenceFits`: `Spec => []ReservationHolds` |
| | `ExternalsStay` | `SequenceFits`: `Spec => ExternalNeverPreempted` |
| | `ReplayTogether` | `SequenceFits`, hybrid mode: `Spec => ReplayInSameStep` |
| | `PagesSuffice` | `SequenceFits`, `SeedsFit`: `Spec => []NoKVCacheFull` |
| `DisaggEngineProofs` | `DisaggInvariance` | `Spec => []Inductive` (of `DisaggEngine`) |
| | `PlacesAgree` | `Spec => []PlaceAgrees` |
| | `SequencesCounted` | `Spec => []SequencesAccounted` |
| | `BudgetKept` | `Spec => []StreamedInBudget` |
| | `HandoverWhole` | `Spec => []HandoverComplete` |
| | `OrderKept` | `CutInOrder` of all submissions: `Spec => []TokensInOrder` |
| | `DisaggImplementsStream` | `Spec => ServesClients` |
| `PagedKVCacheProofs` | `StructureKept` | no sliding windows: `Spec => []StructureInvariant` |
| | `PagesPartitioned` | no sliding windows: `Spec => []PagePartition` |
| | `ReferencesCounted` | no sliding windows: `Spec => []RefCounts` |
| | `AppendsPrivate` | no sliding windows: `Spec => []LastBlockPrivate` |
| | `SharedPagesFull` | no sliding windows: `Spec => []InnerBlocksFull` |
| | `PagesExact` | no sliding windows: `Spec => []PagesCover` |
| | `LengthsKept` | no sliding windows: `Spec => []LengthsAgree` |
| | `NothingLeaks` | no sliding windows: `Spec => []EmptyAgain` |
| `PagedKVStoreProofs` | `ImplementsStore` | no sliding windows: `TrackedSpec /\ []UniformRound => StoreSpec` |
| `ChatProofs` | `ChatInvariance` | `IsJSON(W)`: `ChatSpec => []ChatInductive` |
| | `ChatEchoExact` | `IsJSON(W)`: `ChatSpec => []EchoExact` |
| | `ChatServedExactly` | `IsJSON(W)`: `ChatSpec => []ServedExactly` |
| | `ChatTypeInvariance` | `IsJSON(W)`: `ChatSpec => []ChatTypeOK` |
| `FrontEndProofs` | `FrontEndInvariance` | `IsJSON(W)`: `FrontEndSpec => []P`, `P` the conjunction of `FrontEndTypeOK`, `ServedExactly`, `EchoExact`, `PlaceAgrees`, `SequencesAccounted`, `StreamedInBudget`, `HandoverComplete` |
| | `FrontEndImplementsStream` | `IsJSON(W)`: `FrontEndSpec => EngineStream` |
| `QueueLemmas` | `KeepProperties` | the filter of a queue returns just what it should, without repetition |
| `InputLemmas` | `SplitFacts`, `ChunkFacts`, `PopFacts` | what `SplitData`, `ChunkPrefillInputData` and `PopPrefillInputData` leave |

**Assumptions on constants.**  Those of `KVCapacity` and `ServeEngine`: finitely many requests,
positive prompts, seed tokens exactly for external requests, positive limits.  `OfferedAssumption` of
`DisaggEngine`: a request has some input, its window ends inside its prompt (the checks of
`kStartGeneration`), limits are positive or none.  `PoolAssumption` of `PagedKVCache` makes the
pool of blocks large enough, as the growing one of the code is.  `ClientsApart` of `FrontEnd`: a request goes to one
of the engines.  Beyond these, six hypotheses are stated in the theorems that need them:

- `SequenceFits`: no sequence may outgrow the cache.  See the observation on preempted external requests.
- `SeedsFit`: the seeds take at most one page beyond the prefix.  Finding 3 is what happens otherwise.  Hybrid mode in
  `ReplayTogether` for the same reason: finding 1.
- `CutInOrder`: no window leaves several data behind the edge of one, where `SplitData` turns them round.
- A cache built without sliding windows (`support_sliding_window` false) in `PagedKVCacheProofs` and `PagedKVStoreProofs`.  With windows the
  structure is kept only by callers that avoid what `kv_window` leaves out, so there is no theorem about `Spec`.
- `UniformRound`: if the last tree of a round is a chain, all of its trees are.  This is all that is left out: a round of one sequence, of
  chains, or with a branching tree at its end is covered, whatever is accepted.  Finding 6 is what happens otherwise.
- `IsJSON(W)`: a JSON value is what its type tag says, for some set `W` of words.  A string is a sequence of words, an
  array a sequence, a field of a content's part a text whatever its type was (`ContentPartValueToString`), an image
  takes at least one position, `max_tokens` that is a number is at least -1 (which stands for none).  Fields may be
  missing, null, of any other type or nested wrongly anywhere: that is what the parsers decide.  So
  the first part is about the representation of JSON and excludes no text a client can send; the last two are facts
  about images and a limit which the parser does not check.  TLC evaluates it for the JSON of `front_end` (`JSONGiven`).

The code does not check the first three nor `UniformRound`, and the results are false without them.

**ServeEngine.**  The inductive invariant `IInv` conjoins the five state properties with three that
they need.  `StreamBudget` is not inductive: that the limit a request runs under
is raised by its seeds exactly once is `Budget`, and that an external request that runs
has committed its seeds is `Seeded`.  `Unstarted` says that a request nobody
submitted has no tokens.  The queue part is needed by the token part: a step changes
a request's tokens because of the queue it is in, and `QueueStatus` is what turns the place
into a status.  `ServeEngineProofs` has one lemma per action, with the streaming part shared by the
sampling actions.  The filters on queues are defined with positions and `Cardinality` rather than
recursion, and their properties follow in `QueueLemmas` from the library's theorems on finite sets
and induction.

*Refinement.*  Where a request is in its life is told by its status, the final messages by `ExactlyOneFinal`, and
what was streamed by `StreamExact` up to its length.  So a step need only be shown to move
the status forward and not to shorten a stream (`StepOf`).  The same argument, with `StreamedInBudget` and
`Unanswered`, is `ClientStep` for `DisaggEngine`.

*Order.*  `FIFO` is not inductive.  `Ordered` adds that both queues are in the order of admission, that
nothing pending came before a running request, and that a request running with input left is the
last of those and not external: only then do prefill, injection and preemption keep the order.
`RunningBounded` needs the same facts, since preempted requests come back through the prefill.

*Capacity.*  Sums over requests are counted (`Total` in `KVCapacity` is the cardinality of a set of
pairs), so that they have proofs (`TotalPlus` and those around it).  `Fits` says that live requests are short enough to stay,
that an external one was admitted before all others that run, with no input left, and that it has either just
been injected or decodes one token.  With `Injected` (what was injected in this step has not been replayed) and
`ReservationHolds` this is `XInv`; `Inductive` of `ServeEngine` is the conjunction of all.

**DisaggEngine.**  `Structure` is the type, the queues (`PlaceAgrees`) and the ids and sequences
(`SequencesAccounted`): these need one another, since what an operation frees is found by the place a request has.  `LiveKept`
adds what is kept of each live request: that the K/V and inputs of a request to be sent are its window
(`KeepsWindow`), what the raised limit and the token committed at the start of a generation
have to do with each other (`KeepsBudget`), the count of K/V, pending token and inputs (`KeepsCount`),
and their order (`KeepsOrder`).  The count holds for all submissions; only the order needs `CutInOrder`.  `front_end` checks
the properties that follow from this invariant; the invariant itself (`Inductive` of `DisaggEngine`) is proved.  Every
operation is one lemma for the structure and one for the rest; those of the sampling actions share `Outcome`.

**ChatService.**  The echo engine decides everything when it adds a request, so the invariant compares the stream with a
constant: `Plan(r)`, the outputs for the prompt of `r`.  While the request is held, what was received followed by what is left
is the plan; when it is gone, the client got the whole plan, or a beginning of it and then the finish reason `abort` with the usage (`StreamsKept`).
`Loaded` and `AnswersMade` say where template and prompt come from: the JSON that was parsed.  `EchoExact` is then a fact about plans
and their beginnings: one word at a time in order, one finish reason, before the usage.  What needs most steps is that a
plan can be read at all, that is, that the prompt is a sequence of data whose ids are words, whatever
the templates, roles, parts, tools and separators are.  Each level of the prompt (placeholders of a text, parts of a message,
messages) is a fold; a fold with an invariant is a *run*, the function of its intermediate states, and one lemma per level says what
the state of a run is after any number of elements.  `ServedExactly` needs both directions.  That what is served is well-formed
follows from the lookups the parsers make; that what can be served is served needs that no message of the run fails,
and a run that fails once stays failed, so the last state tells of all messages.

**FrontEnd.**  A step of the composition is a step of one engine and leaves the other alone, so each engine's theorems hold of it
(the lemma `FrontEndEngines`).  For `EngineStream` every step of the echo engine is shown to do one of four things
to each request, without mention of the others: nothing, begin it, send more of its words, or send its usage and remove it
(`EchoClientStep`).  That a usage is sent once needs the plan: it is the last thing in it, also after an abort.

**PagedKVCache.**  `StructureInvariant` says that the blocks form a forest: every used block hangs on one that holds
whole pages and ends where it starts (`Chained`), each page not free is in one place (`Paged`), a count is the number of
children and of sequences that end in the block (`Counted`), a sequence is as long as its last block reaches (`Ended`), and
that block is its own (`Private`).  No conjunct speaks of a chain as a whole: `start_pos` grows
along it and ranks the inductions, so that a step is shown by the blocks it changes.  `LengthsAgree` and `EmptyAgain`, which do
speak of chains, follow (`InvariantImplies`).  While a round awaits its commit, `RoundDue` adds that the
last block of each of its sequences holds at least the tokens of its tree: the commit pops
inside that block and cannot fail.

The operations are operators on caches, so each has a lemma about an arbitrary cache: `AddedWhole`, `RemovedWhole`, `ForkedWhole`,
`PoppedWhole`, `ForwardedWhole`, `CommittedWhole`.  `PopN` into a shared block goes through caches in which the popped
sequence ends in a block that is not its own; `Whole(c, X)` therefore exempts the sequences in `X`, which is empty between calls.
A fork takes up to two blocks.  Every used block has a page or is the empty last block of some
sequence (`BlocksInUse`), which leaves two free (`TwoBlocksFree`).  What a fork does to the tree is split in three:
a parent is opened for a child, by a new reference or by splitting a block (`CountedOpened`, `SplitOpened`), the new
block is filled (`FilledWhole`), and the child sequence ends in it (`BranchedWhole`).

*Refinement.*  `contents` is a function of the state, so the invariant is `StructureInvariant` with that equation
(`StoreInvariant`) and a step is shown by what the call does to `Contents`.  This is a recursion over the
chain of a sequence; what the blocks up from a block hold is `Read`, a set of positions with their tokens, and `ContentsShow` says that
both are the same.  A set is easier to follow through the changes of a tree: splitting a block leaves it as it is (`SplitRead`), a fork copies what lies
below its position (`ForkRead`), a reservation or a new block only adds positions (`ReadLonger`), and truncation drops them from an end.  The loop of `PopN`
drops whole blocks and then truncates or forks, so `PoppedContents` is the beginning of the sequence in all of its cases.
An append or import writes slots that no other sequence reads: two tokens of used blocks never lie in the same slot
(`SlotApart`), and the last block, which is written, belongs to one sequence.  In a batch this is done once per sequence (`BatchDoneMore`).

The commit is a copy and then the pops.  The slots of a round are numbered through all of its trees, and the moves of all
paths form one list (`MovesTo`, `MovedAt`) that is carried out from its beginning.  The j-th node of a path is never before the j-th
slot of its tree, and slots ascend along the list (`RoundNumbered`), so no move reads a slot that an earlier one wrote (`ReadsFirst`): the
copy in turn leaves the same as one that reads all sources before it writes (`CopyAtOnce`, `CompactedContents`).  Where nothing is copied, `UniformRound` makes all paths the beginnings of their trees (`ChainPath`).  The pops
go through caches that are each as the next pop needs (`CommittedPops`).  The path from a leaf is one recursion in the cache
and another in the store; `StoreWay` shows them equal.  A call that fails a check is a step that leaves the store as it is.

**Induction over data.**  The library's induction theorems cannot be instantiated by the provers
here, since they take an operator.  `QueueLemmas` reasons with the least counterexample instead (`LeastNatural`), which
suffices for joining sequences of any length, and `InputLemmas` for the reversal of inputs.  The proofs of the paged cache do the same for chains,
batches, the pops of a commit and the paths of a token tree; that such a function exists is proved first, as `CHOOSE` does not give it.

**Only model-checked.**  `EventuallyFinal` and `EveryRequestEnds`: liveness.  What the prompt says
(`ContentsInOrder`, `HistoryStripped`, `RolesAnnounced`): these look for the words of contents, roles and
reasoning in the finished prompt, and hold where no template or client uses the same word for two of these, as in the JSON of
`front_end`.  The paged cache with sliding windows (`kv_window`): `SlideChecks`,
the page structure and `StoreSpec` under the restrictions of that run.

## Plan

1. done: `KVCapacity`, `Queue`, `ServeEngine`, its runs and proofs.
2. done: `PagedKVCache` with sliding windows and token trees, the abstract
   specification `KVStore` and the refinement; the page structure and the refinement without windows as theorems.  Left:
   both with windows under the discipline of `kv_window`.
3. done: `RequestInputs`, `DisaggEngine`, `OpenAIProtocol`, `ConvTemplate`, `MockEchoEngine`,
   `ChatService`, `RequestStream` and their composition `FrontEnd`; the invariants of both engines and their
   refinement of `RequestStream` as theorems.  Left: what the prompt says, for words used once.
4. Tree masks and the compressed position map of the KV cache as functions
   against a reference.
5. Duplicate request ids; `n > 1`.
6. done: order, slots, reservation and pages of `ServeEngine` as theorems, and its refinement of `RequestStream`.

## Not modelled

Attention kernels, device copies and position tables on the device (numeric
device code); serialisation back to JSON, the objects in `response_format`, `debug_config` and
the model configuration, image decoding (pure conversions of which nothing here depends);
engine construction beyond the choice of the engine, options and metrics (no later interaction); the
checks on the shapes of external K/V (assumptions of `ServeEngine`); the transport between two engines and
`DisaggMarkSend` (outside the repository or on the device); Python wrappers; speculative decoding, several
models and `n > 1` in the engine, the sequences a prefix cache keeps (their actions and the cache are not in
the repository).

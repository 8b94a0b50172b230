----------------------------- MODULE PagedKVCache ------------------------------
(***************************************************************************)
(* The page and block structure of PagedAttentionKVCacheObj: sequences are *)
(* chains of blocks, a block owns pages of page_size slots, sequences that *)
(* were forked share the blocks of their common prefix.  The contents of   *)
(* the slots are kept, as opaque tokens, so that a wrong page, offset or   *)
(* copy shows as a wrong token.                                            *)
(*                                                                         *)
(* An operation of the cache is an operator from caches to caches and an   *)
(* action that applies it, since PopN uses the others.  Ids of pages and   *)
(* blocks are interchangeable: the free lists are sets.  What a free page  *)
(* or a free block still contains is of no value; it is forgotten when     *)
(* they are freed, so that a read of it would show.                        *)
(***************************************************************************)
EXTENDS SequencesExt, FiniteSetsExt

CONSTANTS
  SeqId,
  Block,                       \* bound: enough for every chain; the pool grows in the code
  Page,
  page_size,
  support_sliding_window,
  Windows,                     \* [size, sink] a client may enable
  MaxAppend,                   \* bound: tokens appended to a sequence in one round
  MaxLength,                   \* bound: tokens of one sequence
  MaxBatch,                    \* bound: sequences in one round
  TempSeq,                     \* the temporary sequence id of PopN
  Junk                         \* content of a slot nobody has written

NoBlock  == -1
TempPage == -1                 \* kPagedKVCacheTempPageId
NoWindow == [size |-> -1, sink |-> 0]

ASSUME PoolAssumption ==
  /\ Block \subseteq Nat /\ IsFiniteSet(Block)
  /\ Page \subseteq Nat /\ IsFiniteSet(Page)
  /\ IsFiniteSet(SeqId)
  /\ Cardinality(Block) >= Cardinality(Page) + Cardinality(SeqId) + 1
  /\ TempSeq \notin SeqId
ASSUME SizeAssumption ==
  /\ page_size \in Nat \ {0}
  /\ support_sliding_window \in BOOLEAN
  /\ \A w \in Windows : w.size \in Nat /\ w.sink \in 0..(w.size - 1)
ASSUME BoundAssumption == MaxAppend \in Nat /\ MaxLength \in Nat /\ MaxBatch \in Nat

VARIABLES
  cache,                       \* the members of the cache, see Clear
  round,                       \* the last round of a token tree, until it is committed
  threw                        \* the ICHECK that failed inside a call, which is the end

vars == <<cache, round, threw>>

-----------------------------------------------------------------------------
(* Data.                                                                   *)

EmptyBlock ==
  [page_ids |-> <<>>, start_pos |-> 0, seq_length |-> 0, parent_idx |-> NoBlock,
   external_ref_cnt |-> 0, sink_length |-> 0, sliding_window_offset |-> 0]

NewSequence(block, length) ==
  [last_block_idx |-> block, seq_length |-> length, sliding_window_size |-> NoWindow.size,
   last_block_attn_sink_size |-> 0]

Offset    == 0..(page_size - 1)
EmptyPage == [o \in Offset |-> Junk]

Cleared ==
  [free_page_ids |-> Page, free_block_idx |-> Block, pool |-> [b \in Block |-> EmptyBlock],
   seq_map |-> <<>>, kv |-> [p \in Page |-> EmptyPage]]

PagesFor(n) == (n + page_size - 1) \div page_size

Put(f, s, v) == [x \in DOMAIN f \cup {s} |-> IF x = s THEN v ELSE f[x]]
Drop(f, s)   == [x \in DOMAIN f \ {s} |-> f[x]]

SeqIds(c)    == DOMAIN c.seq_map
LastBlock(c, s) == c.pool[c.seq_map[s].last_block_idx]

(* The blocks from the first one to b.                                     *)
GetBlockTrace(c, b) ==
  LET trace[x \in Block] ==
        IF c.pool[x].parent_idx = NoBlock THEN <<x>> ELSE Append(trace[c.pool[x].parent_idx], x)
  IN trace[b]
Trace(c, s) == GetBlockTrace(c, c.seq_map[s].last_block_idx)

TokensIn(c, blocks) ==
  LET sum[i \in 0..Len(blocks)] ==
        IF i = 0 THEN 0 ELSE sum[i - 1] + c.pool[blocks[i]].seq_length
  IN sum[Len(blocks)]

(* Slot of the i-th token of a block, the sink first, then the window.     *)
OffsetInBlock(block, i) ==
  IF i < block.sink_length THEN i ELSE i - block.sink_length + block.sliding_window_offset
Slot(block, offset) == <<block.page_ids[offset \div page_size + 1], offset % page_size>>

(* BuildPhysicalPositionMap, and what is found there.  A slot beyond the   *)
(* pages of its block is read out of bounds: anything may be found.        *)
TokenAt(c, block, i) ==
  LET offset == OffsetInBlock(block, i) IN
  IF offset \div page_size < Len(block.page_ids) /\ Slot(block, offset)[1] # TempPage
  THEN c.kv[Slot(block, offset)[1]][Slot(block, offset)[2]] ELSE Junk
Contents(c, s) ==
  FlattenSeq([k \in DOMAIN Trace(c, s) |->
    LET block == c.pool[Trace(c, s)[k]] IN
    [i \in 1..block.seq_length |-> TokenAt(c, block, i - 1)]])

-----------------------------------------------------------------------------
(* Free lists.                                                             *)

FreePages_Lost(c, pages) == c
FreePages(c, pages) ==
  [c EXCEPT !.free_page_ids = @ \cup pages,
            !.kv = [p \in Page |-> IF p \in pages THEN EmptyPage ELSE @[p]]]
FreeBlocks_PagesLost(c, blocks) ==
  [c EXCEPT !.free_block_idx = @ \cup blocks,
            !.pool = [b \in Block |-> IF b \in blocks THEN EmptyBlock ELSE @[b]]]
FreeBlocks_NotListed(c, blocks) ==
  [FreePages(c, UNION {ToSet(c.pool[b].page_ids) : b \in blocks})
     EXCEPT !.pool = [b \in Block |-> IF b \in blocks THEN EmptyBlock ELSE @[b]]]
FreeBlocks(c, blocks) ==
  [FreePages(c, UNION {ToSet(c.pool[b].page_ids) : b \in blocks})
     EXCEPT !.free_block_idx = @ \cup blocks,
            !.pool = [b \in Block |-> IF b \in blocks THEN EmptyBlock ELSE @[b]]]

GetFreePage(c)  == Min(c.free_page_ids)
GetFreeBlock(c) == Min(c.free_block_idx)

(* A copy of c in which the block taken from the free list has these fields.*)
WithBlock(c, b, block) == [c EXCEPT !.free_block_idx = @ \ {b}, !.pool[b] = block]

-----------------------------------------------------------------------------
(* Sequence management.                                                    *)

Added(c, s) ==
  LET b == GetFreeBlock(c) IN
  [WithBlock(c, b, [EmptyBlock EXCEPT !.external_ref_cnt = 1])
     EXCEPT !.seq_map = Put(@, s, NewSequence(b, 0))]

(* The blocks that only this sequence refers to are freed, from its last   *)
(* one up; the first shared one loses a reference.                         *)
Removed(c, s) ==
  LET trace == Trace(c, s)
      k     == Max({0} \cup {i \in DOMAIN trace : c.pool[trace[i]].external_ref_cnt # 1})
      left  == [FreeBlocks(c, {trace[i] : i \in (k + 1)..Len(trace)}) EXCEPT !.seq_map = Drop(@, s)]
  IN IF k = 0 THEN left ELSE [left EXCEPT !.pool[trace[k]].external_ref_cnt = @ - 1]

(* A sequence forked at its page-aligned end continues in a new block.     *)
WithNewLastBlock(c, s) ==
  LET b == GetFreeBlock(c) IN
  [WithBlock(c, b, [EmptyBlock EXCEPT !.start_pos = c.seq_map[s].seq_length,
                                      !.parent_idx = c.seq_map[s].last_block_idx,
                                      !.external_ref_cnt = 1])
     EXCEPT !.seq_map[s].last_block_idx = b]
ReadyToFork(c, s, pos) ==
  IF pos = c.seq_map[s].seq_length /\ pos % page_size = 0 /\ LastBlock(c, s).seq_length > 0
  THEN WithNewLastBlock(c, s) ELSE c

(* The tokens that move with `pages` pages to the block split off.         *)
Moved_All(block, pages) == block.seq_length
Moved(block, pages)     == pages * page_size

(* The child shares the whole pages before pos.  When they end inside a    *)
(* block they move to a new block above it.                                *)
SplitBlock(c, s, forked, pages) ==
  LET above == GetFreeBlock(c)
      block == c.pool[forked]
      moved == Moved(block, pages)
  IN [WithBlock(c, above, [EmptyBlock EXCEPT !.page_ids = SubSeq(block.page_ids, 1, pages),
                                             !.start_pos = block.start_pos,
                                             !.seq_length = moved,
                                             !.parent_idx = block.parent_idx,
                                             !.external_ref_cnt = 2])
        EXCEPT !.pool[forked] =
                 [block EXCEPT !.page_ids = SubSeq(block.page_ids, pages + 1, Len(block.page_ids)),
                               !.start_pos = block.start_pos + moved,
                               !.seq_length = block.seq_length - moved,
                               !.parent_idx = above],
               !.seq_map[s].last_block_attn_sink_size =
                 IF c.seq_map[s].sliding_window_size # NoWindow.size
                    /\ c.seq_map[s].last_block_idx = forked
                 THEN @ - moved ELSE @]
SharedFrom_Uncounted(c, forked) == c
SharedFrom(c, forked) ==
  IF c.pool[forked].parent_idx = NoBlock THEN c
  ELSE [c EXCEPT !.pool[c.pool[forked].parent_idx].external_ref_cnt = @ + 1]

(* What the child's block hangs from.                                      *)
ForkPoint_Forked(c, forked) == forked
ForkPoint(c, forked)        == c.pool[forked].parent_idx

(* Where the child's block starts, a fork at pos being inPage slots into   *)
(* a page.                                                                 *)
ChildStart_InPage(pos, inPage) == pos
ChildStart(pos, inPage)        == pos - inPage

(* The slots of the child's partial page, copied from the forked block.    *)
CopiedPage(c, child, source, length) ==
  LET target == GetFreePage(c) IN
  [c EXCEPT !.free_page_ids = @ \ {target},
            !.pool[child].page_ids = <<target>>,
            !.kv[target] = [o \in Offset |-> IF o < length THEN c.kv[source][o] ELSE Junk]]

Forked(c, parent, child, pos) ==
  LET ready  == ReadyToFork(c, parent, pos)
      b      == GetFreeBlock(ready)
      trace  == Trace(ready, parent)
      before(i) == TokensIn(ready, SubSeq(trace, 1, i - 1))
      i      == CHOOSE i \in DOMAIN trace :
                  /\ before(i) <= pos
                  /\ i = Len(trace) \/ pos < before(i + 1)
      inPage == (pos - before(i)) % page_size
      pages  == (pos - before(i)) \div page_size
      reserved == [ready EXCEPT !.free_block_idx = @ \ {b}]
      split  == IF pages = 0 THEN SharedFrom(reserved, trace[i])
                ELSE SplitBlock(reserved, parent, trace[i], pages)
      linked == WithBlock(split, b, [EmptyBlock EXCEPT !.start_pos = ChildStart(pos, inPage),
                                                       !.seq_length = inPage,
                                                       !.parent_idx = ForkPoint(split, trace[i]),
                                                       !.external_ref_cnt = 1])
      filled == IF inPage = 0 THEN linked
                ELSE CopiedPage(linked, b, split.pool[trace[i]].page_ids[1], inPage)
  IN [filled EXCEPT !.seq_map =
        Put(@, child, NewSequence(b, TokensIn(filled, GetBlockTrace(filled, b))))]

(* A page for the copy, when the fork is inside a page.                    *)
ForkFits(c, pos) == pos % page_size = 0 \/ c.free_page_ids # {}

(* A sequence with a window can only be forked within its sink.            *)
SinkSize(c, s) ==
  c.seq_map[s].seq_length - LastBlock(c, s).seq_length + c.seq_map[s].last_block_attn_sink_size
ForkAllowed(c, s, pos) ==
  c.seq_map[s].sliding_window_size # NoWindow.size => pos <= SinkSize(c, s)

-----------------------------------------------------------------------------
(* PopN frees the blocks and pages behind the new end that no other        *)
(* sequence uses.  When the end lies in a shared block the sequence is     *)
(* replaced by a fork of itself.                                           *)
PagesKept_All(block, n) == PagesFor(block.seq_length)
PagesKept(block, n)     == PagesFor(block.seq_length - n)

Truncated(c, s, n) ==
  LET block == LastBlock(c, s)
      keep  == PagesKept(block, n)
  IN [FreePages(c, ToSet(SubSeq(block.page_ids, keep + 1, Len(block.page_ids))))
        EXCEPT !.pool[c.seq_map[s].last_block_idx] =
                 [block EXCEPT !.page_ids = SubSeq(block.page_ids, 1, Min({keep, Len(block.page_ids)})),
                               !.seq_length = block.seq_length - n],
               !.seq_map[s].seq_length = @ - n]
Reforked(c, s, n) ==
  LET forked == Removed(Forked(c, s, TempSeq, c.seq_map[s].seq_length - n), s)
  IN [forked EXCEPT !.seq_map = Put(Drop(@, TempSeq), s, @[TempSeq])]

(* The blocks behind the one the loop stops at, which holds the new end or *)
(* is shared.                                                              *)
Behind(c, s, n) ==
  LET trace == Trace(c, s)
      stop(i) == \/ c.pool[trace[i]].external_ref_cnt # 1
                 \/ n <= TokensIn(c, SubSeq(trace, i, Len(trace)))
  IN SubSeq(trace, Max({i \in DOMAIN trace : stop(i)}) + 1, Len(trace))
WithoutBlocks(c, s, blocks) ==
  IF blocks = <<>> THEN c ELSE
  [FreeBlocks(c, ToSet(blocks)) EXCEPT
     !.seq_map[s] = [c.seq_map[s] EXCEPT
       !.last_block_idx = c.pool[blocks[1]].parent_idx,
       !.seq_length = c.seq_map[s].seq_length - TokensIn(c, blocks)]]

Popped(c, s, n) ==
  LET blocks == Behind(c, s, n)
      rest   == n - TokensIn(c, blocks)
      left   == WithoutBlocks(c, s, blocks)
  IN IF n = 0 THEN c
     ELSE IF LastBlock(left, s).external_ref_cnt = 1 THEN Truncated(left, s, rest)
     ELSE Reforked(left, s, rest)
PopFits(c, s, n) ==
  LET left == WithoutBlocks(c, s, Behind(c, s, n)) IN
  LastBlock(left, s).external_ref_cnt # 1 =>
    /\ ForkAllowed(left, s, c.seq_map[s].seq_length - n)
    /\ ForkFits(left, c.seq_map[s].seq_length - n)

-----------------------------------------------------------------------------
(* Appending to a sequence.                                                *)

(* ReserveAppendLengthInSeq takes the pages the new tokens need.  A        *)
(* sequence with a window may borrow pages that its own slide will free.   *)
PagesMissing_SinkTwice(block, n) ==
  Max({0, PagesFor(block.seq_length + block.sliding_window_offset + n) - Len(block.page_ids)})
PagesMissing(block, n) ==
  Max({0, PagesFor(block.seq_length - block.sink_length + block.sliding_window_offset + n)
            - Len(block.page_ids)})
MayBorrow(c, s) == c.seq_map[s].sliding_window_size # NoWindow.size /\ support_sliding_window
TakePages(c, n) == SubSeq(SetToSeq(c.free_page_ids), 1, n)

Reserved(c, s, n) ==
  LET block   == LastBlock(c, s)
      missing == PagesMissing(block, n)
      taken   == TakePages(c, Min({missing, Cardinality(c.free_page_ids)}))
      lent    == [i \in 1..(missing - Len(taken)) |-> TempPage]
  IN [c EXCEPT !.free_page_ids = @ \ ToSet(taken),
               !.seq_map[s].seq_length = @ + n,
               !.pool[c.seq_map[s].last_block_idx] =
                 [block EXCEPT !.page_ids = block.page_ids \o taken \o lent,
                               !.seq_length = block.seq_length + n]]
ReserveFits(c, s, n) ==
  MayBorrow(c, s) \/ PagesMissing(LastBlock(c, s), n) <= Cardinality(c.free_page_ids)

(* SlideWindowForSequence frees the pages between the sink and the window. *)
LengthToSlide(c, s) ==
  IF MayBorrow(c, s) THEN Max({0, c.seq_map[s].seq_length - c.seq_map[s].sliding_window_size}) ELSE 0
SinkPages_Whole(sink) == sink \div page_size
SinkPages(sink)       == PagesFor(sink)

Slid(c, s) ==
  LET block  == LastBlock(c, s)
      length == LengthToSlide(c, s)
      first  == block.sink_length = 0 /\ c.seq_map[s].last_block_attn_sink_size > 0
      sink   == IF first THEN c.seq_map[s].last_block_attn_sink_size ELSE block.sink_length
      start  == length + IF first THEN sink ELSE block.sliding_window_offset
      sinkPages == SinkPages(sink)
      gone   == Max({0, start \div page_size - sinkPages})
      outside == SubSeq(block.page_ids, sinkPages + 1, sinkPages + gone)
  IN IF length = 0 THEN c ELSE
     [FreePages(c, ToSet(outside) \ {TempPage})
        EXCEPT !.seq_map[s].seq_length = @ - length,
               !.pool[c.seq_map[s].last_block_idx] =
                 [block EXCEPT !.seq_length = block.seq_length - length,
                               !.sink_length = sink,
                               !.sliding_window_offset = start - gone * page_size,
                               !.page_ids = SubSeq(block.page_ids, 1, sinkPages)
                                              \o SubSeq(block.page_ids, sinkPages + gone + 1,
                                                        Len(block.page_ids))]]

(* Pages still borrowed after the slide are allocated.                     *)
Borrowed(block) == {i \in DOMAIN block.page_ids : block.page_ids[i] = TempPage}
Allocated(c, s) ==
  LET block == LastBlock(c, s)
      temp  == Borrowed(block)
      taken == TakePages(c, Cardinality(temp))
      nth(i) == Cardinality({j \in temp : j <= i})
  IN [c EXCEPT !.free_page_ids = @ \ ToSet(taken),
               !.pool[c.seq_map[s].last_block_idx].page_ids =
                 [i \in DOMAIN @ |-> IF i \in temp THEN taken[nth(i)] ELSE @[i]]]

AllocateFits(c, s) == Cardinality(Borrowed(LastBlock(c, s))) <= Cardinality(c.free_page_ids)

(* The ICHECKs of the slide.                                               *)
SlideHolds(c, s) ==
  LET before == LastBlock(c, s)
      block  == LastBlock(Slid(c, s), s)
  IN LengthToSlide(c, s) > 0 =>
     /\ c.seq_map[s].last_block_attn_sink_size > 0 /\ before.sink_length = 0
          => before.sliding_window_offset = 0
     /\ block.sliding_window_offset \div page_size >= SinkPages(block.sink_length) - 1
     /\ block.seq_length >= block.sink_length
     /\ block.sliding_window_offset >= block.sink_length
     /\ Len(block.page_ids) =
          PagesFor(block.sliding_window_offset + block.seq_length - block.sink_length)

(* append_position_map: where the i-th of n appended tokens goes (i from   *)
(* 0), when the block had `before` tokens.  A token that slid out at once  *)
(* goes nowhere.                                                           *)
Nowhere == <<TempPage, 0>>
AppendSlot(block, before, n, i) ==
  IF before + i < block.sink_length THEN Slot(block, before + i)
  ELSE IF block.seq_length - n + i < block.sink_length THEN Nowhere
  ELSE Slot(block, OffsetInBlock(block, block.seq_length - n + i))

(* Store tokens[i] at slots[i].                                            *)
Written(c, slots, tokens) ==
  [c EXCEPT !.kv = [p \in Page |-> [o \in Offset |->
     IF <<p, o>> \in ToSet(slots)
     THEN tokens[Max({i \in DOMAIN slots : slots[i] = <<p, o>>})] ELSE @[p][o]]]]

(* Only whether two tokens are the same matters: the n tokens that go to   *)
(* positions from + 1 ... are each told apart from what the cache holds.   *)
TokensHeld(c) == UNION {Range(c.kv[p]) : p \in Page}
NewTokens(c, from, n) ==
  [i \in 1..n |-> CHOOSE t \in {<<from + i, v>> : v \in 0..Cardinality(TokensHeld(c))} :
                    /\ t \notin TokensHeld(c)
                    /\ \A v \in 0..(t[2] - 1) : <<from + i, v>> \in TokensHeld(c)]

(* One sequence of a BeginForward, with the writes of the attention that   *)
(* follows it.  `import` leaves the writes to DebugSetKV.  A result is a   *)
(* cache, the ICHECK that failed if one did, and the slots of each         *)
(* sequence.                                                               *)
Appended(result, entry, import) ==
  LET c == result.cache
      s == entry.seq
      before == LastBlock(c, s).seq_length
      tokens == IF import THEN [i \in 1..entry.n |-> Junk]
                ELSE NewTokens(c, c.seq_map[s].seq_length, entry.n)
      reserved == Reserved(c, s, entry.n)
      slid     == Slid(reserved, s)
      ready    == Allocated(slid, s)
      slots    == [i \in 1..entry.n |-> AppendSlot(LastBlock(ready, s), before, entry.n, i - 1)]
  IN IF result.threw # "no" THEN result
     ELSE IF ~ReserveFits(c, s, entry.n) THEN [result EXCEPT !.threw = "full"]
     ELSE IF ~SlideHolds(reserved, s) THEN [result EXCEPT !.threw = "slide"]
     ELSE IF ~AllocateFits(slid, s) THEN [result EXCEPT !.threw = "full"]
     ELSE [cache |-> Written(ready, slots, tokens), threw |-> "no",
           slots |-> Append(result.slots, slots)]
Forwarded(c, batch, import) ==
  LET result[i \in 0..Len(batch)] ==
        IF i = 0 THEN [cache |-> c, threw |-> "no", slots |-> <<>>]
        ELSE Appended(result[i - 1], batch[i], import)
  IN result[Len(batch)]

-----------------------------------------------------------------------------
(* Token trees.  Nodes are counted from 0; a parent comes before its       *)
(* children, -1 is the parent of a root.                                   *)

Forests == UNION {{p \in [1..n -> -1..(n - 2)] : \A i \in 1..n : p[i] < i - 1} : n \in 1..MaxAppend}
IsChain(parents) == \A i \in DOMAIN parents : parents[i] = i - 2

PathTo(parents, leaf) ==
  LET path[x \in -1..(Len(parents) - 1)] ==
        IF x = -1 THEN <<>> ELSE Append(path[parents[x + 1]], x)
  IN path[leaf]

(* The tokens of the accepted path move to the front of the round's slots, *)
(* one after the other (those in place already onto themselves), then the  *)
(* others are popped, as many as the sequence at that place of the round   *)
(* appended.  The copy is skipped for chains; the flag tested is the one   *)
(* of the last sequence.                                                   *)
CopyNeeded(r) == ~IsChain(Last(r).parents)

Accepted(entry) == PathTo(entry.parents, entry.leaf)
(* The slots of an entry in the order of the copy: from the root down, so  *)
(* that a token is read before one is written over it.                     *)
Moves_FromLeaf(entry) ==
  LET n == Len(Accepted(entry))
  IN [k \in 1..n |-> [to |-> entry.slots[n + 1 - k], from |-> entry.slots[Accepted(entry)[n + 1 - k] + 1]]]
Moves(entry) ==
  [k \in DOMAIN Accepted(entry) |-> [to |-> entry.slots[k], from |-> entry.slots[Accepted(entry)[k] + 1]]]

Copied(c, move) == Written(c, <<move.to>>, <<c.kv[move.from[1]][move.from[2]]>>)
Compacted(c, r) ==
  LET moves == FlattenSeq([i \in DOMAIN r |-> Moves(r[i])])
      copied[i \in 0..Len(moves)] == IF i = 0 THEN c ELSE Copied(copied[i - 1], moves[i])
  IN copied[Len(moves)]
Committed(c, r) ==
  LET popped[i \in 0..Len(r)] ==
        IF i = 0 THEN IF CopyNeeded(r) THEN Compacted(c, r) ELSE c
        ELSE Popped(popped[i - 1], r[i].seq, Len(r[i].parents) - Len(Accepted(r[i])))
  IN popped[Len(r)]

-----------------------------------------------------------------------------
(* The calls.  A speculative round is committed before anything else is    *)
(* asked of the cache: the engine does both in one action.                 *)

Init ==
  /\ cache = Cleared
  /\ round = <<>>
  /\ threw = "no"

Ready == threw = "no" /\ round = <<>>

(* A call that has no more ICHECK to fail.                                 *)
Returns(c) ==
  /\ cache' = c
  /\ UNCHANGED <<round, threw>>
Throws(check) ==
  /\ threw' = check
  /\ UNCHANGED <<cache, round>>

Clear == Ready /\ SeqIds(cache) # {} /\ Returns(Cleared)

AddSequence(s) ==
  /\ Ready
  /\ s \notin SeqIds(cache)
  /\ Returns(Added(cache, s))

RemoveSequence(s) ==
  /\ Ready
  /\ s \in SeqIds(cache)
  /\ Returns(Removed(cache, s))

ForkSequence(parent, child, pos) ==
  /\ Ready
  /\ parent \in SeqIds(cache) /\ child \notin SeqIds(cache)
  /\ pos <= cache.seq_map[parent].seq_length
  /\ ForkAllowed(cache, parent, pos)
  /\ IF ForkFits(ReadyToFork(cache, parent, pos), pos)
     THEN Returns(Forked(cache, parent, child, pos))
     ELSE Throws("full")

PopN(s, n) ==
  /\ Ready
  /\ s \in SeqIds(cache)
  /\ n <= cache.seq_map[s].seq_length
  /\ IF PopFits(cache, s, n) THEN Returns(Popped(cache, s, n)) ELSE Throws("fork")

EnableSlidingWindowForSeq(s, w) ==
  /\ Ready
  /\ support_sliding_window
  /\ s \in SeqIds(cache)
  /\ cache.seq_map[s].sliding_window_size = NoWindow.size
  /\ LET prefix == cache.seq_map[s].seq_length - LastBlock(cache, s).seq_length IN
     Returns([cache EXCEPT !.seq_map[s].sliding_window_size = w.size,
                           !.seq_map[s].last_block_attn_sink_size = Max({0, w.sink - prefix})])

MayGrow(entry) ==
  \/ MayBorrow(cache, entry.seq)
  \/ cache.seq_map[entry.seq].seq_length + entry.n <= MaxLength

(* BeginForward without a token tree, and the attention after it.          *)
BeginForward(batch) ==
  /\ Ready
  /\ \A i \in DOMAIN batch : MayGrow(batch[i])
  /\ LET result == Forwarded(cache, batch, FALSE) IN
     IF result.threw = "no" THEN Returns(result.cache) ELSE Throws(result.threw)

(* BeginForward with a token tree for each sequence.  Its verification,    *)
(* which is the model's, accepts the path to one leaf or, with -1, nothing. *)
BeginForwardTree(batch, forests, leaves) ==
  /\ Ready
  /\ ~support_sliding_window
  /\ \A i \in DOMAIN batch : MayGrow(batch[i])
  /\ LET result == Forwarded(cache, batch, FALSE) IN
     IF result.threw = "no"
     THEN /\ cache' = result.cache
          /\ round' = [i \in DOMAIN batch |->
                        [seq |-> batch[i].seq, parents |-> forests[i], leaf |-> leaves[i],
                         slots |-> result.slots[i]]]
          /\ UNCHANGED threw
     ELSE Throws(result.threw)

CommitAcceptedTokenTreeNodes ==
  /\ threw = "no"
  /\ round # <<>>
  /\ cache' = Committed(cache, round)
  /\ round' = <<>>
  /\ UNCHANGED threw

(* DisaggPrepareRecv reserves the slots, DebugSetKV fills some of them.    *)
(* The engine reserves for a sequence it has just added; a client fills    *)
(* slots it has reserved, in the sequence's last block.                    *)
DisaggPrepareRecv(s, n) ==
  /\ Ready
  /\ cache.seq_map[s].seq_length = 0
  /\ MayGrow([seq |-> s, n |-> n])
  /\ LET result == Forwarded(cache, <<[seq |-> s, n |-> n]>>, TRUE) IN
     IF result.threw = "no" THEN Returns(result.cache) ELSE Throws(result.threw)

DebugSetKV(s, start, n) ==
  LET block  == LastBlock(cache, s)
      prefix == cache.seq_map[s].seq_length - block.seq_length
      slots  == [i \in 1..n |-> Slot(block, OffsetInBlock(block, start - prefix + i - 1))]
  IN /\ Ready
     /\ prefix <= start /\ start + n <= cache.seq_map[s].seq_length
     /\ \A i \in 1..n : Contents(cache, s)[start + i] = Junk
     /\ Returns(Written(cache, slots, NewTokens(cache, start, n)))

(* The batches of one round.                                               *)
Batches ==
  UNION {{[i \in 1..k |-> [seq |-> q[i], n |-> n[i]]] : q \in Injection(1..k, SeqIds(cache)),
                                                       n \in [1..k -> 1..MaxAppend]} :
         k \in 1..MaxBatch}

Sequences == \E s \in SeqId :
  \/ AddSequence(s)
  \/ RemoveSequence(s)
Rounds ==
  \/ \E batch \in Batches : BeginForward(batch)
  \/ \E s \in SeqIds(cache), n \in 1..MaxAppend :
       \/ DisaggPrepareRecv(s, n)
       \/ \E start \in 0..MaxLength : DebugSetKV(s, start, n)
Forks == \E s \in SeqIds(cache) :
  \/ \E child \in SeqId, pos \in 0..MaxLength : ForkSequence(s, child, pos)
Pops == \E s \in SeqIds(cache), n \in 1..MaxLength : PopN(s, n)
Trees ==
  \/ \E batch \in Batches : \E forests \in [DOMAIN batch -> Forests] :
       \E leaves \in [DOMAIN batch -> -1..(MaxAppend - 1)] :
         /\ \A i \in DOMAIN batch : Len(forests[i]) = batch[i].n /\ leaves[i] < batch[i].n
         /\ BeginForwardTree(batch, forests, leaves)
  \/ CommitAcceptedTokenTreeNodes
Enables == \E s \in SeqIds(cache), w \in Windows : EnableSlidingWindowForSeq(s, w)

Next == Clear \/ Sequences \/ Rounds \/ Forks \/ Pops \/ Trees \/ Enables

Spec == Init /\ [][Next]_vars

-----------------------------------------------------------------------------
(* Properties.                                                             *)

Used(c)        == Block \ c.free_block_idx
Children(c, b) == {x \in Used(c) : c.pool[x].parent_idx = b}
Owners(c, b)   == {s \in SeqIds(c) : c.seq_map[s].last_block_idx = b}

(* A page is free or belongs to one place of one block, never both and     *)
(* never none: nothing leaks and nothing is handed out twice, across       *)
(* forks, pops, slides and removals.                                       *)
PagePartition ==
  \A p \in Page :
    LET uses == {u \in UNION {{b} \X DOMAIN cache.pool[b].page_ids : b \in Used(cache)} :
                   cache.pool[u[1]].page_ids[u[2]] = p}
    IN Cardinality(uses) = IF p \in cache.free_page_ids THEN 0 ELSE 1

(* external_ref_cnt counts the child blocks and the sequences that end in  *)
(* the block, and a block nobody refers to is free: RemoveSequence and     *)
(* PopN decide by it what to free.                                         *)
RefCounts ==
  \A b \in Used(cache) :
    /\ cache.pool[b].external_ref_cnt = Cardinality(Children(cache, b)) + Cardinality(Owners(cache, b))
    /\ cache.pool[b].external_ref_cnt > 0
    /\ cache.pool[b].parent_idx \in Used(cache) \cup {NoBlock}

(* The block a sequence appends to is its own (ICHECK in                   *)
(* ReserveAppendLengthInSeq), so no append is seen by another sequence.    *)
LastBlockPrivate ==
  \A s \in SeqIds(cache) : Children(cache, cache.seq_map[s].last_block_idx) = {}
                           /\ Owners(cache, cache.seq_map[s].last_block_idx) = {s}

(* Blocks with a child hold whole pages and are not empty (ICHECKs in      *)
(* ForkSequence), or positions behind them would not be page-aligned.      *)
InnerBlocksFull ==
  \A b \in Used(cache) : Children(cache, b) # {} =>
    cache.pool[b].seq_length > 0 /\ cache.pool[b].seq_length % page_size = 0

(* A block has exactly the pages its sink and window reach into (ICHECK at *)
(* the end of SlideWindowForSequence), and none of them is borrowed.       *)
PagesCover ==
  \A b \in Used(cache) : LET block == cache.pool[b] IN
    /\ Len(block.page_ids) =
         PagesFor(block.seq_length - block.sink_length + block.sliding_window_offset)
    /\ TempPage \notin Range(block.page_ids)

(* The length of a sequence is that of its blocks, and a block starts      *)
(* where the ones before it end.                                           *)
LengthsAgree ==
  \A s \in SeqIds(cache) :
    LET trace == Trace(cache, s) IN
    /\ cache.seq_map[s].seq_length = TokensIn(cache, trace)
    /\ \A i \in DOMAIN trace :
         cache.pool[trace[i]].start_pos = TokensIn(cache, SubSeq(trace, 1, i - 1))

(* The ICHECKs of SlideWindowForSequence hold at every slide, whatever was *)
(* appended, forked and popped before, for callers that leave sequences    *)
(* with a window in order (MCWindowSpec): the sink stays whole, the window *)
(* starts behind it and the block has just the pages they reach into.      *)
SlideChecks == threw # "slide"

(* A cache without sequences has all its pages and blocks back (Empty).    *)
EmptyAgain == SeqIds(cache) = {} => cache.free_page_ids = Page /\ cache.free_block_idx = Block
=============================================================================

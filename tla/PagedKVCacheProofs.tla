-------------------------- MODULE PagedKVCacheProofs ---------------------------
(***************************************************************************)
(* The page and block structure of the cache stays whole, for every number *)
(* of sequences, pages and blocks and every page size, as long as no       *)
(* sequence has a sliding window.                                          *)
(*                                                                         *)
(* What holds of the blocks, their pages and the references to them is     *)
(* stated of a cache and not of the variable, since an operation goes      *)
(* through caches that no call returns.  The chain of a sequence is never  *)
(* spoken of: a block knows its parent and where it starts, and start_pos  *)
(* grows along every chain, which makes it the rank of the inductions.     *)
(***************************************************************************)
EXTENDS PagedKVCache, QueueLemmas, FiniteSetTheorems, TLAPS

BlockType ==
  [page_ids : Seq(Page), start_pos : Nat, seq_length : Nat, parent_idx : Block \cup {NoBlock},
   external_ref_cnt : Nat, sink_length : {0}, sliding_window_offset : {0}]
SequenceType ==
  [last_block_idx : Block, seq_length : Nat, sliding_window_size : {NoWindow.size},
   last_block_attn_sink_size : {0}]

(* The members of a cache without windows.  A free block is blank.         *)
Typed(c) ==
  /\ c = [free_page_ids |-> c.free_page_ids, free_block_idx |-> c.free_block_idx,
          pool |-> c.pool, seq_map |-> c.seq_map, kv |-> c.kv]
  /\ c.free_page_ids \subseteq Page
  /\ c.free_block_idx \subseteq Block
  /\ c.pool \in [Block -> BlockType]
  /\ \A b \in c.free_block_idx : c.pool[b] = EmptyBlock
  /\ SeqIds(c) \subseteq SeqId \cup {TempSeq}
  /\ c.seq_map \in [SeqIds(c) -> SequenceType]

(* A block starts where its parent, which holds whole pages, ends.         *)
Hangs(c, b) ==
  LET block == c.pool[b]
      above == c.pool[block.parent_idx]
  IN /\ block.start_pos % page_size = 0
     /\ block.parent_idx \in Used(c) \cup {NoBlock}
     /\ block.parent_idx = NoBlock => block.start_pos = 0
     /\ block.parent_idx # NoBlock =>
          /\ above.seq_length > 0
          /\ above.seq_length % page_size = 0
          /\ block.start_pos = above.start_pos + above.seq_length
Chained(c) == \A b \in Used(c) : Hangs(c, b)

(* The pages of the used blocks are those that are not free, each once.    *)
HasPages(c, b) == Len(c.pool[b].page_ids) = PagesFor(c.pool[b].seq_length)
Taken(c) == \A b \in Used(c) : \A i \in DOMAIN c.pool[b].page_ids : c.pool[b].page_ids[i] \notin c.free_page_ids
Apart(c) ==
  \A a, b \in Used(c) : \A i \in DOMAIN c.pool[a].page_ids, j \in DOMAIN c.pool[b].page_ids :
    c.pool[a].page_ids[i] = c.pool[b].page_ids[j] => a = b /\ i = j
Listed(c) ==
  \A p \in Page \ c.free_page_ids :
    \E b \in Used(c) : \E i \in DOMAIN c.pool[b].page_ids : c.pool[b].page_ids[i] = p
Paged(c) == (\A b \in Used(c) : HasPages(c, b)) /\ Taken(c) /\ Apart(c) /\ Listed(c)

Counts(c, b) ==
  /\ c.pool[b].external_ref_cnt = Cardinality(Children(c, b)) + Cardinality(Owners(c, b))
  /\ c.pool[b].external_ref_cnt > 0
Counted(c) == \A b \in Used(c) : Counts(c, b)

Ends(c, s) ==
  LET block == LastBlock(c, s) IN
  /\ c.seq_map[s].last_block_idx \in Used(c)
  /\ c.seq_map[s].seq_length = block.start_pos + block.seq_length
Ended(c) == \A s \in SeqIds(c) : Ends(c, s)

(* The last block of every sequence is its own, but for those in X.        *)
Alone(c, s) ==
  /\ Children(c, c.seq_map[s].last_block_idx) = {}
  /\ Owners(c, c.seq_map[s].last_block_idx) = {s}
Private(c, X) == \A s \in SeqIds(c) \ X : Alone(c, s)

Structured(c) == Typed(c) /\ Chained(c) /\ Paged(c)
Linked(c, X)  == Counted(c) /\ Ended(c) /\ Private(c, X)
Whole(c, X)   == Structured(c) /\ Linked(c, X)

(* While a commit is due: the round's sequences, and room for what their   *)
(* trees may lose.                                                         *)
Due(c, entry) ==
  /\ entry.seq \in SeqIds(c)
  /\ entry.parents \in Forests
  /\ entry.leaf \in -1..(Len(entry.parents) - 1)
  /\ Len(entry.parents) <= LastBlock(c, entry.seq).seq_length
RoundDue(c, r) ==
  /\ Len(r) \in Nat /\ DOMAIN r = 1..Len(r)
  /\ \A i \in DOMAIN r : Due(c, r[i])
  /\ \A i, j \in DOMAIN r : r[i].seq = r[j].seq => i = j

(* The inductive invariant.                                                *)
StructureInvariant ==
  /\ Whole(cache, {})
  /\ SeqIds(cache) \subseteq SeqId
  /\ RoundDue(cache, round)

-----------------------------------------------------------------------------
(* Pages and whole pages.                                                  *)

(* Multiples of p are p apart.                                             *)
LEMMA TimesOrder ==
  ASSUME NEW p \in Nat, NEW u \in Nat, NEW v \in Nat, v < u
  PROVE  p * v \in Nat /\ p * u \in Nat /\ p * v + p <= p * u
<1>1. PICK d \in Nat : u = v + 1 + d
  <2>1. u - v - 1 \in Nat /\ u = v + 1 + (u - v - 1)
    OBVIOUS
  <2> QED BY <2>1
<1>2. p * u = p * v + p + p * d
  BY <1>1
<1>3. p * v \in Nat /\ p * d \in Nat /\ p * u \in Nat
  <2>1. \A i \in Nat : p * i \in Nat
    OBVIOUS
  <2> QED BY <2>1
<1> QED BY <1>2, <1>3

(* Quotient and remainder.                                                 *)
LEMMA Division ==
  ASSUME NEW n \in Nat
  PROVE  /\ n \div page_size \in Nat
         /\ n % page_size \in 0..(page_size - 1)
         /\ page_size * (n \div page_size) \in Nat
         /\ n = page_size * (n \div page_size) + (n % page_size)
<1> DEFINE p == page_size
           q == n \div p
           r == n % p
<1>1. p \in Nat /\ p > 0
  BY SizeAssumption
<1> HIDE DEF p
<1>2. q \in Nat /\ r \in 0..(p - 1) /\ n = p * q + r
  BY <1>1
<1> HIDE DEF q, r
<1>3. p * q \in Nat
  BY <1>1, <1>2
<1> QED BY <1>2, <1>3 DEF p, q, r

(* A length is in whole pages when it is a multiple of the page size.      *)
LEMMA WholePages ==
  ASSUME NEW n \in Nat
  PROVE  n % page_size = 0 <=> \E k \in Nat : n = page_size * k
<1> DEFINE p == page_size
           q == n \div p
           r == n % p
<1>1. p \in Nat /\ p > 0
  BY SizeAssumption
<1>2. q \in Nat /\ r \in 0..(p - 1) /\ p * q \in Nat /\ n = p * q + r
  BY Division
<1> HIDE DEF p, q, r
<1>3. r = 0 => \E k \in Nat : n = p * k
  BY <1>2
<1>4. ASSUME NEW k \in Nat, n = p * k PROVE r = 0
  <2>1. p * k \in Nat
    BY <1>4
  <2>2. ~ (q < k)
    <3>1. q < k => p * q + p <= p * k
      BY <1>1, <1>2, TimesOrder
    <3> QED BY <1>1, <1>2, <1>4, <2>1, <3>1
  <2>3. ~ (k < q)
    <3>1. k < q => p * k + p <= p * q
      BY <1>1, <1>2, TimesOrder
    <3> QED BY <1>1, <1>2, <1>4, <2>1, <3>1
  <2>4. k = q
    BY <1>2, <2>2, <2>3
  <2> QED BY <1>2, <1>4, <2>1, <2>4
<1> QED BY <1>3, <1>4 DEF p, r

(* Whole pages and whole pages are whole pages.                            *)
LEMMA WholePlus ==
  ASSUME NEW a \in Nat, NEW b \in Nat, a % page_size = 0, b % page_size = 0
  PROVE  (a + b) % page_size = 0
<1>1. PICK i \in Nat : a = page_size * i
  BY WholePages
<1>2. PICK j \in Nat : b = page_size * j
  BY WholePages
<1>3. page_size \in Nat
  BY SizeAssumption
<1>4. a + b = page_size * (i + j) /\ i + j \in Nat
  BY <1>1, <1>2, <1>3
<1>5. a + b \in Nat
  OBVIOUS
<1> QED BY <1>4, <1>5, WholePages

(* Whole pages less whole pages are whole pages.                           *)
LEMMA WholeMinus ==
  ASSUME NEW a \in Nat, NEW b \in Nat, b <= a, a % page_size = 0, b % page_size = 0
  PROVE  (a - b) % page_size = 0
<1> DEFINE p == page_size
           r == (a - b) % p
           q == (a - b) \div p
<1>1. p \in Nat /\ p > 0
  BY SizeAssumption
<1>2. a - b \in Nat
  OBVIOUS
<1>3. q \in Nat /\ r \in 0..(p - 1) /\ p * q \in Nat /\ a - b = p * q + r
  BY <1>2, Division
<1>4. PICK j \in Nat : b = p * j
  BY WholePages
<1>5. PICK i \in Nat : a = p * i
  BY WholePages
<1> HIDE DEF p, q, r
<1>6. /\ p * j \in Nat /\ p * i \in Nat /\ q + j \in Nat /\ p * (q + j) \in Nat
      /\ p * (q + j) = p * q + p * j
  <2>1. \A u \in Nat : p * u \in Nat
    BY <1>1
  <2>2. p * (q + j) = p * q + p * j
    BY <1>1, <1>3
  <2> QED BY <1>3, <2>1, <2>2
<1>7. ~ (i < q + j)
  <2>1. i < q + j => p * i + p <= p * (q + j)
    BY <1>1, <1>6, TimesOrder
  <2> QED BY <1>1, <1>3, <1>4, <1>5, <1>6, <2>1
<1>8. ~ (q + j < i)
  <2>1. q + j < i => p * (q + j) + p <= p * i
    BY <1>1, <1>6, TimesOrder
  <2> QED BY <1>1, <1>3, <1>4, <1>5, <1>6, <2>1
<1>9. i = q + j
  BY <1>3, <1>6, <1>7, <1>8
<1>10. r = 0
  BY <1>3, <1>4, <1>5, <1>6, <1>9
<1> QED BY <1>10 DEF r, p

(* PagesFor(n) pages hold n tokens and one page less does not.             *)
LEMMA PagesForFacts ==
  ASSUME NEW n \in Nat
  PROVE  /\ PagesFor(n) \in Nat
         /\ page_size * PagesFor(n) \in Nat
         /\ n <= page_size * PagesFor(n)
         /\ page_size * PagesFor(n) < n + page_size
<1> DEFINE p == page_size
           x == n + p - 1
           q == x \div p
           r == x % p
<1>1. p \in Nat /\ p > 0 /\ x \in Nat
  BY SizeAssumption
<1>2. q \in Nat /\ r \in 0..(p - 1) /\ p * q \in Nat /\ x = p * q + r
  BY <1>1, Division
<1>3. PagesFor(n) = q
  BY DEF PagesFor
<1>4. x = n + p - 1
  OBVIOUS
<1> HIDE DEF q, x, p, r
<1>5. n <= p * q /\ p * q < n + p
  BY <1>1, <1>2, <1>4
<1> QED BY <1>2, <1>3, <1>5 DEF p

(* PagesFor(n) is the only such number of pages.                           *)
LEMMA PagesForIs ==
  ASSUME NEW n \in Nat, NEW k \in Nat, n <= page_size * k, page_size * k < n + page_size
  PROVE  PagesFor(n) = k
<1> DEFINE p == page_size
           q == PagesFor(n)
<1>1. p \in Nat /\ p > 0
  BY SizeAssumption
<1>2. q \in Nat /\ p * q \in Nat /\ n <= p * q /\ p * q < n + p
  BY PagesForFacts
<1> HIDE DEF q, p
<1>3. p * k \in Nat /\ n <= p * k /\ p * k < n + p
  BY <1>1 DEF p
<1>4. ~ (q < k)
  <2>1. q < k => p * q + p <= p * k
    BY <1>1, <1>2, TimesOrder
  <2> QED BY <1>1, <1>2, <1>3, <2>1
<1>5. ~ (k < q)
  <2>1. k < q => p * k + p <= p * q
    BY <1>1, <1>2, TimesOrder
  <2> QED BY <1>1, <1>2, <1>3, <2>1
<1> QED BY <1>2, <1>4, <1>5 DEF q

(* More tokens need no fewer pages.                                        *)
LEMMA PagesForOrder ==
  ASSUME NEW a \in Nat, NEW b \in Nat, a <= b
  PROVE  /\ PagesFor(a) \in Nat /\ PagesFor(b) \in Nat
         /\ PagesFor(a) <= PagesFor(b)
<1> DEFINE p == page_size
           x == PagesFor(a)
           y == PagesFor(b)
<1>1. p \in Nat /\ p > 0
  BY SizeAssumption
<1>2. /\ x \in Nat /\ p * x \in Nat /\ p * x < a + p
      /\ y \in Nat /\ p * y \in Nat /\ b <= p * y
  BY PagesForFacts
<1> HIDE DEF p, x, y
<1>3. ~ (y < x)
  <2>1. y < x => p * y + p <= p * x
    BY <1>1, <1>2, TimesOrder
  <2> QED BY <1>1, <1>2, <2>1
<1>4. x <= y
  BY <1>2, <1>3
<1> QED BY <1>2, <1>4 DEF x, y

(* No tokens need no page, and a token needs one.                          *)
LEMMA PagesForZero == PagesFor(0) = 0 /\ \A n \in Nat : n > 0 => PagesFor(n) > 0
<1>1. page_size \in Nat /\ page_size > 0 /\ page_size * 0 = 0
  BY SizeAssumption
<1>2. PagesFor(0) = 0
  BY <1>1, PagesForIs
<1>3. ASSUME NEW n \in Nat, n > 0 PROVE PagesFor(n) > 0
  <2>1. PagesFor(n) \in Nat /\ n <= page_size * PagesFor(n)
    BY PagesForFacts
  <2>2. PagesFor(n) # 0
    BY <1>1, <1>3, <2>1
  <2> QED BY <2>1, <2>2
<1> QED BY <1>2, <1>3

(* Whole pages taken from the front of n tokens.                           *)
LEMMA PagesForRest ==
  ASSUME NEW n \in Nat, NEW k \in Nat, page_size * k < n
  PROVE  /\ page_size * k \in Nat /\ n - page_size * k \in Nat
         /\ (page_size * k) % page_size = 0
         /\ PagesFor(page_size * k) = k
         /\ k < PagesFor(n)
         /\ PagesFor(n - page_size * k) = PagesFor(n) - k
<1> DEFINE p == page_size
           x == p * k
           q == PagesFor(n)
           rest == q - k
<1>1. p \in Nat /\ p > 0
  BY SizeAssumption
<1>2. q \in Nat /\ p * q \in Nat /\ n <= p * q /\ p * q < n + p
  BY PagesForFacts
<1>3. x \in Nat /\ x < n /\ x < x + p
  <2>1. \A i \in Nat : p * i \in Nat
    BY <1>1
  <2>2. x \in Nat
    BY <2>1
  <2> QED BY <1>1, <2>2
<1>4. x % p = 0
  BY <1>3, WholePages
<1>5. PagesFor(x) = k
  BY <1>1, <1>3, PagesForIs
<1> HIDE DEF p, q
<1>6. k < q
  <2>1. q < k => p * q + p <= p * k
    BY <1>1, <1>2, TimesOrder
  <2>2. q # k
    BY <1>2, <1>3
  <2>3. ~ (q < k)
    <3> HIDE DEF x
    <3> QED BY <1>1, <1>2, <1>3, <2>1 DEF x
  <2> QED BY <1>2, <2>2, <2>3
<1>7. rest \in Nat /\ p * rest = p * q - p * k
  BY <1>1, <1>2, <1>6
<1> HIDE DEF rest
<1>8. n - x \in Nat /\ n - x <= p * rest /\ p * rest < (n - x) + p
  <2>1. p * rest = p * q - x
    BY <1>7
  <2> HIDE DEF x
  <2> QED BY <1>1, <1>2, <1>3, <2>1
<1>9. PagesFor(n - x) = rest
  BY <1>7, <1>8, PagesForIs DEF p
<1> QED BY <1>3, <1>4, <1>5, <1>6, <1>8, <1>9 DEF p, q, rest

-----------------------------------------------------------------------------
(* Chains.                                                                 *)

(* The members of a block, and a free block is blank.                      *)
LEMMA BlockFields ==
  ASSUME NEW c, Typed(c), NEW b \in Block
  PROVE  /\ b \in Nat /\ b # NoBlock
         /\ c.pool[b] \in BlockType
         /\ c.pool[b].page_ids \in Seq(Page)
         /\ c.pool[b].start_pos \in Nat
         /\ c.pool[b].seq_length \in Nat
         /\ c.pool[b].parent_idx \in Block \cup {NoBlock}
         /\ c.pool[b].external_ref_cnt \in Nat
         /\ c.pool[b].sink_length = 0
         /\ c.pool[b].sliding_window_offset = 0
         /\ b \notin Used(c) => c.pool[b] = EmptyBlock
<1>1. b \in Nat /\ b # NoBlock
  BY PoolAssumption DEF NoBlock
<1>2. c.pool[b] \in BlockType
  BY DEF Typed
<1>3. b \notin Used(c) => c.pool[b] = EmptyBlock
  BY DEF Typed, Used
<1> QED BY <1>1, <1>2, <1>3 DEF BlockType

(* The members of a sequence's entry.                                      *)
LEMMA SequenceFields ==
  ASSUME NEW c, Typed(c), NEW s \in SeqIds(c)
  PROVE  /\ c.seq_map[s] \in SequenceType
         /\ c.seq_map[s].last_block_idx \in Block
         /\ c.seq_map[s].seq_length \in Nat
         /\ c.seq_map[s].sliding_window_size = NoWindow.size
         /\ c.seq_map[s].last_block_attn_sink_size = 0
BY DEF Typed, SequenceType

(* A parent starts before its child.                                       *)
LEMMA ParentFirst ==
  ASSUME NEW c, Typed(c), Chained(c), NEW b \in Block, c.pool[b].parent_idx # NoBlock
  PROVE  LET a == c.pool[b].parent_idx IN
         /\ b \in Used(c) /\ a \in Used(c) /\ a \in Block
         /\ c.pool[a].seq_length > 0
         /\ c.pool[a].seq_length % page_size = 0
         /\ c.pool[b].start_pos = c.pool[a].start_pos + c.pool[a].seq_length
         /\ c.pool[a].start_pos < c.pool[b].start_pos
<1> DEFINE a == c.pool[b].parent_idx
<1>1. b \in Used(c)
  <2>1. EmptyBlock.parent_idx = NoBlock
    BY DEF EmptyBlock
  <2> QED BY <2>1, BlockFields
<1>2. Hangs(c, b)
  BY <1>1 DEF Chained
<1>3. /\ a \in Used(c) /\ c.pool[a].seq_length > 0
      /\ c.pool[a].seq_length % page_size = 0
      /\ c.pool[b].start_pos = c.pool[a].start_pos + c.pool[a].seq_length
  BY <1>2 DEF Hangs
<1>4. a \in Block
  BY <1>3 DEF Used
<1>5. /\ c.pool[a].start_pos \in Nat /\ c.pool[a].seq_length \in Nat
      /\ c.pool[b].start_pos \in Nat
  BY <1>4, BlockFields
<1> HIDE DEF a
<1>6. c.pool[a].start_pos < c.pool[b].start_pos
  BY <1>3, <1>5
<1> QED BY <1>1, <1>3, <1>4, <1>6 DEF a

IsTrace(c, t, b) ==
  /\ t \in Seq(Block) /\ Len(t) > 0 /\ t[Len(t)] = b
  /\ c.pool[t[1]].parent_idx = NoBlock
  /\ \A i \in 2..Len(t) : c.pool[t[i]].parent_idx = t[i - 1]

(* A trace with the block below added to it.                               *)
LEMMA TraceAppend ==
  ASSUME NEW c, NEW b \in Block, NEW a \in Block, c.pool[b].parent_idx = a, NEW t, IsTrace(c, t, a)
  PROVE  IsTrace(c, Append(t, b), b)
<1> DEFINE u == Append(t, b)
           l == Len(t)
<1>1. /\ t \in Seq(Block) /\ l \in Nat /\ l > 0 /\ t[l] = a
      /\ c.pool[t[1]].parent_idx = NoBlock
      /\ \A i \in 2..l : c.pool[t[i]].parent_idx = t[i - 1]
  BY DEF IsTrace
<1>2. /\ u \in Seq(Block) /\ Len(u) = l + 1 /\ u[l + 1] = b
      /\ \A i \in 1..l : u[i] = t[i]
  BY <1>1
<1> HIDE DEF u, l
<1>3. u[1] = t[1]
  BY <1>1, <1>2
<1>4. ASSUME NEW i \in 2..(l + 1) PROVE c.pool[u[i]].parent_idx = u[i - 1]
  <2>1. CASE i \in 2..l
    <3>1. u[i] = t[i] /\ u[i - 1] = t[i - 1]
      BY <1>2, <2>1, <1>1
    <3> QED BY <1>1, <2>1, <3>1
  <2>2. CASE i = l + 1
    <3>1. u[i] = b /\ u[i - 1] = t[l]
      BY <1>1, <1>2, <2>2
    <3> QED BY <1>1, <3>1
  <2> QED BY <1>1, <2>1, <2>2
<1> QED BY <1>1, <1>2, <1>3, <1>4 DEF IsTrace, u

(* From every block the parents lead to a root, by induction on start_pos. *)
LEMMA TraceExists ==
  ASSUME NEW c, Typed(c), Chained(c), NEW b \in Block
  PROVE  \E t : IsTrace(c, t, b)
<1> DEFINE T == {n \in Nat : \E x \in Block : c.pool[x].start_pos = n /\ ~ \E t : IsTrace(c, t, x)}
<1> SUFFICES ASSUME ~ \E t : IsTrace(c, t, b) PROVE FALSE
  OBVIOUS
<1>1. c.pool[b].start_pos \in T
  <2>1. c.pool[b].start_pos \in Nat
    BY BlockFields
  <2> QED BY <2>1
<1>2. PICK n \in T : \A k \in T : n <= k
  BY <1>1, LeastNatural
<1>3. PICK x \in Block : c.pool[x].start_pos = n /\ ~ \E t : IsTrace(c, t, x)
  BY <1>2
<1> DEFINE a == c.pool[x].parent_idx
<1>4. CASE a = NoBlock
  <2>1. <<x>> \in Seq(Block) /\ Len(<<x>>) = 1 /\ <<x>>[1] = x
    OBVIOUS
  <2>2. IsTrace(c, <<x>>, x)
    BY <1>4, <2>1 DEF IsTrace
  <2> QED BY <1>3, <2>2
<1>5. CASE a # NoBlock
  <2>1. a \in Block /\ c.pool[a].start_pos < c.pool[x].start_pos
    BY <1>5, ParentFirst
  <2>2. c.pool[a].start_pos \in Nat /\ c.pool[x].start_pos \in Nat
    BY <2>1, BlockFields
  <2>3. c.pool[a].start_pos \notin T
    BY <1>2, <1>3, <2>1, <2>2
  <2>4. PICK t : IsTrace(c, t, a)
    BY <2>1, <2>2, <2>3
  <2>5. IsTrace(c, Append(t, x), x)
    BY <2>1, <2>4, TraceAppend
  <2> QED BY <1>3, <2>5
<1> QED BY <1>4, <1>5

(* What is left of a trace without its last block.                         *)
LEMMA TraceFront ==
  ASSUME NEW c, NEW b \in Block, NEW t, IsTrace(c, t, b), b # NoBlock,
         \A i \in 1..Len(t) : t[i] # NoBlock
  PROVE  /\ c.pool[b].parent_idx = NoBlock => t = <<b>>
         /\ c.pool[b].parent_idx # NoBlock =>
              \E u : IsTrace(c, u, c.pool[b].parent_idx) /\ t = Append(u, b)
<1> DEFINE l == Len(t)
           a == c.pool[b].parent_idx
<1>1. /\ t \in Seq(Block) /\ l = Len(t) /\ l \in Nat /\ l > 0 /\ t[l] = b
      /\ c.pool[t[1]].parent_idx = NoBlock
      /\ \A i \in 2..l : c.pool[t[i]].parent_idx = t[i - 1]
  BY DEF IsTrace
<1> HIDE DEF l
<1>2. CASE l = 1
  <2>1. t = <<b>>
    <3>1. <<b>> \in Seq(Block) /\ Len(<<b>>) = 1 /\ <<b>>[1] = b
      OBVIOUS
    <3>2. \A i \in 1..Len(t) : t[i] = <<b>>[i]
      BY <1>1, <1>2, <3>1
    <3>3. Len(t) = Len(<<b>>)
      BY <1>1, <1>2, <3>1
    <3> QED BY <1>1, <3>1, <3>2, <3>3, SeqEqual
  <2>2. a = NoBlock
    BY <1>1, <1>2
  <2> QED BY <2>1, <2>2
<1>3. CASE l # 1
  <2>1. l \in 2..l /\ l - 1 \in 1..l
    BY <1>1, <1>3
  <2>2. a = t[l - 1]
    BY <1>1, <2>1
  <2>3. a # NoBlock
    <3>1. l - 1 \in 1..Len(t)
      BY <1>1, <2>1
    <3> QED BY <2>2, <3>1
  <2> DEFINE u == SubSeq(t, 1, l - 1)
  <2>4. /\ u \in Seq(Block) /\ Len(u) = l - 1 /\ \A i \in 1..(l - 1) : u[i] = t[i]
    BY <1>1, <1>3
  <2>5. t = Append(u, b)
    <3>1. /\ Append(u, b) \in Seq(Block) /\ Len(Append(u, b)) = l
          /\ Append(u, b)[l] = b
          /\ \A i \in 1..(l - 1) : Append(u, b)[i] = t[i]
      BY <1>1, <2>4
    <3> HIDE DEF u
    <3>2. \A i \in 1..l : Append(u, b)[i] = t[i]
      <4> SUFFICES ASSUME NEW i \in 1..l PROVE Append(u, b)[i] = t[i]
        OBVIOUS
      <4>1. i \in 1..(l - 1) \/ i = l
        BY <1>1
      <4> QED BY <1>1, <3>1, <4>1
    <3> QED BY <1>1, <3>1, <3>2, SeqEqual DEF l
  <2>6. IsTrace(c, u, a)
    <3> HIDE DEF u, a
    <3>1. u[Len(u)] = a /\ u[1] = t[1]
      BY <1>1, <1>3, <2>1, <2>2, <2>4
    <3>2. ASSUME NEW i \in 2..Len(u) PROVE c.pool[u[i]].parent_idx = u[i - 1]
      <4>1. i \in 2..l /\ u[i] = t[i] /\ u[i - 1] = t[i - 1]
        BY <1>1, <1>3, <2>4
      <4> QED BY <1>1, <4>1
    <3>3. Len(u) > 0
      BY <1>1, <1>3, <2>4
    <3>4. c.pool[u[1]].parent_idx = NoBlock
      BY <1>1, <3>1
    <3> QED BY <2>4, <3>1, <3>2, <3>3, <3>4 DEF IsTrace
  <2> QED BY <2>3, <2>5, <2>6
<1> QED BY <1>2, <1>3

(* There is one such chain.                                                *)
LEMMA TraceUnique ==
  ASSUME NEW c, Typed(c), Chained(c), NEW b \in Block,
         NEW t, NEW u, IsTrace(c, t, b), IsTrace(c, u, b)
  PROVE  t = u
<1> DEFINE T == {n \in Nat : \E x \in Block :
                   c.pool[x].start_pos = n /\ \E v, w : IsTrace(c, v, x) /\ IsTrace(c, w, x) /\ v # w}
<1> SUFFICES ASSUME t # u PROVE FALSE
  OBVIOUS
<1>1. c.pool[b].start_pos \in T
  <2>1. c.pool[b].start_pos \in Nat
    BY BlockFields
  <2> QED BY <2>1
<1>2. PICK n \in T : \A k \in T : n <= k
  BY <1>1, LeastNatural
<1>3. PICK x \in Block : c.pool[x].start_pos = n /\ \E v, w : IsTrace(c, v, x) /\ IsTrace(c, w, x) /\ v # w
  BY <1>2
<1>4. PICK v, w : IsTrace(c, v, x) /\ IsTrace(c, w, x) /\ v # w
  BY <1>3
<1> DEFINE a == c.pool[x].parent_idx
<1>5. \A y \in Block : y # NoBlock
  BY BlockFields
<1>6. /\ \A i \in 1..Len(v) : v[i] # NoBlock
      /\ \A i \in 1..Len(w) : w[i] # NoBlock
  BY <1>4, <1>5 DEF IsTrace
<1>7. /\ a = NoBlock => v = <<x>> /\ w = <<x>>
      /\ a # NoBlock => /\ \E f : IsTrace(c, f, a) /\ v = Append(f, x)
                        /\ \E f : IsTrace(c, f, a) /\ w = Append(f, x)
  BY <1>4, <1>5, <1>6, TraceFront
<1>8. a # NoBlock
  BY <1>4, <1>7
<1>9. PICK f : IsTrace(c, f, a) /\ v = Append(f, x)
  BY <1>7, <1>8
<1>10. PICK g : IsTrace(c, g, a) /\ w = Append(g, x)
  BY <1>7, <1>8
<1>11. a \in Block /\ c.pool[a].start_pos < c.pool[x].start_pos
  BY <1>8, ParentFirst
<1>12. c.pool[a].start_pos \in Nat /\ c.pool[x].start_pos \in Nat
  BY <1>11, BlockFields
<1>13. f # g
  BY <1>4, <1>9, <1>10
<1>14. c.pool[a].start_pos \in T
  BY <1>9, <1>10, <1>11, <1>12, <1>13
<1> QED BY <1>2, <1>3, <1>11, <1>12, <1>14

(* So GetBlockTrace, a choice, is that chain.                              *)
LEMMA TraceIs ==
  ASSUME NEW c, Typed(c), Chained(c), NEW b \in Block
  PROVE  IsTrace(c, GetBlockTrace(c, b), b)
<1> DEFINE Sol(f) == f = [x \in Block |-> IF c.pool[x].parent_idx = NoBlock THEN <<x>>
                                          ELSE Append(f[c.pool[x].parent_idx], x)]
           h == [x \in Block |-> CHOOSE t : IsTrace(c, t, x)]
           g == CHOOSE f : Sol(f)
<1>1. \A x \in Block : IsTrace(c, h[x], x)
  BY TraceExists
<1>2. \A x \in Block : x # NoBlock
  BY BlockFields
<1>3. ASSUME NEW x \in Block
      PROVE  h[x] = IF c.pool[x].parent_idx = NoBlock THEN <<x>>
                    ELSE Append(h[c.pool[x].parent_idx], x)
  <2> DEFINE a == c.pool[x].parent_idx
  <2>1. IsTrace(c, h[x], x)
    BY <1>1, Zenon
  <2>2. \A i \in 1..Len(h[x]) : h[x][i] # NoBlock
    BY <1>2, <2>1 DEF IsTrace
  <2> HIDE DEF h
  <2>3. PICK t : t = h[x]
    OBVIOUS
  <2>4. /\ a = NoBlock => t = <<x>>
        /\ a # NoBlock => \E u : IsTrace(c, u, a) /\ t = Append(u, x)
    <3>1. IsTrace(c, t, x) /\ x # NoBlock /\ \A i \in 1..Len(t) : t[i] # NoBlock
      BY <1>2, <2>1, <2>2, <2>3
    <3> QED BY <3>1, TraceFront
  <2>5. CASE a # NoBlock
    <3>1. PICK u : IsTrace(c, u, a) /\ t = Append(u, x)
      BY <2>4, <2>5
    <3>2. a \in Block
      BY <2>5, ParentFirst
    <3>3. IsTrace(c, h[a], a)
      BY <1>1, <3>2
    <3>4. u = h[a]
      BY <3>1, <3>2, <3>3, TraceUnique
    <3> QED BY <2>3, <2>5, <3>1, <3>4
  <2> QED BY <2>3, <2>4, <2>5
<1>4. Sol(h)
  <2>1. h = [x \in Block |-> h[x]]
    BY SMTT(30)
  <2> HIDE DEF h
  <2> QED BY <1>3, <2>1
<1> HIDE DEF h
<1>5. Sol(g)
  BY <1>4
<1>6. GetBlockTrace(c, b) = g[b]
  BY DEF GetBlockTrace
<1> HIDE DEF g
<1> DEFINE T == {n \in Nat : \E x \in Block : c.pool[x].start_pos = n /\ ~ IsTrace(c, g[x], x)}
<1> SUFFICES ASSUME ~ IsTrace(c, g[b], b) PROVE FALSE
  BY <1>6
<1>7. c.pool[b].start_pos \in T
  <2>1. c.pool[b].start_pos \in Nat
    BY BlockFields
  <2> QED BY <2>1
<1>8. PICK n \in T : \A k \in T : n <= k
  BY <1>7, LeastNatural
<1>9. PICK x \in Block : c.pool[x].start_pos = n /\ ~ IsTrace(c, g[x], x)
  BY <1>8
<1> DEFINE a == c.pool[x].parent_idx
<1>10. g[x] = IF a = NoBlock THEN <<x>> ELSE Append(g[a], x)
  BY <1>5
<1>11. CASE a = NoBlock
  <2>1. <<x>> \in Seq(Block) /\ Len(<<x>>) = 1 /\ <<x>>[1] = x
    OBVIOUS
  <2>2. IsTrace(c, <<x>>, x)
    BY <1>11, <2>1 DEF IsTrace
  <2> QED BY <1>9, <1>10, <1>11, <2>2
<1>12. CASE a # NoBlock
  <2>1. a \in Block /\ c.pool[a].start_pos < c.pool[x].start_pos
    BY <1>12, ParentFirst
  <2>2. c.pool[a].start_pos \in Nat /\ c.pool[x].start_pos \in Nat
    BY <2>1, BlockFields
  <2>3. c.pool[a].start_pos \notin T
    BY <1>8, <1>9, <2>1, <2>2
  <2>4. IsTrace(c, g[a], a)
    BY <2>1, <2>2, <2>3
  <2>5. PICK t : t = g[a]
    OBVIOUS
  <2>6. IsTrace(c, Append(t, x), x)
    BY <2>1, <2>4, <2>5, TraceAppend
  <2> QED BY <1>9, <1>10, <1>12, <2>5, <2>6
<1> QED BY <1>11, <1>12

(* The blocks of a trace are used and start where the one before ends.     *)
LEMMA TraceBlocks ==
  ASSUME NEW c, Typed(c), Chained(c), NEW b \in Used(c)
  PROVE  LET t == GetBlockTrace(c, b)
             l == Len(t)
         IN /\ t \in Seq(Block) /\ l \in Nat /\ l > 0 /\ DOMAIN t = 1..l /\ t[l] = b
            /\ \A i \in 1..l : t[i] \in Used(c)
            /\ c.pool[t[1]].parent_idx = NoBlock
            /\ c.pool[t[1]].start_pos = 0
            /\ \A i \in 2..l :
                 /\ i - 1 \in 1..l
                 /\ c.pool[t[i]].parent_idx = t[i - 1]
                 /\ c.pool[t[i - 1]].seq_length > 0
                 /\ c.pool[t[i - 1]].seq_length % page_size = 0
                 /\ c.pool[t[i]].start_pos = c.pool[t[i - 1]].start_pos + c.pool[t[i - 1]].seq_length
<1> DEFINE t == GetBlockTrace(c, b)
           l == Len(t)
<1>0. b \in Block
  BY DEF Used
<1>1. IsTrace(c, t, b)
  BY <1>0, TraceIs
<1> HIDE DEF t
<1>2. /\ t \in Seq(Block) /\ l \in Nat /\ l > 0 /\ DOMAIN t = 1..l /\ t[l] = b
      /\ c.pool[t[1]].parent_idx = NoBlock
      /\ \A i \in 2..l : c.pool[t[i]].parent_idx = t[i - 1]
  BY <1>1 DEF IsTrace
<1> HIDE DEF l
<1>3. \A i \in 1..l : t[i] \in Block /\ t[i] # NoBlock
  <2>1. \A i \in 1..l : t[i] \in Block
    BY <1>2
  <2> QED BY <2>1, BlockFields
<1>4. ASSUME NEW i \in 2..l
      PROVE  /\ i - 1 \in 1..l
             /\ t[i - 1] \in Used(c)
             /\ c.pool[t[i - 1]].seq_length > 0
             /\ c.pool[t[i - 1]].seq_length % page_size = 0
             /\ c.pool[t[i]].start_pos = c.pool[t[i - 1]].start_pos + c.pool[t[i - 1]].seq_length
  <2>1. i - 1 \in 1..l /\ i \in 1..l
    BY <1>2
  <2>2. c.pool[t[i]].parent_idx = t[i - 1] /\ t[i - 1] # NoBlock /\ t[i] \in Block
    BY <1>2, <1>3, <2>1
  <2>3. PICK x \in Block : x = t[i]
    BY <2>2
  <2>4. PICK a : a = t[i - 1]
    OBVIOUS
  <2>5. c.pool[x].parent_idx = a /\ a # NoBlock
    BY <2>2, <2>3, <2>4
  <2>6. /\ a \in Used(c) /\ c.pool[a].seq_length > 0 /\ c.pool[a].seq_length % page_size = 0
        /\ c.pool[x].start_pos = c.pool[a].start_pos + c.pool[a].seq_length
    BY <2>5, ParentFirst
  <2> QED BY <2>1, <2>3, <2>4, <2>6
<1>5. ASSUME NEW i \in 1..l PROVE t[i] \in Used(c)
  <2>1. CASE i = l
    BY <1>2, <2>1
  <2>2. CASE i # l
    <3>1. i + 1 \in 2..l /\ (i + 1) - 1 = i
      BY <1>2, <2>2
    <3>2. t[(i + 1) - 1] \in Used(c)
      BY <1>4, <3>1
    <3> QED BY <3>1, <3>2
  <2> QED BY <2>1, <2>2
<1>6. c.pool[t[1]].start_pos = 0
  <2>1. 1 \in 1..l
    BY <1>2
  <2>2. Hangs(c, t[1])
    BY <1>5, <2>1 DEF Chained
  <2> QED BY <1>2, <2>2 DEF Hangs
<1> QED BY <1>2, <1>4, <1>5, <1>6 DEF t, l

(* Blocks further down a trace start behind the end of the ones above.     *)
LEMMA TraceOrder ==
  ASSUME NEW c, Typed(c), Chained(c), NEW b \in Used(c), NEW t, t = GetBlockTrace(c, b),
         NEW i \in 1..Len(t), NEW j \in 1..Len(t), i < j
  PROVE  /\ c.pool[t[i]].start_pos + c.pool[t[i]].seq_length <= c.pool[t[j]].start_pos
         /\ c.pool[t[i]].start_pos < c.pool[t[j]].start_pos
<1> DEFINE l == Len(t)
           start(k) == c.pool[t[k]].start_pos
           len(k) == c.pool[t[k]].seq_length
           T == {k \in Nat : k \in 1..l /\ i < k /\ ~ (start(i) + len(i) <= start(k) /\ start(i) < start(k))}
<1>1. /\ l \in Nat /\ \A k \in 1..l : t[k] \in Used(c)
      /\ \A k \in 2..l : /\ k - 1 \in 1..l /\ len(k - 1) > 0
                         /\ start(k) = start(k - 1) + len(k - 1)
  BY TraceBlocks
<1>2. \A k \in 1..l : start(k) \in Nat /\ len(k) \in Nat
  <2>1. \A k \in 1..l : t[k] \in Block
    BY <1>1 DEF Used
  <2> QED BY <2>1, BlockFields
<1> SUFFICES ASSUME ~ (start(i) + len(i) <= start(j) /\ start(i) < start(j)) PROVE FALSE
  OBVIOUS
<1> HIDE DEF l, start, len
<1>3. i \in 1..l /\ j \in 1..l
  BY DEF l
<1>4. j \in T
  BY <1>1, <1>3
<1>5. PICK k \in T : \A m \in T : k <= m
  BY <1>4, LeastNatural
<1>6. k \in 2..l /\ k \in Nat /\ i < k /\ ~ (start(i) + len(i) <= start(k) /\ start(i) < start(k))
  BY <1>1, <1>3, <1>5
<1>7. k - 1 \in 1..l /\ len(k - 1) > 0 /\ start(k) = start(k - 1) + len(k - 1)
  BY <1>1, <1>6
<1>8. CASE i = k - 1
  BY <1>2, <1>6, <1>7, <1>8
<1>9. CASE i # k - 1
  <2>1. i < k - 1 /\ k - 1 \in Nat /\ ~ (k <= k - 1)
    BY <1>3, <1>6, <1>7, <1>9
  <2>2. start(i) + len(i) <= start(k - 1) /\ start(i) < start(k - 1)
    BY <1>5, <1>7, <2>1
  <2> QED BY <1>2, <1>3, <1>6, <1>7, <2>2
<1> QED BY <1>8, <1>9

(* No block is twice in a chain.                                           *)
LEMMA TraceOnce ==
  ASSUME NEW c, Typed(c), Chained(c), NEW b \in Used(c), NEW t, t = GetBlockTrace(c, b)
  PROVE  \A i, j \in 1..Len(t) : t[i] = t[j] => i = j
<1> SUFFICES ASSUME NEW i \in 1..Len(t), NEW j \in 1..Len(t), i < j, t[i] = t[j] PROVE FALSE
  <2>1. Len(t) \in Nat
    BY TraceBlocks
  <2> QED BY <2>1
<1>1. t[i] \in Block
  BY TraceBlocks DEF Used
<1>2. c.pool[t[i]].start_pos \in Nat
  BY <1>1, BlockFields
<1>3. c.pool[t[i]].start_pos < c.pool[t[j]].start_pos
  BY TraceOrder
<1> QED BY <1>2, <1>3

(* Whoever adds up like TokensIn does gets its sum.                        *)
LEMMA TokensAre ==
  ASSUME NEW c, NEW q \in Seq(Block), NEW F, F \in [0..Len(q) -> Nat], F[0] = 0,
         \A i \in 1..Len(q) : F[i] = F[i - 1] + c.pool[q[i]].seq_length
  PROVE  TokensIn(c, q) = F[Len(q)]
<1> DEFINE l == Len(q)
           Sol(f) == f = [i \in 0..l |-> IF i = 0 THEN 0 ELSE f[i - 1] + c.pool[q[i]].seq_length]
           g == CHOOSE f : Sol(f)
<1>1. l \in Nat
  OBVIOUS
<1> HIDE DEF l
<1>2. Sol(F)
  <2>1. F = [i \in 0..l |-> F[i]]
    BY DEF l
  <2>2. \A i \in 0..l : F[i] = IF i = 0 THEN 0 ELSE F[i - 1] + c.pool[q[i]].seq_length
    <3> SUFFICES ASSUME NEW i \in 0..l
                 PROVE F[i] = IF i = 0 THEN 0 ELSE F[i - 1] + c.pool[q[i]].seq_length
      OBVIOUS
    <3>1. i = 0 \/ i \in 1..l
      BY <1>1
    <3> QED BY <3>1 DEF l
  <2> QED BY <2>1, <2>2
<1>3. Sol(g)
  BY <1>2
<1>4. TokensIn(c, q) = g[l]
  BY DEF TokensIn, l
<1> HIDE DEF g
<1> DEFINE T == {i \in Nat : i \in 0..l /\ g[i] # F[i]}
<1> SUFFICES ASSUME g[l] # F[l] PROVE FALSE
  BY <1>4 DEF l
<1>5. l \in T
  BY <1>1
<1>6. PICK i \in T : \A k \in T : i <= k
  BY <1>5, LeastNatural
<1>7. g[i] = IF i = 0 THEN 0 ELSE g[i - 1] + c.pool[q[i]].seq_length
  BY <1>3
<1>8. i # 0
  BY <1>6, <1>7
<1>9. i - 1 \in Nat /\ i - 1 \in 0..l /\ i \in 1..l /\ ~ (i <= i - 1)
  BY <1>1, <1>8
<1>10. g[i - 1] = F[i - 1]
  BY <1>6, <1>9
<1>11. F[i] = F[i - 1] + c.pool[q[i]].seq_length
  BY <1>9 DEF l
<1> QED BY <1>7, <1>8, <1>10, <1>11

(* The tokens of the blocks i ... j of a trace.                            *)
LEMMA TokensBetween ==
  ASSUME NEW c, Typed(c), Chained(c), NEW b \in Used(c), NEW t, t = GetBlockTrace(c, b),
         NEW i \in 1..(Len(t) + 1), NEW j \in 0..Len(t)
  PROVE  /\ j < i => TokensIn(c, SubSeq(t, i, j)) = 0
         /\ i <= j => TokensIn(c, SubSeq(t, i, j)) =
                        c.pool[t[j]].start_pos + c.pool[t[j]].seq_length - c.pool[t[i]].start_pos
<1> DEFINE l == Len(t)
           start(k) == c.pool[t[k]].start_pos
           len(k) == c.pool[t[k]].seq_length
           q == SubSeq(t, i, j)
           n == IF j < i THEN 0 ELSE j - i + 1
           F == [k \in 0..n |-> IF k = 0 THEN 0 ELSE start(i + k - 1) + len(i + k - 1) - start(i)]
<1>1. /\ t \in Seq(Block) /\ l \in Nat /\ \A k \in 1..l : t[k] \in Used(c)
      /\ \A k \in 2..l : /\ k - 1 \in 1..l
                         /\ start(k) = start(k - 1) + len(k - 1)
  BY TraceBlocks
<1>2. \A k \in 1..l : start(k) \in Nat /\ len(k) \in Nat
  <2>1. \A k \in 1..l : t[k] \in Block
    BY <1>1 DEF Used
  <2> QED BY <2>1, BlockFields
<1>3. \A k \in 1..l : i < k => start(i) + len(i) <= start(k)
  <2> SUFFICES ASSUME NEW k \in 1..l, i < k PROVE start(i) + len(i) <= start(k)
    OBVIOUS
  <2>1. i \in 1..l
    BY <1>1
  <2> QED BY <2>1, TraceOrder
<1>4. i \in 1..(l + 1) /\ j \in 0..l
  OBVIOUS
<1> HIDE DEF l, start, len
<1>5. n \in Nat
  BY <1>4
<1>6. q \in Seq(Block) /\ Len(q) = n /\ \A k \in 1..n : q[k] = t[i + k - 1]
  BY <1>1, <1>4 DEF l
<1>7. \A k \in 1..n : /\ i + k - 1 \in 1..l /\ i \in 1..l /\ i <= i + k - 1
                      /\ k > 1 => i + k - 1 \in 2..l
  BY <1>1, <1>4
<1> HIDE DEF n, q
<1>8. F \in [0..n -> Nat]
  <2> SUFFICES ASSUME NEW k \in 0..n, k # 0 PROVE start(i + k - 1) + len(i + k - 1) - start(i) \in Nat
    OBVIOUS
  <2>1. k \in 1..n
    BY <1>5
  <2>2. i + k - 1 \in 1..l /\ i \in 1..l /\ i <= i + k - 1
    BY <1>7, <2>1
  <2>3. PICK m \in 1..l : m = i + k - 1
    BY <2>2
  <2>4. start(m) \in Nat /\ len(m) \in Nat /\ start(i) \in Nat /\ len(i) \in Nat
    BY <1>2, <2>2
  <2>5. m = i \/ start(i) + len(i) <= start(m)
    BY <1>3, <2>2, <2>3
  <2>6. start(m) + len(m) - start(i) \in Nat
    BY <2>4, <2>5
  <2> QED BY <2>3, <2>6
<1>9. ASSUME NEW k \in 1..n PROVE F[k] = F[k - 1] + c.pool[q[k]].seq_length
  <2>1. k \in 0..n /\ k - 1 \in 0..n /\ k # 0
    BY <1>5
  <2>2. PICK m \in 1..l : m = i + k - 1
    BY <1>7
  <2>3. c.pool[q[k]].seq_length = len(m)
    BY <1>6, <2>2 DEF len
  <2>4. F[k] = start(m) + len(m) - start(i) /\ i \in 1..l
    BY <1>7, <2>1, <2>2
  <2>5. CASE k = 1
    <3>1. F[k - 1] = 0 /\ m = i
      BY <2>1, <2>2, <2>5, <1>4
    <3> QED BY <1>2, <2>3, <2>4, <3>1
  <2>6. CASE k # 1
    <3>1. m \in 2..l
      BY <1>7, <2>2, <2>6
    <3>2. start(m) = start(m - 1) + len(m - 1) /\ m - 1 \in 1..l /\ k - 1 # 0 /\ m - 1 = i + (k - 1) - 1
      BY <1>1, <1>4, <2>2, <2>6, <3>1
    <3>3. F[k - 1] = start(m - 1) + len(m - 1) - start(i)
      BY <2>1, <3>2
    <3>4. F[k - 1] = start(m) - start(i)
      BY <1>2, <2>4, <3>2, <3>3
    <3> QED BY <1>2, <2>3, <2>4, <3>4
  <2> QED BY <2>5, <2>6
<1>10. F[0] = 0
  BY <1>5
<1>11. F[n] = IF n = 0 THEN 0 ELSE start(i + n - 1) + len(i + n - 1) - start(i)
  BY <1>5
<1> HIDE DEF F
<1>12. TokensIn(c, q) = F[n]
  <2>1. q \in Seq(Block) /\ F \in [0..Len(q) -> Nat] /\ F[0] = 0
    BY <1>6, <1>8, <1>10
  <2>2. \A k \in 1..Len(q) : F[k] = F[k - 1] + c.pool[q[k]].seq_length
    BY <1>6, <1>9
  <2>3. TokensIn(c, q) = F[Len(q)]
    BY <2>1, <2>2, TokensAre
  <2> QED BY <1>6, <2>3
<1>13. CASE j < i
  <2>1. n = 0
    BY <1>13 DEF n
  <2> QED BY <1>10, <1>12, <1>13, <2>1, <1>4 DEF q
<1>14. CASE i <= j
  <2>1. n = j - i + 1 /\ n # 0 /\ i + n - 1 = j
    BY <1>4, <1>14 DEF n
  <2>2. TokensIn(c, q) = start(j) + len(j) - start(i)
    BY <1>11, <1>12, <2>1
  <2> QED BY <1>14, <2>2, <1>4 DEF q, start, len
<1> QED BY <1>4, <1>13, <1>14

-----------------------------------------------------------------------------
(* What the runs check follows.                                            *)

(* The used blocks, and those below one, are finitely many.                *)
LEMMA UsedBlocks ==
  ASSUME NEW c
  PROVE  /\ Used(c) \subseteq Block /\ IsFiniteSet(Used(c))
         /\ \A b : /\ Children(c, b) \subseteq Used(c)
                   /\ IsFiniteSet(Children(c, b))
                   /\ Cardinality(Children(c, b)) \in Nat
<1>1. Used(c) \subseteq Block
  BY DEF Used
<1>2. IsFiniteSet(Used(c))
  BY <1>1, PoolAssumption, FS_Subset
<1>3. ASSUME NEW b PROVE /\ Children(c, b) \subseteq Used(c)
                         /\ IsFiniteSet(Children(c, b))
                         /\ Cardinality(Children(c, b)) \in Nat
  <2>1. Children(c, b) \subseteq Used(c)
    BY DEF Children
  <2>2. IsFiniteSet(Children(c, b))
    BY <1>2, <2>1, FS_Subset
  <2> QED BY <2>1, <2>2, FS_CardinalityType
<1> QED BY <1>1, <1>2, <1>3

(* The sequences, and those that end in a block, are finitely many.        *)
LEMMA OwnersFinite ==
  ASSUME NEW c, Typed(c)
  PROVE  /\ IsFiniteSet(SeqIds(c))
         /\ \A b : /\ Owners(c, b) \subseteq SeqIds(c)
                   /\ IsFiniteSet(Owners(c, b))
                   /\ Cardinality(Owners(c, b)) \in Nat
<1>1. IsFiniteSet(SeqId \cup {TempSeq})
  BY PoolAssumption, FS_AddElement
<1>2. IsFiniteSet(SeqIds(c))
  BY <1>1, FS_Subset DEF Typed
<1>3. ASSUME NEW b PROVE /\ Owners(c, b) \subseteq SeqIds(c)
                         /\ IsFiniteSet(Owners(c, b))
                         /\ Cardinality(Owners(c, b)) \in Nat
  <2>1. Owners(c, b) \subseteq SeqIds(c)
    BY DEF Owners
  <2>2. IsFiniteSet(Owners(c, b))
    BY <1>2, <2>1, FS_Subset
  <2> QED BY <2>1, <2>2, FS_CardinalityType
<1> QED BY <1>2, <1>3

(* A used block without a child is the last one of a sequence.             *)
LEMMA LeafOwned ==
  ASSUME NEW c, Typed(c), Counted(c), NEW b \in Used(c), Children(c, b) = {}
  PROVE  \E s \in SeqIds(c) : c.seq_map[s].last_block_idx = b
<1>1. /\ c.pool[b].external_ref_cnt = Cardinality(Children(c, b)) + Cardinality(Owners(c, b))
      /\ c.pool[b].external_ref_cnt > 0
  BY DEF Counted, Counts
<1>2. Cardinality(Children(c, b)) = 0
  BY FS_EmptySet
<1>3. Cardinality(Owners(c, b)) # 0 /\ IsFiniteSet(Owners(c, b))
  BY <1>1, <1>2, OwnersFinite
<1>4. Owners(c, b) # {}
  BY <1>3, FS_EmptySet
<1> QED BY <1>4 DEF Owners

(* Used blocks, if any, have one without a child among them.               *)
LEMMA LeafExists ==
  ASSUME NEW c, Typed(c), Chained(c), Used(c) # {}
  PROVE  \E b \in Used(c) : Children(c, b) = {}
<1> DEFINE U == Used(c)
           f == [b \in U |-> CHOOSE x \in Children(c, b) : TRUE]
<1> SUFFICES ASSUME \A b \in U : Children(c, b) # {} PROVE FALSE
  OBVIOUS
<1>1. \A b \in U : f[b] \in U /\ c.pool[f[b]].parent_idx = b
  BY DEF Children
<1>2. f \in Injection(U, U)
  <2>1. f \in [U -> U]
    BY <1>1
  <2>2. \A a, b \in U : f[a] = f[b] => a = b
    BY <1>1
  <2> HIDE DEF f
  <2> QED BY <2>1, <2>2 DEF Injection, IsInjective
<1> HIDE DEF f
<1>3. f \in Surjection(U, U)
  BY <1>2, UsedBlocks, FS_Injection
<1>4. PICK b \in U : TRUE
  OBVIOUS
<1> DEFINE r == GetBlockTrace(c, b)[1]
<1>5. r \in U /\ c.pool[r].parent_idx = NoBlock
  BY TraceBlocks
<1> HIDE DEF r
<1>6. PICK x \in U : f[x] = r
  BY <1>3, <1>5 DEF Surjection
<1>7. x # NoBlock
  <2>1. x \in Block
    BY DEF Used
  <2> QED BY <2>1, BlockFields
<1> QED BY <1>1, <1>5, <1>6, <1>7

(* A page that is not free is in exactly one place.                        *)
LEMMA WholeMeansPartition ==
  ASSUME Typed(cache), Paged(cache)
  PROVE  PagePartition
<1> DEFINE c == cache
           Places == UNION {{b} \X DOMAIN c.pool[b].page_ids : b \in Used(c)}
           Uses(p) == {u \in Places : c.pool[u[1]].page_ids[u[2]] = p}
<1> SUFFICES ASSUME NEW p \in Page
             PROVE Cardinality(Uses(p)) = IF p \in c.free_page_ids THEN 0 ELSE 1
  BY DEF PagePartition
<1>1. \A u : u \in Places <=> \E b \in Used(c) : \E i \in DOMAIN c.pool[b].page_ids : u = <<b, i>>
  <2>1. \A u : u \in Places <=> \E b \in Used(c) : u \in {b} \X DOMAIN c.pool[b].page_ids
    OBVIOUS
  <2>2. \A u : \A b : u \in {b} \X DOMAIN c.pool[b].page_ids
                        <=> \E i \in DOMAIN c.pool[b].page_ids : u = <<b, i>>
    OBVIOUS
  <2> QED BY <2>1, <2>2
<1>2. \A u \in Uses(p) : \E b \in Used(c) : \E i \in DOMAIN c.pool[b].page_ids :
        u = <<b, i>> /\ c.pool[b].page_ids[i] = p
  BY <1>1
<1>3. CASE p \in c.free_page_ids
  <2>1. Uses(p) = {}
    BY <1>2, <1>3 DEF Paged, Taken
  <2> QED BY <1>3, <2>1, FS_EmptySet
<1>4. CASE p \notin c.free_page_ids
  <2>1. PICK b \in Used(c) : \E i \in DOMAIN c.pool[b].page_ids : c.pool[b].page_ids[i] = p
    BY <1>4 DEF Paged, Listed
  <2>2. PICK i \in DOMAIN c.pool[b].page_ids : c.pool[b].page_ids[i] = p
    BY <2>1
  <2>3. <<b, i>> \in Uses(p)
    BY <1>1, <2>2
  <2>4. \A u \in Uses(p) : u = <<b, i>>
    BY <1>2, <2>2 DEF Paged, Apart
  <2> HIDE DEF Uses
  <2>5. Uses(p) = {<<b, i>>}
    BY <2>3, <2>4
  <2> QED BY <1>4, <2>5, FS_Singleton
<1> QED BY <1>3, <1>4

(* Lengths and starts are sums along the chain.                            *)
LEMMA WholeMeansLengths ==
  ASSUME Typed(cache), Chained(cache), Ended(cache)
  PROVE  LengthsAgree
<1> SUFFICES ASSUME NEW s \in SeqIds(cache)
             PROVE LET trace == Trace(cache, s) IN
                   /\ cache.seq_map[s].seq_length = TokensIn(cache, trace)
                   /\ \A i \in DOMAIN trace :
                        cache.pool[trace[i]].start_pos = TokensIn(cache, SubSeq(trace, 1, i - 1))
  BY DEF LengthsAgree
<1>1. PICK b : b = cache.seq_map[s].last_block_idx
  OBVIOUS
<1>2. PICK t : t = Trace(cache, s)
  OBVIOUS
<1>3. b \in Used(cache) /\ cache.seq_map[s].seq_length = cache.pool[b].start_pos + cache.pool[b].seq_length
  BY <1>1 DEF Ended, Ends, LastBlock
<1>4. t = GetBlockTrace(cache, b)
  BY <1>1, <1>2 DEF Trace
<1>5. /\ t \in Seq(Block) /\ Len(t) \in Nat /\ Len(t) > 0 /\ DOMAIN t = 1..Len(t) /\ t[Len(t)] = b
      /\ cache.pool[t[1]].start_pos = 0
      /\ \A i \in 1..Len(t) : t[i] \in Used(cache)
      /\ \A i \in 2..Len(t) :
           /\ i - 1 \in 1..Len(t)
           /\ cache.pool[t[i]].start_pos = cache.pool[t[i - 1]].start_pos + cache.pool[t[i - 1]].seq_length
  BY <1>3, <1>4, TraceBlocks
<1>6. \A i \in 1..Len(t) : cache.pool[t[i]].start_pos \in Nat /\ cache.pool[t[i]].seq_length \in Nat
  <2>1. \A i \in 1..Len(t) : t[i] \in Block
    BY <1>5
  <2> QED BY <2>1, BlockFields
<1>7. 1 \in 1..(Len(t) + 1) /\ 1 \in 1..Len(t) /\ Len(t) \in 1..Len(t)
  BY <1>5
<1>8. \A j \in 0..Len(t) :
        /\ j < 1 => TokensIn(cache, SubSeq(t, 1, j)) = 0
        /\ 1 <= j => TokensIn(cache, SubSeq(t, 1, j)) =
                        cache.pool[t[j]].start_pos + cache.pool[t[j]].seq_length - cache.pool[t[1]].start_pos
  BY <1>3, <1>4, <1>7, TokensBetween
<1>9. cache.seq_map[s].seq_length = TokensIn(cache, t)
  <2>1. SubSeq(t, 1, Len(t)) = t
    BY <1>5
  <2>2. TokensIn(cache, t) = cache.pool[b].start_pos + cache.pool[b].seq_length - 0
    <3>1. Len(t) \in 0..Len(t) /\ 1 <= Len(t)
      BY <1>5
    <3>2. TokensIn(cache, SubSeq(t, 1, Len(t))) =
            cache.pool[t[Len(t)]].start_pos + cache.pool[t[Len(t)]].seq_length - cache.pool[t[1]].start_pos
      BY <1>8, <3>1
    <3> QED BY <1>5, <2>1, <3>2
  <2> QED BY <1>3, <1>5, <1>6, <1>7, <2>2
<1>10. ASSUME NEW i \in 1..Len(t)
       PROVE cache.pool[t[i]].start_pos = TokensIn(cache, SubSeq(t, 1, i - 1))
  <2>1. CASE i = 1
    <3>1. TokensIn(cache, SubSeq(t, 1, 0)) = 0
      BY <1>5, <1>8
    <3> QED BY <1>5, <2>1, <3>1
  <2>2. CASE i # 1
    <3>1. i \in 2..Len(t) /\ i - 1 \in 1..Len(t) /\ i - 1 \in 0..Len(t)
      BY <1>5, <2>2
    <3>2. TokensIn(cache, SubSeq(t, 1, i - 1)) =
            cache.pool[t[i - 1]].start_pos + cache.pool[t[i - 1]].seq_length - 0
      BY <1>5, <1>8, <3>1
    <3>3. cache.pool[t[i]].start_pos = cache.pool[t[i - 1]].start_pos + cache.pool[t[i - 1]].seq_length
      BY <1>5, <3>1
    <3> QED BY <1>6, <3>1, <3>2, <3>3
  <2> QED BY <2>1, <2>2
<1> QED BY <1>2, <1>5, <1>9, <1>10

(* Without sequences a lowest block would have no reference, so none is    *)
(* used.                                                                   *)
LEMMA WholeMeansEmpty ==
  ASSUME Structured(cache), Counted(cache)
  PROVE  EmptyAgain
<1> SUFFICES ASSUME SeqIds(cache) = {}
             PROVE cache.free_page_ids = Page /\ cache.free_block_idx = Block
  BY DEF EmptyAgain
<1>1. Typed(cache) /\ Chained(cache) /\ Paged(cache)
  BY DEF Structured
<1>2. Used(cache) = {}
  BY <1>1, LeafExists, LeafOwned
<1>3. cache.free_block_idx = Block
  BY <1>1, <1>2 DEF Used, Typed
<1>4. cache.free_page_ids = Page
  BY <1>1, <1>2 DEF Paged, Listed, Typed
<1> QED BY <1>3, <1>4

(* What the runs check follows from the invariant.                         *)
LEMMA InvariantImplies ==
  ASSUME StructureInvariant
  PROVE  /\ PagePartition /\ RefCounts /\ LastBlockPrivate /\ InnerBlocksFull
         /\ PagesCover /\ LengthsAgree /\ EmptyAgain
<1>1. /\ Typed(cache) /\ Chained(cache) /\ Paged(cache)
      /\ Counted(cache) /\ Ended(cache) /\ Private(cache, {})
  BY DEF StructureInvariant, Whole, Structured, Linked
<1>2. PagePartition
  BY <1>1, WholeMeansPartition
<1>3. RefCounts
  BY <1>1 DEF RefCounts, Counted, Counts, Chained, Hangs
<1>4. LastBlockPrivate
  BY <1>1 DEF LastBlockPrivate, Private, Alone
<1>5. InnerBlocksFull
  <2> SUFFICES ASSUME NEW b \in Used(cache), NEW x \in Children(cache, b)
               PROVE cache.pool[b].seq_length > 0 /\ cache.pool[b].seq_length % page_size = 0
    BY DEF InnerBlocksFull
  <2>1. x \in Block /\ b \in Block /\ cache.pool[x].parent_idx = b
    BY DEF Children, Used
  <2>2. b # NoBlock
    BY <1>1, <2>1, BlockFields
  <2> QED BY <1>1, <2>1, <2>2, ParentFirst
<1>6. PagesCover
  <2> SUFFICES ASSUME NEW b \in Used(cache)
               PROVE LET block == cache.pool[b] IN
                     /\ Len(block.page_ids) =
                          PagesFor(block.seq_length - block.sink_length + block.sliding_window_offset)
                     /\ TempPage \notin Range(block.page_ids)
    BY DEF PagesCover
  <2>1. b \in Block
    BY DEF Used
  <2>2. /\ cache.pool[b].page_ids \in Seq(Page) /\ cache.pool[b].seq_length \in Nat
        /\ cache.pool[b].sink_length = 0 /\ cache.pool[b].sliding_window_offset = 0
    BY <1>1, <2>1, BlockFields
  <2>3. cache.pool[b].seq_length - cache.pool[b].sink_length + cache.pool[b].sliding_window_offset
          = cache.pool[b].seq_length
    BY <2>2
  <2>4. Len(cache.pool[b].page_ids) = PagesFor(cache.pool[b].seq_length)
    BY <1>1 DEF Paged, HasPages
  <2>5. TempPage \notin Page
    BY PoolAssumption DEF TempPage
  <2>6. \A i \in DOMAIN cache.pool[b].page_ids : cache.pool[b].page_ids[i] \in Page
    BY <2>2
  <2>7. TempPage \notin Range(cache.pool[b].page_ids)
    BY <2>5, <2>6 DEF Range
  <2> QED BY <2>3, <2>4, <2>7
<1>7. LengthsAgree
  BY <1>1, WholeMeansLengths
<1>8. EmptyAgain
  BY <1>1, WholeMeansEmpty DEF Structured
<1> QED BY <1>2, <1>3, <1>4, <1>5, <1>6, <1>7, <1>8

-----------------------------------------------------------------------------
(* There is always a block to take: blocks with children have pages, the   *)
(* others are the last ones of sequences.                                  *)

(* The least element of a set of numbers.                                  *)
LEMMA MinIn ==
  ASSUME NEW S, S \subseteq Nat, S # {}
  PROVE  Min(S) \in S /\ \A x \in S : Min(S) <= x
BY LeastNatural DEF Min

(* The greatest element of a bounded set of numbers.                       *)
LEMMA MaxIn ==
  ASSUME NEW S, NEW n \in Nat, S \subseteq 0..n, S # {}
  PROVE  Max(S) \in S /\ \A x \in S : x <= Max(S)
<1> DEFINE T == {n - x : x \in S}
<1>1. T \subseteq Nat /\ T # {}
  <2>1. \A x \in S : n - x \in Nat
    OBVIOUS
  <2> QED BY <2>1
<1>2. PICK m \in T : \A k \in T : m <= k
  BY <1>1, LeastNatural
<1>3. PICK x \in S : m = n - x
  BY <1>2
<1>4. \A y \in S : y <= x
  <2> SUFFICES ASSUME NEW y \in S PROVE y <= x
    OBVIOUS
  <2>1. n - y \in T /\ y \in Nat /\ x \in Nat
    OBVIOUS
  <2> HIDE DEF T
  <2> QED BY <1>2, <1>3, <2>1
<1>5. \A y \in S : x >= y
  BY <1>4
<1>6. Max(S) \in S /\ \A y \in S : Max(S) >= y
  BY <1>5 DEF Max
<1>7. \A y \in S : y \in Int
  OBVIOUS
<1> QED BY <1>6, <1>7

(* Every used block has a page of its own or is a sequence's empty last    *)
(* block.                                                                  *)
LEMMA BlocksInUse ==
  ASSUME NEW c, Structured(c), Counted(c),
         NEW E, E = {s \in SeqIds(c) : Children(c, c.seq_map[s].last_block_idx) # {}}
  PROVE  /\ Cardinality(Used(c)) \in Nat
         /\ Cardinality(Used(c)) <= Cardinality(Page) + Cardinality(SeqIds(c) \ E)
<1> DEFINE Leaves == {b \in Used(c) : Children(c, b) = {}}
           Inner  == Used(c) \ Leaves
           first  == [b \in Inner |-> c.pool[b].page_ids[1]]
           owner  == [b \in Leaves |-> CHOOSE s \in SeqIds(c) : c.seq_map[s].last_block_idx = b]
<1>0. /\ Typed(c) /\ Chained(c) /\ Paged(c)
      /\ IsFiniteSet(Used(c)) /\ IsFiniteSet(Page) /\ IsFiniteSet(SeqIds(c))
  BY UsedBlocks, OwnersFinite, PoolAssumption DEF Structured
<1>1. \A b \in Inner : 1 \in DOMAIN c.pool[b].page_ids /\ c.pool[b].page_ids[1] \in Page
  <2> SUFFICES ASSUME NEW b \in Inner
               PROVE 1 \in DOMAIN c.pool[b].page_ids /\ c.pool[b].page_ids[1] \in Page
    OBVIOUS
  <2>1. PICK x : x \in Children(c, b)
    OBVIOUS
  <2>2. x \in Block /\ c.pool[x].parent_idx = b /\ b \in Block
    BY <2>1 DEF Children, Used
  <2>3. b # NoBlock /\ c.pool[b].seq_length \in Nat /\ c.pool[b].page_ids \in Seq(Page)
    BY <1>0, <2>2, BlockFields
  <2>4. c.pool[b].seq_length > 0
    BY <1>0, <2>2, <2>3, ParentFirst
  <2>5. Len(c.pool[b].page_ids) = PagesFor(c.pool[b].seq_length)
    BY <1>0 DEF Paged, HasPages
  <2>6. Len(c.pool[b].page_ids) > 0
    BY <2>3, <2>4, <2>5, PagesForZero
  <2> QED BY <2>3, <2>6
<1>2. first \in Injection(Inner, Page)
  <2>1. first \in [Inner -> Page]
    BY <1>1
  <2>2. \A a, b \in Inner : first[a] = first[b] => a = b
    <3> SUFFICES ASSUME NEW a \in Inner, NEW b \in Inner, first[a] = first[b] PROVE a = b
      OBVIOUS
    <3>1. /\ 1 \in DOMAIN c.pool[a].page_ids /\ 1 \in DOMAIN c.pool[b].page_ids
          /\ c.pool[a].page_ids[1] = c.pool[b].page_ids[1]
      BY <1>1
    <3>2. a \in Used(c) /\ b \in Used(c)
      OBVIOUS
    <3> HIDE DEF first, Inner
    <3> QED BY <1>0, <3>1, <3>2 DEF Paged, Apart
  <2> HIDE DEF first, Inner
  <2> QED BY <2>1, <2>2 DEF Injection, IsInjective
<1>3. IsFiniteSet(Inner) /\ Cardinality(Inner) <= Cardinality(Page)
  <2> HIDE DEF first, Inner
  <2> QED BY <1>0, <1>2, FS_Injection
<1>4. \A b \in Leaves : owner[b] \in SeqIds(c) /\ c.seq_map[owner[b]].last_block_idx = b
  <2> SUFFICES ASSUME NEW b \in Leaves
               PROVE owner[b] \in SeqIds(c) /\ c.seq_map[owner[b]].last_block_idx = b
    OBVIOUS
  <2>1. \E s \in SeqIds(c) : c.seq_map[s].last_block_idx = b
    BY <1>0, LeafOwned
  <2> QED BY <2>1
<1>5. owner \in Injection(Leaves, SeqIds(c) \ E)
  <2>1. \A b \in Leaves : owner[b] \in SeqIds(c) \ E
    <3> HIDE DEF owner
    <3> QED BY <1>4
  <2>2. owner \in [Leaves -> SeqIds(c) \ E]
    BY <2>1
  <2> HIDE DEF owner, Leaves
  <2> QED BY <1>4, <2>2 DEF Injection, IsInjective
<1>6. IsFiniteSet(SeqIds(c) \ E)
  BY <1>0, FS_Subset
<1>7. IsFiniteSet(Leaves) /\ Cardinality(Leaves) <= Cardinality(SeqIds(c) \ E)
  <2> HIDE DEF owner, Leaves
  <2> QED BY <1>5, <1>6, FS_Injection
<1>8. Used(c) = Inner \cup Leaves /\ Inner \cap Leaves = {}
  OBVIOUS
<1> HIDE DEF Inner, Leaves
<1>9. Cardinality(Used(c)) = Cardinality(Inner) + Cardinality(Leaves) - Cardinality(Inner \cap Leaves)
  BY <1>3, <1>7, <1>8, FS_Union
<1>10. Cardinality(Inner \cap Leaves) = 0
  BY <1>8, FS_EmptySet
<1>11. /\ Cardinality(Inner) \in Nat /\ Cardinality(Leaves) \in Nat /\ Cardinality(Page) \in Nat
       /\ Cardinality(SeqIds(c) \ E) \in Nat
  BY <1>0, <1>3, <1>6, <1>7, FS_CardinalityType
<1> QED BY <1>3, <1>7, <1>9, <1>10, <1>11

(* Fewer sequences than ids, one of them may be the temporary one; or as   *)
(* many, and one of them ends in a block that has a child.                 *)
Room(c) ==
  \/ Cardinality(SeqIds(c)) < Cardinality(SeqId)
  \/ /\ Cardinality(SeqIds(c)) <= Cardinality(SeqId)
     /\ \E s \in SeqIds(c) : Children(c, c.seq_map[s].last_block_idx) # {}

(* So a fork that needs two blocks finds them.                             *)
LEMMA TwoBlocksFree ==
  ASSUME NEW c, Structured(c), Counted(c), Room(c)
  PROVE  /\ GetFreeBlock(c) \in c.free_block_idx
         /\ \A b : c.free_block_idx \ {b} # {}
<1> DEFINE E == {s \in SeqIds(c) : Children(c, c.seq_map[s].last_block_idx) # {}}
           f == c.free_block_idx
<1>0. Typed(c) /\ IsFiniteSet(SeqIds(c)) /\ f \subseteq Block
  BY OwnersFinite DEF Structured, Typed
<1>1. /\ Cardinality(Used(c)) \in Nat
      /\ Cardinality(Used(c)) <= Cardinality(Page) + Cardinality(SeqIds(c) \ E)
  BY BlocksInUse
<1>2. /\ IsFiniteSet(SeqIds(c) \ E) /\ Cardinality(SeqIds(c)) \in Nat /\ Cardinality(SeqIds(c) \ E) \in Nat
      /\ Cardinality(SeqIds(c) \ E) <= Cardinality(SeqIds(c))
      /\ E # {} => Cardinality(SeqIds(c) \ E) < Cardinality(SeqIds(c))
  <2>1. IsFiniteSet(SeqIds(c) \ E) /\ Cardinality(SeqIds(c) \ E) <= Cardinality(SeqIds(c))
    BY <1>0, FS_Subset
  <2>2. Cardinality(SeqIds(c)) = Cardinality(SeqIds(c) \ E) => SeqIds(c) = SeqIds(c) \ E
    BY <1>0, FS_Subset
  <2>3. Cardinality(SeqIds(c)) \in Nat /\ Cardinality(SeqIds(c) \ E) \in Nat
    BY <1>0, <2>1, FS_CardinalityType
  <2>4. E # {} => SeqIds(c) # SeqIds(c) \ E
    OBVIOUS
  <2> QED BY <2>1, <2>2, <2>3, <2>4
<1>3. /\ IsFiniteSet(Block) /\ IsFiniteSet(Page) /\ IsFiniteSet(SeqId)
      /\ Cardinality(Block) \in Nat /\ Cardinality(Page) \in Nat /\ Cardinality(SeqId) \in Nat
      /\ Cardinality(Block) >= Cardinality(Page) + Cardinality(SeqId) + 1
  BY PoolAssumption, FS_CardinalityType
<1>4. Cardinality(SeqIds(c) \ E) + 1 <= Cardinality(SeqId)
  <2>1. CASE Cardinality(SeqIds(c)) < Cardinality(SeqId)
    BY <1>2, <1>3, <2>1
  <2>2. CASE Cardinality(SeqIds(c)) <= Cardinality(SeqId) /\ E # {}
    BY <1>2, <1>3, <2>2
  <2> QED BY <2>1, <2>2 DEF Room
<1> HIDE DEF E
<1>5. Cardinality(Used(c)) + 2 <= Cardinality(Block)
  BY <1>1, <1>2, <1>3, <1>4
<1>6. IsFiniteSet(f) /\ Cardinality(f) >= 2 /\ Cardinality(f) \in Nat
  <2>1. IsFiniteSet(f) /\ Cardinality(f) \in Nat
    BY <1>0, <1>3, FS_Subset, FS_CardinalityType
  <2>2. Cardinality(Block \ f) = Cardinality(Block) - Cardinality(Block \cap f)
    BY <1>3, FS_Difference
  <2>3. Block \cap f = f /\ Block \ f = Used(c)
    BY <1>0 DEF Used
  <2> QED BY <1>1, <1>3, <1>5, <2>1, <2>2, <2>3, SMTT(30)
<1>7. f # {}
  BY <1>6, FS_EmptySet
<1>8. GetFreeBlock(c) \in f
  <2>1. f \subseteq Nat
    BY <1>0, PoolAssumption
  <2> QED BY <1>7, <2>1, MinIn DEF GetFreeBlock
<1>9. ASSUME NEW b, f \ {b} = {} PROVE FALSE
  <2>1. Cardinality(f \ {b}) >= 1
    <3>1. Cardinality(f \ {b}) = IF b \in f THEN Cardinality(f) - 1 ELSE Cardinality(f)
      BY <1>6, FS_RemoveElement
    <3>2. \A k \in Nat : k >= 2 => k - 1 >= 1 /\ k >= 1
      OBVIOUS
    <3> QED BY <1>6, <3>1, <3>2
  <2> QED BY <1>9, <2>1, FS_EmptySet
<1> QED BY <1>8, <1>9

-----------------------------------------------------------------------------
(* What keeps the blocks and their pages in order.                         *)

Same(c, d, b) ==
  /\ d.pool[b].page_ids = c.pool[b].page_ids
  /\ d.pool[b].start_pos = c.pool[b].start_pos
  /\ d.pool[b].seq_length = c.pool[b].seq_length
  /\ d.pool[b].parent_idx = c.pool[b].parent_idx
Pages(c, b) == Elements(c.pool[b].page_ids)

(* What is used before and after is the same, and the tokens in it.        *)
KvKept(c, d) ==
  DOMAIN c.kv = Page =>
    /\ DOMAIN d.kv = Page
    /\ \A p \in Page : p \notin c.free_page_ids /\ p \notin d.free_page_ids => d.kv[p] = c.kv[p]
Keeps(c, d) == KvKept(c, d) /\ \A x \in Used(c) \cap Used(d) : Same(c, d, x)

(* The pages of a block are the elements of its page_ids.                  *)
LEMMA PagesOf ==
  ASSUME NEW c, Typed(c), NEW b \in Block
  PROVE  /\ Pages(c, b) \subseteq Page
         /\ \A p : p \in Pages(c, b) <=> \E i \in DOMAIN c.pool[b].page_ids : c.pool[b].page_ids[i] = p
         /\ b \notin Used(c) => Pages(c, b) = {}
<1>1. c.pool[b].page_ids \in Seq(Page)
  BY BlockFields
<1>2. b \notin Used(c) => Pages(c, b) = {}
  <2>1. EmptyBlock.page_ids = <<>>
    BY DEF EmptyBlock
  <2>2. Elements(<<>>) = {}
    BY DEF Elements
  <2> QED BY <2>1, <2>2, BlockFields DEF Pages
<1>3. \A p : p \in Pages(c, b) <=> \E i \in DOMAIN c.pool[b].page_ids : c.pool[b].page_ids[i] = p
  BY DEF Pages, Elements
<1>4. Pages(c, b) \subseteq Page
  BY <1>1, <1>3
<1> QED BY <1>2, <1>3, <1>4

(* A block stays in its place when nothing about it and its parent changes.*)
LEMMA StillHangs ==
  ASSUME NEW c, NEW d, NEW b, Hangs(c, b), Same(c, d, b),
         c.pool[b].parent_idx # NoBlock =>
           c.pool[b].parent_idx \in Used(d) /\ Same(c, d, c.pool[b].parent_idx)
  PROVE  Hangs(d, b)
<1>1. CASE c.pool[b].parent_idx = NoBlock
  BY <1>1 DEF Hangs, Same
<1>2. CASE c.pool[b].parent_idx # NoBlock
  BY <1>2 DEF Hangs, Same
<1> QED BY <1>1, <1>2

(* One block without children is taken or rewritten.                       *)
LEMMA OneBlock ==
  ASSUME NEW c, NEW d, Structured(c), Typed(d), NEW b \in Block,
         Used(d) = Used(c) \cup {b},
         \A x \in Used(c) \ {b} : Same(c, d, x),
         Children(c, b) = {},
         Hangs(d, b), HasPages(d, b), NoRepeats(d.pool[b].page_ids),
         Pages(d, b) \subseteq c.free_page_ids \cup Pages(c, b),
         d.free_page_ids = (c.free_page_ids \cup Pages(c, b)) \ Pages(d, b)
  PROVE  Structured(d)
<1>0. /\ Typed(c) /\ Chained(c) /\ Paged(c)
      /\ Used(c) \subseteq Block
  BY DEF Structured, Used
<1>1. Chained(d)
  <2> SUFFICES ASSUME NEW x \in Used(c) \ {b} PROVE Hangs(d, x)
    BY DEF Chained
  <2>1. Hangs(c, x) /\ Same(c, d, x)
    BY <1>0 DEF Chained
  <2>2. c.pool[x].parent_idx # NoBlock => c.pool[x].parent_idx \in Used(c) \ {b}
    BY <2>1 DEF Hangs, Children
  <2>3. c.pool[x].parent_idx # NoBlock =>
          c.pool[x].parent_idx \in Used(d) /\ Same(c, d, c.pool[x].parent_idx)
    BY <2>2
  <2> QED BY <2>1, <2>3, StillHangs
<1>2. \A x \in Used(d) : HasPages(d, x)
  BY <1>0 DEF Paged, HasPages, Same
<1>3. \A x \in Used(c) \ {b} : \A i \in DOMAIN d.pool[x].page_ids :
        /\ i \in DOMAIN c.pool[x].page_ids /\ d.pool[x].page_ids[i] = c.pool[x].page_ids[i]
        /\ d.pool[x].page_ids[i] \notin c.free_page_ids
        /\ d.pool[x].page_ids[i] \notin Pages(c, b)
  <2> SUFFICES ASSUME NEW x \in Used(c) \ {b}, NEW i \in DOMAIN c.pool[x].page_ids
               PROVE /\ c.pool[x].page_ids[i] \notin c.free_page_ids
                     /\ c.pool[x].page_ids[i] \notin Pages(c, b)
    BY DEF Same
  <2>1. c.pool[x].page_ids[i] \notin c.free_page_ids
    BY <1>0 DEF Paged, Taken
  <2>2. CASE b \in Used(c)
    BY <1>0, <2>1, <2>2, PagesOf DEF Paged, Apart
  <2>3. CASE b \notin Used(c)
    BY <1>0, <2>1, <2>3, PagesOf
  <2> QED BY <2>2, <2>3
<1>4. \A i \in DOMAIN d.pool[b].page_ids : d.pool[b].page_ids[i] \in Pages(d, b)
  BY PagesOf
<1>5. Taken(d)
  BY <1>3, <1>4 DEF Taken
<1>6. Apart(d)
  <2> SUFFICES ASSUME NEW x \in Used(d), NEW y \in Used(d),
                      NEW i \in DOMAIN d.pool[x].page_ids, NEW j \in DOMAIN d.pool[y].page_ids,
                      d.pool[x].page_ids[i] = d.pool[y].page_ids[j]
               PROVE x = y /\ i = j
    BY DEF Apart
  <2>1. CASE x = b /\ y = b
    BY <2>1 DEF NoRepeats
  <2>2. CASE x = b /\ y # b
    BY <1>3, <1>4, <2>2
  <2>3. CASE x # b /\ y = b
    BY <1>3, <1>4, <2>3
  <2>4. CASE x # b /\ y # b
    <3>1. x \in Used(c) /\ y \in Used(c)
      BY <2>4
    <3>2. /\ i \in DOMAIN c.pool[x].page_ids /\ j \in DOMAIN c.pool[y].page_ids
          /\ c.pool[x].page_ids[i] = c.pool[y].page_ids[j]
      BY <1>3, <2>4
    <3> QED BY <1>0, <3>1, <3>2 DEF Paged, Apart
  <2> QED BY <2>1, <2>2, <2>3, <2>4
<1>7. Listed(d)
  <2> SUFFICES ASSUME NEW p \in Page \ d.free_page_ids
               PROVE \E x \in Used(d) : \E i \in DOMAIN d.pool[x].page_ids : d.pool[x].page_ids[i] = p
    BY DEF Listed
  <2>1. CASE p \in Pages(d, b)
    BY <2>1, PagesOf
  <2>2. CASE p \notin Pages(d, b)
    <3>1. p \in Page \ c.free_page_ids /\ p \notin Pages(c, b)
      BY <2>2
    <3>2. PICK x \in Used(c) : \E i \in DOMAIN c.pool[x].page_ids : c.pool[x].page_ids[i] = p
      BY <1>0, <3>1 DEF Paged, Listed
    <3>3. x # b
      BY <1>0, <3>1, <3>2, PagesOf
    <3> QED BY <3>2, <3>3 DEF Same
  <2> QED BY <2>1, <2>2
<1> QED BY <1>1, <1>2, <1>5, <1>6, <1>7 DEF Structured, Paged

(* Nothing that the structure speaks of changes.                           *)
LEMMA SameStructure ==
  ASSUME NEW c, NEW d, Structured(c), Typed(d),
         Used(d) = Used(c), d.free_page_ids = c.free_page_ids,
         \A x \in Used(c) : Same(c, d, x)
  PROVE  Structured(d)
<1>0. Chained(c) /\ Paged(c)
  BY DEF Structured
<1>1. Chained(d)
  <2> SUFFICES ASSUME NEW x \in Used(c) PROVE Hangs(d, x)
    BY DEF Chained
  <2>1. Hangs(c, x) /\ Same(c, d, x)
    BY <1>0 DEF Chained
  <2>2. c.pool[x].parent_idx # NoBlock =>
          c.pool[x].parent_idx \in Used(d) /\ Same(c, d, c.pool[x].parent_idx)
    BY <2>1 DEF Hangs
  <2> QED BY <2>1, <2>2, StillHangs
<1>2. (\A x \in Used(d) : HasPages(d, x)) /\ Taken(d)
  BY <1>0 DEF Paged, HasPages, Same, Taken
<1>3. Apart(d)
  BY <1>0 DEF Paged, Same, Apart
<1>4. Listed(d)
  BY <1>0 DEF Paged, Same, Listed
<1> QED BY <1>1, <1>2, <1>3, <1>4 DEF Structured, Paged

(* Some blocks are freed with all that hangs from them.                    *)
LEMMA CutStructure ==
  ASSUME NEW c, NEW d, Structured(c), Typed(d), NEW D, D \subseteq Used(c),
         Used(d) = Used(c) \ D,
         \A x \in Used(d) : Same(c, d, x) /\ c.pool[x].parent_idx \notin D,
         \A p : p \in d.free_page_ids <=> p \in c.free_page_ids \/ \E b \in D : p \in Pages(c, b)
  PROVE  Structured(d)
<1>0. Typed(c) /\ Chained(c) /\ Paged(c) /\ Used(c) \subseteq Block
  BY DEF Structured, Used
<1>1. Chained(d)
  <2> SUFFICES ASSUME NEW x \in Used(d) PROVE Hangs(d, x)
    BY DEF Chained
  <2>1. Hangs(c, x) /\ Same(c, d, x)
    BY <1>0 DEF Chained
  <2>2. c.pool[x].parent_idx # NoBlock =>
          c.pool[x].parent_idx \in Used(d) /\ Same(c, d, c.pool[x].parent_idx)
    BY <2>1 DEF Hangs
  <2> QED BY <2>1, <2>2, StillHangs
<1>2. \A x \in Used(d) : HasPages(d, x)
  BY <1>0 DEF Paged, HasPages, Same
<1>3. Taken(d)
  <2> SUFFICES ASSUME NEW x \in Used(d), NEW i \in DOMAIN c.pool[x].page_ids
               PROVE c.pool[x].page_ids[i] \notin d.free_page_ids
    BY DEF Taken, Same
  <2>1. c.pool[x].page_ids[i] \notin c.free_page_ids
    BY <1>0 DEF Paged, Taken
  <2>2. ASSUME NEW b \in D, c.pool[x].page_ids[i] \in Pages(c, b) PROVE FALSE
    <3>1. PICK j \in DOMAIN c.pool[b].page_ids : c.pool[b].page_ids[j] = c.pool[x].page_ids[i]
      BY <1>0, <2>2, PagesOf
    <3> QED BY <1>0, <3>1 DEF Paged, Apart
  <2> QED BY <2>1, <2>2
<1>4. Apart(d)
  BY <1>0 DEF Paged, Same, Apart
<1>5. Listed(d)
  <2> SUFFICES ASSUME NEW p \in Page \ d.free_page_ids
               PROVE \E x \in Used(d) : \E i \in DOMAIN d.pool[x].page_ids : d.pool[x].page_ids[i] = p
    BY DEF Listed
  <2>1. PICK x \in Used(c) : \E i \in DOMAIN c.pool[x].page_ids : c.pool[x].page_ids[i] = p
    BY <1>0 DEF Paged, Listed
  <2>2. x \notin D
    BY <1>0, <2>1, PagesOf
  <2> QED BY <2>1, <2>2 DEF Same
<1> QED BY <1>1, <1>2, <1>3, <1>4, <1>5 DEF Structured, Paged

(* The first k pages of block b move to a new block between b and its      *)
(* parent.                                                                 *)
LEMMA SplitStructure ==
  ASSUME NEW c, NEW d, Structured(c), Typed(d),
         NEW b \in Used(c), NEW a \in Block \ Used(c), NEW k \in Nat, k > 0,
         page_size * k < c.pool[b].seq_length,
         Used(d) = Used(c) \cup {a}, d.free_page_ids = c.free_page_ids,
         \A x \in Used(c) \ {b} : Same(c, d, x),
         d.pool[a].page_ids = SubSeq(c.pool[b].page_ids, 1, k),
         d.pool[a].start_pos = c.pool[b].start_pos,
         d.pool[a].seq_length = page_size * k,
         d.pool[a].parent_idx = c.pool[b].parent_idx,
         d.pool[b].page_ids = SubSeq(c.pool[b].page_ids, k + 1, Len(c.pool[b].page_ids)),
         d.pool[b].start_pos = c.pool[b].start_pos + page_size * k,
         d.pool[b].seq_length = c.pool[b].seq_length - page_size * k,
         d.pool[b].parent_idx = a
  PROVE  Structured(d)
<1> DEFINE q == c.pool[b].page_ids
           m == page_size * k
           start == c.pool[b].start_pos
           len == c.pool[b].seq_length
<1>0. /\ Typed(c) /\ Chained(c) /\ Paged(c) /\ Used(c) \subseteq Block
      /\ a \in Block /\ a \notin Used(c) /\ a # NoBlock /\ b # a /\ b \in Block /\ b # NoBlock
  <2>1. Typed(c) /\ Chained(c) /\ Paged(c) /\ Used(c) \subseteq Block
    BY DEF Structured, Used
  <2> QED BY <2>1, BlockFields
<1>1. start \in Nat /\ len \in Nat /\ q \in Seq(Page)
  BY <1>0, BlockFields
<1>2. /\ m \in Nat /\ len - m \in Nat /\ m % page_size = 0
      /\ PagesFor(m) = k /\ k < PagesFor(len) /\ PagesFor(len - m) = PagesFor(len) - k
  BY <1>1, PagesForRest
<1>3. Len(q) = PagesFor(len) /\ Len(q) \in Nat /\ k < Len(q)
  BY <1>0, <1>1, <1>2 DEF Paged, HasPages
<1>4. /\ DOMAIN d.pool[a].page_ids = 1..k /\ Len(d.pool[a].page_ids) = k
      /\ \A i \in 1..k : i \in DOMAIN q /\ d.pool[a].page_ids[i] = q[i]
  <2> HIDE DEF q
  <2>1. d.pool[a].page_ids = SubSeq(q, 1, k)
    BY DEF q
  <2> QED BY <1>1, <1>3, <2>1
<1>5. /\ DOMAIN d.pool[b].page_ids = 1..(Len(q) - k) /\ Len(d.pool[b].page_ids) = Len(q) - k
      /\ \A i \in 1..(Len(q) - k) : k + i \in DOMAIN q /\ d.pool[b].page_ids[i] = q[k + i]
  <2> HIDE DEF q
  <2>1. d.pool[b].page_ids = SubSeq(q, k + 1, Len(q))
    BY DEF q
  <2>2. PICK n \in Nat : n = Len(q)
    BY <1>3
  <2>3. /\ SubSeq(q, k + 1, n) \in Seq(Page) /\ Len(SubSeq(q, k + 1, n)) = n - k
        /\ \A i \in 1..(n - k) : SubSeq(q, k + 1, n)[i] = q[k + i]
    BY <1>1, <1>3, <2>2, SMTT(30)
  <2>4. \A i \in 1..(n - k) : k + i \in 1..n
    BY <1>3, <2>2
  <2>5. DOMAIN q = 1..n /\ DOMAIN SubSeq(q, k + 1, n) = 1..(n - k)
    BY <1>1, <1>3, <2>2, <2>3
  <2> QED BY <2>1, <2>2, <2>3, <2>4, <2>5
<1>6. m > 0
  <2>1. page_size \in Nat /\ page_size > 0
    BY SizeAssumption
  <2>2. 0 < k /\ page_size * 0 = 0
    BY <2>1
  <2>3. page_size * 0 + page_size <= page_size * k
    BY <2>1, <2>2, TimesOrder
  <2> QED BY <1>2, <2>1, <2>2, <2>3
<1>7. Hangs(c, b)
  BY <1>0 DEF Chained
<1>8. Chained(d)
  <2>1. Hangs(d, a)
    <3>1. c.pool[b].parent_idx # NoBlock =>
            c.pool[b].parent_idx \in Used(c) \ {b} /\ Same(c, d, c.pool[b].parent_idx)
      <4> SUFFICES ASSUME c.pool[b].parent_idx # NoBlock PROVE c.pool[b].parent_idx \in Used(c) \ {b}
        OBVIOUS
      <4>1. PICK y : y = c.pool[b].parent_idx
        OBVIOUS
      <4>2. y \in Used(c) /\ c.pool[y].start_pos < c.pool[b].start_pos
        BY <1>0, <4>1, ParentFirst
      <4>3. y # b
        BY <1>1, <4>2
      <4> QED BY <4>1, <4>2, <4>3
    <3>2. CASE c.pool[b].parent_idx = NoBlock
      BY <1>7, <3>2 DEF Hangs
    <3>3. CASE c.pool[b].parent_idx # NoBlock
      BY <1>7, <3>1, <3>3 DEF Hangs, Same
    <3> QED BY <3>2, <3>3
  <2>2. Hangs(d, b)
    <3>1. (start + m) % page_size = 0
      <4>1. start % page_size = 0
        BY <1>7 DEF Hangs
      <4> HIDE DEF start, m
      <4> QED BY <1>1, <1>2, <4>1, WholePlus
    <3> QED BY <1>0, <1>2, <1>6, <3>1 DEF Hangs
  <2>3. ASSUME NEW x \in Used(c) \ {b} PROVE Hangs(d, x)
    <3>1. Hangs(c, x) /\ Same(c, d, x)
      BY <1>0 DEF Chained
    <3>2. CASE c.pool[x].parent_idx = b
      <4>1. /\ len > 0 /\ len % page_size = 0 /\ c.pool[x].start_pos = start + len
            /\ c.pool[x].start_pos % page_size = 0
        BY <1>0, <3>1, <3>2 DEF Hangs
      <4>2. (len - m) % page_size = 0
        <5>1. m <= len
          BY <1>1, <1>2
        <5> HIDE DEF len, m
        <5> QED BY <1>1, <1>2, <4>1, <5>1, WholeMinus
      <4>3. (start + m) + (len - m) = start + len
        <5> HIDE DEF start, len, m
        <5> QED BY <1>1, <1>2
      <4>4. len - m > 0
        <5> HIDE DEF start, len
        <5> QED BY <1>1, <1>2 DEF len
      <4>5. /\ d.pool[x].parent_idx = b /\ d.pool[x].start_pos = c.pool[x].start_pos
        BY <3>1, <3>2 DEF Same
      <4>6. /\ d.pool[b].seq_length = len - m /\ d.pool[b].start_pos = start + m
        OBVIOUS
      <4>7. d.pool[x].start_pos = d.pool[b].start_pos + d.pool[b].seq_length
        <5> HIDE DEF start, len, m
        <5> QED BY <4>1, <4>3, <4>5, <4>6
      <4> HIDE DEF start, len, m
      <4> QED BY <1>0, <4>1, <4>2, <4>4, <4>5, <4>6, <4>7 DEF Hangs
    <3>3. CASE c.pool[x].parent_idx # b
      <4>1. c.pool[x].parent_idx # NoBlock =>
              c.pool[x].parent_idx \in Used(d) /\ Same(c, d, c.pool[x].parent_idx)
        BY <3>1, <3>3 DEF Hangs
      <4> QED BY <3>1, <4>1, StillHangs
    <3> QED BY <3>2, <3>3
  <2> QED BY <2>1, <2>2, <2>3 DEF Chained
<1>9. \A x \in Used(d) : HasPages(d, x)
  <2>1. HasPages(d, a)
    BY <1>2, <1>4 DEF HasPages
  <2>2. HasPages(d, b)
    BY <1>2, <1>3, <1>5 DEF HasPages
  <2>3. \A x \in Used(c) \ {b} : HasPages(d, x)
    BY <1>0 DEF Paged, HasPages, Same
  <2> QED BY <2>1, <2>2, <2>3
<1> DEFINE block(x) == IF x = a THEN b ELSE x
           index(x, i) == IF x = b THEN k + i ELSE i
<1>10. ASSUME NEW x \in Used(d), NEW i \in DOMAIN d.pool[x].page_ids
       PROVE  /\ block(x) \in Used(c) /\ index(x, i) \in DOMAIN c.pool[block(x)].page_ids
              /\ d.pool[x].page_ids[i] = c.pool[block(x)].page_ids[index(x, i)]
  <2>1. CASE x = a
    BY <1>0, <1>4, <2>1
  <2>2. CASE x = b
    BY <1>0, <1>5, <2>2
  <2>3. CASE x # a /\ x # b
    BY <2>3 DEF Same
  <2> QED BY <2>1, <2>2, <2>3
<1>11. ASSUME NEW x \in Used(d), NEW y \in Used(d),
              NEW i \in DOMAIN d.pool[x].page_ids, NEW j \in DOMAIN d.pool[y].page_ids,
              block(x) = block(y), index(x, i) = index(y, j)
       PROVE  x = y /\ i = j
  <2>1. CASE x = y /\ x = b
    <3>1. i \in Int /\ j \in Int
      BY <1>3, <1>5, <2>1
    <3> QED BY <1>11, <2>1, <3>1
  <2>2. CASE x = y /\ x # b
    BY <1>11, <2>2
  <2>3. CASE x = a /\ y = b
    <3>1. i \in 1..k /\ j \in 1..(Len(q) - k) /\ i = k + j
      BY <1>0, <1>4, <1>5, <1>11, <2>3
    <3> QED BY <1>3, <3>1
  <2>4. CASE x = b /\ y = a
    <3>1. j \in 1..k /\ i \in 1..(Len(q) - k) /\ j = k + i
      BY <1>0, <1>4, <1>5, <1>11, <2>4
    <3> QED BY <1>3, <3>1
  <2>5. x # y => {x, y} = {a, b}
    BY <1>0, <1>11
  <2> QED BY <2>1, <2>2, <2>3, <2>4, <2>5
<1> HIDE DEF block, index
<1>12. Taken(d)
  <2> SUFFICES ASSUME NEW x \in Used(d), NEW i \in DOMAIN d.pool[x].page_ids
               PROVE  d.pool[x].page_ids[i] \notin d.free_page_ids
    BY DEF Taken
  <2> QED BY <1>0, <1>10 DEF Paged, Taken
<1>13. Apart(d)
  <2> SUFFICES ASSUME NEW x \in Used(d), NEW y \in Used(d),
                      NEW i \in DOMAIN d.pool[x].page_ids, NEW j \in DOMAIN d.pool[y].page_ids,
                      d.pool[x].page_ids[i] = d.pool[y].page_ids[j]
               PROVE x = y /\ i = j
    BY DEF Apart
  <2>1. block(x) = block(y) /\ index(x, i) = index(y, j)
    BY <1>0, <1>10 DEF Paged, Apart
  <2> QED BY <1>11, <2>1
<1>14. Listed(d)
  <2> SUFFICES ASSUME NEW p \in Page \ d.free_page_ids
               PROVE \E x \in Used(d) : \E i \in DOMAIN d.pool[x].page_ids : d.pool[x].page_ids[i] = p
    BY DEF Listed
  <2>1. PICK x \in Used(c) : \E i \in DOMAIN c.pool[x].page_ids : c.pool[x].page_ids[i] = p
    BY <1>0 DEF Paged, Listed
  <2>2. PICK i \in DOMAIN c.pool[x].page_ids : c.pool[x].page_ids[i] = p
    BY <2>1
  <2>3. CASE x # b
    BY <2>2, <2>3 DEF Same
  <2>4. CASE x = b
    <3>1. i \in 1..Len(q) /\ q[i] = p
      BY <1>1, <2>2, <2>4
    <3>2. CASE i <= k
      <4>1. i \in 1..k
        BY <1>3, <3>1, <3>2
      <4> QED BY <1>4, <3>1, <4>1, SMTT(30)
    <3>3. CASE ~ (i <= k)
      <4>1. i - k \in 1..(Len(q) - k) /\ k + (i - k) = i
        BY <1>3, <3>1, <3>3
      <4>2. d.pool[b].page_ids[i - k] = p
        BY <1>5, <3>1, <4>1
      <4> QED BY <1>5, <4>1, <4>2
    <3> QED BY <3>2, <3>3
  <2> QED BY <2>3, <2>4
<1> QED BY <1>8, <1>9, <1>12, <1>13, <1>14 DEF Structured, Paged

-----------------------------------------------------------------------------
(* Building caches.                                                        *)

IsCache(c, pages, blocks, pool, seqs, kv) ==
  c = [free_page_ids |-> pages, free_block_idx |-> blocks, pool |-> pool, seq_map |-> seqs, kv |-> kv]

(* The entry of a new sequence.                                            *)
LEMMA NewSequenceFacts ==
  ASSUME NEW b \in Block, NEW n \in Nat
  PROVE  /\ NewSequence(b, n) \in SequenceType
         /\ NewSequence(b, n).last_block_idx = b
         /\ NewSequence(b, n).seq_length = n
BY DEF NewSequence, SequenceType

(* The blank block.                                                        *)
LEMMA EmptyBlockFacts ==
  /\ EmptyBlock \in BlockType
  /\ EmptyBlock.page_ids = <<>> /\ EmptyBlock.start_pos = 0 /\ EmptyBlock.seq_length = 0
  /\ EmptyBlock.parent_idx = NoBlock /\ EmptyBlock.external_ref_cnt = 0
BY DEF EmptyBlock, BlockType

(* The types of a cache put together from those of another one.            *)
Parts(F, B, P, D, S) ==
  /\ F \subseteq Page
  /\ B \subseteq Block
  /\ P \in [Block -> BlockType]
  /\ \A b \in B : P[b] = EmptyBlock
  /\ D \subseteq SeqId \cup {TempSeq}
  /\ S \in [D -> SequenceType]

(* A cache put together from typed parts is typed.                         *)
LEMMA TypedCache ==
  ASSUME NEW F, NEW B, NEW P, NEW D, NEW S, Parts(F, B, P, D, S),
         NEW kv, NEW d, IsCache(d, F, B, P, S, kv)
  PROVE  /\ Typed(d) /\ SeqIds(d) = D /\ Used(d) = Block \ B
         /\ d.free_page_ids = F /\ d.free_block_idx = B /\ d.pool = P /\ d.seq_map = S /\ d.kv = kv
<1>1. d.free_page_ids = F /\ d.free_block_idx = B /\ d.pool = P /\ d.seq_map = S /\ d.kv = kv
  BY DEF IsCache
<1>2. SeqIds(d) = D /\ Used(d) = Block \ B
  BY <1>1 DEF SeqIds, Used, Parts
<1>3. d = [free_page_ids |-> d.free_page_ids, free_block_idx |-> d.free_block_idx,
           pool |-> d.pool, seq_map |-> d.seq_map, kv |-> d.kv]
  BY <1>1 DEF IsCache
<1> QED BY <1>1, <1>2, <1>3 DEF Typed, Parts

(* A typed cache is put together from its parts.                           *)
LEMMA CacheFields ==
  ASSUME NEW c, Typed(c)
  PROVE  /\ IsCache(c, c.free_page_ids, c.free_block_idx, c.pool, c.seq_map, c.kv)
         /\ c.free_page_ids \subseteq Page /\ c.free_block_idx \subseteq Block
         /\ c.pool \in [Block -> BlockType]
         /\ \A b \in c.free_block_idx : c.pool[b] = EmptyBlock
         /\ SeqIds(c) \subseteq SeqId \cup {TempSeq}
         /\ c.seq_map \in [SeqIds(c) -> SequenceType]
BY DEF Typed, IsCache

(* A new block has no children, and is one of its parent's.                *)
LEMMA NewChildren ==
  ASSUME NEW c, NEW d, Structured(c), NEW b \in Block \ Used(c), Used(d) = Used(c) \cup {b},
         \A x \in Used(c) : d.pool[x].parent_idx = c.pool[x].parent_idx,
         d.pool[b].parent_idx # b
  PROVE  /\ Children(c, b) = {} /\ Children(d, b) = {}
         /\ \A y : b \notin Children(c, y)
         /\ \A y : y # d.pool[b].parent_idx => Children(d, y) = Children(c, y)
         /\ \A y : y = d.pool[b].parent_idx => Children(d, y) = Children(c, y) \cup {b}
<1>1. \A x \in Used(c) : c.pool[x].parent_idx # b
  <2>1. b # NoBlock
    BY BlockFields DEF Structured
  <2> QED BY <2>1 DEF Structured, Chained, Hangs
<1> QED BY <1>1 DEF Children

(* No sequence ends in a free block.                                       *)
LEMMA Unowned ==
  ASSUME NEW c, Ended(c), NEW b, b \notin Used(c)
  PROVE  Owners(c, b) = {}
BY DEF Ended, Ends, Owners

(* Setting members of a cache and of a block.                              *)
LEMMA SetMembers ==
  ASSUME NEW c, NEW F, NEW B, NEW P, NEW S, NEW kv, IsCache(c, F, B, P, S, kv)
  PROVE  /\ c.free_page_ids = F /\ c.free_block_idx = B /\ c.pool = P /\ c.seq_map = S /\ c.kv = kv
         /\ \A z : IsCache([c EXCEPT !.kv = z], F, B, P, S, z)
         /\ \A z : IsCache([c EXCEPT !.pool = z], F, B, z, S, kv)
         /\ \A z : IsCache([c EXCEPT !.free_block_idx = z], F, z, P, S, kv)
         /\ \A z : IsCache([c EXCEPT !.seq_map = z], F, B, P, z, kv)
         /\ \A y, z : IsCache([c EXCEPT !.free_page_ids = y, !.kv = z], y, B, P, S, z)
         /\ \A y, z : IsCache([c EXCEPT !.free_block_idx = y, !.pool = z], F, y, z, S, kv)
         /\ \A y, z : IsCache([c EXCEPT !.pool = y, !.seq_map = z], F, B, y, z, kv)
         /\ \A y, z : IsCache([c EXCEPT !.seq_map = y, !.pool = z], F, B, z, y, kv)
         /\ \A x, y, z : IsCache([c EXCEPT !.free_page_ids = x, !.pool = y, !.kv = z], x, B, y, S, z)
         /\ \A x, y, z : IsCache([c EXCEPT !.free_page_ids = x, !.seq_map = y, !.pool = z], x, B, z, y, kv)
<1>1. c.free_page_ids = F /\ c.free_block_idx = B /\ c.pool = P /\ c.seq_map = S /\ c.kv = kv
  BY DEF IsCache
<1>2. ASSUME NEW z
      PROVE  IsCache([c EXCEPT !.kv = z], F, B, P, S, z)
  BY SMT DEF IsCache
<1>3. ASSUME NEW z
      PROVE  IsCache([c EXCEPT !.pool = z], F, B, z, S, kv)
  BY SMT DEF IsCache
<1>4. ASSUME NEW z
      PROVE  IsCache([c EXCEPT !.free_block_idx = z], F, z, P, S, kv)
  BY SMT DEF IsCache
<1>5. ASSUME NEW z
      PROVE  IsCache([c EXCEPT !.seq_map = z], F, B, P, z, kv)
  BY SMT DEF IsCache
<1>6. ASSUME NEW y, NEW z
      PROVE  IsCache([c EXCEPT !.free_page_ids = y, !.kv = z], y, B, P, S, z)
  <2>1. PICK e1 : e1 = [c EXCEPT !.free_page_ids = y]
    OBVIOUS
  <2>2. IsCache(e1, y, B, P, S, kv)
    BY <2>1, SMT DEF IsCache
  <2>3. [c EXCEPT !.free_page_ids = y, !.kv = z] = [e1 EXCEPT !.kv = z]
    BY <2>1, Zenon
  <2>4. IsCache([e1 EXCEPT !.kv = z], y, B, P, S, z)
    BY <2>2, SMT DEF IsCache
  <2> QED BY <2>3, <2>4, Zenon
<1>7. ASSUME NEW y, NEW z
      PROVE  IsCache([c EXCEPT !.free_block_idx = y, !.pool = z], F, y, z, S, kv)
  <2>1. PICK e1 : e1 = [c EXCEPT !.free_block_idx = y]
    OBVIOUS
  <2>2. IsCache(e1, F, y, P, S, kv)
    BY <2>1, SMT DEF IsCache
  <2>3. [c EXCEPT !.free_block_idx = y, !.pool = z] = [e1 EXCEPT !.pool = z]
    BY <2>1, Zenon
  <2>4. IsCache([e1 EXCEPT !.pool = z], F, y, z, S, kv)
    BY <2>2, SMT DEF IsCache
  <2> QED BY <2>3, <2>4, Zenon
<1>8. ASSUME NEW y, NEW z
      PROVE  IsCache([c EXCEPT !.pool = y, !.seq_map = z], F, B, y, z, kv)
  <2>1. PICK e1 : e1 = [c EXCEPT !.pool = y]
    OBVIOUS
  <2>2. IsCache(e1, F, B, y, S, kv)
    BY <2>1, SMT DEF IsCache
  <2>3. [c EXCEPT !.pool = y, !.seq_map = z] = [e1 EXCEPT !.seq_map = z]
    BY <2>1, Zenon
  <2>4. IsCache([e1 EXCEPT !.seq_map = z], F, B, y, z, kv)
    BY <2>2, SMT DEF IsCache
  <2> QED BY <2>3, <2>4, Zenon
<1>9. ASSUME NEW y, NEW z
      PROVE  IsCache([c EXCEPT !.seq_map = y, !.pool = z], F, B, z, y, kv)
  <2>1. PICK e1 : e1 = [c EXCEPT !.seq_map = y]
    OBVIOUS
  <2>2. IsCache(e1, F, B, P, y, kv)
    BY <2>1, SMT DEF IsCache
  <2>3. [c EXCEPT !.seq_map = y, !.pool = z] = [e1 EXCEPT !.pool = z]
    BY <2>1, Zenon
  <2>4. IsCache([e1 EXCEPT !.pool = z], F, B, z, y, kv)
    BY <2>2, SMT DEF IsCache
  <2> QED BY <2>3, <2>4, Zenon
<1>10. ASSUME NEW x, NEW y, NEW z
      PROVE  IsCache([c EXCEPT !.free_page_ids = x, !.pool = y, !.kv = z], x, B, y, S, z)
  <2>1. PICK e1 : e1 = [c EXCEPT !.free_page_ids = x]
    OBVIOUS
  <2>2. IsCache(e1, x, B, P, S, kv)
    BY <2>1, SMT DEF IsCache
  <2>3. [c EXCEPT !.free_page_ids = x, !.pool = y, !.kv = z] = [e1 EXCEPT !.pool = y, !.kv = z]
    BY <2>1, Zenon
  <2>4. PICK e2 : e2 = [e1 EXCEPT !.pool = y]
    OBVIOUS
  <2>5. IsCache(e2, x, B, y, S, kv)
    BY <2>2, <2>4, SMT DEF IsCache
  <2>6. [e1 EXCEPT !.pool = y, !.kv = z] = [e2 EXCEPT !.kv = z]
    BY <2>4, Zenon
  <2>7. IsCache([e2 EXCEPT !.kv = z], x, B, y, S, z)
    BY <2>5, SMT DEF IsCache
  <2> QED BY <2>3, <2>6, <2>7, Zenon
<1>11. ASSUME NEW x, NEW y, NEW z
      PROVE  IsCache([c EXCEPT !.free_page_ids = x, !.seq_map = y, !.pool = z], x, B, z, y, kv)
  <2>1. PICK e1 : e1 = [c EXCEPT !.free_page_ids = x]
    OBVIOUS
  <2>2. IsCache(e1, x, B, P, S, kv)
    BY <2>1, SMT DEF IsCache
  <2>3. [c EXCEPT !.free_page_ids = x, !.seq_map = y, !.pool = z] = [e1 EXCEPT !.seq_map = y, !.pool = z]
    BY <2>1, Zenon
  <2>4. PICK e2 : e2 = [e1 EXCEPT !.seq_map = y]
    OBVIOUS
  <2>5. IsCache(e2, x, B, P, y, kv)
    BY <2>2, <2>4, SMT DEF IsCache
  <2>6. [e1 EXCEPT !.seq_map = y, !.pool = z] = [e2 EXCEPT !.pool = z]
    BY <2>4, Zenon
  <2>7. IsCache([e2 EXCEPT !.pool = z], x, B, z, y, kv)
    BY <2>5, SMT DEF IsCache
  <2> QED BY <2>3, <2>6, <2>7, Zenon
<1> QED BY <1>1, <1>2, <1>3, <1>4, <1>5, <1>6, <1>7, <1>8, <1>9, <1>10, <1>11, Zenon

IsBlock(e, pages, start, length, parent, refs) ==
  e = [page_ids |-> pages, start_pos |-> start, seq_length |-> length, parent_idx |-> parent,
       external_ref_cnt |-> refs, sink_length |-> 0, sliding_window_offset |-> 0]

(* A block put together from typed members is typed.                       *)
LEMMA BlockTyped ==
  ASSUME NEW p \in Seq(Page), NEW n \in Nat, NEW l \in Nat, NEW u \in Block \cup {NoBlock}, NEW r \in Nat,
         NEW e, IsBlock(e, p, n, l, u, r)
  PROVE  e \in BlockType
BY DEF IsBlock, BlockType

(* What assigning members does to a block.                                 *)
LEMMA SetBlock ==
  ASSUME NEW e, NEW p, NEW n, NEW l, NEW u, NEW r, IsBlock(e, p, n, l, u, r)
  PROVE  /\ e.page_ids = p /\ e.start_pos = n /\ e.seq_length = l /\ e.parent_idx = u /\ e.external_ref_cnt = r
         /\ \A z : IsBlock([e EXCEPT !.page_ids = z], z, n, l, u, r)
         /\ \A z : IsBlock([e EXCEPT !.seq_length = z], p, n, z, u, r)
         /\ \A z : IsBlock([e EXCEPT !.external_ref_cnt = z], p, n, l, u, z)
         /\ \A y, z : IsBlock([e EXCEPT !.page_ids = y, !.seq_length = z], y, n, z, u, r)
         /\ \A x, y, z : IsBlock([e EXCEPT !.start_pos = x, !.parent_idx = y, !.external_ref_cnt = z], p, x, l, y, z)
         /\ \A w, x, y, z : IsBlock([e EXCEPT !.page_ids = w, !.start_pos = x, !.seq_length = y, !.parent_idx = z], w, x, y, z, r)
         /\ \A w, x, y, z : IsBlock([e EXCEPT !.start_pos = w, !.seq_length = x, !.parent_idx = y, !.external_ref_cnt = z], p, w, x, y, z)
         /\ \A v, w, x, y, z : IsBlock([e EXCEPT !.page_ids = v, !.start_pos = w, !.seq_length = x, !.parent_idx = y, !.external_ref_cnt = z], v, w, x, y, z)
<1>1. e.page_ids = p /\ e.start_pos = n /\ e.seq_length = l /\ e.parent_idx = u /\ e.external_ref_cnt = r
  BY DEF IsBlock
<1>2. ASSUME NEW z
      PROVE  IsBlock([e EXCEPT !.page_ids = z], z, n, l, u, r)
  BY SMT DEF IsBlock
<1>3. ASSUME NEW z
      PROVE  IsBlock([e EXCEPT !.seq_length = z], p, n, z, u, r)
  BY SMT DEF IsBlock
<1>4. ASSUME NEW z
      PROVE  IsBlock([e EXCEPT !.external_ref_cnt = z], p, n, l, u, z)
  BY SMT DEF IsBlock
<1>5. ASSUME NEW y, NEW z
      PROVE  IsBlock([e EXCEPT !.page_ids = y, !.seq_length = z], y, n, z, u, r)
  <2>1. PICK e1 : e1 = [e EXCEPT !.page_ids = y]
    OBVIOUS
  <2>2. IsBlock(e1, y, n, l, u, r)
    BY <2>1, SMT DEF IsBlock
  <2>3. [e EXCEPT !.page_ids = y, !.seq_length = z] = [e1 EXCEPT !.seq_length = z]
    BY <2>1, Zenon
  <2>4. IsBlock([e1 EXCEPT !.seq_length = z], y, n, z, u, r)
    BY <2>2, SMT DEF IsBlock
  <2> QED BY <2>3, <2>4, Zenon
<1>6. ASSUME NEW x, NEW y, NEW z
      PROVE  IsBlock([e EXCEPT !.start_pos = x, !.parent_idx = y, !.external_ref_cnt = z], p, x, l, y, z)
  <2>1. PICK e1 : e1 = [e EXCEPT !.start_pos = x]
    OBVIOUS
  <2>2. IsBlock(e1, p, x, l, u, r)
    BY <2>1, SMT DEF IsBlock
  <2>3. [e EXCEPT !.start_pos = x, !.parent_idx = y, !.external_ref_cnt = z] = [e1 EXCEPT !.parent_idx = y, !.external_ref_cnt = z]
    BY <2>1, Zenon
  <2>4. PICK e2 : e2 = [e1 EXCEPT !.parent_idx = y]
    OBVIOUS
  <2>5. IsBlock(e2, p, x, l, y, r)
    BY <2>2, <2>4, SMT DEF IsBlock
  <2>6. [e1 EXCEPT !.parent_idx = y, !.external_ref_cnt = z] = [e2 EXCEPT !.external_ref_cnt = z]
    BY <2>4, Zenon
  <2>7. IsBlock([e2 EXCEPT !.external_ref_cnt = z], p, x, l, y, z)
    BY <2>5, SMT DEF IsBlock
  <2> QED BY <2>3, <2>6, <2>7, Zenon
<1>7. ASSUME NEW w, NEW x, NEW y, NEW z
      PROVE  IsBlock([e EXCEPT !.page_ids = w, !.start_pos = x, !.seq_length = y, !.parent_idx = z], w, x, y, z, r)
  <2>1. PICK e1 : e1 = [e EXCEPT !.page_ids = w]
    OBVIOUS
  <2>2. IsBlock(e1, w, n, l, u, r)
    BY <2>1, SMT DEF IsBlock
  <2>3. [e EXCEPT !.page_ids = w, !.start_pos = x, !.seq_length = y, !.parent_idx = z] = [e1 EXCEPT !.start_pos = x, !.seq_length = y, !.parent_idx = z]
    BY <2>1, Zenon
  <2>4. PICK e2 : e2 = [e1 EXCEPT !.start_pos = x]
    OBVIOUS
  <2>5. IsBlock(e2, w, x, l, u, r)
    BY <2>2, <2>4, SMT DEF IsBlock
  <2>6. [e1 EXCEPT !.start_pos = x, !.seq_length = y, !.parent_idx = z] = [e2 EXCEPT !.seq_length = y, !.parent_idx = z]
    BY <2>4, Zenon
  <2>7. PICK e3 : e3 = [e2 EXCEPT !.seq_length = y]
    OBVIOUS
  <2>8. IsBlock(e3, w, x, y, u, r)
    BY <2>5, <2>7, SMT DEF IsBlock
  <2>9. [e2 EXCEPT !.seq_length = y, !.parent_idx = z] = [e3 EXCEPT !.parent_idx = z]
    BY <2>7, Zenon
  <2>10. IsBlock([e3 EXCEPT !.parent_idx = z], w, x, y, z, r)
    BY <2>8, SMT DEF IsBlock
  <2> QED BY <2>3, <2>6, <2>9, <2>10, Zenon
<1>8. ASSUME NEW w, NEW x, NEW y, NEW z
      PROVE  IsBlock([e EXCEPT !.start_pos = w, !.seq_length = x, !.parent_idx = y, !.external_ref_cnt = z], p, w, x, y, z)
  <2>1. PICK e1 : e1 = [e EXCEPT !.start_pos = w]
    OBVIOUS
  <2>2. IsBlock(e1, p, w, l, u, r)
    BY <2>1, SMT DEF IsBlock
  <2>3. [e EXCEPT !.start_pos = w, !.seq_length = x, !.parent_idx = y, !.external_ref_cnt = z] = [e1 EXCEPT !.seq_length = x, !.parent_idx = y, !.external_ref_cnt = z]
    BY <2>1, Zenon
  <2>4. PICK e2 : e2 = [e1 EXCEPT !.seq_length = x]
    OBVIOUS
  <2>5. IsBlock(e2, p, w, x, u, r)
    BY <2>2, <2>4, SMT DEF IsBlock
  <2>6. [e1 EXCEPT !.seq_length = x, !.parent_idx = y, !.external_ref_cnt = z] = [e2 EXCEPT !.parent_idx = y, !.external_ref_cnt = z]
    BY <2>4, Zenon
  <2>7. PICK e3 : e3 = [e2 EXCEPT !.parent_idx = y]
    OBVIOUS
  <2>8. IsBlock(e3, p, w, x, y, r)
    BY <2>5, <2>7, SMT DEF IsBlock
  <2>9. [e2 EXCEPT !.parent_idx = y, !.external_ref_cnt = z] = [e3 EXCEPT !.external_ref_cnt = z]
    BY <2>7, Zenon
  <2>10. IsBlock([e3 EXCEPT !.external_ref_cnt = z], p, w, x, y, z)
    BY <2>8, SMT DEF IsBlock
  <2> QED BY <2>3, <2>6, <2>9, <2>10, Zenon
<1>9. ASSUME NEW v, NEW w, NEW x, NEW y, NEW z
      PROVE  IsBlock([e EXCEPT !.page_ids = v, !.start_pos = w, !.seq_length = x, !.parent_idx = y, !.external_ref_cnt = z], v, w, x, y, z)
  <2>1. PICK e1 : e1 = [e EXCEPT !.page_ids = v]
    OBVIOUS
  <2>2. IsBlock(e1, v, n, l, u, r)
    BY <2>1, SMT DEF IsBlock
  <2>3. [e EXCEPT !.page_ids = v, !.start_pos = w, !.seq_length = x, !.parent_idx = y, !.external_ref_cnt = z] = [e1 EXCEPT !.start_pos = w, !.seq_length = x, !.parent_idx = y, !.external_ref_cnt = z]
    BY <2>1, Zenon
  <2>4. PICK e2 : e2 = [e1 EXCEPT !.start_pos = w]
    OBVIOUS
  <2>5. IsBlock(e2, v, w, l, u, r)
    BY <2>2, <2>4, SMT DEF IsBlock
  <2>6. [e1 EXCEPT !.start_pos = w, !.seq_length = x, !.parent_idx = y, !.external_ref_cnt = z] = [e2 EXCEPT !.seq_length = x, !.parent_idx = y, !.external_ref_cnt = z]
    BY <2>4, Zenon
  <2>7. PICK e3 : e3 = [e2 EXCEPT !.seq_length = x]
    OBVIOUS
  <2>8. IsBlock(e3, v, w, x, u, r)
    BY <2>5, <2>7, SMT DEF IsBlock
  <2>9. [e2 EXCEPT !.seq_length = x, !.parent_idx = y, !.external_ref_cnt = z] = [e3 EXCEPT !.parent_idx = y, !.external_ref_cnt = z]
    BY <2>7, Zenon
  <2>10. PICK e4 : e4 = [e3 EXCEPT !.parent_idx = y]
    OBVIOUS
  <2>11. IsBlock(e4, v, w, x, y, r)
    BY <2>8, <2>10, SMT DEF IsBlock
  <2>12. [e3 EXCEPT !.parent_idx = y, !.external_ref_cnt = z] = [e4 EXCEPT !.external_ref_cnt = z]
    BY <2>10, Zenon
  <2>13. IsBlock([e4 EXCEPT !.external_ref_cnt = z], v, w, x, y, z)
    BY <2>11, SMT DEF IsBlock
  <2> QED BY <2>3, <2>6, <2>9, <2>12, <2>13, Zenon
<1> QED BY <1>1, <1>2, <1>3, <1>4, <1>5, <1>6, <1>7, <1>8, <1>9, Zenon

(* A typed block is put together from its members.                         *)
LEMMA BlockForm ==
  /\ IsBlock(EmptyBlock, <<>>, 0, 0, NoBlock, 0)
  /\ \A e \in BlockType : IsBlock(e, e.page_ids, e.start_pos, e.seq_length, e.parent_idx, e.external_ref_cnt)
BY DEF EmptyBlock, IsBlock, BlockType

(* The parts after a block is taken.                                       *)
LEMMA WithBlockIs ==
  ASSUME NEW c, NEW F, NEW B, NEW P, NEW S, NEW kv, IsCache(c, F, B, P, S, kv), NEW b, NEW block
  PROVE  IsCache(WithBlock(c, b, block), F, B \ {b}, [P EXCEPT ![b] = block], S, kv)
<1>1. c.free_block_idx = B /\ c.pool = P
  BY SetMembers, Zenon
<1>2. WithBlock(c, b, block) = [c EXCEPT !.free_block_idx = c.free_block_idx \ {b},
                                         !.pool = [c.pool EXCEPT ![b] = block]]
  BY Zenon DEF WithBlock
<1>3. \A y, z : IsCache([c EXCEPT !.free_block_idx = y, !.pool = z], F, y, z, S, kv)
  BY SetMembers, Zenon
<1>4. PICK x, Q : x = c.free_block_idx \ {b} /\ Q = [c.pool EXCEPT ![b] = block]
  OBVIOUS
<1>5. IsCache([c EXCEPT !.free_block_idx = x, !.pool = Q], F, x, Q, S, kv)
  BY <1>3, Zenon
<1>6. IsCache(WithBlock(c, b, block), F, x, Q, S, kv)
  BY <1>2, <1>4, <1>5, Zenon
<1>7. x = B \ {b} /\ Q = [P EXCEPT ![b] = block]
  BY <1>1, <1>4, Zenon
<1> QED BY <1>6, <1>7, Zenon

(* The tokens in the pages that are freed are gone.                        *)
Forgotten(kv, k, pages) == k = [p \in Page |-> IF p \in pages THEN EmptyPage ELSE kv[p]]

(* The parts after pages are freed.                                        *)
LEMMA FreePagesIs ==
  ASSUME NEW c, NEW F, NEW B, NEW P, NEW S, NEW kv, IsCache(c, F, B, P, S, kv), NEW pages
  PROVE  \E k : IsCache(FreePages(c, pages), F \cup pages, B, P, S, k) /\ Forgotten(kv, k, pages)
<1>1. c.free_page_ids = F /\ c.kv = kv
  BY SetMembers, Zenon
<1> DEFINE k == [p \in Page |-> IF p \in pages THEN EmptyPage ELSE c.kv[p]]
<1>2. FreePages(c, pages) = [c EXCEPT !.free_page_ids = c.free_page_ids \cup pages, !.kv = k]
  BY Zenon DEF FreePages
<1> HIDE DEF k
<1>3. \A y, z : IsCache([c EXCEPT !.free_page_ids = y, !.kv = z], y, B, P, S, z)
  BY SetMembers, Zenon
<1>4. IsCache(FreePages(c, pages), F \cup pages, B, P, S, k)
  BY <1>1, <1>2, <1>3, Zenon
<1>5. Forgotten(kv, k, pages)
  BY <1>1, Zenon DEF k, Forgotten
<1> QED BY <1>4, <1>5, Zenon

(* The parts after blocks are freed with their pages.                      *)
BlocksGone(c, F, B, P, S, kv, blocks, k) ==
  LET pages == UNION {Elements(P[b].page_ids) : b \in blocks} IN
  /\ IsCache(FreeBlocks(c, blocks), F \cup pages, B \cup blocks,
             [b \in Block |-> IF b \in blocks THEN EmptyBlock ELSE P[b]], S, k)
  /\ Forgotten(kv, k, pages)
LEMMA FreeBlocksIs ==
  ASSUME NEW c, NEW F, NEW B, NEW P, NEW S, NEW kv, IsCache(c, F, B, P, S, kv), NEW blocks
  PROVE  \E k : BlocksGone(c, F, B, P, S, kv, blocks, k)
<1>1. c.free_page_ids = F /\ c.pool = P
  BY SetMembers, Zenon
<1> DEFINE pages == UNION {ToSet(c.pool[b].page_ids) : b \in blocks}
<1>2. pages = UNION {Elements(P[b].page_ids) : b \in blocks}
  BY <1>1 DEF ToSet, Elements
<1> HIDE DEF pages
<1>3. PICK k : IsCache(FreePages(c, pages), F \cup pages, B, P, S, k) /\ Forgotten(kv, k, pages)
  BY FreePagesIs, Zenon
<1>4. PICK e : e = FreePages(c, pages)
  OBVIOUS
<1>5. IsCache(e, F \cup pages, B, P, S, k)
  BY <1>3, <1>4
<1>6. e.free_block_idx = B /\ e.pool = P
  BY <1>5, SetMembers, Zenon
<1>7. \A y, z : IsCache([e EXCEPT !.free_block_idx = y, !.pool = z], F \cup pages, y, z, S, k)
  BY <1>5, SetMembers, Zenon
<1>8. FreeBlocks(c, blocks) = [e EXCEPT !.free_block_idx = e.free_block_idx \cup blocks,
        !.pool = [b \in Block |-> IF b \in blocks THEN EmptyBlock ELSE e.pool[b]]]
  BY <1>4, Zenon DEF FreeBlocks, pages
<1>9. PICK x, Q : /\ x = e.free_block_idx \cup blocks
                  /\ Q = [b \in Block |-> IF b \in blocks THEN EmptyBlock ELSE e.pool[b]]
  OBVIOUS
<1>10. IsCache([e EXCEPT !.free_block_idx = x, !.pool = Q], F \cup pages, x, Q, S, k)
  BY <1>7, Zenon
<1>11. IsCache(FreeBlocks(c, blocks), F \cup pages, x, Q, S, k)
  BY <1>8, <1>9, <1>10, Zenon
<1>12. x = B \cup blocks /\ Q = [b \in Block |-> IF b \in blocks THEN EmptyBlock ELSE P[b]]
  BY <1>6, <1>9, Zenon
<1> QED BY <1>2, <1>3, <1>11, <1>12, Zenon DEF BlocksGone

-----------------------------------------------------------------------------
(* A sequence that ends in a new block.                                    *)

(* Adding an element to a finite set and taking one away.                  *)
LEMMA CardPlus ==
  ASSUME NEW S, IsFiniteSet(S), NEW x
  PROVE  /\ Cardinality(S) \in Nat
         /\ x \notin S => Cardinality(S \cup {x}) = Cardinality(S) + 1
         /\ x \in S => Cardinality(S \ {x}) = Cardinality(S) - 1
         /\ Cardinality({x}) = 1 /\ Cardinality({}) = 0
<1>1. Cardinality(S) \in Nat
  BY FS_CardinalityType
<1>2. x \notin S => Cardinality(S \cup {x}) = Cardinality(S) + 1
  BY FS_AddElement
<1>3. x \in S => Cardinality(S \ {x}) = Cardinality(S) - 1
  BY FS_RemoveElement
<1>4. Cardinality({x}) = 1
  BY FS_Singleton
<1>5. Cardinality({}) = 0
  BY FS_EmptySet
<1> QED BY <1>1, <1>2, <1>3, <1>4, <1>5

(* Block b is new below u and the last one of s, which may have had        *)
(* another one.                                                            *)
NewBelow(c, d, s, b, u) ==
  /\ Used(d) = Used(c) \cup {b}
  /\ \A x \in Used(c) : Same(c, d, x)
  /\ d.pool[b].parent_idx = u
  /\ d.pool[b].external_ref_cnt = 1
  /\ SeqIds(d) = SeqIds(c) \cup {s}
  /\ d.seq_map[s].last_block_idx = b
  /\ d.seq_map[s].seq_length = d.pool[b].start_pos + d.pool[b].seq_length
  /\ \A x \in SeqIds(c) \ {s} : d.seq_map[x] = c.seq_map[x]

(* The references in d are those in c, but for what s and u change.        *)
Referred(c, d, s, u) ==
  \A x \in Used(c) :
    /\ d.pool[x].external_ref_cnt + (IF s \in Owners(c, x) THEN 1 ELSE 0) =
         Cardinality(Children(c, x)) + Cardinality(Owners(c, x)) + (IF x = u THEN 1 ELSE 0)
    /\ d.pool[x].external_ref_cnt > 0
NotLast(c, S, u) == \A x \in S : c.seq_map[x].last_block_idx # u

(* A new last block for s keeps the references in order.                   *)
LEMMA NewLast ==
  ASSUME NEW c, NEW d, Structured(c), Typed(d), Ended(c), NEW X, Private(c, X),
         NEW b \in Block \ Used(c), NEW s, NEW u, u # b,
         NewBelow(c, d, s, b, u), Referred(c, d, s, u), NotLast(c, SeqIds(c) \ (X \cup {s}), u)
  PROVE  Linked(d, X \ {s})
<1> USE DEF NewBelow, Referred, NotLast
<1>1. Typed(c)
  BY DEF Structured
<1>2. /\ Children(c, b) = {} /\ Children(d, b) = {}
      /\ \A y : b \notin Children(c, y)
      /\ \A y : y # u => Children(d, y) = Children(c, y)
      /\ Children(d, u) = Children(c, u) \cup {b}
  <2>1. \A x \in Used(c) : d.pool[x].parent_idx = c.pool[x].parent_idx
    BY DEF Same
  <2> QED BY <2>1, NewChildren
<1>3. /\ Owners(c, b) = {} /\ Owners(d, b) = {s}
      /\ \A y : y # b => Owners(d, y) = Owners(c, y) \ {s}
  <2>1. Owners(c, b) = {}
    BY Unowned
  <2>2. \A x \in SeqIds(c) \ {s} : d.seq_map[x].last_block_idx = c.seq_map[x].last_block_idx
    OBVIOUS
  <2>3. /\ Owners(d, b) = Owners(c, b) \cup {s}
        /\ \A y : y # b => Owners(d, y) = Owners(c, y) \ {s}
    <3>1. SeqIds(d) = SeqIds(c) \cup {s} /\ d.seq_map[s].last_block_idx = b
      OBVIOUS
    <3> HIDE DEF NewBelow, Referred, NotLast
    <3>2. Owners(d, b) = Owners(c, b) \cup {s}
      <4>1. s \in Owners(d, b)
        BY <3>1 DEF Owners
      <4>2. \A x : x # s => (x \in Owners(d, b) <=> x \in Owners(c, b))
        BY <2>2, <3>1 DEF Owners
      <4> QED BY <4>1, <4>2
    <3>3. ASSUME NEW y, y # b PROVE Owners(d, y) = Owners(c, y) \ {s}
      <4>1. s \notin Owners(d, y)
        BY <3>1, <3>3 DEF Owners
      <4>2. \A x : x # s => (x \in Owners(d, y) <=> x \in Owners(c, y))
        BY <2>2, <3>1 DEF Owners
      <4> QED BY <4>1, <4>2
    <3> QED BY <3>2, <3>3
  <2> QED BY <2>1, <2>3
<1>4. Counted(d)
  <2>1. ASSUME NEW x \in Used(c) PROVE Counts(d, x)
    <3>1. x # b
      OBVIOUS
    <3>2. /\ IsFiniteSet(Children(c, x)) /\ IsFiniteSet(Owners(c, x))
          /\ Cardinality(Children(c, x)) \in Nat /\ Cardinality(Owners(c, x)) \in Nat
      BY <1>1, UsedBlocks, OwnersFinite
    <3>3. Cardinality(Children(d, x)) = Cardinality(Children(c, x)) + (IF x = u THEN 1 ELSE 0)
      <4>1. CASE x = u
        <5>1. PICK S : S = Children(c, x)
          OBVIOUS
        <5>2. IsFiniteSet(S) /\ b \notin S /\ Children(d, x) = S \cup {b}
          BY <1>2, <3>2, <4>1, <5>1
        <5>3. Cardinality(S \cup {b}) = Cardinality(S) + 1
          BY <5>2, CardPlus
        <5> QED BY <4>1, <5>1, <5>2, <5>3
      <4>2. CASE x # u
        BY <1>2, <3>2, <4>2
      <4> QED BY <4>1, <4>2
    <3>4. Cardinality(Owners(d, x)) = Cardinality(Owners(c, x)) - (IF s \in Owners(c, x) THEN 1 ELSE 0)
      <4>1. Owners(d, x) = Owners(c, x) \ {s}
        BY <1>3, <3>1
      <4>2. CASE s \in Owners(c, x)
        <5>1. PICK S : S = Owners(c, x)
          OBVIOUS
        <5>2. IsFiniteSet(S) /\ s \in S
          BY <3>2, <4>2, <5>1
        <5>3. Cardinality(S \ {s}) = Cardinality(S) - 1
          BY <5>2, CardPlus
        <5> QED BY <4>1, <4>2, <5>1, <5>3
      <4>3. CASE s \notin Owners(c, x)
        <5>1. Owners(d, x) = Owners(c, x)
          BY <4>1, <4>3
        <5> QED BY <3>2, <4>3, <5>1
      <4> QED BY <4>2, <4>3
    <3>5. d.pool[x].external_ref_cnt \in Nat
      <4>1. x \in Block
        BY UsedBlocks
      <4> QED BY <4>1, BlockFields
    <3>6. /\ d.pool[x].external_ref_cnt + (IF s \in Owners(c, x) THEN 1 ELSE 0) =
                Cardinality(Children(c, x)) + Cardinality(Owners(c, x)) + (IF x = u THEN 1 ELSE 0)
          /\ d.pool[x].external_ref_cnt > 0
      OBVIOUS
    <3>7. d.pool[x].external_ref_cnt = Cardinality(Children(d, x)) + Cardinality(Owners(d, x))
      BY <3>2, <3>3, <3>4, <3>5, <3>6
    <3> QED BY <3>6, <3>7 DEF Counts
  <2>2. Counts(d, b)
    <3>1. Cardinality({s}) = 1 /\ Cardinality({}) = 0
      BY FS_EmptySet, FS_Singleton
    <3>2. Cardinality(Children(d, b)) = 0 /\ Cardinality(Owners(d, b)) = 1
      BY <1>2, <1>3, <3>1
    <3> QED BY <3>2 DEF Counts
  <2> QED BY <2>1, <2>2 DEF Counted
<1>5. Ended(d)
  <2>1. ASSUME NEW x \in SeqIds(c) \ {s} PROVE Ends(d, x)
    <3>1. Ends(c, x)
      BY DEF Ended
    <3>2. d.seq_map[x] = c.seq_map[x]
      OBVIOUS
    <3>3. Same(c, d, c.seq_map[x].last_block_idx)
      BY <3>1 DEF Ends
    <3> QED BY <3>1, <3>2, <3>3 DEF Ends, LastBlock, Same
  <2>2. Ends(d, s)
    BY DEF Ends, LastBlock
  <2> QED BY <2>1, <2>2 DEF Ended
<1>6. Private(d, X \ {s})
  <2>1. ASSUME NEW x \in SeqIds(c) \ (X \cup {s}) PROVE Alone(d, x)
    <3>1. Alone(c, x) /\ c.seq_map[x].last_block_idx \in Used(c) /\ c.seq_map[x].last_block_idx # u
      BY DEF Private, Ended, Ends
    <3>2. d.seq_map[x].last_block_idx = c.seq_map[x].last_block_idx
      OBVIOUS
    <3> QED BY <1>2, <1>3, <3>1, <3>2 DEF Alone
  <2>2. Alone(d, s)
    BY <1>2, <1>3 DEF Alone
  <2> QED BY <2>1, <2>2 DEF Private
<1> QED BY <1>4, <1>5, <1>6 DEF Linked

(* AddSequence takes a block for the sequence and references it once.      *)
LEMMA AddedWhole ==
  ASSUME NEW c, Whole(c, {}), NEW s \in SeqId \ SeqIds(c), SeqIds(c) \subseteq SeqId
  PROVE  LET d == Added(c, s) IN
         /\ Whole(d, {}) /\ SeqIds(d) = SeqIds(c) \cup {s}
         /\ Keeps(c, d) /\ d.seq_map[s].seq_length = 0
         /\ \A x \in SeqIds(c) : d.seq_map[x] = c.seq_map[x]
<1> DEFINE b == GetFreeBlock(c)
<1>1. /\ Structured(c) /\ Linked(c, {}) /\ Typed(c) /\ Counted(c) /\ Ended(c) /\ Private(c, {})
  BY DEF Whole, Linked, Structured
<1>2. Cardinality(SeqIds(c)) < Cardinality(SeqId)
  <2>1. IsFiniteSet(SeqId) /\ IsFiniteSet(SeqIds(c)) /\ SeqIds(c) # SeqId
    BY <1>1, PoolAssumption, OwnersFinite
  <2>2. Cardinality(SeqIds(c)) <= Cardinality(SeqId) /\ Cardinality(SeqIds(c)) # Cardinality(SeqId)
    BY <2>1, FS_Subset
  <2>3. Cardinality(SeqIds(c)) \in Nat /\ Cardinality(SeqId) \in Nat
    BY <2>1, FS_CardinalityType
  <2> QED BY <2>2, <2>3
<1>3. b \in c.free_block_idx
  BY <1>1, <1>2, TwoBlocksFree DEF Room
<1> HIDE DEF b
<1>4. PICK F, B, P, S, kv :
        /\ F = c.free_page_ids /\ B = c.free_block_idx /\ P = c.pool /\ S = c.seq_map /\ kv = c.kv
  OBVIOUS
<1>5. /\ IsCache(c, F, B, P, S, kv)
      /\ F \subseteq Page /\ B \subseteq Block /\ P \in [Block -> BlockType]
      /\ (\A x \in B : P[x] = EmptyBlock)
      /\ SeqIds(c) \subseteq SeqId \cup {TempSeq} /\ S \in [SeqIds(c) -> SequenceType]
  BY <1>1, <1>4, CacheFields
<1>6. b \in Block \ Used(c) /\ Block \ (B \ {b}) = Used(c) \cup {b}
  BY <1>1, <1>3, <1>4, <1>5 DEF Used
<1>7. PICK new : new = [EmptyBlock EXCEPT !.external_ref_cnt = 1]
  OBVIOUS
<1>8. IsBlock(new, <<>>, 0, 0, NoBlock, 1)
  <2>1. \A z : IsBlock([EmptyBlock EXCEPT !.external_ref_cnt = z], <<>>, 0, 0, NoBlock, z)
    BY BlockForm, SetBlock, Zenon
  <2> QED BY <1>7, <2>1, Zenon
<1>9. /\ new \in BlockType /\ new.page_ids = <<>> /\ new.start_pos = 0 /\ new.seq_length = 0
      /\ new.parent_idx = NoBlock /\ new.external_ref_cnt = 1
  <2>1. new.page_ids = <<>> /\ new.start_pos = 0 /\ new.seq_length = 0
        /\ new.parent_idx = NoBlock /\ new.external_ref_cnt = 1
    BY <1>8, SetBlock, Zenon
  <2>2. <<>> \in Seq(Page)
    OBVIOUS
  <2>3. new \in BlockType
    BY <1>8, <2>2, BlockTyped
  <2> QED BY <2>1, <2>3
<1>10. PICK w : w = WithBlock(c, b, new)
  OBVIOUS
<1>11. IsCache(w, F, B \ {b}, [P EXCEPT ![b] = new], S, kv)
  BY <1>5, <1>10, WithBlockIs, Zenon
<1>12. PICK Q, T : Q = [P EXCEPT ![b] = new] /\ T = Put(S, s, NewSequence(b, 0))
  OBVIOUS
<1>13. PICK d : d = [w EXCEPT !.seq_map = T]
  OBVIOUS
<1>14. IsCache(d, F, B \ {b}, Q, T, kv)
  <2>1. IsCache(w, F, B \ {b}, Q, S, kv)
    BY <1>11, <1>12, Zenon
  <2>2. \A z : IsCache([w EXCEPT !.seq_map = z], F, B \ {b}, Q, z, kv)
    BY <2>1, SetMembers, Zenon
  <2> QED BY <1>13, <2>2, Zenon
<1>15. Added(c, s) = d
  <2>1. w.seq_map = S
    BY <1>11, SetMembers, Zenon
  <2>2. Added(c, s) = [w EXCEPT !.seq_map = Put(w.seq_map, s, NewSequence(b, 0))]
    BY <1>7, <1>10, Zenon DEF Added, b
  <2> QED BY <1>12, <1>13, <2>1, <2>2, Zenon
<1>16. /\ T \in [SeqIds(c) \cup {s} -> SequenceType]
       /\ T[s].last_block_idx = b /\ T[s].seq_length = 0
       /\ \A x \in SeqIds(c) \ {s} : T[x] = S[x]
  <2>1. /\ NewSequence(b, 0) \in SequenceType
        /\ NewSequence(b, 0).last_block_idx = b /\ NewSequence(b, 0).seq_length = 0
    BY <1>6, NewSequenceFacts
  <2>2. PICK v \in SequenceType : v = NewSequence(b, 0)
    BY <2>1
  <2>3. S \in [SeqIds(c) -> SequenceType]
    BY <1>5
  <2>4. /\ Put(S, s, v) \in [SeqIds(c) \cup {s} -> SequenceType]
        /\ Put(S, s, v)[s] = v
        /\ \A x \in SeqIds(c) \ {s} : Put(S, s, v)[x] = S[x]
    BY <2>3 DEF Put
  <2> QED BY <1>12, <2>1, <2>2, <2>4
<1>17. Q \in [Block -> BlockType] /\ Q[b] = new /\ (\A x \in Block \ {b} : Q[x] = P[x])
  BY <1>5, <1>6, <1>9, <1>12
<1>18. /\ Typed(d) /\ SeqIds(d) = SeqIds(c) \cup {s} /\ Used(d) = Used(c) \cup {b}
       /\ d.free_page_ids = F /\ d.free_block_idx = B \ {b} /\ d.pool = Q /\ d.seq_map = T
       /\ d.kv = kv
  <2>1. PICK C : C = B \ {b}
    OBVIOUS
  <2>2. PICK D : D = SeqIds(c) \cup {s}
    OBVIOUS
  <2>3. Parts(F, C, Q, D, T)
    BY <1>5, <1>16, <1>17, <2>1, <2>2 DEF Parts
  <2>4. IsCache(d, F, C, Q, T, kv)
    BY <1>14, <2>1
  <2>6. /\ Typed(d) /\ SeqIds(d) = D /\ Used(d) = Block \ C
        /\ d.free_page_ids = F /\ d.free_block_idx = C /\ d.pool = Q /\ d.seq_map = T /\ d.kv = kv
    BY <2>3, <2>4, TypedCache
  <2> QED BY <1>6, <2>1, <2>2, <2>6
<1>19. \A x \in Used(c) : x # b /\ d.pool[x] = c.pool[x]
  BY <1>4, <1>6, <1>17, <1>18 DEF Used
<1>20. \A x \in Used(c) : Same(c, d, x)
  BY <1>19 DEF Same
<1>21. Children(c, b) = {} /\ Pages(c, b) = {}
  <2>1. Pages(c, b) = {}
    BY <1>1, <1>6, PagesOf
  <2>2. Children(c, b) = {}
    BY <1>1, <1>6, BlockFields DEF Structured, Chained, Hangs, Children
  <2> QED BY <2>1, <2>2
<1>22. Structured(d)
  <2>1. Hangs(d, b)
    <3>1. 0 % page_size = 0
      BY SizeAssumption
    <3> QED BY <1>9, <1>17, <1>18, <3>1 DEF Hangs
  <2>2. HasPages(d, b) /\ NoRepeats(d.pool[b].page_ids) /\ Pages(d, b) = {}
    BY <1>9, <1>17, <1>18, PagesForZero DEF HasPages, NoRepeats, Pages, Elements
  <2>3. d.free_page_ids = (c.free_page_ids \cup Pages(c, b)) \ Pages(d, b)
    BY <1>4, <1>18, <1>21, <2>2
  <2>4. /\ \A x \in Used(c) \ {b} : Same(c, d, x)
        /\ Pages(d, b) \subseteq c.free_page_ids \cup Pages(c, b)
    BY <1>20, <2>2
  <2> QED BY <1>1, <1>6, <1>18, <1>21, <2>1, <2>2, <2>3, <2>4, OneBlock
<1>23. Linked(d, {} \ {s})
  <2>1. NoBlock # b /\ (\A x \in Used(c) : x # NoBlock)
    BY <1>1, <1>6, BlockFields DEF Used
  <2>2. Referred(c, d, s, NoBlock)
    <3> SUFFICES ASSUME NEW x \in Used(c)
          PROVE  /\ d.pool[x].external_ref_cnt + (IF s \in Owners(c, x) THEN 1 ELSE 0) =
                      Cardinality(Children(c, x)) + Cardinality(Owners(c, x)) + (IF x = NoBlock THEN 1 ELSE 0)
                 /\ d.pool[x].external_ref_cnt > 0
      BY DEF Referred
    <3>1. Counts(c, x) /\ d.pool[x] = c.pool[x] /\ s \notin Owners(c, x) /\ x # NoBlock
      BY <1>1, <1>19, <2>1 DEF Counted, Owners
    <3>2. Cardinality(Children(c, x)) \in Nat /\ Cardinality(Owners(c, x)) \in Nat
      BY <1>1, UsedBlocks, OwnersFinite
    <3> QED BY <3>1, <3>2 DEF Counts
  <2>3. NotLast(c, SeqIds(c) \ ({} \cup {s}), NoBlock)
    BY <1>1, <2>1 DEF Ended, Ends, NotLast
  <2>4. \A x \in SeqIds(c) \ {s} : d.seq_map[x] = c.seq_map[x]
    BY <1>4, <1>16, <1>18
  <2>5. /\ d.pool[b].parent_idx = NoBlock /\ d.pool[b].external_ref_cnt = 1
        /\ d.seq_map[s].last_block_idx = b
        /\ d.seq_map[s].seq_length = d.pool[b].start_pos + d.pool[b].seq_length
    BY <1>9, <1>16, <1>17, <1>18
  <2>6. NewBelow(c, d, s, b, NoBlock)
    BY <1>18, <1>20, <2>4, <2>5 DEF NewBelow
  <2> QED BY <1>1, <1>6, <1>18, <2>1, <2>2, <2>3, <2>6, NewLast
<1>24. Keeps(c, d) /\ d.seq_map[s].seq_length = 0 /\ \A x \in SeqIds(c) : d.seq_map[x] = c.seq_map[x]
  BY <1>4, <1>16, <1>18, <1>20 DEF Keeps, KvKept
<1> QED BY <1>15, <1>18, <1>22, <1>23, <1>24 DEF Whole

-----------------------------------------------------------------------------
(* What keeps the references in order.                                     *)

(* No reference changes.                                                   *)
LEMMA SameLinks ==
  ASSUME NEW c, NEW d, NEW X, Linked(c, X), Used(d) = Used(c), SeqIds(d) = SeqIds(c),
         \A x \in Used(c) : /\ d.pool[x].parent_idx = c.pool[x].parent_idx
                            /\ d.pool[x].external_ref_cnt = c.pool[x].external_ref_cnt,
         \A x \in SeqIds(c) : d.seq_map[x].last_block_idx = c.seq_map[x].last_block_idx,
         \A x \in SeqIds(c) : d.seq_map[x].seq_length = LastBlock(d, x).start_pos + LastBlock(d, x).seq_length
  PROVE  Linked(d, X)
<1>1. \A y : Children(d, y) = Children(c, y) /\ Owners(d, y) = Owners(c, y)
  BY DEF Children, Owners
<1>2. Counted(d)
  BY <1>1 DEF Linked, Counted, Counts
<1>3. Ended(d)
  BY DEF Linked, Ended, Ends
<1>4. Private(d, X)
  BY <1>1 DEF Linked, Private, Alone
<1> QED BY <1>2, <1>3, <1>4 DEF Linked

(* The parts of Whole.                                                     *)
LEMMA WholeParts ==
  ASSUME NEW c, NEW X, Whole(c, X)
  PROVE  Structured(c) /\ Linked(c, X) /\ Typed(c) /\ Chained(c) /\ Paged(c)
         /\ Counted(c) /\ Ended(c) /\ Private(c, X)
BY DEF Whole, Structured, Linked

-----------------------------------------------------------------------------
(* The empty cache.                                                        *)

(* The cache that Clear leaves.                                            *)
LEMMA ClearedWhole == Whole(Cleared, {}) /\ SeqIds(Cleared) = {}
<1> DEFINE P == [b \in Block |-> EmptyBlock]
           k == [p \in Page |-> EmptyPage]
<1>1. PICK d : d = Cleared
  OBVIOUS
<1>2. IsCache(d, Page, Block, P, <<>>, k)
  BY <1>1 DEF Cleared, IsCache
<1>3. Parts(Page, Block, P, {}, <<>>)
  <2>1. P \in [Block -> BlockType] /\ \A b \in Block : P[b] = EmptyBlock
    BY EmptyBlockFacts
  <2>2. <<>> \in [{} -> SequenceType]
    OBVIOUS
  <2> QED BY <2>1, <2>2 DEF Parts
<1> HIDE DEF P, k
<1>4. /\ Typed(d) /\ SeqIds(d) = {} /\ Used(d) = Block \ Block
      /\ d.free_page_ids = Page
  BY <1>2, <1>3, TypedCache
<1>5. Used(d) = {}
  BY <1>4
<1>6. Structured(d)
  BY <1>4, <1>5 DEF Structured, Chained, Paged, Taken, Apart, Listed
<1>7. Linked(d, {})
  BY <1>4, <1>5 DEF Linked, Counted, Ended, Private
<1> QED BY <1>1, <1>4, <1>6, <1>7 DEF Whole

-----------------------------------------------------------------------------
(* What only one sequence refers to.                                       *)

(* A block with a count of one has one child or one sequence, and not      *)
(* both.                                                                   *)
LEMMA OneReference ==
  ASSUME NEW c, Typed(c), Counted(c), NEW b \in Used(c), c.pool[b].external_ref_cnt = 1
  PROVE  /\ \A x \in Children(c, b) : Children(c, b) = {x} /\ Owners(c, b) = {}
         /\ \A s \in Owners(c, b) : Owners(c, b) = {s} /\ Children(c, b) = {}
<1>1. PICK C, O : C = Children(c, b) /\ O = Owners(c, b)
  OBVIOUS
<1>2. IsFiniteSet(C) /\ IsFiniteSet(O) /\ Cardinality(C) \in Nat /\ Cardinality(O) \in Nat
  BY <1>1, UsedBlocks, OwnersFinite
<1>3. Cardinality(C) + Cardinality(O) = 1
  BY <1>1 DEF Counted, Counts
<1>4. \A S, x : IsFiniteSet(S) /\ x \in S => Cardinality(S) # 0
  BY FS_EmptySet
<1>5. ASSUME NEW x \in C PROVE C = {x} /\ O = {}
  <2>1. Cardinality(C) = 1 /\ Cardinality(O) = 0
    BY <1>2, <1>3, <1>4, <1>5
  <2> QED BY <1>2, <1>5, <2>1, FS_Singleton, FS_EmptySet
<1>6. ASSUME NEW x \in O PROVE O = {x} /\ C = {}
  <2>1. Cardinality(O) = 1 /\ Cardinality(C) = 0
    BY <1>2, <1>3, <1>4, <1>6
  <2> QED BY <1>2, <1>6, <2>1, FS_Singleton, FS_EmptySet
<1> QED BY <1>1, <1>5, <1>6

(* The blocks of a chain from position k + 1 on.                           *)
ChainEnd(t, k) == {t[i] : i \in (k + 1)..Len(t)}

(* From position k + 1 of its chain on, s is alone.                        *)
NothingElse(c, s, t, k) ==
  /\ ChainEnd(t, k) \subseteq Used(c)
  /\ \A x \in ChainEnd(t, k) : Children(c, x) \subseteq ChainEnd(t, k) /\ Owners(c, x) \subseteq {s}
  /\ k > 0 => t[k] \in Used(c) /\ t[k] \notin ChainEnd(t, k)
  /\ k = Len(t) => ChainEnd(t, k) = {} /\ t[k] = c.seq_map[s].last_block_idx
  /\ k < Len(t) => c.seq_map[s].last_block_idx \in ChainEnd(t, k)
  /\ k < Len(t) => \A y : y \notin ChainEnd(t, k) /\ (k > 0 => y # t[k]) /\ y # NoBlock =>
                            Children(c, y) \cap ChainEnd(t, k) = {}
  /\ k < Len(t) /\ k > 0 => Children(c, t[k]) \cap ChainEnd(t, k) = {t[k + 1]}

(* Nothing else hangs from the end of a chain that is counted once.        *)
LEMMA TailAlone ==
  ASSUME NEW c, Structured(c), Counted(c), Ended(c), NEW s \in SeqIds(c), NEW t, t = Trace(c, s),
         NEW k \in 0..Len(t), \A i \in (k + 1)..Len(t) : c.pool[t[i]].external_ref_cnt = 1
  PROVE  NothingElse(c, s, t, k)
<1> DEFINE b == c.seq_map[s].last_block_idx
           l == Len(t)
<1>1. Typed(c) /\ Chained(c) /\ b \in Used(c)
  BY DEF Structured, Ended, Ends
<1>2. /\ l \in Nat /\ l > 0 /\ t[l] = b
      /\ \A i \in 1..l : t[i] \in Used(c)
      /\ c.pool[t[1]].parent_idx = NoBlock
      /\ \A i \in 2..l : i - 1 \in 1..l /\ c.pool[t[i]].parent_idx = t[i - 1]
  <2>1. t = GetBlockTrace(c, b)
    BY DEF Trace
  <2> HIDE DEF b
  <2> QED BY <1>1, <2>1, TraceBlocks
<1>3. \A i, j \in 1..l : t[i] = t[j] => i = j
  <2>1. t = GetBlockTrace(c, b)
    BY DEF Trace
  <2> HIDE DEF b
  <2> QED BY <1>1, <2>1, TraceOnce
<1>4. s \in Owners(c, b)
  BY DEF Owners
<1> HIDE DEF b, l
<1>5. k \in 0..l /\ k \in Nat /\ \A i \in (k + 1)..l : i \in 1..l /\ c.pool[t[i]].external_ref_cnt = 1
  BY <1>2 DEF l
<1>6. \A x : x \in ChainEnd(t, k) <=> \E i \in (k + 1)..l : x = t[i]
  BY DEF ChainEnd, l
<1>7. \A i \in 1..l : i + 1 \in 1..l => t[i + 1] \in Children(c, t[i])
  <2>1. ASSUME NEW i \in 1..l, i + 1 \in 1..l PROVE t[i + 1] \in Children(c, t[i])
    <3>1. i + 1 \in 2..l /\ (i + 1) - 1 = i
      BY <1>2, <2>1
    <3>2. c.pool[t[i + 1]].parent_idx = t[i] /\ t[i + 1] \in Used(c)
      BY <1>2, <2>1, <3>1
    <3> QED BY <3>2 DEF Children
  <2> QED BY <2>1
<1>8. ASSUME NEW i \in (k + 1)..l
      PROVE  /\ i < l => Children(c, t[i]) = {t[i + 1]} /\ Owners(c, t[i]) = {}
             /\ i = l => Children(c, t[i]) = {} /\ Owners(c, t[i]) = {s}
  <2>1. t[i] \in Used(c) /\ c.pool[t[i]].external_ref_cnt = 1 /\ i \in 1..l /\ i \in Nat
    BY <1>2, <1>5, <1>8
  <2>2. CASE i < l
    <3>1. t[i + 1] \in Children(c, t[i])
      BY <1>2, <1>7, <2>1, <2>2
    <3> QED BY <1>1, <2>1, <2>2, <3>1, OneReference
  <2>3. CASE i = l
    <3>1. s \in Owners(c, t[i])
      BY <1>2, <1>4, <2>3
    <3> QED BY <1>1, <2>1, <2>3, <3>1, OneReference
  <2> QED BY <1>2, <2>1, <2>2, <2>3
<1>9. ChainEnd(t, k) \subseteq Used(c)
  BY <1>2, <1>5, <1>6
<1>10. ASSUME NEW x \in ChainEnd(t, k) PROVE Children(c, x) \subseteq ChainEnd(t, k) /\ Owners(c, x) \subseteq {s}
  <2>1. PICK i \in (k + 1)..l : x = t[i]
    BY <1>6
  <2>2. i \in Nat /\ (i = l \/ i < l)
    BY <1>2, <1>5, <2>1
  <2>3. i < l => i + 1 \in (k + 1)..l
    BY <1>2, <1>5, <2>1
  <2>4. i < l => t[i + 1] \in ChainEnd(t, k)
    BY <1>6, <2>3
  <2> QED BY <1>8, <2>1, <2>2, <2>4
<1>11. k > 0 => t[k] \in Used(c) /\ t[k] \notin ChainEnd(t, k)
  <2>1. ASSUME k > 0, NEW i \in (k + 1)..l PROVE t[k] # t[i]
    <3>1. k \in 1..l /\ i \in 1..l /\ i # k
      BY <1>2, <1>5, <2>1
    <3> QED BY <1>3, <3>1
  <2>2. k > 0 => k \in 1..l
    BY <1>2, <1>5
  <2> QED BY <1>2, <1>6, <2>1, <2>2
<1>12. k = l => ChainEnd(t, k) = {} /\ t[k] = b
  <2>1. k = l => (k + 1)..l = {}
    BY <1>2
  <2> QED BY <1>2, <1>6, <2>1
<1>13. k < l => b \in ChainEnd(t, k)
  <2>1. k < l => l \in (k + 1)..l
    BY <1>2, <1>5
  <2> QED BY <1>2, <1>6, <2>1
<1>14. ASSUME NEW y, NEW x \in Children(c, y) \cap ChainEnd(t, k), y # NoBlock
       PROVE  y \in ChainEnd(t, k) \/ (k > 0 /\ y = t[k] /\ x = t[k + 1])
  <2>1. PICK i \in (k + 1)..l : x = t[i]
    BY <1>6, <1>14
  <2>2. c.pool[t[i]].parent_idx = y
    BY <1>14, <2>1 DEF Children
  <2>3. i \in 2..l
    BY <1>2, <1>5, <1>14, <2>1, <2>2
  <2>4. y = t[i - 1]
    BY <1>2, <2>2, <2>3
  <2>5. CASE i = k + 1
    <3>1. i - 1 = k /\ k > 0
      BY <1>5, <2>3, <2>5
    <3> QED BY <2>1, <2>4, <2>5, <3>1
  <2>6. CASE i # k + 1
    <3>1. i - 1 \in (k + 1)..l
      BY <1>2, <1>5, <2>1, <2>6
    <3> QED BY <1>6, <2>4, <3>1
  <2> QED BY <2>5, <2>6
<1>15. k < l => \A y : y \notin ChainEnd(t, k) /\ (k > 0 => y # t[k]) /\ y # NoBlock =>
                         Children(c, y) \cap ChainEnd(t, k) = {}
  BY <1>14
<1>16. k < l /\ k > 0 => Children(c, t[k]) \cap ChainEnd(t, k) = {t[k + 1]}
  <2> SUFFICES ASSUME k < l, k > 0 PROVE Children(c, t[k]) \cap ChainEnd(t, k) = {t[k + 1]}
    OBVIOUS
  <2>1. k \in 1..l /\ k + 1 \in 1..l /\ k + 1 \in (k + 1)..l
    BY <1>2, <1>5
  <2>2. t[k + 1] \in Children(c, t[k]) \cap ChainEnd(t, k)
    BY <1>6, <1>7, <2>1
  <2>3. t[k] # NoBlock /\ t[k] \notin ChainEnd(t, k)
    <3>1. t[k] \in Block
      BY <1>2, <2>1, UsedBlocks
    <3> QED BY <1>1, <1>11, <3>1, BlockFields
  <2> QED BY <1>14, <2>2, <2>3
<1> QED BY <1>9, <1>10, <1>11, <1>12, <1>13, <1>15, <1>16 DEF b, l, NothingElse

(* Block g is e with r references.                                         *)
IsRecounted(e, g, r) ==
  /\ g \in BlockType
  /\ g.page_ids = e.page_ids /\ g.start_pos = e.start_pos
  /\ g.seq_length = e.seq_length /\ g.parent_idx = e.parent_idx /\ g.external_ref_cnt = r

(* Assigning external_ref_cnt leaves the other members.                    *)
LEMMA Recounted ==
  ASSUME NEW e \in BlockType, NEW r \in Nat
  PROVE  IsRecounted(e, [e EXCEPT !.external_ref_cnt = r], r)
<1> DEFINE g == [e EXCEPT !.external_ref_cnt = r]
<1>1. PICK p, n, l, u, q :
        /\ p = e.page_ids /\ n = e.start_pos /\ l = e.seq_length /\ u = e.parent_idx
        /\ q = e.external_ref_cnt
  OBVIOUS
<1>2. p \in Seq(Page) /\ n \in Nat /\ l \in Nat /\ u \in Block \cup {NoBlock} /\ q \in Nat
  BY <1>1 DEF BlockType
<1>3. IsBlock(e, p, n, l, u, q)
  BY <1>1, BlockForm
<1>4. IsBlock(g, p, n, l, u, r)
  BY <1>3, SetBlock, Zenon
<1> HIDE DEF g
<1>5. g \in BlockType
  BY <1>2, <1>4, BlockTyped
<1>6. /\ g.page_ids = p /\ g.start_pos = n /\ g.seq_length = l /\ g.parent_idx = u
      /\ g.external_ref_cnt = r
  BY <1>4, SetBlock, Zenon
<1>7. IsRecounted(e, g, r)
  BY <1>1, <1>5, <1>6 DEF IsRecounted
<1> QED BY <1>7, Zenon DEF g

(* What FreeBlocks makes of a cache.                                       *)
FreedParts(c, D, G, C, Q, S, k) ==
  /\ IsCache(FreeBlocks(c, D), G, C, Q, S, k)
  /\ Parts(G, C, Q, SeqIds(c), S)
  /\ C = c.free_block_idx \cup D
  /\ S = c.seq_map
  /\ \A p : p \in G <=> p \in c.free_page_ids \/ \E b \in D : p \in Pages(c, b)
  /\ \A b \in Block \ D : Q[b] = c.pool[b]
  /\ DOMAIN k = Page /\ \A p \in Page \ G : k[p] = c.kv[p]

(* The parts after the blocks of a set are freed.                          *)
LEMMA BlocksFreed ==
  ASSUME NEW c, Typed(c), NEW D, D \subseteq Block
  PROVE  \E G, C, Q, S, k : FreedParts(c, D, G, C, Q, S, k)
<1>1. PICK F, B, P, S, kv :
        /\ F = c.free_page_ids /\ B = c.free_block_idx /\ P = c.pool /\ S = c.seq_map /\ kv = c.kv
  OBVIOUS
<1>2. /\ IsCache(c, F, B, P, S, kv)
      /\ F \subseteq Page /\ B \subseteq Block /\ P \in [Block -> BlockType]
      /\ (\A x \in B : P[x] = EmptyBlock)
      /\ SeqIds(c) \subseteq SeqId \cup {TempSeq} /\ S \in [SeqIds(c) -> SequenceType]
  BY <1>1, CacheFields
<1>4. PICK G, C, Q : /\ G = F \cup UNION {Elements(P[b].page_ids) : b \in D}
                     /\ C = B \cup D
                     /\ Q = [b \in Block |-> IF b \in D THEN EmptyBlock ELSE P[b]]
  OBVIOUS
<1>5. PICK k : /\ IsCache(FreeBlocks(c, D), G, C, Q, S, k)
               /\ Forgotten(kv, k, UNION {Elements(P[b].page_ids) : b \in D})
  <2>1. IsCache(c, F, B, P, S, kv)
    BY <1>2
  <2>2. PICK k : BlocksGone(c, F, B, P, S, kv, D, k)
    BY <2>1, FreeBlocksIs, Zenon
  <2> QED BY <1>4, <2>2, Zenon DEF BlocksGone
<1>6. DOMAIN k = Page /\ \A p \in Page \ G : k[p] = c.kv[p]
  BY <1>1, <1>4, <1>5 DEF Forgotten
<1>7. \A p : p \in G <=> p \in F \/ \E b \in D : p \in Pages(c, b)
  BY <1>1, <1>4 DEF Pages
<1>8. G \subseteq Page
  <2>1. \A b \in D : Pages(c, b) \subseteq Page
    BY PagesOf
  <2> QED BY <1>2, <1>7, <2>1
<1>9. Q \in [Block -> BlockType] /\ \A x \in C : Q[x] = EmptyBlock
  BY <1>2, <1>4, EmptyBlockFacts
<1>10. Parts(G, C, Q, SeqIds(c), S)
  BY <1>2, <1>4, <1>8, <1>9 DEF Parts
<1>11. \A b \in Block \ D : Q[b] = P[b]
  BY <1>4
<1>12. FreedParts(c, D, G, C, Q, S, k)
  BY <1>1, <1>4, <1>5, <1>6, <1>7, <1>10, <1>11 DEF FreedParts
<1> QED BY <1>12

(* Writing one block.                                                      *)
LEMMA SetPool ==
  ASSUME NEW c, NEW F, NEW B, NEW P, NEW S, NEW kv, IsCache(c, F, B, P, S, kv), NEW b, NEW e
  PROVE  IsCache([c EXCEPT !.pool[b] = e], F, B, [P EXCEPT ![b] = e], S, kv)
<1>1. c.pool = P
  BY SetMembers, Zenon
<1>2. [c EXCEPT !.pool[b] = e] = [c EXCEPT !.pool = [c.pool EXCEPT ![b] = e]]
  BY Zenon
<1>3. \A z : IsCache([c EXCEPT !.pool = z], F, B, z, S, kv)
  BY SetMembers, Zenon
<1>4. PICK Q : Q = [P EXCEPT ![b] = e]
  OBVIOUS
<1>5. IsCache([c EXCEPT !.pool[b] = e], F, B, Q, S, kv)
  BY <1>1, <1>2, <1>3, <1>4, Zenon
<1> QED BY <1>4, <1>5, Zenon

(* Only the references to block b are counted anew.                        *)
CountedAnew(P, Q, b, r) ==
  /\ Q \in [Block -> BlockType]
  /\ \A x \in Block \ {b} : Q[x] = P[x]
  /\ IsRecounted(P[b], Q[b], r)

(* The parts after the count of a block is assigned.                       *)
LEMMA SetReferences ==
  ASSUME NEW c, NEW F, NEW B, NEW P, NEW S, NEW kv, IsCache(c, F, B, P, S, kv),
         P \in [Block -> BlockType], NEW b \in Block, NEW r \in Nat,
         NEW d, d = [c EXCEPT !.pool[b].external_ref_cnt = r]
  PROVE  \E Q : IsCache(d, F, B, Q, S, kv) /\ CountedAnew(P, Q, b, r)
<1>1. c.pool = P
  BY SetMembers, Zenon
<1>2. PICK e : e = P[b]
  OBVIOUS
<1>3. PICK g : g = [e EXCEPT !.external_ref_cnt = r]
  OBVIOUS
<1>4. [c EXCEPT !.pool[b].external_ref_cnt = r] =
              [c EXCEPT !.pool[b] = [c.pool[b] EXCEPT !.external_ref_cnt = r]]
  BY Zenon
<1>5. d = [c EXCEPT !.pool[b] = g]
  BY <1>1, <1>2, <1>3, <1>4, Zenon
<1>6. IsCache([c EXCEPT !.pool[b] = g], F, B, [P EXCEPT ![b] = g], S, kv)
  BY SetPool, Zenon
<1>7. PICK Q : Q = [P EXCEPT ![b] = g]
  OBVIOUS
<1>8. e \in BlockType
  BY <1>2
<1>9. IsRecounted(e, g, r)
  BY <1>3, <1>8, Recounted, Zenon
<1>10. CountedAnew(P, Q, b, r)
  BY <1>2, <1>7, <1>9 DEF CountedAnew, IsRecounted
<1>11. IsCache(d, F, B, Q, S, kv)
  BY <1>5, <1>6, <1>7, Zenon
<1> QED BY <1>10, <1>11

-----------------------------------------------------------------------------
(* RemoveSequence.                                                         *)

(* The cache without sequence s and the blocks D that only it refers to;   *)
(* a block above them, if there is one, loses a reference.                 *)
LastShared(c, t) == Max({0} \cup {i \in DOMAIN t : c.pool[t[i]].external_ref_cnt # 1})

(* RemoveSequence frees the blocks behind the last shared one and takes    *)
(* one reference from that.                                                *)
LEMMA RemovedIs ==
  ASSUME NEW c, Typed(c), NEW s \in SeqIds(c), NEW t, t = Trace(c, s), NEW k, k = LastShared(c, t),
         k \in Nat, k > 0 => t[k] \in Block \ ChainEnd(t, k) /\ c.pool[t[k]].external_ref_cnt > 0,
         NEW D, D = ChainEnd(t, k), D \subseteq Block
  PROVE  LET d == Removed(c, s) IN
         /\ Typed(d) /\ SeqIds(d) = SeqIds(c) \ {s} /\ Used(d) = Used(c) \ D
         /\ \A x \in SeqIds(c) \ {s} : d.seq_map[x] = c.seq_map[x]
         /\ \A p : p \in d.free_page_ids <=> p \in c.free_page_ids \/ \E b \in D : p \in Pages(c, b)
         /\ \A x \in Used(d) : Same(c, d, x)
         /\ KvKept(c, d)
         /\ \A x \in Used(d) : (k > 0 => x # t[k]) =>
              d.pool[x].external_ref_cnt = c.pool[x].external_ref_cnt
         /\ k > 0 => d.pool[t[k]].external_ref_cnt = c.pool[t[k]].external_ref_cnt - 1
<1>0. PICK G, C, Q, S, kv : FreedParts(c, D, G, C, Q, S, kv)
  BY BlocksFreed
<1>1. /\ IsCache(FreeBlocks(c, D), G, C, Q, S, kv)
      /\ Parts(G, C, Q, SeqIds(c), S)
      /\ C = c.free_block_idx \cup D /\ S = c.seq_map
      /\ \A p : p \in G <=> p \in c.free_page_ids \/ \E b \in D : p \in Pages(c, b)
      /\ \A b \in Block \ D : Q[b] = c.pool[b]
      /\ DOMAIN kv = Page /\ \A p \in Page \ G : kv[p] = c.kv[p]
  BY <1>0 DEF FreedParts
<1>2. PICK f : f = FreeBlocks(c, D)
  OBVIOUS
<1>3. IsCache(f, G, C, Q, S, kv)
  BY <1>1, <1>2
<1>4. PICK T : T = Drop(S, s)
  OBVIOUS
<1>5. PICK left : left = [f EXCEPT !.seq_map = T]
  OBVIOUS
<1>6. IsCache(left, G, C, Q, T, kv)
  BY <1>3, <1>5, SetMembers, Zenon
<1>7. PICK d : d = Removed(c, s)
  OBVIOUS
<1>8. /\ k = 0 => d = left
      /\ k # 0 => d = [left EXCEPT !.pool[t[k]].external_ref_cnt = left.pool[t[k]].external_ref_cnt - 1]
  <2> DEFINE tt == Trace(c, s)
             kk == LastShared(c, tt)
             ff == FreeBlocks(c, ChainEnd(tt, kk))
             ll == [ff EXCEPT !.seq_map = Drop(ff.seq_map, s)]
  <2>1. Removed(c, s) = IF kk = 0 THEN ll
                        ELSE [ll EXCEPT !.pool[tt[kk]].external_ref_cnt = ll.pool[tt[kk]].external_ref_cnt - 1]
    BY Zenon DEF Removed, ChainEnd, LastShared
  <2>2. tt = t /\ kk = k
    BY Zenon
  <2> HIDE DEF tt, kk
  <2>3. ff = f
    BY <1>2, <2>2, Zenon
  <2>4. f.seq_map = S
    BY <1>3, SetMembers, Zenon
  <2> HIDE DEF ff
  <2>5. ll = left
    BY <1>4, <1>5, <2>3, <2>4, Zenon
  <2> HIDE DEF ll
  <2> QED BY <1>7, <2>1, <2>2, <2>5, Zenon
<1>9. T \in [SeqIds(c) \ {s} -> SequenceType] /\ \A x \in SeqIds(c) \ {s} : T[x] = c.seq_map[x]
  BY <1>1, <1>4 DEF Parts, Drop
<1>10. /\ C \subseteq Block /\ Q \in [Block -> BlockType] /\ (\A b \in C : Q[b] = EmptyBlock)
       /\ G \subseteq Page /\ SeqIds(c) \subseteq SeqId \cup {TempSeq}
  BY <1>1 DEF Parts
<1>11. k > 0 => \E a, r : /\ a = t[k] /\ a \in Block \ C /\ a \in Block \ D /\ Q[a] = c.pool[a]
                          /\ r \in Nat /\ r = c.pool[a].external_ref_cnt - 1
  <2> SUFFICES ASSUME k > 0
        PROVE  \E a, r : /\ a = t[k] /\ a \in Block \ C /\ a \in Block \ D /\ Q[a] = c.pool[a]
                          /\ r \in Nat /\ r = c.pool[a].external_ref_cnt - 1
    OBVIOUS
  <2>1. PICK a \in Block : a = t[k] /\ a \notin D /\ c.pool[a].external_ref_cnt > 0
    OBVIOUS
  <2>2. c.pool[a].external_ref_cnt \in Nat
    BY BlockFields
  <2>3. a \notin c.free_block_idx
    <3>1. EmptyBlock.external_ref_cnt = 0
      BY EmptyBlockFacts
    <3> QED BY <2>1, <2>2, <3>1 DEF Typed
  <2>4. PICK r : r = c.pool[a].external_ref_cnt - 1
    OBVIOUS
  <2>5. r \in Nat
    BY <2>1, <2>2, <2>4
  <2> QED BY <1>1, <2>1, <2>3, <2>4, <2>5
<1>12. \E R : /\ IsCache(d, G, C, R, T, kv)
              /\ k = 0 => R = Q
              /\ k > 0 => CountedAnew(Q, R, t[k], c.pool[t[k]].external_ref_cnt - 1)
  <2>1. CASE k = 0
    <3>1. IsCache(d, G, C, Q, T, kv)
      BY <1>6, <1>8, <2>1, Zenon
    <3> QED BY <2>1, <3>1
  <2>2. CASE k > 0
    <3>1. left.pool = Q
      BY <1>6, SetMembers, Zenon
    <3>2. PICK a, r : /\ a = t[k] /\ a \in Block \ C /\ a \in Block \ D /\ Q[a] = c.pool[a]
                      /\ r \in Nat /\ r = c.pool[a].external_ref_cnt - 1
      BY <1>11, <2>2
    <3>3. d = [left EXCEPT !.pool[a].external_ref_cnt = r]
      <4>1. r = left.pool[t[k]].external_ref_cnt - 1 /\ k # 0
        BY <2>2, <3>1, <3>2
      <4> QED BY <1>8, <3>2, <4>1, Zenon
    <3>4. \E R : IsCache(d, G, C, R, T, kv) /\ CountedAnew(Q, R, a, r)
      <4>1. a \in Block /\ r \in Nat /\ Q \in [Block -> BlockType]
        BY <1>10, <3>2
      <4> QED BY <1>6, <3>3, <4>1, SetReferences, Zenon
    <3> QED BY <2>2, <3>2, <3>4
  <2> QED BY <2>1, <2>2
<1>13. PICK R : /\ IsCache(d, G, C, R, T, kv)
                /\ k = 0 => R = Q
                /\ k > 0 => CountedAnew(Q, R, t[k], c.pool[t[k]].external_ref_cnt - 1)
  BY <1>12
<1>14. R \in [Block -> BlockType] /\ \A b \in C : R[b] = EmptyBlock
  <2>1. CASE k = 0
    BY <1>10, <1>13, <2>1
  <2>2. CASE k > 0
    <3>1. t[k] \in Block \ C
      BY <1>11, <2>2
    <3>2. CountedAnew(Q, R, t[k], c.pool[t[k]].external_ref_cnt - 1)
      BY <1>13, <2>2
    <3> QED BY <1>10, <3>1, <3>2 DEF CountedAnew
  <2> QED BY <2>1, <2>2
<1>15. /\ Typed(d) /\ SeqIds(d) = SeqIds(c) \ {s} /\ Used(d) = Block \ C
       /\ d.free_page_ids = G /\ d.pool = R /\ d.seq_map = T /\ d.kv = kv
  <2>1. PICK E : E = SeqIds(c) \ {s}
    OBVIOUS
  <2>2. Parts(G, C, R, E, T)
    BY <1>9, <1>10, <1>14, <2>1 DEF Parts
  <2>3. IsCache(d, G, C, R, T, kv)
    BY <1>13
  <2>4. /\ Typed(d) /\ SeqIds(d) = E /\ Used(d) = Block \ C
        /\ d.free_page_ids = G /\ d.pool = R /\ d.seq_map = T /\ d.kv = kv
    BY <2>2, <2>3, TypedCache
  <2> QED BY <2>1, <2>4
<1>16. Used(d) = Used(c) \ D
  BY <1>1, <1>15 DEF Used
<1>17. \A x \in Used(d) : x \in Block \ D
  BY <1>1, <1>15
<1>18. ASSUME NEW x \in Used(d), k > 0 => x # t[k]
       PROVE  d.pool[x] = c.pool[x]
  <2>1. R[x] = Q[x]
    <3>1. CASE k = 0
      BY <1>13, <3>1
    <3>2. CASE k > 0
      <4>1. CountedAnew(Q, R, t[k], c.pool[t[k]].external_ref_cnt - 1)
        BY <1>13, <3>2
      <4> QED BY <1>17, <1>18, <3>2, <4>1 DEF CountedAnew
    <3> QED BY <3>1, <3>2
  <2> QED BY <1>1, <1>15, <1>17, <2>1
<1>19. ASSUME k > 0
       PROVE  /\ Same(c, d, t[k])
              /\ d.pool[t[k]].external_ref_cnt = c.pool[t[k]].external_ref_cnt - 1
  <2>1. CountedAnew(Q, R, t[k], c.pool[t[k]].external_ref_cnt - 1)
    BY <1>13, <1>19
  <2>2. Q[t[k]] = c.pool[t[k]]
    BY <1>11, <1>19
  <2>3. IsRecounted(c.pool[t[k]], d.pool[t[k]], c.pool[t[k]].external_ref_cnt - 1)
    BY <1>15, <2>1, <2>2 DEF CountedAnew
  <2> QED BY <2>3 DEF Same, IsRecounted
<1>20. \A x \in Used(d) : Same(c, d, x)
  BY <1>18, <1>19 DEF Same
<1>21. \A p : p \in d.free_page_ids <=> p \in c.free_page_ids \/ \E b \in D : p \in Pages(c, b)
  BY <1>1, <1>15
<1>22. \A x \in SeqIds(c) \ {s} : d.seq_map[x] = c.seq_map[x]
  BY <1>9, <1>15
<1>23. KvKept(c, d)
  BY <1>1, <1>15 DEF KvKept
<1> QED BY <1>7, <1>15, <1>16, <1>18, <1>19, <1>20, <1>21, <1>22, <1>23

(* RemoveSequence keeps the structure, also of a sequence whose last block *)
(* is shared (the copy a pop makes).                                       *)
LEMMA RemovedWhole ==
  ASSUME NEW c, NEW s, NEW X, X \subseteq {s}, Whole(c, X), s \in SeqIds(c)
  PROVE  /\ Whole(Removed(c, s), {})
         /\ SeqIds(Removed(c, s)) = SeqIds(c) \ {s}
         /\ \A x \in SeqIds(c) \ {s} : Removed(c, s).seq_map[x] = c.seq_map[x]
         /\ Keeps(c, Removed(c, s))
<1>1. /\ Structured(c) /\ Typed(c) /\ Chained(c) /\ Counted(c) /\ Ended(c) /\ Private(c, X)
  BY WholeParts
<1>2. PICK b, t, d, k : /\ b = c.seq_map[s].last_block_idx /\ t = Trace(c, s)
                        /\ d = Removed(c, s) /\ k = LastShared(c, t)
  OBVIOUS
<1>3. b \in Used(c)
  BY <1>1, <1>2 DEF Ended, Ends
<1>4. /\ t \in Seq(Block) /\ Len(t) \in Nat /\ Len(t) > 0 /\ DOMAIN t = 1..Len(t)
      /\ \A i \in 1..Len(t) : t[i] \in Used(c)
  <2>1. t = GetBlockTrace(c, b)
    BY <1>2 DEF Trace
  <2> QED BY <1>1, <1>3, <2>1, TraceBlocks
<1>5. PICK l \in Nat : l = Len(t)
  BY <1>4
<1>6. /\ k \in 0..l
      /\ \A i \in (k + 1)..l : c.pool[t[i]].external_ref_cnt = 1
      /\ k > 0 => c.pool[t[k]].external_ref_cnt # 1
  <2>1. PICK K : K = {0} \cup {i \in DOMAIN t : c.pool[t[i]].external_ref_cnt # 1}
    OBVIOUS
  <2>2. K \subseteq 0..l /\ K # {}
    BY <1>4, <1>5, <2>1
  <2>3. k \in K /\ \A i \in K : i <= k
    <3>1. k = Max(K)
      BY <1>2, <2>1 DEF LastShared
    <3> QED BY <2>2, <3>1, MaxIn
  <2>4. ASSUME NEW i \in (k + 1)..l PROVE c.pool[t[i]].external_ref_cnt = 1
    <3>1. i \in DOMAIN t /\ ~ (i <= k)
      BY <1>4, <1>5, <2>2, <2>3
    <3> QED BY <2>1, <2>3, <3>1
  <2>5. k > 0 => c.pool[t[k]].external_ref_cnt # 1
    BY <2>1, <2>3
  <2> QED BY <2>2, <2>3, <2>4, <2>5
<1>7. PICK D : D = ChainEnd(t, k)
  OBVIOUS
<1>8. /\ D \subseteq Used(c)
      /\ \A x \in D : Children(c, x) \subseteq D /\ Owners(c, x) \subseteq {s}
      /\ k > 0 => t[k] \in Used(c) /\ t[k] \notin D
      /\ k = l => D = {} /\ t[k] = b
      /\ k < l => b \in D
      /\ k < l => \A y : y \notin D /\ (k > 0 => y # t[k]) /\ y # NoBlock => Children(c, y) \cap D = {}
      /\ k < l /\ k > 0 => Children(c, t[k]) \cap D = {t[k + 1]}
  <2>1. k \in 0..Len(t) /\ \A i \in (k + 1)..Len(t) : c.pool[t[i]].external_ref_cnt = 1
    BY <1>5, <1>6
  <2>2. t = Trace(c, s)
    BY <1>2
  <2>3. NothingElse(c, s, t, k)
    BY <1>1, <2>1, <2>2, TailAlone
  <2>4. l = Len(t) /\ b = c.seq_map[s].last_block_idx /\ D = ChainEnd(t, k)
    BY <1>2, <1>5, <1>7
  <2> QED BY <2>3, <2>4, Zenon DEF NothingElse
<1>9. /\ Typed(d) /\ SeqIds(d) = SeqIds(c) \ {s} /\ Used(d) = Used(c) \ D
      /\ \A x \in SeqIds(c) \ {s} : d.seq_map[x] = c.seq_map[x]
      /\ \A p : p \in d.free_page_ids <=> p \in c.free_page_ids \/ \E x \in D : p \in Pages(c, x)
      /\ \A x \in Used(d) : Same(c, d, x)
      /\ KvKept(c, d)
      /\ \A x \in Used(d) : (k > 0 => x # t[k]) =>
              d.pool[x].external_ref_cnt = c.pool[x].external_ref_cnt
      /\ k > 0 => d.pool[t[k]].external_ref_cnt = c.pool[t[k]].external_ref_cnt - 1
  <2>1. D \subseteq Block /\ k \in Nat
    BY <1>6, <1>8, UsedBlocks
  <2>2. k > 0 => t[k] \in Block \ ChainEnd(t, k) /\ c.pool[t[k]].external_ref_cnt > 0
    BY <1>1, <1>7, <1>8, UsedBlocks DEF Counted, Counts
  <2> QED BY <1>1, <1>2, <1>7, <2>1, <2>2, RemovedIs
<1>10. \A y : Children(d, y) = Children(c, y) \ D /\ Owners(d, y) = Owners(c, y) \ {s}
  <2>1. \A y : Children(d, y) = Children(c, y) \ D
    BY <1>9 DEF Children, Same
  <2>2. \A y : Owners(d, y) = Owners(c, y) \ {s}
    BY <1>9 DEF Owners
  <2> QED BY <2>1, <2>2
<1>11. Structured(d)
  <2>1. \A x \in Used(d) : Same(c, d, x) /\ c.pool[x].parent_idx \notin D
    BY <1>8, <1>9 DEF Children
  <2> QED BY <1>1, <1>8, <1>9, <2>1, CutStructure
<1>12. ASSUME NEW x \in Used(d) PROVE Counts(d, x)
  <2>1. /\ IsFiniteSet(Children(c, x)) /\ IsFiniteSet(Owners(c, x))
        /\ Cardinality(Children(c, x)) \in Nat /\ Cardinality(Owners(c, x)) \in Nat
    BY <1>1, UsedBlocks, OwnersFinite
  <2>2. Counts(c, x) /\ x \in Used(c) /\ x \notin D /\ x # NoBlock
    BY <1>1, <1>9, UsedBlocks, BlockFields DEF Counted
  <2>3. CASE k > 0 => x # t[k]
    <3>1. Children(c, x) \cap D = {}
      <4>1. k = l \/ k < l
        BY <1>6
      <4> QED BY <1>8, <2>2, <2>3, <4>1
    <3>2. s \notin Owners(c, x)
      <4>1. k = l => k > 0
        BY <1>4, <1>5
      <4>2. k = l \/ k < l
        BY <1>6
      <4> QED BY <1>2, <1>8, <2>2, <2>3, <4>1, <4>2 DEF Owners
    <3>3. Children(d, x) = Children(c, x) /\ Owners(d, x) = Owners(c, x)
      BY <1>10, <3>1, <3>2
    <3>4. d.pool[x].external_ref_cnt = c.pool[x].external_ref_cnt
      BY <1>9, <2>3
    <3> QED BY <2>2, <3>3, <3>4 DEF Counts
  <2>4. CASE k > 0 /\ x = t[k]
    <3>1. c.pool[x].external_ref_cnt # 1 /\ d.pool[x].external_ref_cnt = c.pool[x].external_ref_cnt - 1
      BY <1>6, <1>9, <2>4
    <3>2. c.pool[x].external_ref_cnt = Cardinality(Children(c, x)) + Cardinality(Owners(c, x))
          /\ c.pool[x].external_ref_cnt > 0
      BY <2>2 DEF Counts
    <3>3. Cardinality(Children(d, x)) + Cardinality(Owners(d, x)) =
            Cardinality(Children(c, x)) + Cardinality(Owners(c, x)) - 1
      <4>1. CASE k < l
        <5>1. s \notin Owners(c, x)
          BY <1>2, <1>8, <2>2, <4>1 DEF Owners
        <5>2. Owners(d, x) = Owners(c, x)
          BY <1>10, <5>1
        <5>3. PICK S, y : S = Children(c, x) /\ y = t[k + 1]
          OBVIOUS
        <5>4. S \cap D = {y}
          BY <1>8, <2>4, <4>1, <5>3
        <5>5. IsFiniteSet(S) /\ y \in S /\ Children(d, x) = S \ {y}
          BY <1>10, <2>1, <5>3, <5>4
        <5>6. Cardinality(S \ {y}) = Cardinality(S) - 1
          BY <5>5, CardPlus
        <5> QED BY <2>1, <5>2, <5>3, <5>5, <5>6
      <4>2. CASE k = l
        <5>1. s \in Owners(c, x)
          BY <1>2, <1>8, <2>4, <4>2 DEF Owners
        <5>2. Children(d, x) = Children(c, x)
          BY <1>8, <1>10, <4>2
        <5>3. PICK S : S = Owners(c, x)
          OBVIOUS
        <5>4. IsFiniteSet(S) /\ s \in S /\ Owners(d, x) = S \ {s}
          BY <1>10, <2>1, <5>1, <5>3
        <5>5. Cardinality(S \ {s}) = Cardinality(S) - 1
          BY <5>4, CardPlus
        <5> QED BY <2>1, <5>2, <5>3, <5>4, <5>5
      <4> QED BY <1>6, <4>1, <4>2
    <3> QED BY <2>1, <3>1, <3>2, <3>3 DEF Counts
  <2> QED BY <2>3, <2>4
<1>13. ASSUME NEW x \in SeqIds(d) PROVE Ends(d, x) /\ Alone(d, x)
  <2>1. x \in SeqIds(c) \ X /\ x # s /\ d.seq_map[x] = c.seq_map[x]
    BY <1>9
  <2>2. Ends(c, x) /\ Alone(c, x)
    BY <1>1, <2>1 DEF Ended, Private
  <2>3. PICK y : y = c.seq_map[x].last_block_idx
    OBVIOUS
  <2>4. y \in Used(c) /\ x \in Owners(c, y)
    BY <2>1, <2>2, <2>3 DEF Ends, Owners
  <2>5. y \in Used(d)
    BY <1>8, <1>9, <2>1, <2>4
  <2>6. Same(c, d, y)
    BY <1>9, <2>5
  <2>7. Ends(d, x)
    BY <2>1, <2>2, <2>3, <2>5, <2>6 DEF Ends, LastBlock, Same
  <2>8. Alone(d, x)
    BY <1>10, <2>1, <2>2 DEF Alone
  <2> QED BY <2>7, <2>8
<1>14. Linked(d, {})
  BY <1>12, <1>13 DEF Linked, Counted, Ended, Private
<1> QED BY <1>2, <1>9, <1>11, <1>14 DEF Whole, Keeps

-----------------------------------------------------------------------------
(* A sequence whose last block is its own grows or shrinks in it.          *)

(* In d, block b at the end of sequence s is e, s has length n, and the    *)
(* pages F are free.                                                       *)
Resized(c, d, s, b, e, n, F) ==
  /\ Typed(d) /\ Used(d) = Used(c) /\ SeqIds(d) = SeqIds(c)
  /\ d.pool[b] = e
  /\ \A x \in Block \ {b} : d.pool[x] = c.pool[x]
  /\ \A x \in SeqIds(c) \ {s} : d.seq_map[x] = c.seq_map[x]
  /\ d.seq_map[s].last_block_idx = b /\ d.seq_map[s].seq_length = n
  /\ d.free_page_ids = F

(* Block b of d begins with the tokens of block b of c.                    *)
Longer(c, d, b) ==
  /\ d.pool[b].start_pos = c.pool[b].start_pos /\ d.pool[b].parent_idx = c.pool[b].parent_idx
  /\ c.pool[b].seq_length <= d.pool[b].seq_length
  /\ \A i \in DOMAIN c.pool[b].page_ids :
       i \in DOMAIN d.pool[b].page_ids /\ d.pool[b].page_ids[i] = c.pool[b].page_ids[i]
(* So do the blocks of a chain whose last one grew.                        *)
Lengthens(c, d, s) ==
  /\ Used(d) = Used(c)
  /\ d.seq_map[s].last_block_idx = c.seq_map[s].last_block_idx
  /\ \A x \in Used(c) \ {c.seq_map[s].last_block_idx} : Same(c, d, x)
  /\ Longer(c, d, c.seq_map[s].last_block_idx)

(* The other sequences do not see it.                                      *)
OthersKept(c, d, s) ==
  \A x \in SeqIds(c) \ {s} : d.seq_map[x] = c.seq_map[x] /\ LastBlock(d, x) = LastBlock(c, x)

(* Assigning seq_length leaves the last block.                             *)
LEMMA SequenceResized ==
  ASSUME NEW g \in SequenceType, NEW n \in Nat, NEW h, h = [g EXCEPT !.seq_length = n]
  PROVE  h \in SequenceType /\ h.last_block_idx = g.last_block_idx /\ h.seq_length = n
BY DEF SequenceType

(* The parts after a sequence and its last block changed their length.     *)
LEMMA ResizedIs ==
  ASSUME NEW c, Typed(c), NEW s \in SeqIds(c), NEW b \in Used(c), b = c.seq_map[s].last_block_idx,
         NEW e \in BlockType, NEW n \in Nat, NEW F, F \subseteq Page,
         NEW B, B = c.free_block_idx,
         NEW P, P = [c.pool EXCEPT ![b] = e],
         NEW S, S = [c.seq_map EXCEPT ![s] = [c.seq_map[s] EXCEPT !.seq_length = n]],
         NEW kv, NEW d, IsCache(d, F, B, P, S, kv)
  PROVE  Resized(c, d, s, b, e, n, F)
<1>1. /\ B \subseteq Block /\ c.pool \in [Block -> BlockType]
      /\ (\A x \in B : c.pool[x] = EmptyBlock)
      /\ SeqIds(c) \subseteq SeqId \cup {TempSeq} /\ c.seq_map \in [SeqIds(c) -> SequenceType]
  BY CacheFields
<1>2. b \in Block /\ b \notin B /\ Used(c) = Block \ B
  BY DEF Used
<1>3. PICK g, h : g = c.seq_map[s] /\ h = [g EXCEPT !.seq_length = n]
  OBVIOUS
<1>4. g \in SequenceType /\ g.last_block_idx = b
  BY <1>1, <1>3
<1>7. h \in SequenceType
  BY <1>3, <1>4, SequenceResized
<1>8. h.last_block_idx = b /\ h.seq_length = n
  BY <1>3, <1>4, SequenceResized
<1>9. S = [c.seq_map EXCEPT ![s] = h]
  BY <1>3, Zenon
<1>10. /\ S \in [SeqIds(c) -> SequenceType] /\ S[s] = h
       /\ \A x \in SeqIds(c) \ {s} : S[x] = c.seq_map[x]
  BY <1>1, <1>7, <1>9
<1>11. /\ P \in [Block -> BlockType] /\ P[b] = e /\ \A x \in Block \ {b} : P[x] = c.pool[x]
  BY <1>1, <1>2
<1>12. PICK D : D = SeqIds(c)
  OBVIOUS
<1>13. Parts(F, B, P, D, S)
  BY <1>1, <1>2, <1>10, <1>11, <1>12 DEF Parts
<1>14. /\ Typed(d) /\ SeqIds(d) = D /\ Used(d) = Block \ B
       /\ d.free_page_ids = F /\ d.pool = P /\ d.seq_map = S
  BY <1>13, TypedCache
<1> QED BY <1>2, <1>8, <1>10, <1>11, <1>12, <1>14 DEF Resized

(* A last block of its own may get any pages that are free or were its     *)
(* own.                                                                    *)
LEMMA ResizedWhole ==
  ASSUME NEW c, NEW X, Whole(c, X), NEW s \in SeqIds(c), NEW b, b = c.seq_map[s].last_block_idx,
         Children(c, b) = {}, Owners(c, b) = {s},
         NEW d, NEW e, NEW n, NEW F, Resized(c, d, s, b, e, n, F),
         e.start_pos = c.pool[b].start_pos, e.parent_idx = c.pool[b].parent_idx,
         e.external_ref_cnt = c.pool[b].external_ref_cnt,
         Len(e.page_ids) = PagesFor(e.seq_length), NoRepeats(e.page_ids),
         Elements(e.page_ids) \subseteq c.free_page_ids \cup Pages(c, b),
         F = (c.free_page_ids \cup Pages(c, b)) \ Elements(e.page_ids),
         n = e.start_pos + e.seq_length
  PROVE  Whole(d, X)
<1>1. Structured(c) /\ Linked(c, X) /\ Typed(c) /\ Chained(c) /\ Ended(c)
  BY WholeParts
<1>2. b \in Used(c) /\ b \in Block
  BY <1>1, UsedBlocks DEF Ended, Ends
<1>3. /\ Typed(d) /\ Used(d) = Used(c) /\ SeqIds(d) = SeqIds(c)
      /\ d.pool[b] = e
      /\ \A x \in Used(c) \ {b} : d.pool[x] = c.pool[x]
      /\ \A x \in SeqIds(c) \ {s} : d.seq_map[x] = c.seq_map[x]
      /\ d.seq_map[s].last_block_idx = b /\ d.seq_map[s].seq_length = n /\ d.free_page_ids = F
  BY UsedBlocks DEF Resized
<1>4. \A x \in Used(c) \ {b} : Same(c, d, x)
  BY <1>3, ZenonT(60) DEF Same
<1>5. Hangs(d, b)
  <2>1. Hangs(c, b) /\ c.pool[b].parent_idx # b
    BY <1>1, <1>2, SMTT(30) DEF Chained, Children
  <2>2. c.pool[b].parent_idx # NoBlock => c.pool[b].parent_idx \in Used(c) \ {b}
    BY <2>1 DEF Hangs
  <2> QED BY <1>3, <2>1, <2>2 DEF Hangs
<1>6. Structured(d)
  <2>1. HasPages(d, b) /\ NoRepeats(d.pool[b].page_ids) /\ Pages(d, b) = Elements(e.page_ids)
    BY <1>3 DEF HasPages, Pages
  <2>2. Used(d) = Used(c) \cup {b}
    BY <1>2, <1>3
  <2>3. /\ Pages(d, b) \subseteq c.free_page_ids \cup Pages(c, b)
        /\ d.free_page_ids = (c.free_page_ids \cup Pages(c, b)) \ Pages(d, b)
    BY <1>3, <2>1
  <2> QED BY <1>1, <1>2, <1>3, <1>4, <1>5, <2>1, <2>2, <2>3, OneBlock, ZenonT(60)
<1>7. ASSUME NEW x \in SeqIds(c)
      PROVE  d.seq_map[x].seq_length = LastBlock(d, x).start_pos + LastBlock(d, x).seq_length
  <2>1. CASE x = s
    BY <1>3, <2>1 DEF LastBlock
  <2>2. CASE x # s
    <3>1. d.seq_map[x] = c.seq_map[x] /\ Ends(c, x)
      BY <1>1, <1>3, <2>2 DEF Ended
    <3>2. c.seq_map[x].last_block_idx # b
      BY <2>2, SMTT(30) DEF Owners
    <3>3. LastBlock(d, x) = LastBlock(c, x)
      BY <1>3, <3>1, <3>2, SMTT(30) DEF LastBlock, Ends
    <3> QED BY <3>1, <3>3 DEF Ends
  <2> QED BY <2>1, <2>2, SMTT(30)
<1>8. /\ \A x \in Used(c) : /\ d.pool[x].parent_idx = c.pool[x].parent_idx
                            /\ d.pool[x].external_ref_cnt = c.pool[x].external_ref_cnt
      /\ \A x \in SeqIds(c) : d.seq_map[x].last_block_idx = c.seq_map[x].last_block_idx
  BY <1>3, SMTT(30)
<1>9. Linked(d, X)
  BY <1>1, <1>3, <1>7, <1>8, SameLinks
<1> QED BY <1>6, <1>9 DEF Whole

(* The pages taken are free, and none is taken twice.                      *)
IsTaken(F, n, t) == t \in Seq(Page) /\ Len(t) = n /\ NoRepeats(t) /\ Elements(t) \subseteq F

(* TakePages takes distinct free pages.                                    *)
LEMMA PagesTaken ==
  ASSUME NEW F, F \subseteq Page, NEW n \in Nat, n <= Cardinality(F), NEW t, t = SubSeq(SetToSeq(F), 1, n)
  PROVE  IsTaken(F, n, t)
<1>1. IsFiniteSet(F)
  BY PoolAssumption, FS_Subset
<1>2. PICK m \in Nat : ExistsBijection(1..m, F)
  BY <1>1, FS_NatBijection
<1>3. m = Cardinality(F)
  BY <1>2, FS_CountingElements
<1>4. PICK q : q = SetToSeq(F)
  OBVIOUS
<1>5. q \in [1..m -> F] /\ IsInjective(q)
  <2>1. \E f \in [1..m -> F] : IsInjective(f)
    BY <1>2 DEF ExistsBijection, Bijection, Injection
  <2>2. q = CHOOSE f \in [1..m -> F] : IsInjective(f)
    BY <1>3, <1>4, Zenon DEF SetToSeq
  <2> QED BY <2>1, <2>2, Zenon
<1>6. q \in Seq(Page) /\ Len(q) = m
  BY <1>5
<1>7. n \in 0..m
  BY <1>3
<1>8. t = SubSeq(q, 1, n)
  BY <1>4, Zenon
<1>9. t \in Seq(Page) /\ Len(t) = n /\ \A i \in 1..n : t[i] = q[i]
  BY <1>6, <1>7, <1>8
<1>10. NoRepeats(t)
  BY <1>5, <1>7, <1>9 DEF NoRepeats, IsInjective
<1>11. Elements(t) \subseteq F
  BY <1>5, <1>7, <1>9 DEF Elements
<1> QED BY <1>9, <1>10, <1>11 DEF IsTaken

(* No other sequence sees it.                                              *)
LEMMA ResizedOthers ==
  ASSUME NEW c, Ended(c), NEW s \in SeqIds(c), NEW b, b = c.seq_map[s].last_block_idx, Owners(c, b) = {s},
         NEW d, NEW e, NEW n, NEW F, Resized(c, d, s, b, e, n, F)
  PROVE  OthersKept(c, d, s)
<1>1. \A x \in SeqIds(c) \ {s} : c.seq_map[x].last_block_idx \in Block \ {b}
  BY UsedBlocks DEF Ended, Ends, Owners
<1> QED BY <1>1 DEF Resized, LastBlock, OthersKept

(* Max and Min of two numbers.                                             *)
LEMMA Greater ==
  ASSUME NEW m \in Nat, NEW n \in Nat
  PROVE  Max({0, m}) = m /\ (m <= n => Min({m, n}) = m)
<1>1. Max({0, m}) = m
  <2>1. {0, m} \subseteq 0..m /\ {0, m} # {}
    OBVIOUS
  <2>2. Max({0, m}) \in {0, m} /\ \A x \in {0, m} : x <= Max({0, m})
    BY <2>1, MaxIn
  <2> QED BY <2>2
<1>2. m <= n => Min({m, n}) = m
  <2>1. Min({m, n}) \in {m, n} /\ \A x \in {m, n} : Min({m, n}) <= x
    BY MinIn
  <2> QED BY <2>1
<1> QED BY <1>1, <1>2

(* ReserveAppendLengthInSeq.                                               *)
LEMMA ReservedWhole ==
  ASSUME ~support_sliding_window, NEW c, NEW X, Whole(c, X), NEW s \in SeqIds(c) \ X, NEW n \in Nat,
         ReserveFits(c, s, n)
  PROVE  LET d == Reserved(c, s, n) IN
         /\ Whole(d, X) /\ SeqIds(d) = SeqIds(c)
         /\ LastBlock(d, s).seq_length = LastBlock(c, s).seq_length + n
         /\ OthersKept(c, d, s)
         /\ Lengthens(c, d, s) /\ d.kv = c.kv
         /\ d.seq_map[s].seq_length = c.seq_map[s].seq_length + n
<1>1. Structured(c) /\ Linked(c, X) /\ Typed(c) /\ Chained(c) /\ Paged(c) /\ Ended(c) /\ Private(c, X)
  BY WholeParts
<1>2. PICK b, block, F, B, P, S, kv, d :
        /\ b = c.seq_map[s].last_block_idx /\ block = LastBlock(c, s)
        /\ F = c.free_page_ids /\ B = c.free_block_idx /\ P = c.pool /\ S = c.seq_map /\ kv = c.kv
        /\ d = Reserved(c, s, n)
  OBVIOUS
<1>3. /\ b \in Used(c) /\ b \in Block /\ Children(c, b) = {} /\ Owners(c, b) = {s}
      /\ block = c.pool[b] /\ block \in BlockType /\ S[s].seq_length = block.start_pos + block.seq_length
      /\ HasPages(c, b)
  <2>1. Ends(c, s) /\ Alone(c, s)
    BY <1>1 DEF Ended, Private
  <2>2. b \in Used(c) /\ b \in Block
    BY <1>2, <2>1, UsedBlocks DEF Ends
  <2> QED BY <1>1, <1>2, <2>1, <2>2, CacheFields DEF Ends, Alone, LastBlock, Paged
<1>4. PICK q, p, l, u, r : /\ q = block.page_ids /\ p = block.start_pos /\ l = block.seq_length
                           /\ u = block.parent_idx /\ r = block.external_ref_cnt
  OBVIOUS
<1>5. /\ q \in Seq(Page) /\ p \in Nat /\ l \in Nat /\ u \in Block \cup {NoBlock} /\ r \in Nat
      /\ block.sink_length = 0 /\ block.sliding_window_offset = 0
      /\ Len(q) = PagesFor(l)
  BY <1>3, <1>4 DEF BlockType, HasPages
<1>6. IsBlock(block, q, p, l, u, r)
  BY <1>3, <1>4, BlockForm
<1>7. PICK m \in Nat : m = PagesFor(l + n) - Len(q) /\ PagesFor(l + n) \in Nat
  <2>1. l + n \in Nat /\ l <= l + n
    BY <1>5
  <2>2. PagesFor(l) \in Nat /\ PagesFor(l + n) \in Nat /\ PagesFor(l) <= PagesFor(l + n)
    BY <1>5, <2>1, PagesForOrder
  <2>3. PagesFor(l + n) - PagesFor(l) \in Nat
    BY <2>2
  <2> QED BY <1>5, <2>2, <2>3
<1>8. PagesMissing(block, n) = m
  <2>1. block.seq_length - block.sink_length + block.sliding_window_offset + n = l + n
    BY <1>4, <1>5
  <2>2. PagesMissing(block, n) = Max({0, m})
    BY <1>4, <1>7, <2>1 DEF PagesMissing
  <2> QED BY <2>2, Greater
<1>9. F \subseteq Page /\ Cardinality(F) \in Nat
  <2>1. F \subseteq Page
    BY <1>1, <1>2 DEF Typed
  <2> QED BY <2>1, PoolAssumption, FS_Subset, FS_CardinalityType
<1>10. m <= Cardinality(F)
  BY <1>2, <1>8 DEF ReserveFits, MayBorrow
<1>11. PICK t : t = SubSeq(SetToSeq(F), 1, m)
  OBVIOUS
<1>12. t \in Seq(Page) /\ Len(t) = m /\ NoRepeats(t) /\ Elements(t) \subseteq F
  <2>1. F \subseteq Page /\ m <= Cardinality(F)
    BY <1>9, <1>10
  <2>2. IsTaken(F, m, t)
    BY <1>11, <2>1, PagesTaken, Zenon
  <2> QED BY <2>2 DEF IsTaken
<1>13. PICK e, G, N : /\ e = [block EXCEPT !.page_ids = q \o t \o <<>>, !.seq_length = l + n]
                      /\ G = F \ Elements(t)
                      /\ N = S[s].seq_length + n
  OBVIOUS
<1>14. d = [c EXCEPT !.free_page_ids = G, !.seq_map[s].seq_length = N, !.pool[b] = e]
  <2> DEFINE bb == LastBlock(c, s)
             mm == PagesMissing(bb, n)
             tt == TakePages(c, Min({mm, Cardinality(c.free_page_ids)}))
             ll == [i \in 1..(mm - Len(tt)) |-> TempPage]
  <2>1. d = [c EXCEPT !.free_page_ids = c.free_page_ids \ ToSet(tt),
                      !.seq_map[s].seq_length = c.seq_map[s].seq_length + n,
                      !.pool[c.seq_map[s].last_block_idx] =
                        [bb EXCEPT !.page_ids = bb.page_ids \o tt \o ll, !.seq_length = bb.seq_length + n]]
    BY <1>2, Zenon DEF Reserved
  <2>2. bb = block /\ mm = m
    BY <1>2, <1>8, Zenon
  <2>3. tt = t
    <3>1. tt = SubSeq(SetToSeq(F), 1, Min({m, Cardinality(F)}))
      BY <1>2, <2>2, Zenon DEF TakePages
    <3>2. Min({m, Cardinality(F)}) = m
      BY <1>9, <1>10, Greater
    <3> QED BY <1>11, <3>1, <3>2, Zenon
  <2>4. ll = <<>>
    <3>1. mm - Len(tt) = 0
      BY <1>12, <2>2, <2>3
    <3>2. \A i : i \notin 1..0
      OBVIOUS
    <3> HIDE DEF mm, tt
    <3>3. ll = [i \in 1..0 |-> TempPage]
      BY <3>1, Zenon
    <3> QED BY <3>2, <3>3
  <2>5. ToSet(tt) = Elements(t)
    BY <2>3, Zenon DEF ToSet, Elements
  <2> HIDE DEF bb, mm, tt, ll
  <2>6. [bb EXCEPT !.page_ids = bb.page_ids \o tt \o ll, !.seq_length = bb.seq_length + n] = e
    BY <1>4, <1>13, <2>2, <2>3, <2>4, Zenon
  <2> QED BY <1>2, <1>13, <2>1, <2>5, <2>6, Zenon
<1>15. IsBlock(e, q \o t \o <<>>, p, l + n, u, r)
  <2>1. \A y, z : IsBlock([block EXCEPT !.page_ids = y, !.seq_length = z], y, p, z, u, r)
    BY <1>6, SetBlock, Zenon
  <2> QED BY <1>13, <2>1, Zenon
<1>16. PICK w : w = q \o t
  OBVIOUS
<1>17. q \o t \o <<>> = w /\ w \in Seq(Page) /\ Len(w) = PagesFor(l + n)
  <2>1. w \in Seq(Page) /\ Len(w) = Len(q) + m
    <3>1. q \in Seq(Page) /\ t \in Seq(Page) /\ Len(t) = m
      BY <1>5, <1>12
    <3> QED BY <1>16, <3>1, ConcatProperties
  <2>2. Len(q) \in Nat
    BY <1>5
  <2>3. w \o <<>> = w
    BY <2>1
  <2> QED BY <1>7, <1>16, <2>1, <2>2, <2>3
<1>18. IsBlock(e, w, p, l + n, u, r)
  BY <1>15, <1>17, Zenon
<1>19. /\ e \in BlockType
       /\ e.page_ids = w /\ e.start_pos = p /\ e.seq_length = l + n /\ e.parent_idx = u /\ e.external_ref_cnt = r
  <2>1. /\ e.page_ids = w /\ e.start_pos = p /\ e.seq_length = l + n
        /\ e.parent_idx = u /\ e.external_ref_cnt = r
    BY <1>18, SetBlock, Zenon
  <2>2. l + n \in Nat
    BY <1>5
  <2>3. e \in BlockType
    BY <1>5, <1>17, <1>18, <2>2, BlockTyped
  <2> QED BY <2>1, <2>3
<1>20. PICK Q, T : Q = [P EXCEPT ![b] = e] /\ T = [S EXCEPT ![s] = [S[s] EXCEPT !.seq_length = N]]
  OBVIOUS
<1>21. IsCache(d, G, B, Q, T, kv)
  <2>1. IsCache(c, F, B, P, S, kv)
    BY <1>1, <1>2, CacheFields
  <2>2. d = [c EXCEPT !.free_page_ids = G, !.seq_map = [c.seq_map EXCEPT ![s] = [c.seq_map[s] EXCEPT !.seq_length = N]],
                      !.pool = [c.pool EXCEPT ![b] = e]]
    BY <1>14, Zenon
  <2>3. d = [c EXCEPT !.free_page_ids = G, !.seq_map = T, !.pool = Q]
    BY <1>2, <1>20, <2>2, Zenon
  <2>4. IsCache([c EXCEPT !.free_page_ids = G, !.seq_map = T, !.pool = Q], G, B, Q, T, kv)
    BY <2>1, SetMembers, Zenon
  <2> QED BY <2>3, <2>4, Zenon
<1>22. Resized(c, d, s, b, e, N, G)
  <2>1. G \subseteq Page
    BY <1>9, <1>13
  <2>2. N \in Nat
    <3>1. S[s].seq_length = p + l
      BY <1>3, <1>4
    <3>2. p \in Nat /\ l \in Nat
      BY <1>5
    <3> QED BY <1>13, <3>1, <3>2
  <2>3. /\ Q = [c.pool EXCEPT ![b] = e]
        /\ T = [c.seq_map EXCEPT ![s] = [c.seq_map[s] EXCEPT !.seq_length = N]]
    BY <1>2, <1>20, Zenon
  <2>4. Typed(c) /\ s \in SeqIds(c) /\ b \in Used(c) /\ e \in BlockType
    BY <1>1, <1>3, <1>19
  <2>5. b = c.seq_map[s].last_block_idx /\ B = c.free_block_idx
    BY <1>2
  <2> QED BY <1>21, <2>1, <2>2, <2>3, <2>4, <2>5, ResizedIs, Zenon
<1>23. /\ NoRepeats(w) /\ Elements(w) = Pages(c, b) \cup Elements(t)
       /\ Pages(c, b) \cap F = {}
  <2>1. Pages(c, b) = Elements(q)
    BY <1>3, <1>4 DEF Pages
  <2>2. \A x \in Elements(q) : x \notin F
    BY <1>1, <1>2, <1>3, <1>4 DEF Paged, Taken, Elements
  <2>3. NoRepeats(q)
    BY <1>1, <1>3, <1>4 DEF Paged, Apart, NoRepeats
  <2>4. Elements(q) \cap Elements(t) = {}
    BY <1>12, <2>2, SMTT(30)
  <2> QED BY <1>5, <1>12, <1>16, <2>1, <2>2, <2>3, <2>4, QueueConcat
<1>24. Whole(d, X)
  <2>1. /\ Elements(e.page_ids) \subseteq c.free_page_ids \cup Pages(c, b)
        /\ G = (c.free_page_ids \cup Pages(c, b)) \ Elements(e.page_ids)
    BY <1>2, <1>12, <1>13, <1>19, <1>22, <1>23
  <2>2. N = e.start_pos + e.seq_length
    BY <1>3, <1>4, <1>5, <1>13, <1>19
  <2>3. /\ e.start_pos = c.pool[b].start_pos /\ e.parent_idx = c.pool[b].parent_idx
        /\ e.external_ref_cnt = c.pool[b].external_ref_cnt
        /\ Len(e.page_ids) = PagesFor(e.seq_length) /\ NoRepeats(e.page_ids)
    BY <1>3, <1>4, <1>17, <1>19, <1>23
  <2> QED BY <1>2, <1>3, <1>22, <2>1, <2>2, <2>3, ResizedWhole
<1>25. OthersKept(c, d, s)
  <2>1. Ended(c) /\ s \in SeqIds(c)
    BY <1>1
  <2>2. b = c.seq_map[s].last_block_idx /\ Owners(c, b) = {s}
    BY <1>2, <1>3
  <2> QED BY <1>22, <2>1, <2>2, ResizedOthers, Zenon
<1>26. SeqIds(d) = SeqIds(c) /\ LastBlock(d, s) = e
  BY <1>22 DEF Resized, LastBlock
<1>27. /\ Used(d) = Used(c) /\ d.seq_map[s].last_block_idx = b /\ d.seq_map[s].seq_length = N
       /\ \A x \in Used(c) \ {b} : Same(c, d, x)
  BY <1>22, UsedBlocks DEF Resized, Same
<1>28. Longer(c, d, b)
  <2>1. d.pool[b] = e /\ c.pool[b] = block
    BY <1>3, <1>22 DEF Resized
  <2>2. l <= l + n
    BY <1>5
  <2>3. \A i \in DOMAIN q : i \in DOMAIN w /\ w[i] = q[i]
    BY <1>5, <1>12, <1>16
  <2> QED BY <1>4, <1>19, <2>1, <2>2, <2>3 DEF Longer
<1>29. d.kv = c.kv
  BY <1>2, <1>21, SetMembers, Zenon
<1>30. Lengthens(c, d, s) /\ d.seq_map[s].seq_length = c.seq_map[s].seq_length + n
  BY <1>2, <1>13, <1>27, <1>28 DEF Lengthens
<1> QED BY <1>2, <1>4, <1>19, <1>24, <1>25, <1>26, <1>29, <1>30

-----------------------------------------------------------------------------
(* BeginForward.                                                           *)

(* Without windows nothing slides.                                         *)
LEMMA NothingSlides ==
  ASSUME ~support_sliding_window, NEW c, NEW s
  PROVE  Slid(c, s) = c /\ SlideHolds(c, s)
<1>1. LengthToSlide(c, s) = 0
  BY DEF LengthToSlide, MayBorrow
<1>2. Slid(c, s) = c
  BY <1>1, Zenon DEF Slid
<1>3. SlideHolds(c, s)
  <2>1. ~ (LengthToSlide(c, s) > 0)
    BY <1>1
  <2> QED BY <2>1, Zenon DEF SlideHolds
<1> QED BY <1>2, <1>3

(* Assigning the value a member has changes nothing.                       *)
LEMMA SamePages ==
  ASSUME NEW e \in BlockType
  PROVE  [e EXCEPT !.page_ids = e.page_ids] = e
BY DEF BlockType

(* And nothing is borrowed.                                                *)
LEMMA NothingBorrowed ==
  ASSUME NEW c, Typed(c), NEW s, NEW b \in Block, b = c.seq_map[s].last_block_idx
  PROVE  Allocated(c, s) = c /\ AllocateFits(c, s)
<1>1. PICK F, B, P, S, kv, e, q :
        /\ F = c.free_page_ids /\ B = c.free_block_idx /\ P = c.pool /\ S = c.seq_map /\ kv = c.kv
        /\ e = P[b] /\ q = e.page_ids
  OBVIOUS
<1>2. IsCache(c, F, B, P, S, kv) /\ F \subseteq Page /\ P \in [Block -> BlockType]
  BY <1>1, CacheFields
<1>3. e \in BlockType /\ q \in Seq(Page)
  BY <1>1, <1>2 DEF BlockType
<1>4. LastBlock(c, s) = e
  BY <1>1 DEF LastBlock
<1>5. Borrowed(e) = {}
  <2>1. \A i \in DOMAIN q : q[i] # TempPage
    BY <1>3, PoolAssumption DEF TempPage
  <2> QED BY <1>1, <2>1 DEF Borrowed
<1>6. Cardinality({}) = 0
  BY FS_EmptySet
<1>7. Elements(TakePages(c, 0)) = {}
  <2>1. F \subseteq Page /\ IsFiniteSet(F)
    BY <1>2, PoolAssumption, FS_Subset
  <2>2. Cardinality(F) \in Nat
    BY <2>1, FS_CardinalityType
  <2>3. IsTaken(F, 0, TakePages(c, 0))
    <3>1. 0 <= Cardinality(F) /\ 0 \in Nat
      BY <2>2
    <3>2. TakePages(c, 0) = SubSeq(SetToSeq(F), 1, 0)
      BY <1>1, Zenon DEF TakePages
    <3> QED BY <2>1, <3>1, <3>2, PagesTaken, Zenon
  <2> QED BY <2>3 DEF IsTaken, Elements
<1>8. Allocated(c, s) = [c EXCEPT !.free_page_ids = F \ {}, !.pool[b].page_ids = q]
  <2> DEFINE tt == TakePages(c, 0)
             nth(i) == Cardinality({j \in {} : j <= i})
             gg == [i \in DOMAIN c.pool[b].page_ids |-> IF i \in {} THEN tt[nth(i)] ELSE c.pool[b].page_ids[i]]
  <2>1. Allocated(c, s) = [c EXCEPT !.free_page_ids = F \ ToSet(tt), !.pool[b].page_ids = gg]
    BY <1>1, <1>4, <1>5, <1>6, Zenon DEF Allocated
  <2>2. gg = [i \in DOMAIN q |-> q[i]]
    BY <1>1, Zenon
  <2>3. [i \in DOMAIN q |-> q[i]] = q
    BY <1>3
  <2>4. ToSet(tt) = {}
    BY <1>7 DEF ToSet, Elements
  <2> HIDE DEF gg, tt
  <2> QED BY <2>1, <2>2, <2>3, <2>4, Zenon
<1>9. [c EXCEPT !.free_page_ids = F \ {}, !.pool[b].page_ids = q] = c
  <2>1. F \ {} = F
    OBVIOUS
  <2>2. [e EXCEPT !.page_ids = q] = e
    BY <1>1, <1>3, SamePages
  <2>3. [P EXCEPT ![b] = e] = P
    BY <1>1, <1>2
  <2>4. [c EXCEPT !.free_page_ids = F \ {}, !.pool[b].page_ids = q] =
        [c EXCEPT !.free_page_ids = F \ {}, !.pool = [c.pool EXCEPT ![b] = [c.pool[b] EXCEPT !.page_ids = q]]]
    BY Zenon
  <2>5. [c EXCEPT !.free_page_ids = F \ {}, !.pool = [c.pool EXCEPT ![b] = [c.pool[b] EXCEPT !.page_ids = q]]] =
        [c EXCEPT !.free_page_ids = F, !.pool = P]
    BY <1>1, <2>1, <2>2, <2>3, Zenon
  <2>6. PICK c1 : c1 = [c EXCEPT !.free_page_ids = F]
    OBVIOUS
  <2>7. IsCache(c1, F, B, P, S, kv)
    BY <1>2, <2>6, SMT DEF IsCache
  <2>8. [c EXCEPT !.free_page_ids = F, !.pool = P] = [c1 EXCEPT !.pool = P]
    BY <2>6, Zenon
  <2>9. IsCache([c1 EXCEPT !.pool = P], F, B, P, S, kv)
    BY <2>7, SMT DEF IsCache
  <2> QED BY <1>2, <2>4, <2>5, <2>8, <2>9 DEF IsCache
<1>10. AllocateFits(c, s)
  <2>1. Cardinality(c.free_page_ids) \in Nat
    BY <1>1, <1>2, PoolAssumption, FS_Subset, FS_CardinalityType
  <2> QED BY <1>4, <1>5, <1>6, <2>1 DEF AllocateFits
<1> QED BY <1>8, <1>9, <1>10, Zenon

(* Storing tokens leaves the structure alone.                              *)
LEMMA WrittenWhole ==
  ASSUME NEW c, NEW X, Whole(c, X), NEW slots, NEW tokens
  PROVE  LET d == Written(c, slots, tokens) IN
         /\ Whole(d, X) /\ SeqIds(d) = SeqIds(c)
         /\ d.seq_map = c.seq_map /\ d.pool = c.pool
<1>1. Structured(c) /\ Linked(c, X) /\ Typed(c) /\ Ended(c)
  BY WholeParts
<1>2. PICK F, B, P, S, kv, D, d :
        /\ F = c.free_page_ids /\ B = c.free_block_idx /\ P = c.pool /\ S = c.seq_map /\ kv = c.kv
        /\ D = SeqIds(c) /\ d = Written(c, slots, tokens)
  OBVIOUS
<1>3. IsCache(c, F, B, P, S, kv) /\ Parts(F, B, P, D, S)
  BY <1>1, <1>2, CacheFields DEF Parts
<1>4. PICK k : IsCache(d, F, B, P, S, k)
  <2> DEFINE kk == [p \in Page |-> [o \in Offset |->
                     IF <<p, o>> \in ToSet(slots)
                     THEN tokens[Max({i \in DOMAIN slots : slots[i] = <<p, o>>})] ELSE c.kv[p][o]]]
  <2>1. d = [c EXCEPT !.kv = kk]
    BY <1>2, Zenon DEF Written
  <2> HIDE DEF kk
  <2>2. IsCache(d, F, B, P, S, kk)
    BY <1>3, <2>1, SMT DEF IsCache
  <2> QED BY <2>2
<1>5. /\ Typed(d) /\ SeqIds(d) = SeqIds(c) /\ Used(d) = Used(c)
      /\ d.free_page_ids = c.free_page_ids /\ d.pool = c.pool /\ d.seq_map = c.seq_map
  <2>1. /\ Typed(d) /\ SeqIds(d) = D /\ Used(d) = Block \ B
        /\ d.free_page_ids = F /\ d.pool = P /\ d.seq_map = S
    BY <1>3, <1>4, TypedCache
  <2> QED BY <1>2, <2>1 DEF Used
<1>6. Structured(d)
  BY <1>1, <1>5, SameStructure DEF Same
<1>7. Linked(d, X)
  <2>1. \A x \in SeqIds(c) : d.seq_map[x].seq_length = LastBlock(d, x).start_pos + LastBlock(d, x).seq_length
    BY <1>1, <1>5 DEF Ended, Ends, LastBlock
  <2> QED BY <1>1, <1>5, <2>1, SameLinks
<1> QED BY <1>2, <1>5, <1>6, <1>7 DEF Whole

(* The sequences and their last blocks, where one may have grown.          *)
Grown(c, d, s, n) ==
  /\ SeqIds(d) = SeqIds(c)
  /\ LastBlock(d, s).seq_length = LastBlock(c, s).seq_length + n
  /\ OthersKept(c, d, s)

Result(r) == r = [cache |-> r.cache, threw |-> r.threw, slots |-> r.slots]

(* ReserveAppendLengthInSeq keeps the structure when its checks hold.      *)
LEMMA AppendedWhole ==
  ASSUME ~support_sliding_window, NEW r, Result(r), NEW X, NEW entry, NEW import, NEW a,
         a = Appended(r, entry, import),
         r.threw = "no" => Whole(r.cache, X),
         entry.seq \in SeqIds(r.cache) \ X, entry.n \in Nat
  PROVE  /\ Result(a)
         /\ a.threw = "no" => /\ r.threw = "no"
                              /\ Whole(a.cache, X)
                              /\ Grown(r.cache, a.cache, entry.seq, entry.n)
<1>1. PICK c, s, n : c = r.cache /\ s = entry.seq /\ n = entry.n
  OBVIOUS
<1>2. PICK reserved : reserved = Reserved(c, s, n)
  OBVIOUS
<1>3. SlideHolds(reserved, s) /\ Slid(reserved, s) = reserved
  BY NothingSlides
<1>4. PICK full, slide : full = [r EXCEPT !.threw = "full"] /\ slide = [r EXCEPT !.threw = "slide"]
  OBVIOUS
<1>5. Result(full) /\ full.threw = "full"
  BY <1>4, SMT DEF Result
<1>6. CASE r.threw # "no"
  <2>1. a = r
    BY <1>6, Zenon DEF Appended
  <2> QED BY <1>6, <2>1
<1>7. CASE r.threw = "no" /\ ~ReserveFits(c, s, n)
  <2>1. a = full
    BY <1>1, <1>4, <1>7, Zenon DEF Appended
  <2> QED BY <1>5, <2>1
<1>8. CASE r.threw = "no" /\ ReserveFits(c, s, n)
  <2>1. /\ Whole(reserved, X) /\ Grown(c, reserved, s, n)
    <3>1. Whole(c, X) /\ s \in SeqIds(c) \ X /\ n \in Nat /\ ReserveFits(c, s, n)
      BY <1>1, <1>8
    <3>2. /\ Whole(reserved, X) /\ SeqIds(reserved) = SeqIds(c)
          /\ LastBlock(reserved, s).seq_length = LastBlock(c, s).seq_length + n
          /\ OthersKept(c, reserved, s)
      BY <1>2, <3>1, ReservedWhole
    <3> QED BY <3>2 DEF Grown
  <2>2. Allocated(reserved, s) = reserved /\ AllocateFits(reserved, s)
    <3>1. Typed(reserved) /\ Ended(reserved)
      BY <2>1, WholeParts
    <3>2. s \in SeqIds(reserved)
      BY <1>1, <2>1 DEF Grown
    <3>3. PICK b : b = reserved.seq_map[s].last_block_idx
      OBVIOUS
    <3>4. b \in Block
      BY <3>1, <3>2, <3>3, UsedBlocks DEF Ended, Ends
    <3> QED BY <3>1, <3>3, <3>4, NothingBorrowed
  <2>3. \E slots, tokens, z : a = [cache |-> Written(reserved, slots, tokens), threw |-> "no", slots |-> z]
    <3> DEFINE before == LastBlock(c, s).seq_length
               tokens == IF import THEN [i \in 1..n |-> Junk]
                         ELSE NewTokens(c, c.seq_map[s].seq_length, n)
               slots  == [i \in 1..n |-> AppendSlot(LastBlock(reserved, s), before, n, i - 1)]
    <3>1. a = IF ~AllocateFits(reserved, s) THEN full
              ELSE [cache |-> Written(reserved, slots, tokens), threw |-> "no",
                    slots |-> Append(r.slots, slots)]
      BY <1>1, <1>2, <1>3, <1>4, <1>8, <2>2, Zenon DEF Appended
    <3> HIDE DEF before, tokens, slots
    <3>2. a = [cache |-> Written(reserved, slots, tokens), threw |-> "no", slots |-> Append(r.slots, slots)]
      BY <2>2, <3>1, Zenon
    <3> QED BY <3>2
  <2>4. PICK slots, tokens, z : a = [cache |-> Written(reserved, slots, tokens), threw |-> "no", slots |-> z]
    BY <2>3
  <2>5. PICK d : d = Written(reserved, slots, tokens)
    OBVIOUS
  <2>6. Whole(d, X) /\ SeqIds(d) = SeqIds(reserved) /\ d.seq_map = reserved.seq_map /\ d.pool = reserved.pool
    BY <2>1, <2>5, WrittenWhole
  <2>7. a = [cache |-> d, threw |-> "no", slots |-> z]
    BY <2>4, <2>5
  <2>8. Grown(c, d, s, n)
    BY <2>1, <2>6 DEF Grown, OthersKept, LastBlock
  <2> QED BY <1>1, <1>8, <2>6, <2>7, <2>8 DEF Result
<1> QED BY <1>6, <1>7, <1>8

(* The results of the first m entries of a batch.                          *)
Results(c, batch, import, f, m) ==
  f = [i \in 0..m |-> IF i = 0 THEN [cache |-> c, threw |-> "no", slots |-> <<>>]
                      ELSE Appended(f[i - 1], batch[i], import)]

(* The results of a batch, entry by entry, exist.                          *)
LEMMA ResultsExist ==
  ASSUME NEW c, NEW batch, NEW import, NEW n \in Nat
  PROVE  \E f : Results(c, batch, import, f, n)
<1> DEFINE T == {m \in Nat : ~ \E f : Results(c, batch, import, f, m)}
           start == [cache |-> c, threw |-> "no", slots |-> <<>>]
<1> SUFFICES ASSUME n \in T PROVE FALSE
  OBVIOUS
<1>1. PICK m \in T : \A k \in T : m <= k
  BY LeastNatural
<1> HIDE DEF start
<1>2. CASE m = 0
  <2> DEFINE f == [i \in 0..0 |-> start]
  <2>1. f = [i \in 0..0 |-> IF i = 0 THEN start ELSE Appended(f[i - 1], batch[i], import)]
    <3>1. \A i \in 0..0 : i = 0
      OBVIOUS
    <3> QED BY <3>1, Zenon
  <2>2. Results(c, batch, import, f, 0)
    BY <2>1, Zenon DEF Results, start
  <2> QED BY <1>1, <1>2, <2>2
<1>3. CASE m # 0
  <2>1. m - 1 \in Nat /\ m \in Nat /\ ~ (m <= m - 1)
    BY <1>3
  <2>2. m - 1 \notin T
    BY <1>1, <2>1
  <2>3. PICK k \in Nat : k = m - 1 /\ m = k + 1
    BY <2>1
  <2>4. PICK f : Results(c, batch, import, f, k)
    BY <2>2, <2>3
  <2> DEFINE g == [i \in 0..m |-> IF i = 0 THEN start ELSE Appended(f[i - 1], batch[i], import)]
  <2>5. f = [i \in 0..k |-> IF i = 0 THEN start ELSE Appended(f[i - 1], batch[i], import)]
    BY <2>4, Zenon DEF Results, start
  <2>6. ASSUME NEW i \in 0..k PROVE g[i] = f[i]
    <3>1. i \in 0..m
      BY <2>3
    <3>2. g[i] = IF i = 0 THEN start ELSE Appended(f[i - 1], batch[i], import)
      BY <3>1, Zenon
    <3>3. f[i] = IF i = 0 THEN start ELSE Appended(f[i - 1], batch[i], import)
      BY <2>5, Zenon
    <3> QED BY <3>2, <3>3, Zenon
  <2>7. ASSUME NEW i \in 0..m
        PROVE  (IF i = 0 THEN start ELSE Appended(f[i - 1], batch[i], import)) =
               (IF i = 0 THEN start ELSE Appended(g[i - 1], batch[i], import))
    <3>1. i # 0 => i - 1 \in 0..k
      BY <2>3
    <3>2. i # 0 => g[i - 1] = f[i - 1]
      BY <2>6, <3>1
    <3> HIDE DEF g
    <3> QED BY <3>2, Zenon
  <2>8. g = [i \in 0..m |-> IF i = 0 THEN start ELSE Appended(g[i - 1], batch[i], import)]
    BY <2>7, Zenon
  <2>9. Results(c, batch, import, g, m)
    BY <2>8, Zenon DEF Results, start
  <2> QED BY <1>1, <2>9
<1> QED BY <1>2, <1>3

(* After the first i entries of a batch.                                   *)
IsBatch(c, batch) ==
  /\ Len(batch) \in Nat
  /\ \A i \in 1..Len(batch) : batch[i].seq \in SeqIds(c) /\ batch[i].n \in Nat
HasGrown(c, batch, r, i) ==
  /\ Result(r)
  /\ r.threw = "no" =>
       /\ Whole(r.cache, {})
       /\ SeqIds(r.cache) = SeqIds(c)
       /\ \A j \in 1..i : batch[j].n <= LastBlock(r.cache, batch[j].seq).seq_length

(* One more entry of a batch.                                              *)
LEMMA HasGrownMore ==
  ASSUME ~support_sliding_window, NEW c, NEW batch, IsBatch(c, batch), NEW import,
         NEW i \in Nat, i + 1 \in 1..Len(batch), NEW r, HasGrown(c, batch, r, i),
         NEW a, a = Appended(r, batch[i + 1], import)
  PROVE  HasGrown(c, batch, a, i + 1)
<1>1. CASE r.threw # "no"
  <2>1. a = r
    BY <1>1, Zenon DEF Appended
  <2> QED BY <1>1, <2>1 DEF HasGrown
<1>2. CASE r.threw = "no"
  <2>1. PICK d, entry, s, n : d = r.cache /\ entry = batch[i + 1] /\ s = entry.seq /\ n = entry.n
    OBVIOUS
  <2>2. /\ Result(r) /\ Whole(d, {}) /\ SeqIds(d) = SeqIds(c)
        /\ \A j \in 1..i : batch[j].n <= LastBlock(d, batch[j].seq).seq_length
    BY <1>2, <2>1 DEF HasGrown
  <2>3. s \in SeqIds(d) /\ n \in Nat
    BY <2>1, <2>2 DEF IsBatch
  <2>4. /\ Result(a)
        /\ a.threw = "no" => Whole(a.cache, {}) /\ Grown(d, a.cache, s, n)
    <3>1. entry.seq \in SeqIds(r.cache) \ {} /\ entry.n \in Nat
      BY <2>1, <2>3
    <3>2. a = Appended(r, entry, import)
      BY <2>1
    <3>3. Result(r) /\ (r.threw = "no" => Whole(r.cache, {}))
      BY <2>1, <2>2
    <3>4. /\ Result(a)
          /\ a.threw = "no" => /\ r.threw = "no"
                               /\ Whole(a.cache, {})
                               /\ Grown(r.cache, a.cache, entry.seq, entry.n)
      BY <3>1, <3>2, <3>3, AppendedWhole
    <3> QED BY <2>1, <3>4
  <2> SUFFICES ASSUME a.threw = "no" PROVE HasGrown(c, batch, a, i + 1)
    BY <2>4 DEF HasGrown
  <2>5. PICK e : e = a.cache
    OBVIOUS
  <2>6. Whole(e, {}) /\ Grown(d, e, s, n) /\ Result(a)
    BY <2>4, <2>5
  <2>7. \A x \in SeqIds(d) : LastBlock(d, x).seq_length \in Nat
    BY <2>2, WholeParts, UsedBlocks, BlockFields DEF Ended, Ends, LastBlock
  <2>8. ASSUME NEW j \in 1..(i + 1) PROVE batch[j].n <= LastBlock(e, batch[j].seq).seq_length
    <3>1. batch[j].seq \in SeqIds(d) /\ batch[j].n \in Nat
      BY <2>2 DEF IsBatch
    <3>2. CASE j = i + 1
      <4>1. LastBlock(e, s).seq_length = LastBlock(d, s).seq_length + n
        BY <2>6 DEF Grown
      <4>2. LastBlock(d, s).seq_length \in Nat
        BY <2>3, <2>7
      <4>3. n <= LastBlock(e, s).seq_length
        BY <2>3, <4>1, <4>2
      <4> QED BY <2>1, <3>2, <4>3
    <3>3. CASE j # i + 1 /\ batch[j].seq = s
      <4>1. LastBlock(e, s).seq_length = LastBlock(d, s).seq_length + n
        BY <2>6 DEF Grown
      <4>2. LastBlock(d, s).seq_length \in Nat /\ batch[j].n <= LastBlock(d, s).seq_length
        <5>1. j \in 1..i
          BY <3>3
        <5> QED BY <2>2, <2>3, <2>7, <3>3, <5>1
      <4>3. batch[j].n <= LastBlock(e, s).seq_length
        BY <2>3, <3>1, <4>1, <4>2
      <4> QED BY <3>3, <4>3
    <3>4. CASE j # i + 1 /\ batch[j].seq # s
      <4>1. j \in 1..i
        BY <3>4
      <4>2. LastBlock(e, batch[j].seq) = LastBlock(d, batch[j].seq)
        BY <2>6, <3>1, <3>4 DEF Grown, OthersKept
      <4> QED BY <2>2, <4>1, <4>2
    <3> QED BY <3>2, <3>3, <3>4
  <2> QED BY <2>2, <2>5, <2>6, <2>8 DEF HasGrown, Grown
<1> QED BY <1>1, <1>2

(* A batch keeps the structure and leaves room for what its trees may      *)
(* lose.                                                                   *)
LEMMA ForwardedWhole ==
  ASSUME ~support_sliding_window, NEW c, Whole(c, {}), NEW batch, IsBatch(c, batch), NEW import
  PROVE  HasGrown(c, batch, Forwarded(c, batch, import), Len(batch))
<1> DEFINE l == Len(batch)
           start == [cache |-> c, threw |-> "no", slots |-> <<>>]
           g == CHOOSE f : f = [i \in 0..l |-> IF i = 0 THEN [cache |-> c, threw |-> "no", slots |-> <<>>]
                                ELSE Appended(f[i - 1], batch[i], import)]
<1>1. l \in Nat
  BY DEF IsBatch
<1>2. Forwarded(c, batch, import) = g[l]
  BY Zenon DEF Forwarded
<1>3. Results(c, batch, import, g, l)
  <2>1. \E f : Results(c, batch, import, f, l)
    BY <1>1, ResultsExist, Zenon
  <2> QED BY <2>1, Zenon DEF Results
<1> HIDE DEF g
<1>4. /\ g[0] = start
      /\ \A i \in 1..l : g[i] = Appended(g[i - 1], batch[i], import)
  <2>1. \A i \in 0..l : g[i] = IF i = 0 THEN start ELSE Appended(g[i - 1], batch[i], import)
    BY <1>3, Zenon DEF Results
  <2>2. 0 \in 0..l /\ \A i \in 1..l : i \in 0..l /\ i # 0
    BY <1>1
  <2> HIDE DEF l, start
  <2> QED BY <2>1, <2>2, Zenon
<1>5. HasGrown(c, batch, g[0], 0)
  <2>1. start.cache = c /\ start.threw = "no" /\ Result(start)
    BY DEF Result
  <2>2. 1..0 = {}
    OBVIOUS
  <2> HIDE DEF start
  <2> QED BY <1>4, <2>1, <2>2 DEF HasGrown
<1> DEFINE T == {i \in Nat : i <= l /\ ~ HasGrown(c, batch, g[i], i)}
<1> SUFFICES ASSUME ~ HasGrown(c, batch, g[l], l) PROVE FALSE
  BY <1>2
<1> HIDE DEF l, start
<1>6. l \in T
  BY <1>1
<1>7. PICK m \in T : \A k \in T : m <= k
  BY <1>6, LeastNatural
<1>8. m # 0
  BY <1>5, <1>7
<1>9. PICK k \in Nat : m = k + 1 /\ k + 1 \in 1..l /\ k <= l /\ m - 1 = k
  <2>1. m \in Nat /\ m <= l
    BY <1>7
  <2>2. m - 1 \in Nat /\ m = (m - 1) + 1 /\ (m - 1) + 1 \in 1..l /\ m - 1 <= l
    BY <1>1, <1>8, <2>1
  <2> QED BY <2>2
<1>10. HasGrown(c, batch, g[k], k)
  <2>1. ~ (m <= k)
    BY <1>9
  <2> QED BY <1>7, <1>9, <2>1
<1>11. g[m] = Appended(g[k], batch[k + 1], import)
  <2>1. g[k + 1] = Appended(g[(k + 1) - 1], batch[k + 1], import)
    BY <1>4, <1>9, Zenon
  <2>2. (k + 1) - 1 = k
    BY <1>9
  <2> QED BY <1>9, <2>1, <2>2, Zenon
<1>12. PICK r, a : r = g[k] /\ a = g[m]
  OBVIOUS
<1>13. HasGrown(c, batch, a, k + 1)
  <2>1. HasGrown(c, batch, r, k) /\ a = Appended(r, batch[k + 1], import) /\ k + 1 \in 1..Len(batch)
    BY <1>9, <1>10, <1>11, <1>12 DEF l
  <2> QED BY <2>1, HasGrownMore
<1> QED BY <1>7, <1>9, <1>12, <1>13

-----------------------------------------------------------------------------
(* PopN within the last block, when it is the sequence's own.              *)

Shrunk(c, d, s, n) ==
  /\ SeqIds(d) = SeqIds(c)
  /\ LastBlock(d, s).seq_length = LastBlock(c, s).seq_length - n
  /\ OthersKept(c, d, s)

(* Popping inside the last block frees the pages it no longer needs.       *)
LEMMA TruncatedWhole ==
  ASSUME NEW c, NEW X, Whole(c, X), NEW s \in SeqIds(c), Alone(c, s),
         NEW n \in Nat, n <= LastBlock(c, s).seq_length
  PROVE  LET d == Truncated(c, s, n) IN
         /\ Whole(d, X) /\ Shrunk(c, d, s, n)
         /\ Lengthens(d, c, s) /\ KvKept(c, d)
         /\ d.seq_map[s].seq_length = c.seq_map[s].seq_length - n
<1>1. Structured(c) /\ Linked(c, X) /\ Typed(c) /\ Chained(c) /\ Paged(c) /\ Ended(c)
  BY WholeParts
<1>2. PICK b, block, F, B, P, S, kv, d :
        /\ b = c.seq_map[s].last_block_idx /\ block = LastBlock(c, s)
        /\ F = c.free_page_ids /\ B = c.free_block_idx /\ P = c.pool /\ S = c.seq_map /\ kv = c.kv
        /\ d = Truncated(c, s, n)
  OBVIOUS
<1>3. /\ b \in Used(c) /\ b \in Block /\ Children(c, b) = {} /\ Owners(c, b) = {s}
      /\ block = c.pool[b] /\ block \in BlockType /\ S[s].seq_length = block.start_pos + block.seq_length
      /\ HasPages(c, b)
  <2>1. Ends(c, s)
    BY <1>1 DEF Ended
  <2>2. b \in Used(c) /\ b \in Block
    BY <1>2, <2>1, UsedBlocks DEF Ends
  <2> QED BY <1>1, <1>2, <2>1, <2>2, CacheFields DEF Ends, Alone, LastBlock, Paged
<1>4. PICK q, p, l, u, r : /\ q = block.page_ids /\ p = block.start_pos /\ l = block.seq_length
                           /\ u = block.parent_idx /\ r = block.external_ref_cnt
  OBVIOUS
<1>5. /\ q \in Seq(Page) /\ p \in Nat /\ l \in Nat /\ u \in Block \cup {NoBlock} /\ r \in Nat
      /\ Len(q) = PagesFor(l)
  BY <1>3, <1>4 DEF BlockType, HasPages
<1>6. IsBlock(block, q, p, l, u, r)
  BY <1>3, <1>4, BlockForm
<1>7. PICK h \in Nat : h = l - n
  <2>1. n <= l
    BY <1>2, <1>4
  <2>2. l - n \in Nat
    BY <1>5, <2>1
  <2> QED BY <2>2
<1>8. PICK m \in Nat : m = PagesFor(h) /\ m <= Len(q) /\ Len(q) \in Nat
  <2>1. h <= l
    BY <1>5, <1>7
  <2>2. PagesFor(h) \in Nat /\ PagesFor(l) \in Nat /\ PagesFor(h) <= PagesFor(l)
    BY <1>5, <2>1, PagesForOrder
  <2> QED BY <1>5, <2>2
<1>9. PICK w, z : w = SubSeq(q, 1, m) /\ z = SubSeq(q, m + 1, Len(q))
  OBVIOUS
<1>10. PICK e, N : /\ e = [block EXCEPT !.page_ids = w, !.seq_length = h]
                   /\ N = S[s].seq_length - n
  OBVIOUS
<1>11. PICK f : f = FreePages(c, Elements(z))
  OBVIOUS
<1>12. d = [f EXCEPT !.pool[b] = e, !.seq_map[s].seq_length = f.seq_map[s].seq_length - n]
  <2> DEFINE bb == LastBlock(c, s)
             mm == PagesKept(bb, n)
             zz == ToSet(SubSeq(bb.page_ids, mm + 1, Len(bb.page_ids)))
             ff == FreePages(c, zz)
             ee == [bb EXCEPT !.page_ids = SubSeq(bb.page_ids, 1, Min({mm, Len(bb.page_ids)})),
                              !.seq_length = bb.seq_length - n]
  <2>1. d = [ff EXCEPT !.pool[c.seq_map[s].last_block_idx] = ee,
                       !.seq_map[s].seq_length = ff.seq_map[s].seq_length - n]
    BY <1>2, Zenon DEF Truncated
  <2>2. bb = block
    BY <1>2, Zenon
  <2>3. mm = m
    <3>1. mm = PagesFor(block.seq_length - n)
      BY <2>2, Zenon DEF PagesKept
    <3> QED BY <1>4, <1>7, <1>8, <3>1, Zenon
  <2>4. zz = Elements(z)
    <3>1. zz = ToSet(z)
      BY <1>4, <1>9, <2>2, <2>3, Zenon
    <3> QED BY <3>1, Zenon DEF ToSet, Elements
  <2>5. ff = f
    BY <1>11, <2>4, Zenon
  <2>6. ee = e
    <3>1. Min({m, Len(q)}) = m
      BY <1>8, Greater
    <3>2. ee = [block EXCEPT !.page_ids = SubSeq(q, 1, Min({m, Len(q)})), !.seq_length = l - n]
      BY <1>4, <2>2, <2>3, Zenon
    <3> QED BY <1>7, <1>9, <1>10, <3>1, <3>2, Zenon
  <2> HIDE DEF ff, ee
  <2> QED BY <1>2, <2>1, <2>5, <2>6, Zenon
<1>13. /\ w \in Seq(Page) /\ z \in Seq(Page) /\ Len(w) = m
       /\ Elements(q) = Elements(w) \cup Elements(z)
       /\ NoRepeats(q) => NoRepeats(w) /\ Elements(w) \cap Elements(z) = {}
  <2>1. m \in 0..Len(q)
    BY <1>8
  <2>2. /\ w \in Seq(Page) /\ z \in Seq(Page)
        /\ Elements(q) = Elements(w) \cup Elements(z)
        /\ NoRepeats(q) => NoRepeats(w) /\ Elements(w) \cap Elements(z) = {}
    BY <1>5, <1>9, <2>1, SplitProperties
  <2>3. Len(w) = m
    BY <1>5, <1>9, <2>1
  <2> QED BY <2>2, <2>3
<1>14. IsBlock(e, w, p, h, u, r)
  <2>1. \A x, y : IsBlock([block EXCEPT !.page_ids = x, !.seq_length = y], x, p, y, u, r)
    BY <1>6, SetBlock, Zenon
  <2> QED BY <1>10, <2>1, Zenon
<1>15. /\ e \in BlockType
       /\ e.page_ids = w /\ e.start_pos = p /\ e.seq_length = h /\ e.parent_idx = u /\ e.external_ref_cnt = r
  <2>1. /\ e.page_ids = w /\ e.start_pos = p /\ e.seq_length = h
        /\ e.parent_idx = u /\ e.external_ref_cnt = r
    BY <1>14, SetBlock, Zenon
  <2>2. e \in BlockType
    BY <1>5, <1>13, <1>14, BlockTyped
  <2> QED BY <2>1, <2>2
<1>16. PICK G, Q, T : /\ G = F \cup Elements(z)
                      /\ Q = [P EXCEPT ![b] = e] /\ T = [S EXCEPT ![s] = [S[s] EXCEPT !.seq_length = N]]
  OBVIOUS
<1>17. PICK k : IsCache(d, G, B, Q, T, k) /\ Forgotten(kv, k, Elements(z))
  <2>1. IsCache(c, F, B, P, S, kv)
    BY <1>1, <1>2, CacheFields
  <2>2. \A pages : \E k : IsCache(FreePages(c, pages), F \cup pages, B, P, S, k) /\ Forgotten(kv, k, pages)
    BY <2>1, FreePagesIs, Zenon
  <2>3. PICK k : IsCache(f, G, B, P, S, k) /\ Forgotten(kv, k, Elements(z))
    BY <1>11, <1>16, <2>2, Zenon
  <2>4. f.pool = P /\ f.seq_map = S
    BY <2>3, SetMembers, Zenon
  <2>5. d = [f EXCEPT !.pool = [f.pool EXCEPT ![b] = e],
                      !.seq_map = [f.seq_map EXCEPT ![s] = [f.seq_map[s] EXCEPT !.seq_length = f.seq_map[s].seq_length - n]]]
    BY <1>12, Zenon
  <2>6. d = [f EXCEPT !.pool = Q, !.seq_map = T]
    BY <1>10, <1>16, <2>4, <2>5, Zenon
  <2>7. IsCache([f EXCEPT !.pool = Q, !.seq_map = T], G, B, Q, T, k)
    BY <2>3, SetMembers, Zenon
  <2> QED BY <2>3, <2>6, <2>7, Zenon
<1>18. /\ NoRepeats(w) /\ Pages(c, b) = Elements(w) \cup Elements(z)
       /\ Elements(w) \cap Elements(z) = {} /\ Elements(w) \cap F = {}
       /\ Elements(z) \subseteq Page
  <2>1. Pages(c, b) = Elements(q)
    BY <1>3, <1>4 DEF Pages
  <2>2. \A x \in Elements(q) : x \notin F
    BY <1>1, <1>2, <1>3, <1>4 DEF Paged, Taken, Elements
  <2>3. NoRepeats(q)
    BY <1>1, <1>3, <1>4 DEF Paged, Apart, NoRepeats
  <2>4. Elements(z) \subseteq Page
    BY <1>1, <1>3, <1>13, <2>1, PagesOf
  <2> QED BY <1>13, <2>1, <2>2, <2>3, <2>4
<1>19. N \in Nat /\ N = p + h
  <2>1. S[s].seq_length = p + l /\ n <= l
    BY <1>2, <1>3, <1>4
  <2> QED BY <1>5, <1>7, <1>10, <2>1
<1>20. Resized(c, d, s, b, e, N, G)
  <2>1. G \subseteq Page
    <3>1. F \subseteq Page
      BY <1>1, <1>2, CacheFields
    <3> QED BY <1>16, <1>18, <3>1
  <2>2. N \in Nat
    BY <1>19
  <2>3. /\ Q = [c.pool EXCEPT ![b] = e]
        /\ T = [c.seq_map EXCEPT ![s] = [c.seq_map[s] EXCEPT !.seq_length = N]]
    BY <1>2, <1>16, Zenon
  <2>4. Typed(c) /\ s \in SeqIds(c) /\ b \in Used(c) /\ e \in BlockType
    BY <1>1, <1>3, <1>15
  <2>5. b = c.seq_map[s].last_block_idx /\ B = c.free_block_idx
    BY <1>2, Zenon
  <2> QED BY <1>17, <2>1, <2>2, <2>3, <2>4, <2>5, ResizedIs, Zenon
<1>21. Whole(d, X)
  <2>1. /\ Elements(e.page_ids) \subseteq c.free_page_ids \cup Pages(c, b)
        /\ G = (c.free_page_ids \cup Pages(c, b)) \ Elements(e.page_ids)
    BY <1>2, <1>15, <1>16, <1>18
  <2>2. N = e.start_pos + e.seq_length
    BY <1>15, <1>19
  <2>3. /\ e.start_pos = c.pool[b].start_pos /\ e.parent_idx = c.pool[b].parent_idx
        /\ e.external_ref_cnt = c.pool[b].external_ref_cnt
        /\ Len(e.page_ids) = PagesFor(e.seq_length) /\ NoRepeats(e.page_ids)
    BY <1>3, <1>4, <1>8, <1>13, <1>15, <1>18
  <2> QED BY <1>2, <1>3, <1>20, <2>1, <2>2, <2>3, ResizedWhole
<1>22. OthersKept(c, d, s)
  <2>1. Ended(c) /\ s \in SeqIds(c)
    BY <1>1
  <2>2. b = c.seq_map[s].last_block_idx /\ Owners(c, b) = {s}
    BY <1>2, <1>3
  <2> QED BY <1>20, <2>1, <2>2, ResizedOthers, Zenon
<1>23. SeqIds(d) = SeqIds(c) /\ LastBlock(d, s) = e
  BY <1>20 DEF Resized, LastBlock
<1>24. KvKept(c, d)
  <2>1. d.kv = k /\ d.free_page_ids = G
    BY <1>17, SetMembers, Zenon
  <2>2. DOMAIN k = Page /\ \A x \in Page \ Elements(z) : k[x] = kv[x]
    BY <1>17 DEF Forgotten
  <2> QED BY <1>2, <1>16, <2>1, <2>2 DEF KvKept
<1>25. Longer(d, c, b)
  <2>1. d.pool[b] = e /\ c.pool[b] = block
    BY <1>3, <1>20 DEF Resized
  <2>2. h <= l
    BY <1>5, <1>7
  <2>3. \A i \in DOMAIN w : i \in DOMAIN q /\ q[i] = w[i]
    BY <1>5, <1>8, <1>9
  <2> QED BY <1>4, <1>15, <2>1, <2>2, <2>3 DEF Longer
<1>26. /\ Used(d) = Used(c) /\ d.seq_map[s].last_block_idx = b /\ d.seq_map[s].seq_length = N
       /\ \A x \in Used(c) \ {b} : Same(d, c, x)
  BY <1>20, UsedBlocks DEF Resized, Same
<1>27. Lengthens(d, c, s) /\ d.seq_map[s].seq_length = c.seq_map[s].seq_length - n
  BY <1>2, <1>10, <1>25, <1>26 DEF Lengthens
<1> QED BY <1>2, <1>4, <1>7, <1>15, <1>21, <1>22, <1>23, <1>24, <1>27 DEF Shrunk

-----------------------------------------------------------------------------
(* A sequence forked at its page-aligned end continues in a new block.     *)

(* Assigning last_block_idx leaves the length.                             *)
LEMMA SequenceMoved ==
  ASSUME NEW g \in SequenceType, NEW b \in Block, NEW h, h = [g EXCEPT !.last_block_idx = b]
  PROVE  h \in SequenceType /\ h.last_block_idx = b /\ h.seq_length = g.seq_length
BY DEF SequenceType

(* A new block below a parent, with one reference.                         *)
LEMMA BlockBelow ==
  ASSUME NEW n \in Nat, NEW u \in Block, NEW e,
         e = [EmptyBlock EXCEPT !.start_pos = n, !.parent_idx = u, !.external_ref_cnt = 1]
  PROVE  IsBlock(e, <<>>, n, 0, u, 1)
<1>1. IsBlock(EmptyBlock, <<>>, 0, 0, NoBlock, 0)
  BY BlockForm
<1>2. \A x, y, z : IsBlock([EmptyBlock EXCEPT !.start_pos = x, !.parent_idx = y, !.external_ref_cnt = z],
                           <<>>, x, 0, y, z)
  BY <1>1, SetBlock, Zenon
<1> QED BY <1>2, Zenon

(* The same, of a block known by its fields.                               *)
HasMembers(e, p, n, l, u, r) ==
  /\ e \in BlockType
  /\ e.page_ids = p /\ e.start_pos = n /\ e.seq_length = l /\ e.parent_idx = u /\ e.external_ref_cnt = r

(* The members of a block put together from them.                          *)
LEMMA BlockMembers ==
  ASSUME NEW p \in Seq(Page), NEW n \in Nat, NEW l \in Nat, NEW u \in Block \cup {NoBlock}, NEW r \in Nat,
         NEW e, IsBlock(e, p, n, l, u, r)
  PROVE  HasMembers(e, p, n, l, u, r)
<1>1. e.page_ids = p /\ e.start_pos = n /\ e.seq_length = l /\ e.parent_idx = u /\ e.external_ref_cnt = r
  BY SetBlock, Zenon
<1> QED BY <1>1, BlockTyped DEF HasMembers

Continued(c, d, s, b) ==
  /\ Whole(d, {})
  /\ SeqIds(d) = SeqIds(c)
  /\ d.free_block_idx = c.free_block_idx \ {b}
  /\ d.free_page_ids = c.free_page_ids
  /\ d.seq_map[s].seq_length = c.seq_map[s].seq_length
  /\ LastBlock(d, s).seq_length = 0
  /\ d.seq_map[s].last_block_idx = b
  /\ \A x \in SeqIds(c) \ {s} : d.seq_map[x] = c.seq_map[x]
  /\ Used(d) = Used(c) \cup {b} /\ Keeps(c, d)
  /\ d.pool[b].parent_idx = c.seq_map[s].last_block_idx

(* A new last block for a sequence whose own is full (ForkSequence at the  *)
(* end).                                                                   *)
LEMMA ContinuedWhole ==
  ASSUME NEW c, NEW s \in SeqIds(c), NEW X, X \subseteq {s}, Whole(c, X),
         c.seq_map[s].seq_length % page_size = 0, LastBlock(c, s).seq_length > 0,
         NEW b, b = GetFreeBlock(c), b \in c.free_block_idx
  PROVE  Continued(c, WithNewLastBlock(c, s), s, b)
<1>1. Structured(c) /\ Linked(c, X) /\ Typed(c) /\ Chained(c) /\ Counted(c) /\ Ended(c) /\ Private(c, X)
  BY WholeParts
<1>2. PICK F, B, P, S, kv, u, n, d :
        /\ F = c.free_page_ids /\ B = c.free_block_idx /\ P = c.pool /\ S = c.seq_map /\ kv = c.kv
        /\ u = S[s].last_block_idx /\ n = S[s].seq_length /\ d = WithNewLastBlock(c, s)
  OBVIOUS
<1>3. /\ IsCache(c, F, B, P, S, kv)
      /\ F \subseteq Page /\ B \subseteq Block /\ P \in [Block -> BlockType]
      /\ (\A x \in B : P[x] = EmptyBlock)
      /\ SeqIds(c) \subseteq SeqId \cup {TempSeq} /\ S \in [SeqIds(c) -> SequenceType]
  BY <1>1, <1>2, CacheFields
<1>4. b \in Block \ Used(c) /\ Block \ (B \ {b}) = Used(c) \cup {b}
  BY <1>2, <1>3 DEF Used
<1>5. /\ u \in Used(c) /\ u \in Block /\ u # b /\ n \in Nat
      /\ n = c.pool[u].start_pos + c.pool[u].seq_length
      /\ LastBlock(c, s) = c.pool[u]
  <2>1. Ends(c, s)
    BY <1>1 DEF Ended
  <2>2. LastBlock(c, s) = c.pool[u] /\ u \in Used(c) /\ u \in Block
    BY <1>2, <2>1, UsedBlocks DEF Ends, LastBlock
  <2>3. n = c.pool[u].start_pos + c.pool[u].seq_length
    BY <1>2, <2>1, <2>2 DEF Ends
  <2>4. n \in Nat
    <3>1. c.pool[u].start_pos \in Nat /\ c.pool[u].seq_length \in Nat
      BY <1>1, <2>2, BlockFields
    <3> QED BY <2>3, <3>1
  <2> QED BY <1>4, <2>2, <2>3, <2>4
<1>6. PICK new : new = [EmptyBlock EXCEPT !.start_pos = n, !.parent_idx = u, !.external_ref_cnt = 1]
  OBVIOUS
<1>7. /\ new \in BlockType /\ new.page_ids = <<>> /\ new.start_pos = n /\ new.seq_length = 0
      /\ new.parent_idx = u /\ new.external_ref_cnt = 1
  <2>1. n \in Nat /\ u \in Block
    BY <1>5
  <2>2. IsBlock(new, <<>>, n, 0, u, 1)
    BY <1>6, <2>1, BlockBelow, Zenon
  <2>3. <<>> \in Seq(Page) /\ 0 \in Nat /\ 1 \in Nat /\ u \in Block \cup {NoBlock}
    BY <2>1
  <2>4. HasMembers(new, <<>>, n, 0, u, 1)
    BY <2>1, <2>2, <2>3, BlockMembers, Zenon
  <2> QED BY <2>4 DEF HasMembers
<1>8. PICK w : w = WithBlock(c, b, new)
  OBVIOUS
<1>9. PICK Q, g, h, T : /\ Q = [P EXCEPT ![b] = new] /\ g = S[s] /\ h = [g EXCEPT !.last_block_idx = b]
                        /\ T = [S EXCEPT ![s] = h]
  OBVIOUS
<1>10. IsCache(w, F, B \ {b}, Q, S, kv)
  <2>1. IsCache(w, F, B \ {b}, [P EXCEPT ![b] = new], S, kv)
    BY <1>3, <1>8, WithBlockIs, Zenon
  <2> QED BY <1>9, <2>1, Zenon
<1>11. IsCache(d, F, B \ {b}, Q, T, kv)
  <2>1. w.seq_map = S
    BY <1>10, SetMembers, Zenon
  <2>2. d = [w EXCEPT !.seq_map[s].last_block_idx = b]
    BY <1>2, <1>6, <1>8, Zenon DEF WithNewLastBlock
  <2>3. d = [w EXCEPT !.seq_map = [w.seq_map EXCEPT ![s] = [w.seq_map[s] EXCEPT !.last_block_idx = b]]]
    BY <2>2, Zenon
  <2>4. d = [w EXCEPT !.seq_map = T]
    BY <1>9, <2>1, <2>3, Zenon
  <2>5. \A z : IsCache([w EXCEPT !.seq_map = z], F, B \ {b}, Q, z, kv)
    BY <1>10, SetMembers, Zenon
  <2> QED BY <2>4, <2>5, Zenon
<1>12. h \in SequenceType /\ h.last_block_idx = b /\ h.seq_length = n
  <2>1. g \in SequenceType /\ g.seq_length = n /\ b \in Block
    BY <1>2, <1>3, <1>4, <1>9
  <2> QED BY <1>9, <2>1, SequenceMoved
<1>13. /\ T \in [SeqIds(c) -> SequenceType] /\ T[s] = h
       /\ \A x \in SeqIds(c) \ {s} : T[x] = S[x]
  BY <1>3, <1>9, <1>12
<1>14. Q \in [Block -> BlockType] /\ Q[b] = new /\ (\A x \in Block \ {b} : Q[x] = P[x])
  BY <1>3, <1>4, <1>7, <1>9
<1>15. /\ Typed(d) /\ SeqIds(d) = SeqIds(c) /\ Used(d) = Used(c) \cup {b}
       /\ d.free_page_ids = F /\ d.free_block_idx = B \ {b} /\ d.pool = Q /\ d.seq_map = T
       /\ d.kv = kv
  <2>1. PICK C, D : C = B \ {b} /\ D = SeqIds(c)
    OBVIOUS
  <2>2. Parts(F, C, Q, D, T)
    BY <1>3, <1>13, <1>14, <2>1 DEF Parts
  <2>3. IsCache(d, F, C, Q, T, kv)
    BY <1>11, <2>1
  <2>4. /\ Typed(d) /\ SeqIds(d) = D /\ Used(d) = Block \ C
        /\ d.free_page_ids = F /\ d.free_block_idx = C /\ d.pool = Q /\ d.seq_map = T /\ d.kv = kv
    BY <2>2, <2>3, TypedCache
  <2> QED BY <1>4, <2>1, <2>4
<1>16. \A x \in Used(c) : x # b /\ d.pool[x] = c.pool[x]
  BY <1>2, <1>4, <1>14, <1>15 DEF Used
<1>17. \A x \in Used(c) : Same(c, d, x)
  BY <1>16 DEF Same
<1>18. Children(c, b) = {} /\ Pages(c, b) = {}
  <2>1. Pages(c, b) = {}
    BY <1>1, <1>4, PagesOf
  <2>2. Children(c, b) = {}
    BY <1>1, <1>4, BlockFields DEF Chained, Hangs, Children
  <2> QED BY <2>1, <2>2
<1>19. Structured(d)
  <2>1. Hangs(d, b)
    <3>1. PICK st, le : st = c.pool[u].start_pos /\ le = c.pool[u].seq_length
      OBVIOUS
    <3>2. st \in Nat /\ le \in Nat /\ st % page_size = 0 /\ n = st + le /\ n % page_size = 0 /\ le > 0
      BY <1>1, <1>2, <1>5, <3>1, BlockFields DEF Chained, Hangs
    <3>3. le % page_size = 0
      <4>1. st <= n /\ n - st = le
        BY <3>2
      <4>2. (n - st) % page_size = 0
        BY <1>5, <3>2, <4>1, WholeMinus
      <4> QED BY <4>1, <4>2
    <3>4. d.pool[u] = c.pool[u] /\ u \in Used(d) /\ d.pool[b] = new /\ u # NoBlock
      BY <1>1, <1>5, <1>14, <1>15, <1>16, BlockFields
    <3> QED BY <1>7, <3>1, <3>2, <3>3, <3>4 DEF Hangs
  <2>2. HasPages(d, b) /\ NoRepeats(d.pool[b].page_ids) /\ Pages(d, b) = {}
    BY <1>7, <1>14, <1>15, PagesForZero DEF HasPages, NoRepeats, Pages, Elements
  <2>3. d.free_page_ids = (c.free_page_ids \cup Pages(c, b)) \ Pages(d, b)
    BY <1>2, <1>15, <1>18, <2>2
  <2>4. /\ \A x \in Used(c) \ {b} : Same(c, d, x)
        /\ Pages(d, b) \subseteq c.free_page_ids \cup Pages(c, b)
    BY <1>17, <2>2
  <2> QED BY <1>1, <1>4, <1>15, <1>18, <2>1, <2>2, <2>3, <2>4, OneBlock
<1>20. Linked(d, X \ {s})
  <2>1. Referred(c, d, s, u)
    <3> SUFFICES ASSUME NEW x \in Used(c)
          PROVE  /\ d.pool[x].external_ref_cnt + (IF s \in Owners(c, x) THEN 1 ELSE 0) =
                      Cardinality(Children(c, x)) + Cardinality(Owners(c, x)) + (IF x = u THEN 1 ELSE 0)
                 /\ d.pool[x].external_ref_cnt > 0
      BY DEF Referred
    <3>1. Counts(c, x) /\ d.pool[x] = c.pool[x]
      BY <1>1, <1>16 DEF Counted
    <3>2. s \in Owners(c, x) <=> x = u
      BY <1>2 DEF Owners
    <3>3. Cardinality(Children(c, x)) \in Nat /\ Cardinality(Owners(c, x)) \in Nat
      BY <1>1, UsedBlocks, OwnersFinite
    <3> QED BY <3>1, <3>2, <3>3 DEF Counts
  <2>2. NotLast(c, SeqIds(c) \ (X \cup {s}), u)
    <3>1. ASSUME NEW x \in SeqIds(c) \ (X \cup {s}), c.seq_map[x].last_block_idx = u PROVE FALSE
      <4>1. Alone(c, x)
        BY <1>1, <3>1 DEF Private
      <4>2. Owners(c, u) = {x}
        BY <3>1, <4>1 DEF Alone
      <4>3. s \in Owners(c, u)
        BY <1>2 DEF Owners
      <4> QED BY <3>1, <4>2, <4>3
    <3> QED BY <3>1 DEF NotLast
  <2>3. \A x \in SeqIds(c) \ {s} : d.seq_map[x] = c.seq_map[x]
    BY <1>2, <1>13, <1>15
  <2>4. /\ d.pool[b].parent_idx = u /\ d.pool[b].external_ref_cnt = 1
        /\ d.seq_map[s].last_block_idx = b
        /\ d.seq_map[s].seq_length = d.pool[b].start_pos + d.pool[b].seq_length
    BY <1>5, <1>7, <1>12, <1>13, <1>14, <1>15
  <2>5. SeqIds(d) = SeqIds(c) \cup {s}
    BY <1>15
  <2>6. Structured(c) /\ Typed(d) /\ Ended(c) /\ Private(c, X)
    BY <1>1, <1>15
  <2>7. b \in Block \ Used(c) /\ u # b
    BY <1>4, <1>5
  <2>8. NewBelow(c, d, s, b, u)
    BY <1>15, <1>17, <2>3, <2>4, <2>5 DEF NewBelow
  <2> QED BY <2>1, <2>2, <2>6, <2>7, <2>8, NewLast, Zenon
<1>21. X \ {s} = {}
  OBVIOUS
<1>22. LastBlock(d, s).seq_length = 0
  BY <1>7, <1>12, <1>13, <1>14, <1>15 DEF LastBlock
<1>23. Keeps(c, d) /\ d.pool[b].parent_idx = c.seq_map[s].last_block_idx
  BY <1>2, <1>7, <1>14, <1>15, <1>17 DEF Keeps, KvKept
<1> QED BY <1>2, <1>12, <1>13, <1>15, <1>19, <1>20, <1>21, <1>22, <1>23 DEF Whole, Continued

-----------------------------------------------------------------------------
(* ForkSequence.                                                           *)

(* The cache r in which s is forked at pos: there is a block to take, two  *)
(* unless s ends at pos in an empty block.                                 *)
Forkable(c, r, s, pos, X) ==
  /\ Whole(r, X)
  /\ SeqIds(r) = SeqIds(c)
  /\ r.seq_map[s].seq_length = c.seq_map[s].seq_length
  /\ \A x \in SeqIds(c) \ {s} : r.seq_map[x] = c.seq_map[x]
  /\ GetFreeBlock(r) \in r.free_block_idx
  /\ \/ pos = r.seq_map[s].seq_length /\ LastBlock(r, s).seq_length = 0
     \/ \A b : r.free_block_idx \ {b} # {}
  /\ pos = r.seq_map[s].seq_length /\ pos % page_size = 0 => LastBlock(r, s).seq_length = 0
  /\ r = c \/ \E b : Continued(c, r, s, b)

(* What ForkSequence does first leaves a sequence that can be forked at    *)
(* pos.                                                                    *)
LEMMA ReadyWhole ==
  ASSUME NEW c, NEW s \in SeqIds(c), NEW X, X \subseteq {s}, Whole(c, X), Room(c), NEW pos
  PROVE  Forkable(c, ReadyToFork(c, s, pos), s, pos, X)
<1>1. Structured(c) /\ Counted(c) /\ Typed(c) /\ Ended(c)
  BY WholeParts
<1>2. PICK b : b = GetFreeBlock(c)
  OBVIOUS
<1>3. b \in c.free_block_idx /\ \A x : c.free_block_idx \ {x} # {}
  BY <1>1, <1>2, TwoBlocksFree
<1>4. CASE pos = c.seq_map[s].seq_length /\ pos % page_size = 0 /\ LastBlock(c, s).seq_length > 0
  <2>1. PICK r : r = WithNewLastBlock(c, s)
    OBVIOUS
  <2>2. ReadyToFork(c, s, pos) = r
    BY <1>4, <2>1, Zenon DEF ReadyToFork
  <2>3. c.seq_map[s].seq_length % page_size = 0 /\ LastBlock(c, s).seq_length > 0
    BY <1>4
  <2>4. Continued(c, r, s, b)
    BY <1>2, <1>3, <2>1, <2>3, ContinuedWhole, Zenon
  <2>5. Whole(r, X)
    BY <2>4 DEF Continued, Whole, Linked, Private
  <2>6. GetFreeBlock(r) \in r.free_block_idx
    <3>1. r.free_block_idx = c.free_block_idx \ {b}
      BY <2>4 DEF Continued
    <3>2. r.free_block_idx \subseteq Nat /\ r.free_block_idx # {}
      BY <1>1, <1>3, <3>1, CacheFields, PoolAssumption
    <3> QED BY <3>2, MinIn DEF GetFreeBlock
  <2>7. /\ SeqIds(r) = SeqIds(c) /\ r.seq_map[s].seq_length = c.seq_map[s].seq_length
        /\ LastBlock(r, s).seq_length = 0
        /\ \A x \in SeqIds(c) \ {s} : r.seq_map[x] = c.seq_map[x]
    BY <2>4 DEF Continued
  <2>8. \E x : Continued(c, r, s, x)
    BY <2>4
  <2> QED BY <1>4, <2>2, <2>5, <2>6, <2>7, <2>8 DEF Forkable
<1>5. CASE ~(pos = c.seq_map[s].seq_length /\ pos % page_size = 0 /\ LastBlock(c, s).seq_length > 0)
  <2>1. ReadyToFork(c, s, pos) = c
    BY <1>5, Zenon DEF ReadyToFork
  <2>2. LastBlock(c, s).seq_length \in Nat
    BY <1>1, SequenceFields, BlockFields DEF LastBlock
  <2>3. pos = c.seq_map[s].seq_length /\ pos % page_size = 0 => LastBlock(c, s).seq_length = 0
    BY <1>5, <2>2
  <2>4. Forkable(c, c, s, pos, X)
    BY <1>2, <1>3, <2>3 DEF Forkable
  <2> QED BY <2>1, <2>4
<1> QED BY <1>4, <1>5

(* Where the blocks of a trace start.                                      *)
Starts(c, t) ==
  /\ Len(t) \in Nat /\ Len(t) > 0 /\ DOMAIN t = 1..Len(t)
  /\ \A j \in 1..Len(t) : /\ t[j] \in Used(c)
                          /\ c.pool[t[j]].start_pos \in Nat /\ c.pool[t[j]].seq_length \in Nat
                          /\ TokensIn(c, SubSeq(t, 1, j - 1)) = c.pool[t[j]].start_pos
  /\ c.pool[t[1]].start_pos = 0
  /\ \A j, k \in 1..Len(t) : k = j + 1 => c.pool[t[k]].start_pos = c.pool[t[j]].start_pos + c.pool[t[j]].seq_length

(* How the blocks of a trace follow one another.                           *)
Follows(c, t, b) ==
  /\ Len(t) \in Nat /\ Len(t) > 0 /\ DOMAIN t = 1..Len(t) /\ t[Len(t)] = b
  /\ \A j \in 1..Len(t) : t[j] \in Used(c)
  /\ c.pool[t[1]].start_pos = 0
  /\ \A j \in 2..Len(t) :
       c.pool[t[j]].start_pos = c.pool[t[j - 1]].start_pos + c.pool[t[j - 1]].seq_length

(* A chain is such a trace.                                                *)
LEMMA TraceFollows ==
  ASSUME NEW c, Typed(c), Chained(c), NEW b \in Used(c)
  PROVE  Follows(c, GetBlockTrace(c, b), b)
BY TraceBlocks, SMTT(30) DEF Follows

(* A chain ends in its block and its blocks start one behind the other.    *)
LEMMA TraceStarts ==
  ASSUME NEW c, Typed(c), Chained(c), NEW b \in Used(c), NEW t, t = GetBlockTrace(c, b)
  PROVE  Starts(c, t) /\ t[Len(t)] = b
<1>1. PICK l : l = Len(t)
  OBVIOUS
<1>2. /\ l \in Nat /\ l > 0 /\ DOMAIN t = 1..l /\ t[l] = b
      /\ (\A j \in 1..l : t[j] \in Used(c)) /\ c.pool[t[1]].start_pos = 0
      /\ \A j \in 2..l : c.pool[t[j]].start_pos = c.pool[t[j - 1]].start_pos + c.pool[t[j - 1]].seq_length
  <2>1. Follows(c, GetBlockTrace(c, b), b)
    BY TraceFollows
  <2>2. Follows(c, t, b)
    BY <2>1, Zenon
  <2> QED BY <1>1, <2>2, ZenonT(60) DEF Follows
<1>3. \A j, k \in 1..l : k = j + 1 => c.pool[t[k]].start_pos = c.pool[t[j]].start_pos + c.pool[t[j]].seq_length
  <2> SUFFICES ASSUME NEW j \in 1..l, NEW k \in 1..l, k = j + 1
               PROVE  c.pool[t[k]].start_pos = c.pool[t[j]].start_pos + c.pool[t[j]].seq_length
    OBVIOUS
  <2>1. k \in 2..l /\ k - 1 = j
    BY <1>2
  <2>2. c.pool[t[k]].start_pos = c.pool[t[k - 1]].start_pos + c.pool[t[k - 1]].seq_length
    BY <1>2, <2>1, Zenon
  <2> QED BY <2>1, <2>2, Zenon
<1>4. \A j \in 1..l : c.pool[t[j]].start_pos \in Nat /\ c.pool[t[j]].seq_length \in Nat
  BY <1>2, BlockFields, UsedBlocks
<1>5. \A j \in 1..l : TokensIn(c, SubSeq(t, 1, j - 1)) = c.pool[t[j]].start_pos
  <2> SUFFICES ASSUME NEW j \in 1..l PROVE TokensIn(c, SubSeq(t, 1, j - 1)) = c.pool[t[j]].start_pos
    OBVIOUS
  <2>1. CASE j = 1
    <3>1. 1 \in 1..(Len(t) + 1) /\ 0 \in 0..Len(t)
      BY <1>1, <1>2
    <3>2. TokensIn(c, SubSeq(t, 1, 0)) = 0
      BY <3>1, TokensBetween
    <3> QED BY <1>2, <2>1, <3>2
  <2>2. CASE j > 1
    <3>1. PICK k : k = j - 1
      OBVIOUS
    <3>2. k \in 0..Len(t) /\ 1 \in 1..(Len(t) + 1) /\ 1 <= k /\ k \in 1..l /\ j = k + 1
      BY <1>1, <1>2, <2>2, <3>1
    <3>3. TokensIn(c, SubSeq(t, 1, k)) = c.pool[t[k]].start_pos + c.pool[t[k]].seq_length - c.pool[t[1]].start_pos
      BY <3>2, TokensBetween
    <3>4. c.pool[t[j]].start_pos = c.pool[t[k]].start_pos + c.pool[t[k]].seq_length
      BY <1>3, <3>2
    <3>5. c.pool[t[k]].start_pos \in Nat /\ c.pool[t[k]].seq_length \in Nat
      BY <1>4, <3>2
    <3> QED BY <1>2, <3>1, <3>3, <3>4, <3>5
  <2> QED BY <1>2, <2>1, <2>2
<1> QED BY <1>1, <1>2, <1>3, <1>4, <1>5 DEF Starts

(* The block of trace t that position pos lies in, or the last one.        *)
LiesIn(c, t, i, start, pos) ==
  /\ i \in 1..Len(t)
  /\ start = c.pool[t[i]].start_pos
  /\ start <= pos
  /\ i = Len(t) \/ pos < start + c.pool[t[i]].seq_length

(* The block a fork finds is the one pos lies in.                          *)
LEMMA Located ==
  ASSUME NEW c, NEW t, Starts(c, t), NEW pos \in Nat,
         NEW i, i = CHOOSE j \in DOMAIN t :
                      /\ TokensIn(c, SubSeq(t, 1, j - 1)) <= pos
                      /\ j = Len(t) \/ pos < TokensIn(c, SubSeq(t, 1, (j + 1) - 1))
  PROVE  LiesIn(c, t, i, TokensIn(c, SubSeq(t, 1, i - 1)), pos)
<1>1. PICK l : l = Len(t)
  OBVIOUS
<1>2. /\ l \in Nat /\ l > 0 /\ DOMAIN t = 1..l
      /\ \A j \in 1..l : /\ t[j] \in Used(c)
                         /\ c.pool[t[j]].start_pos \in Nat /\ c.pool[t[j]].seq_length \in Nat
                         /\ TokensIn(c, SubSeq(t, 1, j - 1)) = c.pool[t[j]].start_pos
      /\ c.pool[t[1]].start_pos = 0
      /\ \A j, k \in 1..l : k = j + 1 => c.pool[t[k]].start_pos = c.pool[t[j]].start_pos + c.pool[t[j]].seq_length
  BY <1>1 DEF Starts
<1>3. \E j \in 1..l : /\ c.pool[t[j]].start_pos <= pos
                      /\ j = l \/ pos < c.pool[t[j + 1]].start_pos
  <2>1. PICK M : M = {j \in 1..l : c.pool[t[j]].start_pos <= pos}
    OBVIOUS
  <2>2. M \subseteq 0..l /\ 1 \in M
    BY <1>2, <2>1
  <2>3. PICK m : m = Max(M)
    OBVIOUS
  <2>4. m \in M /\ \A x \in M : x <= m
    BY <1>2, <2>2, <2>3, MaxIn
  <2>5. m \in 1..l /\ c.pool[t[m]].start_pos <= pos
    BY <2>1, <2>4
  <2>6. ASSUME m # l PROVE pos < c.pool[t[m + 1]].start_pos
    <3>1. m + 1 \in 1..l /\ m + 1 \notin M
      BY <1>2, <2>4, <2>5, <2>6
    <3>2. c.pool[t[m + 1]].start_pos \in Nat
      BY <1>2, <3>1
    <3> QED BY <2>1, <3>1, <3>2
  <2> QED BY <2>5, <2>6
<1>4. \E j \in DOMAIN t : /\ TokensIn(c, SubSeq(t, 1, j - 1)) <= pos
                          /\ j = Len(t) \/ pos < TokensIn(c, SubSeq(t, 1, (j + 1) - 1))
  <2>1. PICK j \in 1..l : c.pool[t[j]].start_pos <= pos /\ (j = l \/ pos < c.pool[t[j + 1]].start_pos)
    BY <1>3
  <2>2. j \in DOMAIN t /\ TokensIn(c, SubSeq(t, 1, j - 1)) <= pos
    BY <1>2, <2>1
  <2>3. ASSUME j # l PROVE pos < TokensIn(c, SubSeq(t, 1, (j + 1) - 1))
    <3>1. PICK k : k = j + 1
      OBVIOUS
    <3>2. k \in 1..l /\ pos < c.pool[t[k]].start_pos
      BY <1>2, <2>1, <2>3, <3>1
    <3>3. TokensIn(c, SubSeq(t, 1, k - 1)) = c.pool[t[k]].start_pos
      BY <1>2, <3>2
    <3> QED BY <3>1, <3>2, <3>3
  <2> QED BY <1>1, <2>2, <2>3
<1>5. /\ i \in DOMAIN t /\ TokensIn(c, SubSeq(t, 1, i - 1)) <= pos
      /\ i = Len(t) \/ pos < TokensIn(c, SubSeq(t, 1, (i + 1) - 1))
  BY <1>4, Zenon
<1>6. i \in 1..l /\ TokensIn(c, SubSeq(t, 1, i - 1)) = c.pool[t[i]].start_pos
  BY <1>2, <1>5
<1>7. i = l \/ pos < c.pool[t[i]].start_pos + c.pool[t[i]].seq_length
  <2>1. ASSUME i # l PROVE pos < c.pool[t[i]].start_pos + c.pool[t[i]].seq_length
    <3>1. PICK k : k = i + 1
      OBVIOUS
    <3>2. k \in 1..l
      <4>1. l \in Nat
        BY <1>2
      <4>2. i \in 1..l
        BY <1>6
      <4> QED BY <2>1, <3>1, <4>1, <4>2
    <3>3. pos < TokensIn(c, SubSeq(t, 1, k - 1))
      BY <1>1, <1>5, <2>1, <3>1
    <3>4. TokensIn(c, SubSeq(t, 1, k - 1)) = c.pool[t[k]].start_pos
      BY <1>2, <3>2
    <3>5. c.pool[t[k]].start_pos = c.pool[t[i]].start_pos + c.pool[t[i]].seq_length
      BY <1>2, <1>6, <3>1, <3>2
    <3> QED BY <3>3, <3>4, <3>5
  <2> QED BY <2>1
<1>8. TokensIn(c, SubSeq(t, 1, i - 1)) <= pos
  BY <1>5
<1> QED BY <1>1, <1>6, <1>7, <1>8 DEF LiesIn

(* The block the fork lies in, and the whole pages before it there.        *)
ForkedAt(c, u, start, pages, inPage, pos) ==
  /\ u \in Used(c)
  /\ start = c.pool[u].start_pos /\ pages \in Nat /\ inPage \in 0..(page_size - 1)
  /\ pos = start + page_size * pages + inPage
  /\ start % page_size = 0
  /\ pages > 0 => page_size * pages < c.pool[u].seq_length
  /\ pos % page_size = 0 => inPage = 0
  /\ inPage = 0 => pos % page_size = 0

(* Whether pos is page-aligned can be asked of the offset in the block.    *)
LEMMA Whole0 ==
  ASSUME NEW pos \in Nat, NEW start \in Nat, start <= pos, start % page_size = 0
  PROVE  /\ (pos - start) % page_size = 0 => pos % page_size = 0
         /\ pos % page_size = 0 => (pos - start) % page_size = 0
<1>1. pos - start \in Nat /\ start + (pos - start) = pos
  OBVIOUS
<1>2. ASSUME (pos - start) % page_size = 0 PROVE pos % page_size = 0
  BY <1>1, <1>2, WholePlus
<1>3. ASSUME pos % page_size = 0 PROVE (pos - start) % page_size = 0
  BY <1>3, WholeMinus
<1> QED BY <1>2, <1>3

(* A positive number of pages holds tokens.                                *)
LEMMA SomePages ==
  ASSUME NEW n \in Nat, n > 0
  PROVE  page_size * n \in Nat /\ page_size * n > 0
<1>1. page_size * n \in Nat /\ page_size * 0 + page_size <= page_size * n
  BY SizeAssumption, TimesOrder
<1>2. page_size * 0 = 0 /\ page_size \in Nat \ {0}
  BY SizeAssumption
<1> QED BY <1>1, <1>2

(* The block and offset a fork finds.                                      *)
LEMMA ForkedIn ==
  ASSUME NEW c, NEW X, Whole(c, X), NEW s \in SeqIds(c), NEW pos \in Nat, pos <= c.seq_map[s].seq_length,
         NEW end, end = (pos % page_size = 0),
         pos = c.seq_map[s].seq_length /\ end => LastBlock(c, s).seq_length = 0,
         NEW t, t = Trace(c, s), NEW i, NEW start, LiesIn(c, t, i, start, pos),
         NEW n, n = pos - start
  PROVE  ForkedAt(c, t[i], start, n \div page_size, n % page_size, pos)
<1>1. Typed(c) /\ Chained(c) /\ Ended(c) /\ Counted(c)
  BY WholeParts
<1>2. PICK b, l, u, len : /\ b = c.seq_map[s].last_block_idx /\ l = Len(t)
                          /\ u = t[i] /\ len = c.pool[u].seq_length
  OBVIOUS
<1>3. b \in Used(c) /\ t = GetBlockTrace(c, b) /\ LastBlock(c, s) = c.pool[b]
      /\ c.seq_map[s].seq_length = c.pool[b].start_pos + c.pool[b].seq_length
  BY <1>1, <1>2 DEF Ended, Ends, LastBlock, Trace
<1>4. Starts(c, t) /\ t[l] = b
  BY <1>1, <1>2, <1>3, TraceStarts
<1>5. /\ i \in 1..l /\ u \in Used(c) /\ start = c.pool[u].start_pos /\ start \in Nat /\ len \in Nat
      /\ start <= pos /\ (i = l \/ pos < start + len)
  BY <1>2, <1>4 DEF LiesIn, Starts
<1>6. start % page_size = 0
  BY <1>1, <1>5 DEF Chained, Hangs
<1>7. n \in Nat /\ pos = start + n
  BY <1>5
<1>8. PICK pages, inPage, m : pages = n \div page_size /\ inPage = n % page_size /\ m = page_size * pages
  OBVIOUS
<1>9. pages \in Nat /\ inPage \in 0..(page_size - 1) /\ m \in Nat /\ n = m + inPage /\ inPage \in Nat
  <2>1. pages \in Nat /\ inPage \in 0..(page_size - 1) /\ m \in Nat /\ n = m + inPage
    BY <1>7, <1>8, Division
  <2> QED BY <2>1, SizeAssumption
<1>10. (inPage = 0 => end) /\ (end => inPage = 0)
  BY <1>5, <1>6, <1>8, Whole0
<1>11. ASSUME pages > 0 PROVE m < len
  <2>1. m > 0
    BY <1>8, <1>9, <1>11, SomePages
  <2>2. CASE pos < start + len
    BY <1>5, <1>7, <1>9, <2>2
  <2>3. CASE i = l /\ ~(pos < start + len)
    <3>1. u = b
      BY <1>2, <1>4, <2>3, SMTT(30)
    <3>2. c.seq_map[s].seq_length = start + len /\ len = LastBlock(c, s).seq_length
      BY <1>2, <1>3, <1>5, <3>1
    <3>3. pos = start + len
      BY <1>5, <2>3, <3>2
    <3>4. ASSUME inPage = 0 PROVE FALSE
      <4>1. len = 0
        BY <1>10, <3>2, <3>3, <3>4
      <4> QED BY <1>5, <1>7, <1>9, <2>1, <3>3, <4>1
    <3> QED BY <1>5, <1>7, <1>9, <3>3, <3>4
  <2> QED BY <1>5, <2>2, <2>3
<1>12. pos = start + m + inPage
  BY <1>5, <1>7, <1>9
<1>13. pos = start + page_size * pages + inPage /\ (pages > 0 => page_size * pages < c.pool[u].seq_length)
  BY <1>2, <1>8, <1>11, <1>12, Zenon
<1>14. ForkedAt(c, u, start, pages, inPage, pos)
  BY <1>5, <1>6, <1>9, <1>10, <1>13, Zenon DEF ForkedAt
<1> QED BY <1>2, <1>8, <1>14, Zenon

(* The pages of a new block of l tokens, fewer than a page, with the       *)
(* tokens in front of page source, and the pages that stay free.           *)
WithCopy(kv, g, source, l) ==
  [kv EXCEPT ![g] = [o \in Offset |-> IF o < l THEN kv[source][o] ELSE Junk]]
PageTaken(F, l, p, G, kv, k, source) ==
  \/ l = 0 /\ p = <<>> /\ G = F /\ k = kv
  \/ l > 0 /\ \E g \in F : p = <<g>> /\ G = F \ {g} /\ k = WithCopy(kv, g, source, l)
IsFilled(d, F, C, Q, S, b, st, l, v, G, e, p, R, kv, k, source) ==
  /\ IsCache(d, G, C, R, S, k)
  /\ R = [Q EXCEPT ![b] = e]
  /\ HasMembers(e, p, st, l, v, 1)
  /\ PageTaken(F, l, p, G, kv, k, source)

(* The two steps of Forked that make the new block.                        *)
LinkedBlock(c, b, st, l, v) ==
  WithBlock(c, b, [EmptyBlock EXCEPT !.start_pos = st, !.seq_length = l,
                                     !.parent_idx = v, !.external_ref_cnt = 1])
FilledBlock(c, b, source, l) == IF l = 0 THEN c ELSE CopiedPage(c, b, source, l)

(* The parts after a new block is linked below its parent.                 *)
LEMMA LinkedIs ==
  ASSUME NEW c, NEW F, NEW C, NEW Q, NEW S, NEW kv, IsCache(c, F, C, Q, S, kv), NEW b, b \notin C,
         NEW st, NEW l, NEW v
  PROVE  \E new : /\ IsBlock(new, <<>>, st, l, v, 1)
                  /\ IsCache(LinkedBlock(c, b, st, l, v), F, C, [Q EXCEPT ![b] = new], S, kv)
<1>1. PICK new : new = [EmptyBlock EXCEPT !.start_pos = st, !.seq_length = l, !.parent_idx = v, !.external_ref_cnt = 1]
  OBVIOUS
<1>2. IsBlock(new, <<>>, st, l, v, 1)
  <2>1. IsBlock(EmptyBlock, <<>>, 0, 0, NoBlock, 0)
    BY BlockForm
  <2>2. \A w, x, y, z : IsBlock([EmptyBlock EXCEPT !.start_pos = w, !.seq_length = x,
                                                   !.parent_idx = y, !.external_ref_cnt = z], <<>>, w, x, y, z)
    BY <2>1, SetBlock, Zenon
  <2> QED BY <1>1, <2>2, Zenon
<1>3. LinkedBlock(c, b, st, l, v) = WithBlock(c, b, new)
  BY <1>1, Zenon DEF LinkedBlock
<1>4. IsCache(WithBlock(c, b, new), F, C \ {b}, [Q EXCEPT ![b] = new], S, kv)
  BY WithBlockIs, Zenon
<1>5. C \ {b} = C
  OBVIOUS
<1> QED BY <1>2, <1>3, <1>4, <1>5, Zenon

(* The parts after a page is copied into a new block.                      *)
IsCopied(c, F, C, P, S, kv, b, source, l, k) ==
  /\ IsCache(CopiedPage(c, b, source, l), F \ {Min(F)}, C,
             [P EXCEPT ![b] = [P[b] EXCEPT !.page_ids = <<Min(F)>>]], S, k)
  /\ k = WithCopy(kv, Min(F), source, l)
LEMMA CopiedIs ==
  ASSUME NEW c, NEW F, NEW C, NEW P, NEW S, NEW kv, IsCache(c, F, C, P, S, kv), NEW b, NEW source, NEW l
  PROVE  \E k : IsCopied(c, F, C, P, S, kv, b, source, l, k)
<1>1. c.free_page_ids = F /\ c.pool = P /\ c.kv = kv
  BY SetMembers, Zenon
<1>2. PICK g : g = Min(F)
  OBVIOUS
<1>3. PICK d, e, R, G, page, k :
        /\ d = CopiedPage(c, b, source, l)
        /\ e = [P[b] EXCEPT !.page_ids = <<g>>]
        /\ R = [P EXCEPT ![b] = e] /\ G = F \ {g}
        /\ page = [o \in Offset |-> IF o < l THEN c.kv[source][o] ELSE Junk]
        /\ k = [kv EXCEPT ![g] = page]
  OBVIOUS
<1>4. g = GetFreePage(c)
  BY <1>1, <1>2, Zenon DEF GetFreePage
<1>5. d = [c EXCEPT !.free_page_ids = c.free_page_ids \ {g}, !.pool[b].page_ids = <<g>>, !.kv[g] = page]
  BY <1>3, <1>4, Zenon DEF CopiedPage
<1>6. d = [c EXCEPT !.free_page_ids = c.free_page_ids \ {g},
                    !.pool = [c.pool EXCEPT ![b] = [c.pool[b] EXCEPT !.page_ids = <<g>>]],
                    !.kv = [c.kv EXCEPT ![g] = page]]
  BY <1>5, Zenon
<1>7. d = [c EXCEPT !.free_page_ids = G, !.pool = R, !.kv = k]
  BY <1>1, <1>3, <1>6, Zenon
<1>8. \A x, y, z : IsCache([c EXCEPT !.free_page_ids = x, !.pool = y, !.kv = z], x, C, y, S, z)
  BY SetMembers, Zenon
<1>9. IsCache(d, G, C, R, S, k)
  BY <1>7, <1>8, Zenon
<1>10. k = WithCopy(kv, g, source, l)
  BY <1>1, <1>3, Zenon DEF WithCopy
<1> QED BY <1>2, <1>3, <1>9, <1>10, Zenon DEF IsCopied

(* The parts after the new block of a fork got its page.                   *)
LEMMA FilledIs ==
  ASSUME NEW c, NEW F, NEW C, NEW Q, NEW S, NEW kv, IsCache(c, F, C, Q, S, kv),
         F \subseteq Page, NEW b \in Block, b \notin C, Q \in [Block -> BlockType],
         NEW st \in Nat, NEW l \in Nat, NEW v \in Block \cup {NoBlock}, l = 0 \/ F # {}, NEW source
  PROVE  \E G, e, p, R, k : IsFilled(FilledBlock(LinkedBlock(c, b, st, l, v), b, source, l),
                                    F, C, Q, S, b, st, l, v, G, e, p, R, kv, k, source)
<1>1. PICK linked, d : linked = LinkedBlock(c, b, st, l, v) /\ d = FilledBlock(linked, b, source, l)
  OBVIOUS
<1>2. PICK new : /\ IsBlock(new, <<>>, st, l, v, 1)
                 /\ IsCache(linked, F, C, [Q EXCEPT ![b] = new], S, kv)
  BY <1>1, LinkedIs, Zenon
<1>3. PICK P : P = [Q EXCEPT ![b] = new]
  OBVIOUS
<1>4. IsCache(linked, F, C, P, S, kv)
  BY <1>2, <1>3, Zenon
<1>5. CASE l = 0
  <2>1. d = linked
    BY <1>1, <1>5, Zenon DEF FilledBlock
  <2>2. HasMembers(new, <<>>, st, l, v, 1)
    <3>1. <<>> \in Seq(Page) /\ 1 \in Nat
      OBVIOUS
    <3> QED BY <1>2, <3>1, BlockMembers, Zenon
  <2>3. PageTaken(F, l, <<>>, F, kv, kv, source)
    BY <1>5 DEF PageTaken
  <2>4. IsFilled(d, F, C, Q, S, b, st, l, v, F, new, <<>>, P, kv, kv, source)
    BY <1>3, <1>4, <2>1, <2>2, <2>3, Zenon DEF IsFilled
  <2> QED BY <1>1, <2>4, Zenon
<1>6. CASE l # 0
  <2>1. PICK g, p, e, R, G :
          /\ g = Min(F) /\ p = <<g>> /\ e = [new EXCEPT !.page_ids = p]
          /\ R = [P EXCEPT ![b] = e] /\ G = F \ {g}
    OBVIOUS
  <2>2. g \in F
    <3>1. F \subseteq Nat /\ F # {}
      BY <1>6, PoolAssumption
    <3> QED BY <2>1, <3>1, MinIn
  <2>3. new = P[b]
    BY <1>3
  <2>4. PICK k : IsCache(d, G, C, R, S, k) /\ k = WithCopy(kv, g, source, l)
    <3>1. d = CopiedPage(linked, b, source, l)
      BY <1>1, <1>6, Zenon DEF FilledBlock
    <3>2. \E k : IsCopied(linked, F, C, P, S, kv, b, source, l, k)
      BY <1>4, CopiedIs, Zenon
    <3> QED BY <2>1, <2>3, <3>1, <3>2, Zenon DEF IsCopied
  <2>7. HasMembers(e, p, st, l, v, 1)
    <3>1. \A z : IsBlock([new EXCEPT !.page_ids = z], z, st, l, v, 1)
      BY <1>2, SetBlock, Zenon
    <3>2. IsBlock(e, p, st, l, v, 1)
      BY <2>1, <3>1, Zenon
    <3>3. p \in Seq(Page) /\ 1 \in Nat
      BY <2>1, <2>2
    <3> QED BY <3>2, <3>3, BlockMembers, Zenon
  <2>8. R = [Q EXCEPT ![b] = e]
    BY <1>3, <2>1
  <2>9. PageTaken(F, l, p, G, kv, k, source)
    BY <1>6, <2>1, <2>2, <2>4 DEF PageTaken
  <2>10. IsFilled(d, F, C, Q, S, b, st, l, v, G, e, p, R, kv, k, source)
    BY <2>4, <2>7, <2>8, <2>9, Zenon DEF IsFilled
  <2> QED BY <1>1, <2>10, Zenon
<1> QED BY <1>5, <1>6

(* Where a block that starts at st hangs.                                  *)
Place(c, v, st) ==
  /\ st \in Nat /\ st % page_size = 0
  /\ v \in Used(c) \cup {NoBlock}
  /\ v = NoBlock => st = 0
  /\ v # NoBlock => /\ c.pool[v].seq_length > 0 /\ c.pool[v].seq_length % page_size = 0
                    /\ st = c.pool[v].start_pos + c.pool[v].seq_length

(* d is c after block b was taken and block v got the reference of its new *)
(* child.                                                                  *)
Opened(c, d, b, v) ==
  /\ b \in c.free_block_idx
  /\ IsCache(d, c.free_page_ids, c.free_block_idx \ {b}, d.pool, c.seq_map, c.kv)
  /\ d.pool \in [Block -> BlockType]
  /\ \A x \in c.free_block_idx \ {b} : d.pool[x] = EmptyBlock
  /\ \A x \in Used(c) : Same(c, d, x)
  /\ \A x \in Used(c) :
       /\ d.pool[x].external_ref_cnt =
            Cardinality(Children(c, x)) + Cardinality(Owners(c, x)) + (IF x = v THEN 1 ELSE 0)
       /\ d.pool[x].external_ref_cnt > 0

(* A new block of l tokens at st, below v.                                 *)
Filled(c, d, b, st, l, v) ==
  /\ Structured(d)
  /\ Used(d) = Used(c) \cup {b} /\ d.seq_map = c.seq_map
  /\ HasMembers(d.pool[b], d.pool[b].page_ids, st, l, v, 1)

CopiedFrom(c, d, b, source, l) ==
  DOMAIN c.kv = Page => \A o \in 0..(l - 1) : d.kv[d.pool[b].page_ids[1]][o] = c.kv[source][o]
PoolKept(c, sp, d) == \A x \in Used(c) : d.pool[x] = sp.pool[x] /\ Same(c, d, x)

(* Less than a page needs one page or none.                                *)
LEMMA OnePage ==
  ASSUME NEW l \in 0..(page_size - 1)
  PROVE  PagesFor(l) = IF l = 0 THEN 0 ELSE 1
<1>1. CASE l = 0
  BY <1>1, PagesForZero
<1>2. CASE l # 0
  <2>1. page_size \in Nat \ {0}
    BY SizeAssumption
  <2>2. l \in Nat /\ 1 \in Nat /\ l <= page_size * 1 /\ page_size * 1 < l + page_size
    BY <1>2, <2>1
  <2>3. PagesFor(l) = 1
    BY <2>2, PagesForIs
  <2> QED BY <1>2, <2>3
<1> QED BY <1>1, <1>2

(* The new block of a fork keeps blocks, chains and pages in order.        *)
LEMMA FilledWhole ==
  ASSUME NEW c, Structured(c), NEW sp, NEW b, NEW v, Opened(c, sp, b, v),
         NEW st, Place(c, v, st), NEW l \in 0..(page_size - 1), l = 0 \/ c.free_page_ids # {}, NEW source,
         NEW d, d = FilledBlock(LinkedBlock(sp, b, st, l, v), b, source, l)
  PROVE  /\ Filled(c, d, b, st, l, v) /\ PoolKept(c, sp, d)
         /\ KvKept(c, d) /\ CopiedFrom(c, d, b, source, l)
<1>1. Typed(c) /\ Chained(c) /\ Paged(c)
  BY DEF Structured
<1>2. PICK F, B, C, Q, S, kv : /\ F = c.free_page_ids /\ B = c.free_block_idx /\ C = B \ {b}
                               /\ Q = sp.pool /\ S = c.seq_map /\ kv = c.kv
  OBVIOUS
<1>3. /\ b \in B /\ B \subseteq Block /\ F \subseteq Page /\ b \in Block /\ b \notin C
      /\ Used(c) \subseteq Block /\ b \notin Used(c)
  BY <1>1, <1>2, CacheFields DEF Opened, Used
<1>4. IsCache(sp, F, C, Q, S, kv) /\ Q \in [Block -> BlockType] /\ (\A x \in C : Q[x] = EmptyBlock)
  BY <1>2, Zenon DEF Opened
<1>5. v \in Block \cup {NoBlock} /\ st \in Nat
  BY <1>3 DEF Place
<1>6. l \in Nat /\ (l = 0 \/ F # {})
  BY <1>2, SizeAssumption
<1>7. PICK G, e, p, R, k : IsFilled(d, F, C, Q, S, b, st, l, v, G, e, p, R, kv, k, source)
  <2>1. b \in Block /\ b \notin C /\ F \subseteq Page
    BY <1>3
  <2>2. \E G, e, p, R, k : IsFilled(FilledBlock(LinkedBlock(sp, b, st, l, v), b, source, l),
                                    F, C, Q, S, b, st, l, v, G, e, p, R, kv, k, source)
    BY <1>4, <1>5, <1>6, <2>1, FilledIs, Zenon
  <2> QED BY <2>2, Zenon
<1>8. IsCache(d, G, C, R, S, k) /\ R = [Q EXCEPT ![b] = e] /\ HasMembers(e, p, st, l, v, 1) /\ PageTaken(F, l, p, G, kv, k, source)
  BY <1>7, Zenon DEF IsFilled
<1>9. /\ e \in BlockType /\ e.page_ids = p /\ e.start_pos = st /\ e.seq_length = l /\ e.parent_idx = v
      /\ e.external_ref_cnt = 1
  BY <1>8, Zenon DEF HasMembers
<1>10. R \in [Block -> BlockType] /\ R[b] = e /\ (\A x \in Block \ {b} : R[x] = Q[x])
  BY <1>3, <1>4, <1>8, <1>9
<1>11. G \subseteq F /\ NoRepeats(p) /\ Elements(p) \subseteq F /\ G = F \ Elements(p) /\ Len(p) = PagesFor(l)
  <2>1. CASE l = 0
    <3>1. p = <<>> /\ G = F
      BY <1>8, <2>1 DEF PageTaken
    <3>2. Elements(p) = {} /\ NoRepeats(p) /\ Len(p) = 0
      BY <3>1 DEF Elements, NoRepeats
    <3> QED BY <2>1, <3>1, <3>2, PagesForZero
  <2>2. CASE l # 0
    <3>1. PICK g \in F : p = <<g>> /\ G = F \ {g}
      BY <1>8, <2>2 DEF PageTaken
    <3>2. Elements(p) = {g} /\ NoRepeats(p) /\ Len(p) = 1
      BY <3>1 DEF Elements, NoRepeats
    <3>3. PagesFor(l) = 1
      BY <2>2, OnePage
    <3> QED BY <3>1, <3>2, <3>3
  <2> QED BY <2>1, <2>2
<1>12. /\ Typed(d) /\ SeqIds(d) = SeqIds(c) /\ Used(d) = Used(c) \cup {b}
       /\ d.free_page_ids = G /\ d.free_block_idx = C /\ d.pool = R /\ d.seq_map = S /\ d.kv = k
  <2>1. PICK D : D = SeqIds(c)
    OBVIOUS
  <2>2. \A x \in C : R[x] = EmptyBlock
    BY <1>2, <1>3, <1>4, <1>10
  <2>3. Parts(G, C, R, D, S)
    <3>1. D \subseteq SeqId \cup {TempSeq} /\ S \in [D -> SequenceType]
      BY <1>1, <1>2, <2>1, CacheFields
    <3>2. G \subseteq Page /\ C \subseteq Block
      BY <1>2, <1>3, <1>11
    <3>3. R \in [Block -> BlockType]
      BY <1>10
    <3> QED BY <2>2, <3>1, <3>2, <3>3, Zenon DEF Parts
  <2>4. IsCache(d, G, C, R, S, k)
    BY <1>8, Zenon
  <2>5. /\ Typed(d) /\ SeqIds(d) = D /\ Used(d) = Block \ C
        /\ d.free_page_ids = G /\ d.free_block_idx = C /\ d.pool = R /\ d.seq_map = S /\ d.kv = k
    BY <2>3, <2>4, TypedCache
  <2>6. Block \ C = Used(c) \cup {b}
    BY <1>2, <1>3 DEF Used
  <2> QED BY <2>1, <2>5, <2>6, Zenon
<1>13. \A x \in Used(c) : d.pool[x] = sp.pool[x] /\ Same(c, d, x)
  <2>1. ASSUME NEW x \in Used(c) PROVE d.pool[x] = sp.pool[x] /\ Same(c, d, x)
    <3>1. d.pool[x] = sp.pool[x]
      BY <1>2, <1>3, <1>10, <1>12, <2>1
    <3>2. Same(c, sp, x)
      BY <2>1, Zenon DEF Opened
    <3> QED BY <3>1, <3>2 DEF Same
  <2> QED BY <2>1
<1>14. Children(c, b) = {} /\ Pages(c, b) = {}
  <2>1. Pages(c, b) = {}
    BY <1>1, <1>3, PagesOf
  <2>2. \A x \in Used(c) : c.pool[x].parent_idx # b
    BY <1>1, <1>3, BlockFields DEF Chained, Hangs
  <2> QED BY <2>1, <2>2 DEF Children
<1>15. Hangs(d, b)
  <2>1. d.pool[b].start_pos = st /\ d.pool[b].parent_idx = v
    BY <1>9, <1>10, <1>12
  <2>2. st % page_size = 0 /\ (v = NoBlock => st = 0) /\ v \in Used(d) \cup {NoBlock}
    BY <1>12 DEF Place
  <2>3. ASSUME v # NoBlock PROVE /\ d.pool[v].seq_length > 0 /\ d.pool[v].seq_length % page_size = 0
                                 /\ st = d.pool[v].start_pos + d.pool[v].seq_length
    <3>1. v \in Used(c)
      BY <2>3 DEF Place
    <3>2. d.pool[v].seq_length = c.pool[v].seq_length /\ d.pool[v].start_pos = c.pool[v].start_pos
      BY <1>13, <3>1 DEF Same
    <3> QED BY <2>3, <3>2, Zenon DEF Place
  <2> QED BY <2>1, <2>2, <2>3, Zenon DEF Hangs
<1>16. HasPages(d, b) /\ NoRepeats(d.pool[b].page_ids) /\ Pages(d, b) = Elements(p)
  <2>1. d.pool[b].page_ids = p /\ d.pool[b].seq_length = l
    BY <1>9, <1>10, <1>12
  <2> QED BY <1>11, <2>1 DEF HasPages, Pages
<1>17. Structured(d)
  <2>1. /\ Pages(d, b) \subseteq c.free_page_ids \cup Pages(c, b)
        /\ d.free_page_ids = (c.free_page_ids \cup Pages(c, b)) \ Pages(d, b)
    BY <1>2, <1>11, <1>12, <1>14, <1>16
  <2>2. \A x \in Used(c) \ {b} : Same(c, d, x)
    BY <1>13
  <2>3. b \in Block /\ Typed(d) /\ Used(d) = Used(c) \cup {b} /\ Children(c, b) = {}
    BY <1>3, <1>12, <1>14
  <2> QED BY <1>15, <1>16, <2>1, <2>2, <2>3, OneBlock
<1>18. HasMembers(d.pool[b], d.pool[b].page_ids, st, l, v, 1)
  <2>1. d.pool[b] = e
    BY <1>10, <1>12
  <2> QED BY <1>9, <2>1, Zenon DEF HasMembers
<1>19. PoolKept(c, sp, d)
  BY <1>13 DEF PoolKept
<1>20. Filled(c, d, b, st, l, v)
  BY <1>2, <1>12, <1>17, <1>18 DEF Filled
<1>21. ASSUME DOMAIN kv = Page
       PROVE  /\ DOMAIN k = Page /\ \A x \in Page \ F : k[x] = kv[x]
              /\ \A o \in 0..(l - 1) : k[p[1]][o] = kv[source][o]
  <2>1. CASE l = 0
    <3>1. k = kv
      BY <1>8, <2>1 DEF PageTaken
    <3>2. 0..(l - 1) = {}
      BY <2>1
    <3> QED BY <1>21, <3>1, <3>2
  <2>2. CASE l # 0
    <3>1. PICK g \in F : p = <<g>> /\ k = WithCopy(kv, g, source, l)
      BY <1>8, <2>2 DEF PageTaken
    <3>2. PICK page : page = [o \in Offset |-> IF o < l THEN kv[source][o] ELSE Junk]
      OBVIOUS
    <3>3. k = [kv EXCEPT ![g] = page]
      BY <3>1, <3>2, Zenon DEF WithCopy
    <3>4. g \in Page /\ p[1] = g
      BY <1>3, <3>1
    <3>5. DOMAIN k = Page /\ k[g] = page /\ \A x \in Page \ F : k[x] = kv[x]
      BY <1>21, <3>3, <3>4
    <3>6. ASSUME NEW o \in 0..(l - 1) PROVE page[o] = kv[source][o]
      <4>1. o \in Offset /\ o < l
        BY <3>6, SizeAssumption DEF Offset
      <4> QED BY <3>2, <4>1
    <3> QED BY <3>4, <3>5, <3>6
  <2> QED BY <2>1, <2>2
<1>22. KvKept(c, d)
  BY <1>2, <1>12, <1>21 DEF KvKept
<1>23. CopiedFrom(c, d, b, source, l)
  <2>1. d.pool[b].page_ids = p
    BY <1>9, <1>10, <1>12
  <2> QED BY <1>2, <1>12, <1>21, <2>1 DEF CopiedFrom
<1> QED BY <1>19, <1>20, <1>22, <1>23

(* Its sequence has as many tokens as there are up to its end.             *)
LEMMA FilledLength ==
  ASSUME NEW c, NEW d, NEW b, NEW st \in Nat, NEW l \in Nat, NEW v, Filled(c, d, b, st, l, v)
  PROVE  TokensIn(d, GetBlockTrace(d, b)) = st + l
<1>1. Typed(d) /\ Chained(d) /\ b \in Used(d) /\ d.pool[b].start_pos = st /\ d.pool[b].seq_length = l
  BY DEF Filled, Structured, HasMembers
<1>2. PICK t : t = GetBlockTrace(d, b)
  OBVIOUS
<1>3. Len(t) \in Nat /\ Len(t) > 0 /\ t[Len(t)] = b /\ d.pool[t[1]].start_pos = 0
  BY <1>1, <1>2, TraceStarts DEF Starts
<1>4. 1 \in 1..(Len(t) + 1) /\ Len(t) \in 0..Len(t) /\ 1 <= Len(t)
  BY <1>3
<1>5. TokensIn(d, SubSeq(t, 1, Len(t))) = d.pool[t[Len(t)]].start_pos + d.pool[t[Len(t)]].seq_length - d.pool[t[1]].start_pos
  BY <1>1, <1>2, <1>4, TokensBetween
<1>6. SubSeq(t, 1, Len(t)) = t
  <2>1. t \in Seq(Block)
    BY <1>1, <1>2, TraceBlocks
  <2> QED BY <1>3, <2>1
<1>7. TokensIn(d, t) = st + l - 0
  BY <1>1, <1>3, <1>5, <1>6, Zenon
<1>8. st + l - 0 = st + l
  OBVIOUS
<1> QED BY <1>2, <1>7, <1>8, Zenon

WithSequence(c, s, g) == [c EXCEPT !.seq_map = Put(c.seq_map, s, g)]
Extended(c, d, s, g) ==
  /\ Structured(d) /\ Typed(d)
  /\ SeqIds(d) = SeqIds(c) \cup {s} /\ Used(d) = Used(c) /\ d.pool = c.pool
  /\ d.kv = c.kv /\ d.free_page_ids = c.free_page_ids
  /\ d.seq_map[s] = g
  /\ \A x \in SeqIds(c) \ {s} : d.seq_map[x] = c.seq_map[x]

(* So does a new sequence.                                                 *)
LEMMA ExtendedWhole ==
  ASSUME NEW c, Structured(c), NEW s \in SeqId \cup {TempSeq}, NEW g \in SequenceType
  PROVE  Extended(c, WithSequence(c, s, g), s, g)
<1>1. PICK d, F, B, P, S, kv, T, D :
        /\ d = WithSequence(c, s, g) /\ D = SeqIds(c) \cup {s} /\ T = Put(S, s, g)
        /\ F = c.free_page_ids /\ B = c.free_block_idx /\ P = c.pool /\ S = c.seq_map /\ kv = c.kv
  OBVIOUS
<1>2. Typed(c)
  BY DEF Structured
<1>3. /\ IsCache(c, F, B, P, S, kv) /\ F \subseteq Page /\ B \subseteq Block /\ P \in [Block -> BlockType]
      /\ (\A x \in B : P[x] = EmptyBlock) /\ SeqIds(c) \subseteq SeqId \cup {TempSeq}
      /\ S \in [SeqIds(c) -> SequenceType]
  BY <1>1, <1>2, CacheFields
<1>4. IsCache(d, F, B, P, T, kv)
  <2>1. IsCache(c, F, B, P, S, kv)
    BY <1>3
  <2>2. \A z : IsCache([c EXCEPT !.seq_map = z], F, B, P, z, kv)
    BY <2>1, SetMembers, Zenon
  <2> QED BY <1>1, <2>2, Zenon DEF WithSequence
<1>5. T \in [D -> SequenceType] /\ T[s] = g /\ \A x \in SeqIds(c) \ {s} : T[x] = S[x]
  <2>1. PICK E : E = SeqIds(c)
    OBVIOUS
  <2>2. S \in [E -> SequenceType]
    BY <1>3, <2>1
  <2>3. /\ Put(S, s, g) \in [E \cup {s} -> SequenceType]
        /\ Put(S, s, g)[s] = g
        /\ \A x \in E \ {s} : Put(S, s, g)[x] = S[x]
    BY <2>2 DEF Put
  <2> QED BY <1>1, <2>1, <2>3, Zenon
<1>6. Parts(F, B, P, D, T)
  <2>1. D \subseteq SeqId \cup {TempSeq}
    BY <1>1, <1>3
  <2> QED BY <1>3, <1>5, <2>1, Zenon DEF Parts
<1>7. /\ Typed(d) /\ SeqIds(d) = D /\ Used(d) = Block \ B
      /\ d.free_page_ids = F /\ d.pool = P /\ d.seq_map = T /\ d.kv = kv
  BY <1>4, <1>6, TypedCache
<1>8. Used(d) = Used(c)
  BY <1>1, <1>7 DEF Used
<1>9. Structured(d)
  <2>1. \A x \in Used(c) : Same(c, d, x)
    BY <1>1, <1>7 DEF Same
  <2>2. d.free_page_ids = c.free_page_ids
    BY <1>1, <1>7
  <2> QED BY <1>7, <1>8, <2>1, <2>2, SameStructure
<1> QED BY <1>1, <1>5, <1>7, <1>8, <1>9 DEF Extended

(* d is c with a sequence more, of n tokens.                               *)
Branched(c, d, child, n) ==
  /\ SeqIds(d) = SeqIds(c) \cup {child}
  /\ d.seq_map[child].seq_length = n
  /\ \A x \in SeqIds(c) : d.seq_map[x] = c.seq_map[x]

(* It ends in the new block b, of l tokens from st on, below v; they are   *)
(* those in front of page source.                                          *)
Sprouted(c, d, child, b, st, l, v, source) ==
  /\ Used(d) = Used(c) \cup {b} /\ Keeps(c, d)
  /\ d.seq_map[child].last_block_idx = b
  /\ HasMembers(d.pool[b], d.pool[b].page_ids, st, l, v, 1)
  /\ CopiedFrom(c, d, b, source, l)

(* Together they keep the references in order.                             *)
LEMMA BranchedWhole ==
  ASSUME NEW c, Structured(c), Ended(c), NEW X, X \subseteq SeqIds(c), Private(c, X),
         NEW sp, NEW b, NEW v, Opened(c, sp, b, v), NotLast(c, SeqIds(c) \ X, v),
         NEW st, Place(c, v, st), NEW l \in 0..(page_size - 1), l = 0 \/ c.free_page_ids # {}, NEW source,
         NEW child \in SeqId \cup {TempSeq}, child \notin SeqIds(c),
         NEW f, f = FilledBlock(LinkedBlock(sp, b, st, l, v), b, source, l),
         NEW d, d = WithSequence(f, child, NewSequence(b, TokensIn(f, GetBlockTrace(f, b))))
  PROVE  /\ Whole(d, X) /\ Branched(c, d, child, st + l)
         /\ Sprouted(c, d, child, b, st, l, v, source)
<1>1. Typed(c)
  BY DEF Structured
<1>2. st \in Nat /\ l \in Nat
  BY SizeAssumption DEF Place
<1>3. Filled(c, f, b, st, l, v)
  BY FilledWhole, Zenon
<1>4. PoolKept(c, sp, f) /\ KvKept(c, f) /\ CopiedFrom(c, f, b, source, l)
  BY FilledWhole, Zenon
<1>5. /\ Structured(f) /\ Typed(f) /\ Used(f) = Used(c) \cup {b} /\ f.seq_map = c.seq_map
      /\ HasMembers(f.pool[b], f.pool[b].page_ids, st, l, v, 1)
  BY <1>3, Zenon DEF Filled, Structured
<1>6. b \in Block /\ b \notin Used(c) /\ v # b
  <2>1. b \in Block /\ b \notin Used(c)
    <3>1. b \in c.free_block_idx
      BY Zenon DEF Opened
    <3>2. c.free_block_idx \subseteq Block
      BY <1>1, CacheFields
    <3> QED BY <3>1, <3>2 DEF Used
  <2>2. v \in Used(c) \/ v = NoBlock
    BY Zenon DEF Place
  <2>3. b # NoBlock
    BY <1>1, <2>1, BlockFields
  <2> QED BY <2>1, <2>2, <2>3, Zenon
<1>7. PICK n, g : n = st + l /\ g = NewSequence(b, n)
  OBVIOUS
<1>8. n \in Nat
  BY <1>2, <1>7
<1>9. TokensIn(f, GetBlockTrace(f, b)) = n
  BY <1>2, <1>3, <1>7, FilledLength, Zenon
<1>10. g \in SequenceType /\ g.last_block_idx = b /\ g.seq_length = n
  BY <1>6, <1>7, <1>8, NewSequenceFacts
<1>11. Extended(f, d, child, g)
  <2>1. d = WithSequence(f, child, g)
    BY <1>7, <1>9, Zenon
  <2>2. Structured(f)
    BY <1>5, Zenon
  <2>3. g \in SequenceType
    BY <1>10, Zenon
  <2>4. Extended(f, WithSequence(f, child, g), child, g)
    BY <2>2, <2>3, ExtendedWhole, Zenon
  <2> QED BY <2>1, <2>4, Zenon
<1>12. SeqIds(f) = SeqIds(c)
  BY <1>5, Zenon DEF SeqIds
<1>13. /\ Structured(d) /\ Typed(d)
       /\ SeqIds(d) = SeqIds(c) \cup {child} /\ Used(d) = Used(c) \cup {b} /\ d.pool = f.pool
       /\ d.seq_map[child] = g /\ d.kv = f.kv /\ d.free_page_ids = f.free_page_ids
       /\ \A x \in SeqIds(c) \ {child} : d.seq_map[x] = c.seq_map[x]
  BY <1>5, <1>11, <1>12, Zenon DEF Extended
<1>14. Linked(d, X \ {child})
  <2>1. Referred(c, d, child, v)
    <3>1. ASSUME NEW x \in Used(c)
          PROVE  /\ d.pool[x].external_ref_cnt + (IF child \in Owners(c, x) THEN 1 ELSE 0) =
                      Cardinality(Children(c, x)) + Cardinality(Owners(c, x)) + (IF x = v THEN 1 ELSE 0)
                 /\ d.pool[x].external_ref_cnt > 0
      <4>1. child \notin Owners(c, x)
        BY Zenon DEF Owners
      <4>2. d.pool[x] = sp.pool[x]
        BY <1>4, <1>13, <3>1, Zenon DEF PoolKept
      <4>3. PICK r, m : /\ r = sp.pool[x].external_ref_cnt
                        /\ m = Cardinality(Children(c, x)) + Cardinality(Owners(c, x)) + (IF x = v THEN 1 ELSE 0)
        OBVIOUS
      <4>4. r = m /\ r > 0
        BY <3>1, <4>3, Zenon DEF Opened
      <4>5. m \in Nat
        <5>1. Cardinality(Children(c, x)) \in Nat /\ Cardinality(Owners(c, x)) \in Nat
          BY <1>1, UsedBlocks, OwnersFinite
        <5> QED BY <4>3, <5>1
      <4>6. r + 0 = m /\ r > 0
        BY <4>4, <4>5
      <4> QED BY <4>1, <4>2, <4>3, <4>6, Zenon
    <3> QED BY <3>1, Zenon DEF Referred
  <2>2. NewBelow(c, d, child, b, v)
    <3>1. \A x \in Used(c) : Same(c, d, x)
      BY <1>4, <1>13, ZenonT(60) DEF PoolKept, Same
    <3>2. d.pool[b] = f.pool[b]
      BY <1>13, Zenon
    <3>3. /\ d.pool[b].parent_idx = v /\ d.pool[b].external_ref_cnt = 1
          /\ d.pool[b].start_pos = st /\ d.pool[b].seq_length = l
      BY <1>5, <3>2, Zenon DEF HasMembers
    <3>4. d.seq_map[child].last_block_idx = b /\ d.seq_map[child].seq_length = st + l
      BY <1>7, <1>10, <1>13, Zenon
    <3>7. d.seq_map[child].seq_length = d.pool[b].start_pos + d.pool[b].seq_length
      BY <3>3, <3>4, Zenon
    <3> QED BY <1>13, <3>1, <3>3, <3>4, <3>7, Zenon DEF NewBelow
  <2>3. NotLast(c, SeqIds(c) \ (X \cup {child}), v)
    <3>1. \A x \in SeqIds(c) \ (X \cup {child}) : x \in SeqIds(c) \ X
      BY Zenon
    <3> QED BY <3>1, Zenon DEF NotLast
  <2>4. b \in Block \ Used(c)
    BY <1>6, Zenon
  <2>5. Typed(d) /\ v # b
    BY <1>6, <1>13, Zenon
  <2> QED BY <2>1, <2>2, <2>3, <2>4, <2>5, NewLast, Zenon
<1>15. X \ {child} = X
  <2>1. \A x : x \in X => x # child
    BY Zenon
  <2> QED BY <2>1, Zenon
<1>16. Whole(d, X)
  BY <1>13, <1>14, <1>15, Zenon DEF Whole
<1>17. Branched(c, d, child, st + l)
  <2>1. \A x \in SeqIds(c) : x \in SeqIds(c) \ {child}
    BY Zenon
  <2> QED BY <1>7, <1>10, <1>13, <2>1, Zenon DEF Branched
<1>18. Sprouted(c, d, child, b, st, l, v, source)
  <2>1. KvKept(c, d) /\ CopiedFrom(c, d, b, source, l)
    BY <1>4, <1>13, Zenon DEF KvKept, CopiedFrom
  <2>2. \A x \in Used(c) \cap Used(d) : Same(c, d, x)
    <3>1. \A x \in Used(c) : Same(c, f, x)
      BY <1>4, Zenon DEF PoolKept
    <3> QED BY <1>13, <3>1 DEF Same
  <2>3. HasMembers(d.pool[b], d.pool[b].page_ids, st, l, v, 1)
    BY <1>5, <1>13, Zenon
  <2>4. d.seq_map[child].last_block_idx = b
    BY <1>10, <1>13, Zenon
  <2> QED BY <1>13, <2>1, <2>2, <2>3, <2>4 DEF Keeps, Sprouted
<1> QED BY <1>16, <1>17, <1>18

(* The child shares the blocks above u.                                    *)
WithoutBlock(c, b) == [c EXCEPT !.free_block_idx = c.free_block_idx \ {b}]

(* The parts after a block is set aside.                                   *)
LEMMA WithoutBlockIs ==
  ASSUME NEW c, NEW F, NEW B, NEW P, NEW S, NEW kv, IsCache(c, F, B, P, S, kv), NEW b
  PROVE  IsCache(WithoutBlock(c, b), F, B \ {b}, P, S, kv)
<1>1. c.free_block_idx = B
  BY SetMembers, Zenon
<1>2. \A z : IsCache([c EXCEPT !.free_block_idx = z], F, z, P, S, kv)
  BY SetMembers, Zenon
<1> QED BY <1>1, <1>2, Zenon DEF WithoutBlock

(* The references once v has one more.                                     *)
CountedWith(c, Q, v) ==
  /\ Q \in [Block -> BlockType]
  /\ \A x \in Block : /\ Q[x].page_ids = c.pool[x].page_ids /\ Q[x].start_pos = c.pool[x].start_pos
                      /\ Q[x].seq_length = c.pool[x].seq_length /\ Q[x].parent_idx = c.pool[x].parent_idx
                      /\ Q[x].external_ref_cnt = c.pool[x].external_ref_cnt + (IF x = v THEN 1 ELSE 0)
                      /\ x # v => Q[x] = c.pool[x]

(* One more reference to a block opens it for a new child.                 *)
LEMMA CountedOpened ==
  ASSUME NEW c, Typed(c), Counted(c), NEW b \in c.free_block_idx, NEW v \in Used(c) \cup {NoBlock},
         NEW Q, CountedWith(c, Q, v), NEW d,
         IsCache(d, c.free_page_ids, c.free_block_idx \ {b}, Q, c.seq_map, c.kv)
  PROVE  Opened(c, d, b, v)
<1>1. d.pool = Q
  BY DEF IsCache
<1>2. c.free_block_idx \subseteq Block /\ Used(c) \subseteq Block /\ Used(c) \cap c.free_block_idx = {}
  BY CacheFields DEF Used
<1>3. \A x \in c.free_block_idx \ {b} : d.pool[x] = EmptyBlock
  <2>1. ASSUME NEW x \in c.free_block_idx \ {b} PROVE d.pool[x] = EmptyBlock
    <3>1. x \in Block /\ x # v
      <4>1. x \in Block /\ x \notin Used(c)
        BY <1>2, <2>1
      <4>2. x # NoBlock
        BY <4>1, BlockFields
      <4> QED BY <4>1, <4>2
    <3>2. Q[x] = c.pool[x]
      BY <3>1, Zenon DEF CountedWith
    <3>3. c.pool[x] = EmptyBlock
      BY <2>1 DEF Typed
    <3> QED BY <1>1, <3>2, <3>3, Zenon
  <2> QED BY <2>1
<1>4. \A x \in Used(c) : Same(c, d, x)
  BY <1>1, <1>2, Zenon DEF CountedWith, Same
<1>5. ASSUME NEW x \in Used(c)
      PROVE  /\ d.pool[x].external_ref_cnt =
                  Cardinality(Children(c, x)) + Cardinality(Owners(c, x)) + (IF x = v THEN 1 ELSE 0)
             /\ d.pool[x].external_ref_cnt > 0
  <2>1. PICK r, m, k : /\ r = c.pool[x].external_ref_cnt
                       /\ m = Cardinality(Children(c, x)) + Cardinality(Owners(c, x))
                       /\ k = (IF x = v THEN 1 ELSE 0)
    OBVIOUS
  <2>2. r = m /\ r > 0
    BY <1>5, <2>1, Zenon DEF Counted, Counts
  <2>3. d.pool[x].external_ref_cnt = r + k
    <3>1. x \in Block
      BY <1>2, <1>5
    <3> QED BY <1>1, <2>1, <3>1, Zenon DEF CountedWith
  <2>4. r \in Nat /\ k \in Nat
    <3>1. x \in Block
      BY <1>2, <1>5
    <3> QED BY <2>1, <3>1, BlockFields
  <2>5. r + k = m + k /\ r + k > 0
    BY <2>2, <2>4
  <2> QED BY <2>1, <2>3, <2>5, Zenon
<1>6. IsCache(d, c.free_page_ids, c.free_block_idx \ {b}, d.pool, c.seq_map, c.kv)
  BY <1>1, Zenon
<1>7. d.pool \in [Block -> BlockType]
  BY <1>1, Zenon DEF CountedWith
<1> QED BY <1>3, <1>4, <1>5, <1>6, <1>7, Zenon DEF Opened

(* A fork at the start of a block makes the new block its sibling.         *)
LEMMA SharedOpened ==
  ASSUME NEW c, Structured(c), Counted(c), NEW b \in c.free_block_idx, NEW u \in Used(c),
         NEW v, v = c.pool[u].parent_idx, NEW d, d = SharedFrom(WithoutBlock(c, b), u)
  PROVE  Opened(c, d, b, v) /\ ForkPoint(d, u) = v
<1>1. Typed(c) /\ Chained(c) /\ u \in Block
  BY UsedBlocks DEF Structured
<1>2. PICK g, F, B, P, S, kv :
        /\ F = c.free_page_ids /\ B = c.free_block_idx /\ P = c.pool /\ S = c.seq_map /\ kv = c.kv
        /\ g = WithoutBlock(c, b)
  OBVIOUS
<1>3. IsCache(c, F, B, P, S, kv) /\ P \in [Block -> BlockType]
  BY <1>1, <1>2, CacheFields
<1>4. IsCache(g, F, B \ {b}, P, S, kv)
  BY <1>2, <1>3, WithoutBlockIs, Zenon
<1>5. g.pool = P /\ v = P[u].parent_idx
  <2>1. g.pool = P
    BY <1>4, SetMembers, Zenon
  <2> QED BY <1>2, <2>1, Zenon
<1>6. v \in Used(c) \cup {NoBlock}
  BY <1>1 DEF Chained, Hangs
<1>7. CASE v = NoBlock
  <2>1. d = g
    BY <1>2, <1>5, <1>7, Zenon DEF SharedFrom
  <2>2. CountedWith(c, P, v)
    <3>1. ASSUME NEW x \in Block
          PROVE  P[x].external_ref_cnt = P[x].external_ref_cnt + (IF x = v THEN 1 ELSE 0)
      <4>1. x # v /\ P[x].external_ref_cnt \in Nat
        BY <1>1, <1>2, <1>7, <3>1, BlockFields
      <4> QED BY <4>1
    <3> QED BY <1>2, <1>3, <3>1, Zenon DEF CountedWith
  <2>3. IsCache(d, c.free_page_ids, c.free_block_idx \ {b}, P, c.seq_map, c.kv)
    BY <1>2, <1>4, <2>1, Zenon
  <2>4. Opened(c, d, b, v)
    BY <1>1, <1>6, <2>2, <2>3, CountedOpened, Zenon
  <2>5. ForkPoint(d, u) = v
    BY <1>5, <2>1, Zenon DEF ForkPoint
  <2> QED BY <2>4, <2>5
<1>8. CASE v # NoBlock
  <2>1. v \in Used(c) /\ v \in Block
    BY <1>6, <1>8, UsedBlocks
  <2>2. PICK r : r = g.pool[v].external_ref_cnt + 1
    OBVIOUS
  <2>3. r = P[v].external_ref_cnt + 1 /\ r \in Nat /\ P[v].external_ref_cnt \in Nat
    BY <1>1, <1>2, <1>5, <2>1, <2>2, BlockFields
  <2>4. d = [g EXCEPT !.pool[v].external_ref_cnt = r]
    BY <1>2, <1>5, <1>8, <2>2, Zenon DEF SharedFrom
  <2>5. PICK Q : IsCache(d, F, B \ {b}, Q, S, kv) /\ CountedAnew(P, Q, v, r)
    <3>1. P \in [Block -> BlockType] /\ v \in Block /\ r \in Nat
      BY <1>3, <2>1, <2>3
    <3> QED BY <1>4, <2>4, <3>1, SetReferences, Zenon
  <2>6. /\ Q \in [Block -> BlockType] /\ (\A x \in Block \ {v} : Q[x] = P[x])
        /\ Q[v].page_ids = P[v].page_ids /\ Q[v].start_pos = P[v].start_pos
        /\ Q[v].seq_length = P[v].seq_length /\ Q[v].parent_idx = P[v].parent_idx
        /\ Q[v].external_ref_cnt = r
    BY <2>5, Zenon DEF CountedAnew, IsRecounted
  <2>7. CountedWith(c, Q, v)
    <3>1. ASSUME NEW x \in Block
          PROVE  /\ Q[x].page_ids = P[x].page_ids /\ Q[x].start_pos = P[x].start_pos
                 /\ Q[x].seq_length = P[x].seq_length /\ Q[x].parent_idx = P[x].parent_idx
                 /\ Q[x].external_ref_cnt = P[x].external_ref_cnt + (IF x = v THEN 1 ELSE 0)
                 /\ x # v => Q[x] = P[x]
      <4>1. CASE x = v
        BY <2>3, <2>6, <4>1, Zenon
      <4>2. CASE x # v
        <5>1. Q[x] = P[x]
          BY <2>6, <3>1, <4>2
        <5>2. P[x].external_ref_cnt + 0 = P[x].external_ref_cnt
          <6>1. P[x].external_ref_cnt \in Nat
            BY <1>1, <1>2, <3>1, BlockFields
          <6> QED BY <6>1
        <5> QED BY <4>2, <5>1, <5>2, Zenon
      <4> QED BY <4>1, <4>2
    <3> QED BY <1>2, <2>6, <3>1, Zenon DEF CountedWith
  <2>8. IsCache(d, c.free_page_ids, c.free_block_idx \ {b}, Q, c.seq_map, c.kv)
    BY <1>2, <2>5, Zenon
  <2>9. Opened(c, d, b, v)
    BY <1>1, <1>6, <2>7, <2>8, CountedOpened, Zenon
  <2>10. d.pool = Q
    BY <2>8 DEF IsCache
  <2>11. Q[u].parent_idx = v
    BY <1>1, <1>5, <2>7, Zenon DEF CountedWith
  <2> QED BY <1>2, <2>9, <2>10, <2>11, Zenon DEF ForkPoint
<1> QED BY <1>7, <1>8

(* No last block that is somebody's own has u below it.                    *)
LEMMA ParentNotLast ==
  ASSUME NEW c, Typed(c), Chained(c), Ended(c), NEW X, Private(c, X), NEW u \in Used(c)
  PROVE  /\ NotLast(c, SeqIds(c) \ X, c.pool[u].parent_idx)
         /\ Place(c, c.pool[u].parent_idx, c.pool[u].start_pos)
<1>1. NotLast(c, SeqIds(c) \ X, c.pool[u].parent_idx)
  <2>1. ASSUME NEW x \in SeqIds(c) \ X, c.seq_map[x].last_block_idx = c.pool[u].parent_idx PROVE FALSE
    <3>1. Children(c, c.pool[u].parent_idx) = {}
      BY <2>1 DEF Private, Alone
    <3>2. u \in Children(c, c.pool[u].parent_idx)
      BY DEF Children
    <3> QED BY <3>1, <3>2
  <2> QED BY <2>1 DEF NotLast
<1>2. Place(c, c.pool[u].parent_idx, c.pool[u].start_pos)
  <2>1. Hangs(c, u) /\ c.pool[u].start_pos \in Nat
    BY UsedBlocks, BlockFields DEF Chained
  <2> QED BY <2>1, Zenon DEF Hangs, Place
<1> QED BY <1>1, <1>2

(* The pool once the first k pages of u are in the new block a.            *)
IsSplit(c, Q, u, a, k) ==
  LET e == c.pool[u] IN
  /\ Q \in [Block -> BlockType]
  /\ \A x \in Block \ {u, a} : Q[x] = c.pool[x]
  /\ HasMembers(Q[a], SubSeq(e.page_ids, 1, k), e.start_pos, page_size * k, e.parent_idx, 2)
  /\ HasMembers(Q[u], SubSeq(e.page_ids, k + 1, Len(e.page_ids)), e.start_pos + page_size * k,
                e.seq_length - page_size * k, a, e.external_ref_cnt)

(* The blocks that make it so, and what they are made from.                *)
SplitInTwo(P, Q, u, a, p, st, len, up, refs, k, m) ==
  \E new, below : /\ Q = [[P EXCEPT ![a] = new] EXCEPT ![u] = below]
                  /\ IsBlock(new, SubSeq(p, 1, k), st, m, up, 2)
                  /\ IsBlock(below, SubSeq(p, k + 1, Len(p)), st + m, len - m, a, refs)
SplitFrom(C, S, D, s, a, u, k, m) ==
  S \in [D -> SequenceType] /\ s \in D /\ a = Min(C) /\ u # a /\ m = k * page_size

(* The parts after a block is split at a page.                             *)
LEMMA SplitIs ==
  ASSUME NEW c, NEW F, NEW C, NEW P, NEW S, NEW kv, IsCache(c, F, C, P, S, kv),
         NEW D, NEW s, NEW a, NEW u, NEW k, NEW m, SplitFrom(C, S, D, s, a, u, k, m),
         NEW p, NEW st, NEW len, NEW up, NEW refs, IsBlock(P[u], p, st, len, up, refs)
  PROVE  \E Q : /\ IsCache(SplitBlock(c, s, u, k), F, C \ {a}, Q, S, kv)
                /\ SplitInTwo(P, Q, u, a, p, st, len, up, refs, k, m)
<1>0. S \in [D -> SequenceType] /\ s \in D /\ a = Min(C) /\ u # a /\ m = k * page_size
  BY Zenon DEF SplitFrom
<1>1. PICK e, new, below, w, R, Q, d :
        /\ e = P[u]
        /\ new = [EmptyBlock EXCEPT !.page_ids = SubSeq(p, 1, k), !.start_pos = st, !.seq_length = m,
                                    !.parent_idx = up, !.external_ref_cnt = 2]
        /\ below = [e EXCEPT !.page_ids = SubSeq(p, k + 1, Len(p)), !.start_pos = st + m,
                             !.seq_length = len - m, !.parent_idx = a]
        /\ w = WithBlock(c, a, new)
        /\ R = [P EXCEPT ![a] = new] /\ Q = [R EXCEPT ![u] = below]
        /\ d = SplitBlock(c, s, u, k)
  OBVIOUS
<1>2. IsBlock(new, SubSeq(p, 1, k), st, m, up, 2)
  <2>1. IsBlock(EmptyBlock, <<>>, 0, 0, NoBlock, 0)
    BY BlockForm
  <2>2. \A x1, x2, x3, x4, x5 :
          IsBlock([EmptyBlock EXCEPT !.page_ids = x1, !.start_pos = x2, !.seq_length = x3,
                                     !.parent_idx = x4, !.external_ref_cnt = x5], x1, x2, x3, x4, x5)
    BY <2>1, SetBlock, Zenon
  <2> QED BY <1>1, <2>2, Zenon
<1>3. IsBlock(e, p, st, len, up, refs)
  BY <1>1, Zenon
<1>4. IsBlock(below, SubSeq(p, k + 1, Len(p)), st + m, len - m, a, refs)
  <2>1. \A x1, x2, x3, x4 :
          IsBlock([e EXCEPT !.page_ids = x1, !.start_pos = x2, !.seq_length = x3, !.parent_idx = x4],
                  x1, x2, x3, x4, refs)
    BY <1>3, SetBlock, Zenon
  <2> QED BY <1>1, <2>1, Zenon
<1>5. e.page_ids = p /\ e.start_pos = st /\ e.seq_length = len /\ e.parent_idx = up
  BY <1>3, SetBlock, Zenon
<1>6. c.pool = P /\ c.seq_map = S /\ c.free_block_idx = C
  BY SetMembers, Zenon
<1>7. IsCache(w, F, C \ {a}, R, S, kv)
  BY <1>1, WithBlockIs, Zenon
<1>8. w.pool = R /\ w.seq_map = S
  <2>1. PICK B : B = C \ {a}
    OBVIOUS
  <2>2. IsCache(w, F, B, R, S, kv)
    BY <1>7, <2>1, Zenon
  <2> QED BY <2>2, SetMembers, ZenonT(60)
<1>9. PICK z : z = IF c.seq_map[s].sliding_window_size # NoWindow.size /\ c.seq_map[s].last_block_idx = u
                   THEN w.seq_map[s].last_block_attn_sink_size - m ELSE w.seq_map[s].last_block_attn_sink_size
  OBVIOUS
<1>10. d = [w EXCEPT !.pool[u] = below, !.seq_map[s].last_block_attn_sink_size = z]
  <2>1. GetFreeBlock(c) = a
    BY <1>0, <1>6, Zenon DEF GetFreeBlock
  <2>2. c.pool[u] = e /\ Moved(e, k) = m
    BY <1>0, <1>1, <1>6, Zenon DEF Moved
  <2> QED BY <1>1, <1>5, <1>9, <2>1, <2>2, Zenon DEF SplitBlock
<1>11. z = S[s].last_block_attn_sink_size
  <2>1. S[s].sliding_window_size = NoWindow.size
    BY <1>0 DEF SequenceType
  <2> QED BY <1>6, <1>8, <1>9, <2>1, Zenon
<1>12. [S EXCEPT ![s] = [S[s] EXCEPT !.last_block_attn_sink_size = z]] = S
  <2>1. S[s] \in SequenceType /\ S \in [D -> SequenceType] /\ s \in D
    BY <1>0
  <2>2. [S[s] EXCEPT !.last_block_attn_sink_size = z] = S[s]
    BY <1>11, <2>1 DEF SequenceType
  <2>3. [S EXCEPT ![s] = S[s]] = S
    BY <2>1
  <2> QED BY <2>2, <2>3, Zenon
<1>13. d = [w EXCEPT !.pool = Q, !.seq_map = S]
  <2>1. d = [w EXCEPT !.pool = [w.pool EXCEPT ![u] = below],
                      !.seq_map = [w.seq_map EXCEPT ![s] = [w.seq_map[s] EXCEPT !.last_block_attn_sink_size = z]]]
    BY <1>10, Zenon
  <2> QED BY <1>1, <1>8, <1>12, <2>1, Zenon
<1>14. IsCache(d, F, C \ {a}, Q, S, kv)
  <2>1. PICK B : B = C \ {a}
    OBVIOUS
  <2>2. IsCache(w, F, B, R, S, kv)
    BY <1>7, <2>1, Zenon
  <2>3. \A y, x : IsCache([w EXCEPT !.pool = y, !.seq_map = x], F, B, y, x, kv)
    BY <2>2, SetMembers, Zenon
  <2> QED BY <1>13, <2>1, <2>3, Zenon
<1>15. SplitInTwo(P, Q, u, a, p, st, len, up, refs, k, m)
  BY <1>1, <1>2, <1>4, Zenon DEF SplitInTwo
<1> QED BY <1>1, <1>14, <1>15, Zenon

(* A split puts the first pages in the new block and leaves the others.    *)
LEMMA SplitMade ==
  ASSUME NEW c, Typed(c), NEW s \in SeqIds(c), NEW u \in Used(c), NEW b \in c.free_block_idx,
         NEW a, a = GetFreeBlock(WithoutBlock(c, b)), a \in c.free_block_idx \ {b},
         NEW k \in Nat, k <= Len(c.pool[u].page_ids), page_size * k <= c.pool[u].seq_length
  PROVE  \E Q : /\ IsSplit(c, Q, u, a, k)
                /\ IsCache(SplitBlock(WithoutBlock(c, b), s, u, k), c.free_page_ids,
                           (c.free_block_idx \ {b}) \ {a}, Q, c.seq_map, c.kv)
<1>1. PICK g, F, C, P, S, kv, D, d :
        /\ F = c.free_page_ids /\ C = c.free_block_idx \ {b} /\ P = c.pool /\ S = c.seq_map /\ kv = c.kv
        /\ D = SeqIds(c) /\ g = WithoutBlock(c, b) /\ d = SplitBlock(g, s, u, k)
  OBVIOUS
<1>2. IsCache(g, F, C, P, S, kv)
  <2>1. PICK B : B = c.free_block_idx
    OBVIOUS
  <2>2. IsCache(c, F, B, P, S, kv)
    BY <1>1, <2>1, CacheFields
  <2>3. IsCache(g, F, B \ {b}, P, S, kv)
    BY <1>1, <2>2, WithoutBlockIs, Zenon
  <2> QED BY <1>1, <2>1, <2>3, Zenon
<1>3. S \in [D -> SequenceType] /\ s \in D /\ P \in [Block -> BlockType]
  BY <1>1, CacheFields
<1>4. a = Min(C)
  <2>1. g.free_block_idx = C
    BY <1>2, SetMembers, Zenon
  <2> QED BY <1>1, <2>1, Zenon DEF GetFreeBlock
<1>5. u \in Block /\ a \in Block /\ u # a
  BY CacheFields DEF Used
<1>6. PICK e, p, st, len, up, refs, m :
        /\ e = P[u] /\ p = e.page_ids /\ st = e.start_pos /\ len = e.seq_length /\ up = e.parent_idx
        /\ refs = e.external_ref_cnt /\ m = k * page_size
  OBVIOUS
<1>7. /\ e \in BlockType /\ p \in Seq(Page) /\ st \in Nat /\ len \in Nat /\ up \in Block \cup {NoBlock} /\ refs \in Nat
  BY <1>1, <1>5, <1>6, BlockFields
<1>8. IsBlock(P[u], p, st, len, up, refs)
  <2>1. IsBlock(e, e.page_ids, e.start_pos, e.seq_length, e.parent_idx, e.external_ref_cnt)
    BY <1>7, BlockForm, Zenon
  <2> QED BY <1>6, <2>1, Zenon
<1>9. PICK new, below, Q : /\ IsCache(d, F, C \ {a}, Q, S, kv)
                           /\ Q = [[P EXCEPT ![a] = new] EXCEPT ![u] = below]
                           /\ IsBlock(new, SubSeq(p, 1, k), st, m, up, 2)
                           /\ IsBlock(below, SubSeq(p, k + 1, Len(p)), st + m, len - m, a, refs)
  <2>1. SplitFrom(C, S, D, s, a, u, k, m)
    BY <1>3, <1>4, <1>5, <1>6, Zenon DEF SplitFrom
  <2>2. \E Q : /\ IsCache(SplitBlock(g, s, u, k), F, C \ {a}, Q, S, kv)
               /\ SplitInTwo(P, Q, u, a, p, st, len, up, refs, k, m)
    BY <1>2, <1>8, <2>1, SplitIs, Zenon
  <2>3. PICK Q : /\ IsCache(SplitBlock(g, s, u, k), F, C \ {a}, Q, S, kv)
                 /\ SplitInTwo(P, Q, u, a, p, st, len, up, refs, k, m)
    BY <2>2, Zenon
  <2> QED BY <1>1, <2>3, Zenon DEF SplitInTwo
<1>10. m = page_size * k /\ m \in Nat /\ m <= len
  <2>1. page_size \in Nat
    BY SizeAssumption
  <2>2. m = page_size * k
    BY <1>6, <2>1
  <2>3. page_size * k \in Nat
    BY <2>1
  <2> QED BY <1>1, <1>6, <2>2, <2>3
<1>11. HasMembers(new, SubSeq(p, 1, k), st, m, up, 2)
  <2>1. SubSeq(p, 1, k) \in Seq(Page) /\ 2 \in Nat
    BY <1>1, <1>6, <1>7
  <2> QED BY <1>7, <1>9, <1>10, <2>1, BlockMembers, Zenon
<1>12. HasMembers(below, SubSeq(p, k + 1, Len(p)), st + m, len - m, a, refs)
  <2>1. SubSeq(p, k + 1, Len(p)) \in Seq(Page) /\ st + m \in Nat /\ len - m \in Nat /\ a \in Block \cup {NoBlock}
    BY <1>5, <1>7, <1>10
  <2> QED BY <1>7, <1>9, <2>1, BlockMembers, Zenon
<1>13. Q \in [Block -> BlockType] /\ Q[a] = new /\ Q[u] = below /\ \A x \in Block \ {u, a} : Q[x] = P[x]
  <2>1. new \in BlockType /\ below \in BlockType
    BY <1>11, <1>12, Zenon DEF HasMembers
  <2>2. Q = [[P EXCEPT ![a] = new] EXCEPT ![u] = below]
    BY <1>9
  <2> QED BY <1>3, <1>5, <2>1, <2>2
<1>14. IsSplit(c, Q, u, a, k)
  <2>1. c.pool[u] = e
    BY <1>1, <1>6
  <2>2. HasMembers(Q[a], SubSeq(e.page_ids, 1, k), e.start_pos, page_size * k, e.parent_idx, 2)
    BY <1>6, <1>10, <1>11, <1>13, Zenon
  <2>3. HasMembers(Q[u], SubSeq(e.page_ids, k + 1, Len(e.page_ids)), e.start_pos + page_size * k,
                   e.seq_length - page_size * k, a, e.external_ref_cnt)
    BY <1>6, <1>10, <1>12, <1>13, Zenon
  <2>4. \A x \in Block \ {u, a} : Q[x] = c.pool[x]
    BY <1>1, <1>13
  <2> QED BY <1>13, <2>1, <2>2, <2>3, <2>4, Zenon DEF IsSplit
<1> QED BY <1>1, <1>9, <1>14, Zenon

(* The cache m with block u split at a, and its copy d without block b.    *)
SplitOff(c, m, d, b, u, a, k, X) ==
  /\ Structured(m) /\ Ended(m) /\ Private(m, X) /\ SeqIds(m) = SeqIds(c)
  /\ m.seq_map = c.seq_map /\ m.free_page_ids = c.free_page_ids
  /\ Opened(m, d, b, a)
  /\ NotLast(m, SeqIds(m) \ X, a)
  /\ Place(m, a, c.pool[u].start_pos + page_size * k)
  /\ ForkPoint(d, u) = a
  /\ Used(m) = Used(c) \cup {a} /\ IsSplit(c, m.pool, u, a, k) /\ m.kv = c.kv

(* Who hangs from what after the split.                                    *)
SplitChildren(c, m, u, a) ==
  /\ Children(m, a) = {u}
  /\ \A y \in Used(c) : y # c.pool[u].parent_idx => Children(m, y) = Children(c, y)
  /\ \A y \in Used(c) : y = c.pool[u].parent_idx => Children(m, y) = (Children(c, y) \ {u}) \cup {a}
  /\ \A y \in Used(c) : Cardinality(Children(m, y)) = Cardinality(Children(c, y))

(* The split block keeps its children and is the only one of its first     *)
(* half's, which takes its place among its siblings.                       *)
LEMMA ChildrenSplit ==
  ASSUME NEW c, Typed(c), Chained(c), NEW u \in Used(c), NEW a \in Block \ Used(c), NEW k, NEW Q, IsSplit(c, Q, u, a, k),
         NEW m, m.pool = Q, Used(m) = Used(c) \cup {a}
  PROVE  SplitChildren(c, m, u, a)
<1>1. PICK up : up = c.pool[u].parent_idx
  OBVIOUS
<1>2. Used(c) \subseteq Block /\ u \in Block /\ u # a /\ a # NoBlock
  BY UsedBlocks, BlockFields
<1>3. Q[a].parent_idx = up /\ Q[u].parent_idx = a
  BY <1>1, Zenon DEF IsSplit, HasMembers
<1>4. \A x \in Used(c) \ {u} : Q[x].parent_idx = c.pool[x].parent_idx
  <2>1. ASSUME NEW x \in Used(c) \ {u} PROVE Q[x].parent_idx = c.pool[x].parent_idx
    <3>1. x \in Block \ {u, a}
      BY <1>2, <2>1
    <3> QED BY <3>1, Zenon DEF IsSplit
  <2> QED BY <2>1
<1>5. \A x \in Used(c) : c.pool[x].parent_idx # a
  BY <1>2 DEF Chained, Hangs
<1>6. Children(m, a) = {u}
  BY <1>1, <1>2, <1>3, <1>4, <1>5 DEF Children
<1>7. \A y \in Used(c) : y # up => Children(m, y) = Children(c, y)
  BY <1>1, <1>2, <1>3, <1>4 DEF Children
<1>8. \A y \in Used(c) : y = up => Children(m, y) = (Children(c, y) \ {u}) \cup {a}
  BY <1>1, <1>2, <1>3, <1>4 DEF Children
<1>9. ASSUME NEW y \in Used(c) PROVE Cardinality(Children(m, y)) = Cardinality(Children(c, y))
  <2>1. CASE y # up
    BY <1>7, <1>9, <2>1
  <2>2. CASE y = up
    <3>1. PICK Y, Z : Y = Children(c, y) /\ Z = Y \ {u}
      OBVIOUS
    <3>2. IsFiniteSet(Y) /\ u \in Y /\ a \notin Y
      <4>1. IsFiniteSet(Y) /\ Y \subseteq Used(c)
        BY <3>1, UsedBlocks
      <4>2. u \in Y
        BY <1>1, <2>2, <3>1 DEF Children
      <4> QED BY <4>1, <4>2
    <3>3. Cardinality(Y) \in Nat /\ Cardinality(Z) = Cardinality(Y) - 1
      BY <3>1, <3>2, CardPlus
    <3>4. IsFiniteSet(Z) /\ a \notin Z
      BY <3>1, <3>2, FS_Subset
    <3>5. Cardinality(Z \cup {a}) = Cardinality(Z) + 1
      BY <3>4, CardPlus
    <3>6. Children(m, y) = Z \cup {a}
      BY <1>8, <1>9, <2>2, <3>1
    <3> QED BY <3>1, <3>3, <3>5, <3>6
  <2> QED BY <2>1, <2>2
<1> QED BY <1>1, <1>6, <1>7, <1>8, <1>9 DEF SplitChildren

(* A split keeps the structure and opens the first half for a new child.   *)
LEMMA SplitOpened ==
  ASSUME NEW c, Structured(c), Counted(c), Ended(c), NEW X, Private(c, X),
         NEW u \in Used(c), NEW b \in c.free_block_idx, NEW a \in c.free_block_idx, a # b,
         NEW k \in Nat, k > 0, page_size * k < c.pool[u].seq_length,
         NEW Q, IsSplit(c, Q, u, a, k), NEW kv, kv = c.kv, NEW C, C = (c.free_block_idx \ {b}) \ {a},
         NEW d, IsCache(d, c.free_page_ids, C, Q, c.seq_map, kv)
  PROVE  \E m : SplitOff(c, m, d, b, u, a, k, X)
<1>1. /\ Typed(c) /\ Chained(c) /\ Used(c) \subseteq Block /\ u \in Block
      /\ a \in Block /\ a \notin Used(c) /\ a # u /\ a # NoBlock
      /\ b \in Block /\ b \notin Used(c)
  <2>1. Typed(c) /\ Chained(c) /\ Used(c) \subseteq Block
    BY UsedBlocks DEF Structured
  <2>2. c.free_block_idx \subseteq Block
    BY <2>1, CacheFields
  <2>3. a \in Block /\ a \notin Used(c) /\ b \in Block /\ b \notin Used(c)
    BY <2>2 DEF Used
  <2>4. a # NoBlock
    BY <2>1, <2>3, BlockFields
  <2> QED BY <2>1, <2>3, <2>4
<1>2. PICK e, q, m0 : e = c.pool[u] /\ q = e.page_ids /\ m0 = page_size * k
  OBVIOUS
<1>3. /\ Q \in [Block -> BlockType] /\ (\A x \in Block \ {u, a} : Q[x] = c.pool[x])
      /\ HasMembers(Q[a], SubSeq(q, 1, k), e.start_pos, m0, e.parent_idx, 2)
      /\ HasMembers(Q[u], SubSeq(q, k + 1, Len(q)), e.start_pos + m0, e.seq_length - m0, a, e.external_ref_cnt)
  BY <1>2, Zenon DEF IsSplit
<1>4. /\ Q[a].page_ids = SubSeq(q, 1, k) /\ Q[a].start_pos = e.start_pos /\ Q[a].seq_length = m0
      /\ Q[a].parent_idx = e.parent_idx /\ Q[a].external_ref_cnt = 2
      /\ Q[u].page_ids = SubSeq(q, k + 1, Len(q)) /\ Q[u].start_pos = e.start_pos + m0
      /\ Q[u].seq_length = e.seq_length - m0 /\ Q[u].parent_idx = a
      /\ Q[u].external_ref_cnt = e.external_ref_cnt
  BY <1>3, Zenon DEF HasMembers
<1>5. /\ e.start_pos \in Nat /\ e.seq_length \in Nat /\ e.external_ref_cnt \in Nat /\ m0 \in Nat /\ m0 < e.seq_length
  BY <1>1, <1>2, BlockFields, PagesForRest
<1>6. PICK F, S, B, D, m : /\ F = c.free_page_ids /\ S = c.seq_map /\ B = c.free_block_idx \ {a} /\ D = SeqIds(c)
                        /\ m = [free_page_ids |-> F, free_block_idx |-> B, pool |-> Q, seq_map |-> S, kv |-> kv]
  OBVIOUS
<1>7. IsCache(m, F, B, Q, S, kv)
  BY <1>6, Zenon DEF IsCache
<1>8. \A x \in B : x \in Block /\ x \notin {u, a} /\ Q[x] = EmptyBlock
  BY <1>1, <1>3, <1>6, CacheFields DEF Used
<1>9. /\ Typed(m) /\ SeqIds(m) = SeqIds(c) /\ Used(m) = Used(c) \cup {a}
      /\ m.free_page_ids = F /\ m.free_block_idx = B /\ m.pool = Q /\ m.seq_map = S /\ m.kv = kv
  <2>1. Parts(F, B, Q, D, S)
    <3>1. F \subseteq Page /\ D \subseteq SeqId \cup {TempSeq} /\ S \in [D -> SequenceType]
      BY <1>1, <1>6, CacheFields
    <3>2. B \subseteq Block
      BY <1>8
    <3> QED BY <1>3, <1>8, <3>1, <3>2, Zenon DEF Parts
  <2>2. /\ Typed(m) /\ SeqIds(m) = D /\ Used(m) = Block \ B
        /\ m.free_page_ids = F /\ m.free_block_idx = B /\ m.pool = Q /\ m.seq_map = S /\ m.kv = kv
    BY <1>7, <2>1, TypedCache
  <2>3. Block \ B = Used(c) \cup {a}
    BY <1>1, <1>6 DEF Used
  <2> QED BY <1>6, <2>2, <2>3, Zenon
<1>10. \A x \in Used(c) \ {u} : m.pool[x] = c.pool[x]
  BY <1>1, <1>3, <1>9
<1>11. Structured(m)
  <2>1. \A x \in Used(c) \ {u} : Same(c, m, x)
    BY <1>10 DEF Same
  <2>2. m.free_page_ids = c.free_page_ids
    BY <1>6, <1>9
  <2>3. /\ m.pool[a].page_ids = SubSeq(c.pool[u].page_ids, 1, k)
        /\ m.pool[a].start_pos = c.pool[u].start_pos
        /\ m.pool[a].seq_length = page_size * k
        /\ m.pool[a].parent_idx = c.pool[u].parent_idx
        /\ m.pool[u].page_ids = SubSeq(c.pool[u].page_ids, k + 1, Len(c.pool[u].page_ids))
        /\ m.pool[u].start_pos = c.pool[u].start_pos + page_size * k
        /\ m.pool[u].seq_length = c.pool[u].seq_length - page_size * k
        /\ m.pool[u].parent_idx = a
    BY <1>2, <1>4, <1>9, Zenon
  <2>4. a \in Block \ Used(c)
    BY <1>1
  <2>5. Typed(m) /\ Used(m) = Used(c) \cup {a}
    BY <1>9
  <2> QED BY <2>1, <2>2, <2>3, <2>4, <2>5, SplitStructure, Zenon
<1>12. SplitChildren(c, m, u, a)
  <2>1. a \in Block \ Used(c) /\ Typed(c) /\ Chained(c)
    BY <1>1
  <2>2. m.pool = Q /\ Used(m) = Used(c) \cup {a}
    BY <1>9
  <2> QED BY <2>1, <2>2, ChildrenSplit, Zenon
<1>13. \A y : Owners(m, y) = Owners(c, y)
  BY <1>6, <1>9 DEF Owners
<1>14. Ended(m)
  <2>1. ASSUME NEW x \in SeqIds(m) PROVE Ends(m, x)
    <3>1. PICK y : y = c.seq_map[x].last_block_idx
      OBVIOUS
    <3>2. y \in Used(c) /\ c.seq_map[x].seq_length = c.pool[y].start_pos + c.pool[y].seq_length
      BY <1>9, <2>1, <3>1 DEF Ended, Ends, LastBlock
    <3>3. m.seq_map[x] = c.seq_map[x] /\ LastBlock(m, x) = m.pool[y] /\ y \in Used(m)
      BY <1>6, <1>9, <3>1, <3>2 DEF LastBlock
    <3>4. m.pool[y].start_pos + m.pool[y].seq_length = c.pool[y].start_pos + c.pool[y].seq_length
      <4>1. CASE y = u
        <5>1. (e.start_pos + m0) + (e.seq_length - m0) = e.start_pos + e.seq_length
          BY <1>5
        <5> QED BY <1>2, <1>4, <1>9, <4>1, <5>1, Zenon
      <4>2. CASE y # u
        BY <1>10, <3>2, <4>2
      <4> QED BY <4>1, <4>2
    <3> QED BY <3>1, <3>2, <3>3, <3>4 DEF Ends
  <2> QED BY <2>1 DEF Ended
<1>15. Private(m, X)
  <2>1. ASSUME NEW x \in SeqIds(m) \ X PROVE Alone(m, x)
    <3>1. PICK y : y = c.seq_map[x].last_block_idx
      OBVIOUS
    <3>2. Children(c, y) = {} /\ Owners(c, y) = {x} /\ y \in Used(c)
      BY <1>9, <2>1, <3>1 DEF Private, Alone, Ended, Ends
    <3>3. y # c.pool[u].parent_idx
      BY <3>2 DEF Children
    <3>4. Children(m, y) = {}
      BY <1>12, <3>2, <3>3, Zenon DEF SplitChildren
    <3>5. m.seq_map[x].last_block_idx = y
      BY <1>6, <1>9, <3>1
    <3> QED BY <1>13, <3>2, <3>4, <3>5 DEF Alone
  <2> QED BY <2>1 DEF Private
<1>16. Opened(m, d, b, a)
  <2>1. d.pool = Q /\ d.kv = kv
    BY DEF IsCache
  <2>2. b \in m.free_block_idx
    BY <1>6, <1>9
  <2>3. m.free_block_idx \ {b} = C
    BY <1>6, <1>9
  <2>4. IsCache(d, m.free_page_ids, m.free_block_idx \ {b}, d.pool, m.seq_map, m.kv)
    BY <1>6, <1>9, <2>1, <2>3, Zenon
  <2>5. \A x \in m.free_block_idx \ {b} : d.pool[x] = EmptyBlock
    BY <1>8, <1>9, <2>1
  <2>6. \A x \in Used(m) : Same(m, d, x)
    BY <1>9, <2>1, Zenon DEF Same
  <2>7. ASSUME NEW x \in Used(m)
        PROVE  /\ d.pool[x].external_ref_cnt =
                    Cardinality(Children(m, x)) + Cardinality(Owners(m, x)) + (IF x = a THEN 1 ELSE 0)
               /\ d.pool[x].external_ref_cnt > 0
    <3>1. CASE x = a
      <4>1. Children(m, x) = {u} /\ Owners(m, x) = {}
        BY <1>1, <1>12, <1>13, <3>1, Unowned DEF SplitChildren
      <4>2. Cardinality({u}) = 1 /\ Cardinality({}) = 0
        BY FS_Singleton, FS_EmptySet
      <4>3. d.pool[x].external_ref_cnt = 2
        BY <1>4, <2>1, <3>1
      <4> QED BY <3>1, <4>1, <4>2, <4>3
    <3>2. CASE x # a
      <4>1. x \in Used(c)
        BY <1>9, <2>7, <3>2
      <4>2. Cardinality(Children(m, x)) = Cardinality(Children(c, x)) /\ Owners(m, x) = Owners(c, x)
        BY <1>12, <1>13, <4>1, Zenon DEF SplitChildren
      <4>3. d.pool[x].external_ref_cnt = c.pool[x].external_ref_cnt
        <5>1. CASE x = u
          BY <1>2, <1>4, <2>1, <5>1
        <5>2. CASE x # u
          BY <1>9, <1>10, <2>1, <4>1, <5>2
        <5> QED BY <5>1, <5>2
      <4>4. Counts(c, x)
        BY <4>1 DEF Counted
      <4>5. Cardinality(Children(c, x)) \in Nat /\ Cardinality(Owners(c, x)) \in Nat
        BY <1>1, UsedBlocks, OwnersFinite
      <4> QED BY <3>2, <4>2, <4>3, <4>4, <4>5 DEF Counts
    <3> QED BY <3>1, <3>2
  <2>8. d.pool \in [Block -> BlockType]
    BY <1>3, <2>1
  <2> QED BY <2>2, <2>4, <2>5, <2>6, <2>7, <2>8, Zenon DEF Opened
<1>17. NotLast(m, SeqIds(m) \ X, a)
  <2>1. \A x \in SeqIds(m) : m.seq_map[x].last_block_idx # a
    <3>1. \A x \in SeqIds(c) : c.seq_map[x].last_block_idx \in Used(c)
      BY DEF Ended, Ends
    <3>2. m.seq_map = c.seq_map /\ SeqIds(m) = SeqIds(c)
      BY <1>6, <1>9, Zenon
    <3> QED BY <1>1, <3>1, <3>2
  <2> QED BY <2>1 DEF NotLast
<1>18. Place(m, a, c.pool[u].start_pos + page_size * k)
  <2>1. Hangs(m, u)
    BY <1>9, <1>11 DEF Structured, Chained
  <2>2. m.pool[u].parent_idx = a /\ m.pool[u].start_pos = c.pool[u].start_pos + page_size * k
    BY <1>2, <1>4, <1>9, Zenon
  <2>3. m.pool[u].start_pos \in Nat
    BY <1>2, <1>5, <2>2
  <2> QED BY <1>1, <2>1, <2>2, <2>3, Zenon DEF Hangs, Place
<1>19. ForkPoint(d, u) = a
  <2>1. d.pool = Q
    BY DEF IsCache
  <2> QED BY <1>4, <2>1, Zenon DEF ForkPoint
<1>20. m.seq_map = c.seq_map /\ m.free_page_ids = c.free_page_ids /\ SeqIds(m) = SeqIds(c)
  BY <1>6, <1>9, Zenon
<1>21. Used(m) = Used(c) \cup {a} /\ IsSplit(c, m.pool, u, a, k) /\ m.kv = c.kv
  BY <1>9, Zenon
<1>22. SplitOff(c, m, d, b, u, a, k, X)
  BY <1>11, <1>14, <1>15, <1>16, <1>17, <1>18, <1>19, <1>20, <1>21, Zenon DEF SplitOff
<1> QED BY <1>22

(* The steps of Forked.                                                    *)
ForkSteps(r, s, pos, t, i, start, n, b, sp, f) ==
  /\ b = GetFreeBlock(r) /\ t = Trace(r, s)
  /\ i = CHOOSE j \in DOMAIN t : /\ TokensIn(r, SubSeq(t, 1, j - 1)) <= pos
                                 /\ j = Len(t) \/ pos < TokensIn(r, SubSeq(t, 1, (j + 1) - 1))
  /\ start = TokensIn(r, SubSeq(t, 1, i - 1)) /\ n = pos - start
  /\ sp = IF n \div page_size = 0 THEN SharedFrom(WithoutBlock(r, b), t[i])
          ELSE SplitBlock(WithoutBlock(r, b), s, t[i], n \div page_size)
  /\ f = FilledBlock(LinkedBlock(sp, b, ChildStart(pos, n % page_size), n % page_size, ForkPoint(sp, t[i])),
                     b, sp.pool[t[i]].page_ids[1], n % page_size)

ForkEnd(d, child, b, f) == d = WithSequence(f, child, NewSequence(b, TokensIn(f, GetBlockTrace(f, b))))

(* The steps of ForkSequence.                                              *)
LEMMA ForkedIs ==
  ASSUME NEW c, NEW s, NEW child, NEW pos, NEW r, r = ReadyToFork(c, s, pos)
  PROVE  \E t, i, start, n, b, sp, f :
           ForkSteps(r, s, pos, t, i, start, n, b, sp, f) /\ ForkEnd(Forked(c, s, child, pos), child, b, f)
<1> DEFINE ready == ReadyToFork(c, s, pos)
           b == GetFreeBlock(ready)
           t == Trace(ready, s)
           before(j) == TokensIn(ready, SubSeq(t, 1, j - 1))
           i == CHOOSE i \in DOMAIN t : /\ before(i) <= pos
                                        /\ i = Len(t) \/ pos < before(i + 1)
           inPage == (pos - before(i)) % page_size
           pages == (pos - before(i)) \div page_size
           reserved == [ready EXCEPT !.free_block_idx = ready.free_block_idx \ {b}]
           sp == IF pages = 0 THEN SharedFrom(reserved, t[i]) ELSE SplitBlock(reserved, s, t[i], pages)
           linked == WithBlock(sp, b, [EmptyBlock EXCEPT !.start_pos = ChildStart(pos, inPage), !.seq_length = inPage,
                                                         !.parent_idx = ForkPoint(sp, t[i]), !.external_ref_cnt = 1])
           f == IF inPage = 0 THEN linked ELSE CopiedPage(linked, b, sp.pool[t[i]].page_ids[1], inPage)
           d == [f EXCEPT !.seq_map = Put(f.seq_map, child, NewSequence(b, TokensIn(f, GetBlockTrace(f, b))))]
           start == before(i)
           n == pos - start
<1>1. Forked(c, s, child, pos) = d
  BY Zenon DEF Forked
<1>2. d = WithSequence(f, child, NewSequence(b, TokensIn(f, GetBlockTrace(f, b))))
  <2> HIDE DEF f, b
  <2> QED BY Zenon DEF WithSequence
<1>3. f = FilledBlock(LinkedBlock(sp, b, ChildStart(pos, inPage), inPage, ForkPoint(sp, t[i])),
                      b, sp.pool[t[i]].page_ids[1], inPage)
  <2> HIDE DEF sp, b, t, i, inPage
  <2> QED BY Zenon DEF FilledBlock, LinkedBlock
<1>4. sp = IF pages = 0 THEN SharedFrom(WithoutBlock(ready, b), t[i])
           ELSE SplitBlock(WithoutBlock(ready, b), s, t[i], pages)
  <2> HIDE DEF b, t, i, pages, ready
  <2> QED BY Zenon DEF WithoutBlock
<1>5. inPage = n % page_size /\ pages = n \div page_size /\ n = pos - start
  <2> HIDE DEF before, i
  <2> QED BY Zenon
<1>6. start = TokensIn(ready, SubSeq(t, 1, i - 1))
  <2> HIDE DEF t, i, ready
  <2> QED BY Zenon
<1>7. i = CHOOSE j \in DOMAIN t : /\ TokensIn(ready, SubSeq(t, 1, j - 1)) <= pos
                                  /\ j = Len(t) \/ pos < TokensIn(ready, SubSeq(t, 1, (j + 1) - 1))
  <2> HIDE DEF t, ready
  <2> QED BY Zenon
<1>8. b = GetFreeBlock(ready) /\ t = Trace(ready, s)
  <2> HIDE DEF ready
  <2> QED BY Zenon
<1>9. r = ready
  BY Zenon
<1> HIDE DEF ready, b, t, before, i, inPage, pages, reserved, sp, linked, f, d, start, n
<1>10. ForkSteps(ready, s, pos, t, i, start, n, b, sp, f)
  <2>1. n \div page_size = pages /\ n % page_size = inPage
    BY <1>5, Zenon
  <2>2. sp = IF n \div page_size = 0 THEN SharedFrom(WithoutBlock(ready, b), t[i])
             ELSE SplitBlock(WithoutBlock(ready, b), s, t[i], n \div page_size)
    BY <1>4, <2>1, Zenon
  <2>3. f = FilledBlock(LinkedBlock(sp, b, ChildStart(pos, n % page_size), n % page_size, ForkPoint(sp, t[i])),
                        b, sp.pool[t[i]].page_ids[1], n % page_size)
    BY <1>3, <2>1, Zenon
  <2>4. n = pos - start
    BY <1>5, Zenon
  <2> QED BY <1>6, <1>7, <1>8, <2>2, <2>3, <2>4, Zenon DEF ForkSteps
<1>11. ForkEnd(Forked(c, s, child, pos), child, b, f)
  BY <1>1, <1>2, Zenon DEF ForkEnd
<1> QED BY <1>9, <1>10, <1>11, Zenon

(* A fork at the end of an empty last block lies in that block.            *)
LEMMA ForkedAtEnd ==
  ASSUME NEW c, Typed(c), Chained(c), Ended(c), NEW s \in SeqIds(c), NEW t, t = Trace(c, s),
         NEW i, NEW start, NEW pos, LiesIn(c, t, i, start, pos),
         pos = c.seq_map[s].seq_length, LastBlock(c, s).seq_length = 0
  PROVE  c.pool[t[i]].seq_length = 0
<1>1. PICK b, l : b = c.seq_map[s].last_block_idx /\ l = Len(t)
  OBVIOUS
<1>2. b \in Used(c) /\ t = GetBlockTrace(c, b) /\ c.pool[b].seq_length = 0 /\ pos = c.pool[b].start_pos + 0
  BY <1>1 DEF Ended, Ends, LastBlock, Trace
<1>3. Starts(c, t) /\ t[l] = b
  BY <1>1, <1>2, TraceStarts
<1>4. /\ l \in Nat /\ l > 0 /\ i \in 1..l /\ l \in 1..l
      /\ c.pool[b].start_pos \in Nat /\ c.pool[t[i]].start_pos \in Nat /\ c.pool[t[i]].seq_length \in Nat
      /\ (i = l \/ pos < c.pool[t[i]].start_pos + c.pool[t[i]].seq_length)
  BY <1>1, <1>3 DEF Starts, LiesIn
<1>5. ASSUME i # l PROVE FALSE
  <2>1. i < l /\ i \in 1..Len(t) /\ l \in 1..Len(t)
    BY <1>1, <1>4, <1>5
  <2>2. c.pool[t[i]].start_pos + c.pool[t[i]].seq_length <= c.pool[t[l]].start_pos
    BY <1>2, <2>1, TraceOrder
  <2>3. pos < c.pool[t[i]].start_pos + c.pool[t[i]].seq_length
    BY <1>4, <1>5
  <2> QED BY <1>2, <1>3, <1>4, <2>2, <2>3
<1> QED BY <1>2, <1>3, <1>5

(* What a fork makes of a cache.                                           *)
HasForked(c, d, s, child, pos, X) ==
  /\ Whole(d, X)
  /\ SeqIds(d) = SeqIds(c) \cup {child}
  /\ d.seq_map[child].seq_length = pos
  /\ \A x \in SeqIds(c) \ {s} : d.seq_map[x] = c.seq_map[x]

(* How it gets there: s is continued first, if it is forked at its end     *)
(* (r); block u of its chain, which the fork lies in, is split, if that is *)
(* behind its first page (m); the child's block b is next to u.            *)
SplitUp(r, m, u) ==
  \E a \in Block \ Used(r), k \in Nat :
    /\ k > 0 /\ page_size * k < r.pool[u].seq_length
    /\ Used(m) = Used(r) \cup {a} /\ IsSplit(r, m.pool, u, a, k) /\ m.kv = r.kv
ForkStages(r, m, d, s, child, u, b, l) ==
  /\ Structured(m)
  /\ u \in Elements(Trace(r, s))
  /\ m = r \/ SplitUp(r, m, u)
  /\ \A x \in SeqIds(r) : d.seq_map[x] = r.seq_map[x]
  /\ l <= m.pool[u].seq_length
  /\ Sprouted(m, d, child, b, m.pool[u].start_pos, l, m.pool[u].parent_idx, m.pool[u].page_ids[1])
ForkShape(c, d, s, child, pos, X) ==
  \E r, m, u, b : \E l \in 0..(page_size - 1) :
    Forkable(c, r, s, pos, X) /\ ForkStages(r, m, d, s, child, u, b, l)

(* ForkSequence keeps the structure, page-aligned or with a copied page,   *)
(* inside a block, at its start or at the end.                             *)
LEMMA ForkedWhole ==
  ASSUME NEW c, NEW s \in SeqIds(c), NEW X, X \subseteq {s}, Whole(c, X), Room(c),
         NEW child \in SeqId \cup {TempSeq}, child \notin SeqIds(c),
         NEW pos \in Nat, pos <= c.seq_map[s].seq_length, ForkFits(ReadyToFork(c, s, pos), pos)
  PROVE  /\ HasForked(c, Forked(c, s, child, pos), s, child, pos, X)
         /\ ForkShape(c, Forked(c, s, child, pos), s, child, pos, X)
<1>1. PICK r : r = ReadyToFork(c, s, pos)
  OBVIOUS
<1>2. Forkable(c, r, s, pos, X)
  BY <1>1, ReadyWhole
<1>3. /\ Whole(r, X) /\ SeqIds(r) = SeqIds(c) /\ r.seq_map[s].seq_length = c.seq_map[s].seq_length
      /\ \A x \in SeqIds(c) \ {s} : r.seq_map[x] = c.seq_map[x]
  BY <1>2, Zenon DEF Forkable
<1>4. Structured(r) /\ Typed(r) /\ Chained(r) /\ Counted(r) /\ Ended(r) /\ Private(r, X)
  BY <1>3, WholeParts
<1>5. PICK t, i, start, n, b, sp, f :
        ForkSteps(r, s, pos, t, i, start, n, b, sp, f) /\ ForkEnd(Forked(c, s, child, pos), child, b, f)
  BY <1>1, ForkedIs, Zenon
<1>6. PICK u, k, l, d : u = t[i] /\ k = n \div page_size /\ l = n % page_size /\ d = Forked(c, s, child, pos)
  OBVIOUS
<1>7. /\ b = GetFreeBlock(r) /\ t = Trace(r, s)
      /\ i = CHOOSE j \in DOMAIN t : /\ TokensIn(r, SubSeq(t, 1, j - 1)) <= pos
                                     /\ j = Len(t) \/ pos < TokensIn(r, SubSeq(t, 1, (j + 1) - 1))
      /\ start = TokensIn(r, SubSeq(t, 1, i - 1)) /\ n = pos - start
      /\ sp = IF k = 0 THEN SharedFrom(WithoutBlock(r, b), u) ELSE SplitBlock(WithoutBlock(r, b), s, u, k)
      /\ f = FilledBlock(LinkedBlock(sp, b, ChildStart(pos, l), l, ForkPoint(sp, u)),
                         b, sp.pool[u].page_ids[1], l)
  <2>1. /\ sp = IF n \div page_size = 0 THEN SharedFrom(WithoutBlock(r, b), t[i])
                ELSE SplitBlock(WithoutBlock(r, b), s, t[i], n \div page_size)
        /\ f = FilledBlock(LinkedBlock(sp, b, ChildStart(pos, n % page_size), n % page_size, ForkPoint(sp, t[i])),
                           b, sp.pool[t[i]].page_ids[1], n % page_size)
    BY <1>5, Zenon DEF ForkSteps
  <2>2. /\ b = GetFreeBlock(r) /\ t = Trace(r, s)
        /\ start = TokensIn(r, SubSeq(t, 1, i - 1)) /\ n = pos - start
    BY <1>5, Zenon DEF ForkSteps
  <2>3. i = CHOOSE j \in DOMAIN t : /\ TokensIn(r, SubSeq(t, 1, j - 1)) <= pos
                                    /\ j = Len(t) \/ pos < TokensIn(r, SubSeq(t, 1, (j + 1) - 1))
    BY <1>5, Zenon DEF ForkSteps
  <2>4. sp = IF k = 0 THEN SharedFrom(WithoutBlock(r, b), u) ELSE SplitBlock(WithoutBlock(r, b), s, u, k)
    BY <1>6, <2>1, Zenon
  <2>5. f = FilledBlock(LinkedBlock(sp, b, ChildStart(pos, l), l, ForkPoint(sp, u)), b, sp.pool[u].page_ids[1], l)
    BY <1>6, <2>1, Zenon
  <2> QED BY <2>2, <2>3, <2>4, <2>5, Zenon
<1>8. LiesIn(r, t, i, start, pos) /\ DOMAIN t = 1..Len(t)
  <2>1. Starts(r, t)
    <3>1. PICK y : y = r.seq_map[s].last_block_idx
      OBVIOUS
    <3>2. y \in Used(r) /\ t = GetBlockTrace(r, y)
      BY <1>3, <1>4, <1>7, <3>1 DEF Ended, Ends, Trace
    <3> QED BY <1>4, <3>2, TraceStarts
  <2>2. start = TokensIn(r, SubSeq(t, 1, i - 1))
    BY <1>7, Zenon
  <2>3. i = CHOOSE j \in DOMAIN t : /\ TokensIn(r, SubSeq(t, 1, j - 1)) <= pos
                                    /\ j = Len(t) \/ pos < TokensIn(r, SubSeq(t, 1, (j + 1) - 1))
    BY <1>7, Zenon
  <2>4. LiesIn(r, t, i, TokensIn(r, SubSeq(t, 1, i - 1)), pos)
    BY <2>1, <2>3, Located, Zenon
  <2>5. DOMAIN t = 1..Len(t)
    BY <2>1, Zenon DEF Starts
  <2> QED BY <2>2, <2>4, <2>5, Zenon
<1>9. ForkedAt(r, u, start, k, l, pos)
  <2>1. PICK end : end = (pos % page_size = 0)
    OBVIOUS
  <2>2. pos = r.seq_map[s].seq_length /\ end => LastBlock(r, s).seq_length = 0
    BY <1>2, <2>1, Zenon DEF Forkable
  <2>3. pos <= r.seq_map[s].seq_length /\ s \in SeqIds(r)
    BY <1>3, Zenon
  <2>4. t = Trace(r, s) /\ n = pos - start
    BY <1>7, Zenon
  <2>5. ForkedAt(r, t[i], start, n \div page_size, n % page_size, pos)
    BY <1>3, <1>8, <2>1, <2>2, <2>3, <2>4, ForkedIn, Zenon
  <2> QED BY <1>6, <2>5, Zenon
<1>10. /\ u \in Used(r) /\ start = r.pool[u].start_pos /\ k \in Nat /\ l \in 0..(page_size - 1)
       /\ pos = start + page_size * k + l
       /\ k > 0 => page_size * k < r.pool[u].seq_length
       /\ pos % page_size = 0 => l = 0
  BY <1>9, Zenon DEF ForkedAt
<1>11. u \in Block /\ start \in Nat /\ l \in Nat /\ page_size * k \in Nat
  <2>1. u \in Block /\ start \in Nat
    BY <1>4, <1>10, UsedBlocks, BlockFields
  <2>2. l \in Nat /\ page_size * k \in Nat
    BY <1>10, SizeAssumption
  <2> QED BY <2>1, <2>2
<1>12. l = 0 \/ r.free_page_ids # {}
  BY <1>1, <1>10, Zenon DEF ForkFits
<1>13. b \in r.free_block_idx
  BY <1>2, <1>7, Zenon DEF Forkable
<1>14. ChildStart(pos, l) = start + page_size * k
  <2>1. PICK m : m = page_size * k
    OBVIOUS
  <2>2. pos = start + m + l /\ m \in Nat
    BY <1>10, <1>11, <2>1
  <2>3. pos - l = start + m
    BY <1>11, <2>2
  <2> QED BY <2>1, <2>3, Zenon DEF ChildStart
<1>15. X \subseteq SeqIds(r) /\ child \notin SeqIds(r)
  BY <1>3
<1>16. PICK st, source : st = ChildStart(pos, l) /\ source = sp.pool[u].page_ids[1]
  OBVIOUS
<1>17. ASSUME NEW m, NEW v, Structured(m), Ended(m), Private(m, X), SeqIds(m) = SeqIds(r), m.seq_map = r.seq_map,
              m.free_page_ids = r.free_page_ids, Opened(m, sp, b, v), NotLast(m, SeqIds(m) \ X, v),
              Place(m, v, st), ForkPoint(sp, u) = v,
              m = r \/ SplitUp(r, m, u), v = m.pool[u].parent_idx, st = m.pool[u].start_pos,
              l <= m.pool[u].seq_length, u \in Used(m)
       PROVE  HasForked(c, d, s, child, pos, X) /\ ForkShape(c, d, s, child, pos, X)
  <2>1. f = FilledBlock(LinkedBlock(sp, b, st, l, v), b, source, l)
    BY <1>7, <1>16, <1>17, Zenon
  <2>2. d = WithSequence(f, child, NewSequence(b, TokensIn(f, GetBlockTrace(f, b))))
    BY <1>5, <1>6, Zenon DEF ForkEnd
  <2>3. X \subseteq SeqIds(m) /\ child \notin SeqIds(m) /\ (l = 0 \/ m.free_page_ids # {})
    BY <1>12, <1>15, <1>17, Zenon
  <2>4. l \in 0..(page_size - 1)
    BY <1>10
  <2>5. Structured(m) /\ Ended(m) /\ Private(m, X) /\ Opened(m, sp, b, v) /\ NotLast(m, SeqIds(m) \ X, v) /\ Place(m, v, st)
    BY <1>17, Zenon
  <2>6. Whole(d, X) /\ Branched(m, d, child, st + l) /\ Sprouted(m, d, child, b, st, l, v, source)
    BY <2>1, <2>2, <2>3, <2>4, <2>5, BranchedWhole, Zenon
  <2>7. st + l = pos
    <3>1. PICK q : q = page_size * k
      OBVIOUS
    <3>2. pos = start + q + l /\ st = start + q /\ q \in Nat
      BY <1>10, <1>11, <1>14, <1>16, <3>1, Zenon
    <3> QED BY <1>11, <3>2
  <2>8. SeqIds(d) = SeqIds(c) \cup {child} /\ d.seq_map[child].seq_length = pos
    BY <1>3, <1>17, <2>6, <2>7, Zenon DEF Branched
  <2>9. \A x \in SeqIds(c) \ {s} : d.seq_map[x] = c.seq_map[x]
    <3>1. ASSUME NEW x \in SeqIds(c) \ {s} PROVE d.seq_map[x] = c.seq_map[x]
      <4>1. x \in SeqIds(m)
        BY <1>3, <1>17, <3>1
      <4>2. d.seq_map[x] = m.seq_map[x]
        BY <2>6, <4>1, Zenon DEF Branched
      <4> QED BY <1>3, <1>17, <3>1, <4>2, Zenon
    <3> QED BY <3>1
  <2>10. HasForked(c, d, s, child, pos, X)
    BY <2>6, <2>8, <2>9, Zenon DEF HasForked
  <2>11. source = m.pool[u].page_ids[1]
    <3>1. Same(m, sp, u)
      BY <1>17, Zenon DEF Opened
    <3> QED BY <1>16, <3>1, Zenon DEF Same
  <2>12. \A x \in SeqIds(r) : d.seq_map[x] = r.seq_map[x]
    BY <1>17, <2>6, Zenon DEF Branched
  <2>13. u \in Elements(Trace(r, s))
    BY <1>6, <1>7, <1>8 DEF LiesIn, Elements
  <2>14. ForkStages(r, m, d, s, child, u, b, l)
    BY <1>17, <2>6, <2>11, <2>12, <2>13, Zenon DEF ForkStages
  <2>15. ForkShape(c, d, s, child, pos, X)
    BY <1>2, <1>10, <2>14, Zenon DEF ForkShape
  <2> QED BY <2>10, <2>15
<1>20. page_size * k + l <= r.pool[u].seq_length
  <2>1. PICK len, q, e : len = r.pool[u].seq_length /\ q = page_size * k /\ e = r.seq_map[s].seq_length
    OBVIOUS
  <2>2. len \in Nat /\ q \in Nat /\ pos = start + q + l
    BY <1>4, <1>10, <1>11, <2>1, BlockFields
  <2>3. CASE pos < start + len
    BY <1>11, <2>1, <2>2, <2>3
  <2>4. CASE i = Len(t)
    <3>1. s \in SeqIds(r) /\ t = Trace(r, s)
      BY <1>3, <1>7, Zenon
    <3>2. PICK y : y = r.seq_map[s].last_block_idx
      OBVIOUS
    <3>3. y \in Used(r) /\ e = r.pool[y].start_pos + r.pool[y].seq_length /\ t = GetBlockTrace(r, y)
      BY <1>4, <2>1, <3>1, <3>2 DEF Ended, Ends, LastBlock, Trace
    <3>4. u = y
      BY <1>4, <1>6, <2>4, <3>3, TraceStarts
    <3>5. pos <= start + len
      BY <1>3, <1>10, <2>1, <3>3, <3>4
    <3> QED BY <1>11, <2>1, <2>2, <3>5
  <2> QED BY <1>6, <1>8, <2>1, <2>3, <2>4 DEF LiesIn
<1>18. CASE k = 0
  <2>1. PICK v : v = r.pool[u].parent_idx
    OBVIOUS
  <2>2. sp = SharedFrom(WithoutBlock(r, b), u)
    BY <1>7, <1>18, Zenon
  <2>3. Opened(r, sp, b, v) /\ ForkPoint(sp, u) = v
    <3>1. PICK e : e = SharedFrom(WithoutBlock(r, b), u)
      OBVIOUS
    <3>2. Structured(r) /\ Counted(r) /\ b \in r.free_block_idx /\ u \in Used(r)
      BY <1>4, <1>10, <1>13, Zenon
    <3>3. Opened(r, e, b, v) /\ ForkPoint(e, u) = v
      BY <2>1, <3>1, <3>2, SharedOpened
    <3>4. sp = e
      BY <2>2, <3>1, Zenon
    <3> QED BY <3>3, <3>4, Zenon
  <2>4. NotLast(r, SeqIds(r) \ X, v) /\ Place(r, v, start)
    BY <1>4, <1>10, <2>1, ParentNotLast
  <2>5. st = start
    <3>1. page_size * 0 = 0
      BY SizeAssumption
    <3>2. start + 0 = start
      BY <1>11
    <3> QED BY <1>14, <1>16, <1>18, <3>1, <3>2, Zenon
  <2>6. Place(r, v, st)
    BY <2>4, <2>5, Zenon
  <2>7. l <= r.pool[u].seq_length
    <3>1. page_size * 0 + l = l
      BY <1>11, SizeAssumption
    <3> QED BY <1>18, <1>20, <3>1, Zenon
  <2>8. st = r.pool[u].start_pos
    BY <1>10, <2>5, Zenon
  <2>9. HasForked(c, d, s, child, pos, X) /\ ForkShape(c, d, s, child, pos, X)
    BY <1>4, <1>10, <1>17, <2>1, <2>3, <2>4, <2>6, <2>7, <2>8, Zenon
  <2> QED BY <1>6, <2>9, Zenon
<1>19. CASE k > 0
  <2>1. page_size * k < r.pool[u].seq_length
    BY <1>10, <1>19
  <2>2. \A y : r.free_block_idx \ {y} # {}
    <3>1. ASSUME pos = r.seq_map[s].seq_length /\ LastBlock(r, s).seq_length = 0 PROVE FALSE
      <4>1. s \in SeqIds(r) /\ t = Trace(r, s)
        BY <1>3, <1>7, Zenon
      <4>2. r.pool[u].seq_length = 0
        BY <1>4, <1>6, <1>8, <3>1, <4>1, ForkedAtEnd, Zenon
      <4> QED BY <1>11, <2>1, <4>2
    <3> QED BY <1>2, <3>1, Zenon DEF Forkable
  <2>3. PICK g, a : g = WithoutBlock(r, b) /\ a = GetFreeBlock(g)
    OBVIOUS
  <2>4. a \in r.free_block_idx \ {b}
    <3>1. PICK C : C = r.free_block_idx \ {b}
      OBVIOUS
    <3>2. C \subseteq Nat /\ C # {}
      BY <1>4, <2>2, <3>1, CacheFields, PoolAssumption
    <3>3. g.free_block_idx = C
      <4>1. PICK B : B = r.free_block_idx
        OBVIOUS
      <4>2. IsCache(r, r.free_page_ids, B, r.pool, r.seq_map, r.kv)
        BY <1>4, <4>1, CacheFields
      <4>3. IsCache(g, r.free_page_ids, B \ {b}, r.pool, r.seq_map, r.kv)
        BY <2>3, <4>2, WithoutBlockIs, Zenon
      <4> QED BY <3>1, <4>1, <4>3 DEF IsCache
    <3> QED BY <2>3, <3>1, <3>2, <3>3, MinIn DEF GetFreeBlock
  <2>5. a \in r.free_block_idx /\ a # b
    BY <2>4
  <2>6. k <= Len(r.pool[u].page_ids) /\ page_size * k <= r.pool[u].seq_length
    <3>1. PICK len : len = r.pool[u].seq_length
      OBVIOUS
    <3>2. len \in Nat /\ page_size * k < len
      BY <1>4, <1>11, <2>1, <3>1, BlockFields
    <3>3. k < PagesFor(len) /\ PagesFor(len) \in Nat
      BY <1>10, <3>2, PagesForRest, PagesForFacts
    <3>4. Len(r.pool[u].page_ids) = PagesFor(len)
      BY <1>4, <1>10, <3>1 DEF Structured, Paged, HasPages
    <3> QED BY <1>10, <1>11, <3>1, <3>2, <3>3, <3>4
  <2>7. PICK C : C = (r.free_block_idx \ {b}) \ {a}
    OBVIOUS
  <2>8. PICK Q : IsSplit(r, Q, u, a, k) /\ IsCache(sp, r.free_page_ids, C, Q, r.seq_map, r.kv)
    <3>1. sp = SplitBlock(WithoutBlock(r, b), s, u, k)
      BY <1>7, <1>10, <1>19
    <3>2. s \in SeqIds(r) /\ a = GetFreeBlock(WithoutBlock(r, b))
      BY <1>3, <2>3, Zenon
    <3>3. \E Q : /\ IsSplit(r, Q, u, a, k)
                 /\ IsCache(SplitBlock(WithoutBlock(r, b), s, u, k), r.free_page_ids,
                            (r.free_block_idx \ {b}) \ {a}, Q, r.seq_map, r.kv)
      BY <1>4, <1>10, <1>13, <2>4, <2>6, <3>2, SplitMade, Zenon
    <3> QED BY <2>7, <3>1, <3>3, Zenon
  <2>9. PICK m : SplitOff(r, m, sp, b, u, a, k, X)
    <3>1. k \in Nat /\ k > 0
      BY <1>10, <1>19
    <3> QED BY <1>4, <1>10, <1>13, <2>1, <2>5, <2>7, <2>8, <3>1, SplitOpened, Zenon
  <2>10. Place(m, a, st)
    BY <1>10, <1>14, <1>16, <2>9, Zenon DEF SplitOff
  <2>11. PICK p, len, q : p = SubSeq(r.pool[u].page_ids, k + 1, Len(r.pool[u].page_ids))
                         /\ len = r.pool[u].seq_length /\ q = page_size * k
    OBVIOUS
  <2>12. HasMembers(m.pool[u], p, start + q, len - q, a, r.pool[u].external_ref_cnt)
    BY <1>10, <2>9, <2>11, Zenon DEF SplitOff, IsSplit
  <2>13. m.pool[u].parent_idx = a /\ m.pool[u].start_pos = st /\ m.pool[u].seq_length = len - q
    BY <1>14, <1>16, <2>11, <2>12, Zenon DEF HasMembers
  <2>14. l <= m.pool[u].seq_length
    <3>1. len \in Nat /\ q \in Nat /\ q + l <= len
      BY <1>4, <1>10, <1>11, <1>20, <2>11, BlockFields
    <3> QED BY <1>11, <2>13, <3>1
  <2>15. a \in Block \ Used(r)
    BY <1>4, <2>5, CacheFields DEF Used
  <2>16. SplitUp(r, m, u) /\ u \in Used(m)
    <3>1. /\ Used(m) = Used(r) \cup {a} /\ IsSplit(r, m.pool, u, a, k) /\ m.kv = r.kv
      BY <2>9, Zenon DEF SplitOff
    <3>2. k \in Nat /\ k > 0
      BY <1>10, <1>19
    <3>3. SplitUp(r, m, u)
      BY <2>1, <2>15, <3>1, <3>2, Zenon DEF SplitUp
    <3>4. u \in Used(m)
      BY <1>10, <3>1
    <3> QED BY <3>3, <3>4
  <2>17. /\ Structured(m) /\ Ended(m) /\ Private(m, X) /\ SeqIds(m) = SeqIds(r) /\ m.seq_map = r.seq_map
         /\ m.free_page_ids = r.free_page_ids /\ Opened(m, sp, b, a) /\ NotLast(m, SeqIds(m) \ X, a)
         /\ ForkPoint(sp, u) = a
    BY <2>9, Zenon DEF SplitOff
  <2>18. HasForked(c, d, s, child, pos, X) /\ ForkShape(c, d, s, child, pos, X)
    BY <1>17, <2>10, <2>13, <2>14, <2>16, <2>17, Zenon
  <2> QED BY <1>6, <2>18, Zenon
<1> QED BY <1>10, <1>18, <1>19

-----------------------------------------------------------------------------
(* PopN.                                                                   *)

(* What is behind the start of a block of the chain.                       *)
LEMMA TailTokens ==
  ASSUME NEW c, Typed(c), Chained(c), Ended(c), NEW s \in SeqIds(c), NEW t, t = Trace(c, s)
  PROVE  /\ Starts(c, t) /\ t[Len(t)] = c.seq_map[s].last_block_idx /\ c.seq_map[s].seq_length \in Nat
         /\ \A i \in 1..Len(t) : TokensIn(c, SubSeq(t, i, Len(t))) = c.seq_map[s].seq_length - c.pool[t[i]].start_pos
<1>1. PICK b, l : b = c.seq_map[s].last_block_idx /\ l = Len(t)
  OBVIOUS
<1>2. b \in Used(c) /\ t = GetBlockTrace(c, b) /\ c.seq_map[s].seq_length = c.pool[b].start_pos + c.pool[b].seq_length
  BY <1>1 DEF Ended, Ends, LastBlock, Trace
<1>3. Starts(c, t) /\ t[l] = b
  BY <1>1, <1>2, TraceStarts
<1>4. c.pool[b].start_pos \in Nat /\ c.pool[b].seq_length \in Nat
  BY <1>2, UsedBlocks, BlockFields
<1>5. ASSUME NEW i \in 1..Len(t)
      PROVE  TokensIn(c, SubSeq(t, i, Len(t))) = c.seq_map[s].seq_length - c.pool[t[i]].start_pos
  <2>1. i \in 1..(Len(t) + 1) /\ Len(t) \in 0..Len(t) /\ i <= Len(t)
    BY <1>3 DEF Starts
  <2>2. TokensIn(c, SubSeq(t, i, Len(t))) = c.pool[t[Len(t)]].start_pos + c.pool[t[Len(t)]].seq_length - c.pool[t[i]].start_pos
    BY <1>2, <2>1, TokensBetween
  <2>3. t[Len(t)] = b
    BY <1>1, <1>3, Zenon
  <2>4. PICK x, y, z : x = c.pool[b].start_pos /\ y = c.pool[b].seq_length /\ z = c.pool[t[i]].start_pos
    OBVIOUS
  <2>5. TokensIn(c, SubSeq(t, i, Len(t))) = x + y - z /\ c.seq_map[s].seq_length = x + y
    BY <1>2, <2>2, <2>3, <2>4, Zenon
  <2>6. x \in Nat /\ y \in Nat /\ z \in Nat
    BY <1>3, <1>4, <2>4 DEF Starts
  <2>7. x + y - z = (x + y) - z
    BY <2>6
  <2> QED BY <2>4, <2>5, <2>7, Zenon
<1>6. t[Len(t)] = c.seq_map[s].last_block_idx
  BY <1>1, <1>3, Zenon
<1>7. c.seq_map[s].seq_length \in Nat
  BY <1>2, <1>4
<1> QED BY <1>3, <1>5, <1>6, <1>7, Zenon

(* The loop stops at position m of the chain.                              *)
StopsAt(c, s, n, t, m) ==
  /\ m \in 1..Len(t)
  /\ Behind(c, s, n) = SubSeq(t, m + 1, Len(t))
  /\ c.pool[t[m]].external_ref_cnt # 1 \/ n <= c.seq_map[s].seq_length - c.pool[t[m]].start_pos
  /\ \A i \in (m + 1)..Len(t) : c.pool[t[i]].external_ref_cnt = 1
                                /\ c.seq_map[s].seq_length - c.pool[t[i]].start_pos < n

(* PopN stops in the block the new end lies in.                            *)
LEMMA StopFound ==
  ASSUME NEW c, Typed(c), Chained(c), Ended(c), NEW s \in SeqIds(c), NEW t, t = Trace(c, s),
         NEW n \in Nat, n <= c.seq_map[s].seq_length
  PROVE  /\ \E m : StopsAt(c, s, n, t, m)
         /\ n <= LastBlock(c, s).seq_length => StopsAt(c, s, n, t, Len(t))
<1> DEFINE tt == Trace(c, s)
           stop(i) == \/ c.pool[tt[i]].external_ref_cnt # 1
                      \/ n <= TokensIn(c, SubSeq(tt, i, Len(tt)))
<1>1. Behind(c, s, n) = SubSeq(tt, Max({i \in DOMAIN tt : stop(i)}) + 1, Len(tt))
  BY Zenon DEF Behind
<1>2. PICK M, m, l : M = {i \in DOMAIN t : stop(i)} /\ m = Max(M) /\ l = Len(t)
  OBVIOUS
<1>3. Behind(c, s, n) = SubSeq(t, m + 1, Len(t))
  BY <1>1, <1>2
<1>4. /\ l \in Nat /\ l > 0 /\ DOMAIN t = 1..l /\ c.pool[t[1]].start_pos = 0 /\ c.seq_map[s].seq_length \in Nat
      /\ \A i \in 1..l : /\ TokensIn(c, SubSeq(t, i, Len(t))) = c.seq_map[s].seq_length - c.pool[t[i]].start_pos
                         /\ c.pool[t[i]].start_pos \in Nat
  <2>1. /\ Starts(c, t) /\ c.seq_map[s].seq_length \in Nat
        /\ \A i \in 1..Len(t) : TokensIn(c, SubSeq(t, i, Len(t))) = c.seq_map[s].seq_length - c.pool[t[i]].start_pos
    BY TailTokens
  <2> QED BY <1>2, <2>1, Zenon DEF Starts
<1>5. /\ \A i \in 1..l : stop(i) <=> \/ c.pool[t[i]].external_ref_cnt # 1
                                     \/ n <= c.seq_map[s].seq_length - c.pool[t[i]].start_pos
  BY <1>4
<1> HIDE DEF stop, tt
<1>6. 1 \in M
  BY <1>2, <1>4, <1>5
<1>7. M \subseteq 1..l
  BY <1>2, <1>4
<1>8. m \in M /\ \A i \in M : i <= m
  <2>1. M \subseteq 0..l /\ M # {}
    BY <1>4, <1>6, <1>7
  <2> QED BY <1>2, <1>4, <2>1, MaxIn
<1>9. ASSUME NEW i \in (m + 1)..l
      PROVE  c.pool[t[i]].external_ref_cnt = 1 /\ c.seq_map[s].seq_length - c.pool[t[i]].start_pos < n
  <2>1. i \in 1..l /\ ~ (i <= m)
    BY <1>7, <1>8
  <2>2. ~ stop(i)
    BY <1>2, <1>4, <1>8, <2>1
  <2> QED BY <1>4, <1>5, <2>1, <2>2
<1>10. StopsAt(c, s, n, t, m)
  <2>1. m \in 1..l /\ stop(m)
    BY <1>2, <1>7, <1>8
  <2>2. c.pool[t[m]].external_ref_cnt # 1 \/ n <= c.seq_map[s].seq_length - c.pool[t[m]].start_pos
    BY <1>5, <2>1
  <2> QED BY <1>2, <1>3, <1>9, <2>1, <2>2, Zenon DEF StopsAt
<1>11. ASSUME n <= LastBlock(c, s).seq_length PROVE m = l
  <2>1. t[l] = c.seq_map[s].last_block_idx
    BY <1>2, TailTokens
  <2>2. c.seq_map[s].seq_length = c.pool[t[l]].start_pos + c.pool[t[l]].seq_length
    BY <2>1 DEF Ended, Ends, LastBlock
  <2>3. n <= c.pool[t[l]].seq_length /\ c.pool[t[l]].seq_length \in Nat
    <3>1. c.pool[t[l]].seq_length \in Nat
      BY <2>1, SequenceFields, BlockFields
    <3> QED BY <1>11, <2>1, <3>1 DEF LastBlock
  <2>4. l \in M
    BY <1>2, <1>4, <1>5, <2>2, <2>3
  <2>5. m \in 1..l /\ l <= m
    BY <1>7, <1>8, <2>4
  <2> QED BY <1>4, <2>5
<1> QED BY <1>2, <1>10, <1>11

(* d is c without the blocks D, the end of s, which now has n tokens and   *)
(* ends in block u.                                                        *)
CutBack(c, d, s, D, u, n) ==
  /\ Typed(d) /\ SeqIds(d) = SeqIds(c) /\ Used(d) = Used(c) \ D
  /\ d.seq_map[s].last_block_idx = u /\ d.seq_map[s].seq_length = n
  /\ \A x \in SeqIds(c) \ {s} : d.seq_map[x] = c.seq_map[x]
  /\ \A p : p \in d.free_page_ids <=> p \in c.free_page_ids \/ \E b \in D : p \in Pages(c, b)
  /\ \A x \in Used(d) : d.pool[x] = c.pool[x]
  /\ KvKept(c, d)

(* The blocks behind the m-th of a chain.                                  *)
LEMMA ChainEndIs ==
  ASSUME NEW t, NEW l \in Nat, DOMAIN t = 1..l, Len(t) = l, NEW m \in 1..l, m < l
  PROVE  /\ ToSet(SubSeq(t, m + 1, l)) = ChainEnd(t, m)
         /\ SubSeq(t, m + 1, l) # <<>> /\ SubSeq(t, m + 1, l)[1] = t[m + 1]
<1>1. PICK q : q = SubSeq(t, m + 1, l)
  OBVIOUS
<1>2. q = [i \in 1..(l - m) |-> t[i + m]]
  <2>1. SubSeq(t, m + 1, l) = [i \in 1..(1 + l - (m + 1)) |-> t[i + (m + 1) - 1]]
    BY DEF SubSeq
  <2>2. 1 + l - (m + 1) = l - m /\ \A i \in 1..(l - m) : i + (m + 1) - 1 = i + m
    OBVIOUS
  <2>3. SubSeq(t, m + 1, l) = [i \in 1..(l - m) |-> t[i + (m + 1) - 1]]
    BY <2>1, <2>2, Zenon
  <2>4. [i \in 1..(l - m) |-> t[i + (m + 1) - 1]] = [i \in 1..(l - m) |-> t[i + m]]
    BY <2>2, Zenon
  <2> QED BY <1>1, <2>3, <2>4, Zenon
<1>3. DOMAIN q = 1..(l - m) /\ \A i \in 1..(l - m) : q[i] = t[i + m]
  BY <1>2
<1>4. ToSet(q) = ChainEnd(t, m)
  <2>1. ASSUME NEW x \in ToSet(q) PROVE x \in ChainEnd(t, m)
    <3>1. PICK i \in 1..(l - m) : x = t[i + m]
      BY <1>3, <2>1 DEF ToSet
    <3>2. i + m \in (m + 1)..l
      OBVIOUS
    <3> QED BY <3>1, <3>2 DEF ChainEnd
  <2>2. ASSUME NEW x \in ChainEnd(t, m) PROVE x \in ToSet(q)
    <3>1. PICK j \in (m + 1)..l : x = t[j]
      BY <2>2 DEF ChainEnd
    <3>2. PICK i \in 1..(l - m) : i + m = j
      <4>1. j - m \in 1..(l - m) /\ (j - m) + m = j
        OBVIOUS
      <4> QED BY <4>1
    <3> QED BY <1>3, <3>1, <3>2 DEF ToSet
  <2> QED BY <2>1, <2>2
<1>5. 1 \in DOMAIN q /\ q[1] = t[m + 1]
  <2>1. 1 \in 1..(l - m) /\ 1 + m = m + 1
    OBVIOUS
  <2> QED BY <1>3, <2>1
<1>6. q # <<>>
  BY <1>5
<1> QED BY <1>1, <1>4, <1>5, <1>6

(* What PopN's loop changes: the last block, the length and the free       *)
(* lists.                                                                  *)
LEMMA WithoutBlocksIs ==
  ASSUME NEW c, Typed(c), NEW s \in SeqIds(c), NEW q, q # <<>>, NEW D, D = ToSet(q), D \subseteq Block,
         NEW u \in Block, u = c.pool[q[1]].parent_idx,
         NEW n \in Nat, n = c.seq_map[s].seq_length - TokensIn(c, q)
  PROVE  CutBack(c, WithoutBlocks(c, s, q), s, D, u, n)
<1>0. PICK G, C, Q, S, kv : FreedParts(c, D, G, C, Q, S, kv)
  BY BlocksFreed
<1>1. /\ IsCache(FreeBlocks(c, D), G, C, Q, S, kv)
      /\ Parts(G, C, Q, SeqIds(c), S)
      /\ C = c.free_block_idx \cup D /\ S = c.seq_map
      /\ \A p : p \in G <=> p \in c.free_page_ids \/ \E b \in D : p \in Pages(c, b)
      /\ \A b \in Block \ D : Q[b] = c.pool[b]
      /\ DOMAIN kv = Page /\ \A p \in Page \ G : kv[p] = c.kv[p]
  BY <1>0, Zenon DEF FreedParts
<1>2. PICK f, g, h : f = FreeBlocks(c, D) /\ g = c.seq_map[s] /\ h = [g EXCEPT !.last_block_idx = u, !.seq_length = n]
  OBVIOUS
<1>3. IsCache(f, G, C, Q, S, kv)
  BY <1>1, <1>2, Zenon
<1>4. h \in SequenceType /\ h.last_block_idx = u /\ h.seq_length = n
  <2>1. g \in SequenceType
    BY <1>2, SequenceFields, Zenon
  <2>2. h = [g EXCEPT !.last_block_idx = u, !.seq_length = n]
    BY <1>2, Zenon
  <2> QED BY <2>1, <2>2 DEF SequenceType
<1>5. PICK T, d : T = [S EXCEPT ![s] = h] /\ d = [f EXCEPT !.seq_map = T]
  OBVIOUS
<1>6. IsCache(d, G, C, Q, T, kv)
  BY <1>3, <1>5, SetMembers, Zenon
<1>7. WithoutBlocks(c, s, q) = d
  <2>1. WithoutBlocks(c, s, q) =
          [FreeBlocks(c, ToSet(q)) EXCEPT
             !.seq_map[s] = [c.seq_map[s] EXCEPT
               !.last_block_idx = c.pool[q[1]].parent_idx,
               !.seq_length = c.seq_map[s].seq_length - TokensIn(c, q)]]
    BY Zenon DEF WithoutBlocks
  <2>2. PICK v, k : v = c.pool[q[1]].parent_idx /\ k = c.seq_map[s].seq_length - TokensIn(c, q)
    OBVIOUS
  <2>3. v = u /\ k = n
    BY <2>2
  <2>4. WithoutBlocks(c, s, q) = [f EXCEPT !.seq_map[s] = [g EXCEPT !.last_block_idx = v, !.seq_length = k]]
    BY <1>2, <2>1, <2>2, Zenon
  <2>5. WithoutBlocks(c, s, q) = [f EXCEPT !.seq_map[s] = h]
    BY <1>2, <2>3, <2>4, Zenon
  <2>6. f.seq_map = S
    BY <1>3, SetMembers, Zenon
  <2>7. [f EXCEPT !.seq_map[s] = h] = [f EXCEPT !.seq_map = [f.seq_map EXCEPT ![s] = h]]
    BY Zenon
  <2> QED BY <1>5, <2>5, <2>6, <2>7, Zenon
<1>8. PICK E : E = SeqIds(c)
  OBVIOUS
<1>9. S \in [E -> SequenceType] /\ Parts(G, C, Q, E, S) /\ s \in E
  BY <1>1, <1>8 DEF Parts
<1>10. T \in [E -> SequenceType] /\ T[s] = h /\ \A x \in E \ {s} : T[x] = S[x]
  BY <1>4, <1>5, <1>9
<1>11. Parts(G, C, Q, E, T)
  BY <1>9, <1>10, Zenon DEF Parts
<1>12. /\ Typed(d) /\ SeqIds(d) = E /\ Used(d) = Block \ C
       /\ d.free_page_ids = G /\ d.pool = Q /\ d.seq_map = T /\ d.kv = kv
  BY <1>6, <1>11, TypedCache
<1>13. Used(d) = Used(c) \ D
  BY <1>1, <1>12 DEF Used
<1>14. \A x \in Used(d) : d.pool[x] = c.pool[x]
  BY <1>1, <1>12
<1>15. \A x \in SeqIds(c) \ {s} : d.seq_map[x] = c.seq_map[x]
  BY <1>1, <1>8, <1>10, <1>12
<1>16. d.seq_map[s].last_block_idx = u /\ d.seq_map[s].seq_length = n
  BY <1>4, <1>10, <1>12, Zenon
<1>17. \A p : p \in d.free_page_ids <=> p \in c.free_page_ids \/ \E b \in D : p \in Pages(c, b)
  BY <1>1, <1>12
<1>18. KvKept(c, d)
  BY <1>1, <1>12 DEF KvKept
<1>19. CutBack(c, d, s, D, u, n)
  BY <1>8, <1>12, <1>13, <1>14, <1>15, <1>16, <1>17, <1>18, Zenon DEF CutBack
<1> QED BY <1>7, <1>19, Zenon

(* What hung from the end of the chain is gone; its first block's place    *)
(* among the references to t[m] is taken by the sequence.                  *)
CutAt(c, s, t, m, D, u, n) ==
  /\ t = Trace(c, s) /\ m \in 1..Len(t) /\ m < Len(t)
  /\ \A i \in (m + 1)..Len(t) : c.pool[t[i]].external_ref_cnt = 1
  /\ n = c.pool[t[m + 1]].start_pos /\ D = ChainEnd(t, m) /\ u = t[m]

(* Cutting off blocks nobody else refers to keeps the structure.           *)
LEMMA CutWhole ==
  ASSUME NEW c, Whole(c, {}), NEW s \in SeqIds(c), NEW t, NEW m, NEW D, NEW u, NEW n, CutAt(c, s, t, m, D, u, n),
         NEW d, CutBack(c, d, s, D, u, n)
  PROVE  /\ Whole(d, {s})
         /\ u \in Used(d) /\ n = c.pool[u].start_pos + c.pool[u].seq_length
         /\ \A x \in SeqIds(c) \ {s} : Alone(d, x)
<1>1. Structured(c) /\ Typed(c) /\ Chained(c) /\ Counted(c) /\ Ended(c) /\ Private(c, {})
  BY WholeParts
<1>0. /\ t = Trace(c, s) /\ m \in 1..Len(t) /\ m < Len(t)
      /\ \A i \in (m + 1)..Len(t) : c.pool[t[i]].external_ref_cnt = 1
      /\ n = c.pool[t[m + 1]].start_pos /\ D = ChainEnd(t, m) /\ u = t[m]
  BY DEF CutAt
<1>2. PICK l, b, w : l = Len(t) /\ b = c.seq_map[s].last_block_idx /\ w = t[m + 1]
  OBVIOUS
<1>3. Starts(c, t) /\ l \in Nat /\ m \in Nat /\ m > 0 /\ m < l
  <2>1. Starts(c, t)
    BY <1>0, <1>1, TailTokens
  <2>2. Len(t) \in Nat
    BY <2>1, Zenon DEF Starts
  <2> QED BY <1>0, <1>2, <2>1, <2>2
<1>4. NothingElse(c, s, t, m)
  <2>1. m \in 0..Len(t)
    BY <1>2, <1>3
  <2> QED BY <1>0, <1>1, <2>1, TailAlone
<1>5. /\ D \subseteq Used(c)
      /\ \A x \in D : Children(c, x) \subseteq D /\ Owners(c, x) \subseteq {s}
      /\ u \in Used(c) /\ u \notin D /\ b \in D
      /\ \A y : y \notin D /\ y # u /\ y # NoBlock => Children(c, y) \cap D = {}
      /\ Children(c, u) \cap D = {w}
  <2>1. m > 0 /\ m < Len(t)
    BY <1>0, <1>3
  <2>2. /\ D \subseteq Used(c)
        /\ \A x \in D : Children(c, x) \subseteq D /\ Owners(c, x) \subseteq {s}
        /\ u \in Used(c) /\ u \notin D /\ b \in D
    BY <1>0, <1>2, <1>4, <2>1, Zenon DEF NothingElse
  <2>3. \A y : y \notin D /\ y # u /\ y # NoBlock => Children(c, y) \cap D = {}
    BY <1>0, <1>4, <2>1, Zenon DEF NothingElse
  <2>4. Children(c, u) \cap D = {w}
    BY <1>0, <1>2, <1>4, <2>1, Zenon DEF NothingElse
  <2> QED BY <2>2, <2>3, <2>4, Zenon
<1>6. /\ Typed(d) /\ SeqIds(d) = SeqIds(c) /\ Used(d) = Used(c) \ D
      /\ d.seq_map[s].last_block_idx = u /\ d.seq_map[s].seq_length = n
      /\ \A x \in SeqIds(c) \ {s} : d.seq_map[x] = c.seq_map[x]
      /\ \A p : p \in d.free_page_ids <=> p \in c.free_page_ids \/ \E x \in D : p \in Pages(c, x)
      /\ \A x \in Used(d) : d.pool[x] = c.pool[x]
  BY Zenon DEF CutBack
<1>7. u \in Used(d) /\ \A x \in Used(d) : Same(c, d, x)
  BY <1>5, <1>6 DEF Same
<1>8. Structured(d)
  <2>1. \A x \in Used(d) : Same(c, d, x) /\ c.pool[x].parent_idx \notin D
    BY <1>5, <1>6, <1>7 DEF Children
  <2> QED BY <1>1, <1>5, <1>6, <2>1, CutStructure
<1>9. n = c.pool[u].start_pos + c.pool[u].seq_length
  <2>1. m \in 1..Len(t) /\ m + 1 \in 1..Len(t)
    BY <1>2, <1>3
  <2>2. c.pool[t[m + 1]].start_pos = c.pool[t[m]].start_pos + c.pool[t[m]].seq_length
    BY <1>3, <2>1, Zenon DEF Starts
  <2> QED BY <1>0, <2>2, Zenon
<1>10. \A y : Children(d, y) = Children(c, y) \ D
  BY <1>6, <1>7 DEF Children, Same
<1>11. /\ \A y : y # u => Owners(d, y) = Owners(c, y) \ {s}
       /\ Owners(d, u) = Owners(c, u) \cup {s}
  BY <1>6 DEF Owners
<1>12. \A y : s \in Owners(c, y) => y = b
  BY <1>2 DEF Owners
<1>13. ASSUME NEW x \in Used(d) PROVE Counts(d, x)
  <2>1. /\ IsFiniteSet(Children(c, x)) /\ IsFiniteSet(Owners(c, x))
        /\ Cardinality(Children(c, x)) \in Nat /\ Cardinality(Owners(c, x)) \in Nat
    BY <1>1, UsedBlocks, OwnersFinite
  <2>2. Counts(c, x) /\ x \in Used(c) /\ x \notin D /\ x # NoBlock /\ d.pool[x] = c.pool[x] /\ s \notin Owners(c, x)
    BY <1>1, <1>5, <1>6, <1>12, UsedBlocks, BlockFields DEF Counted
  <2>3. CASE x # u
    <3>1. Children(d, x) = Children(c, x) /\ Owners(d, x) = Owners(c, x)
      <4>1. Children(c, x) \cap D = {}
        BY <1>5, <2>2, <2>3, Zenon
      <4>2. Children(d, x) = Children(c, x) \ D /\ Owners(d, x) = Owners(c, x) \ {s}
        BY <1>10, <1>11, <2>3, Zenon
      <4> QED BY <2>2, <4>1, <4>2
    <3> QED BY <2>2, <3>1 DEF Counts
  <2>4. CASE x = u
    <3>1. PICK S, O : S = Children(c, x) /\ O = Owners(c, x)
      OBVIOUS
    <3>2. w \in S /\ Children(d, x) = S \ {w} /\ Owners(d, x) = O \cup {s} /\ s \notin O
      BY <1>5, <1>10, <1>11, <2>2, <2>4, <3>1
    <3>3. IsFiniteSet(S) /\ IsFiniteSet(O) /\ Cardinality(S) \in Nat /\ Cardinality(O) \in Nat
      BY <2>1, <3>1
    <3>4. Cardinality(S \ {w}) = Cardinality(S) - 1 /\ Cardinality(O \cup {s}) = Cardinality(O) + 1
      BY <3>2, <3>3, CardPlus
    <3>5. Cardinality(Children(d, x)) + Cardinality(Owners(d, x)) = Cardinality(S) + Cardinality(O)
      BY <3>2, <3>3, <3>4
    <3> QED BY <2>2, <3>1, <3>5 DEF Counts
  <2> QED BY <2>3, <2>4
<1>14. ASSUME NEW x \in SeqIds(c) \ {s} PROVE Ends(d, x) /\ Alone(d, x)
  <2>1. d.seq_map[x] = c.seq_map[x] /\ Ends(c, x) /\ Alone(c, x)
    BY <1>1, <1>6 DEF Ended, Private
  <2>2. PICK y : y = c.seq_map[x].last_block_idx
    OBVIOUS
  <2>3. y \in Used(c) /\ x \in Owners(c, y) /\ Children(c, y) = {} /\ Owners(c, y) = {x}
    BY <2>1, <2>2 DEF Ends, Owners, Alone
  <2>4. y \notin D /\ y # u
    BY <1>5, <2>3
  <2>5. y \in Used(d)
    BY <1>6, <2>3, <2>4
  <2>6. d.pool[y] = c.pool[y]
    BY <1>6, <2>5
  <2>7. Ends(d, x)
    BY <2>1, <2>2, <2>5, <2>6 DEF Ends, LastBlock
  <2>8. Children(d, y) = {} /\ Owners(d, y) = {x}
    BY <1>10, <1>11, <2>3, <2>4
  <2>9. Alone(d, x)
    BY <2>1, <2>2, <2>8 DEF Alone
  <2> QED BY <2>7, <2>9
<1>15. Ends(d, s)
  BY <1>6, <1>7, <1>9 DEF Ends, LastBlock
<1>16. Linked(d, {s})
  BY <1>6, <1>13, <1>14, <1>15 DEF Linked, Counted, Ended, Private
<1> QED BY <1>7, <1>8, <1>9, <1>14, <1>16 DEF Whole

(* d is c with the sequence TempSeq under the name s.                      *)
Named(c, s) == [c EXCEPT !.seq_map = Put(Drop(c.seq_map, TempSeq), s, c.seq_map[TempSeq])]

(* Giving the temporary sequence its name keeps the structure.             *)
LEMMA NamedWhole ==
  ASSUME NEW c, Whole(c, {}), TempSeq \in SeqIds(c), NEW s \in SeqId, s \notin SeqIds(c)
  PROVE  /\ Whole(Named(c, s), {})
         /\ SeqIds(Named(c, s)) = (SeqIds(c) \ {TempSeq}) \cup {s}
         /\ \A x \in SeqIds(c) \ {TempSeq} : Named(c, s).seq_map[x] = c.seq_map[x]
         /\ Named(c, s).seq_map[s] = c.seq_map[TempSeq]
         /\ Named(c, s).pool = c.pool /\ Used(Named(c, s)) = Used(c) /\ Named(c, s).kv = c.kv
         /\ Named(c, s).free_page_ids = c.free_page_ids
<1>1. Structured(c) /\ Typed(c) /\ Counted(c) /\ Ended(c) /\ Private(c, {}) /\ s # TempSeq
  BY WholeParts, PoolAssumption
<1>2. PICK d, F, B, P, S, kv, R, T, D, E, g :
        /\ d = Named(c, s) /\ D = SeqIds(c) /\ E = D \ {TempSeq} /\ R = Drop(S, TempSeq) /\ T = Put(R, s, g)
        /\ F = c.free_page_ids /\ B = c.free_block_idx /\ P = c.pool /\ S = c.seq_map /\ kv = c.kv
        /\ g = S[TempSeq]
  OBVIOUS
<1>3. /\ IsCache(c, F, B, P, S, kv) /\ F \subseteq Page /\ B \subseteq Block /\ P \in [Block -> BlockType]
      /\ (\A x \in B : P[x] = EmptyBlock) /\ D \subseteq SeqId \cup {TempSeq}
      /\ S \in [D -> SequenceType] /\ g \in SequenceType
  BY <1>1, <1>2, CacheFields
<1>4. R \in [E -> SequenceType] /\ \A x \in E : R[x] = S[x]
  BY <1>2, <1>3 DEF Drop
<1>5. T \in [E \cup {s} -> SequenceType] /\ T[s] = g /\ \A x \in E \ {s} : T[x] = R[x]
  BY <1>2, <1>3, <1>4 DEF Put
<1>6. IsCache(d, F, B, P, T, kv)
  <2>1. IsCache(c, F, B, P, S, kv)
    BY <1>3
  <2>2. \A z : IsCache([c EXCEPT !.seq_map = z], F, B, P, z, kv)
    BY <2>1, SetMembers, Zenon
  <2>3. d = [c EXCEPT !.seq_map = T]
    BY <1>2, Zenon DEF Named
  <2> QED BY <2>2, <2>3, Zenon
<1>7. PICK G : G = E \cup {s}
  OBVIOUS
<1>8. Parts(F, B, P, G, T)
  <2>1. G \subseteq SeqId \cup {TempSeq} /\ T \in [G -> SequenceType]
    BY <1>2, <1>3, <1>5, <1>7
  <2> QED BY <1>3, <2>1, Zenon DEF Parts
<1>9. /\ Typed(d) /\ SeqIds(d) = G /\ Used(d) = Block \ B
      /\ d.free_page_ids = F /\ d.pool = P /\ d.seq_map = T /\ d.kv = kv
  BY <1>6, <1>8, TypedCache
<1>10. Used(d) = Used(c) /\ d.pool = c.pool /\ d.free_page_ids = c.free_page_ids /\ d.kv = c.kv
  BY <1>2, <1>9 DEF Used
<1>11. Structured(d)
  <2>1. \A x \in Used(c) : Same(c, d, x)
    BY <1>10 DEF Same
  <2> QED BY <1>1, <1>9, <1>10, <2>1, SameStructure
<1>12. /\ \A x \in E : x # s /\ x \in SeqIds(c) /\ d.seq_map[x] = c.seq_map[x]
       /\ d.seq_map[s] = c.seq_map[TempSeq]
       /\ SeqIds(d) = E \cup {s}
  BY <1>2, <1>4, <1>5, <1>7, <1>9
<1>13. \A y : Children(d, y) = Children(c, y)
  BY <1>10 DEF Children
<1>14. \A y : Owners(d, y) = IF TempSeq \in Owners(c, y) THEN (Owners(c, y) \ {TempSeq}) \cup {s} ELSE Owners(c, y)
  <2> SUFFICES ASSUME NEW y
      PROVE Owners(d, y) = IF TempSeq \in Owners(c, y) THEN (Owners(c, y) \ {TempSeq}) \cup {s} ELSE Owners(c, y)
    OBVIOUS
  <2>1. Owners(d, y) = {x \in E : c.seq_map[x].last_block_idx = y}
                         \cup {x \in {s} : c.seq_map[TempSeq].last_block_idx = y}
    BY <1>12 DEF Owners
  <2>2. SeqIds(c) = E \cup {TempSeq} /\ TempSeq \notin E
    BY <1>2
  <2>3. TempSeq \in Owners(c, y) <=> c.seq_map[TempSeq].last_block_idx = y
    BY DEF Owners
  <2>4. Owners(c, y) \ {TempSeq} = {x \in E : c.seq_map[x].last_block_idx = y}
    BY <2>2 DEF Owners
  <2> QED BY <2>1, <2>3, <2>4
<1>15. \A y : Cardinality(Owners(d, y)) = Cardinality(Owners(c, y))
  <2> SUFFICES ASSUME NEW y, TempSeq \in Owners(c, y)
               PROVE  Cardinality(Owners(d, y)) = Cardinality(Owners(c, y))
    BY <1>14
  <2>1. PICK O, N : O = Owners(c, y) /\ N = O \ {TempSeq}
    OBVIOUS
  <2>2. IsFiniteSet(O) /\ s \notin N /\ TempSeq \in O /\ Owners(d, y) = N \cup {s}
    BY <1>1, <1>14, <2>1, OwnersFinite, ZenonT(60) DEF Owners
  <2>3. IsFiniteSet(N)
    BY <2>1, <2>2, FS_Subset
  <2>4. Cardinality(O) \in Nat /\ Cardinality(N) = Cardinality(O) - 1 /\ Cardinality(N \cup {s}) = Cardinality(N) + 1
    BY <2>1, <2>2, <2>3, CardPlus
  <2> QED BY <2>1, <2>2, <2>4
<1>16. Counted(d)
  <2>1. ASSUME NEW x \in Used(d) PROVE Counts(d, x)
    <3>1. Counts(c, x) /\ d.pool[x] = c.pool[x]
      BY <1>1, <1>10 DEF Counted
    <3> QED BY <1>13, <1>15, <3>1 DEF Counts
  <2> QED BY <2>1 DEF Counted
<1>17. ASSUME NEW z \in SeqIds(c), NEW x \in SeqIds(d), d.seq_map[x] = c.seq_map[z],
              z # TempSeq => x = z, z = TempSeq => x = s
       PROVE  Ends(d, x) /\ Alone(d, x)
  <2>1. Ends(c, z) /\ Alone(c, z)
    BY <1>1 DEF Ended, Private
  <2>2. PICK y : y = c.seq_map[z].last_block_idx
    OBVIOUS
  <2>3. y \in Used(c) /\ Children(c, y) = {} /\ Owners(c, y) = {z}
    BY <2>1, <2>2 DEF Ends, Alone
  <2>4. Children(d, y) = {} /\ Owners(d, y) = {x}
    <3>1. CASE z = TempSeq
      BY <1>13, <1>14, <1>17, <2>3, <3>1
    <3>2. CASE z # TempSeq
      BY <1>13, <1>14, <1>17, <2>3, <3>2
    <3> QED BY <3>1, <3>2
  <2>5. Alone(d, x)
    BY <1>17, <2>2, <2>4 DEF Alone
  <2>6. Ends(d, x)
    BY <1>10, <1>17, <2>1, <2>2, <2>3 DEF Ends, LastBlock
  <2> QED BY <2>5, <2>6
<1>18. ASSUME NEW x \in SeqIds(d) PROVE Ends(d, x) /\ Alone(d, x)
  <2>1. CASE x = s
    <3>1. d.seq_map[x] = c.seq_map[TempSeq]
      BY <1>12, <2>1
    <3> QED BY <1>17, <2>1, <3>1
  <2>2. CASE x # s
    <3>1. x \in E
      BY <1>12, <2>2
    <3>2. x \in SeqIds(c) /\ x # TempSeq /\ d.seq_map[x] = c.seq_map[x]
      BY <1>2, <1>12, <3>1
    <3> QED BY <1>17, <3>2
  <2> QED BY <2>1, <2>2
<1>19. Linked(d, {})
  BY <1>16, <1>18 DEF Linked, Ended, Private
<1> QED BY <1>2, <1>10, <1>11, <1>12, <1>19 DEF Whole

(* d is c without the blocks behind the one that is left to be shortened,  *)
(* by r tokens, of the n that s loses.                                     *)
IsLeft(c, d, s, n, r) ==
  /\ Whole(d, {s}) /\ SeqIds(d) = SeqIds(c)
  /\ \A x \in SeqIds(c) \ {s} : d.seq_map[x] = c.seq_map[x] /\ Alone(d, x)
  /\ r \in Nat /\ r > 0 /\ r <= d.seq_map[s].seq_length
  /\ d.seq_map[s].seq_length - r = c.seq_map[s].seq_length - n
  /\ LastBlock(d, s).external_ref_cnt = 1 => r <= LastBlock(d, s).seq_length
  /\ Keeps(c, d) /\ d.seq_map[s].last_block_idx \in Elements(Trace(c, s))

(* What is left to pop lies in the block the loop stops in.                *)
LEMMA LeftOver ==
  ASSUME NEW a \in Nat, NEW p \in Nat, NEW q \in Nat, NEW l \in Nat, q = p + l, q <= a,
         NEW n \in Nat, n <= a, a - q < n, NEW r, r = n - (a - q)
  PROVE  /\ a - (a - q) = q
         /\ r \in Nat /\ r > 0 /\ r <= q /\ q - r = a - n
         /\ n <= a - p => r <= l
OBVIOUS

(* What PopN's loop leaves behind.                                         *)
LEMMA LeftWhole ==
  ASSUME NEW c, Whole(c, {}), NEW s \in SeqIds(c), NEW n \in Nat, n > 0, n <= c.seq_map[s].seq_length,
         NEW q, q = Behind(c, s, n)
  PROVE  IsLeft(c, WithoutBlocks(c, s, q), s, n, n - TokensIn(c, q))
<1>1. Structured(c) /\ Typed(c) /\ Chained(c) /\ Counted(c) /\ Ended(c) /\ Private(c, {})
  BY WholeParts
<1>2. PICK t, a, b, d, r : /\ t = Trace(c, s) /\ a = c.seq_map[s].seq_length /\ b = c.seq_map[s].last_block_idx
                           /\ d = WithoutBlocks(c, s, q) /\ r = n - TokensIn(c, q)
  OBVIOUS
<1>3. b \in Used(c) /\ t = GetBlockTrace(c, b) /\ LastBlock(c, s) = c.pool[b] /\ a = c.pool[b].start_pos + c.pool[b].seq_length
  BY <1>1, <1>2 DEF Ended, Ends, LastBlock, Trace
<1>4. PICK l : l = Len(t)
  OBVIOUS
<1>5. /\ Starts(c, t) /\ a \in Nat /\ t[l] = b /\ l \in Nat /\ l > 0 /\ DOMAIN t = 1..l
      /\ \A i \in 1..l : TokensIn(c, SubSeq(t, i, l)) = a - c.pool[t[i]].start_pos
  <2>1. /\ Starts(c, t) /\ t[Len(t)] = c.seq_map[s].last_block_idx /\ c.seq_map[s].seq_length \in Nat
        /\ \A i \in 1..Len(t) : TokensIn(c, SubSeq(t, i, Len(t))) = c.seq_map[s].seq_length - c.pool[t[i]].start_pos
    BY <1>1, <1>2, TailTokens
  <2>2. Len(t) \in Nat /\ Len(t) > 0 /\ DOMAIN t = 1..Len(t)
    BY <2>1, Zenon DEF Starts
  <2> QED BY <1>2, <1>4, <2>1, <2>2, Zenon
<1>6. PICK m : StopsAt(c, s, n, t, m)
  BY <1>1, <1>2, StopFound
<1>7. /\ m \in 1..l /\ q = SubSeq(t, m + 1, l)
      /\ c.pool[t[m]].external_ref_cnt # 1 \/ n <= a - c.pool[t[m]].start_pos
      /\ \A i \in (m + 1)..l : c.pool[t[i]].external_ref_cnt = 1 /\ a - c.pool[t[i]].start_pos < n
  BY <1>2, <1>4, <1>6, Zenon DEF StopsAt
<1>8. \A i \in 1..l : t[i] \in Used(c) /\ c.pool[t[i]].start_pos \in Nat /\ c.pool[t[i]].seq_length \in Nat
  BY <1>4, <1>5, Zenon DEF Starts
<1>9. CASE m = l
  <2>1. l + 1 \in 1..(Len(t) + 1) /\ l \in 0..Len(t) /\ l < l + 1
    BY <1>4, <1>5
  <2>2. TokensIn(c, SubSeq(t, l + 1, l)) = 0
    BY <1>1, <1>3, <2>1, TokensBetween
  <2>3. TokensIn(c, q) = 0
    BY <1>7, <1>9, <2>2, Zenon
  <2>4. r = n
    BY <1>2, <2>3
  <2>5. q = <<>>
    BY <1>5, <1>7, <1>9
  <2>6. d = c
    BY <1>2, <2>5, Zenon DEF WithoutBlocks
  <2>7. Private(c, {s}) /\ \A x \in SeqIds(c) \ {s} : Alone(c, x)
    BY <1>1 DEF Private
  <2>8. Whole(c, {s})
    BY <1>1, <2>7 DEF Whole, Linked
  <2>9. LastBlock(c, s).external_ref_cnt = 1 => n <= LastBlock(c, s).seq_length
    <3>1. PICK p, k : p = c.pool[b].start_pos /\ k = c.pool[b].seq_length
      OBVIOUS
    <3>2. p \in Nat /\ k \in Nat /\ a = p + k /\ (c.pool[b].external_ref_cnt # 1 \/ n <= a - p)
      BY <1>3, <1>5, <1>7, <1>8, <1>9, <3>1
    <3> QED BY <1>3, <3>1, <3>2
  <2>10. IsLeft(c, c, s, n, n)
    <3>1. n <= c.seq_map[s].seq_length
      OBVIOUS
    <3>2. Keeps(c, c)
      BY DEF Keeps, KvKept, Same
    <3>3. l \in 1..l
      BY <1>5
    <3>4. c.seq_map[s].last_block_idx \in Elements(Trace(c, s))
      BY <1>2, <1>5, <3>3 DEF Elements
    <3> QED BY <2>7, <2>8, <2>9, <3>1, <3>2, <3>4, Zenon DEF IsLeft
  <2> QED BY <1>2, <2>4, <2>6, <2>10, Zenon
<1>10. CASE m < l
  <2>1. PICK w, u, D, p : w = t[m + 1] /\ u = t[m] /\ D = ChainEnd(t, m) /\ p = c.pool[w].start_pos
    OBVIOUS
  <2>2. m + 1 \in 1..l /\ m + 1 \in 2..l /\ (m + 1) - 1 = m /\ m \in Nat /\ m + 1 \in (m + 1)..l
    BY <1>5, <1>7, <1>10
  <2>3. /\ c.pool[w].parent_idx = u
        /\ p = c.pool[u].start_pos + c.pool[u].seq_length
    <3>1. \A i \in 2..Len(t) : c.pool[t[i]].parent_idx = t[i - 1]
      BY <1>1, <1>3, TraceBlocks
    <3>2. c.pool[t[m + 1]].parent_idx = t[m]
      BY <1>4, <2>2, <3>1
    <3>3. c.pool[t[m + 1]].start_pos = c.pool[t[m]].start_pos + c.pool[t[m]].seq_length
      BY <1>4, <1>5, <1>7, <2>2, Zenon DEF Starts
    <3> QED BY <2>1, <3>2, <3>3, Zenon
  <2>4. ToSet(q) = D /\ q # <<>> /\ q[1] = w
    <3>1. l = Len(t)
      BY <1>4
    <3> QED BY <1>5, <1>7, <1>10, <2>1, <3>1, ChainEndIs
  <2>5. TokensIn(c, q) = a - p /\ a - p < n
    BY <1>5, <1>7, <2>1, <2>2, Zenon
  <2>6. w \in Used(c) /\ u \in Used(c) /\ p \in Nat /\ c.pool[u].start_pos \in Nat /\ c.pool[u].seq_length \in Nat
    BY <1>7, <1>8, <2>1, <2>2
  <2>7. p <= a
    <3>1. w = b \/ p <= c.pool[b].start_pos
      <4>1. CASE m + 1 = l
        BY <1>5, <2>1, <4>1
      <4>2. CASE m + 1 < l
        <5>1. m + 1 \in 1..Len(t) /\ l \in 1..Len(t)
          BY <1>4, <1>5, <2>2
        <5>2. c.pool[t[m + 1]].start_pos < c.pool[t[l]].start_pos
          BY <1>1, <1>3, <4>2, <5>1, TraceOrder
        <5>3. c.pool[b].start_pos \in Nat
          BY <1>5, <1>8
        <5> QED BY <1>5, <2>1, <2>6, <5>2, <5>3
      <4> QED BY <1>5, <2>2, <4>1, <4>2
    <3>2. c.pool[b].start_pos \in Nat /\ c.pool[b].seq_length \in Nat
      BY <1>5, <1>8
    <3> QED BY <1>3, <2>1, <2>6, <3>1, <3>2
  <2>8. /\ a - (a - p) = p
        /\ r \in Nat /\ r > 0 /\ r <= p /\ p - r = a - n
        /\ n <= a - c.pool[u].start_pos => r <= c.pool[u].seq_length
    <3>1. PICK pu, lu : pu = c.pool[u].start_pos /\ lu = c.pool[u].seq_length
      OBVIOUS
    <3>2. pu \in Nat /\ lu \in Nat /\ p = pu + lu /\ n <= a /\ r = n - (a - p)
      BY <1>2, <2>3, <2>5, <2>6, <3>1, Zenon
    <3>3. /\ a - (a - p) = p
          /\ r \in Nat /\ r > 0 /\ r <= p /\ p - r = a - n
          /\ n <= a - pu => r <= lu
      BY <1>5, <2>5, <2>6, <2>7, <3>2, LeftOver
    <3> QED BY <3>1, <3>3, Zenon
  <2>9. CutBack(c, d, s, D, u, p)
    <3>1. D \subseteq Block
      <4>1. ChainEnd(t, m) \subseteq Used(c)
        <5>1. \A i \in (m + 1)..l : i \in 1..l
          BY <2>2
        <5> QED BY <1>4, <1>8, <5>1 DEF ChainEnd
      <4> QED BY <2>1, <4>1, UsedBlocks
    <3>2. u \in Block /\ u = c.pool[q[1]].parent_idx
      BY <2>3, <2>4, <2>6, UsedBlocks
    <3>3. p = c.seq_map[s].seq_length - TokensIn(c, q)
      BY <1>2, <2>5, <2>8, Zenon
    <3>4. D = ToSet(q) /\ q # <<>>
      BY <2>4
    <3> QED BY <1>1, <1>2, <2>6, <3>1, <3>2, <3>3, <3>4, WithoutBlocksIs
  <2>10. /\ Whole(d, {s})
         /\ u \in Used(d) /\ p = c.pool[u].start_pos + c.pool[u].seq_length
         /\ \A x \in SeqIds(c) \ {s} : Alone(d, x)
    <3>1. m \in 1..Len(t) /\ m < Len(t) /\ \A i \in (m + 1)..Len(t) : c.pool[t[i]].external_ref_cnt = 1
      BY <1>4, <1>7, <1>10
    <3>2. p = c.pool[t[m + 1]].start_pos
      BY <2>1
    <3>3. t = Trace(c, s) /\ D = ChainEnd(t, m) /\ u = t[m]
      BY <1>2, <2>1, Zenon
    <3>4. CutAt(c, s, t, m, D, u, p)
      BY <3>1, <3>2, <3>3, Zenon DEF CutAt
    <3> QED BY <2>9, <3>4, CutWhole
  <2>11. /\ SeqIds(d) = SeqIds(c) /\ d.seq_map[s].last_block_idx = u /\ d.seq_map[s].seq_length = p
         /\ (\A x \in SeqIds(c) \ {s} : d.seq_map[x] = c.seq_map[x]) /\ d.pool[u] = c.pool[u]
    BY <2>9, <2>10, Zenon DEF CutBack
  <2>12. LastBlock(d, s).external_ref_cnt = 1 => r <= LastBlock(d, s).seq_length
    <3>1. LastBlock(d, s) = c.pool[u]
      BY <2>11, Zenon DEF LastBlock
    <3>2. c.pool[u].external_ref_cnt # 1 \/ n <= a - c.pool[u].start_pos
      BY <1>7, <2>1, Zenon
    <3> QED BY <2>8, <3>1, <3>2
  <2>13. d.seq_map[s].seq_length - r = c.seq_map[s].seq_length - n
    BY <1>2, <2>8, <2>11, Zenon
  <2>14. r <= d.seq_map[s].seq_length /\ r \in Nat /\ r > 0
    BY <2>8, <2>11, Zenon
  <2>15. Keeps(c, d)
    <3>1. KvKept(c, d) /\ \A x \in Used(d) : d.pool[x] = c.pool[x]
      BY <2>9, Zenon DEF CutBack
    <3> QED BY <3>1 DEF Keeps, Same
  <2>16. d.seq_map[s].last_block_idx \in Elements(Trace(c, s))
    BY <1>2, <1>5, <1>7, <2>1, <2>11 DEF Elements
  <2>17. IsLeft(c, d, s, n, r)
    BY <2>10, <2>11, <2>12, <2>13, <2>14, <2>15, <2>16, Zenon DEF IsLeft
  <2> QED BY <1>2, <2>17, Zenon
<1> QED BY <1>5, <1>7, <1>9, <1>10

(* How a sequence is replaced by a fork of itself that is r tokens         *)
(* shorter: f has the fork, g lacks the original.                          *)
RenamedTo(g, d, s) ==
  /\ d.pool = g.pool /\ Used(d) = Used(g) /\ d.kv = g.kv /\ d.free_page_ids = g.free_page_ids
  /\ d.seq_map[s] = g.seq_map[TempSeq]
  /\ \A x \in SeqIds(g) \ {TempSeq} : d.seq_map[x] = g.seq_map[x]
ReforkShape(c, d, s, pos) ==
  \E f, g : /\ HasForked(c, f, s, TempSeq, pos, {s}) /\ ForkShape(c, f, s, TempSeq, pos, {s})
            /\ Whole(g, {}) /\ SeqIds(g) = SeqIds(f) \ {s} /\ Keeps(f, g)
            /\ \A x \in SeqIds(f) \ {s} : g.seq_map[x] = f.seq_map[x]
            /\ RenamedTo(g, d, s)

(* The sequence replaced by a fork of itself.                              *)
LEMMA ReforkedWhole ==
  ASSUME NEW c, NEW s \in SeqIds(c), SeqIds(c) \subseteq SeqId, Whole(c, {s}),
         \A x \in SeqIds(c) \ {s} : Alone(c, x), LastBlock(c, s).external_ref_cnt # 1,
         NEW r \in Nat, r > 0, r <= c.seq_map[s].seq_length, ForkFits(c, c.seq_map[s].seq_length - r)
  PROVE  /\ Whole(Reforked(c, s, r), {}) /\ SeqIds(Reforked(c, s, r)) = SeqIds(c)
         /\ ReforkShape(c, Reforked(c, s, r), s, c.seq_map[s].seq_length - r)
<1>1. Structured(c) /\ Typed(c) /\ Counted(c) /\ Ended(c)
  BY WholeParts
<1>2. PICK pos, b : pos = c.seq_map[s].seq_length - r /\ b = c.seq_map[s].last_block_idx
  OBVIOUS
<1>3. c.seq_map[s].seq_length \in Nat
  BY <1>1, SequenceFields
<1>4. pos \in Nat /\ pos <= c.seq_map[s].seq_length /\ pos # c.seq_map[s].seq_length
  BY <1>2, <1>3
<1>5. b \in Used(c) /\ s \in Owners(c, b)
  BY <1>1, <1>2 DEF Ended, Ends, Owners
<1>6. Owners(c, b) = {s}
  <2>1. ASSUME NEW x \in Owners(c, b) PROVE x = s
    <3>1. x \in SeqIds(c) /\ c.seq_map[x].last_block_idx = b
      BY <2>1 DEF Owners
    <3>2. x # s => Owners(c, b) = {x}
      BY <3>1 DEF Alone
    <3> QED BY <1>5, <3>2
  <2> QED BY <1>5, <2>1
<1>7. Children(c, b) # {}
  <2>1. Counts(c, b) /\ c.pool[b].external_ref_cnt # 1
    BY <1>1, <1>2, <1>5 DEF Counted, LastBlock
  <2>2. Cardinality({s}) = 1 /\ Cardinality({}) = 0
    BY FS_Singleton, FS_EmptySet
  <2> QED BY <1>6, <2>1, <2>2 DEF Counts
<1>8. Room(c)
  <2>1. Cardinality(SeqIds(c)) <= Cardinality(SeqId)
    BY PoolAssumption, FS_Subset
  <2> QED BY <1>2, <1>7, <2>1 DEF Room
<1>9. ReadyToFork(c, s, pos) = c
  BY <1>4, Zenon DEF ReadyToFork
<1>10. TempSeq \in SeqId \cup {TempSeq} /\ TempSeq \notin SeqIds(c) /\ TempSeq # s
  BY PoolAssumption
<1>11. PICK f, g : f = Forked(c, s, TempSeq, pos) /\ g = Removed(f, s)
  OBVIOUS
<1>12. HasForked(c, f, s, TempSeq, pos, {s}) /\ ForkShape(c, f, s, TempSeq, pos, {s})
  <2>1. ForkFits(ReadyToFork(c, s, pos), pos)
    BY <1>2, <1>9, Zenon
  <2>2. {s} \subseteq {s}
    OBVIOUS
  <2>3. /\ HasForked(c, Forked(c, s, TempSeq, pos), s, TempSeq, pos, {s})
        /\ ForkShape(c, Forked(c, s, TempSeq, pos), s, TempSeq, pos, {s})
    BY <1>4, <1>8, <1>10, <2>1, <2>2, ForkedWhole
  <2> QED BY <1>11, <2>3, Zenon
<1>13. Whole(f, {s}) /\ SeqIds(f) = SeqIds(c) \cup {TempSeq}
  BY <1>12, Zenon DEF HasForked
<1>14. /\ Whole(g, {}) /\ SeqIds(g) = SeqIds(f) \ {s} /\ Keeps(f, g)
       /\ \A x \in SeqIds(f) \ {s} : g.seq_map[x] = f.seq_map[x]
  <2>1. s \in SeqIds(f) /\ {s} \subseteq {s}
    BY <1>13
  <2>2. /\ Whole(Removed(f, s), {}) /\ SeqIds(Removed(f, s)) = SeqIds(f) \ {s} /\ Keeps(f, Removed(f, s))
        /\ \A x \in SeqIds(f) \ {s} : Removed(f, s).seq_map[x] = f.seq_map[x]
    BY <1>13, <2>1, RemovedWhole
  <2> QED BY <1>11, <2>2, Zenon
<1>15. Reforked(c, s, r) = Named(g, s)
  <2> DEFINE ff == Removed(Forked(c, s, TempSeq, c.seq_map[s].seq_length - r), s)
  <2>1. Reforked(c, s, r) = [ff EXCEPT !.seq_map = Put(Drop(ff.seq_map, TempSeq), s, ff.seq_map[TempSeq])]
    BY Zenon DEF Reforked
  <2>2. ff = g
    BY <1>2, <1>11, Zenon
  <2> HIDE DEF ff
  <2> QED BY <2>1, <2>2, Zenon DEF Named
<1>16. TempSeq \in SeqIds(g) /\ s \notin SeqIds(g) /\ s \in SeqId
  BY <1>10, <1>13, <1>14
<1>17. /\ Whole(Named(g, s), {})
       /\ SeqIds(Named(g, s)) = (SeqIds(g) \ {TempSeq}) \cup {s}
       /\ RenamedTo(g, Named(g, s), s)
  BY <1>14, <1>16, NamedWhole DEF RenamedTo
<1>18. (SeqIds(g) \ {TempSeq}) \cup {s} = SeqIds(c)
  BY <1>10, <1>13, <1>14
<1>19. ReforkShape(c, Named(g, s), s, pos)
  BY <1>12, <1>14, <1>17, Zenon DEF ReforkShape
<1> QED BY <1>2, <1>15, <1>17, <1>18, <1>19, Zenon

(* How PopN does it: the blocks behind the new end are cut off (m), the    *)
(* other r tokens are popped in the last block or by a fork.               *)
PopShape(c, d, s, n) ==
  \/ n = 0 /\ d = c
  \/ \E m, r : /\ IsLeft(c, m, s, n, r)
               /\ \/ Whole(m, {}) /\ Alone(m, s) /\ r <= LastBlock(m, s).seq_length /\ d = Truncated(m, s, r)
                  \/ ReforkShape(m, d, s, m.seq_map[s].seq_length - r)

(* PopN keeps the structure: in the last block, into a block before it, or *)
(* by way of a fork when that block is shared.                             *)
LEMMA PoppedWhole ==
  ASSUME NEW c, Whole(c, {}), SeqIds(c) \subseteq SeqId, NEW s \in SeqIds(c),
         NEW n \in Nat, n <= c.seq_map[s].seq_length, PopFits(c, s, n)
  PROVE  /\ Whole(Popped(c, s, n), {}) /\ SeqIds(Popped(c, s, n)) = SeqIds(c)
         /\ PopShape(c, Popped(c, s, n), s, n)
<1>1. PICK q, r, d : q = Behind(c, s, n) /\ r = n - TokensIn(c, q) /\ d = WithoutBlocks(c, s, q)
  OBVIOUS
<1>2. Popped(c, s, n) = IF n = 0 THEN c
                        ELSE IF LastBlock(d, s).external_ref_cnt = 1 THEN Truncated(d, s, r)
                        ELSE Reforked(d, s, r)
  <2> DEFINE blocks == Behind(c, s, n)
             rest   == n - TokensIn(c, blocks)
             left   == WithoutBlocks(c, s, blocks)
  <2>1. Popped(c, s, n) = IF n = 0 THEN c
                          ELSE IF LastBlock(left, s).external_ref_cnt = 1 THEN Truncated(left, s, rest)
                          ELSE Reforked(left, s, rest)
    BY Zenon DEF Popped
  <2>2. blocks = q /\ rest = r /\ left = d
    BY <1>1, Zenon
  <2> HIDE DEF blocks, rest, left
  <2> QED BY <2>1, <2>2, Zenon
<1>3. CASE n = 0
  <2>1. Popped(c, s, n) = c
    BY <1>2, <1>3, Zenon
  <2>2. PopShape(c, c, s, n)
    BY <1>3, Zenon DEF PopShape
  <2> QED BY <2>1, <2>2, Zenon
<1>4. CASE n # 0
  <2>1. IsLeft(c, d, s, n, r)
    <3>1. n > 0
      BY <1>4
    <3>2. IsLeft(c, WithoutBlocks(c, s, q), s, n, n - TokensIn(c, q))
      BY <1>1, <3>1, LeftWhole
    <3> QED BY <1>1, <3>2, Zenon
  <2>2. /\ Whole(d, {s}) /\ SeqIds(d) = SeqIds(c)
        /\ \A x \in SeqIds(c) \ {s} : d.seq_map[x] = c.seq_map[x] /\ Alone(d, x)
        /\ r \in Nat /\ r > 0 /\ r <= d.seq_map[s].seq_length
        /\ d.seq_map[s].seq_length - r = c.seq_map[s].seq_length - n
        /\ LastBlock(d, s).external_ref_cnt = 1 => r <= LastBlock(d, s).seq_length
    BY <2>1, Zenon DEF IsLeft
  <2>3. s \in SeqIds(d)
    BY <2>2
  <2>4. CASE LastBlock(d, s).external_ref_cnt = 1
    <3>1. Typed(d) /\ Counted(d) /\ Ended(d) /\ Structured(d)
      BY <2>2, WholeParts
    <3>2. PICK b : b = d.seq_map[s].last_block_idx
      OBVIOUS
    <3>3. b \in Used(d) /\ d.pool[b].external_ref_cnt = 1 /\ s \in Owners(d, b)
      BY <2>3, <2>4, <3>1, <3>2 DEF Ended, Ends, LastBlock, Owners
    <3>4. Alone(d, s)
      BY <3>1, <3>2, <3>3, OneReference DEF Alone
    <3>5. Whole(d, {})
      BY <2>2, <3>1, <3>4 DEF Whole, Linked, Private
    <3>6. r <= LastBlock(d, s).seq_length
      BY <2>2, <2>4
    <3>7. Whole(Truncated(d, s, r), {}) /\ Shrunk(d, Truncated(d, s, r), s, r)
      BY <2>2, <2>3, <3>4, <3>5, <3>6, TruncatedWhole
    <3>8. Popped(c, s, n) = Truncated(d, s, r)
      BY <1>2, <1>4, <2>4, Zenon
    <3>9. SeqIds(Truncated(d, s, r)) = SeqIds(d)
      BY <3>7, Zenon DEF Shrunk
    <3>10. PopShape(c, Truncated(d, s, r), s, n)
      BY <2>1, <3>4, <3>5, <3>6, Zenon DEF PopShape
    <3> QED BY <2>2, <3>7, <3>8, <3>9, <3>10, Zenon
  <2>5. CASE LastBlock(d, s).external_ref_cnt # 1
    <3>1. ForkFits(d, d.seq_map[s].seq_length - r)
      <4>1. LET left == WithoutBlocks(c, s, Behind(c, s, n)) IN
              LastBlock(left, s).external_ref_cnt # 1 => ForkFits(left, c.seq_map[s].seq_length - n)
        BY Zenon DEF PopFits
      <4>2. ForkFits(d, c.seq_map[s].seq_length - n)
        BY <1>1, <2>5, <4>1, Zenon
      <4> QED BY <2>2, <4>2, Zenon
    <3>2. SeqIds(d) \subseteq SeqId /\ \A x \in SeqIds(d) \ {s} : Alone(d, x)
      BY <2>2
    <3>3. /\ Whole(Reforked(d, s, r), {}) /\ SeqIds(Reforked(d, s, r)) = SeqIds(d)
          /\ ReforkShape(d, Reforked(d, s, r), s, d.seq_map[s].seq_length - r)
      BY <2>2, <2>3, <2>5, <3>1, <3>2, ReforkedWhole
    <3>4. Popped(c, s, n) = Reforked(d, s, r)
      BY <1>2, <1>4, <2>5, Zenon
    <3>5. PopShape(c, Reforked(d, s, r), s, n)
      BY <2>1, <3>3, Zenon DEF PopShape
    <3> QED BY <2>2, <3>3, <3>4, <3>5, Zenon
  <2> QED BY <2>4, <2>5
<1> QED BY <1>3, <1>4

(* What a pop does to a sequence whose own last block is long enough.      *)
LEMMA PoppedInLast ==
  ASSUME NEW c, Whole(c, {}), NEW s \in SeqIds(c), NEW n \in Nat, n <= LastBlock(c, s).seq_length
  PROVE  LET d == Popped(c, s, n) IN
         /\ Whole(d, {}) /\ Shrunk(c, d, s, n)
         /\ d = (IF n = 0 THEN c ELSE Truncated(c, s, n)) /\ Alone(c, s)
<1>1. Structured(c) /\ Typed(c) /\ Chained(c) /\ Counted(c) /\ Ended(c) /\ Private(c, {})
  BY WholeParts
<1>2. PICK b, t : b = c.seq_map[s].last_block_idx /\ t = Trace(c, s)
  OBVIOUS
<1>3. b \in Used(c) /\ Children(c, b) = {} /\ Owners(c, b) = {s} /\ Alone(c, s) /\ Counts(c, b)
  BY <1>1, <1>2 DEF Ended, Ends, Private, Alone, Counted
<1>4. LastBlock(c, s).external_ref_cnt = 1
  <2>1. Cardinality({s}) = 1 /\ Cardinality({}) = 0
    BY FS_Singleton, FS_EmptySet
  <2> QED BY <1>2, <1>3, <2>1 DEF Counts, LastBlock
<1>5. n <= c.seq_map[s].seq_length
  <2>1. PICK p, k : p = c.pool[b].start_pos /\ k = c.pool[b].seq_length
    OBVIOUS
  <2>2. p \in Nat /\ k \in Nat /\ c.seq_map[s].seq_length = p + k /\ n <= k
    BY <1>1, <1>2, <1>3, <2>1, UsedBlocks, BlockFields DEF Ended, Ends, LastBlock
  <2> QED BY <2>2
<1>6. StopsAt(c, s, n, t, Len(t))
  BY <1>1, <1>2, <1>5, StopFound
<1>7. Behind(c, s, n) = SubSeq(t, Len(t) + 1, Len(t))
  BY <1>6, Zenon DEF StopsAt
<1>8. t = GetBlockTrace(c, b)
  BY <1>2 DEF Trace
<1>9. Len(t) \in Nat
  BY <1>1, <1>3, <1>8, TraceBlocks
<1>10. SubSeq(t, Len(t) + 1, Len(t)) = <<>>
  BY <1>9
<1>11. TokensIn(c, <<>>) = 0
  <2>1. Len(t) + 1 \in 1..(Len(t) + 1) /\ Len(t) \in 0..Len(t) /\ Len(t) < Len(t) + 1
    BY <1>9
  <2>2. TokensIn(c, SubSeq(t, Len(t) + 1, Len(t))) = 0
    BY <1>1, <1>3, <1>8, <2>1, TokensBetween
  <2> QED BY <1>10, <2>2, Zenon
<1>12. WithoutBlocks(c, s, <<>>) = c
  BY Zenon DEF WithoutBlocks
<1>13. Popped(c, s, n) = IF n = 0 THEN c ELSE Truncated(c, s, n)
  <2> DEFINE blocks == Behind(c, s, n)
             rest   == n - TokensIn(c, blocks)
             left   == WithoutBlocks(c, s, blocks)
  <2>1. Popped(c, s, n) = IF n = 0 THEN c
                          ELSE IF LastBlock(left, s).external_ref_cnt = 1 THEN Truncated(left, s, rest)
                          ELSE Reforked(left, s, rest)
    BY Zenon DEF Popped
  <2>2. blocks = <<>>
    BY <1>7, <1>10, Zenon
  <2> HIDE DEF blocks
  <2>3. left = c
    BY <1>12, <2>2, Zenon
  <2>4. n - 0 = n
    OBVIOUS
  <2>5. rest = n
    BY <1>11, <2>2, <2>4, Zenon
  <2> HIDE DEF left, rest
  <2> QED BY <1>4, <2>1, <2>3, <2>5, Zenon
<1>14. CASE n = 0
  <2>1. Popped(c, s, n) = c
    BY <1>13, <1>14, Zenon
  <2>2. LastBlock(c, s).seq_length \in Nat
    BY <1>1, <1>2, <1>3, UsedBlocks, BlockFields DEF LastBlock
  <2>3. Shrunk(c, c, s, n)
    BY <1>14, <2>2 DEF Shrunk, OthersKept
  <2> QED BY <1>3, <1>13, <2>1, <2>3, Zenon
<1>15. CASE n # 0
  <2>1. Popped(c, s, n) = Truncated(c, s, n)
    BY <1>13, <1>15, Zenon
  <2>2. Whole(Truncated(c, s, n), {}) /\ Shrunk(c, Truncated(c, s, n), s, n)
    BY <1>3, TruncatedWhole
  <2> QED BY <1>3, <1>13, <2>1, <2>2, Zenon
<1> QED BY <1>14, <1>15

-----------------------------------------------------------------------------
(* CommitAcceptedTokenTreeNodes.                                           *)

(* A token tree's parents come before their children.                      *)
LEMMA ForestFacts ==
  ASSUME NEW p \in Forests
  PROVE  Len(p) \in Nat /\ \A x \in 0..(Len(p) - 1) : p[x + 1] \in -1..(x - 1)
<1>1. PICK n \in 1..MaxAppend : p \in {q \in [1..n -> -1..(n - 2)] : \A i \in 1..n : q[i] < i - 1}
  BY DEF Forests
<1>2. n \in Nat
  BY BoundAssumption
<1>3. p \in [1..n -> -1..(n - 2)] /\ \A i \in 1..n : p[i] < i - 1
  BY <1>1
<1>4. p \in Seq(Int) /\ Len(p) = n
  BY <1>2, <1>3
<1>5. ASSUME NEW x \in 0..(n - 1) PROVE p[x + 1] \in -1..(x - 1)
  <2>1. x + 1 \in 1..n
    BY <1>2
  <2>2. p[x + 1] \in -1..(n - 2) /\ p[x + 1] < (x + 1) - 1
    BY <1>3, <2>1
  <2> QED BY <1>2, <2>2
<1> QED BY <1>2, <1>4, <1>5

(* The paths to the first m nodes of a forest.                             *)
Paths(p, f, m) == f = [x \in -1..(m - 1) |-> IF x = -1 THEN <<>> ELSE Append(f[p[x + 1]], x)]

(* The paths to the nodes of a tree exist.                                 *)
LEMMA PathsExist ==
  ASSUME NEW p, NEW n \in Nat, \A x \in 0..(n - 1) : p[x + 1] \in -1..(x - 1)
  PROVE  \E f : Paths(p, f, n)
<1> DEFINE T == {m \in Nat : m <= n /\ ~ \E f : Paths(p, f, m)}
<1> SUFFICES ASSUME n \in T PROVE FALSE
  OBVIOUS
<1>1. PICK m \in T : \A k \in T : m <= k
  BY LeastNatural
<1>2. CASE m = 0
  <2> DEFINE f == [x \in -1..(0 - 1) |-> <<>>]
  <2>1. \A x \in -1..(0 - 1) : x = -1
    OBVIOUS
  <2>2. f = [x \in -1..(0 - 1) |-> IF x = -1 THEN <<>> ELSE Append(f[p[x + 1]], x)]
    BY <2>1, Zenon
  <2>3. Paths(p, f, 0)
    BY <2>2, Zenon DEF Paths
  <2> QED BY <1>1, <1>2, <2>3
<1>3. CASE m # 0
  <2>1. m - 1 \in Nat /\ m \in Nat /\ ~ (m <= m - 1) /\ m <= n /\ m - 1 <= n
    BY <1>3
  <2>2. m - 1 \notin T
    BY <1>1, <2>1
  <2>3. PICK k \in Nat : k = m - 1 /\ m = k + 1 /\ m <= n
    BY <2>1
  <2>4. PICK f : Paths(p, f, k)
    BY <2>1, <2>2, <2>3
  <2> DEFINE g == [x \in -1..(m - 1) |-> IF x = -1 THEN <<>> ELSE Append(f[p[x + 1]], x)]
  <2>5. f = [x \in -1..(k - 1) |-> IF x = -1 THEN <<>> ELSE Append(f[p[x + 1]], x)]
    BY <2>4, Zenon DEF Paths
  <2>6. ASSUME NEW x \in -1..(k - 1) PROVE g[x] = f[x]
    <3>1. x \in -1..(m - 1)
      BY <2>3
    <3>2. g[x] = IF x = -1 THEN <<>> ELSE Append(f[p[x + 1]], x)
      BY <3>1, Zenon
    <3>3. f[x] = IF x = -1 THEN <<>> ELSE Append(f[p[x + 1]], x)
      BY <2>5, Zenon
    <3> QED BY <3>2, <3>3, Zenon
  <2>7. ASSUME NEW x \in -1..(m - 1)
        PROVE  (IF x = -1 THEN <<>> ELSE Append(f[p[x + 1]], x)) = (IF x = -1 THEN <<>> ELSE Append(g[p[x + 1]], x))
    <3>1. x # -1 => p[x + 1] \in -1..(k - 1)
      <4> SUFFICES ASSUME x # -1 PROVE p[x + 1] \in -1..(k - 1)
        OBVIOUS
      <4>1. x \in 0..(n - 1) /\ x \in Int /\ x <= k
        BY <2>3
      <4>2. p[x + 1] \in -1..(x - 1)
        BY <4>1
      <4> QED BY <4>1, <4>2
    <3>2. x # -1 => g[p[x + 1]] = f[p[x + 1]]
      BY <2>6, <3>1
    <3> HIDE DEF g
    <3> QED BY <3>2, Zenon
  <2>8. g = [x \in -1..(m - 1) |-> IF x = -1 THEN <<>> ELSE Append(g[p[x + 1]], x)]
    BY <2>7, Zenon
  <2>9. Paths(p, g, m)
    BY <2>8, Zenon DEF Paths
  <2> QED BY <1>1, <2>9
<1> QED BY <1>2, <1>3

(* A path has no more nodes than the forest, and its j-th node is not      *)
(* before the j-th of the forest.                                          *)
LEMMA PathDown ==
  ASSUME NEW p \in Forests, NEW leaf \in -1..(Len(p) - 1)
  PROVE  /\ Len(PathTo(p, leaf)) \in Nat /\ Len(PathTo(p, leaf)) <= Len(p)
         /\ PathTo(p, leaf) \in Seq(Int)
         /\ \A j \in 1..Len(PathTo(p, leaf)) : PathTo(p, leaf)[j] >= j - 1
<1> DEFINE l == Len(p)
           g == CHOOSE f : f = [x \in -1..(Len(p) - 1) |-> IF x = -1 THEN <<>> ELSE Append(f[p[x + 1]], x)]
<1>1. l \in Nat /\ \A x \in 0..(l - 1) : p[x + 1] \in -1..(x - 1)
  BY ForestFacts
<1>2. PathTo(p, leaf) = g[leaf]
  BY Zenon DEF PathTo
<1>3. Paths(p, g, l)
  <2>1. \E f : Paths(p, f, l)
    BY <1>1, PathsExist
  <2> QED BY <2>1, Zenon DEF Paths
<1> HIDE DEF g
<1> DEFINE Short(x) == g[x] \in Seq(Int) /\ Len(g[x]) <= x + 1 /\ \A j \in 1..Len(g[x]) : g[x][j] >= j - 1
           T == {m \in Nat : m < l /\ ~ Short(m)}
<1>4. \A x \in -1..(l - 1) : g[x] = IF x = -1 THEN <<>> ELSE Append(g[p[x + 1]], x)
  BY <1>3, Zenon DEF Paths
<1>5. Short(-1)
  <2>1. -1 \in -1..(l - 1)
    BY <1>1
  <2>2. g[-1] = <<>>
    BY <1>4, <2>1, Zenon
  <2>3. <<>> \in Seq(Int) /\ Len(<<>>) = 0
    OBVIOUS
  <2> QED BY <2>2, <2>3
<1>6. T = {}
  <2> SUFFICES ASSUME T # {} PROVE FALSE
    OBVIOUS
  <2>1. PICK m \in T : \A k \in T : m <= k
    BY LeastNatural
  <2>2. m \in Nat /\ m < l /\ ~ Short(m)
    BY <2>1
  <2>3. m \in -1..(l - 1) /\ m # -1 /\ m \in 0..(l - 1)
    BY <1>1, <2>2
  <2>4. PICK k : k = p[m + 1]
    OBVIOUS
  <2>5. k \in -1..(m - 1)
    BY <1>1, <2>3, <2>4
  <2>6. g[m] = Append(g[k], m)
    BY <1>4, <2>3, <2>4, Zenon
  <2>7. Short(k)
    <3>1. CASE k = -1
      BY <1>5, <3>1
    <3>2. CASE k # -1
      <4>1. k \in Nat /\ k < l /\ ~ (m <= k)
        BY <2>2, <2>5, <3>2
      <4> QED BY <2>1, <4>1
    <3> QED BY <3>1, <3>2
  <2>8. PICK q : q = g[k]
    OBVIOUS
  <2>9. q \in Seq(Int) /\ Len(q) <= k + 1 /\ \A j \in 1..Len(q) : q[j] >= j - 1
    BY <2>7, <2>8
  <2>10. Append(q, m) \in Seq(Int) /\ Len(Append(q, m)) = Len(q) + 1 /\ Len(q) \in Nat
    BY <2>2, <2>9
  <2>11. Len(Append(q, m)) <= m + 1
    BY <2>2, <2>5, <2>9, <2>10
  <2>12. \A j \in 1..Len(Append(q, m)) : Append(q, m)[j] >= j - 1
    <3>1. ASSUME NEW j \in 1..(Len(q) + 1) PROVE Append(q, m)[j] >= j - 1
      <4>1. CASE j = Len(q) + 1
        <5>1. Append(q, m)[j] = m
          BY <2>9, <4>1
        <5> QED BY <2>2, <2>5, <2>9, <2>10, <4>1, <5>1
      <4>2. CASE j # Len(q) + 1
        <5>1. j \in 1..Len(q)
          BY <2>10, <4>2
        <5>2. Append(q, m)[j] = q[j]
          BY <2>9, <5>1
        <5> QED BY <2>9, <5>1, <5>2
      <4> QED BY <4>1, <4>2
    <3> QED BY <2>10, <3>1
  <2>13. Short(m)
    BY <2>6, <2>8, <2>10, <2>11, <2>12
  <2> QED BY <2>2, <2>13
<1>7. Short(leaf)
  <2>1. leaf = -1 \/ (leaf \in Nat /\ leaf < l)
    BY <1>1
  <2> QED BY <1>5, <1>6, <2>1
<1>8. /\ g[leaf] \in Seq(Int) /\ Len(g[leaf]) <= leaf + 1 /\ leaf + 1 <= l /\ leaf \in Int
      /\ \A j \in 1..Len(g[leaf]) : g[leaf][j] >= j - 1
  BY <1>1, <1>7
<1>9. Len(g[leaf]) \in Nat
  BY <1>8
<1> QED BY <1>1, <1>2, <1>8, <1>9

LEMMA PathLength ==
  ASSUME NEW p \in Forests, NEW leaf \in -1..(Len(p) - 1)
  PROVE  Len(PathTo(p, leaf)) \in Nat /\ Len(PathTo(p, leaf)) <= Len(p)
BY PathDown

(* The moves of a round, and the caches after the first m of some moves.   *)
AllMoves(r) == FlattenSeq([i \in DOMAIN r |-> Moves(r[i])])
Copying(c, moves, f, m) ==
  f = [i \in 0..m |-> IF i = 0 THEN c ELSE Copied(f[i - 1], moves[i])]

(* The caches between the moves exist.                                     *)
LEMMA CopyingExists ==
  ASSUME NEW c, NEW moves, NEW n \in Nat
  PROVE  \E f : Copying(c, moves, f, n)
<1> DEFINE T == {m \in Nat : ~ \E f : Copying(c, moves, f, m)}
<1> SUFFICES ASSUME n \in T PROVE FALSE
  OBVIOUS
<1>1. PICK m \in T : \A k \in T : m <= k
  BY LeastNatural
<1>2. CASE m = 0
  <2> DEFINE f == [i \in 0..0 |-> c]
  <2>1. f = [i \in 0..0 |-> IF i = 0 THEN c ELSE Copied(f[i - 1], moves[i])]
    <3>1. \A i \in 0..0 : i = 0
      OBVIOUS
    <3> QED BY <3>1, Zenon
  <2>2. Copying(c, moves, f, 0)
    BY <2>1, Zenon DEF Copying
  <2> QED BY <1>1, <1>2, <2>2
<1>3. CASE m # 0
  <2>1. m - 1 \in Nat /\ m \in Nat /\ ~ (m <= m - 1)
    BY <1>3
  <2>2. m - 1 \notin T
    BY <1>1, <2>1
  <2>3. PICK k \in Nat : k = m - 1 /\ m = k + 1
    BY <2>1
  <2>4. PICK f : Copying(c, moves, f, k)
    BY <2>2, <2>3
  <2> DEFINE g == [i \in 0..m |-> IF i = 0 THEN c ELSE Copied(f[i - 1], moves[i])]
  <2>5. f = [i \in 0..k |-> IF i = 0 THEN c ELSE Copied(f[i - 1], moves[i])]
    BY <2>4, Zenon DEF Copying
  <2>6. ASSUME NEW i \in 0..k PROVE g[i] = f[i]
    <3>1. i \in 0..m
      BY <2>3
    <3>2. g[i] = IF i = 0 THEN c ELSE Copied(f[i - 1], moves[i])
      BY <3>1, Zenon
    <3>3. f[i] = IF i = 0 THEN c ELSE Copied(f[i - 1], moves[i])
      BY <2>5, Zenon
    <3> QED BY <3>2, <3>3, Zenon
  <2>7. ASSUME NEW i \in 0..m
        PROVE  (IF i = 0 THEN c ELSE Copied(f[i - 1], moves[i])) =
               (IF i = 0 THEN c ELSE Copied(g[i - 1], moves[i]))
    <3>1. i # 0 => i - 1 \in 0..k
      BY <2>3
    <3>2. i # 0 => g[i - 1] = f[i - 1]
      BY <2>6, <3>1
    <3> HIDE DEF g
    <3> QED BY <3>2, Zenon
  <2>8. g = [i \in 0..m |-> IF i = 0 THEN c ELSE Copied(g[i - 1], moves[i])]
    BY <2>7, Zenon
  <2>9. Copying(c, moves, g, m)
    BY <2>8, Zenon DEF Copying
  <2> QED BY <1>1, <2>9
<1> QED BY <1>2, <1>3

(* The moves of a round are a sequence, and the copy makes them in turn.   *)
LEMMA CopyInTurn ==
  ASSUME NEW c, NEW d, NEW r, RoundDue(d, r)
  PROVE  /\ Len(AllMoves(r)) \in Nat
         /\ \E f : /\ f[0] = c /\ Compacted(c, r) = f[Len(AllMoves(r))]
                  /\ \A i \in 1..Len(AllMoves(r)) : f[i] = Copied(f[i - 1], AllMoves(r)[i])
<1> DEFINE rows == [i \in DOMAIN r |-> Moves(r[i])]
           X == UNION {{Moves(r[i])[k] : k \in DOMAIN Accepted(r[i])} : i \in DOMAIN r}
<1>1. ASSUME NEW i \in DOMAIN r PROVE Moves(r[i]) \in Seq(X)
  <2>1. PICK m \in Nat : DOMAIN Accepted(r[i]) = 1..m
    <3>1. r[i].parents \in Forests /\ r[i].leaf \in -1..(Len(r[i].parents) - 1)
      BY DEF RoundDue, Due
    <3>2. PathTo(r[i].parents, r[i].leaf) \in Seq(Int)
      BY <3>1, PathDown
    <3>3. PICK q : q = Accepted(r[i]) /\ q \in Seq(Int)
      BY <3>2 DEF Accepted
    <3> QED BY <3>3
  <2>2. Moves(r[i]) = [k \in 1..m |-> Moves(r[i])[k]]
    BY <2>1 DEF Moves
  <2>3. ASSUME NEW k \in 1..m PROVE Moves(r[i])[k] \in X
    <3>1. {Moves(r[i])[z] : z \in DOMAIN Accepted(r[i])} \in
            {{Moves(r[y])[z] : z \in DOMAIN Accepted(r[y])} : y \in DOMAIN r}
      BY Zenon
    <3>2. Moves(r[i])[k] \in {Moves(r[i])[z] : z \in DOMAIN Accepted(r[i])}
      BY <2>1
    <3> QED BY <3>1, <3>2, Zenon
  <2> HIDE DEF X
  <2>4. Moves(r[i]) \in [1..m -> X]
    BY <2>2, <2>3
  <2> QED BY <2>4
<1>2. PICK l \in Nat : DOMAIN r = 1..l
  BY DEF RoundDue
<1> HIDE DEF X
<1>3. rows \in Seq(Seq(X))
  <2>1. PICK S : S = Seq(X)
    OBVIOUS
  <2>2. rows \in [1..l -> S]
    BY <1>1, <1>2, <2>1
  <2>3. rows \in Seq(S)
    BY <1>2, <2>2
  <2> QED BY <2>1, <2>3
<1>4. AllMoves(r) \in Seq(X)
  <2>1. <<>> \in Seq(X)
    OBVIOUS
  <2>2. FlattenSeq(rows) \in Seq(X)
    BY <1>3, <2>1, FlattenAppend
  <2> QED BY <2>2 DEF AllMoves
<1>5. PICK moves, n : moves = AllMoves(r) /\ n = Len(moves) /\ n \in Nat
  BY <1>4
<1> DEFINE g == CHOOSE f : f = [i \in 0..n |-> IF i = 0 THEN c ELSE Copied(f[i - 1], moves[i])]
<1>6. Compacted(c, r) = g[n]
  BY <1>5, Zenon DEF Compacted, AllMoves
<1>7. Copying(c, moves, g, n)
  <2>1. \E f : Copying(c, moves, f, n)
    BY <1>5, CopyingExists
  <2> QED BY <2>1, Zenon DEF Copying
<1> HIDE DEF g
<1>8. g[0] = c /\ \A i \in 1..n : g[i] = Copied(g[i - 1], moves[i])
  <2>1. \A i \in 0..n : g[i] = IF i = 0 THEN c ELSE Copied(g[i - 1], moves[i])
    BY <1>7, Zenon DEF Copying
  <2>2. 0 \in 0..n /\ \A i \in 1..n : i \in 0..n /\ i # 0
    BY <1>5
  <2> QED BY <2>1, <2>2, Zenon
<1> QED BY <1>5, <1>6, <1>8

(* The copy moves tokens only.                                             *)
SameForest(c, d) == Whole(d, {}) /\ SeqIds(d) = SeqIds(c) /\ d.seq_map = c.seq_map /\ d.pool = c.pool
LEMMA CompactedWhole ==
  ASSUME NEW c, Whole(c, {}), NEW r, RoundDue(c, r)
  PROVE  SameForest(c, Compacted(c, r))
<1>1. PICK f, n : /\ n \in Nat /\ f[0] = c /\ Compacted(c, r) = f[n]
                  /\ \A i \in 1..n : f[i] = Copied(f[i - 1], AllMoves(r)[i])
  <2>1. /\ Len(AllMoves(r)) \in Nat
        /\ \E f : /\ f[0] = c /\ Compacted(c, r) = f[Len(AllMoves(r))]
                 /\ \A i \in 1..Len(AllMoves(r)) : f[i] = Copied(f[i - 1], AllMoves(r)[i])
    BY CopyInTurn
  <2> QED BY <2>1, Zenon
<1> DEFINE T == {i \in Nat : i <= n /\ ~ SameForest(c, f[i])}
<1>2. T = {}
  <2> SUFFICES ASSUME T # {} PROVE FALSE
    OBVIOUS
  <2>1. PICK m \in T : \A k \in T : m <= k
    BY LeastNatural
  <2>2. m # 0
    BY <1>1, <2>1 DEF SameForest
  <2>3. PICK k \in Nat : k = m - 1 /\ m \in 1..n /\ k <= n /\ ~ (m <= k)
    BY <1>1, <2>1, <2>2
  <2>4. PICK d, slots, tokens : d = f[k] /\ f[m] = Written(d, slots, tokens)
    BY <1>1, <2>3, Zenon DEF Copied
  <2>5. SameForest(c, d)
    BY <2>1, <2>3, <2>4
  <2>6. SameForest(c, Written(d, slots, tokens))
    BY <2>5, WrittenWhole DEF SameForest
  <2> QED BY <2>1, <2>4, <2>6
<1> QED BY <1>1, <1>2

(* The tokens of a round that are popped again.                            *)
Rejected(entry) == Len(entry.parents) - Len(Accepted(entry))

(* A round rejects no more than it appended.                               *)
LEMMA RejectedFits ==
  ASSUME NEW c, NEW entry, Due(c, entry)
  PROVE  Rejected(entry) \in Nat /\ Rejected(entry) <= Len(entry.parents) /\ Len(entry.parents) \in Nat
<1>1. PICK p, leaf : p = entry.parents /\ leaf = entry.leaf
  OBVIOUS
<1>2. p \in Forests /\ leaf \in -1..(Len(p) - 1)
  BY <1>1 DEF Due
<1>3. Len(p) \in Nat /\ Len(PathTo(p, leaf)) \in Nat /\ Len(PathTo(p, leaf)) <= Len(p)
  BY <1>2, PathLength, ForestFacts
<1>4. Accepted(entry) = PathTo(p, leaf)
  BY <1>1, Zenon DEF Accepted
<1>5. Rejected(entry) = Len(p) - Len(PathTo(p, leaf))
  BY <1>1, <1>4, Zenon DEF Rejected
<1>6. PICK k, m : k = Len(p) /\ m = Len(PathTo(p, leaf))
  OBVIOUS
<1>7. k \in Nat /\ m \in Nat /\ m <= k /\ Rejected(entry) = k - m /\ Len(entry.parents) = k
  BY <1>1, <1>3, <1>5, <1>6, Zenon
<1>8. k - m \in Nat /\ k - m <= k
  BY <1>7
<1> QED BY <1>7, <1>8, Zenon

(* The caches after the first m pops of a commit that starts at c.         *)
Popping(c, r, f, m) ==
  f = [i \in 0..m |-> IF i = 0 THEN c ELSE Popped(f[i - 1], r[i].seq, Rejected(r[i]))]

(* The caches between the pops of a commit exist.                          *)
LEMMA PoppingExists ==
  ASSUME NEW c, NEW r, NEW n \in Nat
  PROVE  \E f : Popping(c, r, f, n)
<1> DEFINE T == {m \in Nat : ~ \E f : Popping(c, r, f, m)}
<1> SUFFICES ASSUME n \in T PROVE FALSE
  OBVIOUS
<1>1. PICK m \in T : \A k \in T : m <= k
  BY LeastNatural
<1>2. CASE m = 0
  <2> DEFINE f == [i \in 0..0 |-> c]
  <2>1. f = [i \in 0..0 |-> IF i = 0 THEN c ELSE Popped(f[i - 1], r[i].seq, Rejected(r[i]))]
    <3>1. \A i \in 0..0 : i = 0
      OBVIOUS
    <3> QED BY <3>1, Zenon
  <2>2. Popping(c, r, f, 0)
    BY <2>1, Zenon DEF Popping
  <2> QED BY <1>1, <1>2, <2>2
<1>3. CASE m # 0
  <2>1. m - 1 \in Nat /\ m \in Nat /\ ~ (m <= m - 1)
    BY <1>3
  <2>2. m - 1 \notin T
    BY <1>1, <2>1
  <2>3. PICK k \in Nat : k = m - 1 /\ m = k + 1
    BY <2>1
  <2>4. PICK f : Popping(c, r, f, k)
    BY <2>2, <2>3
  <2> DEFINE g == [i \in 0..m |-> IF i = 0 THEN c ELSE Popped(f[i - 1], r[i].seq, Rejected(r[i]))]
  <2>5. f = [i \in 0..k |-> IF i = 0 THEN c ELSE Popped(f[i - 1], r[i].seq, Rejected(r[i]))]
    BY <2>4, Zenon DEF Popping
  <2>6. ASSUME NEW i \in 0..k PROVE g[i] = f[i]
    <3>1. i \in 0..m
      BY <2>3
    <3>2. g[i] = IF i = 0 THEN c ELSE Popped(f[i - 1], r[i].seq, Rejected(r[i]))
      BY <3>1, Zenon
    <3>3. f[i] = IF i = 0 THEN c ELSE Popped(f[i - 1], r[i].seq, Rejected(r[i]))
      BY <2>5, Zenon
    <3> QED BY <3>2, <3>3, Zenon
  <2>7. ASSUME NEW i \in 0..m
        PROVE  (IF i = 0 THEN c ELSE Popped(f[i - 1], r[i].seq, Rejected(r[i]))) =
               (IF i = 0 THEN c ELSE Popped(g[i - 1], r[i].seq, Rejected(r[i])))
    <3>1. i # 0 => i - 1 \in 0..k
      BY <2>3
    <3>2. i # 0 => g[i - 1] = f[i - 1]
      BY <2>6, <3>1
    <3> HIDE DEF g
    <3> QED BY <3>2, Zenon
  <2>8. g = [i \in 0..m |-> IF i = 0 THEN c ELSE Popped(g[i - 1], r[i].seq, Rejected(r[i]))]
    BY <2>7, Zenon
  <2>9. Popping(c, r, g, m)
    BY <2>8, Zenon DEF Popping
  <2> QED BY <1>1, <2>9
<1> QED BY <1>2, <1>3

(* After the first i entries of a round.                                   *)
StillDue(c, r, d, i) ==
  /\ Whole(d, {}) /\ SeqIds(d) = SeqIds(c)
  /\ \A j \in (i + 1)..Len(r) : Len(r[j].parents) <= LastBlock(d, r[j].seq).seq_length

(* One more entry of a commit.                                             *)
LEMMA StillDueMore ==
  ASSUME NEW c, NEW r, RoundDue(c, r), NEW i \in Nat, i + 1 \in 1..Len(r), NEW d, StillDue(c, r, d, i),
         NEW e, e = Popped(d, r[i + 1].seq, Rejected(r[i + 1]))
  PROVE  StillDue(c, r, e, i + 1)
<1>1. PICK entry, s, n : entry = r[i + 1] /\ s = entry.seq /\ n = Rejected(entry)
  OBVIOUS
<1>2. /\ Len(r) \in Nat /\ DOMAIN r = 1..Len(r) /\ (\A j \in 1..Len(r) : Due(c, r[j]))
      /\ \A j, k \in 1..Len(r) : r[j].seq = r[k].seq => j = k
  BY DEF RoundDue
<1>3. Due(c, entry) /\ entry.seq \in SeqIds(c)
  BY <1>1, <1>2 DEF Due
<1>4. n \in Nat /\ n <= Len(entry.parents) /\ Len(entry.parents) \in Nat
  BY <1>1, <1>3, RejectedFits
<1>5. /\ Whole(d, {}) /\ SeqIds(d) = SeqIds(c)
      /\ \A j \in (i + 1)..Len(r) : Len(r[j].parents) <= LastBlock(d, r[j].seq).seq_length
  BY DEF StillDue
<1>6. s \in SeqIds(d)
  BY <1>1, <1>3, <1>5
<1>7. LastBlock(d, s).seq_length \in Nat
  BY <1>5, <1>6, WholeParts, SequenceFields, BlockFields DEF LastBlock
<1>8. n <= LastBlock(d, s).seq_length
  <2>1. i + 1 \in (i + 1)..Len(r)
    BY <1>2
  <2>2. Len(entry.parents) <= LastBlock(d, s).seq_length
    BY <1>1, <1>5, <2>1, Zenon
  <2> QED BY <1>4, <1>7, <2>2
<1>9. Whole(Popped(d, s, n), {}) /\ Shrunk(d, Popped(d, s, n), s, n)
  BY <1>4, <1>5, <1>6, <1>8, PoppedInLast
<1>10. e = Popped(d, s, n)
  BY <1>1, Zenon
<1>11. Whole(e, {}) /\ SeqIds(e) = SeqIds(d) /\ OthersKept(d, e, s)
  BY <1>9, <1>10, Zenon DEF Shrunk
<1>12. ASSUME NEW j \in (i + 2)..Len(r) PROVE Len(r[j].parents) <= LastBlock(e, r[j].seq).seq_length
  <2>1. j \in 1..Len(r) /\ j # i + 1 /\ j \in (i + 1)..Len(r)
    BY <1>2
  <2>2. r[j].seq \in SeqIds(d) /\ r[j].seq # s
    BY <1>1, <1>2, <1>5, <2>1 DEF Due
  <2>3. LastBlock(e, r[j].seq) = LastBlock(d, r[j].seq)
    BY <1>11, <2>2 DEF OthersKept
  <2>4. Len(r[j].parents) <= LastBlock(d, r[j].seq).seq_length
    BY <1>5, <2>1
  <2> QED BY <2>3, <2>4, Zenon
<1>13. (i + 1) + 1 = i + 2
  OBVIOUS
<1> QED BY <1>5, <1>11, <1>12, <1>13, Zenon DEF StillDue

(* A commit keeps the structure.                                           *)
LEMMA CommittedWhole ==
  ASSUME NEW c, Whole(c, {}), NEW r, RoundDue(c, r)
  PROVE  Whole(Committed(c, r), {}) /\ SeqIds(Committed(c, r)) = SeqIds(c)
<1> DEFINE l == Len(r)
           start == IF CopyNeeded(r) THEN Compacted(c, r) ELSE c
           g == CHOOSE f : f = [i \in 0..Len(r) |-> IF i = 0 THEN start
                                ELSE Popped(f[i - 1], r[i].seq, Len(r[i].parents) - Len(Accepted(r[i])))]
<1>1. l \in Nat
  BY DEF RoundDue
<1>2. Committed(c, r) = g[l]
  BY Zenon DEF Committed
<1>3. StillDue(c, r, start, 0)
  <2>1. Whole(start, {}) /\ SeqIds(start) = SeqIds(c) /\ start.seq_map = c.seq_map /\ start.pool = c.pool
    BY CompactedWhole DEF SameForest
  <2> HIDE DEF start
  <2>2. \A x : LastBlock(start, x) = LastBlock(c, x)
    BY <2>1, Zenon DEF LastBlock
  <2>3. ASSUME NEW j \in (0 + 1)..l PROVE Len(r[j].parents) <= LastBlock(start, r[j].seq).seq_length
    <3>1. j \in DOMAIN r
      BY DEF RoundDue
    <3>2. Due(c, r[j])
      BY <3>1 DEF RoundDue
    <3>3. Len(r[j].parents) <= LastBlock(c, r[j].seq).seq_length
      BY <3>2, Zenon DEF Due
    <3> QED BY <2>2, <3>3, Zenon
  <2> QED BY <2>1, <2>3, Zenon DEF StillDue
<1> HIDE DEF start
<1>4. Popping(start, r, g, l)
  <2>1. \E f : Popping(start, r, f, l)
    BY <1>1, PoppingExists, Zenon
  <2> QED BY <2>1, Zenon DEF Popping, Rejected
<1> HIDE DEF g
<1>5. /\ g[0] = start
      /\ \A i \in 1..l : g[i] = Popped(g[i - 1], r[i].seq, Rejected(r[i]))
  <2>1. \A i \in 0..l : g[i] = IF i = 0 THEN start ELSE Popped(g[i - 1], r[i].seq, Rejected(r[i]))
    BY <1>4, Zenon DEF Popping
  <2>2. 0 \in 0..l /\ \A i \in 1..l : i \in 0..l /\ i # 0
    BY <1>1
  <2> HIDE DEF l
  <2> QED BY <2>1, <2>2, Zenon
<1> DEFINE T == {i \in Nat : i <= l /\ ~ StillDue(c, r, g[i], i)}
<1>6. T = {}
  <2> SUFFICES ASSUME T # {} PROVE FALSE
    OBVIOUS
  <2> HIDE DEF l
  <2>1. PICK m \in T : \A k \in T : m <= k
    BY LeastNatural
  <2>2. m # 0
    BY <1>3, <1>5, <2>1
  <2>3. PICK k \in Nat : m = k + 1 /\ k + 1 \in 1..l /\ k <= l
    <3>1. m \in Nat /\ m <= l
      BY <2>1
    <3>2. m - 1 \in Nat /\ m = (m - 1) + 1 /\ (m - 1) + 1 \in 1..l /\ m - 1 <= l
      BY <1>1, <2>2, <3>1
    <3> QED BY <3>2
  <2>4. StillDue(c, r, g[k], k)
    <3>1. ~ (m <= k)
      BY <2>3
    <3> QED BY <2>1, <2>3, <3>1
  <2>5. g[m] = Popped(g[k], r[k + 1].seq, Rejected(r[k + 1]))
    <3>1. g[k + 1] = Popped(g[(k + 1) - 1], r[k + 1].seq, Rejected(r[k + 1]))
      BY <1>5, <2>3, Zenon
    <3>2. (k + 1) - 1 = k
      BY <2>3
    <3> QED BY <2>3, <3>1, <3>2, Zenon
  <2>6. PICK d, e : d = g[k] /\ e = g[m]
    OBVIOUS
  <2>7. StillDue(c, r, e, k + 1)
    <3>1. StillDue(c, r, d, k) /\ e = Popped(d, r[k + 1].seq, Rejected(r[k + 1])) /\ k + 1 \in 1..Len(r)
      BY <2>3, <2>4, <2>5, <2>6 DEF l
    <3> QED BY <3>1, StillDueMore
  <2> QED BY <2>1, <2>3, <2>6, <2>7
<1>7. StillDue(c, r, g[l], l)
  BY <1>1, <1>6
<1> QED BY <1>2, <1>7, Zenon DEF StillDue

-----------------------------------------------------------------------------
(* The invariant.                                                          *)

(* No round is due.                                                        *)
LEMMA NoRoundDue == ASSUME NEW c PROVE RoundDue(c, <<>>)
BY DEF RoundDue

(* A batch names sequences of the cache, each once.                        *)
LEMMA BatchFacts ==
  ASSUME NEW batch \in Batches
  PROVE  /\ IsBatch(cache, batch) /\ DOMAIN batch = 1..Len(batch)
         /\ \A i, j \in DOMAIN batch : batch[i].seq = batch[j].seq => i = j
<1>0. PICK k \in 1..MaxBatch :
        \E q \in Injection(1..k, SeqIds(cache)), n \in [1..k -> 1..MaxAppend] :
          batch = [i \in 1..k |-> [seq |-> q[i], n |-> n[i]]]
  BY SMTT(30) DEF Batches
<1>1. PICK q \in Injection(1..k, SeqIds(cache)), n \in [1..k -> 1..MaxAppend] :
        batch = [i \in 1..k |-> [seq |-> q[i], n |-> n[i]]]
  BY <1>0
<1>2. k \in Nat
  BY BoundAssumption
<1>3. q \in [1..k -> SeqIds(cache)] /\ \A i, j \in 1..k : q[i] = q[j] => i = j
  BY <1>1 DEF Injection, IsInjective
<1>4. DOMAIN batch = 1..k /\ \A i \in 1..k : batch[i].seq = q[i] /\ batch[i].n = n[i]
  BY <1>1
<1>5. Len(batch) = k
  BY <1>1, <1>2
<1>6. \A i \in 1..k : n[i] \in Nat /\ q[i] \in SeqIds(cache)
  BY <1>3, BoundAssumption
<1>7. IsBatch(cache, batch)
  BY <1>2, <1>4, <1>5, <1>6 DEF IsBatch
<1> QED BY <1>3, <1>4, <1>5, <1>7

(* A round of token trees is due once its tokens are there.                *)
LEMMA TreesDue ==
  ASSUME NEW batch \in Batches, NEW forests \in [DOMAIN batch -> Forests],
         NEW leaves \in [DOMAIN batch -> -1..(MaxAppend - 1)],
         \A i \in DOMAIN batch : Len(forests[i]) = batch[i].n /\ leaves[i] < batch[i].n,
         NEW result, HasGrown(cache, batch, result, Len(batch)), result.threw = "no",
         NEW r, r = [i \in DOMAIN batch |-> [seq |-> batch[i].seq, parents |-> forests[i], leaf |-> leaves[i],
                                             slots |-> result.slots[i]]]
  PROVE  RoundDue(result.cache, r)
<1>1. PICK k, e : k = Len(batch) /\ e = result.cache
  OBVIOUS
<1>2. /\ k \in Nat /\ DOMAIN batch = 1..k
      /\ \A i \in 1..k : batch[i].seq \in SeqIds(cache) /\ batch[i].n \in Nat
      /\ \A i, j \in 1..k : batch[i].seq = batch[j].seq => i = j
  BY <1>1, BatchFacts DEF IsBatch
<1>3. /\ SeqIds(e) = SeqIds(cache)
      /\ \A j \in 1..k : batch[j].n <= LastBlock(e, batch[j].seq).seq_length
  BY <1>1 DEF HasGrown
<1>4. /\ DOMAIN r = 1..k
      /\ \A i \in 1..k : /\ r[i].seq = batch[i].seq /\ r[i].parents = forests[i] /\ r[i].leaf = leaves[i]
  BY <1>2
<1>5. Len(r) = k
  BY <1>2
<1>6. ASSUME NEW i \in 1..k PROVE Due(e, r[i])
  <2>1. forests[i] \in Forests /\ leaves[i] \in -1..(MaxAppend - 1)
    BY <1>2
  <2>2. Len(forests[i]) = batch[i].n /\ leaves[i] < batch[i].n /\ batch[i].n \in Nat
    BY <1>2
  <2>3. leaves[i] \in -1..(Len(forests[i]) - 1)
    BY <2>1, <2>2, BoundAssumption
  <2>4. Len(forests[i]) <= LastBlock(e, batch[i].seq).seq_length /\ batch[i].seq \in SeqIds(e)
    BY <1>2, <1>3, <2>2
  <2> QED BY <1>4, <2>1, <2>3, <2>4, Zenon DEF Due
<1>7. \A i, j \in 1..k : r[i].seq = r[j].seq => i = j
  BY <1>2, <1>4
<1>8. RoundDue(e, r)
  <2>1. Len(r) \in Nat /\ DOMAIN r = 1..Len(r)
    BY <1>2, <1>4, <1>5, Zenon
  <2>2. \A i \in DOMAIN r : Due(e, r[i])
    BY <1>4, <1>6, Zenon
  <2>3. \A i, j \in DOMAIN r : r[i].seq = r[j].seq => i = j
    <3>1. DOMAIN r = 1..k
      BY <1>4, Zenon
    <3> QED BY <1>7, <3>1, Zenon
  <2> QED BY <2>1, <2>2, <2>3, Zenon DEF RoundDue
<1> QED BY <1>1, <1>8, Zenon

(* The invariant holds at first.                                           *)
LEMMA InvariantInit == Init => StructureInvariant
<1> SUFFICES ASSUME Init PROVE StructureInvariant
  OBVIOUS
<1>1. cache = Cleared /\ round = <<>>
  BY DEF Init
<1>2. Whole(Cleared, {}) /\ SeqIds(Cleared) = {}
  BY ClearedWhole
<1>3. SeqIds(cache) \subseteq SeqId
  BY <1>1, <1>2
<1>4. RoundDue(cache, round)
  BY <1>1, NoRoundDue
<1>5. Whole(cache, {})
  BY <1>1, <1>2, Zenon
<1> QED BY <1>3, <1>4, <1>5 DEF StructureInvariant

(* A call that returns, one that throws, one that leaves no round due.     *)
LEMMA CallReturns ==
  ASSUME Ready, NEW c, Whole(c, {}), SeqIds(c) \subseteq SeqId, Returns(c)
  PROVE  StructureInvariant'
<1>1. cache' = c /\ round' = <<>>
  BY DEF Ready, Returns
<1>2. RoundDue(c, <<>>)
  BY NoRoundDue
<1>3. Whole(cache', {}) /\ SeqIds(cache') \subseteq SeqId /\ RoundDue(cache', round')
  BY <1>1, <1>2, Zenon
<1> QED BY <1>3 DEF StructureInvariant

(* A check that fails changes nothing.                                     *)
LEMMA CallThrows ==
  ASSUME StructureInvariant, NEW check, Throws(check)
  PROVE  StructureInvariant'
<1>1. cache' = cache /\ round' = round
  BY DEF Throws
<1> QED BY <1>1 DEF StructureInvariant

(* A free sequence id leaves a free block.                                 *)
LEMMA ChildRoom ==
  ASSUME SeqIds(cache) \subseteq SeqId, NEW child \in SeqId, child \notin SeqIds(cache)
  PROVE  Room(cache)
<1>1. IsFiniteSet(SeqId)
  BY PoolAssumption
<1>2. Cardinality(SeqIds(cache)) <= Cardinality(SeqId) /\ Cardinality(SeqIds(cache)) # Cardinality(SeqId)
  BY <1>1, FS_Subset
<1>3. IsFiniteSet(SeqIds(cache))
  BY <1>1, FS_Subset
<1>4. Cardinality(SeqIds(cache)) \in Nat /\ Cardinality(SeqId) \in Nat
  BY <1>1, <1>3, FS_CardinalityType
<1>5. Cardinality(SeqIds(cache)) < Cardinality(SeqId)
  BY <1>2, <1>4
<1> QED BY <1>5, Zenon DEF Room

(* One step per operation of the cache.  Without sliding windows the check *)
(* that can fail in a round is the one for a free page.                    *)
LEMMA InvariantStep ==
  ASSUME ~support_sliding_window, StructureInvariant, [Next]_vars
  PROVE  StructureInvariant'
<1>1. Whole(cache, {}) /\ SeqIds(cache) \subseteq SeqId /\ RoundDue(cache, round)
  BY DEF StructureInvariant
<1>2. CASE Clear
  <2>1. Ready /\ Returns(Cleared)
    BY <1>2 DEF Clear
  <2>2. PICK c : c = Cleared
    OBVIOUS
  <2>3. Whole(c, {}) /\ SeqIds(c) \subseteq SeqId
    BY <2>2, ClearedWhole
  <2> QED BY <2>1, <2>2, <2>3, CallReturns
<1>3. ASSUME NEW s \in SeqId, AddSequence(s) PROVE StructureInvariant'
  <2>1. Ready /\ s \in SeqId \ SeqIds(cache) /\ Returns(Added(cache, s))
    BY <1>3 DEF AddSequence
  <2>2. Whole(Added(cache, s), {}) /\ SeqIds(Added(cache, s)) = SeqIds(cache) \cup {s}
    BY <1>1, <2>1, AddedWhole
  <2>3. SeqIds(Added(cache, s)) \subseteq SeqId
    BY <1>1, <1>3, <2>2
  <2> QED BY <2>1, <2>2, <2>3, CallReturns
<1>4. ASSUME NEW s \in SeqId, RemoveSequence(s) PROVE StructureInvariant'
  <2>1. Ready /\ s \in SeqIds(cache) /\ Returns(Removed(cache, s))
    BY <1>4 DEF RemoveSequence
  <2>2. Whole(Removed(cache, s), {}) /\ SeqIds(Removed(cache, s)) = SeqIds(cache) \ {s}
    BY <1>1, <2>1, RemovedWhole
  <2>3. SeqIds(Removed(cache, s)) \subseteq SeqId
    BY <1>1, <2>2
  <2> QED BY <2>1, <2>2, <2>3, CallReturns
<1>5. ASSUME NEW batch \in Batches, BeginForward(batch) PROVE StructureInvariant'
  <2>1. PICK result : result = Forwarded(cache, batch, FALSE)
    OBVIOUS
  <2>2. Ready /\ IF result.threw = "no" THEN Returns(result.cache) ELSE Throws(result.threw)
    BY <1>5, <2>1 DEF BeginForward
  <2>3. IsBatch(cache, batch)
    BY BatchFacts
  <2>4. HasGrown(cache, batch, result, Len(batch))
    BY <1>1, <2>1, <2>3, ForwardedWhole
  <2>5. CASE result.threw = "no"
    <3>1. Whole(result.cache, {}) /\ SeqIds(result.cache) = SeqIds(cache)
      BY <2>4, <2>5, Zenon DEF HasGrown
    <3>2. Returns(result.cache)
      BY <2>2, <2>5
    <3>3. SeqIds(result.cache) \subseteq SeqId
      BY <1>1, <3>1
    <3> QED BY <2>2, <3>1, <3>2, <3>3, CallReturns
  <2>6. CASE result.threw # "no"
    BY <2>2, <2>6, CallThrows
  <2> QED BY <2>5, <2>6
<1>6. ASSUME NEW s \in SeqIds(cache), NEW n \in 1..MaxAppend, DisaggPrepareRecv(s, n)
      PROVE  StructureInvariant'
  <2>1. PICK batch, result : /\ batch = <<[seq |-> s, n |-> n]>>
                             /\ result = Forwarded(cache, batch, TRUE)
    OBVIOUS
  <2>2. Ready /\ IF result.threw = "no" THEN Returns(result.cache) ELSE Throws(result.threw)
    BY <1>6, <2>1 DEF DisaggPrepareRecv
  <2>3. IsBatch(cache, batch)
    <3>1. Len(batch) = 1 /\ batch[1].seq = s /\ batch[1].n = n
      BY <2>1
    <3>2. n \in Nat
      BY BoundAssumption
    <3> QED BY <3>1, <3>2 DEF IsBatch
  <2>4. HasGrown(cache, batch, result, Len(batch))
    BY <1>1, <2>1, <2>3, ForwardedWhole
  <2>5. CASE result.threw = "no"
    <3>1. Whole(result.cache, {}) /\ SeqIds(result.cache) = SeqIds(cache)
      BY <2>4, <2>5, Zenon DEF HasGrown
    <3>2. Returns(result.cache)
      BY <2>2, <2>5
    <3>3. SeqIds(result.cache) \subseteq SeqId
      BY <1>1, <3>1
    <3> QED BY <2>2, <3>1, <3>2, <3>3, CallReturns
  <2>6. CASE result.threw # "no"
    BY <2>2, <2>6, CallThrows
  <2> QED BY <2>5, <2>6
<1>7. ASSUME NEW s \in SeqIds(cache), NEW n, NEW start, DebugSetKV(s, start, n)
      PROVE  StructureInvariant'
  <2>1. PICK slots, tokens : Ready /\ Returns(Written(cache, slots, tokens))
    BY <1>7, Zenon DEF DebugSetKV
  <2>2. PICK d : d = Written(cache, slots, tokens)
    OBVIOUS
  <2>3. Whole(d, {}) /\ SeqIds(d) = SeqIds(cache)
    BY <1>1, <2>2, WrittenWhole
  <2>4. SeqIds(d) \subseteq SeqId
    BY <1>1, <2>3
  <2> QED BY <2>1, <2>2, <2>3, <2>4, CallReturns
<1>8. ASSUME NEW s \in SeqIds(cache), NEW child \in SeqId, NEW pos \in 0..MaxLength, ForkSequence(s, child, pos)
      PROVE  StructureInvariant'
  <2>1. /\ Ready /\ child \notin SeqIds(cache) /\ pos <= cache.seq_map[s].seq_length
        /\ IF ForkFits(ReadyToFork(cache, s, pos), pos)
           THEN Returns(Forked(cache, s, child, pos)) ELSE Throws("full")
    BY <1>8 DEF ForkSequence
  <2>2. CASE ForkFits(ReadyToFork(cache, s, pos), pos)
    <3>1. Room(cache)
      BY <1>1, <2>1, ChildRoom
    <3>2. pos \in Nat /\ child \in SeqId \cup {TempSeq}
      BY BoundAssumption
    <3>3. PICK d : d = Forked(cache, s, child, pos)
      OBVIOUS
    <3>4. HasForked(cache, d, s, child, pos, {})
      BY <1>1, <2>1, <2>2, <3>1, <3>2, <3>3, ForkedWhole
    <3>5. Whole(d, {}) /\ SeqIds(d) = SeqIds(cache) \cup {child}
      BY <3>4, Zenon DEF HasForked
    <3>6. SeqIds(d) \subseteq SeqId
      BY <1>1, <3>5
    <3>7. Returns(d)
      BY <2>1, <2>2, <3>3, Zenon
    <3> QED BY <2>1, <3>5, <3>6, <3>7, CallReturns
  <2>3. CASE ~ForkFits(ReadyToFork(cache, s, pos), pos)
    <3>1. Throws("full")
      BY <2>1, <2>3, Zenon
    <3> QED BY <3>1, CallThrows
  <2> QED BY <2>2, <2>3
<1>9. ASSUME NEW s \in SeqIds(cache), NEW n \in 1..MaxLength, PopN(s, n) PROVE StructureInvariant'
  <2>1. /\ Ready /\ n <= cache.seq_map[s].seq_length
        /\ IF PopFits(cache, s, n) THEN Returns(Popped(cache, s, n)) ELSE Throws("fork")
    BY <1>9 DEF PopN
  <2>2. CASE PopFits(cache, s, n)
    <3>1. n \in Nat
      BY BoundAssumption
    <3>2. PICK d : d = Popped(cache, s, n)
      OBVIOUS
    <3>3. Whole(d, {}) /\ SeqIds(d) = SeqIds(cache)
      BY <1>1, <2>1, <2>2, <3>1, <3>2, PoppedWhole
    <3>4. SeqIds(d) \subseteq SeqId
      BY <1>1, <3>3
    <3>5. Returns(d)
      BY <2>1, <2>2, <3>2, Zenon
    <3> QED BY <2>1, <3>3, <3>4, <3>5, CallReturns
  <2>3. CASE ~PopFits(cache, s, n)
    <3>1. Throws("fork")
      BY <2>1, <2>3, Zenon
    <3> QED BY <3>1, CallThrows
  <2> QED BY <2>2, <2>3
<1>10. ASSUME NEW batch \in Batches, NEW forests \in [DOMAIN batch -> Forests],
              NEW leaves \in [DOMAIN batch -> -1..(MaxAppend - 1)],
              \A i \in DOMAIN batch : Len(forests[i]) = batch[i].n /\ leaves[i] < batch[i].n,
              BeginForwardTree(batch, forests, leaves)
       PROVE  StructureInvariant'
  <2>1. PICK result : result = Forwarded(cache, batch, FALSE)
    OBVIOUS
  <2>2. PICK r : r = [i \in DOMAIN batch |-> [seq |-> batch[i].seq, parents |-> forests[i], leaf |-> leaves[i],
                                              slots |-> result.slots[i]]]
    OBVIOUS
  <2>3. IF result.threw = "no" THEN cache' = result.cache /\ round' = r ELSE Throws(result.threw)
    BY <1>10, <2>1, <2>2, Zenon DEF BeginForwardTree
  <2>4. IsBatch(cache, batch)
    BY BatchFacts
  <2>5. HasGrown(cache, batch, result, Len(batch))
    BY <1>1, <2>1, <2>4, ForwardedWhole
  <2>6. CASE result.threw = "no"
    <3>1. Whole(result.cache, {}) /\ SeqIds(result.cache) = SeqIds(cache)
      BY <2>5, <2>6, Zenon DEF HasGrown
    <3>2. RoundDue(result.cache, r)
      BY <1>10, <2>2, <2>5, <2>6, TreesDue
    <3>3. cache' = result.cache /\ round' = r
      BY <2>3, <2>6
    <3>4. Whole(cache', {}) /\ SeqIds(cache') \subseteq SeqId /\ RoundDue(cache', round')
      BY <1>1, <3>1, <3>2, <3>3
    <3> QED BY <3>4 DEF StructureInvariant
  <2>7. CASE result.threw # "no"
    BY <2>3, <2>7, CallThrows
  <2> QED BY <2>6, <2>7
<1>11. CASE CommitAcceptedTokenTreeNodes
  <2>1. cache' = Committed(cache, round) /\ round' = <<>>
    BY <1>11 DEF CommitAcceptedTokenTreeNodes
  <2>2. Whole(Committed(cache, round), {}) /\ SeqIds(Committed(cache, round)) = SeqIds(cache)
    BY <1>1, CommittedWhole
  <2>3. RoundDue(cache', <<>>)
    BY NoRoundDue
  <2>4. Whole(cache', {}) /\ SeqIds(cache') \subseteq SeqId /\ RoundDue(cache', round')
    BY <1>1, <2>1, <2>2, <2>3
  <2> QED BY <2>4 DEF StructureInvariant
<1>12. ASSUME NEW s \in SeqIds(cache), NEW w \in Windows, EnableSlidingWindowForSeq(s, w)
       PROVE  StructureInvariant'
  BY <1>12 DEF EnableSlidingWindowForSeq
<1>13. CASE UNCHANGED vars
  BY <1>13 DEF vars, StructureInvariant
<1>14. Sequences => StructureInvariant'
  BY <1>3, <1>4 DEF Sequences
<1>15. Rounds => StructureInvariant'
  BY <1>5, <1>6, <1>7 DEF Rounds
<1>16. Forks => StructureInvariant'
  BY <1>8 DEF Forks
<1>17. Pops => StructureInvariant'
  BY <1>9 DEF Pops
<1>18. Trees => StructureInvariant'
  BY <1>10, <1>11 DEF Trees
<1>19. Enables => StructureInvariant'
  BY <1>12 DEF Enables
<1> QED BY <1>2, <1>13, <1>14, <1>15, <1>16, <1>17, <1>18, <1>19 DEF Next

-----------------------------------------------------------------------------
(* The theorems.  They speak of a cache built without sliding windows      *)
(* (support_sliding_window false, as the engine builds it for a model      *)
(* without them), for every page size, number of pages, number of          *)
(* sequences and bound on the lengths.                                     *)

(* Whatever is added, appended, forked, popped, reserved, written and      *)
(* committed, and in whatever order, the pool of blocks and the sequences  *)
(* stay one forest: types, chains, pages, counters and private last blocks. *)
THEOREM StructureKept ==
  ASSUME ~support_sliding_window
  PROVE  Spec => []StructureInvariant
<1>1. Init => StructureInvariant
  BY InvariantInit
<1>2. StructureInvariant /\ [Next]_vars => StructureInvariant'
  BY InvariantStep
<1> QED BY <1>1, <1>2, PTL DEF Spec

(* No page is in two places, and none is lost: free_page_ids and the       *)
(* pages of the blocks partition the pool.                                 *)
THEOREM PagesPartitioned ==
  ASSUME ~support_sliding_window
  PROVE  Spec => []PagePartition
<1>1. StructureInvariant => PagePartition
  BY InvariantImplies
<1> QED BY <1>1, StructureKept, PTL

(* external_ref_cnt is the number of child blocks and of sequences that    *)
(* end in the block, and no block in use has none.                         *)
THEOREM ReferencesCounted ==
  ASSUME ~support_sliding_window
  PROVE  Spec => []RefCounts
<1>1. StructureInvariant => RefCounts
  BY InvariantImplies
<1> QED BY <1>1, StructureKept, PTL

(* No append of one sequence reaches a block another sequence reads (the   *)
(* ICHECK of ReserveAppendLengthInSeq).                                    *)
THEOREM AppendsPrivate ==
  ASSUME ~support_sliding_window
  PROVE  Spec => []LastBlockPrivate
<1>1. StructureInvariant => LastBlockPrivate
  BY InvariantImplies
<1> QED BY <1>1, StructureKept, PTL

(* A block with children holds whole pages, at least one (the ICHECKs of   *)
(* ForkSequence).                                                          *)
THEOREM SharedPagesFull ==
  ASSUME ~support_sliding_window
  PROVE  Spec => []InnerBlocksFull
<1>1. StructureInvariant => InnerBlocksFull
  BY InvariantImplies
<1> QED BY <1>1, StructureKept, PTL

(* A block has exactly the pages its tokens need, all from the pool.       *)
THEOREM PagesExact ==
  ASSUME ~support_sliding_window
  PROVE  Spec => []PagesCover
<1>1. StructureInvariant => PagesCover
  BY InvariantImplies
<1> QED BY <1>1, StructureKept, PTL

(* The length recorded for a sequence is that of its chain of blocks, and  *)
(* each block starts where the chain before it ends.                       *)
THEOREM LengthsKept ==
  ASSUME ~support_sliding_window
  PROVE  Spec => []LengthsAgree
<1>1. StructureInvariant => LengthsAgree
  BY InvariantImplies
<1> QED BY <1>1, StructureKept, PTL

(* Removing the last sequence gives every page and every block back.       *)
THEOREM NothingLeaks ==
  ASSUME ~support_sliding_window
  PROVE  Spec => []EmptyAgain
<1>1. StructureInvariant => EmptyAgain
  BY InvariantImplies
<1> QED BY <1>1, StructureKept, PTL
=============================================================================

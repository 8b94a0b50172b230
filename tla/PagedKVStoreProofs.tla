-------------------------- MODULE PagedKVStoreProofs ---------------------------
(***************************************************************************)
(* The paged KV cache implements the abstract store, for a cache built     *)
(* without sliding windows. What a sequence holds is read off its chain of *)
(* blocks as a set of positions with their tokens (Read), which every      *)
(* operation keeps, cuts or extends; Contents, a recursion over the same   *)
(* chain, gives the same tokens. The commit of a round of token trees is a *)
(* copy, whose slots are numbered across the round, and pops. At the end   *)
(* each action of the cache is shown to be an action of the store.         *)
(***************************************************************************)
EXTENDS PagedKVStore, PagedKVCacheProofs

-----------------------------------------------------------------------------
(* What is read from a block up: the positions and tokens of its chain.    *)

(* The token in slot j of block x.                                         *)
At(c, x, j)  == c.kv[c.pool[x].page_ids[j \div page_size + 1]][j % page_size]
(* The tokens of block x with their positions, those of the blocks up from *)
(* b.                                                                      *)
Tokens(c, x) == {<<c.pool[x].start_pos + j, At(c, x, j)>> : j \in 0..(c.pool[x].seq_length - 1)}
Up(c, b)     == Elements(GetBlockTrace(c, b))
Read(c, b)   == UNION {Tokens(c, x) : x \in Up(c, b)}

(* A chain holds its block and the parents of its blocks, and each of its  *)
(* blocks but the last has a child in it.                                  *)
LEMMA UpBlocks ==
  ASSUME NEW c, Structured(c), NEW b \in Used(c)
  PROVE  /\ b \in Up(c, b) /\ Up(c, b) \subseteq Used(c)
         /\ \A x \in Up(c, b) : c.pool[x].parent_idx # NoBlock => c.pool[x].parent_idx \in Up(c, b)
         /\ \A x \in Up(c, b) : x # b => Children(c, x) # {}
<1>1. PICK t : t = GetBlockTrace(c, b)
  OBVIOUS
<1>2. Typed(c) /\ Chained(c)
  BY DEF Structured
<1>3. /\ Len(t) \in Nat /\ Len(t) > 0 /\ DOMAIN t = 1..Len(t) /\ t[Len(t)] = b
      /\ \A i \in 1..Len(t) : t[i] \in Used(c)
      /\ c.pool[t[1]].parent_idx = NoBlock
      /\ \A i \in 2..Len(t) : c.pool[t[i]].parent_idx = t[i - 1]
  BY <1>1, <1>2, TraceBlocks
<1>4. PICK l \in Nat : l = Len(t)
  BY <1>3
<1>5. /\ l > 0 /\ t[l] = b /\ \A i \in 1..l : t[i] \in Used(c)
      /\ c.pool[t[1]].parent_idx = NoBlock /\ \A i \in 2..l : c.pool[t[i]].parent_idx = t[i - 1]
  BY <1>3, <1>4
<1>6. Up(c, b) = {t[i] : i \in 1..l}
  BY <1>1, <1>3, <1>4 DEF Up, Elements
<1>7. b \in Up(c, b) /\ Up(c, b) \subseteq Used(c)
  BY <1>5, <1>6
<1>8. ASSUME NEW x \in Up(c, b), c.pool[x].parent_idx # NoBlock PROVE c.pool[x].parent_idx \in Up(c, b)
  <2>1. PICK i \in 1..l : x = t[i]
    BY <1>6
  <2>2. i # 1
    BY <1>5, <1>8, <2>1
  <2>3. i \in 2..l /\ i - 1 \in 1..l
    BY <2>2
  <2> QED BY <1>5, <1>6, <2>1, <2>3
<1>9. ASSUME NEW x \in Up(c, b), x # b PROVE Children(c, x) # {}
  <2>1. PICK i \in 1..l : x = t[i]
    BY <1>6
  <2>2. i # l
    BY <1>5, <1>9, <2>1
  <2>3. i + 1 \in 2..l /\ i + 1 \in 1..l /\ (i + 1) - 1 = i
    BY <2>2
  <2>4. c.pool[t[i + 1]].parent_idx = x /\ t[i + 1] \in Used(c)
    BY <1>5, <2>1, <2>3
  <2> QED BY <2>4 DEF Children
<1> QED BY <1>7, <1>8, <1>9

(* It is the least such set.                                               *)
LEMMA UpLeast ==
  ASSUME NEW c, Structured(c), NEW b \in Used(c), NEW Z, b \in Z,
         \A x \in Z \cap Up(c, b) : c.pool[x].parent_idx # NoBlock => c.pool[x].parent_idx \in Z
  PROVE  Up(c, b) \subseteq Z
<1>1. PICK t : t = GetBlockTrace(c, b)
  OBVIOUS
<1>2. Typed(c) /\ Chained(c)
  BY DEF Structured
<1>3. /\ Len(t) \in Nat /\ Len(t) > 0 /\ DOMAIN t = 1..Len(t) /\ t[Len(t)] = b
      /\ \A i \in 1..Len(t) : t[i] \in Used(c)
      /\ \A i \in 2..Len(t) : c.pool[t[i]].parent_idx = t[i - 1]
  BY <1>1, <1>2, TraceBlocks
<1>4. PICK l \in Nat : l = Len(t)
  BY <1>3
<1>5. /\ l > 0 /\ t[l] = b /\ \A i \in 1..l : t[i] \in Used(c)
      /\ \A i \in 2..l : c.pool[t[i]].parent_idx = t[i - 1]
  BY <1>3, <1>4
<1>6. Up(c, b) = {t[i] : i \in 1..l}
  BY <1>1, <1>3, <1>4 DEF Up, Elements
<1> DEFINE T == {k \in 0..(l - 1) : t[l - k] \notin Z}
<1>7. T = {}
  <2> SUFFICES ASSUME T # {} PROVE FALSE
    OBVIOUS
  <2>1. T \subseteq Nat
    OBVIOUS
  <2>2. PICK m \in T : \A k \in T : m <= k
    <3> HIDE DEF T
    <3> QED BY <2>1, LeastNatural
  <2>3. m \in 0..(l - 1) /\ t[l - m] \notin Z
    BY <2>2
  <2>4. m # 0
    BY <1>5, <2>3
  <2>5. m - 1 \in 0..(l - 1) /\ m - 1 \notin T
    BY <2>2, <2>3, <2>4
  <2>6. t[l - (m - 1)] \in Z
    BY <2>5
  <2>7. l - (m - 1) \in 2..l /\ (l - (m - 1)) - 1 = l - m /\ l - m \in 1..l /\ l - (m - 1) \in 1..l
    BY <2>3, <2>4
  <2>8. c.pool[t[l - (m - 1)]].parent_idx = t[l - m] /\ t[l - m] \in Used(c)
    BY <1>5, <2>7
  <2>9. t[l - m] # NoBlock
    BY <1>2, <2>8, UsedBlocks, BlockFields
  <2> QED BY <1>6, <2>3, <2>6, <2>7, <2>8, <2>9
<1>8. ASSUME NEW i \in 1..l PROVE t[i] \in Z
  <2>1. l - i \in 0..(l - 1) /\ l - (l - i) = i
    OBVIOUS
  <2> QED BY <1>7, <2>1
<1> QED BY <1>6, <1>8

(* The chain of a block of a chain is part of it.                          *)
LEMMA UpWithin ==
  ASSUME NEW c, Structured(c), NEW b \in Used(c), NEW y \in Up(c, b)
  PROVE  y \in Used(c) /\ Up(c, y) \subseteq Up(c, b) /\ Read(c, y) \subseteq Read(c, b)
<1>1. y \in Used(c) /\ \A x \in Up(c, b) : c.pool[x].parent_idx # NoBlock => c.pool[x].parent_idx \in Up(c, b)
  BY UpBlocks
<1>2. Up(c, y) \subseteq Up(c, b)
  BY <1>1, UpLeast
<1> QED BY <1>1, <1>2 DEF Read

(* The slot of a token of a used block.                                    *)
LEMMA SlotOf ==
  ASSUME NEW c, Structured(c), NEW x \in Used(c), NEW j \in Nat, j < c.pool[x].seq_length,
         NEW i, i = j \div page_size + 1
  PROVE  /\ i \in DOMAIN c.pool[x].page_ids /\ i \in Nat /\ i > 0
         /\ c.pool[x].page_ids[i] \in Page /\ c.pool[x].page_ids[i] \notin c.free_page_ids
         /\ j % page_size \in Offset
<1>1. Typed(c) /\ x \in Block /\ HasPages(c, x) /\ Taken(c)
  BY UsedBlocks DEF Structured, Paged
<1>2. PICK l \in Nat : l = c.pool[x].seq_length
  BY <1>1, BlockFields
<1>3. PICK q \in Nat, r \in 0..(page_size - 1), a \in Nat :
        q = j \div page_size /\ r = j % page_size /\ a = page_size * q /\ j = a + r
  BY Division
<1>4. PICK n \in Nat, e \in Nat : n = PagesFor(l) /\ e = page_size * n /\ l <= e
  BY PagesForFacts
<1>5. q < n
  <2> SUFFICES ASSUME n <= q PROVE FALSE
    BY <1>3, <1>4
  <2>1. a < e
    BY <1>2, <1>3, <1>4
  <2>2. n # q
    BY <1>3, <1>4, <2>1
  <2>3. n < q
    BY <2>2
  <2>4. page_size \in Nat /\ page_size * n + page_size <= page_size * q
    BY <2>3, SizeAssumption, TimesOrder
  <2> QED BY <1>3, <1>4, <2>1, <2>4
<1>6. Len(c.pool[x].page_ids) = n /\ c.pool[x].page_ids \in Seq(Page)
  BY <1>1, <1>2, <1>4, BlockFields DEF HasPages
<1>7. i \in 1..n
  BY <1>3, <1>5
<1>8. i \in DOMAIN c.pool[x].page_ids /\ c.pool[x].page_ids[i] \in Page
  BY <1>6, <1>7
<1>9. c.pool[x].page_ids[i] \notin c.free_page_ids
  BY <1>1, <1>8 DEF Taken
<1> QED BY <1>3, <1>7, <1>8, <1>9 DEF Offset

(* What is used on both sides is the same.                                 *)
Agree(c, d) == \A p \in Page : p \notin c.free_page_ids /\ p \notin d.free_page_ids => d.kv[p] = c.kv[p]

(* A block that got longer has the tokens it had.                          *)
LEMMA TokensLonger ==
  ASSUME NEW c, NEW d, Structured(c), Structured(d), Agree(c, d),
         NEW x \in Used(c) \cap Used(d), Longer(c, d, x)
  PROVE  /\ \A j \in 0..(c.pool[x].seq_length - 1) : At(d, x, j) = At(c, x, j)
         /\ Tokens(c, x) \subseteq Tokens(d, x)
<1>1. PICK l \in Nat, m \in Nat : l = c.pool[x].seq_length /\ m = d.pool[x].seq_length /\ l <= m
  <2>1. Typed(c) /\ Typed(d) /\ x \in Block
    BY UsedBlocks DEF Structured
  <2> QED BY <2>1, BlockFields DEF Longer
<1>2. ASSUME NEW j \in 0..(l - 1) PROVE At(d, x, j) = At(c, x, j) /\ j \in 0..(m - 1)
  <2>1. PICK i : i = j \div page_size + 1
    OBVIOUS
  <2>2. j \in Nat /\ j < c.pool[x].seq_length /\ j < d.pool[x].seq_length
    BY <1>1
  <2>3. i \in DOMAIN c.pool[x].page_ids /\ c.pool[x].page_ids[i] \in Page /\ c.pool[x].page_ids[i] \notin c.free_page_ids
    BY <2>1, <2>2, SlotOf
  <2>4. d.pool[x].page_ids[i] \notin d.free_page_ids
    BY <2>1, <2>2, SlotOf
  <2>5. d.pool[x].page_ids[i] = c.pool[x].page_ids[i]
    BY <2>3 DEF Longer
  <2>6. d.kv[d.pool[x].page_ids[i]] = c.kv[c.pool[x].page_ids[i]]
    BY <2>3, <2>4, <2>5 DEF Agree
  <2> QED BY <1>1, <2>1, <2>2, <2>6 DEF At
<1>3. d.pool[x].start_pos = c.pool[x].start_pos
  BY DEF Longer
<1>4. Tokens(c, x) \subseteq Tokens(d, x)
  <2> SUFFICES ASSUME NEW j \in 0..(l - 1)
               PROVE  <<c.pool[x].start_pos + j, At(c, x, j)>> \in Tokens(d, x)
    BY <1>1 DEF Tokens
  <2> QED BY <1>1, <1>2, <1>3 DEF Tokens
<1> QED BY <1>1, <1>2, <1>4

(* Where every block of a chain holds what it held, so does the chain.     *)
LEMMA ReadInside ==
  ASSUME NEW c, NEW d, Structured(c), Structured(d), NEW b \in Used(c) \cap Used(d),
         \A x \in Up(c, b) \cap Up(d, b) : /\ d.pool[x].parent_idx = c.pool[x].parent_idx
                                           /\ Tokens(c, x) \subseteq Tokens(d, x)
  PROVE  Read(c, b) \subseteq Read(d, b)
<1>1. /\ b \in Up(d, b) /\ \A x \in Up(d, b) : d.pool[x].parent_idx # NoBlock => d.pool[x].parent_idx \in Up(d, b)
  BY UpBlocks
<1>2. Up(c, b) \subseteq Up(d, b)
  BY <1>1, UpLeast
<1> QED BY <1>2 DEF Read

(* So it does where no block got shorter.                                  *)
LEMMA ReadLonger ==
  ASSUME NEW c, NEW d, Structured(c), Structured(d), Agree(c, d), NEW b \in Used(c) \cap Used(d),
         \A x \in Used(c) \cap Used(d) : Longer(c, d, x)
  PROVE  Read(c, b) \subseteq Read(d, b)
<1>1. Up(c, b) \subseteq Used(c) /\ Up(d, b) \subseteq Used(d)
  BY UpBlocks
<1>2. ASSUME NEW x \in Up(c, b) \cap Up(d, b)
      PROVE  d.pool[x].parent_idx = c.pool[x].parent_idx /\ Tokens(c, x) \subseteq Tokens(d, x)
  <2>1. x \in Used(c) \cap Used(d) /\ Longer(c, d, x)
    BY <1>1
  <2> QED BY <2>1, TokensLonger DEF Longer
<1> QED BY <1>2, ReadInside

(* A block that stays the same got no shorter, seen either way.            *)
LEMMA SameLonger ==
  ASSUME NEW c, Typed(c), NEW d, NEW x \in Block, Same(c, d, x)
  PROVE  Longer(c, d, x) /\ Longer(d, c, x)
<1>1. c.pool[x].seq_length \in Nat
  BY BlockFields
<1> QED BY <1>1 DEF Same, Longer

(* What a call keeps reads the same.                                       *)
LEMMA ReadKept ==
  ASSUME NEW c, NEW d, Structured(c), Structured(d), DOMAIN c.kv = Page, Keeps(c, d)
  PROVE  /\ DOMAIN d.kv = Page
         /\ \A x \in Used(c) \cap Used(d) : Tokens(d, x) = Tokens(c, x)
         /\ \A b \in Used(c) \cap Used(d) : Read(d, b) = Read(c, b)
<1>1. DOMAIN d.kv = Page /\ Agree(c, d) /\ Agree(d, c)
  BY DEF Keeps, KvKept, Agree
<1>2. ASSUME NEW x \in Used(c) \cap Used(d) PROVE Longer(c, d, x) /\ Longer(d, c, x)
  BY <1>2, SameLonger, UsedBlocks DEF Keeps, Structured
<1>3. ASSUME NEW x \in Used(c) \cap Used(d) PROVE Tokens(d, x) = Tokens(c, x)
  <2>1. Longer(c, d, x) /\ Longer(d, c, x)
    BY <1>2
  <2>2. Tokens(c, x) \subseteq Tokens(d, x)
    BY <1>1, <2>1, TokensLonger
  <2>3. Tokens(d, x) \subseteq Tokens(c, x)
    BY <1>1, <2>1, TokensLonger
  <2> QED BY <2>2, <2>3
<1>4. ASSUME NEW b \in Used(c) \cap Used(d) PROVE Read(d, b) = Read(c, b)
  <2>1. Read(c, b) \subseteq Read(d, b)
    BY <1>1, <1>2, ReadLonger
  <2>2. Read(d, b) \subseteq Read(c, b)
    BY <1>1, <1>2, ReadLonger
  <2> QED BY <2>1, <2>2
<1> QED BY <1>1, <1>3, <1>4

(* There is one quotient and one remainder.                                *)
LEMMA DivisionIs ==
  ASSUME NEW q \in Nat, NEW r \in 0..(page_size - 1), NEW n, n = page_size * q + r
  PROVE  n \in Nat /\ n \div page_size = q /\ n % page_size = r
<1>1. page_size \in Nat /\ page_size > 0
  BY SizeAssumption
<1>2. PICK a \in Nat : a = page_size * q
  BY <1>1
<1>3. n \in Nat /\ n = a + r
  BY <1>2
<1>4. PICK p \in Nat, s \in 0..(page_size - 1), b \in Nat :
        p = n \div page_size /\ s = n % page_size /\ b = page_size * p /\ n = b + s
  BY <1>3, Division
<1>5. ~(q < p)
  <2> SUFFICES ASSUME q < p PROVE FALSE
    OBVIOUS
  <2>1. page_size * q + page_size <= page_size * p
    BY <1>1, TimesOrder
  <2> QED BY <1>1, <1>2, <1>3, <1>4, <2>1
<1>6. ~(p < q)
  <2> SUFFICES ASSUME p < q PROVE FALSE
    OBVIOUS
  <2>1. page_size * p + page_size <= page_size * q
    BY <1>1, TimesOrder
  <2> QED BY <1>1, <1>2, <1>3, <1>4, <2>1
<1>7. p = q
  BY <1>5, <1>6
<1>8. b = a
  BY <1>2, <1>4, <1>7, Zenon
<1>9. s = r
  BY <1>2, <1>3, <1>4, <1>8
<1> QED BY <1>3, <1>4, <1>7, <1>9

(* k pages further on.                                                     *)
LEMMA PagesOn ==
  ASSUME NEW j \in Nat, NEW k \in Nat
  PROVE  /\ j + page_size * k \in Nat
         /\ (j + page_size * k) \div page_size = (j \div page_size) + k
         /\ (j + page_size * k) % page_size = j % page_size
<1>1. page_size \in Nat
  BY SizeAssumption
<1>2. PICK q \in Nat, r \in 0..(page_size - 1) : q = j \div page_size /\ r = j % page_size /\ j = page_size * q + r
  BY Division
<1>3. page_size * (q + k) = page_size * q + page_size * k /\ page_size * k \in Nat /\ page_size * q \in Nat
  BY <1>1
<1>4. j + page_size * k = page_size * (q + k) + r /\ q + k \in Nat
  BY <1>2, <1>3
<1> QED BY <1>1, <1>2, <1>3, <1>4, DivisionIs

(* A split behind k pages, inside block u; arithmetic kept out of sight of *)
(* the provers.                                                            *)
TimesIs(n, k)    == n = page_size * k
InFront(c, u, k) == page_size * k < c.pool[u].seq_length

(* The halves of a split block hold what it held.                          *)
LEMMA SplitTokens ==
  ASSUME NEW c, NEW m, Structured(c), NEW u \in Used(c), NEW a, NEW k \in Nat, InFront(c, u, k),
         IsSplit(c, m.pool, u, a, k), m.kv = c.kv
  PROVE  Tokens(m, a) \subseteq Tokens(c, u) /\ Tokens(m, u) \subseteq Tokens(c, u)
<1>1. Typed(c) /\ u \in Block
  BY UsedBlocks DEF Structured
<1>2. PICK l \in Nat, st \in Nat, n \in Nat, z \in Nat, q \in Seq(Page) :
        /\ l = c.pool[u].seq_length /\ st = c.pool[u].start_pos /\ q = c.pool[u].page_ids
        /\ n < l /\ z = l - n /\ TimesIs(n, k)
  <2>1. PICK n \in Nat : n = page_size * k
    BY SizeAssumption
  <2>2. n < c.pool[u].seq_length
    BY <2>1 DEF InFront
  <2>3. PICK l \in Nat, st \in Nat, q \in Seq(Page) :
          l = c.pool[u].seq_length /\ st = c.pool[u].start_pos /\ q = c.pool[u].page_ids
    BY <1>1, BlockFields
  <2>4. PICK z \in Nat : z = l - n
    BY <2>2, <2>3
  <2> QED BY <2>1, <2>2, <2>3, <2>4 DEF TimesIs
<1>3. /\ m.pool[a].page_ids = SubSeq(q, 1, k) /\ m.pool[a].start_pos = st /\ m.pool[a].seq_length = n
      /\ m.pool[u].page_ids = SubSeq(q, k + 1, Len(q)) /\ m.pool[u].start_pos = st + n /\ m.pool[u].seq_length = z
  BY <1>2 DEF IsSplit, HasMembers, TimesIs
<1>4. ASSUME NEW j \in 0..(n - 1) PROVE <<st + j, At(m, a, j)>> \in Tokens(c, u)
  <2>1. PICK i \in Nat : i = j \div page_size + 1 /\ i > 0
    BY Division
  <2>2. i \in DOMAIN q
    BY <1>2, <2>1, SlotOf
  <2>3. i <= k
    <3>1. PICK d \in Nat, r \in 0..(page_size - 1), w \in Nat :
            d = j \div page_size /\ r = j % page_size /\ w = page_size * d /\ j = w + r
      <4>1. j \in Nat
        OBVIOUS
      <4> QED BY <4>1, Division
    <3> SUFFICES ASSUME k <= d PROVE FALSE
      BY <2>1, <3>1
    <3>2. w < n
      BY <3>1, SizeAssumption
    <3>3. k # d
      BY <1>2, <3>1, <3>2 DEF TimesIs
    <3>4. page_size * k + page_size <= page_size * d /\ page_size \in Nat
      BY <3>3, TimesOrder, SizeAssumption
    <3>5. n + page_size <= w
      BY <1>2, <3>1, <3>4 DEF TimesIs
    <3> QED BY <3>2, <3>4, <3>5
  <2>4. SubSeq(q, 1, k)[i] = q[i]
    BY <2>1, <2>2, <2>3
  <2>5. At(m, a, j) = At(c, u, j)
    BY <1>2, <1>3, <2>1, <2>4 DEF At
  <2> QED BY <1>2, <2>5 DEF Tokens
<1>5. ASSUME NEW j \in 0..(z - 1) PROVE <<st + n + j, At(m, u, j)>> \in Tokens(c, u)
  <2>0. j \in Nat /\ j + n \in 0..(l - 1) /\ st + n + j = st + (j + n)
    <3>1. j \in Nat
      OBVIOUS
    <3>2. j < z
      OBVIOUS
    <3>3. z = l - n
      BY <1>2
    <3>4. j + n < l
      BY <3>1, <3>2, <3>3
    <3>5. j + n \in Nat
      BY <3>1
    <3>6. j + n \in 0..(l - 1)
      BY <3>4, <3>5
    <3>7. st + n + j = st + (j + n)
      BY <3>1
    <3> QED BY <3>1, <3>6, <3>7
  <2>1. PICK h \in Nat : h = j + n /\ h \in 0..(l - 1) /\ st + n + j = st + h
    BY <2>0
  <2>2. PICK i \in Nat : i = j \div page_size + 1 /\ i > 0
    <3>1. j \div page_size \in Nat
      BY <2>0, Division
    <3> QED BY <3>1
  <2>3. h \div page_size + 1 = i + k /\ h % page_size = j % page_size
    <3>1. h \div page_size = (j \div page_size) + k /\ h % page_size = j % page_size /\ j \div page_size \in Nat
      BY <1>2, <2>1, PagesOn, Division DEF TimesIs
    <3> QED BY <2>2, <3>1
  <2>4. i + k \in DOMAIN q
    <3>1. h < c.pool[u].seq_length
      BY <1>2, <2>1
    <3> QED BY <1>2, <2>3, <3>1, SlotOf
  <2>5. SubSeq(q, k + 1, Len(q))[i] = q[i + k]
    <3>1. PICK g \in Nat : g = Len(q) /\ DOMAIN q = 1..g
      BY <1>2
    <3>2. i \in 1..(g - (k + 1) + 1) /\ (i + (k + 1)) - 1 = i + k
      BY <2>2, <2>4, <3>1
    <3> QED BY <1>2, <3>1, <3>2
  <2>6. At(m, u, j) = At(c, u, h)
    BY <1>2, <1>3, <2>2, <2>3, <2>5 DEF At
  <2> QED BY <1>2, <2>1, <2>6 DEF Tokens
<1> QED BY <1>3, <1>4, <1>5 DEF Tokens

(* A split moves no token.                                                 *)
LEMMA SplitRead ==
  ASSUME NEW c, NEW m, Structured(c), Structured(m), NEW u \in Used(c), SplitUp(c, m, u), NEW b \in Used(c)
  PROVE  b \in Used(m) /\ Read(m, b) \subseteq Read(c, b)
<1>1. PICK a \in Block \ Used(c), k \in Nat :
        /\ page_size * k < c.pool[u].seq_length
        /\ Used(m) = Used(c) \cup {a} /\ IsSplit(c, m.pool, u, a, k) /\ m.kv = c.kv
  BY DEF SplitUp
<1>2. /\ b \in Up(c, b) /\ Up(c, b) \subseteq Used(c) /\ Used(c) \subseteq Block
      /\ \A x \in Up(c, b) : c.pool[x].parent_idx # NoBlock => c.pool[x].parent_idx \in Up(c, b)
  BY UpBlocks, UsedBlocks
<1>3. /\ \A x \in Block \ {u, a} : m.pool[x] = c.pool[x]
      /\ m.pool[a].parent_idx = c.pool[u].parent_idx /\ m.pool[u].parent_idx = a
  BY <1>1 DEF IsSplit, HasMembers
<1> DEFINE Z == Up(c, b) \cup (IF u \in Up(c, b) THEN {a} ELSE {})
<1>4. Up(m, b) \subseteq Z
  <2>1. ASSUME NEW x \in Z, m.pool[x].parent_idx # NoBlock PROVE m.pool[x].parent_idx \in Z
    <3>1. CASE x = a
      BY <1>1, <1>2, <1>3, <2>1, <3>1
    <3>2. CASE x = u
      BY <1>1, <1>2, <1>3, <2>1, <3>2
    <3>3. CASE x # u /\ x # a
      BY <1>2, <1>3, <2>1, <3>3
    <3> QED BY <3>1, <3>2, <3>3
  <2>2. b \in Z /\ b \in Used(m)
    BY <1>1, <1>2
  <2> HIDE DEF Z
  <2> QED BY <2>1, <2>2, UpLeast
<1>5. Tokens(m, a) \subseteq Tokens(c, u) /\ Tokens(m, u) \subseteq Tokens(c, u)
  BY <1>1, SplitTokens DEF InFront
<1>6. ASSUME NEW x \in Z PROVE Tokens(m, x) \subseteq Read(c, b)
  <2>1. CASE x = a
    BY <1>1, <1>2, <1>5, <2>1 DEF Read
  <2>2. CASE x = u
    BY <1>1, <1>2, <1>5, <2>2 DEF Read
  <2>3. CASE x # u /\ x # a
    <3>1. x \in Up(c, b) /\ m.pool[x] = c.pool[x]
      BY <1>2, <1>3, <2>3
    <3>2. Tokens(m, x) = Tokens(c, x)
      BY <1>1, <3>1 DEF Tokens, At
    <3> QED BY <3>1, <3>2 DEF Read
  <2> QED BY <2>1, <2>2, <2>3
<1> HIDE DEF Z
<1> QED BY <1>1, <1>4, <1>6 DEF Read

(* Block b repeats the first l tokens of block u for a new child.          *)
SproutedAt(c, d, child, b, u, l) ==
  /\ l \in 0..(page_size - 1) /\ l <= c.pool[u].seq_length
  /\ Sprouted(c, d, child, b, c.pool[u].start_pos, l, c.pool[u].parent_idx, c.pool[u].page_ids[1])

(* A new block that repeats the first tokens of block u shows no more than *)
(* the chain of u.                                                         *)
LEMMA SproutRead ==
  ASSUME NEW c, NEW d, Structured(c), Structured(d), DOMAIN c.kv = Page, NEW u \in Used(c),
         NEW l, NEW child, NEW b, SproutedAt(c, d, child, b, u, l)
  PROVE  /\ DOMAIN d.kv = Page
         /\ b \in Used(d) /\ Read(d, b) \subseteq Read(c, u)
         /\ \A e \in Used(c) : e \in Used(d) /\ Read(d, e) = Read(c, e)
<1>1. /\ Used(d) = Used(c) \cup {b} /\ Keeps(c, d)
      /\ d.pool[b].start_pos = c.pool[u].start_pos /\ d.pool[b].seq_length = l
      /\ d.pool[b].parent_idx = c.pool[u].parent_idx
      /\ \A o \in 0..(l - 1) : d.kv[d.pool[b].page_ids[1]][o] = c.kv[c.pool[u].page_ids[1]][o]
  BY DEF SproutedAt, Sprouted, HasMembers, CopiedFrom
<1>2. /\ DOMAIN d.kv = Page /\ \A e \in Used(c) : e \in Used(d) /\ Read(d, e) = Read(c, e)
      /\ \A x \in Used(c) : Tokens(d, x) = Tokens(c, x)
  BY <1>1, ReadKept
<1>3. Tokens(d, b) \subseteq Tokens(c, u)
  <2>1. ASSUME NEW j \in 0..(l - 1)
        PROVE  /\ At(d, b, j) = At(c, u, j)
               /\ j \in 0..(c.pool[u].seq_length - 1)
    <3>1. page_size \in Nat /\ page_size > 0 /\ page_size * 0 = 0
      BY SizeAssumption
    <3>2. j \in Nat /\ j \in 0..(page_size - 1) /\ j = page_size * 0 + j
      BY <3>1 DEF SproutedAt
    <3>3. j \div page_size = 0 /\ j % page_size = j
      BY <3>2, DivisionIs
    <3>4. j \div page_size + 1 = 1
      BY <3>3
    <3>5. c.pool[u].seq_length \in Nat
      BY UsedBlocks, BlockFields DEF Structured
    <3>6. j \in 0..(c.pool[u].seq_length - 1)
      BY <3>5 DEF SproutedAt
    <3> QED BY <1>1, <3>2, <3>3, <3>4, <3>6 DEF At
  <2> QED BY <1>1, <2>1 DEF Tokens
<1>4. /\ u \in Up(c, u) /\ Up(c, u) \subseteq Used(c)
      /\ \A x \in Up(c, u) : c.pool[x].parent_idx # NoBlock => c.pool[x].parent_idx \in Up(c, u)
  BY UpBlocks
<1> DEFINE Z == Up(c, u) \cup {b}
<1>5. Up(d, b) \subseteq Z
  <2>1. ASSUME NEW x \in Z, d.pool[x].parent_idx # NoBlock PROVE d.pool[x].parent_idx \in Z
    <3>1. CASE x = b
      BY <1>1, <1>4, <2>1, <3>1
    <3>2. CASE x \in Up(c, u)
      <4>1. Same(c, d, x)
        BY <1>1, <1>4, <3>2 DEF Keeps
      <4> QED BY <1>4, <2>1, <3>2, <4>1 DEF Same
    <3> QED BY <3>1, <3>2
  <2>2. b \in Z /\ b \in Used(d)
    BY <1>1
  <2> HIDE DEF Z
  <2> QED BY <2>1, <2>2, UpLeast
<1>6. ASSUME NEW x \in Z PROVE Tokens(d, x) \subseteq Read(c, u)
  <2>1. CASE x = b
    BY <1>3, <1>4, <2>1 DEF Read
  <2>2. CASE x \in Up(c, u)
    <3>1. Tokens(d, x) = Tokens(c, x)
      BY <1>2, <1>4, <2>2
    <3> QED BY <2>2, <3>1 DEF Read
  <2> QED BY <2>1, <2>2
<1>7. Read(d, b) \subseteq Read(c, u)
  <2> HIDE DEF Z
  <2> QED BY <1>5, <1>6 DEF Read
<1> QED BY <1>1, <1>2, <1>7

(* A last block without tokens adds none to the chain above it.            *)
LEMMA ContinuedRead ==
  ASSUME NEW c, NEW d, Structured(c), DOMAIN c.kv = Page, Ended(c), NEW s \in SeqIds(c), NEW b, Continued(c, d, s, b)
  PROVE  /\ DOMAIN d.kv = Page
         /\ Read(d, b) \subseteq Read(c, c.seq_map[s].last_block_idx)
         /\ \A e \in Used(c) : Read(d, e) = Read(c, e)
<1> DEFINE u == c.seq_map[s].last_block_idx
<1>1. /\ Structured(d) /\ Keeps(c, d) /\ Used(d) = Used(c) \cup {b} /\ d.pool[b].parent_idx = u
      /\ d.pool[b].seq_length = 0
  BY DEF Continued, LastBlock, Whole
<1>2. u \in Used(c)
  BY DEF Ended, Ends
<1>3. DOMAIN d.kv = Page /\ \A e \in Used(c) : Read(d, e) = Read(c, e)
  BY <1>1, ReadKept
<1>4. /\ u \in Up(d, u) /\ \A x \in Up(d, u) : d.pool[x].parent_idx # NoBlock => d.pool[x].parent_idx \in Up(d, u)
  BY <1>1, <1>2, UpBlocks
<1>5. Up(d, b) \subseteq Up(d, u) \cup {b}
  <2> DEFINE Z == Up(d, u) \cup {b}
  <2>1. b \in Z /\ b \in Used(d)
    BY <1>1
  <2>2. ASSUME NEW x \in Z, d.pool[x].parent_idx # NoBlock PROVE d.pool[x].parent_idx \in Z
    BY <1>1, <1>4, <2>2
  <2>3. Up(d, b) \subseteq Z
    <3> HIDE DEF Z
    <3> QED BY <1>1, <2>1, <2>2, UpLeast
  <2> QED BY <2>3
<1>6. Tokens(d, b) = {}
  BY <1>1 DEF Tokens
<1>7. Read(d, b) \subseteq Read(d, u)
  BY <1>5, <1>6 DEF Read
<1> QED BY <1>2, <1>3, <1>7

-----------------------------------------------------------------------------
(* The first n tokens of a sequence.                                       *)

(* Sequence x of d has n tokens, the first ones of sequence y of c.        *)
FirstOf(d, x, n, c, y) ==
  /\ d.seq_map[x].seq_length = n
  /\ Read(d, d.seq_map[x].last_block_idx) \subseteq Read(c, c.seq_map[y].last_block_idx)

(* The tokens of the sequences in S are left alone.                        *)
KeptFor(c, d, S) == \A x \in S : FirstOf(d, x, c.seq_map[x].seq_length, c, x)

(* A fork at pos has the first pos tokens, and nobody else loses one.      *)
LEMMA ForkRead ==
  ASSUME NEW c, NEW X, Whole(c, X), DOMAIN c.kv = Page, NEW s \in SeqIds(c), NEW child, NEW pos, NEW d,
         HasForked(c, d, s, child, pos, X), ForkShape(c, d, s, child, pos, X)
  PROVE  /\ DOMAIN d.kv = Page
         /\ FirstOf(d, child, pos, c, s)
         /\ KeptFor(c, d, SeqIds(c))
<1>1. PICK r, m, u, b : \E l \in 0..(page_size - 1) :
        Forkable(c, r, s, pos, X) /\ ForkStages(r, m, d, s, child, u, b, l)
  BY Zenon DEF ForkShape
<1>2. PICK l \in 0..(page_size - 1) : Forkable(c, r, s, pos, X) /\ ForkStages(r, m, d, s, child, u, b, l)
  BY <1>1, Zenon
<1>3. /\ Whole(r, X) /\ SeqIds(r) = SeqIds(c) /\ r.seq_map[s].seq_length = c.seq_map[s].seq_length
      /\ \A x \in SeqIds(c) \ {s} : r.seq_map[x] = c.seq_map[x]
      /\ r = c \/ \E a : Continued(c, r, s, a)
  BY <1>2, Zenon DEF Forkable
<1>4. /\ Structured(m) /\ u \in Elements(Trace(r, s))
      /\ m = r \/ SplitUp(r, m, u)
      /\ \A x \in SeqIds(r) : d.seq_map[x] = r.seq_map[x]
      /\ l <= m.pool[u].seq_length
      /\ Sprouted(m, d, child, b, m.pool[u].start_pos, l, m.pool[u].parent_idx, m.pool[u].page_ids[1])
  BY <1>2, Zenon DEF ForkStages
<1>5. Structured(c) /\ Ended(c) /\ Structured(r) /\ Ended(r) /\ Structured(d)
  BY <1>3, WholeParts DEF HasForked
<1> DEFINE last(e, x) == e.seq_map[x].last_block_idx
<1>6. /\ DOMAIN r.kv = Page /\ Read(r, last(r, s)) \subseteq Read(c, last(c, s))
      /\ \A e \in Used(c) : Read(r, e) = Read(c, e)
  <2>1. CASE r = c
    BY <2>1
  <2>2. ASSUME NEW a, Continued(c, r, s, a)
        PROVE  /\ DOMAIN r.kv = Page /\ Read(r, last(r, s)) \subseteq Read(c, last(c, s))
               /\ \A e \in Used(c) : Read(r, e) = Read(c, e)
    <3>1. last(r, s) = a
      BY <2>2 DEF Continued
    <3> QED BY <1>5, <2>2, <3>1, ContinuedRead
  <2> QED BY <1>3, <2>1, <2>2
<1>7. /\ last(r, s) \in Used(r) /\ last(c, s) \in Used(c)
      /\ \A x \in SeqIds(c) : last(c, x) \in Used(c) /\ last(r, x) \in Used(r)
  BY <1>3, <1>5 DEF Ended, Ends
<1>8. u \in Up(r, last(r, s))
  BY <1>4, Zenon DEF Up, Trace
<1>9. u \in Used(r) /\ Read(r, u) \subseteq Read(r, last(r, s))
  BY <1>5, <1>7, <1>8, UpWithin
<1>10. DOMAIN m.kv = Page /\ \A e \in Used(r) : e \in Used(m) /\ Read(m, e) \subseteq Read(r, e)
  <2>1. CASE m = r
    BY <1>6, <2>1
  <2>2. CASE SplitUp(r, m, u)
    <3>1. DOMAIN m.kv = Page
      BY <1>6, <2>2 DEF SplitUp
    <3>2. ASSUME NEW e \in Used(r) PROVE e \in Used(m) /\ Read(m, e) \subseteq Read(r, e)
      <4>1. Structured(r) /\ Structured(m) /\ u \in Used(r)
        BY <1>4, <1>5, <1>9
      <4> QED BY <2>2, <4>1, SplitRead
    <3> QED BY <3>1, <3>2
  <2> QED BY <1>4, <2>1, <2>2
<1>11. /\ DOMAIN d.kv = Page /\ Read(d, b) \subseteq Read(m, u)
       /\ \A e \in Used(m) : Read(d, e) = Read(m, e)
  <2>1. /\ Structured(m) /\ Structured(d) /\ DOMAIN m.kv = Page /\ u \in Used(m)
        /\ SproutedAt(m, d, child, b, u, l)
    BY <1>4, <1>5, <1>9, <1>10 DEF SproutedAt
  <2> QED BY <2>1, SproutRead
<1>12. FirstOf(d, child, pos, c, s)
  <2>1. last(d, child) = b /\ d.seq_map[child].seq_length = pos
    BY <1>4 DEF Sprouted, HasForked
  <2>2. Read(d, b) \subseteq Read(c, last(c, s))
    BY <1>6, <1>9, <1>10, <1>11
  <2> QED BY <2>1, <2>2 DEF FirstOf
<1>13. ASSUME NEW x \in SeqIds(c) PROVE FirstOf(d, x, c.seq_map[x].seq_length, c, x)
  <2>1. d.seq_map[x] = r.seq_map[x] /\ r.seq_map[x].seq_length = c.seq_map[x].seq_length
    BY <1>3, <1>4
  <2>2. Read(r, last(r, x)) \subseteq Read(c, last(c, x))
    BY <1>3, <1>6, <1>7
  <2>3. Read(d, last(r, x)) \subseteq Read(r, last(r, x))
    BY <1>7, <1>10, <1>11
  <2> QED BY <2>1, <2>2, <2>3 DEF FirstOf
<1> QED BY <1>11, <1>12, <1>13 DEF KeptFor

-----------------------------------------------------------------------------
(* Contents, which is a recursion over the chain, is what is read.         *)

(* A sequence as the set of its members with their positions, from 0.      *)
Graph(q) == {<<i - 1, q[i]>> : i \in 1..Len(q)}

(* Every token of a used block is in one of its slots.                     *)
LEMMA TokenIs ==
  ASSUME NEW c, Structured(c), NEW x \in Used(c), NEW j \in 0..(c.pool[x].seq_length - 1)
  PROVE  TokenAt(c, c.pool[x], j) = At(c, x, j)
<1>1. Typed(c) /\ x \in Block
  BY UsedBlocks DEF Structured
<1>2. PICK l \in Nat, q \in Seq(Page) :
        /\ l = c.pool[x].seq_length /\ q = c.pool[x].page_ids
        /\ c.pool[x].sink_length = 0 /\ c.pool[x].sliding_window_offset = 0
  BY <1>1, BlockFields
<1>3. j \in Nat /\ j < l /\ ~(j < 0) /\ j - 0 + 0 = j
  BY <1>2
<1>4. OffsetInBlock(c.pool[x], j) = j
  BY <1>2, <1>3 DEF OffsetInBlock
<1>5. PICK i : i = j \div page_size + 1
  OBVIOUS
<1>6. i \in DOMAIN q /\ q[i] \in Page /\ j \div page_size \in Nat
  BY <1>2, <1>3, <1>5, SlotOf, Division
<1>7. j \div page_size < Len(q)
  <2>1. PICK n \in Nat, h \in Nat : n = Len(q) /\ DOMAIN q = 1..n /\ h = j \div page_size
    BY <1>2, <1>6
  <2> QED BY <1>5, <1>6, <2>1
<1>8. q[i] # TempPage
  BY <1>6, PoolAssumption DEF TempPage
<1>9. Slot(c.pool[x], j)[1] = q[i] /\ Slot(c.pool[x], j)[2] = j % page_size
  BY <1>2, <1>5 DEF Slot
<1> QED BY <1>2, <1>4, <1>5, <1>7, <1>8, <1>9 DEF TokenAt, At

(* What joining adds to the graph of a sequence.                           *)
GraphJoins(p, q) ==
  /\ Len(p \o q) = Len(p) + Len(q)
  /\ Graph(p \o q) = Graph(p) \cup {<<Len(p) + (i - 1), q[i]>> : i \in 1..Len(q)}
LEMMA GraphConcat ==
  ASSUME NEW V, NEW p \in Seq(V), NEW q \in Seq(V)
  PROVE  GraphJoins(p, q)
<1>1. PICK m \in Nat, n \in Nat : m = Len(p) /\ n = Len(q) /\ Len(p \o q) = m + n
  OBVIOUS
<1>2. /\ \A i \in 1..m : (p \o q)[i] = p[i]
      /\ \A i \in 1..n : (p \o q)[m + i] = q[i]
  BY <1>1
<1>3. ASSUME NEW e \in Graph(p \o q) PROVE e \in Graph(p) \cup {<<m + (i - 1), q[i]>> : i \in 1..n}
  <2>1. PICK k \in 1..(m + n) : e = <<k - 1, (p \o q)[k]>>
    BY <1>1 DEF Graph
  <2>2. CASE k <= m
    <3>1. k \in 1..m
      BY <2>2
    <3> QED BY <1>1, <1>2, <2>1, <3>1 DEF Graph
  <2>3. CASE k > m
    <3>1. k - m \in 1..n /\ k = m + (k - m) /\ k - 1 = m + ((k - m) - 1)
      BY <2>3
    <3>2. PICK i \in 1..n : i = k - m
      BY <3>1
    <3> QED BY <1>2, <2>1, <3>1, <3>2
  <2> QED BY <2>2, <2>3
<1>4. ASSUME NEW e \in Graph(p) PROVE e \in Graph(p \o q)
  <2>1. PICK k \in 1..m : e = <<k - 1, p[k]>>
    BY <1>1, <1>4 DEF Graph
  <2>2. k \in 1..(m + n)
    OBVIOUS
  <2> QED BY <1>1, <1>2, <2>1, <2>2 DEF Graph
<1>5. ASSUME NEW i \in 1..n PROVE <<m + (i - 1), q[i]>> \in Graph(p \o q)
  <2>1. PICK k \in 1..(m + n) : k = m + i /\ k - 1 = m + (i - 1)
    OBVIOUS
  <2> QED BY <1>1, <1>2, <2>1 DEF Graph
<1> QED BY <1>1, <1>3, <1>4, <1>5 DEF GraphJoins

(* The tokens of a sequence, position by position.                         *)
Shows(c, q, n, b) == (\E V : q \in Seq(V)) /\ Len(q) = n /\ Graph(q) = Read(c, b)

(* The tokens of each block of a chain.                                    *)
Rows(c, t) ==
  [k \in DOMAIN t |-> LET block == c.pool[t[k]] IN [i \in 1..block.seq_length |-> TokenAt(c, block, i - 1)]]

(* They are those of its blocks, one behind the other.                     *)
LEMMA RowsShow ==
  ASSUME NEW c, Structured(c), NEW b \in Used(c), NEW t, t = GetBlockTrace(c, b)
  PROVE  Shows(c, FlattenSeq(Rows(c, t)), c.pool[b].start_pos + c.pool[b].seq_length, b)
<1>1. Typed(c) /\ Chained(c)
  BY DEF Structured
<1>2. /\ Len(t) \in Nat /\ Len(t) > 0 /\ DOMAIN t = 1..Len(t) /\ t[Len(t)] = b
      /\ \A i \in 1..Len(t) : t[i] \in Used(c)
      /\ c.pool[t[1]].start_pos = 0
      /\ \A i \in 2..Len(t) : c.pool[t[i]].start_pos = c.pool[t[i - 1]].start_pos + c.pool[t[i - 1]].seq_length
  BY <1>1, TraceBlocks
<1>3. PICK l \in Nat : l = Len(t)
  BY <1>2
<1>4. /\ l > 0 /\ DOMAIN t = 1..l /\ t[l] = b /\ \A i \in 1..l : t[i] \in Used(c)
      /\ c.pool[t[1]].start_pos = 0
      /\ \A i \in 2..l : c.pool[t[i]].start_pos = c.pool[t[i - 1]].start_pos + c.pool[t[i - 1]].seq_length
  BY <1>2, <1>3
<1>5. \A i \in 1..l : c.pool[t[i]].start_pos \in Nat /\ c.pool[t[i]].seq_length \in Nat
  BY <1>1, <1>4, UsedBlocks, BlockFields
<1> DEFINE V    == {TokenAt(c, c.pool[x], j) : x \in Block, j \in Nat}
           A    == Rows(c, t)
           end(m) == IF m = 0 THEN 0 ELSE c.pool[t[m]].start_pos + c.pool[t[m]].seq_length
           P(m) == LET q == FlattenSeq(SubSeq(A, 1, m)) IN
                   /\ q \in Seq(V) /\ Len(q) = end(m)
                   /\ Graph(q) = UNION {Tokens(c, t[k]) : k \in 1..m}
<1>6. ASSUME NEW k \in 1..l
      PROVE  /\ A[k] \in Seq(V) /\ Len(A[k]) = c.pool[t[k]].seq_length
             /\ \A i \in 1..c.pool[t[k]].seq_length : A[k][i] = At(c, t[k], i - 1)
  <2>1. PICK n \in Nat : n = c.pool[t[k]].seq_length
    BY <1>5
  <2>2. A[k] = [i \in 1..n |-> TokenAt(c, c.pool[t[k]], i - 1)]
    BY <1>4, <2>1 DEF Rows
  <2>3. t[k] \in Block /\ t[k] \in Used(c)
    BY <1>4, UsedBlocks
  <2>4. ASSUME NEW i \in 1..n PROVE A[k][i] \in V /\ A[k][i] = At(c, t[k], i - 1)
    <3>1. i - 1 \in Nat /\ i - 1 \in 0..(n - 1)
      OBVIOUS
    <3>2. TokenAt(c, c.pool[t[k]], i - 1) = At(c, t[k], i - 1)
      BY <2>1, <2>3, <3>1, TokenIs
    <3> QED BY <2>2, <2>3, <3>1, <3>2
  <2> HIDE DEF V, A
  <2>5. A[k] \in [1..n -> V]
    BY <2>2, <2>4
  <2>6. A[k] \in Seq(V) /\ Len(A[k]) = n
    BY <2>5
  <2>7. \A i \in 1..n : A[k][i] = At(c, t[k], i - 1)
    BY <2>4
  <2> QED BY <2>1, <2>6, <2>7, Zenon
<1>7. A \in Seq(Seq(V)) /\ Len(A) = l
  <2>1. DOMAIN A = 1..l /\ A = [k \in 1..l |-> A[k]]
    BY <1>4 DEF Rows
  <2> HIDE DEF V, A
  <2>2. A \in [1..l -> Seq(V)]
    BY <1>6, <2>1
  <2> QED BY <2>2
<1> HIDE DEF V, A
<1>8. P(0)
  <2>1. SubSeq(A, 1, 0) = <<>> /\ <<>> \in Seq(Seq(V))
    BY <1>7
  <2>2. Len(<<>>) = 0 /\ <<>> \in Seq(V)
    OBVIOUS
  <2>3. FlattenSeq(<<>>) = <<>>
    BY <2>1, <2>2, FlattenSolution
  <2>4. Graph(<<>>) = {}
    BY <2>2 DEF Graph
  <2>5. UNION {Tokens(c, t[k]) : k \in 1..0} = {}
    OBVIOUS
  <2>6. FlattenSeq(SubSeq(A, 1, 0)) = <<>>
    BY <2>1, <2>3, Zenon
  <2>7. end(0) = 0
    OBVIOUS
  <2> HIDE DEF end
  <2> QED BY <2>2, <2>4, <2>5, <2>6, <2>7
<1>9. ASSUME NEW m \in 0..(l - 1), P(m) PROVE P(m + 1)
  <2> DEFINE q == FlattenSeq(SubSeq(A, 1, m))
             x == t[m + 1]
  <2>1. m + 1 \in 1..l /\ m \in Nat
    OBVIOUS
  <2>2. q \in Seq(V) /\ Len(q) = end(m) /\ Graph(q) = UNION {Tokens(c, t[k]) : k \in 1..m}
    BY <1>9
  <2>3. /\ A[m + 1] \in Seq(V) /\ Len(A[m + 1]) = c.pool[x].seq_length
        /\ \A i \in 1..c.pool[x].seq_length : A[m + 1][i] = At(c, x, i - 1)
    BY <1>6, <2>1
  <2>4. SubSeq(A, 1, m) \in Seq(Seq(V)) /\ SubSeq(A, 1, m + 1) = Append(SubSeq(A, 1, m), A[m + 1])
    BY <1>7, <2>1
  <2>5. FlattenSeq(SubSeq(A, 1, m + 1)) = q \o A[m + 1]
    BY <2>3, <2>4, FlattenAppend
  <2>6. c.pool[x].start_pos = end(m) /\ c.pool[x].start_pos \in Nat /\ c.pool[x].seq_length \in Nat
    <3>1. CASE m = 0
      BY <1>4, <1>5, <2>1, <3>1
    <3>2. CASE m # 0
      <4>1. m + 1 \in 2..l /\ (m + 1) - 1 = m
        BY <3>2
      <4> QED BY <1>4, <1>5, <2>1, <3>2, <4>1
    <3> QED BY <3>1, <3>2
  <2> HIDE DEF q, end, x
  <2>7. /\ Len(q \o A[m + 1]) = end(m) + c.pool[x].seq_length
        /\ Graph(q \o A[m + 1]) = Graph(q) \cup {<<end(m) + (i - 1), A[m + 1][i]>> : i \in 1..c.pool[x].seq_length}
    <3>1. /\ Len(q \o A[m + 1]) = Len(q) + Len(A[m + 1])
          /\ Graph(q \o A[m + 1]) = Graph(q) \cup {<<Len(q) + (i - 1), A[m + 1][i]>> : i \in 1..Len(A[m + 1])}
      <4>1. GraphJoins(q, A[m + 1])
        BY <2>2, <2>3, GraphConcat
      <4> QED BY <4>1, Zenon DEF GraphJoins
    <3> QED BY <2>2, <2>3, <3>1
  <2>8. q \o A[m + 1] \in Seq(V)
    BY <2>2, <2>3
  <2>9. {<<end(m) + (i - 1), A[m + 1][i]>> : i \in 1..c.pool[x].seq_length} = Tokens(c, x)
    <3>1. PICK n \in Nat, a \in Nat : n = c.pool[x].seq_length /\ a = c.pool[x].start_pos /\ a = end(m)
      BY <2>6
    <3>2. \A i \in 1..n : i - 1 \in 0..(n - 1) /\ <<a + (i - 1), A[m + 1][i]>> = <<a + (i - 1), At(c, x, i - 1)>>
      BY <2>3, <3>1
    <3>3. \A j \in 0..(n - 1) : j + 1 \in 1..n /\ (j + 1) - 1 = j
      OBVIOUS
    <3> QED BY <3>1, <3>2, <3>3 DEF Tokens
  <2>10. UNION {Tokens(c, t[k]) : k \in 1..(m + 1)} = (UNION {Tokens(c, t[k]) : k \in 1..m}) \cup Tokens(c, x)
    <3>1. 1..(m + 1) = (1..m) \cup {m + 1}
      BY <2>1
    <3> QED BY <3>1 DEF x
  <2>11. end(m + 1) = end(m) + c.pool[x].seq_length
    BY <2>1, <2>6 DEF end, x
  <2> QED BY <2>2, <2>5, <2>7, <2>8, <2>9, <2>10, <2>11
<1>10. P(l)
  <2> HIDE DEF P
  <2> DEFINE T == {m \in 0..l : ~P(m)}
  <2> SUFFICES ASSUME T # {} PROVE FALSE
    <3>1. l \in 0..l
      BY <1>3
    <3> QED BY <3>1
  <2>1. T \subseteq Nat
    OBVIOUS
  <2>2. PICK m \in T : \A k \in T : m <= k
    <3> HIDE DEF T
    <3> QED BY <2>1, LeastNatural
  <2>3. m \in 0..l /\ ~P(m) /\ m # 0
    BY <1>8, <2>2
  <2>4. m - 1 \in 0..(l - 1) /\ m - 1 \in 0..l /\ m - 1 < m /\ (m - 1) + 1 = m
    BY <2>3
  <2>5. m - 1 \notin T
    BY <2>2, <2>4
  <2>6. P(m - 1)
    BY <2>4, <2>5
  <2>7. P((m - 1) + 1)
    BY <1>9, <2>4, <2>6
  <2> QED BY <2>3, <2>4, <2>7
<1>11. SubSeq(A, 1, l) = A
  BY <1>7
<1>12. UNION {Tokens(c, t[k]) : k \in 1..l} = Read(c, b)
  BY <1>4 DEF Read, Up, Elements
<1>13. end(l) = c.pool[b].start_pos + c.pool[b].seq_length
  BY <1>4
<1>14. FlattenSeq(A) \in Seq(V) /\ Len(FlattenSeq(A)) = end(l) /\ Graph(FlattenSeq(A)) = Read(c, b)
  BY <1>10, <1>11, <1>12
<1>15. Shows(c, FlattenSeq(A), end(l), b)
  BY <1>14, Zenon DEF Shows
<1> QED BY <1>13, <1>15 DEF A

(* So of Contents.                                                         *)
LEMMA ContentsShow ==
  ASSUME NEW c, Structured(c), Ended(c), NEW s \in SeqIds(c)
  PROVE  /\ c.seq_map[s].last_block_idx \in Used(c) /\ c.seq_map[s].seq_length \in Nat
         /\ c.seq_map[s].seq_length = LastBlock(c, s).start_pos + LastBlock(c, s).seq_length
         /\ Shows(c, Contents(c, s), c.seq_map[s].seq_length, c.seq_map[s].last_block_idx)
<1>1. PICK b, t : b = c.seq_map[s].last_block_idx /\ t = GetBlockTrace(c, b)
  OBVIOUS
<1>2. b \in Used(c) /\ c.seq_map[s].seq_length = c.pool[b].start_pos + c.pool[b].seq_length
  BY <1>1 DEF Ended, Ends, LastBlock
<1>3. Shows(c, FlattenSeq(Rows(c, t)), c.pool[b].start_pos + c.pool[b].seq_length, b)
  BY <1>1, <1>2, RowsShow
<1>4. Contents(c, s) = FlattenSeq(Rows(c, t))
  BY <1>1, Zenon DEF Contents, Rows, Trace
<1>5. c.seq_map[s].seq_length \in Nat
  BY SequenceFields DEF Structured
<1> QED BY <1>1, <1>2, <1>3, <1>4, <1>5 DEF LastBlock

(* What shows no more tokens than q shows the first ones of q.             *)
LEMMA ShownFirst ==
  ASSUME NEW c, NEW d, NEW p, NEW q, NEW m \in Nat, NEW n \in Nat, NEW a, NEW b,
         Shows(c, q, m, a), Shows(d, p, n, b), n <= m, Read(d, b) \subseteq Read(c, a)
  PROVE  p = SubSeq(q, 1, n)
<1>1. PICK V : q \in Seq(V)
  BY DEF Shows
<1>2. PICK W : p \in Seq(W)
  BY DEF Shows
<1>3. Len(q) = m /\ Len(p) = n /\ Graph(p) \subseteq Graph(q)
  BY DEF Shows
<1>4. ASSUME NEW i \in 1..n PROVE p[i] = q[i]
  <2>1. <<i - 1, p[i]>> \in Graph(q)
    BY <1>3 DEF Graph
  <2>2. PICK k \in 1..m : <<i - 1, p[i]>> = <<k - 1, q[k]>>
    BY <1>3, <2>1 DEF Graph
  <2>3. i - 1 = k - 1 /\ p[i] = q[k]
    BY <2>2
  <2>4. i = k
    BY <2>3
  <2> QED BY <2>3, <2>4
<1>5. p = [i \in 1..n |-> p[i]]
  BY <1>2, <1>3
<1>6. SubSeq(q, 1, n) = [i \in 1..n |-> q[i]]
  <2>1. DOMAIN SubSeq(q, 1, n) = 1..n /\ \A i \in 1..n : SubSeq(q, 1, n)[i] = q[i]
    BY <1>1, <1>3
  <2>2. SubSeq(q, 1, n) \in Seq(V)
    BY <1>1, <1>3
  <2> QED BY <2>1, <2>2
<1> QED BY <1>4, <1>5, <1>6

(* The first n tokens of a sequence, as Contents gives them.               *)
LEMMA FirstContents ==
  ASSUME NEW c, NEW d, Structured(c), Ended(c), Structured(d), Ended(d),
         NEW y \in SeqIds(c), NEW x \in SeqIds(d), NEW n \in Nat, n <= c.seq_map[y].seq_length,
         FirstOf(d, x, n, c, y)
  PROVE  Contents(d, x) = SubSeq(Contents(c, y), 1, n)
<1>1. /\ c.seq_map[y].seq_length \in Nat
      /\ Shows(c, Contents(c, y), c.seq_map[y].seq_length, c.seq_map[y].last_block_idx)
  BY ContentsShow
<1>2. Shows(d, Contents(d, x), n, d.seq_map[x].last_block_idx)
  BY ContentsShow DEF FirstOf
<1>3. Read(d, d.seq_map[x].last_block_idx) \subseteq Read(c, c.seq_map[y].last_block_idx)
  BY DEF FirstOf
<1> QED BY <1>1, <1>2, <1>3, ShownFirst

(* A sequence of tokens as long as the sequence of the cache.              *)
LEMMA ContentsType ==
  ASSUME NEW c, Structured(c), Ended(c), NEW s \in SeqIds(c)
  PROVE  /\ \E V : Contents(c, s) \in Seq(V)
         /\ Len(Contents(c, s)) = c.seq_map[s].seq_length
         /\ c.seq_map[s].seq_length \in Nat
         /\ DOMAIN Contents(c, s) = 1..c.seq_map[s].seq_length
         /\ SubSeq(Contents(c, s), 1, c.seq_map[s].seq_length) = Contents(c, s)
<1>1. c.seq_map[s].seq_length \in Nat /\ Shows(c, Contents(c, s), c.seq_map[s].seq_length, c.seq_map[s].last_block_idx)
  BY ContentsShow
<1>2. PICK V : Contents(c, s) \in Seq(V)
  BY <1>1 DEF Shows
<1>3. Len(Contents(c, s)) = c.seq_map[s].seq_length
  BY <1>1 DEF Shows
<1> QED BY <1>1, <1>2, <1>3

(* What the sequences in S hold is the same in d.                          *)
ContentsKept(c, d, S) == \A s \in S : Contents(d, s) = Contents(c, s)

(* Tokens that are left alone are the same in Contents.                    *)
LEMMA KeptContents ==
  ASSUME NEW c, NEW d, Structured(c), Ended(c), Structured(d), Ended(d),
         NEW S, S \subseteq SeqIds(c), S \subseteq SeqIds(d), KeptFor(c, d, S)
  PROVE  ContentsKept(c, d, S)
<1> SUFFICES ASSUME NEW s \in S PROVE Contents(d, s) = Contents(c, s)
  BY DEF ContentsKept
<1>1. s \in SeqIds(c) /\ s \in SeqIds(d) /\ FirstOf(d, s, c.seq_map[s].seq_length, c, s)
  BY DEF KeptFor
<1>2. c.seq_map[s].seq_length \in Nat /\ SubSeq(Contents(c, s), 1, c.seq_map[s].seq_length) = Contents(c, s)
  BY <1>1, ContentsType
<1>3. PICK n \in Nat : n = c.seq_map[s].seq_length
  BY <1>2
<1>4. Contents(d, s) = SubSeq(Contents(c, s), 1, n)
  BY <1>1, <1>3, FirstContents
<1> QED BY <1>2, <1>3, <1>4

(* The token in a slot of the last block.                                  *)
LEMMA ContentsAt ==
  ASSUME NEW c, Structured(c), Ended(c), NEW s \in SeqIds(c), NEW b, b = c.seq_map[s].last_block_idx,
         NEW j \in Nat, j < c.pool[b].seq_length, NEW i, i = c.pool[b].start_pos + j + 1
  PROVE  i \in DOMAIN Contents(c, s) /\ Contents(c, s)[i] = At(c, b, j)
<1>1. /\ b \in Used(c) /\ c.seq_map[s].seq_length \in Nat
      /\ c.seq_map[s].seq_length = c.pool[b].start_pos + c.pool[b].seq_length
      /\ Shows(c, Contents(c, s), c.seq_map[s].seq_length, b)
  BY ContentsShow DEF LastBlock
<1>2. PICK n, st, l, q :
        /\ n \in Nat /\ st \in Nat /\ l \in Nat
        /\ n = c.seq_map[s].seq_length /\ st = c.pool[b].start_pos /\ l = c.pool[b].seq_length
        /\ n = st + l /\ q = Contents(c, s)
  BY <1>1, UsedBlocks, BlockFields DEF Structured
<1>3. j \in 0..(l - 1) /\ i \in 1..n /\ i = st + j + 1
  BY <1>2
<1>4. b \in Up(c, b)
  BY <1>1, UpBlocks
<1>5. <<st + j, At(c, b, j)>> \in Read(c, b)
  BY <1>2, <1>3, <1>4 DEF Read, Tokens
<1>6. Len(q) = n /\ <<st + j, At(c, b, j)>> \in Graph(q)
  BY <1>1, <1>2, <1>5 DEF Shows
<1>7. PICK k \in 1..n : <<st + j, At(c, b, j)>> = <<k - 1, q[k]>>
  BY <1>6 DEF Graph
<1>8. st + j = k - 1 /\ At(c, b, j) = q[k]
  BY <1>7
<1>9. i = k
  BY <1>3, <1>8
<1>10. DOMAIN q = 1..n
  BY <1>2, ContentsType
<1> QED BY <1>2, <1>3, <1>8, <1>9, <1>10

-----------------------------------------------------------------------------
(* Sequences that are added, removed, forked and popped.                   *)

(* Entries of seq_map that stay, in a cache that keeps what is used.       *)
LEMMA EntriesKept ==
  ASSUME NEW c, NEW d, Structured(c), Ended(c), Structured(d), Ended(d), DOMAIN c.kv = Page, Keeps(c, d),
         NEW S, S \subseteq SeqIds(c), S \subseteq SeqIds(d), \A x \in S : d.seq_map[x] = c.seq_map[x]
  PROVE  DOMAIN d.kv = Page /\ KeptFor(c, d, S)
<1>1. DOMAIN d.kv = Page /\ \A b \in Used(c) \cap Used(d) : Read(d, b) = Read(c, b)
  BY ReadKept
<1>2. ASSUME NEW x \in S PROVE FirstOf(d, x, c.seq_map[x].seq_length, c, x)
  <2>1. c.seq_map[x].last_block_idx \in Used(c) /\ d.seq_map[x].last_block_idx \in Used(d)
    BY DEF Ended, Ends
  <2> QED BY <1>1, <2>1 DEF FirstOf
<1> QED BY <1>1, <1>2 DEF KeptFor

(* A new sequence is empty.                                                *)
LEMMA AddedContents ==
  ASSUME NEW c, Whole(c, {}), DOMAIN c.kv = Page, NEW s \in SeqId \ SeqIds(c), SeqIds(c) \subseteq SeqId,
         NEW d, d = Added(c, s)
  PROVE  /\ DOMAIN d.kv = Page /\ SeqIds(d) = SeqIds(c) \cup {s}
         /\ Contents(d, s) = <<>> /\ ContentsKept(c, d, SeqIds(c))
<1>1. /\ Whole(d, {}) /\ SeqIds(d) = SeqIds(c) \cup {s} /\ Keeps(c, d) /\ d.seq_map[s].seq_length = 0
      /\ \A x \in SeqIds(c) : d.seq_map[x] = c.seq_map[x]
  BY AddedWhole
<1>2. Structured(c) /\ Ended(c) /\ Structured(d) /\ Ended(d)
  BY <1>1, WholeParts
<1>3. DOMAIN d.kv = Page /\ KeptFor(c, d, SeqIds(c))
  BY <1>1, <1>2, EntriesKept
<1>4. ContentsKept(c, d, SeqIds(c))
  BY <1>1, <1>2, <1>3, KeptContents
<1>5. Contents(d, s) = <<>>
  <2>1. (\E V : Contents(d, s) \in Seq(V)) /\ Len(Contents(d, s)) = 0
    BY <1>1, <1>2, ContentsType
  <2> QED BY <2>1
<1> QED BY <1>1, <1>3, <1>4, <1>5

(* Nobody else loses a token with a sequence.                              *)
LEMMA RemovedContents ==
  ASSUME NEW c, Whole(c, {}), DOMAIN c.kv = Page, NEW s \in SeqIds(c), NEW d, d = Removed(c, s)
  PROVE  /\ DOMAIN d.kv = Page /\ SeqIds(d) = SeqIds(c) \ {s}
         /\ ContentsKept(c, d, SeqIds(c) \ {s})
<1>1. /\ Whole(d, {}) /\ SeqIds(d) = SeqIds(c) \ {s} /\ Keeps(c, d)
      /\ \A x \in SeqIds(c) \ {s} : d.seq_map[x] = c.seq_map[x]
  BY RemovedWhole
<1>2. Structured(c) /\ Ended(c) /\ Structured(d) /\ Ended(d)
  BY <1>1, WholeParts
<1>3. DOMAIN d.kv = Page /\ KeptFor(c, d, SeqIds(c) \ {s})
  BY <1>1, <1>2, EntriesKept
<1> QED BY <1>1, <1>2, <1>3, KeptContents

(* The child of a fork at pos is the first pos tokens of its parent, which *)
(* loses none, and nor does any other sequence.                            *)
LEMMA ForkedContents ==
  ASSUME NEW c, Whole(c, {}), DOMAIN c.kv = Page, NEW s \in SeqIds(c), Room(c),
         NEW child \in SeqId \cup {TempSeq}, child \notin SeqIds(c),
         NEW pos \in Nat, pos <= c.seq_map[s].seq_length, ForkFits(ReadyToFork(c, s, pos), pos),
         NEW d, d = Forked(c, s, child, pos)
  PROVE  /\ DOMAIN d.kv = Page /\ SeqIds(d) = SeqIds(c) \cup {child}
         /\ Contents(d, child) = SubSeq(Contents(c, s), 1, pos) /\ ContentsKept(c, d, SeqIds(c))
<1>1. HasForked(c, d, s, child, pos, {}) /\ ForkShape(c, d, s, child, pos, {})
  BY ForkedWhole
<1>2. Whole(d, {}) /\ SeqIds(d) = SeqIds(c) \cup {child}
  BY <1>1 DEF HasForked
<1>3. Structured(c) /\ Ended(c) /\ Structured(d) /\ Ended(d)
  BY <1>2, WholeParts
<1>4. DOMAIN d.kv = Page /\ FirstOf(d, child, pos, c, s) /\ KeptFor(c, d, SeqIds(c))
  BY <1>1, ForkRead
<1>5. ContentsKept(c, d, SeqIds(c))
  BY <1>2, <1>3, <1>4, KeptContents
<1>6. Contents(d, child) = SubSeq(Contents(c, s), 1, pos)
  BY <1>2, <1>3, <1>4, FirstContents
<1> QED BY <1>2, <1>4, <1>5, <1>6

(* A longer chain is longer in each of its blocks.                         *)
LEMMA LengthensLonger ==
  ASSUME NEW c, NEW d, Structured(c), NEW s, Lengthens(c, d, s)
  PROVE  Used(d) = Used(c) /\ \A x \in Used(c) \cap Used(d) : Longer(c, d, x)
<1>1. ASSUME NEW x \in Used(c) PROVE Longer(c, d, x)
  <2>1. CASE x = c.seq_map[s].last_block_idx
    BY <2>1 DEF Lengthens
  <2>2. CASE x # c.seq_map[s].last_block_idx
    <3>1. Same(c, d, x) /\ x \in Block /\ Typed(c)
      BY <2>2, UsedBlocks DEF Lengthens, Structured
    <3> QED BY <3>1, SameLonger
  <2> QED BY <2>1, <2>2
<1> QED BY <1>1 DEF Lengthens

(* Sequence s of d has lost its last n tokens, the others none.            *)
Shortened(c, d, s, n) ==
  /\ DOMAIN d.kv = Page /\ Whole(d, {}) /\ SeqIds(d) = SeqIds(c)
  /\ FirstOf(d, s, c.seq_map[s].seq_length - n, c, s)
  /\ KeptFor(c, d, SeqIds(c) \ {s})
  /\ \A x \in SeqIds(c) \ {s} : d.seq_map[x] = c.seq_map[x]

(* A pop in the last block leaves the first tokens.                        *)
LEMMA TruncatedRead ==
  ASSUME NEW c, Whole(c, {}), DOMAIN c.kv = Page, NEW s \in SeqIds(c), Alone(c, s),
         NEW n \in Nat, n <= LastBlock(c, s).seq_length
  PROVE  Shortened(c, Truncated(c, s, n), s, n)
<1> DEFINE d == Truncated(c, s, n)
<1> HIDE DEF d
<1>1. /\ Whole(d, {}) /\ Shrunk(c, d, s, n) /\ Lengthens(d, c, s) /\ KvKept(c, d)
      /\ d.seq_map[s].seq_length = c.seq_map[s].seq_length - n
  BY TruncatedWhole DEF d
<1>2. Structured(c) /\ Ended(c) /\ Structured(d) /\ Ended(d)
  BY <1>1, WholeParts
<1>3. DOMAIN d.kv = Page /\ Agree(d, c)
  BY <1>1 DEF KvKept, Agree
<1>4. Used(d) = Used(c) /\ \A x \in Used(d) \cap Used(c) : Longer(d, c, x)
  BY <1>1, <1>2, LengthensLonger
<1>5. ASSUME NEW b \in Used(c) PROVE Read(d, b) \subseteq Read(c, b)
  BY <1>2, <1>3, <1>4, ReadLonger
<1>6. /\ SeqIds(d) = SeqIds(c) /\ \A x \in SeqIds(c) \ {s} : d.seq_map[x] = c.seq_map[x]
      /\ d.seq_map[s].last_block_idx = c.seq_map[s].last_block_idx
  BY <1>1 DEF Shrunk, OthersKept, Lengthens
<1>7. \A x \in SeqIds(c) : c.seq_map[x].last_block_idx \in Used(c)
  BY <1>2 DEF Ended, Ends
<1>8. FirstOf(d, s, c.seq_map[s].seq_length - n, c, s)
  BY <1>1, <1>5, <1>6, <1>7 DEF FirstOf
<1>9. KeptFor(c, d, SeqIds(c) \ {s})
  BY <1>5, <1>6, <1>7 DEF FirstOf, KeptFor
<1>10. Shortened(c, d, s, n)
  BY <1>1, <1>3, <1>6, <1>8, <1>9 DEF Shortened
<1> QED BY <1>10 DEF d

(* What is read depends on the blocks and their tokens alone.              *)
LEMMA ReadSame ==
  ASSUME NEW c, NEW d, d.pool = c.pool, d.kv = c.kv, NEW b
  PROVE  Read(d, b) = Read(c, b)
BY DEF Read, Up, Tokens, At, GetBlockTrace

(* A sequence replaced by a fork of itself.                                *)
LEMMA ReforkRead ==
  ASSUME NEW c, NEW s \in SeqIds(c), SeqIds(c) \subseteq SeqId, Whole(c, {s}), DOMAIN c.kv = Page,
         NEW pos, NEW d, ReforkShape(c, d, s, pos)
  PROVE  /\ DOMAIN d.kv = Page /\ FirstOf(d, s, pos, c, s)
         /\ KeptFor(c, d, SeqIds(c) \ {s})
<1>1. PICK f, g : /\ HasForked(c, f, s, TempSeq, pos, {s}) /\ ForkShape(c, f, s, TempSeq, pos, {s})
                  /\ Whole(g, {}) /\ SeqIds(g) = SeqIds(f) \ {s} /\ Keeps(f, g)
                  /\ \A x \in SeqIds(f) \ {s} : g.seq_map[x] = f.seq_map[x]
                  /\ RenamedTo(g, d, s)
  BY DEF ReforkShape
<1>2. Whole(f, {s}) /\ SeqIds(f) = SeqIds(c) \cup {TempSeq} /\ f.seq_map[TempSeq].seq_length = pos
  BY <1>1 DEF HasForked
<1>3. DOMAIN f.kv = Page /\ FirstOf(f, TempSeq, pos, c, s) /\ KeptFor(c, f, SeqIds(c))
  BY <1>1, ForkRead
<1>4. Structured(f) /\ Ended(f) /\ Structured(g) /\ Ended(g)
  BY <1>1, <1>2, WholeParts
<1>5. TempSeq # s /\ TempSeq \notin SeqIds(c)
  BY PoolAssumption
<1>6. SeqIds(g) = (SeqIds(c) \ {s}) \cup {TempSeq}
  BY <1>1, <1>2, <1>5
<1>7. DOMAIN g.kv = Page /\ KeptFor(f, g, SeqIds(g))
  <2>1. SeqIds(g) \subseteq SeqIds(f) /\ \A x \in SeqIds(g) : g.seq_map[x] = f.seq_map[x]
    BY <1>1
  <2> QED BY <1>1, <1>3, <1>4, <2>1, EntriesKept
<1>8. /\ d.pool = g.pool /\ d.kv = g.kv /\ d.seq_map[s] = g.seq_map[TempSeq]
      /\ \A x \in SeqIds(g) \ {TempSeq} : d.seq_map[x] = g.seq_map[x]
  BY <1>1 DEF RenamedTo
<1>9. \A b : Read(d, b) = Read(g, b)
  BY <1>8, ReadSame
<1>10. FirstOf(d, s, pos, c, s)
  <2>1. FirstOf(g, TempSeq, f.seq_map[TempSeq].seq_length, f, TempSeq)
    BY <1>6, <1>7 DEF KeptFor
  <2> QED BY <1>2, <1>3, <1>8, <1>9, <2>1 DEF FirstOf
<1>11. ASSUME NEW x \in SeqIds(c) \ {s} PROVE FirstOf(d, x, c.seq_map[x].seq_length, c, x)
  <2>1. FirstOf(g, x, f.seq_map[x].seq_length, f, x)
    BY <1>6, <1>7 DEF KeptFor
  <2>2. FirstOf(f, x, c.seq_map[x].seq_length, c, x)
    BY <1>3 DEF KeptFor
  <2>3. d.seq_map[x] = g.seq_map[x]
    BY <1>5, <1>6, <1>8
  <2> QED BY <1>9, <2>1, <2>2, <2>3 DEF FirstOf
<1> QED BY <1>7, <1>8, <1>10, <1>11 DEF KeptFor

(* A sequence popped of n tokens has lost the last n, whether in its last  *)
(* block, blocks before that or by way of a fork; the others lose none.    *)
LEMMA PoppedContents ==
  ASSUME NEW c, Whole(c, {}), DOMAIN c.kv = Page, SeqIds(c) \subseteq SeqId, NEW s \in SeqIds(c),
         NEW n \in Nat, n <= c.seq_map[s].seq_length, PopFits(c, s, n), NEW d, d = Popped(c, s, n)
  PROVE  /\ DOMAIN d.kv = Page /\ SeqIds(d) = SeqIds(c)
         /\ Contents(d, s) = SubSeq(Contents(c, s), 1, c.seq_map[s].seq_length - n)
         /\ ContentsKept(c, d, SeqIds(c) \ {s})
<1>1. Whole(d, {}) /\ SeqIds(d) = SeqIds(c) /\ PopShape(c, d, s, n)
  BY PoppedWhole
<1>2. Structured(c) /\ Ended(c) /\ Structured(d) /\ Ended(d)
  BY <1>1, WholeParts
<1>3. PICK k \in Nat : k = c.seq_map[s].seq_length /\ k - n \in Nat /\ k - n <= k
  BY <1>2, SequenceFields DEF Structured
<1>4. DOMAIN d.kv = Page /\ FirstOf(d, s, k - n, c, s) /\ KeptFor(c, d, SeqIds(c) \ {s})
  <2>1. CASE n = 0 /\ d = c
    <3>1. k - n = k
      BY <2>1
    <3> QED BY <1>3, <2>1, <3>1 DEF FirstOf, KeptFor
  <2>2. ASSUME NEW m, NEW r, IsLeft(c, m, s, n, r),
               \/ Whole(m, {}) /\ Alone(m, s) /\ r <= LastBlock(m, s).seq_length /\ d = Truncated(m, s, r)
               \/ ReforkShape(m, d, s, m.seq_map[s].seq_length - r)
        PROVE  DOMAIN d.kv = Page /\ FirstOf(d, s, k - n, c, s) /\ KeptFor(c, d, SeqIds(c) \ {s})
    <3>1. /\ Whole(m, {s}) /\ SeqIds(m) = SeqIds(c) /\ \A x \in SeqIds(c) \ {s} : m.seq_map[x] = c.seq_map[x]
          /\ r \in Nat /\ m.seq_map[s].seq_length - r = k - n
          /\ Keeps(c, m) /\ m.seq_map[s].last_block_idx \in Up(c, c.seq_map[s].last_block_idx)
      BY <1>3, <2>2 DEF IsLeft, Up, Trace
    <3>2. Structured(m) /\ Ended(m)
      BY <3>1, WholeParts
    <3>3. DOMAIN m.kv = Page /\ KeptFor(c, m, SeqIds(c) \ {s})
      <4>1. SeqIds(c) \ {s} \subseteq SeqIds(c) /\ SeqIds(c) \ {s} \subseteq SeqIds(m)
        BY <3>1
      <4> QED BY <1>2, <3>1, <3>2, <4>1, EntriesKept
    <3>4. Read(m, m.seq_map[s].last_block_idx) \subseteq Read(c, c.seq_map[s].last_block_idx)
      <4>1. /\ m.seq_map[s].last_block_idx \in Used(m) /\ c.seq_map[s].last_block_idx \in Used(c)
        BY <1>2, <3>1, <3>2 DEF Ended, Ends
      <4>2. /\ m.seq_map[s].last_block_idx \in Used(c)
            /\ Read(c, m.seq_map[s].last_block_idx) \subseteq Read(c, c.seq_map[s].last_block_idx)
        BY <1>2, <3>1, <4>1, UpWithin
      <4>3. Read(m, m.seq_map[s].last_block_idx) = Read(c, m.seq_map[s].last_block_idx)
        BY <1>2, <3>1, <3>2, <4>1, <4>2, ReadKept
      <4> QED BY <4>2, <4>3
    <3>5. DOMAIN d.kv = Page /\ FirstOf(d, s, k - n, m, s) /\ KeptFor(m, d, SeqIds(c) \ {s})
      <4>1. CASE Whole(m, {}) /\ Alone(m, s) /\ r <= LastBlock(m, s).seq_length /\ d = Truncated(m, s, r)
        <5>1. s \in SeqIds(m) /\ r \in Nat /\ SeqIds(m) = SeqIds(c) /\ m.seq_map[s].seq_length - r = k - n
          BY <3>1
        <5>2. DOMAIN m.kv = Page
          BY <3>3
        <5>3. /\ DOMAIN d.kv = Page
              /\ FirstOf(d, s, m.seq_map[s].seq_length - r, m, s)
              /\ KeptFor(m, d, SeqIds(m) \ {s})
          <6>1. Whole(m, {}) /\ DOMAIN m.kv = Page /\ s \in SeqIds(m) /\ Alone(m, s)
            BY <4>1, <5>1, <5>2
          <6>2. r \in Nat /\ r <= LastBlock(m, s).seq_length /\ d = Truncated(m, s, r)
            BY <4>1, <5>1
          <6>3. Shortened(m, d, s, r)
            BY <6>1, <6>2, TruncatedRead
          <6> QED BY <6>3 DEF Shortened
        <5> HIDE DEF SeqIds
        <5> QED BY <5>1, <5>3
      <4>2. CASE ReforkShape(m, d, s, m.seq_map[s].seq_length - r)
        BY <3>1, <3>3, <4>2, ReforkRead
      <4> QED BY <2>2, <4>1, <4>2
    <3>6. FirstOf(d, s, k - n, c, s)
      BY <3>4, <3>5 DEF FirstOf
    <3>7. ASSUME NEW x \in SeqIds(c) \ {s} PROVE FirstOf(d, x, c.seq_map[x].seq_length, c, x)
      BY <3>1, <3>3, <3>5 DEF FirstOf, KeptFor
    <3> QED BY <3>5, <3>6, <3>7 DEF KeptFor
  <2> QED BY <1>1, <2>1, <2>2 DEF PopShape
<1>5. ContentsKept(c, d, SeqIds(c) \ {s})
  BY <1>1, <1>2, <1>4, KeptContents
<1>6. Contents(d, s) = SubSeq(Contents(c, s), 1, k - n)
  BY <1>1, <1>2, <1>3, <1>4, FirstContents
<1> QED BY <1>1, <1>3, <1>4, <1>5, <1>6

-----------------------------------------------------------------------------
(* Tokens that are stored in slots.                                        *)

(* Every token of a chain is in Contents, at its position.                 *)
LEMMA ContentsFrom ==
  ASSUME NEW c, Structured(c), Ended(c), NEW s \in SeqIds(c), NEW x \in Up(c, c.seq_map[s].last_block_idx),
         NEW j \in 0..(c.pool[x].seq_length - 1), NEW i, i = c.pool[x].start_pos + j + 1
  PROVE  i \in DOMAIN Contents(c, s) /\ Contents(c, s)[i] = At(c, x, j)
<1>1. /\ c.seq_map[s].last_block_idx \in Used(c) /\ c.seq_map[s].seq_length \in Nat
      /\ Shows(c, Contents(c, s), c.seq_map[s].seq_length, c.seq_map[s].last_block_idx)
  BY ContentsShow
<1>2. PICK n, st, q :
        n \in Nat /\ st \in Nat /\ n = c.seq_map[s].seq_length /\ st = c.pool[x].start_pos /\ q = Contents(c, s)
  <2>1. x \in Used(c)
    BY <1>1, UpBlocks
  <2> QED BY <1>1, <2>1, UsedBlocks, BlockFields DEF Structured
<1>3. <<st + j, At(c, x, j)>> \in Read(c, c.seq_map[s].last_block_idx)
  BY <1>2 DEF Read, Tokens
<1>4. Len(q) = n /\ <<st + j, At(c, x, j)>> \in Graph(q)
  BY <1>1, <1>2, <1>3 DEF Shows
<1>5. PICK k \in 1..n : <<st + j, At(c, x, j)>> = <<k - 1, q[k]>>
  BY <1>4 DEF Graph
<1>6. st + j = k - 1 /\ At(c, x, j) = q[k] /\ i = st + j + 1
  BY <1>2, <1>5
<1>7. i = k
  BY <1>6
<1>8. DOMAIN q = 1..n
  BY <1>2, ContentsType
<1> QED BY <1>2, <1>6, <1>7, <1>8

(* And each token of Contents is one of the chain's.                       *)
LEMMA ContentsInside ==
  ASSUME NEW c, Structured(c), Ended(c), NEW s \in SeqIds(c), NEW i \in 1..c.seq_map[s].seq_length
  PROVE  \E x \in Up(c, c.seq_map[s].last_block_idx) :
           \E j \in 0..(c.pool[x].seq_length - 1) : i = c.pool[x].start_pos + j + 1
<1>1. /\ c.seq_map[s].last_block_idx \in Used(c) /\ c.seq_map[s].seq_length \in Nat
      /\ Shows(c, Contents(c, s), c.seq_map[s].seq_length, c.seq_map[s].last_block_idx)
  BY ContentsShow
<1>2. PICK q : q = Contents(c, s)
  OBVIOUS
<1>3. <<i - 1, q[i]>> \in Graph(q)
  BY <1>1, <1>2 DEF Shows, Graph
<1>4. <<i - 1, q[i]>> \in Read(c, c.seq_map[s].last_block_idx)
  BY <1>1, <1>2, <1>3 DEF Shows
<1>5. PICK x \in Up(c, c.seq_map[s].last_block_idx) : <<i - 1, q[i]>> \in Tokens(c, x)
  BY <1>4 DEF Read
<1>6. PICK j \in 0..(c.pool[x].seq_length - 1) : <<i - 1, q[i]>> = <<c.pool[x].start_pos + j, At(c, x, j)>>
  BY <1>5 DEF Tokens
<1>7. PICK st \in Nat : st = c.pool[x].start_pos
  <2>1. x \in Used(c)
    BY <1>1, UpBlocks
  <2> QED BY <2>1, UsedBlocks, BlockFields DEF Structured
<1>8. i - 1 = st + j
  BY <1>6, <1>7
<1>9. i = st + j + 1 /\ i \in Nat
  BY <1>1, <1>8
<1> QED BY <1>7, <1>9

(* Two tokens of used blocks are never in the same slot.                   *)
LEMMA SlotApart ==
  ASSUME NEW c, Structured(c), NEW x \in Used(c), NEW y \in Used(c),
         NEW j \in 0..(c.pool[x].seq_length - 1), NEW l \in 0..(c.pool[y].seq_length - 1),
         Slot(c.pool[x], j) = Slot(c.pool[y], l)
  PROVE  x = y /\ j = l
<1>1. PICK m \in Nat, n \in Nat : m = c.pool[x].seq_length /\ n = c.pool[y].seq_length
  BY UsedBlocks, BlockFields DEF Structured
<1>2. j \in Nat /\ j < c.pool[x].seq_length /\ l \in Nat /\ l < c.pool[y].seq_length
  BY <1>1
<1>3. /\ j \div page_size + 1 \in DOMAIN c.pool[x].page_ids
      /\ l \div page_size + 1 \in DOMAIN c.pool[y].page_ids
  BY <1>2, SlotOf
<1>4. /\ c.pool[x].page_ids[j \div page_size + 1] = c.pool[y].page_ids[l \div page_size + 1]
      /\ j % page_size = l % page_size
  BY DEF Slot
<1>5. x = y /\ j \div page_size + 1 = l \div page_size + 1
  BY <1>3, <1>4 DEF Structured, Paged, Apart
<1>6. j \div page_size \in Nat /\ l \div page_size \in Nat
  BY <1>2, Division
<1>7. j \div page_size = l \div page_size
  BY <1>5, <1>6
<1>8. j = page_size * (j \div page_size) + (j % page_size) /\ l = page_size * (l \div page_size) + (l % page_size)
  BY <1>2, Division
<1>9. j = l
  BY <1>4, <1>7, <1>8, Zenon
<1> QED BY <1>5, <1>9

(* slots[i] is that of the k[i]-th token of the last block of sequence     *)
(* q[i], and no token is there twice.                                      *)
Lies(c, slots, q, k) ==
  /\ DOMAIN slots \subseteq Nat
  /\ \A i \in DOMAIN slots :
       /\ q[i] \in SeqIds(c)
       /\ k[i] \in 0..(LastBlock(c, q[i]).seq_length - 1)
       /\ slots[i] = Slot(LastBlock(c, q[i]), k[i])
  /\ \A i, j \in DOMAIN slots : q[i] = q[j] /\ k[i] = k[j] => i = j

(* Its position in the sequence.                                           *)
Position(c, s, k) == LastBlock(c, s).start_pos + k + 1

(* The tokens stored are found in their slots, the others are unchanged.   *)
LEMMA WrittenAt ==
  ASSUME NEW c, Whole(c, {}), DOMAIN c.kv = Page, NEW slots, NEW tokens, NEW q, NEW k, Lies(c, slots, q, k),
         NEW d, d = Written(c, slots, tokens), NEW x \in Used(c), NEW j \in 0..(c.pool[x].seq_length - 1)
  PROVE  /\ DOMAIN d.kv = Page
         /\ \A i \in DOMAIN slots : x = c.seq_map[q[i]].last_block_idx /\ j = k[i] => At(d, x, j) = tokens[i]
         /\ (\A i \in DOMAIN slots : ~(x = c.seq_map[q[i]].last_block_idx /\ j = k[i])) => At(d, x, j) = At(c, x, j)
<1>1. Structured(c) /\ Ended(c) /\ Typed(c)
  BY WholeParts DEF Structured
<1>2. d.pool = c.pool
  BY WrittenWhole
<1>3. PICK p, o : p = c.pool[x].page_ids[j \div page_size + 1] /\ o = j % page_size
  OBVIOUS
<1>4. p \in Page /\ o \in Offset
  <2>1. j \in Nat /\ j < c.pool[x].seq_length
    <3>1. c.pool[x].seq_length \in Nat
      BY <1>1, UsedBlocks, BlockFields
    <3> QED BY <3>1
  <2> QED BY <1>1, <1>3, <2>1, SlotOf
<1>5. Slot(c.pool[x], j) = <<p, o>> /\ At(c, x, j) = c.kv[p][o] /\ At(d, x, j) = d.kv[p][o]
  BY <1>2, <1>3 DEF Slot, At
<1>6. /\ DOMAIN d.kv = Page
      /\ d.kv[p][o] = IF <<p, o>> \in ToSet(slots)
                      THEN tokens[Max({i \in DOMAIN slots : slots[i] = <<p, o>>})] ELSE c.kv[p][o]
  <2> DEFINE K == [z \in Page |-> [y \in Offset |->
                    IF <<z, y>> \in ToSet(slots)
                    THEN tokens[Max({i \in DOMAIN slots : slots[i] = <<z, y>>})] ELSE c.kv[z][y]]]
  <2>1. d = [c EXCEPT !.kv = K]
    BY DEF Written
  <2> HIDE DEF K
  <2>2. d.kv = K
    BY <1>1, <2>1 DEF Typed
  <2>3. DOMAIN K = Page /\ K[p] = [y \in Offset |->
          IF <<p, y>> \in ToSet(slots)
          THEN tokens[Max({i \in DOMAIN slots : slots[i] = <<p, y>>})] ELSE c.kv[p][y]]
    BY <1>4 DEF K
  <2> QED BY <1>4, <2>2, <2>3
<1>7. ASSUME NEW i \in DOMAIN slots, slots[i] = <<p, o>>
      PROVE  x = c.seq_map[q[i]].last_block_idx /\ j = k[i]
  <2>1. /\ q[i] \in SeqIds(c) /\ k[i] \in 0..(LastBlock(c, q[i]).seq_length - 1)
        /\ slots[i] = Slot(LastBlock(c, q[i]), k[i])
    BY DEF Lies
  <2>2. c.seq_map[q[i]].last_block_idx \in Used(c)
    BY <1>1, <2>1 DEF Ended, Ends
  <2> QED BY <1>1, <1>5, <1>7, <2>1, <2>2, SlotApart DEF LastBlock
<1>8. ASSUME NEW i \in DOMAIN slots, x = c.seq_map[q[i]].last_block_idx, j = k[i]
      PROVE  At(d, x, j) = tokens[i]
  <2>1. slots[i] = <<p, o>>
    BY <1>5, <1>8 DEF Lies, LastBlock
  <2>2. ASSUME NEW m \in DOMAIN slots, slots[m] = <<p, o>> PROVE m = i
    <3>1. q[m] \in SeqIds(c) /\ q[i] \in SeqIds(c) /\ k[m] = k[i]
      BY <1>7, <1>8, <2>2 DEF Lies
    <3>2. c.seq_map[q[m]].last_block_idx = c.seq_map[q[i]].last_block_idx
      BY <1>7, <1>8, <2>2
    <3>3. Alone(c, q[i])
      BY <3>1 DEF Whole, Linked, Private
    <3>4. q[m] = q[i]
      BY <3>1, <3>2, <3>3 DEF Alone, Owners
    <3> QED BY <3>1, <3>4 DEF Lies
  <2>3. {m \in DOMAIN slots : slots[m] = <<p, o>>} = {i}
    BY <2>1, <2>2
  <2>4. Max({i}) = i
    <3>1. i \in Nat
      BY DEF Lies
    <3> QED BY <3>1 DEF Max
  <2>5. <<p, o>> \in ToSet(slots)
    BY <2>1 DEF ToSet
  <2> QED BY <1>5, <1>6, <2>3, <2>4, <2>5
<1>9. ASSUME \A i \in DOMAIN slots : ~(x = c.seq_map[q[i]].last_block_idx /\ j = k[i])
      PROVE  At(d, x, j) = At(c, x, j)
  <2>1. <<p, o>> \notin ToSet(slots)
    BY <1>7, <1>9 DEF ToSet
  <2> QED BY <1>5, <1>6, <2>1
<1> QED BY <1>6, <1>8, <1>9

(* In Contents: the tokens at those positions, and nothing else, changed.  *)
HasStored(c, d, slots, tokens, q, k) ==
  /\ \A i \in DOMAIN slots : Contents(d, q[i])[Position(c, q[i], k[i])] = tokens[i]
  /\ \A s \in SeqIds(c) : \A p \in 1..c.seq_map[s].seq_length :
       (\A i \in DOMAIN slots : q[i] = s => p # Position(c, s, k[i])) => Contents(d, s)[p] = Contents(c, s)[p]

(* Written does just that when the slots are different slots of last       *)
(* blocks.                                                                 *)
LEMMA StoredContents ==
  ASSUME NEW c, Whole(c, {}), DOMAIN c.kv = Page, NEW slots, NEW tokens, NEW q, NEW k, Lies(c, slots, q, k),
         NEW d, d = Written(c, slots, tokens)
  PROVE  HasStored(c, d, slots, tokens, q, k)
<1>1. Structured(c) /\ Ended(c)
  BY WholeParts
<1>2. /\ Whole(d, {}) /\ SeqIds(d) = SeqIds(c) /\ d.seq_map = c.seq_map /\ d.pool = c.pool
  BY WrittenWhole
<1>3. Structured(d) /\ Ended(d) /\ Used(d) = Used(c)
  <2>1. Structured(d) /\ Ended(d)
    BY <1>2, WholeParts
  <2>2. d.free_block_idx = c.free_block_idx
    <3>1. Typed(c)
      BY <1>1 DEF Structured
    <3> DEFINE K == [z \in Page |-> [y \in Offset |->
                      IF <<z, y>> \in ToSet(slots)
                      THEN tokens[Max({i \in DOMAIN slots : slots[i] = <<z, y>>})] ELSE c.kv[z][y]]]
    <3>2. d = [c EXCEPT !.kv = K]
      BY DEF Written
    <3> HIDE DEF K
    <3> QED BY <3>1, <3>2 DEF Typed
  <2> QED BY <2>1, <2>2 DEF Used
<1>4. \A b \in Used(c) : Up(d, b) = Up(c, b)
  <2>1. ASSUME NEW b PROVE GetBlockTrace(d, b) = GetBlockTrace(c, b)
    BY <1>2 DEF GetBlockTrace
  <2> QED BY <2>1 DEF Up
<1>5. ASSUME NEW i \in DOMAIN slots PROVE Contents(d, q[i])[Position(c, q[i], k[i])] = tokens[i]
  <2>1. PICK s, b : s = q[i] /\ b = c.seq_map[s].last_block_idx
    OBVIOUS
  <2>2. s \in SeqIds(c) /\ s \in SeqIds(d) /\ k[i] \in 0..(c.pool[b].seq_length - 1)
    BY <1>2, <2>1 DEF Lies, LastBlock
  <2>3. b \in Used(c)
    BY <1>1, <2>1, <2>2 DEF Ended, Ends
  <2>4. At(d, b, k[i]) = tokens[i]
    BY <2>1, <2>2, <2>3, WrittenAt
  <2>5. b \in Up(d, d.seq_map[s].last_block_idx) /\ k[i] \in 0..(d.pool[b].seq_length - 1)
    BY <1>1, <1>2, <1>3, <1>4, <2>1, <2>2, <2>3, UpBlocks
  <2>6. Position(c, s, k[i]) = d.pool[b].start_pos + k[i] + 1
    BY <1>2, <2>1 DEF Position, LastBlock
  <2> QED BY <1>3, <2>1, <2>2, <2>4, <2>5, <2>6, ContentsFrom
<1>6. ASSUME NEW s \in SeqIds(c), NEW p \in 1..c.seq_map[s].seq_length,
             \A i \in DOMAIN slots : q[i] = s => p # Position(c, s, k[i])
      PROVE  Contents(d, s)[p] = Contents(c, s)[p]
  <2>1. PICK b : b = c.seq_map[s].last_block_idx
    OBVIOUS
  <2>2. b \in Used(c)
    BY <1>1, <2>1 DEF Ended, Ends
  <2>3. PICK x \in Up(c, b) : \E j \in 0..(c.pool[x].seq_length - 1) : p = c.pool[x].start_pos + j + 1
    BY <1>1, <2>1, ContentsInside
  <2>4. PICK j \in 0..(c.pool[x].seq_length - 1) : p = c.pool[x].start_pos + j + 1
    BY <2>3
  <2>5. x \in Used(c)
    BY <1>1, <2>2, UpBlocks
  <2>6. ASSUME NEW i \in DOMAIN slots, x = c.seq_map[q[i]].last_block_idx, j = k[i] PROVE FALSE
    <3>1. q[i] \in SeqIds(c) /\ Alone(c, q[i])
      BY DEF Lies, Whole, Linked, Private
    <3>2. Children(c, x) = {} /\ Owners(c, x) = {q[i]}
      BY <2>6, <3>1 DEF Alone
    <3>3. x = b
      BY <1>1, <2>2, <3>2, UpBlocks
    <3>4. q[i] = s
      BY <2>1, <3>2, <3>3 DEF Owners
    <3>5. p = Position(c, s, k[i])
      BY <2>1, <2>4, <2>6, <3>3 DEF Position, LastBlock
    <3> QED BY <1>6, <3>4, <3>5
  <2>7. At(d, x, j) = At(c, x, j)
    BY <2>5, <2>6, WrittenAt
  <2>8. Contents(c, s)[p] = At(c, x, j)
    BY <1>1, <2>1, <2>4, ContentsFrom
  <2>9. Contents(d, s)[p] = At(d, x, j)
    <3>1. x \in Up(d, d.seq_map[s].last_block_idx) /\ j \in 0..(d.pool[x].seq_length - 1)
          /\ s \in SeqIds(d) /\ p = d.pool[x].start_pos + j + 1
      BY <1>2, <1>4, <2>1, <2>2, <2>4
    <3> QED BY <1>3, <3>1, ContentsFrom
  <2> QED BY <2>7, <2>8, <2>9
<1> QED BY <1>5, <1>6 DEF HasStored

-----------------------------------------------------------------------------
(* Appending.                                                              *)

(* A round's n slots are the last n of the sequence's last block.          *)
RoundSlots(d, s, n) == [i \in 1..n |-> Slot(LastBlock(d, s), LastBlock(d, s).seq_length - n + i - 1)]

(* An append that went through reserved its slots and stored its tokens.   *)
LEMMA AppendedIs ==
  ASSUME ~support_sliding_window, NEW r, NEW entry, NEW import, NEW a, a = Appended(r, entry, import),
         Result(r), r.threw = "no", a.threw = "no", Whole(r.cache, {}), entry.seq \in SeqIds(r.cache), entry.n \in Nat,
         NEW m, m = Reserved(r.cache, entry.seq, entry.n)
  PROVE  /\ ReserveFits(r.cache, entry.seq, entry.n)
         /\ \E slots, tokens :
              /\ slots = [i \in 1..entry.n |->
                           AppendSlot(LastBlock(m, entry.seq), LastBlock(r.cache, entry.seq).seq_length, entry.n, i - 1)]
              /\ a.cache = Written(m, slots, tokens) /\ a.slots = Append(r.slots, slots)
<1>1. PICK c, s, n : c = r.cache /\ s = entry.seq /\ n = entry.n
  OBVIOUS
<1>2. SlideHolds(m, s) /\ Slid(m, s) = m
  BY NothingSlides
<1>3. PICK full : full = [r EXCEPT !.threw = "full"]
  OBVIOUS
<1>4. full.threw = "full"
  BY <1>3, SMT DEF Result
<1>5. ReserveFits(c, s, n)
  <2>1. CASE ~ReserveFits(c, s, n)
    <3>1. a = full
      BY <1>1, <1>3, <2>1, Zenon DEF Appended
    <3> QED BY <1>4, <3>1
  <2> QED BY <2>1
<1>6. Allocated(m, s) = m /\ AllocateFits(m, s)
  <2>1. Whole(m, {}) /\ SeqIds(m) = SeqIds(c)
    <3>1. Whole(c, {}) /\ s \in SeqIds(c) \ {} /\ n \in Nat
      BY <1>1
    <3> QED BY <1>1, <1>5, <3>1, ReservedWhole
  <2>2. Typed(m) /\ Ended(m) /\ s \in SeqIds(m)
    BY <1>1, <2>1, WholeParts
  <2>3. PICK b : b = m.seq_map[s].last_block_idx
    OBVIOUS
  <2>4. b \in Block
    BY <2>2, <2>3, UsedBlocks DEF Ended, Ends
  <2> QED BY <2>2, <2>3, <2>4, NothingBorrowed
<1> DEFINE before == LastBlock(c, s).seq_length
           tokens == IF import THEN [i \in 1..n |-> Junk] ELSE NewTokens(c, c.seq_map[s].seq_length, n)
           slots  == [i \in 1..n |-> AppendSlot(LastBlock(m, s), before, n, i - 1)]
<1>7. a = [cache |-> Written(m, slots, tokens), threw |-> "no", slots |-> Append(r.slots, slots)]
  BY <1>1, <1>2, <1>5, <1>6, Zenon DEF Appended
<1>8. a.cache = Written(m, slots, tokens) /\ a.slots = Append(r.slots, slots)
  <2> HIDE DEF slots, tokens
  <2> QED BY <1>7
<1>9. slots = [i \in 1..n |-> AppendSlot(LastBlock(m, s), LastBlock(c, s).seq_length, n, i - 1)]
  OBVIOUS
<1> HIDE DEF slots, tokens, before
<1> QED BY <1>1, <1>5, <1>8, <1>9

(* What agrees up to n has the same first n.                               *)
LEMMA SameFirst ==
  ASSUME NEW V, NEW q \in Seq(V), NEW W, NEW r \in Seq(W), NEW n \in Nat, n <= Len(q), n <= Len(r),
         \A p \in 1..n : q[p] = r[p]
  PROVE  SubSeq(q, 1, n) = SubSeq(r, 1, n)
<1>1. SubSeq(q, 1, n) = [p \in 1..n |-> q[p]]
  OBVIOUS
<1>2. SubSeq(r, 1, n) = [p \in 1..n |-> r[p]]
  OBVIOUS
<1> QED BY <1>1, <1>2

(* The first n tokens of two sequences, from their tokens.                 *)
LEMMA ContentsSame ==
  ASSUME NEW c, NEW d, Structured(c), Ended(c), Structured(d), Ended(d), NEW s \in SeqIds(c), NEW t \in SeqIds(d),
         NEW n \in Nat, n <= c.seq_map[s].seq_length, n <= d.seq_map[t].seq_length,
         \A p \in 1..n : Contents(d, t)[p] = Contents(c, s)[p]
  PROVE  SubSeq(Contents(d, t), 1, n) = SubSeq(Contents(c, s), 1, n)
<1>1. PICK V : Contents(c, s) \in Seq(V)
  BY ContentsType
<1>2. PICK W : Contents(d, t) \in Seq(W)
  BY ContentsType
<1>3. Len(Contents(c, s)) = c.seq_map[s].seq_length /\ Len(Contents(d, t)) = d.seq_map[t].seq_length
  BY ContentsType
<1> QED BY <1>1, <1>2, <1>3, SameFirst

(* Written makes no page.                                                  *)
LEMMA WrittenPages ==
  ASSUME NEW c, Typed(c), NEW slots, NEW tokens
  PROVE  DOMAIN Written(c, slots, tokens).kv = Page
<1> DEFINE K == [z \in Page |-> [y \in Offset |->
                  IF <<z, y>> \in ToSet(slots)
                  THEN tokens[Max({i \in DOMAIN slots : slots[i] = <<z, y>>})] ELSE c.kv[z][y]]]
<1>1. Written(c, slots, tokens) = [c EXCEPT !.kv = K]
  BY DEF Written
<1>2. DOMAIN K = Page
  OBVIOUS
<1> HIDE DEF K
<1> QED BY <1>1, <1>2 DEF Typed

(* After an append of n tokens to sequence s.                              *)
HasAppended(c, d, s, n, slots) ==
  /\ DOMAIN d.kv = Page /\ Whole(d, {}) /\ SeqIds(d) = SeqIds(c)
  /\ d.seq_map[s].seq_length = c.seq_map[s].seq_length + n
  /\ LastBlock(d, s).seq_length = LastBlock(c, s).seq_length + n
  /\ OthersKept(c, d, s)
  /\ ContentsKept(c, d, SeqIds(c) \ {s})
  /\ SubSeq(Contents(d, s), 1, c.seq_map[s].seq_length) = Contents(c, s)
  /\ slots = RoundSlots(d, s, n)

(* Reserving changes no token.                                             *)
LEMMA ReservedContents ==
  ASSUME ~support_sliding_window, NEW c, Whole(c, {}), NEW s \in SeqIds(c), NEW n \in Nat,
         ReserveFits(c, s, n), NEW m, m = Reserved(c, s, n)
  PROVE  /\ ContentsKept(c, m, SeqIds(c) \ {s})
         /\ SubSeq(Contents(m, s), 1, c.seq_map[s].seq_length) = Contents(c, s)
<1>1. /\ Whole(m, {}) /\ SeqIds(m) = SeqIds(c) /\ OthersKept(c, m, s) /\ Lengthens(c, m, s) /\ m.kv = c.kv
      /\ m.seq_map[s].seq_length = c.seq_map[s].seq_length + n
  <2>1. s \in SeqIds(c) \ {}
    OBVIOUS
  <2> QED BY <2>1, ReservedWhole
<1>2. Structured(c) /\ Ended(c) /\ Structured(m) /\ Ended(m)
  BY <1>1, WholeParts
<1>3. Used(m) = Used(c) /\ \A x \in Used(c) \cap Used(m) : Longer(c, m, x)
  BY <1>1, <1>2, LengthensLonger
<1>4. Agree(c, m)
  BY <1>1 DEF Agree
<1>5. ASSUME NEW x \in SeqIds(c) PROVE FirstOf(c, x, c.seq_map[x].seq_length, m, x)
  <2>1. m.seq_map[x].last_block_idx = c.seq_map[x].last_block_idx
    BY <1>1 DEF OthersKept, Lengthens
  <2>2. c.seq_map[x].last_block_idx \in Used(c) \cap Used(m)
    BY <1>2, <1>3 DEF Ended, Ends
  <2>3. Read(c, c.seq_map[x].last_block_idx) \subseteq Read(m, c.seq_map[x].last_block_idx)
    BY <1>2, <1>3, <1>4, <2>2, ReadLonger
  <2> QED BY <2>1, <2>3 DEF FirstOf
<1>6. ASSUME NEW x \in SeqIds(c), c.seq_map[x].seq_length <= m.seq_map[x].seq_length
      PROVE  Contents(c, x) = SubSeq(Contents(m, x), 1, c.seq_map[x].seq_length)
  <2>1. c.seq_map[x].seq_length \in Nat /\ x \in SeqIds(m)
    BY <1>1, <1>2, ContentsType
  <2> QED BY <1>2, <1>5, <1>6, <2>1, FirstContents
<1>7. \A x \in SeqIds(c) : c.seq_map[x].seq_length \in Nat
  BY <1>2, ContentsType
<1>8. ASSUME NEW x \in SeqIds(c) \ {s} PROVE Contents(m, x) = Contents(c, x)
  <2>1. m.seq_map[x].seq_length = c.seq_map[x].seq_length
    BY <1>1 DEF OthersKept
  <2>2. SubSeq(Contents(m, x), 1, m.seq_map[x].seq_length) = Contents(m, x)
    BY <1>1, <1>2, ContentsType
  <2>3. c.seq_map[x].seq_length <= m.seq_map[x].seq_length
    BY <1>7, <2>1
  <2> QED BY <1>6, <2>1, <2>2, <2>3
<1>9. SubSeq(Contents(m, s), 1, c.seq_map[s].seq_length) = Contents(c, s)
  <2>1. c.seq_map[s].seq_length <= m.seq_map[s].seq_length
    BY <1>1, <1>7
  <2> QED BY <1>6, <2>1
<1> QED BY <1>8, <1>9 DEF ContentsKept

(* Where appended tokens go, without a sink.                               *)
LEMMA AppendSlotIs ==
  ASSUME NEW e, e.sink_length = 0, e.sliding_window_offset = 0, NEW before \in Nat, NEW n \in Nat,
         e.seq_length = before + n, NEW i \in 1..n
  PROVE  AppendSlot(e, before, n, i - 1) = Slot(e, before + i - 1)
<1>1. /\ ~(before + (i - 1) < e.sink_length) /\ ~(e.seq_length - n + (i - 1) < e.sink_length)
      /\ e.seq_length - n + (i - 1) = before + i - 1
  OBVIOUS
<1>2. OffsetInBlock(e, before + i - 1) = before + i - 1
  BY DEF OffsetInBlock
<1> QED BY <1>1, <1>2, Zenon DEF AppendSlot

(* What a batch does for one sequence.                                     *)
LEMMA AppendedContents ==
  ASSUME ~support_sliding_window, NEW r, NEW entry, NEW import, NEW a, a = Appended(r, entry, import),
         Result(r), r.threw = "no", a.threw = "no", Whole(r.cache, {}), DOMAIN r.cache.kv = Page,
         entry.seq \in SeqIds(r.cache), entry.n \in Nat
  PROVE  \E slots : a.slots = Append(r.slots, slots) /\ HasAppended(r.cache, a.cache, entry.seq, entry.n, slots)
<1>1. PICK c, s, n, m : c = r.cache /\ s = entry.seq /\ n = entry.n /\ m = Reserved(c, s, n)
  OBVIOUS
<1>2. Whole(c, {}) /\ DOMAIN c.kv = Page /\ s \in SeqIds(c) /\ n \in Nat
  BY <1>1
<1>3. /\ ReserveFits(c, s, n)
      /\ \E slots, tokens :
              /\ slots = [i \in 1..n |-> AppendSlot(LastBlock(m, s), LastBlock(c, s).seq_length, n, i - 1)]
              /\ a.cache = Written(m, slots, tokens) /\ a.slots = Append(r.slots, slots)
  BY <1>1, AppendedIs
<1>4. PICK slots, tokens :
              /\ slots = [i \in 1..n |-> AppendSlot(LastBlock(m, s), LastBlock(c, s).seq_length, n, i - 1)]
              /\ a.cache = Written(m, slots, tokens) /\ a.slots = Append(r.slots, slots)
  BY <1>3
<1>5. PICK d : d = a.cache
  OBVIOUS
<1>6. /\ Whole(m, {}) /\ SeqIds(m) = SeqIds(c) /\ OthersKept(c, m, s) /\ m.kv = c.kv
      /\ m.seq_map[s].seq_length = c.seq_map[s].seq_length + n
      /\ LastBlock(m, s).seq_length = LastBlock(c, s).seq_length + n
      /\ Lengthens(c, m, s)
  <2>1. s \in SeqIds(c) \ {}
    BY <1>2
  <2> QED BY <1>1, <1>2, <1>3, <2>1, ReservedWhole
<1>7. /\ ContentsKept(c, m, SeqIds(c) \ {s})
      /\ SubSeq(Contents(m, s), 1, c.seq_map[s].seq_length) = Contents(c, s)
  <2>1. Whole(c, {}) /\ s \in SeqIds(c) /\ n \in Nat /\ ReserveFits(c, s, n) /\ m = Reserved(c, s, n)
    BY <1>1, <1>2, <1>3
  <2> QED BY <2>1, ReservedContents
<1>8. /\ Whole(d, {}) /\ SeqIds(d) = SeqIds(m) /\ d.seq_map = m.seq_map /\ d.pool = m.pool
      /\ DOMAIN d.kv = Page
  <2>1. Typed(m)
    BY <1>6, WholeParts
  <2> QED BY <1>4, <1>5, <1>6, <2>1, WrittenWhole, WrittenPages
<1>9. Structured(c) /\ Ended(c) /\ Structured(m) /\ Ended(m) /\ Structured(d) /\ Ended(d)
  BY <1>2, <1>6, <1>8, WholeParts
<1>10. PICK e, h, st : e = LastBlock(m, s) /\ h = LastBlock(c, s).seq_length /\ st = e.start_pos
  OBVIOUS
<1>11. /\ e.sink_length = 0 /\ e.sliding_window_offset = 0 /\ st \in Nat /\ h \in Nat
       /\ e.seq_length = h + n /\ st + h = c.seq_map[s].seq_length
  <2>1. c.seq_map[s].last_block_idx \in Used(c) /\ m.seq_map[s].last_block_idx \in Used(m)
    BY <1>2, <1>6, <1>9 DEF Ended, Ends
  <2>2. m.seq_map[s].last_block_idx \in Block /\ c.seq_map[s].last_block_idx \in Block
    BY <2>1 DEF Used
  <2>3. e \in BlockType /\ LastBlock(c, s) \in BlockType
    BY <1>9, <1>10, <2>2 DEF LastBlock, Structured, Typed
  <2>4. e.start_pos = LastBlock(c, s).start_pos
    BY <1>6, <1>10 DEF Lengthens, Longer, LastBlock
  <2>5. c.seq_map[s].seq_length = LastBlock(c, s).start_pos + LastBlock(c, s).seq_length
    BY <1>2, <1>9 DEF Ended, Ends
  <2> QED BY <1>6, <1>10, <2>3, <2>4, <2>5 DEF BlockType
<1>12. slots = [i \in 1..n |-> Slot(e, h + i - 1)]
  <2>1. ASSUME NEW i \in 1..n PROVE AppendSlot(e, h, n, i - 1) = Slot(e, h + i - 1)
    BY <1>2, <1>11, AppendSlotIs
  <2> QED BY <1>4, <1>10, <2>1
<1>13. slots = RoundSlots(d, s, n)
  <2>1. LastBlock(d, s) = e
    BY <1>8, <1>10 DEF LastBlock
  <2>2. \A i \in 1..n : e.seq_length - n + i - 1 = h + i - 1
    BY <1>2, <1>11
  <2> QED BY <1>12, <2>1, <2>2 DEF RoundSlots
<1> DEFINE q == [i \in 1..n |-> s]
           k == [i \in 1..n |-> h + i - 1]
<1>14. Lies(m, slots, q, k)
  <2>1. DOMAIN slots = 1..n
    BY <1>12
  <2>2. ASSUME NEW i \in 1..n
        PROVE  /\ q[i] = s /\ k[i] = h + i - 1 /\ k[i] \in 0..(e.seq_length - 1)
               /\ slots[i] = Slot(e, k[i])
    BY <1>2, <1>11, <1>12
  <2>3. ASSUME NEW i \in 1..n, NEW j \in 1..n, k[i] = k[j] PROVE i = j
    BY <1>2, <1>11, <2>2, <2>3
  <2> HIDE DEF q, k
  <2> QED BY <1>2, <1>6, <1>10, <2>1, <2>2, <2>3 DEF Lies
<1>15. HasStored(m, d, slots, tokens, q, k)
  <2> HIDE DEF q, k
  <2> QED BY <1>2, <1>4, <1>5, <1>6, <1>14, StoredContents
<1>16. DOMAIN slots = 1..n
  BY <1>12
<1>17. ASSUME NEW x \in SeqIds(c) \ {s} PROVE Contents(d, x) = Contents(c, x)
  <2>1. \A p \in 1..m.seq_map[x].seq_length : Contents(d, x)[p] = Contents(m, x)[p]
    BY <1>6, <1>15, <1>16 DEF HasStored
  <2>2. m.seq_map[x].seq_length \in Nat /\ d.seq_map[x] = m.seq_map[x] /\ x \in SeqIds(m) /\ x \in SeqIds(d)
    BY <1>6, <1>8, <1>9, ContentsType
  <2>3. SubSeq(Contents(d, x), 1, m.seq_map[x].seq_length) = SubSeq(Contents(m, x), 1, m.seq_map[x].seq_length)
    BY <1>9, <2>1, <2>2, ContentsSame
  <2>4. Contents(d, x) = Contents(m, x)
    BY <1>9, <2>2, <2>3, ContentsType
  <2> QED BY <1>7, <2>4 DEF ContentsKept
<1>18. SubSeq(Contents(d, s), 1, c.seq_map[s].seq_length) = Contents(c, s)
  <2>1. PICK l \in Nat : l = c.seq_map[s].seq_length
    BY <1>2, <1>9, ContentsType
  <2>2. ASSUME NEW p \in 1..l PROVE Contents(d, s)[p] = Contents(m, s)[p]
    <3>1. p \in 1..m.seq_map[s].seq_length /\ s \in SeqIds(m)
      BY <1>2, <1>6, <2>1
    <3>2. \A i \in 1..n : p # Position(m, s, k[i])
      BY <1>2, <1>10, <1>11, <2>1 DEF Position
    <3> QED BY <1>15, <1>16, <3>1, <3>2 DEF HasStored
  <2>3. l <= m.seq_map[s].seq_length /\ l <= d.seq_map[s].seq_length /\ s \in SeqIds(m) /\ s \in SeqIds(d)
    BY <1>2, <1>6, <1>8, <2>1
  <2>4. SubSeq(Contents(d, s), 1, l) = SubSeq(Contents(m, s), 1, l)
    BY <1>9, <2>2, <2>3, ContentsSame
  <2> QED BY <1>7, <2>1, <2>4
<1>19. OthersKept(c, d, s) /\ LastBlock(d, s) = LastBlock(m, s)
  BY <1>6, <1>8 DEF OthersKept, LastBlock
<1>20. HasAppended(c, d, s, n, slots)
  BY <1>6, <1>8, <1>13, <1>17, <1>18, <1>19 DEF HasAppended, ContentsKept
<1> QED BY <1>1, <1>4, <1>5, <1>20

(* The batch's sequences are different ones.                               *)
Distinct(batch) == \A i, j \in 1..Len(batch) : batch[i].seq = batch[j].seq => i = j

(* n more tokens behind the ones there were.                               *)
Extends(c, d, s, n) ==
  /\ d.seq_map[s].seq_length = c.seq_map[s].seq_length + n
  /\ SubSeq(Contents(d, s), 1, c.seq_map[s].seq_length) = Contents(c, s)

(* Of a result of the first i entries of a batch.                          *)
HasExtended(c, d, batch, i) ==
  /\ Whole(d, {}) /\ DOMAIN d.kv = Page /\ SeqIds(d) = SeqIds(c)
  /\ \A s \in SeqIds(c) : (\A j \in 1..i : batch[j].seq # s) =>
       Contents(d, s) = Contents(c, s) /\ d.seq_map[s] = c.seq_map[s]
  /\ \A j \in 1..i : Extends(c, d, batch[j].seq, batch[j].n)
BatchSlots(d, batch, i) == [j \in 1..i |-> RoundSlots(d, batch[j].seq, batch[j].n)]
BatchDone(c, batch, r, i) ==
  /\ Result(r)
  /\ r.threw = "no" => HasExtended(c, r.cache, batch, i) /\ r.slots = BatchSlots(r.cache, batch, i)

(* One more element.                                                       *)
LEMMA AppendOne ==
  ASSUME NEW i \in Nat, NEW f, NEW g, DOMAIN f = 1..i, f = [j \in 1..i |-> f[j]],
         g = [j \in 1..(i + 1) |-> g[j]], \A j \in 1..i : g[j] = f[j]
  PROVE  Append(f, g[i + 1]) = g
<1>1. PICK V : V = {g[j] : j \in 1..(i + 1)}
  OBVIOUS
<1>2. \A j \in 1..(i + 1) : g[j] \in V
  BY <1>1
<1>3. f \in Seq(V) /\ Len(f) = i
  <2>1. \A j \in 1..i : f[j] \in V
    BY <1>2
  <2>2. f \in [1..i -> V]
    BY <2>1
  <2> QED BY <2>2
<1>4. g \in Seq(V) /\ Len(g) = i + 1
  <2>1. g \in [1..(i + 1) -> V]
    BY <1>2
  <2> QED BY <2>1
<1>5. Append(f, g[i + 1]) \in Seq(V) /\ Len(Append(f, g[i + 1])) = i + 1
  BY <1>2, <1>3
<1>6. \A j \in 1..(i + 1) : Append(f, g[i + 1])[j] = g[j]
  BY <1>3
<1> QED BY <1>4, <1>5, <1>6

(* Nothing that another sequence appends changes a sequence's slots.       *)
LEMMA SlotsKept ==
  ASSUME NEW d, NEW e, NEW s, OthersKept(d, e, s), NEW x \in SeqIds(d) \ {s}, NEW n
  PROVE  RoundSlots(e, x, n) = RoundSlots(d, x, n)
<1>1. LastBlock(e, x) = LastBlock(d, x)
  BY DEF OthersKept
<1> QED BY <1>1 DEF RoundSlots

(* One more entry of a batch.                                              *)
LEMMA BatchDoneMore ==
  ASSUME ~support_sliding_window, NEW c, NEW batch, IsBatch(c, batch), Distinct(batch), NEW import,
         Structured(c), Ended(c),
         NEW i \in Nat, i + 1 \in 1..Len(batch), NEW r, BatchDone(c, batch, r, i),
         NEW a, a = Appended(r, batch[i + 1], import)
  PROVE  BatchDone(c, batch, a, i + 1)
<1>1. CASE r.threw # "no"
  <2>1. a = r
    BY <1>1, Zenon DEF Appended
  <2> QED BY <1>1, <2>1 DEF BatchDone
<1>2. CASE r.threw = "no"
  <2>1. PICK d, entry, s, n : d = r.cache /\ entry = batch[i + 1] /\ s = entry.seq /\ n = entry.n
    OBVIOUS
  <2>2. Result(r) /\ HasExtended(c, d, batch, i) /\ r.slots = BatchSlots(d, batch, i)
    BY <1>2, <2>1 DEF BatchDone
  <2>3. Whole(d, {}) /\ DOMAIN d.kv = Page /\ SeqIds(d) = SeqIds(c) /\ s \in SeqIds(d) /\ n \in Nat
    BY <2>1, <2>2 DEF HasExtended, IsBatch
  <2>4. Result(a)
    <3>1. entry.seq \in SeqIds(r.cache) \ {} /\ entry.n \in Nat /\ (r.threw = "no" => Whole(r.cache, {}))
          /\ a = Appended(r, entry, import)
      BY <2>1, <2>3
    <3> QED BY <2>2, <3>1, AppendedWhole
  <2> SUFFICES ASSUME a.threw = "no" PROVE BatchDone(c, batch, a, i + 1)
    BY <2>4 DEF BatchDone
  <2>5. PICK e : e = a.cache
    OBVIOUS
  <2>6. \E slots : a.slots = Append(r.slots, slots) /\ HasAppended(d, e, s, n, slots)
    <3>1. /\ a = Appended(r, entry, import) /\ Whole(r.cache, {}) /\ DOMAIN r.cache.kv = Page
          /\ entry.seq \in SeqIds(r.cache) /\ entry.n \in Nat
      BY <2>1, <2>3
    <3>2. \E slots : a.slots = Append(r.slots, slots) /\ HasAppended(r.cache, a.cache, entry.seq, entry.n, slots)
      BY <1>2, <2>2, <3>1, AppendedContents
    <3> QED BY <2>1, <2>5, <3>2
  <2>7. PICK slots : a.slots = Append(r.slots, slots) /\ HasAppended(d, e, s, n, slots)
    BY <2>6
  <2>8. /\ Whole(e, {}) /\ DOMAIN e.kv = Page /\ SeqIds(e) = SeqIds(d)
        /\ e.seq_map[s].seq_length = d.seq_map[s].seq_length + n
        /\ OthersKept(d, e, s) /\ ContentsKept(d, e, SeqIds(d) \ {s})
        /\ SubSeq(Contents(e, s), 1, d.seq_map[s].seq_length) = Contents(d, s)
        /\ slots = RoundSlots(e, s, n)
    BY <2>7 DEF HasAppended
  <2>9. ASSUME NEW j \in 1..i PROVE j \in 1..Len(batch) /\ j # i + 1 /\ batch[j].seq # s /\ batch[j].seq \in SeqIds(d)
    <3>1. j \in 1..Len(batch) /\ j # i + 1
      BY DEF IsBatch
    <3> QED BY <2>1, <2>3, <3>1 DEF Distinct, IsBatch
  <2>10. ASSUME NEW x \in SeqIds(c), \A j \in 1..(i + 1) : batch[j].seq # x
         PROVE  Contents(e, x) = Contents(c, x) /\ e.seq_map[x] = c.seq_map[x]
    <3>1. \A j \in 1..i : batch[j].seq # x
      BY <2>10
    <3>2. x # s /\ x \in SeqIds(d)
      BY <2>1, <2>3, <2>10
    <3>3. Contents(d, x) = Contents(c, x) /\ d.seq_map[x] = c.seq_map[x]
      BY <2>2, <3>1 DEF HasExtended
    <3> QED BY <2>8, <3>2, <3>3 DEF OthersKept, ContentsKept
  <2>11. ASSUME NEW j \in 1..(i + 1) PROVE Extends(c, e, batch[j].seq, batch[j].n)
    <3>1. CASE j = i + 1
      <4>1. d.seq_map[s] = c.seq_map[s] /\ Contents(d, s) = Contents(c, s)
        <5>1. \A y \in 1..i : batch[y].seq # s
          BY <2>9
        <5> QED BY <2>2, <2>3, <5>1 DEF HasExtended
      <4> QED BY <2>1, <2>8, <3>1, <4>1 DEF Extends
    <3>2. CASE j # i + 1
      <4>1. j \in 1..i
        BY <3>2
      <4>2. Extends(c, d, batch[j].seq, batch[j].n) /\ batch[j].seq \in SeqIds(d) \ {s}
        BY <2>2, <2>9, <4>1 DEF HasExtended
      <4>3. e.seq_map[batch[j].seq] = d.seq_map[batch[j].seq] /\ Contents(e, batch[j].seq) = Contents(d, batch[j].seq)
        BY <2>8, <4>2 DEF OthersKept, ContentsKept
      <4> QED BY <4>2, <4>3 DEF Extends
    <3> QED BY <3>1, <3>2
  <2>12. a.slots = BatchSlots(e, batch, i + 1)
    <3>1. PICK f, g : f = BatchSlots(d, batch, i) /\ g = BatchSlots(e, batch, i + 1)
      OBVIOUS
    <3>2. ASSUME NEW j \in 1..i PROVE g[j] = f[j]
      <4>1. RoundSlots(e, batch[j].seq, batch[j].n) = RoundSlots(d, batch[j].seq, batch[j].n)
        BY <2>8, <2>9, SlotsKept
      <4> QED BY <3>1, <4>1 DEF BatchSlots
    <3>3. g[i + 1] = slots
      BY <2>1, <2>8, <3>1 DEF BatchSlots
    <3>4. DOMAIN f = 1..i /\ f = [j \in 1..i |-> f[j]] /\ g = [j \in 1..(i + 1) |-> g[j]]
      BY <3>1 DEF BatchSlots
    <3>5. Append(f, g[i + 1]) = g
      BY <3>2, <3>4, AppendOne
    <3> QED BY <2>2, <2>7, <3>1, <3>3, <3>5
  <2>13. HasExtended(c, e, batch, i + 1)
    BY <2>3, <2>8, <2>10, <2>11 DEF HasExtended
  <2> QED BY <2>4, <2>5, <2>12, <2>13 DEF BatchDone
<1> QED BY <1>1, <1>2

(* A batch extends its sequences and leaves the others alone.              *)
LEMMA ForwardedContents ==
  ASSUME ~support_sliding_window, NEW c, Whole(c, {}), DOMAIN c.kv = Page,
         NEW batch, IsBatch(c, batch), Distinct(batch), NEW import
  PROVE  BatchDone(c, batch, Forwarded(c, batch, import), Len(batch))
<1> DEFINE l == Len(batch)
           start == [cache |-> c, threw |-> "no", slots |-> <<>>]
           g == CHOOSE f : f = [i \in 0..l |-> IF i = 0 THEN [cache |-> c, threw |-> "no", slots |-> <<>>]
                                ELSE Appended(f[i - 1], batch[i], import)]
<1>1. l \in Nat /\ Structured(c) /\ Ended(c)
  BY WholeParts DEF IsBatch
<1>2. Forwarded(c, batch, import) = g[l]
  BY Zenon DEF Forwarded
<1>3. Results(c, batch, import, g, l)
  <2>1. \E f : Results(c, batch, import, f, l)
    BY <1>1, ResultsExist, Zenon
  <2> QED BY <2>1, Zenon DEF Results
<1> HIDE DEF g
<1>4. /\ g[0] = start
      /\ \A i \in 1..l : g[i] = Appended(g[i - 1], batch[i], import)
  <2>1. \A i \in 0..l : g[i] = IF i = 0 THEN start ELSE Appended(g[i - 1], batch[i], import)
    BY <1>3, Zenon DEF Results
  <2>2. 0 \in 0..l /\ \A i \in 1..l : i \in 0..l /\ i # 0
    BY <1>1
  <2> HIDE DEF l, start
  <2> QED BY <2>1, <2>2, Zenon
<1>5. BatchDone(c, batch, g[0], 0)
  <2>1. start.cache = c /\ start.threw = "no" /\ Result(start) /\ start.slots = <<>>
    BY DEF Result
  <2>2. 1..0 = {}
    OBVIOUS
  <2>3. HasExtended(c, c, batch, 0)
    BY <2>2 DEF HasExtended
  <2>4. BatchSlots(c, batch, 0) = <<>>
    BY <2>2 DEF BatchSlots
  <2> HIDE DEF start
  <2> QED BY <1>4, <2>1, <2>3, <2>4 DEF BatchDone
<1> DEFINE T == {i \in Nat : i <= l /\ ~ BatchDone(c, batch, g[i], i)}
<1> SUFFICES ASSUME ~ BatchDone(c, batch, g[l], l) PROVE FALSE
  BY <1>2
<1> HIDE DEF l, start
<1>6. l \in T
  BY <1>1
<1>7. PICK m \in T : \A k \in T : m <= k
  BY <1>6, LeastNatural
<1>8. m # 0
  BY <1>5, <1>7
<1>9. PICK k \in Nat : m = k + 1 /\ k + 1 \in 1..l /\ k <= l /\ m - 1 = k
  <2>1. m \in Nat /\ m <= l
    BY <1>7
  <2>2. m - 1 \in Nat /\ m = (m - 1) + 1 /\ (m - 1) + 1 \in 1..l /\ m - 1 <= l
    BY <1>1, <1>8, <2>1
  <2> QED BY <2>2
<1>10. BatchDone(c, batch, g[k], k)
  <2>1. ~ (m <= k)
    BY <1>9
  <2> QED BY <1>7, <1>9, <2>1
<1>11. g[m] = Appended(g[k], batch[k + 1], import)
  <2>1. g[k + 1] = Appended(g[(k + 1) - 1], batch[k + 1], import)
    BY <1>4, <1>9, Zenon
  <2>2. (k + 1) - 1 = k
    BY <1>9
  <2> QED BY <1>9, <2>1, <2>2, Zenon
<1>12. PICK r, a : r = g[k] /\ a = g[m]
  OBVIOUS
<1>13. BatchDone(c, batch, a, k + 1)
  <2>1. BatchDone(c, batch, r, k) /\ a = Appended(r, batch[k + 1], import) /\ k + 1 \in 1..Len(batch)
    BY <1>9, <1>10, <1>11, <1>12 DEF l
  <2> QED BY <1>1, <2>1, BatchDoneMore
<1> QED BY <1>7, <1>9, <1>12, <1>13

(* d is c with the tokens at the positions from + 1 to from + n of         *)
(* sequence s replaced.                                                    *)
Replaces(c, d, s, from, n) ==
  /\ DOMAIN d.kv = Page /\ Whole(d, {}) /\ SeqIds(d) = SeqIds(c) /\ d.seq_map = c.seq_map
  /\ ContentsKept(c, d, SeqIds(c) \ {s})
  /\ \A p \in 1..c.seq_map[s].seq_length : p \notin (from + 1)..(from + n) => Contents(d, s)[p] = Contents(c, s)[p]

(* The slots of n tokens of a last block, from the h-th one on.            *)
SlotsFrom(c, s, h, n) == [i \in 1..n |-> Slot(LastBlock(c, s), h + i - 1)]

(* They are slots of the last block, each another one.                     *)
LEMMA SlotsLie ==
  ASSUME NEW c, NEW s \in SeqIds(c), LastBlock(c, s).seq_length \in Nat, NEW h \in Nat, NEW n \in Nat,
         h + n <= LastBlock(c, s).seq_length
  PROVE  Lies(c, SlotsFrom(c, s, h, n), [i \in 1..n |-> s], [i \in 1..n |-> h + i - 1])
<1>1. PICK m \in Nat : m = LastBlock(c, s).seq_length
  OBVIOUS
<1>2. h + n <= m
  BY <1>1
<1> DEFINE q == [i \in 1..n |-> s]
           k == [i \in 1..n |-> h + i - 1]
           slots == SlotsFrom(c, s, h, n)
<1>3. DOMAIN slots = 1..n /\ 1..n \subseteq Nat
  BY DEF SlotsFrom
<1>4. ASSUME NEW i \in 1..n PROVE q[i] = s /\ k[i] = h + i - 1 /\ slots[i] = Slot(LastBlock(c, s), k[i])
  BY DEF SlotsFrom
<1>5. ASSUME NEW i \in 1..n PROVE h + i - 1 \in 0..(m - 1)
  BY <1>2
<1>6. ASSUME NEW i \in 1..n, NEW j \in 1..n, h + i - 1 = h + j - 1 PROVE i = j
  BY <1>6
<1>7. ASSUME NEW i \in 1..n, NEW j \in 1..n, q[i] = q[j], k[i] = k[j] PROVE i = j
  <2>1. h + i - 1 = h + j - 1
    BY <1>4, <1>7
  <2> QED BY <1>6, <2>1
<1>8. ASSUME NEW i \in 1..n
      PROVE /\ q[i] \in SeqIds(c) /\ k[i] \in 0..(LastBlock(c, q[i]).seq_length - 1)
            /\ slots[i] = Slot(LastBlock(c, q[i]), k[i])
  <2> HIDE DEF q, k, slots
  <2> QED BY <1>1, <1>4, <1>5
<1> HIDE DEF q, k, slots
<1>9. Lies(c, slots, q, k)
  BY <1>3, <1>7, <1>8 DEF Lies
<1> QED BY <1>9 DEF q, k, slots

(* Storing n tokens from the h-th one of the last block on.                *)
LEMMA SetInLast ==
  ASSUME NEW c, Whole(c, {}), DOMAIN c.kv = Page, NEW s \in SeqIds(c), NEW h \in Nat, NEW n \in Nat,
         h + n <= LastBlock(c, s).seq_length, NEW tokens
  PROVE  Replaces(c, Written(c, SlotsFrom(c, s, h, n), tokens), s, LastBlock(c, s).start_pos + h, n)
<1>1. Structured(c) /\ Ended(c) /\ Typed(c)
  BY WholeParts
<1>2. PICK slots, q, k, d :
        /\ slots = SlotsFrom(c, s, h, n) /\ q = [i \in 1..n |-> s] /\ k = [i \in 1..n |-> h + i - 1]
        /\ d = Written(c, slots, tokens)
  OBVIOUS
<1>3. DOMAIN d.kv = Page /\ Whole(d, {}) /\ SeqIds(d) = SeqIds(c) /\ d.seq_map = c.seq_map
  BY <1>1, <1>2, WrittenWhole, WrittenPages
<1>4. Structured(d) /\ Ended(d)
  BY <1>3, WholeParts
<1>5. LastBlock(c, s).seq_length \in Nat /\ LastBlock(c, s).start_pos \in Nat
  BY <1>1, UsedBlocks, BlockFields DEF Ended, Ends, LastBlock
<1>6. Lies(c, slots, q, k)
  BY <1>2, <1>5, SlotsLie
<1>7. HasStored(c, d, slots, tokens, q, k)
  BY <1>2, <1>6, StoredContents
<1>8. DOMAIN slots = 1..n /\ \A i \in 1..n : q[i] = s /\ k[i] = h + i - 1
  BY <1>2 DEF SlotsFrom
<1>9. ASSUME NEW x \in SeqIds(c) \ {s} PROVE Contents(d, x) = Contents(c, x)
  <2>1. \A p \in 1..c.seq_map[x].seq_length : Contents(d, x)[p] = Contents(c, x)[p]
    BY <1>7, <1>8 DEF HasStored
  <2>2. c.seq_map[x].seq_length \in Nat /\ d.seq_map[x] = c.seq_map[x] /\ x \in SeqIds(d)
    BY <1>1, <1>3, ContentsType
  <2>3. PICK l \in Nat : l = c.seq_map[x].seq_length /\ l <= c.seq_map[x].seq_length /\ l <= d.seq_map[x].seq_length
    BY <2>2
  <2>4. SubSeq(Contents(d, x), 1, l) = SubSeq(Contents(c, x), 1, l)
    BY <1>1, <1>4, <2>1, <2>2, <2>3, ContentsSame
  <2>5. SubSeq(Contents(d, x), 1, d.seq_map[x].seq_length) = Contents(d, x)
    BY <1>4, <2>2, ContentsType
  <2>6. SubSeq(Contents(c, x), 1, c.seq_map[x].seq_length) = Contents(c, x)
    BY <1>1, ContentsType
  <2> QED BY <2>2, <2>3, <2>4, <2>5, <2>6
<1>10. PICK st \in Nat : st = LastBlock(c, s).start_pos
  BY <1>5
<1>11. ASSUME NEW p \in 1..c.seq_map[s].seq_length, p \notin (st + h + 1)..(st + h + n)
       PROVE  Contents(d, s)[p] = Contents(c, s)[p]
  <2>1. \A i \in 1..n : st + (h + i - 1) + 1 \in (st + h + 1)..(st + h + n)
    OBVIOUS
  <2>2. \A i \in 1..n : Position(c, s, k[i]) = st + (h + i - 1) + 1
    BY <1>8, <1>10 DEF Position
  <2>3. \A i \in 1..n : p # Position(c, s, k[i])
    BY <1>11, <2>1, <2>2
  <2> QED BY <1>7, <1>8, <2>3 DEF HasStored
<1> QED BY <1>2, <1>3, <1>9, <1>10, <1>11 DEF ContentsKept, Replaces

(* DebugSetKV: nothing but the range changes.                              *)
LEMMA SetContents ==
  ASSUME NEW c, Whole(c, {}), DOMAIN c.kv = Page, NEW s \in SeqIds(c), NEW start \in Nat, NEW n \in Nat, NEW prefix,
         prefix = c.seq_map[s].seq_length - LastBlock(c, s).seq_length,
         prefix <= start, start + n <= c.seq_map[s].seq_length, NEW tokens
  PROVE  Replaces(c, Written(c, [i \in 1..n |-> Slot(LastBlock(c, s), OffsetInBlock(LastBlock(c, s), start - prefix + i - 1))],
                             tokens), s, start, n)
<1>1. Structured(c) /\ Ended(c) /\ Typed(c)
  BY WholeParts
<1>2. PICK e, m, st, l : e = LastBlock(c, s) /\ m = e.seq_length /\ st = e.start_pos /\ l = c.seq_map[s].seq_length
  OBVIOUS
<1>3. /\ e.sink_length = 0 /\ e.sliding_window_offset = 0 /\ st \in Nat /\ m \in Nat /\ l = st + m
  <2>1. c.seq_map[s].last_block_idx \in Used(c) /\ c.seq_map[s].seq_length = LastBlock(c, s).start_pos + LastBlock(c, s).seq_length
    BY <1>1 DEF Ended, Ends
  <2>2. e \in BlockType
    BY <1>1, <1>2, <2>1 DEF LastBlock, Typed, Used
  <2> QED BY <1>2, <2>1, <2>2 DEF BlockType
<1>4. prefix = st
  BY <1>2, <1>3
<1>5. PICK h \in Nat : h = start - st /\ h + n <= m /\ start = st + h
  <2>1. st <= start /\ start + n <= st + m
    BY <1>2, <1>3, <1>4
  <2>2. start - st \in Nat /\ start - st + n <= m /\ start = st + (start - st)
    BY ONLY <2>1, <1>3, start \in Nat, n \in Nat
  <2> QED BY <2>2
<1>6. ASSUME NEW i \in 1..n PROVE OffsetInBlock(e, start - prefix + i - 1) = h + i - 1
  <2>1. start - prefix + i - 1 = h + i - 1 /\ ~(h + i - 1 < 0)
    BY ONLY <1>3, <1>4, <1>5, start \in Nat, n \in Nat, i \in 1..n
  <2>2. OffsetInBlock(e, h + i - 1) = h + i - 1
    BY <1>3, <2>1 DEF OffsetInBlock
  <2> QED BY <2>1, <2>2
<1>7. [i \in 1..n |-> Slot(LastBlock(c, s), OffsetInBlock(LastBlock(c, s), start - prefix + i - 1))] = SlotsFrom(c, s, h, n)
  BY <1>2, <1>6 DEF SlotsFrom
<1>8. Replaces(c, Written(c, SlotsFrom(c, s, h, n), tokens), s, LastBlock(c, s).start_pos + h, n)
  BY <1>2, <1>5, SetInLast
<1> QED BY <1>2, <1>5, <1>7, <1>8

-----------------------------------------------------------------------------
(* Paths of a token tree.                                                  *)

(* The recursion of PathTo.                                                *)
LEMMA PathIs ==
  ASSUME NEW p \in Forests, NEW leaf \in -1..(Len(p) - 1)
  PROVE  \E f : /\ PathTo(p, leaf) = f[leaf]
                /\ f[-1] = <<>>
                /\ \A x \in 0..(Len(p) - 1) : f[x] = Append(f[p[x + 1]], x)
<1> DEFINE l == Len(p)
           g == CHOOSE f : f = [x \in -1..(Len(p) - 1) |-> IF x = -1 THEN <<>> ELSE Append(f[p[x + 1]], x)]
<1>1. l \in Nat /\ \A x \in 0..(l - 1) : p[x + 1] \in -1..(x - 1)
  BY ForestFacts
<1>2. PathTo(p, leaf) = g[leaf]
  BY Zenon DEF PathTo
<1>3. Paths(p, g, l)
  <2>1. \E f : Paths(p, f, l)
    BY <1>1, PathsExist
  <2> QED BY <2>1, Zenon DEF Paths
<1> HIDE DEF g
<1>4. \A x \in -1..(l - 1) : g[x] = IF x = -1 THEN <<>> ELSE Append(g[p[x + 1]], x)
  BY <1>3, Zenon DEF Paths
<1>5. -1 \in -1..(l - 1) /\ \A x \in 0..(l - 1) : x \in -1..(l - 1) /\ x # -1
  BY <1>1
<1>6. g[-1] = <<>> /\ \A x \in 0..(l - 1) : g[x] = Append(g[p[x + 1]], x)
  BY <1>4, <1>5, Zenon
<1> QED BY <1>2, <1>6

(* A way of nodes of the forest to node x.                                 *)
WayTo(q, p, x) == q \in Seq(0..(Len(p) - 1)) /\ Store!IsWay(q, p, x)

(* One node further.                                                       *)
LEMMA WayOn ==
  ASSUME NEW p \in Forests, NEW x \in 0..(Len(p) - 1), NEW q, WayTo(q, p, p[x + 1])
  PROVE  WayTo(Append(q, x), p, x)
<1>1. Len(p) \in Nat /\ p[x + 1] \in -1..(x - 1)
  BY ForestFacts
<1>2. PICK V, y, n, r : V = 0..(Len(p) - 1) /\ y = p[x + 1] /\ n \in Nat /\ n = Len(q) /\ r = Append(q, x)
  <2>1. PICK V : V = 0..(Len(p) - 1)
    OBVIOUS
  <2>2. q \in Seq(V)
    BY <2>1 DEF WayTo
  <2>3. Len(q) \in Nat
    BY <2>2
  <2> QED BY <2>1, <2>3, Zenon
<1>3. q \in Seq(V) /\ x \in V
  BY <1>2 DEF WayTo
<1>4. /\ r \in Seq(V) /\ Len(r) = n + 1 /\ r[n + 1] = x /\ \A i \in 1..n : r[i] = q[i]
  BY <1>2, <1>3
<1>5. /\ q = <<>> <=> y = -1
      /\ q # <<>> => p[q[1] + 1] = -1 /\ q[n] = y
      /\ \A i \in 2..n : p[q[i] + 1] = q[i - 1]
  BY <1>2 DEF WayTo, Store!IsWay
<1>6. q = <<>> <=> n = 0
  BY <1>2, <1>3
<1>7. r # <<>> /\ x # -1 /\ r[Len(r)] = x
  BY <1>2, <1>4
<1>8. p[r[1] + 1] = -1
  <2>1. CASE n = 0
    <3>1. r[1] = x
      BY <1>4, <2>1
    <3> QED BY <1>2, <1>5, <1>6, <2>1, <3>1
  <2>2. CASE n # 0
    <3>1. r[1] = q[1]
      BY <1>2, <1>4, <2>2
    <3> QED BY <1>5, <1>6, <2>2, <3>1
  <2> QED BY <2>1, <2>2
<1>9. ASSUME NEW i \in 2..Len(r) PROVE p[r[i] + 1] = r[i - 1]
  <2>1. CASE i = n + 1
    <3>1. r[i] = x /\ i - 1 = n /\ n \in 1..n /\ n # 0
      BY <1>2, <1>4, <2>1
    <3>2. r[i - 1] = q[n]
      BY <1>4, <3>1
    <3> QED BY <1>2, <1>5, <1>6, <3>1, <3>2
  <2>2. CASE i # n + 1
    <3>1. i \in 2..n /\ i \in 1..n /\ i - 1 \in 1..n
      BY <1>2, <1>4, <2>2
    <3> QED BY <1>4, <1>5, <3>1
  <2> QED BY <2>1, <2>2
<1>10. Store!IsWay(r, p, x)
  BY <1>7, <1>8, <1>9 DEF Store!IsWay
<1> QED BY <1>2, <1>4, <1>10 DEF WayTo

(* One node back.                                                          *)
LEMMA WayBack ==
  ASSUME NEW p \in Forests, NEW x \in 0..(Len(p) - 1), NEW r, WayTo(r, p, x)
  PROVE  \E q : WayTo(q, p, p[x + 1]) /\ r = Append(q, x)
<1>1. Len(p) \in Nat /\ p[x + 1] \in -1..(x - 1)
  BY ForestFacts
<1>2. PICK V, y, m : V = 0..(Len(p) - 1) /\ y = p[x + 1] /\ m \in Nat /\ m = Len(r)
  <2>1. PICK V : V = 0..(Len(p) - 1)
    OBVIOUS
  <2>2. r \in Seq(V)
    BY <2>1 DEF WayTo
  <2>3. Len(r) \in Nat
    BY <2>2
  <2> QED BY <2>1, <2>3, Zenon
<1>3. r \in Seq(V) /\ x \in V
  BY <1>2 DEF WayTo
<1>4. /\ r # <<>>
      /\ p[r[1] + 1] = -1 /\ r[m] = x
      /\ \A i \in 2..m : p[r[i] + 1] = r[i - 1]
  BY <1>2 DEF WayTo, Store!IsWay
<1>5. m # 0
  BY <1>2, <1>3, <1>4
<1>6. PICK n \in Nat : m = n + 1
  <2>1. m - 1 \in Nat /\ m = (m - 1) + 1
    BY <1>2, <1>5
  <2> QED BY <2>1
<1>7. PICK q : q = [i \in 1..n |-> r[i]]
  OBVIOUS
<1>8. q \in Seq(V) /\ Len(q) = n /\ \A i \in 1..n : q[i] = r[i]
  <2>1. ASSUME NEW i \in 1..n PROVE r[i] \in V
    <3>1. i \in 1..m
      BY <1>6
    <3> QED BY <1>2, <1>3, <3>1
  <2>2. q \in [1..n -> V]
    BY <1>7, <2>1
  <2> QED BY <1>7, <2>2
<1>9. r = Append(q, x)
  <2>1. PICK t : t = Append(q, x)
    OBVIOUS
  <2>2. t \in Seq(V) /\ Len(t) = n + 1 /\ t[n + 1] = x /\ \A i \in 1..n : t[i] = q[i]
    BY <1>3, <1>8, <2>1
  <2>3. ASSUME NEW i \in 1..(n + 1) PROVE t[i] = r[i]
    <3>1. i = n + 1 \/ i \in 1..n
      OBVIOUS
    <3> QED BY <1>4, <1>6, <1>8, <2>2, <3>1
  <2>4. Len(r) = n + 1
    BY <1>2, <1>6
  <2> QED BY <1>3, <2>1, <2>2, <2>3, <2>4
<1>10. q = <<>> <=> n = 0
  BY <1>8
<1>11. CASE n = 0
  <2>1. q = <<>> /\ r[1] = x
    BY <1>4, <1>6, <1>10, <1>11
  <2>2. y = -1
    BY <1>2, <1>4, <2>1
  <2>3. Store!IsWay(q, p, y)
    BY <1>8, <1>11, <2>1, <2>2 DEF Store!IsWay
  <2> QED BY <1>2, <1>8, <1>9, <2>3 DEF WayTo
<1>12. CASE n # 0
  <2>1. m \in 2..m /\ m - 1 = n /\ n \in 1..n /\ 1 \in 1..n
    BY <1>6, <1>12
  <2>2. p[r[m] + 1] = r[m - 1]
    BY <1>4, <2>1
  <2>3. y = q[n] /\ p[q[1] + 1] = -1
    BY <1>2, <1>4, <1>8, <2>1, <2>2
  <2>4. y # -1
    <3>1. q[n] \in V
      BY <1>8, <2>1
    <3> QED BY <1>2, <2>3, <3>1
  <2>5. ASSUME NEW i \in 2..n PROVE p[q[i] + 1] = q[i - 1]
    <3>1. i \in 2..m /\ i \in 1..n /\ i - 1 \in 1..n
      BY <1>6
    <3> QED BY <1>4, <1>8, <3>1
  <2>6. Store!IsWay(q, p, y)
    BY <1>8, <1>10, <1>12, <2>3, <2>4, <2>5 DEF Store!IsWay
  <2> QED BY <1>2, <1>8, <1>9, <2>6 DEF WayTo
<1> QED BY <1>11, <1>12

(* Only the empty way leads to -1.                                         *)
LEMMA WayNowhere ==
  ASSUME NEW p
  PROVE  WayTo(<<>>, p, -1) /\ \A q : WayTo(q, p, -1) => q = <<>>
<1>1. Len(<<>>) = 0 /\ <<>> \in Seq(0..(Len(p) - 1))
  OBVIOUS
<1>2. 2..0 = {}
  OBVIOUS
<1>3. Store!IsWay(<<>>, p, -1)
  BY <1>1, <1>2 DEF Store!IsWay
<1>4. \A q : WayTo(q, p, -1) => q = <<>>
  BY DEF WayTo, Store!IsWay
<1> QED BY <1>1, <1>3, <1>4 DEF WayTo

(* The way to a node is one.                                               *)
LEMMA WayOne ==
  ASSUME NEW p \in Forests, NEW x \in -1..(Len(p) - 1), NEW q, NEW r, WayTo(q, p, x), WayTo(r, p, x)
  PROVE  q = r
<1> DEFINE One(y) == \A v, w : WayTo(v, p, y) /\ WayTo(w, p, y) => v = w
           T == {m \in Nat : m < Len(p) /\ ~One(m)}
<1>1. Len(p) \in Nat /\ \A y \in 0..(Len(p) - 1) : p[y + 1] \in -1..(y - 1)
  BY ForestFacts
<1>2. One(-1)
  BY WayNowhere
<1>3. T = {}
  <2> SUFFICES ASSUME T # {} PROVE FALSE
    OBVIOUS
  <2>1. PICK m \in T : \A k \in T : m <= k
    <3>1. T \subseteq Nat
      OBVIOUS
    <3> HIDE DEF T
    <3> QED BY <3>1, LeastNatural
  <2>2. m \in Nat /\ m < Len(p) /\ ~One(m) /\ m \in 0..(Len(p) - 1)
    BY <1>1, <2>1
  <2>3. PICK k : k = p[m + 1]
    OBVIOUS
  <2>4. k \in -1..(m - 1)
    BY <1>1, <2>2, <2>3
  <2>5. One(k)
    <3>1. CASE k = -1
      BY <1>2, <3>1
    <3>2. CASE k # -1
      <4>1. k \in Nat /\ k < Len(p) /\ ~(m <= k)
        BY <1>1, <2>2, <2>4, <3>2
      <4> QED BY <2>1, <4>1
    <3> QED BY <3>1, <3>2
  <2>6. ASSUME NEW v, NEW w, WayTo(v, p, m), WayTo(w, p, m) PROVE v = w
    <3>1. PICK a : WayTo(a, p, k) /\ v = Append(a, m)
      BY <2>2, <2>3, <2>6, WayBack
    <3>2. PICK b : WayTo(b, p, k) /\ w = Append(b, m)
      BY <2>2, <2>3, <2>6, WayBack
    <3>3. a = b
      BY <2>5, <3>1, <3>2
    <3> QED BY <3>1, <3>2, <3>3
  <2> QED BY <2>2, <2>6
<1>4. x = -1 \/ (x \in Nat /\ x < Len(p))
  BY <1>1
<1>5. One(x)
  BY <1>2, <1>3, <1>4
<1> QED BY <1>5

(* PathTo finds it.                                                        *)
LEMMA PathWay ==
  ASSUME NEW p \in Forests, NEW leaf \in -1..(Len(p) - 1)
  PROVE  WayTo(PathTo(p, leaf), p, leaf)
<1>1. PICK f : /\ PathTo(p, leaf) = f[leaf]
               /\ f[-1] = <<>>
               /\ \A x \in 0..(Len(p) - 1) : f[x] = Append(f[p[x + 1]], x)
  BY PathIs
<1> DEFINE T == {m \in Nat : m < Len(p) /\ ~WayTo(f[m], p, m)}
<1>2. Len(p) \in Nat /\ \A y \in 0..(Len(p) - 1) : p[y + 1] \in -1..(y - 1)
  BY ForestFacts
<1>3. WayTo(f[-1], p, -1)
  BY <1>1, WayNowhere
<1>4. T = {}
  <2> SUFFICES ASSUME T # {} PROVE FALSE
    OBVIOUS
  <2>1. PICK m \in T : \A k \in T : m <= k
    <3>1. T \subseteq Nat
      OBVIOUS
    <3> HIDE DEF T
    <3> QED BY <3>1, LeastNatural
  <2>2. m \in Nat /\ m < Len(p) /\ ~WayTo(f[m], p, m) /\ m \in 0..(Len(p) - 1)
    BY <1>2, <2>1
  <2>3. PICK k : k = p[m + 1]
    OBVIOUS
  <2>4. k \in -1..(m - 1)
    BY <1>2, <2>2, <2>3
  <2>5. WayTo(f[k], p, k)
    <3>1. CASE k = -1
      BY <1>3, <3>1
    <3>2. CASE k # -1
      <4>1. k \in Nat /\ k < Len(p) /\ ~(m <= k)
        BY <1>2, <2>2, <2>4, <3>2
      <4> QED BY <2>1, <4>1
    <3> QED BY <3>1, <3>2
  <2>6. f[m] = Append(f[k], m)
    BY <1>1, <2>2, <2>3
  <2>7. WayTo(Append(f[k], m), p, m)
    BY <2>2, <2>3, <2>5, WayOn
  <2> QED BY <2>2, <2>6, <2>7
<1>5. leaf = -1 \/ (leaf \in Nat /\ leaf < Len(p))
  BY <1>2
<1> QED BY <1>1, <1>3, <1>4, <1>5

(* In a chain it counts up to the leaf.                                    *)
LEMMA ChainPath ==
  ASSUME NEW p \in Forests, IsChain(p), NEW leaf \in -1..(Len(p) - 1)
  PROVE  \A i \in DOMAIN PathTo(p, leaf) : PathTo(p, leaf)[i] = i - 1
<1>1. Len(p) \in Nat /\ leaf \in Int
  BY ForestFacts
<1>2. PICK n, V, q : n = leaf + 1 /\ V = 0..(Len(p) - 1) /\ q = [i \in 1..n |-> i - 1]
  OBVIOUS
<1>3. n \in Nat /\ n <= Len(p)
  BY <1>1, <1>2
<1>4. q \in Seq(V) /\ Len(q) = n /\ \A i \in 1..n : q[i] = i - 1
  <2>1. \A i \in 1..n : i - 1 \in V
    BY <1>1, <1>2, <1>3
  <2>2. q \in [1..n -> V]
    BY <1>2, <2>1
  <2> QED BY <1>2, <1>3, <2>2
<1>5. \A i \in 1..Len(p) : p[i] = i - 2
  <2>1. DOMAIN p = 1..Len(p)
    BY DEF Forests
  <2> QED BY <2>1 DEF IsChain
<1>6. q = <<>> <=> leaf = -1
  BY <1>2, <1>3, <1>4
<1>7. q # <<>> => p[q[1] + 1] = -1 /\ q[Len(q)] = leaf
  <2> SUFFICES ASSUME q # <<>> PROVE p[q[1] + 1] = -1 /\ q[Len(q)] = leaf
    OBVIOUS
  <2>1. n # 0
    BY <1>4
  <2>2. 1 \in 1..n /\ n \in 1..n /\ 1 \in 1..Len(p)
    BY <1>1, <1>3, <2>1
  <2>3. q[1] = 0 /\ q[n] = leaf
    BY <1>1, <1>2, <1>4, <2>2
  <2> QED BY <1>4, <1>5, <2>2, <2>3
<1>8. ASSUME NEW i \in 2..Len(q) PROVE p[q[i] + 1] = q[i - 1]
  <2>1. i \in 1..n /\ i - 1 \in 1..n /\ i \in 1..Len(p) /\ i \in Int
    BY <1>1, <1>3, <1>4
  <2>2. q[i] + 1 = i /\ q[i - 1] = i - 2 /\ p[i] = i - 2
    BY <1>4, <1>5, <2>1
  <2> QED BY <2>2
<1>9. Store!IsWay(q, p, leaf)
  BY <1>6, <1>7, <1>8 DEF Store!IsWay
<1>10. WayTo(q, p, leaf)
  BY <1>2, <1>4, <1>9 DEF WayTo
<1>11. PathTo(p, leaf) = q
  BY <1>10, PathWay, WayOne
<1> QED BY <1>2, <1>11

(* It is the way of the abstract store.                                    *)
LEMMA StoreWay ==
  ASSUME NEW p \in Forests, NEW leaf \in -1..(Len(p) - 1)
  PROVE  Store!Way(p, leaf) = PathTo(p, leaf)
<1>1. WayTo(PathTo(p, leaf), p, leaf) /\ Len(PathTo(p, leaf)) \in Nat /\ Len(PathTo(p, leaf)) <= Len(p) /\ Len(p) \in Nat
  BY PathWay, PathLength, ForestFacts
<1> DEFINE V == 0..(Len(p) - 1)
           W == UNION {[1..k -> V] : k \in 0..Len(p)}
<1>2. PathTo(p, leaf) \in W
  <2>1. PICK q, n : q = PathTo(p, leaf) /\ n = Len(q)
    OBVIOUS
  <2>2. q \in Seq(V) /\ n \in 0..Len(p)
    BY <1>1, <2>1 DEF WayTo
  <2> HIDE DEF V
  <2>3. q \in [1..n -> V]
    BY <2>1, <2>2
  <2> QED BY <2>1, <2>2, <2>3
<1>3. ASSUME NEW q \in W, Store!IsWay(q, p, leaf) PROVE q = PathTo(p, leaf)
  <2>1. q \in Seq(V)
    <3> HIDE DEF V
    <3>1. PICK k \in 0..Len(p) : q \in [1..k -> V]
      OBVIOUS
    <3>2. k \in Nat
      BY <1>1
    <3> QED BY <3>1, <3>2
  <2>2. WayTo(q, p, leaf)
    BY <1>3, <2>1 DEF WayTo
  <2> QED BY <1>1, <2>2, WayOne
<1>4. Store!IsWay(PathTo(p, leaf), p, leaf)
  BY <1>1 DEF WayTo
<1>5. Store!Way(p, leaf) = CHOOSE q \in W : Store!IsWay(q, p, leaf)
  BY DEF Store!Way
<1> HIDE DEF W
<1> QED BY <1>2, <1>3, <1>4, <1>5

-----------------------------------------------------------------------------
(* The copy of the accepted paths.                                         *)

(* a and b number the L places of n sequences of the lengths w: place x is *)
(* the b[x]-th one of sequence a[x], and each sequence is in order.        *)
Numbers(a, b, w, n, L) ==
  /\ L \in Nat
  /\ \A x \in 1..L : a[x] \in 1..n /\ b[x] \in 1..w[a[x]]
  /\ \A x, y \in 1..L : a[x] = a[y] /\ b[x] = b[y] => x = y
  /\ \A x, y \in 1..L : x < y /\ a[x] = a[y] => b[x] < b[y]
  /\ \A i \in 1..n : \A j \in 1..w[i] : \E x \in 1..L : a[x] = i /\ b[x] = j
Picks(p, u, a, b, L) ==
  /\ \E V : p \in Seq(V)
  /\ Len(p) = L
  /\ \A x \in 1..L : p[x] = u[a[x]][b[x]]

(* One more sequence.                                                      *)
MoreA(a, i, L, m) == [x \in 1..(L + m) |-> IF x <= L THEN a[x] ELSE i + 1]
MoreB(b, L, m)    == [x \in 1..(L + m) |-> IF x <= L THEN b[x] ELSE x - L]

(* The places of one more sequence come behind the others.                 *)
LEMMA NumbersMore ==
  ASSUME NEW i \in Nat, NEW L, NEW a, NEW b, NEW w, Numbers(a, b, w, i, L), NEW m \in Nat, w[i + 1] = m
  PROVE  Numbers(MoreA(a, i, L, m), MoreB(b, L, m), w, i + 1, L + m)
<1>1. PICK A, B : A = MoreA(a, i, L, m) /\ B = MoreB(b, L, m)
  OBVIOUS
<1>2. L \in Nat /\ L + m \in Nat
  BY DEF Numbers
<1>3. ASSUME NEW x \in 1..(L + m)
      PROVE  \/ x \in 1..L /\ A[x] = a[x] /\ B[x] = b[x]
             \/ x \notin 1..L /\ A[x] = i + 1 /\ B[x] = x - L /\ x - L \in 1..m
  BY <1>1, <1>2 DEF MoreA, MoreB
<1>4. ASSUME NEW x \in 1..(L + m) PROVE A[x] \in 1..(i + 1) /\ B[x] \in 1..w[A[x]]
  <2>1. CASE x \in 1..L
    <3>1. A[x] = a[x] /\ B[x] = b[x] /\ a[x] \in 1..i /\ b[x] \in 1..w[a[x]]
      BY <1>3, <2>1 DEF Numbers
    <3> QED BY <3>1
  <2>2. CASE x \notin 1..L
    BY <1>3, <2>2
  <2> QED BY <2>1, <2>2
<1>5. ASSUME NEW x \in 1..(L + m), NEW y \in 1..(L + m), A[x] = A[y], B[x] = B[y] PROVE x = y
  <2>1. CASE x \in 1..L /\ y \in 1..L
    BY <1>3, <1>5, <2>1 DEF Numbers
  <2>2. CASE x \notin 1..L /\ y \notin 1..L
    BY <1>2, <1>3, <1>5, <2>2
  <2>3. \A z \in 1..L : a[z] # i + 1
    BY DEF Numbers
  <2> QED BY <1>3, <1>5, <2>1, <2>2, <2>3
<1>6. ASSUME NEW k \in 1..(i + 1), NEW j \in 1..w[k] PROVE \E x \in 1..(L + m) : A[x] = k /\ B[x] = j
  <2>1. CASE k = i + 1
    <3>1. L + j \in 1..(L + m) /\ L + j \notin 1..L /\ (L + j) - L = j
      BY <1>2, <2>1
    <3> QED BY <1>3, <2>1, <3>1
  <2>2. CASE k # i + 1
    <3>1. k \in 1..i
      BY <2>2
    <3>2. PICK x \in 1..L : a[x] = k /\ b[x] = j
      BY <3>1 DEF Numbers
    <3>3. x \in 1..(L + m)
      BY <1>2
    <3> QED BY <1>3, <3>2, <3>3
  <2> QED BY <2>1, <2>2
<1>7. ASSUME NEW x \in 1..(L + m), NEW y \in 1..(L + m), x < y, A[x] = A[y] PROVE B[x] < B[y]
  <2>1. \A z \in 1..L : a[z] # i + 1
    BY DEF Numbers
  <2>2. CASE y \in 1..L
    <3>1. x \in 1..L
      BY <1>2, <1>7, <2>2
    <3> QED BY <1>3, <1>7, <2>2, <3>1 DEF Numbers
  <2>3. CASE y \notin 1..L
    <3>1. A[y] = i + 1 /\ B[y] = y - L
      BY <1>3, <2>3
    <3>2. x \notin 1..L
      BY <1>3, <1>7, <2>1, <3>1
    <3>3. B[x] = x - L
      BY <1>3, <3>2
    <3> QED BY <1>2, <1>7, <3>1, <3>3
  <2> QED BY <2>2, <2>3
<1>8. Numbers(A, B, w, i + 1, L + m)
  BY <1>2, <1>4, <1>5, <1>6, <1>7 DEF Numbers
<1> QED BY <1>1, <1>8

(* r is p and then q.                                                      *)
JoinAt(r, p, q) ==
  /\ Len(r) = Len(p) + Len(q)
  /\ \A x \in 1..Len(p) : r[x] = p[x]
  /\ \A x \in 1..Len(q) : r[Len(p) + x] = q[x]

(* So is a concatenation.                                                  *)
LEMMA ConcatAt ==
  ASSUME NEW V, NEW p \in Seq(V), NEW q \in Seq(V)
  PROVE  p \o q \in Seq(V) /\ JoinAt(p \o q, p, q)
<1>1. PICK m \in Nat, n \in Nat : m = Len(p) /\ n = Len(q) /\ Len(p \o q) = m + n
  OBVIOUS
<1>2. /\ p \o q \in Seq(V)
      /\ \A i \in 1..m : (p \o q)[i] = p[i]
      /\ \A i \in 1..n : (p \o q)[m + i] = q[i]
  BY <1>1
<1> QED BY <1>1, <1>2 DEF JoinAt

(* One more sequence behind those that are picked.                         *)
LEMMA PicksMore ==
  ASSUME NEW i \in Nat, NEW L \in Nat, NEW a, NEW b, NEW u, NEW p, Picks(p, u, a, b, L),
         NEW m \in Nat, NEW X, u[i + 1] \in Seq(X), Len(u[i + 1]) = m
  PROVE  Picks(p \o u[i + 1], u, MoreA(a, i, L, m), MoreB(b, L, m), L + m)
<1>1. PICK A, B, q : A = MoreA(a, i, L, m) /\ B = MoreB(b, L, m) /\ q = u[i + 1]
  OBVIOUS
<1>2. PICK V : p \in Seq(V)
  BY DEF Picks
<1>3. PICK W : W = V \cup X
  OBVIOUS
<1>4. p \in Seq(W) /\ q \in Seq(W) /\ Len(p) = L /\ Len(q) = m
  BY <1>1, <1>2, <1>3 DEF Picks
<1>5. PICK r : r = p \o q
  OBVIOUS
<1>6. r \in Seq(W) /\ Len(r) = L + m /\ (\A x \in 1..L : r[x] = p[x]) /\ (\A x \in 1..m : r[L + x] = q[x])
  <2>1. r \in Seq(W) /\ JoinAt(r, p, q)
    BY <1>4, <1>5, ConcatAt
  <2> QED BY <1>4, <2>1 DEF JoinAt
<1>7. ASSUME NEW x \in 1..(L + m) PROVE r[x] = u[A[x]][B[x]]
  <2>1. CASE x <= L
    <3>1. A[x] = a[x] /\ B[x] = b[x] /\ x \in 1..L
      BY <1>1, <2>1 DEF MoreA, MoreB
    <3>2. p[x] = u[a[x]][b[x]]
      BY <3>1 DEF Picks
    <3> QED BY <1>6, <3>1, <3>2
  <2>2. CASE ~(x <= L)
    <3>1. A[x] = i + 1 /\ B[x] = x - L
      BY <1>1, <2>2 DEF MoreA, MoreB
    <3>2. x - L \in 1..m /\ L + (x - L) = x
      BY <2>2
    <3>3. r[x] = q[x - L]
      BY <1>6, <3>2
    <3> QED BY <1>1, <3>1, <3>3
  <2> QED BY <2>1, <2>2
<1>8. Picks(r, u, A, B, L + m)
  BY <1>6, <1>7 DEF Picks
<1> QED BY <1>1, <1>5, <1>8

(* The first n sequences of two, joined, are picked alike.                 *)
Alike(u, v, p, q, w, n) ==
  \E a, b, L : Numbers(a, b, w, n, L) /\ Picks(p, u, a, b, L) /\ Picks(q, v, a, b, L)

(* No sequences, and one more.                                             *)
LEMMA AlikeNone ==
  ASSUME NEW u, NEW v, NEW w
  PROVE  Alike(u, v, <<>>, <<>>, w, 0)
<1>1. 1..0 = {} /\ Len(<<>>) = 0 /\ <<>> \in Seq({}) /\ 0 \in Nat
  OBVIOUS
<1>2. Numbers(<<>>, <<>>, w, 0, 0)
  BY <1>1 DEF Numbers
<1>3. Picks(<<>>, u, <<>>, <<>>, 0) /\ Picks(<<>>, v, <<>>, <<>>, 0)
  BY <1>1 DEF Picks
<1> QED BY <1>2, <1>3 DEF Alike

LEMMA AlikeMore ==
  ASSUME NEW i \in Nat, NEW u, NEW v, NEW p, NEW q, NEW w, Alike(u, v, p, q, w, i),
         NEW X, NEW Y, u[i + 1] \in Seq(X), v[i + 1] \in Seq(Y),
         w[i + 1] = Len(u[i + 1]), Len(v[i + 1]) = Len(u[i + 1])
  PROVE  Alike(u, v, p \o u[i + 1], q \o v[i + 1], w, i + 1)
<1>1. PICK a, b, L : Numbers(a, b, w, i, L) /\ Picks(p, u, a, b, L) /\ Picks(q, v, a, b, L)
  BY DEF Alike
<1>2. PICK m : m \in Nat /\ m = w[i + 1] /\ m = Len(u[i + 1]) /\ m = Len(v[i + 1])
  <2>1. Len(u[i + 1]) \in Nat
    OBVIOUS
  <2> QED BY <2>1
<1>3. L \in Nat
  BY <1>1 DEF Numbers
<1>4. Numbers(MoreA(a, i, L, m), MoreB(b, L, m), w, i + 1, L + m)
  BY <1>1, <1>2, NumbersMore
<1>5. Picks(p \o u[i + 1], u, MoreA(a, i, L, m), MoreB(b, L, m), L + m)
  BY <1>1, <1>2, <1>3, PicksMore
<1>6. Picks(q \o v[i + 1], v, MoreA(a, i, L, m), MoreB(b, L, m), L + m)
  BY <1>1, <1>2, <1>3, PicksMore
<1> QED BY <1>4, <1>5, <1>6 DEF Alike

(* FlattenSeq numbers two sequences of sequences alike.                    *)
LEMMA FlattenAlike ==
  ASSUME NEW X, NEW Y, NEW u \in Seq(Seq(X)), NEW v \in Seq(Seq(Y)), Len(u) = Len(v),
         NEW w, \A i \in 1..Len(u) : w[i] = Len(u[i]) /\ Len(v[i]) = Len(u[i])
  PROVE  Alike(u, v, FlattenSeq(u), FlattenSeq(v), w, Len(u))
<1>1. PICK n : n \in Nat /\ n = Len(u) /\ n = Len(v)
  <2>1. Len(u) \in Nat
    OBVIOUS
  <2> QED BY <2>1
<1>2. PICK f : Flattening(u, f) /\ FlattenSeq(u) = IF Len(u) = 0 THEN u ELSE f[Len(u)]
  BY FlattenSolution
<1>3. PICK g : Flattening(v, g) /\ FlattenSeq(v) = IF Len(v) = 0 THEN v ELSE g[Len(v)]
  BY FlattenSolution
<1> DEFINE F(i) == IF i = 0 THEN <<>> ELSE f[i]
           G(i) == IF i = 0 THEN <<>> ELSE g[i]
<1>4. ASSUME NEW i \in 1..n PROVE u[i] \in Seq(X) /\ v[i] \in Seq(Y)
  BY <1>1
<1>5. ASSUME NEW i \in Nat, i + 1 \in 1..n PROVE F(i + 1) = F(i) \o u[i + 1] /\ G(i + 1) = G(i) \o v[i + 1]
  <2>1. f = [k \in 1..n |-> IF k = 1 THEN u[k] ELSE f[k - 1] \o u[k]]
    BY <1>1, <1>2 DEF Flattening
  <2>2. g = [k \in 1..n |-> IF k = 1 THEN v[k] ELSE g[k - 1] \o v[k]]
    BY <1>1, <1>3 DEF Flattening
  <2>3. f[i + 1] = IF i + 1 = 1 THEN u[i + 1] ELSE f[(i + 1) - 1] \o u[i + 1]
    BY <1>5, <2>1, Zenon
  <2>4. g[i + 1] = IF i + 1 = 1 THEN v[i + 1] ELSE g[(i + 1) - 1] \o v[i + 1]
    BY <1>5, <2>2, Zenon
  <2>5. i + 1 # 0 /\ (i + 1) - 1 = i /\ (i + 1 = 1 <=> i = 0)
    OBVIOUS
  <2>6. <<>> \o u[i + 1] = u[i + 1] /\ <<>> \o v[i + 1] = v[i + 1]
    BY <1>4, <1>5, ConcatEmptySeq
  <2>7. CASE i = 0
    BY <2>3, <2>4, <2>5, <2>6, <2>7, Zenon
  <2>8. CASE i # 0
    BY <2>3, <2>4, <2>5, <2>8, Zenon
  <2> QED BY <2>7, <2>8
<1> HIDE DEF F, G
<1> DEFINE T == {i \in Nat : i <= n /\ ~Alike(u, v, F(i), G(i), w, i)}
<1>6. T = {}
  <2> SUFFICES ASSUME T # {} PROVE FALSE
    OBVIOUS
  <2>1. PICK m \in T : \A k \in T : m <= k
    <3>1. T \subseteq Nat
      OBVIOUS
    <3> HIDE DEF T
    <3> QED BY <3>1, LeastNatural
  <2>2. m \in Nat /\ m <= n /\ ~Alike(u, v, F(m), G(m), w, m)
    BY <2>1
  <2>3. m # 0
    <3>1. F(0) = <<>> /\ G(0) = <<>>
      BY DEF F, G
    <3> QED BY <2>2, <3>1, AlikeNone
  <2>4. PICK k \in Nat : m = k + 1 /\ k <= n /\ ~(m <= k) /\ k + 1 \in 1..n
    <3>1. m - 1 \in Nat /\ m = (m - 1) + 1 /\ m - 1 <= n /\ ~(m <= m - 1) /\ (m - 1) + 1 \in 1..n
      BY <1>1, <2>2, <2>3
    <3> QED BY <3>1
  <2>5. Alike(u, v, F(k), G(k), w, k)
    BY <2>1, <2>4
  <2>6. u[k + 1] \in Seq(X) /\ v[k + 1] \in Seq(Y)
    BY <1>4, <2>4
  <2>7. w[k + 1] = Len(u[k + 1]) /\ Len(v[k + 1]) = Len(u[k + 1])
    BY <1>1, <2>4
  <2>8. Alike(u, v, F(k) \o u[k + 1], G(k) \o v[k + 1], w, k + 1)
    BY <2>5, <2>6, <2>7, AlikeMore
  <2>9. F(m) = F(k) \o u[k + 1] /\ G(m) = G(k) \o v[k + 1]
    BY <1>5, <2>4
  <2> QED BY <2>2, <2>4, <2>8, <2>9
<1>7. Alike(u, v, F(n), G(n), w, n)
  BY <1>1, <1>6
<1>8. FlattenSeq(u) = F(n) /\ FlattenSeq(v) = G(n)
  <2>1. n = 0 => u = <<>> /\ v = <<>>
    BY <1>1, EmptySeq
  <2> QED BY <1>1, <1>2, <1>3, <2>1 DEF F, G
<1> QED BY <1>1, <1>7, <1>8

(* A round whose slots are the last ones of its sequences.                 *)
TreeDue(c, r) ==
  /\ RoundDue(c, r)
  /\ \A i \in DOMAIN r : r[i].slots = RoundSlots(c, r[i].seq, Len(r[i].parents))

(* The tokens before the round: of the last block, of the sequence.        *)
First(c, entry)  == LastBlock(c, entry.seq).seq_length - Len(entry.parents)
Before(c, entry) == c.seq_map[entry.seq].seq_length - Len(entry.parents)

(* Of an entry of a round.                                                 *)
IsEntry(c, entry, n, m) ==
  /\ entry.seq \in SeqIds(c)
  /\ n \in Nat /\ n = Len(entry.parents) /\ m \in Nat /\ m = Len(Accepted(entry)) /\ m <= n
  /\ First(c, entry) \in Nat
  /\ First(c, entry) + n = LastBlock(c, entry.seq).seq_length
  /\ LastBlock(c, entry.seq).seq_length \in Nat
  /\ LastBlock(c, entry.seq).start_pos \in Nat
  /\ Before(c, entry) = LastBlock(c, entry.seq).start_pos + First(c, entry)
  /\ Before(c, entry) + n = c.seq_map[entry.seq].seq_length
  /\ DOMAIN Accepted(entry) = 1..m
  /\ \A j \in 1..m : Accepted(entry)[j] \in 0..(n - 1) /\ Accepted(entry)[j] >= j - 1
  /\ \A j \in 1..n : entry.slots[j] = Slot(LastBlock(c, entry.seq), First(c, entry) + j - 1)
  /\ DOMAIN entry.slots = 1..n

(* They hold of each entry of a round that is due.                         *)
LEMMA EntryFacts ==
  ASSUME NEW c, Structured(c), Ended(c), NEW r, TreeDue(c, r), NEW i \in DOMAIN r
  PROVE  \E n, m : IsEntry(c, r[i], n, m)
<1>1. PICK entry, s, p, leaf : entry = r[i] /\ s = entry.seq /\ p = entry.parents /\ leaf = entry.leaf
  OBVIOUS
<1>2. /\ s \in SeqIds(c) /\ p \in Forests /\ leaf \in -1..(Len(p) - 1)
      /\ Len(p) <= LastBlock(c, s).seq_length
      /\ entry.slots = RoundSlots(c, s, Len(p))
  BY <1>1 DEF TreeDue, RoundDue, Due
<1>3. PICK q : q = PathTo(p, leaf) /\ q = Accepted(entry)
  BY <1>1 DEF Accepted
<1>4. Len(p) \in Nat /\ Len(q) \in Nat /\ Len(q) <= Len(p)
  BY <1>2, <1>3, ForestFacts, PathLength
<1>5. PICK n, m, V : n \in Nat /\ n = Len(p) /\ m \in Nat /\ m = Len(q) /\ m <= n /\ V = 0..(n - 1)
  BY <1>4
<1>6. q \in Seq(V)
  BY <1>2, <1>3, <1>5, PathWay DEF WayTo
<1>7. DOMAIN q = 1..m /\ \A j \in 1..m : q[j] \in V /\ q[j] >= j - 1
  <2>1. PathTo(p, leaf) \in Seq(Int) /\ \A j \in 1..Len(PathTo(p, leaf)) : PathTo(p, leaf)[j] >= j - 1
    BY <1>2, PathDown
  <2>2. \A j \in 1..m : q[j] >= j - 1
    BY <1>3, <1>5, <2>1
  <2> QED BY <1>5, <1>6, <2>2
<1>8. PICK L, st, l : /\ L = LastBlock(c, s).seq_length /\ st = LastBlock(c, s).start_pos
                      /\ l = c.seq_map[s].seq_length /\ L \in Nat /\ st \in Nat /\ l = st + L
  <2>1. c.seq_map[s].last_block_idx \in Used(c) /\ c.seq_map[s].seq_length = LastBlock(c, s).start_pos + LastBlock(c, s).seq_length
    BY <1>2 DEF Ended, Ends
  <2>2. LastBlock(c, s).seq_length \in Nat /\ LastBlock(c, s).start_pos \in Nat
    BY <2>1, UsedBlocks, BlockFields DEF Structured, LastBlock
  <2> QED BY <2>1, <2>2
<1>9. n <= L
  BY <1>2, <1>5, <1>8
<1>10. First(c, entry) = L - n /\ Before(c, entry) = l - n
  BY <1>1, <1>5, <1>8 DEF First, Before
<1>11. L - n \in Nat /\ (L - n) + n = L /\ l - n = st + (L - n) /\ (l - n) + n = l
  BY <1>5, <1>8, <1>9
<1>12. DOMAIN entry.slots = 1..n /\ \A j \in 1..n : entry.slots[j] = Slot(LastBlock(c, s), L - n + j - 1)
  BY <1>2, <1>5, <1>8 DEF RoundSlots
<1>13. IsEntry(c, entry, n, m)
  <2>1. /\ First(c, entry) \in Nat /\ First(c, entry) + n = L /\ Before(c, entry) = st + First(c, entry)
        /\ Before(c, entry) + n = l
    BY <1>10, <1>11
  <2>2. \A j \in 1..n : entry.slots[j] = Slot(LastBlock(c, s), First(c, entry) + j - 1)
    BY <1>10, <1>12
  <2> QED BY <1>1, <1>2, <1>3, <1>5, <1>7, <1>8, <1>12, <2>1, <2>2 DEF IsEntry
<1> QED BY <1>1, <1>13

(* The places the accepted tokens go to, and the tokens.                   *)
MoveRows(r)     == [i \in DOMAIN r |-> Moves(r[i])]
Found(c, r) ==
  [i \in DOMAIN r |-> [k \in DOMAIN Accepted(r[i]) |->
    LET slot == r[i].slots[Accepted(r[i])[k] + 1] IN c.kv[slot[1]][slot[2]]]]

LEMMA FoundIs ==
  ASSUME NEW c, Structured(c), Ended(c), NEW r, NEW i \in DOMAIN r, NEW n, NEW m, IsEntry(c, r[i], n, m)
  PROVE  Found(c, r)[i] = [j \in 1..m |-> Contents(c, r[i].seq)[Before(c, r[i]) + Accepted(r[i])[j] + 1]]
<1>1. PICK entry, s, b, q : entry = r[i] /\ s = entry.seq /\ b = c.seq_map[s].last_block_idx /\ q = Accepted(entry)
  OBVIOUS
<1>2. Found(c, r)[i] = [j \in 1..m |-> LET slot == entry.slots[q[j] + 1] IN c.kv[slot[1]][slot[2]]]
  BY <1>1 DEF Found, IsEntry
<1>3. ASSUME NEW j \in 1..m
      PROVE  c.kv[entry.slots[q[j] + 1][1]][entry.slots[q[j] + 1][2]] = Contents(c, s)[Before(c, entry) + q[j] + 1]
  <2>1. PICK h, y, st, L :
          /\ h \in Nat /\ y \in Nat /\ st \in Nat /\ L \in Nat /\ n \in Nat /\ y + 1 \in 1..n /\ h + n = L
          /\ h = First(c, entry) /\ y = q[j] /\ st = c.pool[b].start_pos /\ L = c.pool[b].seq_length
          /\ Before(c, entry) = st + h
          /\ entry.slots[y + 1] = Slot(c.pool[b], h + (y + 1) - 1)
    <3>1. q[j] \in 0..(n - 1) /\ n \in Nat
      BY <1>1 DEF IsEntry
    <3>2. q[j] \in Nat /\ q[j] + 1 \in 1..n
      BY <3>1
    <3> QED BY <1>1, <3>1, <3>2 DEF IsEntry, LastBlock
  <2>2. h + y \in Nat /\ h + y < L /\ h + (y + 1) - 1 = h + y /\ st + h + y + 1 = st + (h + y) + 1
    BY <2>1
  <2>3. b \in Used(c) /\ s \in SeqIds(c)
    BY <1>1 DEF IsEntry, Ended, Ends
  <2>4. h + y \in 0..(c.pool[b].seq_length - 1)
    BY <2>1, <2>2
  <2>5. Contents(c, s)[st + (h + y) + 1] = At(c, b, h + y)
    <3>1. b \in Up(c, c.seq_map[s].last_block_idx)
      BY <1>1, <2>3, UpBlocks
    <3> QED BY <2>1, <2>3, <2>4, <3>1, ContentsFrom
  <2>6. entry.slots[y + 1] = <<c.pool[b].page_ids[(h + y) \div page_size + 1], (h + y) % page_size>>
    BY <2>1, <2>2 DEF Slot
  <2> QED BY <2>1, <2>2, <2>5, <2>6 DEF At
<1> QED BY <1>1, <1>2, <1>3

(* The accepted tokens of an entry are in front of the round's, and what   *)
(* was before the round is unchanged.                                      *)
InFrontNow(c, d, entry) ==
  /\ \A p \in 1..Before(c, entry) : Contents(d, entry.seq)[p] = Contents(c, entry.seq)[p]
  /\ \A j \in DOMAIN Accepted(entry) :
       Contents(d, entry.seq)[Before(c, entry) + j] = Contents(c, entry.seq)[Before(c, entry) + Accepted(entry)[j] + 1]
HasMoved(c, d, r) ==
  /\ Whole(d, {}) /\ DOMAIN d.kv = Page /\ SeqIds(d) = SeqIds(c) /\ d.seq_map = c.seq_map /\ d.pool = c.pool
  /\ \A s \in SeqIds(c) : (\A i \in DOMAIN r : r[i].seq # s) => Contents(d, s) = Contents(c, s)
  /\ \A i \in DOMAIN r : InFrontNow(c, d, r[i])

(* One move of a round that is due.                                        *)
IsMove(c, r, move, i, j) ==
  LET e == r[i] IN
  /\ i \in DOMAIN r /\ j \in DOMAIN Accepted(e)
  /\ move.to = Slot(LastBlock(c, e.seq), First(c, e) + j - 1)
  /\ move.from = Slot(LastBlock(c, e.seq), First(c, e) + Accepted(e)[j])
  /\ c.kv[move.from[1]][move.from[2]] = Found(c, r)[i][j]

(* The moves of a round, numbered.                                         *)
LEMMA RoundNumbered ==
  ASSUME NEW c, Structured(c), Ended(c), NEW r, TreeDue(c, r),
         NEW w, w = [i \in DOMAIN r |-> Len(Accepted(r[i]))]
  PROVE  \E a, b, N : /\ Numbers(a, b, w, Len(r), N) /\ N = Len(AllMoves(r))
                      /\ \A x \in 1..N : IsMove(c, r, AllMoves(r)[x], a[x], b[x])
<1>1. PICK l, u : l = Len(r) /\ u = MoveRows(r)
  OBVIOUS
<1>2. l \in Nat /\ DOMAIN r = 1..l
  BY <1>1 DEF TreeDue, RoundDue
<1>3. ASSUME NEW i \in 1..l
      PROVE  \E m \in Nat : /\ w[i] = m /\ DOMAIN Accepted(r[i]) = 1..m /\ u[i] = [j \in 1..m |-> u[i][j]]
                            /\ \A j \in 1..m : IsMove(c, r, u[i][j], i, j)
  <2>1. i \in DOMAIN r
    BY <1>2
  <2>2. PICK n, m : IsEntry(c, r[i], n, m)
    BY <2>1, EntryFacts
  <2>3. m \in Nat /\ w[i] = m /\ DOMAIN Accepted(r[i]) = 1..m
    BY <2>1, <2>2 DEF IsEntry
  <2>4. u[i] = [j \in 1..m |-> [to |-> r[i].slots[j], from |-> r[i].slots[Accepted(r[i])[j] + 1]]]
    BY <1>1, <2>1, <2>3 DEF MoveRows, Moves
  <2>5. ASSUME NEW j \in 1..m PROVE IsMove(c, r, u[i][j], i, j)
    <3>1. PICK q, h : q = Accepted(r[i])[j] /\ h = First(c, r[i])
      OBVIOUS
    <3>2. q \in 0..(n - 1) /\ n \in Nat /\ m <= n /\ h \in Nat
      BY <2>2, <3>1 DEF IsEntry
    <3>3. j \in 1..n /\ q + 1 \in 1..n /\ h + (q + 1) - 1 = h + q
      BY <2>3, <3>2
    <3>4. \A z \in 1..n : r[i].slots[z] = Slot(LastBlock(c, r[i].seq), h + z - 1)
      BY <2>2, <3>1 DEF IsEntry
    <3>5. /\ u[i][j].to = Slot(LastBlock(c, r[i].seq), h + j - 1)
          /\ u[i][j].from = r[i].slots[q + 1]
      BY <2>4, <3>1, <3>3, <3>4
    <3>6. u[i][j].from = Slot(LastBlock(c, r[i].seq), h + q)
      BY <3>3, <3>4, <3>5
    <3>7. c.kv[u[i][j].from[1]][u[i][j].from[2]] = Found(c, r)[i][j]
      BY <2>1, <2>3, <3>1, <3>5 DEF Found
    <3> QED BY <2>1, <2>3, <3>1, <3>5, <3>6, <3>7 DEF IsMove
  <2> QED BY <2>3, <2>4, <2>5
<1> DEFINE X == UNION {{u[i][j] : j \in 1..w[i]} : i \in 1..l}
<1>4. ASSUME NEW i \in 1..l PROVE u[i] \in Seq(X) /\ Len(u[i]) = w[i]
  <2>1. PICK m \in Nat : w[i] = m /\ u[i] = [j \in 1..m |-> u[i][j]]
    BY <1>3
  <2>2. ASSUME NEW j \in 1..m PROVE u[i][j] \in X
    <3>1. u[i][j] \in {u[i][z] : z \in 1..w[i]}
      BY <2>1
    <3>2. {u[i][z] : z \in 1..w[i]} \in {{u[y][z] : z \in 1..w[y]} : y \in 1..l}
      BY Zenon
    <3> QED BY <3>1, <3>2, Zenon
  <2> HIDE DEF X
  <2>3. u[i] \in [1..m -> X]
    BY <2>1, <2>2
  <2> QED BY <2>1, <2>3
<1> HIDE DEF X
<1>5. DOMAIN u = 1..l /\ u = [i \in 1..l |-> u[i]]
  BY <1>1, <1>2 DEF MoveRows
<1>6. u \in Seq(Seq(X)) /\ Len(u) = l
  <2>1. PICK SX : SX = Seq(X)
    OBVIOUS
  <2>2. u \in [1..l -> SX]
    BY <1>4, <1>5, <2>1
  <2>3. u \in Seq(SX) /\ Len(u) = l
    BY <1>2, <2>2
  <2> QED BY <2>1, <2>3
<1>7. \A i \in 1..Len(u) : w[i] = Len(u[i]) /\ Len(u[i]) = Len(u[i])
  BY <1>4, <1>6
<1>8. Alike(u, u, FlattenSeq(u), FlattenSeq(u), w, Len(u))
  BY <1>6, <1>7, FlattenAlike
<1>9. PICK a, b, N : Numbers(a, b, w, l, N) /\ Picks(FlattenSeq(u), u, a, b, N)
  BY <1>6, <1>8 DEF Alike
<1>10. FlattenSeq(u) = AllMoves(r)
  BY <1>1 DEF MoveRows, AllMoves
<1>11. N = Len(AllMoves(r)) /\ \A x \in 1..N : AllMoves(r)[x] = u[a[x]][b[x]]
  BY <1>9, <1>10 DEF Picks
<1>12. ASSUME NEW x \in 1..N PROVE IsMove(c, r, AllMoves(r)[x], a[x], b[x])
  <2>1. a[x] \in 1..l /\ b[x] \in 1..w[a[x]]
    BY <1>9 DEF Numbers
  <2>2. IsMove(c, r, u[a[x]][b[x]], a[x], b[x])
    BY <1>3, <2>1
  <2> QED BY <1>11, <2>2
<1> QED BY <1>1, <1>9, <1>11, <1>12

(* What is written between two others.                                     *)
KVAfter(c, slots, tokens) ==
  [p \in Page |-> [o \in Offset |->
     IF <<p, o>> \in ToSet(slots)
     THEN tokens[Max({i \in DOMAIN slots : slots[i] = <<p, o>>})] ELSE c.kv[p][o]]]

(* One more token behind n others.                                         *)
OneMore(s, t, u, v, y, z, n) ==
  /\ n \in Nat /\ DOMAIN s = 1..n /\ DOMAIN u = 1..(n + 1)
  /\ \A i \in 1..n : s[i] = u[i] /\ t[i] = v[i]
  /\ y = u[n + 1] /\ z = v[n + 1]
LEMMA WrittenMore ==
  ASSUME NEW c, Typed(c), NEW n, NEW s, NEW t, NEW u, NEW v, NEW y, NEW z,
         OneMore(s, t, u, v, y, z, n), NEW d, d = Written(c, s, t)
  PROVE  Written(d, <<y>>, <<z>>) = Written(c, u, v)
<1> USE DEF OneMore
<1>1. d = Written(c, s, t)
  OBVIOUS
<1>2. d = [c EXCEPT !.kv = KVAfter(c, s, t)]
  BY <1>1 DEF Written, KVAfter
<1>3. d.kv = KVAfter(c, s, t)
  BY <1>2 DEF Typed
<1>4. Written(d, <<y>>, <<z>>) = [d EXCEPT !.kv = KVAfter(d, <<y>>, <<z>>)]
  BY DEF Written, KVAfter
<1>5. Written(c, u, v) = [c EXCEPT !.kv = KVAfter(c, u, v)]
  BY DEF Written, KVAfter
<1>6. ASSUME NEW p \in Page, NEW o \in Offset
      PROVE  KVAfter(d, <<y>>, <<z>>)[p][o] = KVAfter(c, u, v)[p][o]
  <2> DEFINE at == <<p, o>>
             S == {i \in 1..n : s[i] = at}
             U == {i \in 1..(n + 1) : u[i] = at}
  <2>1. KVAfter(c, u, v)[p][o] = IF U # {} THEN v[Max(U)] ELSE c.kv[p][o]
    <3>1. at \in ToSet(u) <=> U # {}
      BY DEF ToSet
    <3> QED BY <3>1 DEF KVAfter
  <2>2. d.kv[p][o] = IF S # {} THEN t[Max(S)] ELSE c.kv[p][o]
    <3>1. at \in ToSet(s) <=> S # {}
      BY DEF ToSet
    <3>2. {i \in DOMAIN s : s[i] = at} = S
      OBVIOUS
    <3> HIDE DEF S
    <3>3. KVAfter(c, s, t)[p][o] = IF at \in ToSet(s) THEN t[Max(S)] ELSE c.kv[p][o]
      BY <3>2 DEF KVAfter
    <3> QED BY <1>3, <3>1, <3>3
  <2>3. KVAfter(d, <<y>>, <<z>>)[p][o] = IF u[n + 1] = at THEN v[n + 1] ELSE d.kv[p][o]
    <3>1. y = u[n + 1] /\ z = v[n + 1]
      OBVIOUS
    <3>2. DOMAIN <<y>> = {1} /\ <<y>>[1] = y /\ <<z>>[1] = z
      OBVIOUS
    <3>3. at \in ToSet(<<y>>) <=> y = at
      BY <3>2 DEF ToSet
    <3>4. y = at => {i \in DOMAIN <<y>> : <<y>>[i] = at} = {1}
      BY <3>2
    <3>5. Max({1}) = 1
      BY DEF Max
    <3> QED BY <3>1, <3>2, <3>3, <3>4, <3>5 DEF KVAfter
  <2>4. CASE u[n + 1] = at
    <3>1. n + 1 \in U /\ \A i \in U : i <= n + 1 /\ i \in Int
      BY <2>4
    <3>2. Max(U) = n + 1
      <4> HIDE DEF U
      <4> QED BY <3>1 DEF Max
    <3> QED BY <2>1, <2>3, <2>4, <3>1, <3>2
  <2>5. CASE u[n + 1] # at
    <3>1. U = S
      BY <2>5
    <3>2. S # {} => t[Max(S)] = v[Max(S)]
      <4>1. S # {} => Max(S) \in S
        <5>1. S \subseteq 0..n
          OBVIOUS
        <5> HIDE DEF S
        <5> QED BY <5>1, MaxIn
      <4> QED BY <4>1
    <3> QED BY <2>1, <2>2, <2>3, <2>5, <3>1, <3>2
  <2> QED BY <2>4, <2>5
<1>7. KVAfter(d, <<y>>, <<z>>) = KVAfter(c, u, v)
  BY <1>6 DEF KVAfter
<1> QED BY <1>1, <1>2, <1>4, <1>5, <1>7

(* The first n moves made one after the other, of which none reads what an *)
(* earlier one wrote, are one write.                                       *)
To(moves, n)         == [i \in 1..n |-> moves[i].to]
Carried(c, moves, n) == [i \in 1..n |-> c.kv[moves[i].from[1]][moves[i].from[2]]]
ReadsFirst(moves, n) ==
  /\ \A i \in 1..n : \E p \in Page, o \in Offset : moves[i].from = <<p, o>>
  /\ \A i, j \in 1..n : i < j => moves[i].to # moves[j].from
LEMMA CopyAtOnce ==
  ASSUME NEW c, Typed(c), DOMAIN c.kv = Page, NEW n \in Nat, n # 0, NEW moves, ReadsFirst(moves, n),
         NEW f, f[0] = c, \A i \in 1..n : f[i] = Copied(f[i - 1], moves[i])
  PROVE  f[n] = Written(c, To(moves, n), Carried(c, moves, n))
<1> DEFINE T == {m \in Nat : m \in 1..n /\ f[m] # Written(c, To(moves, m), Carried(c, moves, m))}
<1>1. T = {}
  <2> SUFFICES ASSUME T # {} PROVE FALSE
    OBVIOUS
  <2>1. PICK m \in T : \A k \in T : m <= k
    <3>1. T \subseteq Nat
      OBVIOUS
    <3> HIDE DEF T
    <3> QED BY <3>1, LeastNatural
  <2>2. m \in 1..n /\ m \in Nat /\ f[m] # Written(c, To(moves, m), Carried(c, moves, m))
    BY <2>1
  <2>3. PICK p, o, y : /\ p \in Page /\ o \in Offset /\ moves[m].from = <<p, o>> /\ y = moves[m].to
    BY <2>2 DEF ReadsFirst
  <2>4. ASSUME NEW d, d = f[m - 1] PROVE f[m] = Written(d, <<y>>, <<d.kv[p][o]>>)
    <3>1. <<p, o>>[1] = p /\ <<p, o>>[2] = o
      OBVIOUS
    <3>2. f[m] = Copied(d, moves[m])
      BY <2>2, <2>4
    <3> QED BY <2>3, <3>1, <3>2, Zenon DEF Copied
  <2>5. CASE m = 1
    <3>1. f[1] = Written(c, <<y>>, <<c.kv[p][o]>>)
      <4>1. m - 1 = 0
        BY <2>5
      <4>2. f[m] = Written(c, <<y>>, <<c.kv[p][o]>>)
        BY <2>4, <4>1
      <4> QED BY <2>5, <4>2
    <3>2. To(moves, 1) = <<y>> /\ Carried(c, moves, 1) = <<c.kv[p][o]>>
      <4>1. moves[1].to = y /\ c.kv[moves[1].from[1]][moves[1].from[2]] = c.kv[p][o]
        BY <2>3, <2>5
      <4> QED BY <4>1 DEF To, Carried
    <3> QED BY <2>2, <2>5, <3>1, <3>2
  <2>6. CASE m # 1
    <3>1. PICK k \in Nat : m = k + 1 /\ m - 1 = k /\ k \in 1..n /\ ~(m <= k)
      <4>1. m - 1 \in Nat /\ m = (m - 1) + 1 /\ m - 1 \in 1..n /\ ~(m <= m - 1)
        BY <2>2, <2>6
      <4> QED BY <4>1
    <3>2. PICK s, t, u, v : s = To(moves, k) /\ t = Carried(c, moves, k) /\ u = To(moves, k + 1) /\ v = Carried(c, moves, k + 1)
      OBVIOUS
    <3> DEFINE found(i) == c.kv[moves[i].from[1]][moves[i].from[2]]
    <3>3. /\ s = [i \in 1..k |-> moves[i].to] /\ u = [i \in 1..(k + 1) |-> moves[i].to]
           /\ t = [i \in 1..k |-> found(i)] /\ v = [i \in 1..(k + 1) |-> found(i)]
      BY <3>2, Zenon DEF To, Carried
    <3>4. found(m) = c.kv[p][o]
      BY <2>3
    <3> HIDE DEF found
    <3>5. \A i \in 1..k : i \in 1..(k + 1)
      OBVIOUS
    <3>6. /\ DOMAIN s = 1..k /\ DOMAIN u = 1..(k + 1) /\ (\A i \in 1..k : s[i] = u[i] /\ t[i] = v[i])
          /\ \A i \in 1..k : s[i] = moves[i].to
      BY <3>3, <3>5
    <3>7. u[k + 1] = y /\ v[k + 1] = c.kv[p][o]
      <4>1. k + 1 \in 1..(k + 1)
        OBVIOUS
      <4>2. u[k + 1] = moves[k + 1].to /\ v[k + 1] = found(k + 1)
        BY <3>3, <4>1
      <4> QED BY <2>3, <3>1, <3>4, <4>2
    <3>8. PICK d : d = Written(c, s, t)
      OBVIOUS
    <3>9. d = f[m - 1]
      <4>1. k \notin T
        BY <2>1, <3>1
      <4> QED BY <3>1, <3>2, <3>8, <4>1
    <3>10. d.kv[p][o] = c.kv[p][o]
      <4>1. d = [c EXCEPT !.kv = KVAfter(c, s, t)]
        BY <3>8 DEF Written, KVAfter
      <4>2. d.kv = KVAfter(c, s, t)
        BY <4>1 DEF Typed
      <4>3. ASSUME NEW i \in 1..k PROVE s[i] # <<p, o>>
        <5>1. i \in 1..n /\ i < m
          BY <2>2, <3>1
        <5>2. moves[i].to # moves[m].from
          BY <2>2, <5>1 DEF ReadsFirst
        <5> QED BY <2>3, <3>6, <5>2
      <4>4. <<p, o>> \notin ToSet(s)
        BY <3>6, <4>3 DEF ToSet
      <4> QED BY <2>3, <4>2, <4>4 DEF KVAfter
    <3>11. f[m] = Written(d, <<y>>, <<c.kv[p][o]>>)
      BY <2>4, <3>9, <3>10
    <3>12. Written(d, <<y>>, <<c.kv[p][o]>>) = Written(c, u, v)
      <4>1. PICK z : z = c.kv[p][o]
        OBVIOUS
      <4>2. OneMore(s, t, u, v, y, z, k)
        BY <3>6, <3>7, <4>1 DEF OneMore
      <4>3. Written(d, <<y>>, <<z>>) = Written(c, u, v)
        BY <3>8, <4>2, WrittenMore
      <4> QED BY <4>1, <4>3
    <3> QED BY <2>2, <3>1, <3>2, <3>11, <3>12
  <2> QED BY <2>5, <2>6
<1>2. n \in 1..n
  OBVIOUS
<1> QED BY <1>1, <1>2

(* A write of the accepted tokens of a round into the front of its slots.  *)
MovesTo(c, r, slots, tokens, a, b, N) ==
  LET w == [i \in DOMAIN r |-> Len(Accepted(r[i]))] IN
  /\ Numbers(a, b, w, Len(r), N) /\ DOMAIN slots = 1..N
  /\ \A x \in 1..N :
       /\ a[x] \in DOMAIN r /\ b[x] \in 1..w[a[x]] /\ w[a[x]] = Len(Accepted(r[a[x]]))
       /\ slots[x] = Slot(LastBlock(c, r[a[x]].seq), First(c, r[a[x]]) + b[x] - 1)
       /\ tokens[x] = Found(c, r)[a[x]][b[x]]
LEMMA MovedAt ==
  ASSUME NEW c, Whole(c, {}), DOMAIN c.kv = Page, NEW r, TreeDue(c, r),
         NEW slots, NEW tokens, NEW a, NEW b, NEW N, MovesTo(c, r, slots, tokens, a, b, N),
         NEW d, d = Written(c, slots, tokens)
  PROVE  HasMoved(c, d, r)
<1>1. Structured(c) /\ Ended(c) /\ Typed(c)
  BY WholeParts
<1>2. PICK v, w : v = Found(c, r) /\ w = [i \in DOMAIN r |-> Len(Accepted(r[i]))]
  OBVIOUS
<1>3. d = Written(c, slots, tokens)
  OBVIOUS
<1>4. Whole(d, {}) /\ DOMAIN d.kv = Page /\ SeqIds(d) = SeqIds(c) /\ d.seq_map = c.seq_map /\ d.pool = c.pool
  BY <1>1, <1>3, WrittenWhole, WrittenPages
<1>5. Structured(d) /\ Ended(d)
  BY <1>4, WholeParts
<1>6. Numbers(a, b, w, Len(r), N)
  BY <1>2 DEF MovesTo
<1>7. PICK l : l \in Nat /\ l = Len(r) /\ DOMAIN r = 1..l
  BY DEF TreeDue, RoundDue
<1>8. N \in Nat /\ DOMAIN slots = 1..N
  BY <1>6 DEF Numbers, MovesTo
<1> DEFINE q == [x \in 1..N |-> r[a[x]].seq]
           k == [x \in 1..N |-> First(c, r[a[x]]) + b[x] - 1]
<1>9. ASSUME NEW x \in 1..N
      PROVE  /\ a[x] \in DOMAIN r /\ b[x] \in 1..w[a[x]] /\ w[a[x]] = Len(Accepted(r[a[x]]))
             /\ slots[x] = Slot(LastBlock(c, r[a[x]].seq), First(c, r[a[x]]) + b[x] - 1)
             /\ tokens[x] = v[a[x]][b[x]]
  BY <1>2 DEF MovesTo
<1>10. ASSUME NEW x \in 1..N
       PROVE  \E n, m : IsEntry(c, r[a[x]], n, m) /\ b[x] \in 1..m
  <2>1. a[x] \in DOMAIN r
    BY <1>9
  <2>2. PICK n, m : IsEntry(c, r[a[x]], n, m)
    BY <1>1, <2>1, EntryFacts
  <2>3. b[x] \in 1..m
    BY <1>9, <2>2 DEF IsEntry
  <2> QED BY <2>2, <2>3
<1>11. ASSUME NEW x \in 1..N
       PROVE  /\ q[x] \in SeqIds(c) /\ k[x] \in 0..(LastBlock(c, q[x]).seq_length - 1)
              /\ slots[x] = Slot(LastBlock(c, q[x]), k[x])
  <2>1. PICK n, m : IsEntry(c, r[a[x]], n, m) /\ b[x] \in 1..m
    BY <1>10
  <2>2. PICK e, h, j : e = r[a[x]] /\ h = First(c, e) /\ j = b[x]
    OBVIOUS
  <2>3. /\ e.seq \in SeqIds(c) /\ h \in Nat /\ n \in Nat /\ m \in Nat /\ m <= n /\ j \in 1..m
        /\ h + n = LastBlock(c, e.seq).seq_length
    BY <2>1, <2>2 DEF IsEntry
  <2>4. h + j - 1 \in 0..(LastBlock(c, e.seq).seq_length - 1)
    BY <2>3
  <2>5. slots[x] = Slot(LastBlock(c, e.seq), h + j - 1)
    BY <1>9, <2>2
  <2> QED BY <2>2, <2>3, <2>4, <2>5
<1>12. ASSUME NEW x \in 1..N, NEW y \in 1..N, q[x] = q[y], k[x] = k[y] PROVE x = y
  <2>1. a[x] \in DOMAIN r /\ a[y] \in DOMAIN r /\ r[a[x]].seq = r[a[y]].seq
    BY <1>9, <1>12
  <2>2. a[x] = a[y]
    BY <2>1 DEF TreeDue, RoundDue
  <2>3. PICK n, m : IsEntry(c, r[a[x]], n, m) /\ b[x] \in 1..m
    BY <1>10
  <2>4. PICK n1, m1 : IsEntry(c, r[a[y]], n1, m1) /\ b[y] \in 1..m1
    BY <1>10
  <2>5. PICK h, i, j : h = First(c, r[a[x]]) /\ i = b[x] /\ j = b[y]
    OBVIOUS
  <2>6. h \in Nat /\ i \in Int /\ j \in Int /\ h + i - 1 = h + j - 1
    <3>1. First(c, r[a[x]]) + b[x] - 1 = First(c, r[a[y]]) + b[y] - 1
      BY <1>12, Zenon
    <3>2. b[x] \in Int /\ b[y] \in Int /\ First(c, r[a[x]]) \in Nat
      <4>1. m \in Nat /\ First(c, r[a[x]]) \in Nat /\ m1 \in Nat
        BY <2>3, <2>4 DEF IsEntry
      <4>2. b[x] \in 1..m /\ b[y] \in 1..m1
        BY <2>3, <2>4
      <4> HIDE DEF q, k
      <4> QED BY <4>1, <4>2
    <3> HIDE DEF q, k
    <3> QED BY <2>2, <2>5, <3>1, <3>2
  <2>7. i = j
    BY <2>6
  <2> QED BY <1>6, <2>2, <2>5, <2>7 DEF Numbers
<1>13. Lies(c, slots, q, k)
  <2>1. 1..N \subseteq Nat
    BY <1>8
  <2> HIDE DEF q, k
  <2> QED BY <1>8, <1>11, <1>12, <2>1 DEF Lies
<1>14. ASSUME NEW x \in 1..N PROVE q[x] = r[a[x]].seq /\ k[x] = First(c, r[a[x]]) + b[x] - 1
  OBVIOUS
<1> HIDE DEF q, k
<1>15. HasStored(c, d, slots, tokens, q, k)
  BY <1>3, <1>13, StoredContents
<1>16. ASSUME NEW s \in SeqIds(c), \A i \in DOMAIN r : r[i].seq # s PROVE Contents(d, s) = Contents(c, s)
  <2>1. \A x \in 1..N : q[x] # s
    BY <1>9, <1>14, <1>16
  <2>2. \A p \in 1..c.seq_map[s].seq_length : Contents(d, s)[p] = Contents(c, s)[p]
    BY <1>8, <1>15, <2>1 DEF HasStored
  <2>3. PICK n \in Nat : n = c.seq_map[s].seq_length /\ n = d.seq_map[s].seq_length /\ s \in SeqIds(d) /\ n <= n
    BY <1>1, <1>4, ContentsType
  <2>4. SubSeq(Contents(d, s), 1, n) = SubSeq(Contents(c, s), 1, n)
    BY <1>1, <1>5, <2>2, <2>3, ContentsSame
  <2>5. SubSeq(Contents(d, s), 1, d.seq_map[s].seq_length) = Contents(d, s)
    BY <1>5, <2>3, ContentsType
  <2>6. SubSeq(Contents(c, s), 1, c.seq_map[s].seq_length) = Contents(c, s)
    BY <1>1, ContentsType
  <2> QED BY <2>3, <2>4, <2>5, <2>6
<1>17. ASSUME NEW i \in DOMAIN r PROVE InFrontNow(c, d, r[i])
  <2>1. PICK n, m : IsEntry(c, r[i], n, m)
    BY <1>1, EntryFacts
  <2>2. PICK e, s, h, st : e = r[i] /\ s = e.seq /\ h = First(c, e) /\ st = LastBlock(c, s).start_pos
    OBVIOUS
  <2>3. /\ s \in SeqIds(c) /\ h \in Nat /\ st \in Nat /\ n \in Nat /\ m \in Nat /\ m <= n
        /\ Before(c, e) = st + h /\ Before(c, e) + n = c.seq_map[s].seq_length /\ DOMAIN Accepted(e) = 1..m
        /\ m = Len(Accepted(e))
    BY <2>1, <2>2 DEF IsEntry
  <2>4. ASSUME NEW x \in 1..N, q[x] = s PROVE a[x] = i /\ Position(c, s, k[x]) = Before(c, e) + b[x] /\ b[x] \in Nat /\ b[x] > 0
    <3>1. a[x] = i
      BY <1>9, <1>14, <2>2, <2>4 DEF TreeDue, RoundDue
    <3>2. PICK j : j = b[x] /\ j \in 1..m
      BY <1>2, <1>9, <2>2, <2>3, <3>1
    <3>3. k[x] = h + j - 1
      BY <1>14, <2>2, <3>1, <3>2
    <3>4. st + (h + j - 1) + 1 = (st + h) + j /\ j \in Nat /\ j > 0
      BY <2>3, <3>2
    <3> QED BY <2>2, <2>3, <3>1, <3>2, <3>3, <3>4 DEF Position
  <2>5. ASSUME NEW p \in 1..Before(c, e) PROVE Contents(d, s)[p] = Contents(c, s)[p]
    <3>1. \A x \in 1..N : q[x] = s => p # Position(c, s, k[x])
      <4>1. PICK z \in Nat : z = Before(c, e)
        BY <2>3
      <4>2. p \in Int /\ p <= z
        BY <4>1
      <4>3. ASSUME NEW x \in 1..N, q[x] = s PROVE p # Position(c, s, k[x])
        <5>1. PICK j : j = b[x] /\ j \in Nat /\ j > 0 /\ Position(c, s, k[x]) = z + j
          BY <2>4, <4>1, <4>3
        <5> QED BY <4>1, <4>2, <5>1
      <4> QED BY <4>3
    <3>2. p \in 1..c.seq_map[s].seq_length
      BY <2>3
    <3> QED BY <1>8, <1>15, <2>3, <3>1, <3>2 DEF HasStored
  <2>6. ASSUME NEW j \in 1..m
        PROVE  Contents(d, s)[Before(c, e) + j] = Contents(c, s)[Before(c, e) + Accepted(e)[j] + 1]
    <3>1. i \in 1..l /\ w[i] = m
      BY <1>2, <1>7, <2>2, <2>3
    <3>2. PICK x \in 1..N : a[x] = i /\ b[x] = j
      BY <1>6, <1>7, <3>1 DEF Numbers
    <3>3. q[x] = s
      BY <1>14, <2>2, <3>2
    <3>4. Contents(d, s)[Position(c, s, k[x])] = tokens[x]
      BY <1>8, <1>15, <3>3 DEF HasStored
    <3>5. Position(c, s, k[x]) = Before(c, e) + j
      BY <2>4, <3>2, <3>3
    <3>6. tokens[x] = v[i][j]
      BY <1>9, <3>2
    <3>7. v[i] = [y \in 1..m |-> Contents(c, s)[Before(c, e) + Accepted(e)[y] + 1]]
      BY <1>1, <1>2, <2>1, <2>2, FoundIs
    <3>8. v[i][j] = Contents(c, s)[Before(c, e) + Accepted(e)[j] + 1]
      BY <3>7
    <3> QED BY <3>4, <3>5, <3>6, <3>8
  <2> QED BY <2>2, <2>3, <2>5, <2>6 DEF InFrontNow
<1> QED BY <1>4, <1>16, <1>17 DEF HasMoved

(* Where a move of a round lies in the last block of its sequence.         *)
MoveLies(c, e, move, s, h, j, y) ==
  /\ s = c.seq_map[e.seq].last_block_idx /\ e.seq \in SeqIds(c) /\ s \in Used(c)
  /\ h \in Nat /\ j \in Nat /\ j > 0 /\ y \in Nat /\ y >= j - 1
  /\ h + j - 1 \in 0..(c.pool[s].seq_length - 1) /\ h + y \in 0..(c.pool[s].seq_length - 1)
  /\ move.to = Slot(c.pool[s], h + j - 1) /\ move.from = Slot(c.pool[s], h + y)

(* No move of a round reads what an earlier one wrote: a token moves up in *)
(* its sequence, or stays, and the blocks of two sequences are apart.      *)
LEMMA RoundReads ==
  ASSUME NEW c, Whole(c, {}), NEW r, TreeDue(c, r),
         NEW w, w = [i \in DOMAIN r |-> Len(Accepted(r[i]))],
         NEW a, NEW b, NEW N, Numbers(a, b, w, Len(r), N),
         NEW moves, \A x \in 1..N : IsMove(c, r, moves[x], a[x], b[x])
  PROVE  ReadsFirst(moves, N)
<1>1. Structured(c) /\ Ended(c) /\ N \in Nat
  BY WholeParts DEF Numbers
<1>2. ASSUME NEW x \in 1..N
      PROVE  \E s, y : MoveLies(c, r[a[x]], moves[x], s, First(c, r[a[x]]), b[x], y)
  <2>1. PICK e, n, m : e = r[a[x]] /\ IsEntry(c, e, n, m) /\ a[x] \in DOMAIN r
    <3>1. a[x] \in DOMAIN r
      BY DEF IsMove
    <3> QED BY <1>1, <3>1, EntryFacts
  <2>2. PICK j, y, h, s : j = b[x] /\ y = Accepted(e)[j] /\ h = First(c, e) /\ s = c.seq_map[e.seq].last_block_idx
    OBVIOUS
  <2>3. j \in 1..m
    BY <2>1, <2>2 DEF IsMove, IsEntry
  <2>4. /\ n \in Nat /\ m \in Nat /\ m <= n /\ h \in Nat /\ y \in 0..(n - 1) /\ y >= j - 1
        /\ h + n = c.pool[s].seq_length /\ e.seq \in SeqIds(c)
    BY <2>1, <2>2, <2>3 DEF IsEntry, LastBlock
  <2>5. s \in Used(c)
    BY <1>1, <2>2, <2>4 DEF Ended, Ends
  <2>6. /\ j \in Nat /\ j > 0 /\ y \in Nat
        /\ h + j - 1 \in 0..(c.pool[s].seq_length - 1) /\ h + y \in 0..(c.pool[s].seq_length - 1)
    BY <2>3, <2>4
  <2>7. moves[x].to = Slot(c.pool[s], h + j - 1) /\ moves[x].from = Slot(c.pool[s], h + y)
    BY <2>1, <2>2 DEF IsMove, LastBlock
  <2>8. MoveLies(c, e, moves[x], s, h, j, y)
    BY <2>2, <2>4, <2>5, <2>6, <2>7 DEF MoveLies
  <2> QED BY <2>1, <2>2, <2>8
<1>3. ASSUME NEW x \in 1..N PROVE \E p \in Page, o \in Offset : moves[x].from = <<p, o>>
  <2>1. PICK s, k : s \in Used(c) /\ k \in 0..(c.pool[s].seq_length - 1) /\ moves[x].from = Slot(c.pool[s], k)
    <3>1. PICK s, y : MoveLies(c, r[a[x]], moves[x], s, First(c, r[a[x]]), b[x], y)
      BY <1>2
    <3> QED BY <3>1 DEF MoveLies
  <2>2. c.pool[s].seq_length \in Nat
    BY <1>1, <2>1, UsedBlocks, BlockFields DEF Structured
  <2>3. k \in Nat /\ k < c.pool[s].seq_length
    BY <2>1, <2>2
  <2>4. c.pool[s].page_ids[k \div page_size + 1] \in Page /\ k % page_size \in Offset
    BY <1>1, <2>1, <2>3, SlotOf
  <2> QED BY <2>1, <2>4 DEF Slot
<1>4. ASSUME NEW x \in 1..N, NEW z \in 1..N, x < z, moves[x].to = moves[z].from PROVE FALSE
  <2>1. PICK s, y, h, j : h = First(c, r[a[x]]) /\ j = b[x] /\ MoveLies(c, r[a[x]], moves[x], s, h, j, y)
    BY <1>2
  <2>2. PICK s1, y1, h1, j1 : /\ h1 = First(c, r[a[z]]) /\ j1 = b[z]
                              /\ MoveLies(c, r[a[z]], moves[z], s1, h1, j1, y1)
    BY <1>2
  <2>3. s = s1 /\ h + j - 1 = h1 + y1
    <3>1. /\ s \in Used(c) /\ s1 \in Used(c)
          /\ h + j - 1 \in 0..(c.pool[s].seq_length - 1) /\ h1 + y1 \in 0..(c.pool[s1].seq_length - 1)
          /\ Slot(c.pool[s], h + j - 1) = Slot(c.pool[s1], h1 + y1)
      BY <1>4, <2>1, <2>2 DEF MoveLies
    <3>2. PICK k, k1 : k = h + j - 1 /\ k1 = h1 + y1
      OBVIOUS
    <3> QED BY <1>1, <3>1, <3>2, SlotApart
  <2>4. r[a[x]].seq = r[a[z]].seq
    <3>1. /\ r[a[x]].seq \in SeqIds(c) /\ r[a[z]].seq \in SeqIds(c)
          /\ c.seq_map[r[a[x]].seq].last_block_idx = c.seq_map[r[a[z]].seq].last_block_idx
      BY <2>1, <2>2, <2>3 DEF MoveLies
    <3>2. Alone(c, r[a[x]].seq)
      BY <3>1 DEF Whole, Linked, Private
    <3> QED BY <3>1, <3>2 DEF Alone, Owners
  <2>5. a[x] = a[z]
    <3>1. a[x] \in DOMAIN r /\ a[z] \in DOMAIN r
      BY DEF IsMove
    <3> QED BY <2>4, <3>1 DEF TreeDue, RoundDue
  <2>6. j < j1 /\ h = h1
    BY <1>4, <2>1, <2>2, <2>5 DEF Numbers
  <2>7. h \in Nat /\ j \in Nat /\ j1 \in Nat /\ y1 \in Nat /\ y1 >= j1 - 1
    BY <2>1, <2>2 DEF MoveLies
  <2> QED BY <2>3, <2>6, <2>7
<1> QED BY <1>3, <1>4 DEF ReadsFirst

(* The copy for the accepted paths.                                        *)
LEMMA CompactedContents ==
  ASSUME NEW c, Whole(c, {}), DOMAIN c.kv = Page, NEW r, TreeDue(c, r), NEW d, d = Compacted(c, r)
  PROVE  HasMoved(c, d, r)
<1>1. Structured(c) /\ Ended(c) /\ Typed(c)
  BY WholeParts DEF Structured
<1>2. PICK v, w : v = Found(c, r) /\ w = [i \in DOMAIN r |-> Len(Accepted(r[i]))]
  OBVIOUS
<1>3. PICK a, b, N, moves :
        /\ moves = AllMoves(r) /\ Numbers(a, b, w, Len(r), N) /\ N = Len(moves)
        /\ \A x \in 1..N : IsMove(c, r, moves[x], a[x], b[x])
  BY <1>1, <1>2, RoundNumbered
<1>4. PICK l : l \in Nat /\ l = Len(r) /\ DOMAIN r = 1..l /\ RoundDue(c, r)
  BY DEF TreeDue, RoundDue
<1>5. PICK f : f[0] = c /\ d = f[N] /\ \A x \in 1..N : f[x] = Copied(f[x - 1], moves[x])
  BY <1>3, <1>4, CopyInTurn
<1>6. N \in Nat
  BY <1>3 DEF Numbers
<1>7. CASE N = 0
  <2>1. d = c
    BY <1>5, <1>7
  <2>2. ASSUME NEW i \in DOMAIN r PROVE InFrontNow(c, d, r[i])
    <3>1. PICK n, m : IsEntry(c, r[i], n, m)
      BY <1>1, EntryFacts
    <3>2. ~ \E j : j \in 1..w[i]
      BY <1>3, <1>4, <1>7 DEF Numbers
    <3>3. DOMAIN Accepted(r[i]) = 1..w[i]
      BY <1>2, <3>1 DEF IsEntry
    <3> QED BY <2>1, <3>2, <3>3 DEF InFrontNow
  <2> QED BY <2>1, <2>2 DEF HasMoved
<1>8. CASE N # 0
  <2> DEFINE slots  == To(moves, N)
             tokens == Carried(c, moves, N)
  <2>1. d = Written(c, slots, tokens)
    <3>1. ReadsFirst(moves, N)
      BY <1>2, <1>3, RoundReads
    <3> QED BY <1>1, <1>5, <1>6, <1>8, <3>1, CopyAtOnce
  <2>2. DOMAIN slots = 1..N
    BY DEF To
  <2>3. ASSUME NEW x \in 1..N
        PROVE  /\ a[x] \in DOMAIN r /\ b[x] \in 1..w[a[x]] /\ w[a[x]] = Len(Accepted(r[a[x]]))
               /\ slots[x] = Slot(LastBlock(c, r[a[x]].seq), First(c, r[a[x]]) + b[x] - 1)
               /\ tokens[x] = v[a[x]][b[x]]
    <3>1. IsMove(c, r, moves[x], a[x], b[x])
      BY <1>3
    <3>2. a[x] \in DOMAIN r /\ b[x] \in 1..w[a[x]]
      BY <1>3, <1>4 DEF Numbers
    <3> QED BY <1>2, <3>1, <3>2 DEF IsMove, To, Carried
  <2> HIDE DEF slots, tokens
  <2>4. MovesTo(c, r, slots, tokens, a, b, N)
    BY <1>2, <1>3, <2>2, <2>3 DEF MovesTo
  <2> QED BY <2>1, <2>4, MovedAt
<1> QED BY <1>7, <1>8

-----------------------------------------------------------------------------
(* The pops of a commit.                                                   *)

(* Without the copy nothing is moved, and in chains nothing has to be.     *)
LEMMA ChainsMoved ==
  ASSUME NEW c, Whole(c, {}), DOMAIN c.kv = Page, NEW r, TreeDue(c, r), \A i \in DOMAIN r : IsChain(r[i].parents)
  PROVE  HasMoved(c, c, r)
<1>1. ASSUME NEW i \in DOMAIN r PROVE InFrontNow(c, c, r[i])
  <2>1. Structured(c) /\ Ended(c)
    BY WholeParts
  <2>2. PICK n, m : IsEntry(c, r[i], n, m)
    BY <2>1, EntryFacts
  <2>3. r[i].parents \in Forests /\ r[i].leaf \in -1..(Len(r[i].parents) - 1) /\ IsChain(r[i].parents)
    BY DEF TreeDue, RoundDue, Due
  <2>4. \A j \in DOMAIN Accepted(r[i]) : Accepted(r[i])[j] = j - 1
    BY <2>3, ChainPath DEF Accepted
  <2>5. PICK b \in Nat : b = Before(c, r[i])
    BY <2>2 DEF IsEntry
  <2>6. ASSUME NEW j \in DOMAIN Accepted(r[i]) PROVE b + j = b + Accepted(r[i])[j] + 1
    <3>1. j \in Nat /\ Accepted(r[i])[j] = j - 1
      BY <2>2, <2>4 DEF IsEntry
    <3> QED BY <3>1
  <2> QED BY <2>5, <2>6 DEF InFrontNow
<1> QED BY <1>1 DEF HasMoved

(* A pop in the last block, of a sequence nobody else shares it with.      *)
PoppedOne(c, d, s, n) ==
  /\ DOMAIN d.kv = Page /\ Whole(d, {}) /\ SeqIds(d) = SeqIds(c)
  /\ Contents(d, s) = SubSeq(Contents(c, s), 1, c.seq_map[s].seq_length - n)
  /\ \A x \in SeqIds(c) \ {s} : Contents(d, x) = Contents(c, x) /\ d.seq_map[x] = c.seq_map[x]
LEMMA LastPopped ==
  ASSUME NEW c, Whole(c, {}), DOMAIN c.kv = Page, NEW s \in SeqIds(c), NEW n \in Nat, n <= LastBlock(c, s).seq_length
  PROVE  PoppedOne(c, Popped(c, s, n), s, n)
<1>1. Structured(c) /\ Ended(c)
  BY WholeParts
<1>2. PICK d : d = Popped(c, s, n)
  OBVIOUS
<1>3. d = (IF n = 0 THEN c ELSE Truncated(c, s, n)) /\ Alone(c, s)
  BY <1>2, PoppedInLast
<1>4. CASE n = 0
  <2>1. d = c
    BY <1>3, <1>4
  <2>2. PICK l \in Nat : l = c.seq_map[s].seq_length /\ SubSeq(Contents(c, s), 1, l) = Contents(c, s)
    BY <1>1, ContentsType
  <2>3. l - n = l
    BY <1>4
  <2> QED BY <1>2, <2>1, <2>2, <2>3 DEF PoppedOne
<1>5. CASE n # 0
  <2>1. Shortened(c, d, s, n)
    BY <1>3, <1>5, TruncatedRead
  <2>2. /\ DOMAIN d.kv = Page /\ Whole(d, {}) /\ SeqIds(d) = SeqIds(c)
        /\ FirstOf(d, s, c.seq_map[s].seq_length - n, c, s)
        /\ KeptFor(c, d, SeqIds(c) \ {s})
        /\ \A x \in SeqIds(c) \ {s} : d.seq_map[x] = c.seq_map[x]
    BY <2>1 DEF Shortened
  <2>3. Structured(d) /\ Ended(d)
    BY <2>2, WholeParts
  <2>4. ContentsKept(c, d, SeqIds(c) \ {s})
    BY <1>1, <2>2, <2>3, KeptContents
  <2>5. PICK k : k = c.seq_map[s].seq_length - n /\ k \in Nat /\ k <= c.seq_map[s].seq_length
    <3>1. PICK l, p, h : l = c.seq_map[s].seq_length /\ p = LastBlock(c, s).start_pos /\ h = LastBlock(c, s).seq_length
      OBVIOUS
    <3>2. l \in Nat /\ l = p + h
      BY <1>1, <3>1, ContentsShow
    <3>3. p \in Nat /\ h \in Nat
      BY <1>1, <3>1, SequenceFields, BlockFields DEF LastBlock, Structured
    <3> QED BY <3>1, <3>2, <3>3
  <2>6. Contents(d, s) = SubSeq(Contents(c, s), 1, k)
    BY <1>1, <2>2, <2>3, <2>5, FirstContents
  <2> QED BY <1>2, <2>2, <2>4, <2>5, <2>6 DEF PoppedOne, ContentsKept
<1> QED BY <1>4, <1>5

(* After the first i pops of a commit: m is the cache the pops start at.   *)
StillFirst(m, r, d, i) ==
  /\ StillDue(m, r, d, i) /\ DOMAIN d.kv = Page
  /\ \A s \in SeqIds(m) : (\A j \in 1..i : r[j].seq # s) =>
       Contents(d, s) = Contents(m, s) /\ d.seq_map[s] = m.seq_map[s]
  /\ \A j \in 1..i : Contents(d, r[j].seq) =
       SubSeq(Contents(m, r[j].seq), 1, m.seq_map[r[j].seq].seq_length - Rejected(r[j]))

(* One more pop.                                                           *)
LEMMA StillFirstMore ==
  ASSUME NEW m, NEW r, RoundDue(m, r), NEW i \in Nat, i + 1 \in 1..Len(r), NEW d, StillFirst(m, r, d, i),
         NEW e, e = Popped(d, r[i + 1].seq, Rejected(r[i + 1]))
  PROVE  StillFirst(m, r, e, i + 1)
<1>1. PICK entry, s, n : entry = r[i + 1] /\ s = entry.seq /\ n = Rejected(entry)
  OBVIOUS
<1>2. /\ Len(r) \in Nat /\ DOMAIN r = 1..Len(r) /\ (\A j \in 1..Len(r) : Due(m, r[j]))
      /\ \A j, k \in 1..Len(r) : r[j].seq = r[k].seq => j = k
  BY DEF RoundDue
<1>3. Due(m, entry) /\ entry.seq \in SeqIds(m)
  BY <1>1, <1>2 DEF Due
<1>4. n \in Nat /\ n <= Len(entry.parents) /\ Len(entry.parents) \in Nat
  BY <1>1, <1>3, RejectedFits
<1>5. StillDue(m, r, d, i) /\ DOMAIN d.kv = Page
  BY DEF StillFirst
<1>6. /\ Whole(d, {}) /\ SeqIds(d) = SeqIds(m)
      /\ \A j \in (i + 1)..Len(r) : Len(r[j].parents) <= LastBlock(d, r[j].seq).seq_length
  BY <1>5 DEF StillDue
<1>7. s \in SeqIds(d)
  BY <1>1, <1>3, <1>6
<1>8. LastBlock(d, s).seq_length \in Nat
  BY <1>6, <1>7, WholeParts, SequenceFields, BlockFields DEF LastBlock
<1>9. n <= LastBlock(d, s).seq_length
  <2>1. i + 1 \in (i + 1)..Len(r)
    BY <1>2
  <2>2. Len(entry.parents) <= LastBlock(d, s).seq_length
    BY <1>1, <1>6, <2>1, Zenon
  <2> QED BY <1>4, <1>8, <2>2
<1>10. e = Popped(d, s, n)
  BY <1>1, Zenon
<1>11. PoppedOne(d, e, s, n)
  BY <1>4, <1>5, <1>6, <1>7, <1>9, <1>10, LastPopped
<1>12. StillDue(m, r, e, i + 1)
  BY <1>5, StillDueMore
<1>13. ASSUME NEW x \in SeqIds(m), \A j \in 1..(i + 1) : r[j].seq # x
       PROVE  Contents(e, x) = Contents(m, x) /\ e.seq_map[x] = m.seq_map[x]
  <2>1. x # s /\ \A j \in 1..i : r[j].seq # x
    BY <1>1, <1>13
  <2>2. Contents(d, x) = Contents(m, x) /\ d.seq_map[x] = m.seq_map[x]
    BY <2>1 DEF StillFirst
  <2> QED BY <1>6, <1>11, <2>1, <2>2 DEF PoppedOne
<1>14. ASSUME NEW j \in 1..i
       PROVE  Contents(e, r[j].seq) = SubSeq(Contents(m, r[j].seq), 1, m.seq_map[r[j].seq].seq_length - Rejected(r[j]))
  <2>1. j \in 1..Len(r) /\ j # i + 1
    BY <1>2
  <2>2. r[j].seq \in SeqIds(d) /\ r[j].seq # s
    BY <1>1, <1>2, <1>6, <2>1 DEF Due
  <2>3. Contents(e, r[j].seq) = Contents(d, r[j].seq)
    BY <1>11, <2>2 DEF PoppedOne
  <2>4. Contents(d, r[j].seq) = SubSeq(Contents(m, r[j].seq), 1, m.seq_map[r[j].seq].seq_length - Rejected(r[j]))
    BY DEF StillFirst
  <2> QED BY <2>3, <2>4
<1>15. Contents(e, s) = SubSeq(Contents(m, s), 1, m.seq_map[s].seq_length - n)
  <2>1. ASSUME NEW j \in 1..i PROVE r[j].seq # s
    <3>1. j \in 1..Len(r) /\ j # i + 1
      BY <1>2
    <3> QED BY <1>1, <1>2, <3>1
  <2>2. Contents(d, s) = Contents(m, s) /\ d.seq_map[s] = m.seq_map[s]
    BY <1>1, <1>3, <2>1 DEF StillFirst
  <2> QED BY <1>11, <2>2 DEF PoppedOne
<1>16. DOMAIN e.kv = Page
  BY <1>11 DEF PoppedOne
<1>17. ASSUME NEW j \in 1..(i + 1)
       PROVE  Contents(e, r[j].seq) = SubSeq(Contents(m, r[j].seq), 1, m.seq_map[r[j].seq].seq_length - Rejected(r[j]))
  <2>1. CASE j = i + 1
    BY <1>1, <1>15, <2>1
  <2>2. CASE j # i + 1
    <3>1. j \in 1..i
      BY <2>2
    <3> QED BY <1>14, <3>1
  <2> QED BY <2>1, <2>2
<1> QED BY <1>12, <1>13, <1>16, <1>17 DEF StillFirst

(* The copy is skipped only where there is nothing to copy.                *)
Uniform(r) == ~CopyNeeded(r) => \A i \in DOMAIN r : IsChain(r[i].parents)

(* A commit is a copy and pops.                                            *)
LEMMA CommittedPops ==
  ASSUME NEW c, Whole(c, {}), DOMAIN c.kv = Page, NEW r, TreeDue(c, r), Uniform(r)
  PROVE  \E m : HasMoved(c, m, r) /\ RoundDue(m, r) /\ StillFirst(m, r, Committed(c, r), Len(r))
<1> DEFINE l == Len(r)
           start == IF CopyNeeded(r) THEN Compacted(c, r) ELSE c
           g == CHOOSE f : f = [i \in 0..Len(r) |-> IF i = 0 THEN start
                                ELSE Popped(f[i - 1], r[i].seq, Len(r[i].parents) - Len(Accepted(r[i])))]
<1>1. l \in Nat /\ RoundDue(c, r)
  BY DEF TreeDue, RoundDue
<1>2. Committed(c, r) = g[l]
  BY Zenon DEF Committed
<1>3. HasMoved(c, start, r)
  BY ChainsMoved, CompactedContents DEF Uniform
<1> HIDE DEF start
<1>4. Whole(start, {}) /\ DOMAIN start.kv = Page /\ SeqIds(start) = SeqIds(c) /\ start.seq_map = c.seq_map /\ start.pool = c.pool
  BY <1>3 DEF HasMoved
<1>5. RoundDue(start, r)
  <2>1. \A x : LastBlock(start, x) = LastBlock(c, x)
    BY <1>4, Zenon DEF LastBlock
  <2>2. ASSUME NEW i \in DOMAIN r PROVE Due(start, r[i])
    <3>1. Due(c, r[i])
      BY <1>1 DEF RoundDue
    <3> QED BY <1>4, <2>1, <3>1, Zenon DEF Due
  <2> QED BY <1>1, <2>2 DEF RoundDue
<1>6. StillFirst(start, r, start, 0)
  <2>1. StillDue(start, r, start, 0)
    <3>1. ASSUME NEW j \in (0 + 1)..l PROVE Len(r[j].parents) <= LastBlock(start, r[j].seq).seq_length
      <4>1. j \in DOMAIN r
        BY <1>1 DEF RoundDue
      <4>2. Due(start, r[j])
        BY <1>5, <4>1 DEF RoundDue
      <4> QED BY <4>2, Zenon DEF Due
    <3> QED BY <1>4, <3>1, Zenon DEF StillDue
  <2>2. 1..0 = {}
    OBVIOUS
  <2> QED BY <1>4, <2>1, <2>2, Zenon DEF StillFirst
<1>7. Popping(start, r, g, l)
  <2>1. \E f : Popping(start, r, f, l)
    BY <1>1, PoppingExists, Zenon
  <2> QED BY <2>1, Zenon DEF Popping, Rejected
<1> HIDE DEF g
<1>8. /\ g[0] = start
      /\ \A i \in 1..l : g[i] = Popped(g[i - 1], r[i].seq, Rejected(r[i]))
  <2>1. \A i \in 0..l : g[i] = IF i = 0 THEN start ELSE Popped(g[i - 1], r[i].seq, Rejected(r[i]))
    BY <1>7, Zenon DEF Popping
  <2>2. 0 \in 0..l /\ \A i \in 1..l : i \in 0..l /\ i # 0
    BY <1>1
  <2> HIDE DEF l
  <2> QED BY <2>1, <2>2, Zenon
<1> DEFINE T == {i \in Nat : i <= l /\ ~ StillFirst(start, r, g[i], i)}
<1>9. T = {}
  <2> SUFFICES ASSUME T # {} PROVE FALSE
    OBVIOUS
  <2> HIDE DEF l
  <2>1. PICK m \in T : \A k \in T : m <= k
    BY LeastNatural
  <2>2. m # 0
    BY <1>6, <1>8, <2>1
  <2>3. PICK k \in Nat : m = k + 1 /\ k + 1 \in 1..l /\ k <= l
    <3>1. m \in Nat /\ m <= l
      BY <2>1
    <3>2. m - 1 \in Nat /\ m = (m - 1) + 1 /\ (m - 1) + 1 \in 1..l /\ m - 1 <= l
      BY <1>1, <2>2, <3>1
    <3> QED BY <3>2
  <2>4. StillFirst(start, r, g[k], k)
    <3>1. ~ (m <= k)
      BY <2>3
    <3> QED BY <2>1, <2>3, <3>1
  <2>5. g[m] = Popped(g[k], r[k + 1].seq, Rejected(r[k + 1]))
    <3>1. g[k + 1] = Popped(g[(k + 1) - 1], r[k + 1].seq, Rejected(r[k + 1]))
      BY <1>8, <2>3, Zenon
    <3>2. (k + 1) - 1 = k
      BY <2>3
    <3> QED BY <2>3, <3>1, <3>2
  <2>6. k + 1 \in 1..Len(r)
    BY <2>3 DEF l
  <2>7. StillFirst(start, r, g[m], k + 1)
    BY <1>5, <2>3, <2>4, <2>5, <2>6, StillFirstMore
  <2> QED BY <2>1, <2>3, <2>7
<1>10. StillFirst(start, r, g[l], l)
  <2>1. l <= l
    BY <1>1
  <2> HIDE DEF l
  <2> QED BY <1>1, <1>9, <2>1
<1> QED BY <1>2, <1>3, <1>5, <1>10

(* q[b + 1 .. ] is replaced by m of its members.                           *)
AcceptedFrom(q, b, m, a) == [j \in 1..m |-> q[b + a[j] + 1]]
MovedUp(p, q, b, m, a) ==
  /\ \A x \in 1..b : p[x] = q[x]
  /\ \A j \in 1..m : b + a[j] + 1 \in 1..Len(q) /\ p[b + j] = q[b + a[j] + 1]
Joined(p, q, b, m, a, k) == SubSeq(p, 1, k) = SubSeq(q, 1, b) \o AcceptedFrom(q, b, m, a)
LEMMA AcceptedJoin ==
  ASSUME NEW V, NEW p \in Seq(V), NEW q \in Seq(V), Len(p) = Len(q), NEW b \in Nat, NEW m \in Nat, NEW a, NEW k, k = b + m,
         k <= Len(q), MovedUp(p, q, b, m, a)
  PROVE  Joined(p, q, b, m, a, k)
<1> DEFINE u == SubSeq(p, 1, k)
           v == SubSeq(q, 1, b)
           w == [j \in 1..m |-> q[b + a[j] + 1]]
<1>0. /\ \A x \in 1..b : p[x] = q[x]
      /\ \A j \in 1..m : b + a[j] + 1 \in 1..Len(q) /\ p[b + j] = q[b + a[j] + 1]
  BY DEF MovedUp
<1>1. u \in Seq(V) /\ Len(u) = k /\ \A x \in 1..k : u[x] = p[x]
  OBVIOUS
<1>2. v \in Seq(V) /\ Len(v) = b /\ \A x \in 1..b : v[x] = q[x]
  OBVIOUS
<1>3. w \in Seq(V) /\ Len(w) = m /\ \A j \in 1..m : w[j] = q[b + a[j] + 1]
  BY <1>0
<1> HIDE DEF u, v, w
<1>4. v \o w \in Seq(V) /\ Len(v \o w) = k /\ \A x \in 1..k : (v \o w)[x] = IF x <= b THEN v[x] ELSE w[x - b]
  <2>1. PICK y, z : y = v /\ z = w /\ y \in Seq(V) /\ z \in Seq(V) /\ Len(y) = b /\ Len(z) = m
    BY <1>2, <1>3
  <2>2. y \o z \in Seq(V) /\ Len(y \o z) = k
    <3>1. y \o z \in Seq(V) /\ Len(y \o z) = Len(y) + Len(z)
      BY ONLY <2>1
    <3>2. Len(y) + Len(z) = k
      BY <2>1
    <3> QED BY <3>1, <3>2
  <2>3. \A x \in 1..k : (y \o z)[x] = IF x <= b THEN y[x] ELSE z[x - b]
    <3>1. b \in Nat /\ m \in Nat /\ k = b + m
      OBVIOUS
    <3>2. JoinAt(y \o z, y, z)
      BY <2>1, ConcatAt
    <3>3. PICK r : r = y \o z /\ (\A x \in 1..b : r[x] = y[x]) /\ \A x \in 1..m : r[b + x] = z[x]
      BY <2>1, <3>2 DEF JoinAt
    <3>4. ASSUME NEW x \in 1..k PROVE r[x] = IF x <= b THEN y[x] ELSE z[x - b]
      <4>1. CASE x <= b
        <5>1. x \in 1..b
          BY <3>1, <4>1
        <5> QED BY <3>3, <4>1, <5>1
      <4>2. CASE ~(x <= b)
        <5>1. x - b \in 1..m /\ b + (x - b) = x
          BY <3>1, <4>2
        <5>2. r[x] = z[x - b]
          BY <3>3, <5>1
        <5> QED BY <4>2, <5>2
      <4> QED BY <4>1, <4>2
    <3> QED BY <3>3, <3>4
  <2> QED BY <2>1, <2>2, <2>3
<1>5. ASSUME NEW x \in 1..k PROVE u[x] = (v \o w)[x]
  <2>1. CASE x <= b
    <3>1. x \in 1..b
      BY <2>1
    <3>2. u[x] = p[x] /\ v[x] = q[x] /\ p[x] = q[x]
      BY <1>0, <1>1, <1>2, <3>1
    <3> QED BY <1>4, <2>1, <3>2
  <2>2. CASE ~(x <= b)
    <3>1. PICK j \in 1..m : x = b + j /\ x - b = j
      <4>1. x - b \in 1..m /\ x = b + (x - b)
        BY <2>2
      <4> QED BY <4>1
    <3> QED BY <1>0, <1>1, <1>3, <1>4, <2>2, <3>1
  <2> QED BY <2>1, <2>2
<1>6. u = v \o w
  BY <1>1, <1>4, <1>5
<1> QED BY <1>6 DEF u, v, w, AcceptedFrom, Joined

(* What a commit makes of a cache: of the round's tokens those of the      *)
(* accepted path remain.                                                   *)
AcceptedTokens(c, entry) ==
  [j \in 1..Len(Accepted(entry)) |-> Contents(c, entry.seq)[Before(c, entry) + Accepted(entry)[j] + 1]]
CommittedOne(c, d, entry) ==
  Contents(d, entry.seq) = SubSeq(Contents(c, entry.seq), 1, Before(c, entry)) \o AcceptedTokens(c, entry)
HasCommitted(c, d, r) ==
  /\ DOMAIN d.kv = Page /\ SeqIds(d) = SeqIds(c)
  /\ \A s \in SeqIds(c) : (\A i \in DOMAIN r : r[i].seq # s) => Contents(d, s) = Contents(c, s)
  /\ \A i \in DOMAIN r : CommittedOne(c, d, r[i])
LEMMA CommittedContents ==
  ASSUME NEW c, Whole(c, {}), DOMAIN c.kv = Page, NEW r, TreeDue(c, r), Uniform(r)
  PROVE  HasCommitted(c, Committed(c, r), r)
<1>1. PICK m, d : d = Committed(c, r) /\ HasMoved(c, m, r) /\ RoundDue(m, r) /\ StillFirst(m, r, d, Len(r))
  BY CommittedPops
<1>2. /\ Whole(m, {}) /\ DOMAIN m.kv = Page /\ SeqIds(m) = SeqIds(c) /\ m.seq_map = c.seq_map /\ m.pool = c.pool
      /\ \A s \in SeqIds(c) : (\A i \in DOMAIN r : r[i].seq # s) => Contents(m, s) = Contents(c, s)
      /\ \A i \in DOMAIN r : InFrontNow(c, m, r[i])
  BY <1>1 DEF HasMoved
<1>3. /\ StillDue(m, r, d, Len(r)) /\ DOMAIN d.kv = Page
      /\ \A s \in SeqIds(m) : (\A j \in 1..Len(r) : r[j].seq # s) => Contents(d, s) = Contents(m, s)
      /\ \A j \in 1..Len(r) : Contents(d, r[j].seq) =
           SubSeq(Contents(m, r[j].seq), 1, m.seq_map[r[j].seq].seq_length - Rejected(r[j]))
  BY <1>1 DEF StillFirst
<1>4. SeqIds(d) = SeqIds(c) /\ DOMAIN r = 1..Len(r)
  BY <1>1, <1>2, <1>3 DEF StillDue, RoundDue
<1>5. Structured(c) /\ Ended(c) /\ Structured(m) /\ Ended(m)
  BY <1>2, WholeParts
<1>6. ASSUME NEW i \in DOMAIN r PROVE CommittedOne(c, d, r[i])
  <2>1. PICK n, k : IsEntry(c, r[i], n, k)
    BY <1>5, EntryFacts
  <2>2. PICK e, s, a, b : e = r[i] /\ s = e.seq /\ a = Accepted(e) /\ b = Before(c, e)
    OBVIOUS
  <2>3. PICK p, q, l : p = Contents(m, s) /\ q = Contents(c, s) /\ l = c.seq_map[s].seq_length
    OBVIOUS
  <2>4. /\ s \in SeqIds(c) /\ n \in Nat /\ k \in Nat /\ k <= n /\ n = Len(e.parents) /\ k = Len(a)
        /\ b + n = l /\ DOMAIN a = 1..k /\ \A j \in 1..k : a[j] \in 0..(n - 1)
    BY <2>1, <2>2, <2>3 DEF IsEntry
  <2>5. b \in Nat
    <3>1. PICK x, y : x \in Nat /\ y \in Nat /\ b = x + y
      BY <2>1, <2>2 DEF IsEntry
    <3> QED BY <3>1
  <2>6. Rejected(e) = n - k
    BY <2>2, <2>4 DEF Rejected
  <2>7. Contents(d, s) = SubSeq(p, 1, b + k)
    <3>1. Contents(d, s) = SubSeq(p, 1, l - (n - k))
      BY <1>2, <1>3, <1>4, <2>2, <2>3, <2>6
    <3>2. l - (n - k) = b + k
      BY <2>4, <2>5
    <3> QED BY <3>1, <3>2
  <2>8. /\ \A x \in 1..b : p[x] = q[x]
        /\ \A j \in 1..k : p[b + j] = q[b + a[j] + 1]
    BY <1>2, <2>2, <2>3, <2>4 DEF InFrontNow
  <2>9. \A j \in 1..k : b + a[j] + 1 \in 1..l
    BY <2>4, <2>5
  <2>10. PICK V : p \in Seq(V) /\ q \in Seq(V)
    <3>1. s \in SeqIds(m)
      BY <1>2, <2>4
    <3>2. PICK V1 : p \in Seq(V1)
      BY <1>5, <2>3, <3>1, ContentsType
    <3>3. PICK V2 : q \in Seq(V2)
      BY <1>5, <2>3, <2>4, ContentsType
    <3>4. p \in Seq(V1 \cup V2) /\ q \in Seq(V1 \cup V2)
      BY <3>2, <3>3
    <3> QED BY <3>4
  <2>11. Len(p) = l /\ Len(q) = l /\ l \in Nat
    <3>1. s \in SeqIds(m) /\ m.seq_map[s].seq_length = l
      BY <1>2, <2>3, <2>4
    <3> QED BY <1>5, <2>3, <2>4, <3>1, ContentsType
  <2>12. PICK z : z = b + k /\ z <= Len(q)
    BY <2>4, <2>5, <2>11
  <2>13. SubSeq(p, 1, z) = SubSeq(q, 1, b) \o AcceptedFrom(q, b, k, a)
    <3>1. Len(p) = Len(q)
      BY <2>11
    <3>2. \A x \in 1..b : p[x] = q[x]
      BY <2>8
    <3>3. \A j \in 1..k : b + a[j] + 1 \in 1..Len(q) /\ p[b + j] = q[b + a[j] + 1]
      BY <2>8, <2>9, <2>11
    <3>4. MovedUp(p, q, b, k, a)
      BY <3>2, <3>3 DEF MovedUp
    <3>5. p \in Seq(V) /\ q \in Seq(V) /\ b \in Nat /\ k \in Nat /\ z = b + k /\ z <= Len(q)
      BY <2>4, <2>5, <2>10, <2>12
    <3>6. Joined(p, q, b, k, a, z)
      BY ONLY <3>1, <3>4, <3>5, AcceptedJoin
    <3> QED BY <3>6 DEF Joined
  <2>14. AcceptedTokens(c, e) = AcceptedFrom(q, b, k, a)
    BY <2>2, <2>3, <2>4 DEF AcceptedTokens, AcceptedFrom
  <2> QED BY <2>2, <2>3, <2>7, <2>12, <2>13, <2>14 DEF CommittedOne
<1>7. ASSUME NEW s \in SeqIds(c), \A i \in DOMAIN r : r[i].seq # s PROVE Contents(d, s) = Contents(c, s)
  BY <1>2, <1>3, <1>4, <1>7
<1>8. HasCommitted(c, d, r)
  BY <1>3, <1>4, <1>6, <1>7 DEF HasCommitted
<1> QED BY <1>1, <1>8

-----------------------------------------------------------------------------
(* What the store sees.                                                    *)

AllOf(c)     == [s \in SeqIds(c) |-> Contents(c, s)]
NoWindows(c) == [s \in SeqIds(c) |-> NoWindow]

(* A cache in a state the calls leave it in.                               *)
Sound(c) == Whole(c, {}) /\ SeqIds(c) \subseteq SeqId /\ DOMAIN c.kv = Page

(* Before and after a step the store is what the cache makes of it.        *)
Mapped ==
  /\ contents = AllOf(cache) /\ contents' = AllOf(cache')
  /\ StoreWindow = NoWindows(cache) /\ StoreWindow' = NoWindows(cache')

(* The contents of the sequences of the cache, as a function.              *)
LEMMA AllOfAt ==
  ASSUME NEW c
  PROVE  /\ DOMAIN AllOf(c) = SeqIds(c) /\ DOMAIN NoWindows(c) = SeqIds(c)
         /\ \A s \in SeqIds(c) : AllOf(c)[s] = Contents(c, s) /\ NoWindows(c)[s] = NoWindow
BY DEF AllOf, NoWindows

(* The store with one more sequence.                                       *)
LEMMA PutOne ==
  ASSUME NEW c, NEW d, NEW s, SeqIds(d) = SeqIds(c) \cup {s}, s \notin SeqIds(c), ContentsKept(c, d, SeqIds(c))
  PROVE  /\ AllOf(d) = Store!Set(AllOf(c), s, Contents(d, s))
         /\ NoWindows(d) = Store!Set(NoWindows(c), s, NoWindow)
BY DEF AllOf, NoWindows, Store!Set, ContentsKept
(* Without one.                                                            *)
LEMMA DropOne ==
  ASSUME NEW c, NEW d, NEW s, SeqIds(d) = SeqIds(c) \ {s}, ContentsKept(c, d, SeqIds(c) \ {s})
  PROVE  /\ AllOf(d) = Store!Unset(AllOf(c), s)
         /\ NoWindows(d) = Store!Unset(NoWindows(c), s)
BY DEF AllOf, NoWindows, Store!Unset, ContentsKept
(* With one that is different.                                             *)
LEMMA ChangeOne ==
  ASSUME NEW c, NEW d, NEW s \in SeqIds(c), SeqIds(d) = SeqIds(c), ContentsKept(c, d, SeqIds(c) \ {s})
  PROVE  /\ AllOf(d) = [AllOf(c) EXCEPT ![s] = Contents(d, s)]
         /\ NoWindows(d) = NoWindows(c)
BY DEF AllOf, NoWindows, ContentsKept

(* Nothing is asked of the windows: there are none.                        *)
LEMMA WindowsNone ==
  ASSUME Sound(cache)
  PROVE  StoreWindow = NoWindows(cache)
<1>1. \A s \in SeqIds(cache) : cache.seq_map[s].sliding_window_size = NoWindow.size
  BY DEF Sound, Whole, Structured, Typed, SequenceType
<1> QED BY <1>1 DEF StoreWindow, NoWindows

(* AddSequence.                                                            *)
LEMMA StoreAdds ==
  ASSUME Mapped, StoreTrees' = StoreTrees, NEW s \in SeqId \ SeqIds(cache), Sound(cache), cache' = Added(cache, s)
  PROVE  Store!Next
<1>1. /\ SeqIds(cache') = SeqIds(cache) \cup {s} /\ s \notin SeqIds(cache)
      /\ Contents(cache', s) = <<>> /\ ContentsKept(cache, cache', SeqIds(cache))
  BY AddedContents DEF Sound
<1>2. /\ AllOf(cache') = Store!Set(AllOf(cache), s, <<>>)
      /\ NoWindows(cache') = Store!Set(NoWindows(cache), s, NoWindow)
  BY <1>1, PutOne
<1>3. DOMAIN contents = SeqIds(cache)
  BY AllOfAt DEF Mapped
<1>4. Store!Add(s)
  BY <1>2, <1>3 DEF Mapped, Store!Add, Store!Live
<1> QED BY <1>3, <1>4 DEF Store!Next, Store!Live

(* RemoveSequence.                                                         *)
LEMMA StoreRemoves ==
  ASSUME Mapped, StoreTrees' = StoreTrees, NEW s \in SeqIds(cache), Sound(cache), cache' = Removed(cache, s)
  PROVE  Store!Next
<1>1. SeqIds(cache') = SeqIds(cache) \ {s} /\ ContentsKept(cache, cache', SeqIds(cache) \ {s})
  BY RemovedContents DEF Sound
<1>2. /\ AllOf(cache') = Store!Unset(AllOf(cache), s)
      /\ NoWindows(cache') = Store!Unset(NoWindows(cache), s)
  BY <1>1, DropOne
<1>3. DOMAIN contents = SeqIds(cache)
  BY AllOfAt DEF Mapped
<1>4. Store!Remove(s)
  BY <1>2 DEF Mapped, Store!Remove
<1> QED BY <1>3, <1>4 DEF Store!Next, Store!Live

(* A sequence of the cache, as the store sees it.                          *)
LEMMA StoreAt ==
  ASSUME Mapped, Sound(cache), NEW s \in SeqIds(cache)
  PROVE  /\ DOMAIN contents = SeqIds(cache) /\ contents[s] = Contents(cache, s)
         /\ Len(contents[s]) = cache.seq_map[s].seq_length /\ cache.seq_map[s].seq_length \in Nat
         /\ DOMAIN contents[s] = 1..cache.seq_map[s].seq_length
         /\ StoreWindow[s] = NoWindow
<1>1. Structured(cache) /\ Ended(cache)
  BY WholeParts DEF Sound
<1>2. /\ Len(Contents(cache, s)) = cache.seq_map[s].seq_length /\ cache.seq_map[s].seq_length \in Nat
      /\ DOMAIN Contents(cache, s) = 1..cache.seq_map[s].seq_length
  BY <1>1, ContentsType
<1>3. DOMAIN contents = SeqIds(cache) /\ contents[s] = Contents(cache, s) /\ StoreWindow[s] = NoWindow
  BY AllOfAt DEF Mapped
<1> QED BY <1>2, <1>3

(* ForkSequence.                                                           *)
LEMMA StoreForks ==
  ASSUME Mapped, StoreTrees' = StoreTrees, NEW s \in SeqIds(cache), Sound(cache), Room(cache),
         NEW child \in SeqId \ SeqIds(cache), NEW pos \in Nat, pos <= cache.seq_map[s].seq_length,
         ForkFits(ReadyToFork(cache, s, pos), pos), cache' = Forked(cache, s, child, pos)
  PROVE  Store!Next
<1>1. PICK d : d = cache'
  OBVIOUS
<1>2. /\ SeqIds(d) = SeqIds(cache) \cup {child} /\ child \notin SeqIds(cache)
      /\ Contents(d, child) = SubSeq(Contents(cache, s), 1, pos) /\ ContentsKept(cache, d, SeqIds(cache))
  <2>1. Whole(cache, {}) /\ DOMAIN cache.kv = Page /\ child \in SeqId \cup {TempSeq} /\ child \notin SeqIds(cache)
    BY DEF Sound
  <2>2. d = Forked(cache, s, child, pos)
    BY <1>1
  <2> QED BY <2>1, <2>2, ForkedContents
<1>3. /\ AllOf(d) = Store!Set(AllOf(cache), child, Contents(d, child))
      /\ NoWindows(d) = Store!Set(NoWindows(cache), child, NoWindow)
  BY <1>2, PutOne
<1>4. /\ DOMAIN contents = SeqIds(cache) /\ contents[s] = Contents(cache, s)
      /\ pos \in 0..Len(contents[s])
  BY StoreAt
<1>5. Store!Fork(s, child, pos)
  BY <1>1, <1>2, <1>3, <1>4 DEF Mapped, Store!Fork, Store!Live
<1> QED BY <1>4, <1>5 DEF Store!Next, Store!Live

(* PopN.                                                                   *)
LEMMA StorePops ==
  ASSUME Mapped, StoreTrees' = StoreTrees, NEW s \in SeqIds(cache), Sound(cache),
         NEW n \in Nat, n > 0, n <= cache.seq_map[s].seq_length, PopFits(cache, s, n), cache' = Popped(cache, s, n)
  PROVE  Store!Next
<1>1. PICK d : d = cache'
  OBVIOUS
<1>2. /\ SeqIds(d) = SeqIds(cache)
      /\ Contents(d, s) = SubSeq(Contents(cache, s), 1, cache.seq_map[s].seq_length - n)
      /\ ContentsKept(cache, d, SeqIds(cache) \ {s})
  BY <1>1, PoppedContents DEF Sound
<1>3. /\ AllOf(d) = [AllOf(cache) EXCEPT ![s] = Contents(d, s)]
      /\ NoWindows(d) = NoWindows(cache)
  BY <1>2, ChangeOne
<1>4. /\ DOMAIN contents = SeqIds(cache) /\ contents[s] = Contents(cache, s)
      /\ Len(contents[s]) = cache.seq_map[s].seq_length /\ n \in 1..Len(contents[s])
  BY StoreAt
<1>5. contents' = [contents EXCEPT ![s] = SubSeq(contents[s], 1, Len(contents[s]) - n)]
  BY <1>1, <1>2, <1>3, <1>4 DEF Mapped
<1>6. Store!Pop(s, n)
  BY <1>1, <1>3, <1>5 DEF Mapped, Store!Pop
<1> QED BY <1>4, <1>6 DEF Store!Next, Store!Live

(* DebugSetKV.                                                             *)
LEMMA StoreOverwrites ==
  ASSUME Mapped, StoreTrees' = StoreTrees, NEW s \in SeqIds(cache), Sound(cache), Sound(cache'),
         NEW start \in Nat, NEW n \in 1..MaxAppend, start + n <= cache.seq_map[s].seq_length,
         Replaces(cache, cache', s, start, n)
  PROVE  Store!Next
<1>1. PICK d : d = cache'
  OBVIOUS
<1>2. /\ SeqIds(d) = SeqIds(cache) /\ d.seq_map = cache.seq_map /\ Sound(d)
      /\ ContentsKept(cache, d, SeqIds(cache) \ {s})
      /\ \A p \in 1..cache.seq_map[s].seq_length : p \notin (start + 1)..(start + n) => Contents(d, s)[p] = Contents(cache, s)[p]
  BY <1>1 DEF Replaces
<1>3. /\ DOMAIN contents = SeqIds(cache) /\ contents[s] = Contents(cache, s)
      /\ Len(contents[s]) = cache.seq_map[s].seq_length /\ cache.seq_map[s].seq_length \in Nat
      /\ DOMAIN contents[s] = 1..cache.seq_map[s].seq_length
  BY StoreAt
<1>4. /\ DOMAIN contents' = SeqIds(cache) /\ contents'[s] = Contents(d, s)
      /\ \A x \in SeqIds(cache) : x # s => contents'[x] = contents[x]
  <2>1. contents' = AllOf(d) /\ contents = AllOf(cache)
    BY <1>1 DEF Mapped
  <2> QED BY <1>2, <2>1, AllOfAt DEF ContentsKept
<1>5. DOMAIN contents'[s] = DOMAIN contents[s]
  <2>1. Structured(d) /\ Ended(d)
    BY <1>2, WholeParts DEF Sound
  <2>2. DOMAIN Contents(d, s) = 1..d.seq_map[s].seq_length
    BY <1>2, <2>1, ContentsType
  <2> QED BY <1>2, <1>3, <1>4, <2>2
<1>6. StoreWindow' = StoreWindow
  <2>1. NoWindows(d) = NoWindows(cache)
    BY <1>2, ChangeOne
  <2> QED BY <1>1, <2>1 DEF Mapped
<1>7. \A i \in DOMAIN contents[s] : i \notin start + 1..start + n => contents'[s][i] = contents[s][i]
  BY <1>2, <1>3, <1>4
<1>8. Store!Overwrite(s, start, n)
  BY <1>3, <1>4, <1>5, <1>6, <1>7 DEF Store!Overwrite, Store!Live
<1>9. start \in 0..Len(contents[s])
  <2>1. PICK l \in Nat : l = Len(contents[s]) /\ start + n <= l
    BY <1>3
  <2>2. n \in Nat
    BY BoundAssumption
  <2> QED BY <2>1, <2>2
<1> QED BY <1>3, <1>8, <1>9 DEF Store!Next, Store!Live

-----------------------------------------------------------------------------
(* Rounds.                                                                 *)

(* A sequence is its beginning and the n tokens behind that.               *)
Following(q, l, n) == [i \in 1..n |-> q[l + i]]
LEMMA BehindJoin ==
  ASSUME NEW V, NEW q \in Seq(V), NEW l \in Nat, NEW n \in Nat, Len(q) = l + n
  PROVE  /\ Following(q, l, n) \in [1..n -> {q[x] : x \in DOMAIN q}]
         /\ SubSeq(q, 1, l) \o Following(q, l, n) = q
<1> DEFINE t == Following(q, l, n)
           p == SubSeq(q, 1, l)
<1>1. \A i \in 1..n : l + i \in DOMAIN q
  OBVIOUS
<1>2. t \in [1..n -> {q[x] : x \in DOMAIN q}]
  BY <1>1 DEF Following
<1>3. t \in Seq(V) /\ Len(t) = n /\ \A i \in 1..n : t[i] = q[l + i]
  BY <1>1 DEF Following
<1>4. p \in Seq(V) /\ Len(p) = l /\ \A i \in 1..l : p[i] = q[i]
  OBVIOUS
<1> HIDE DEF t, p
<1>5. p \o t \in Seq(V) /\ Len(p \o t) = Len(p) + Len(t)
  BY <1>3, <1>4
<1>6. \A i \in 1..(Len(p) + Len(t)) : (p \o t)[i] = IF i <= Len(p) THEN p[i] ELSE t[i - Len(p)]
  <2>1. p \in Seq(V) /\ t \in Seq(V)
    BY <1>3, <1>4
  <2> QED BY ONLY <2>1
<1>7. ASSUME NEW i \in 1..(l + n) PROVE (p \o t)[i] = q[i]
  <2>1. (p \o t)[i] = IF i <= l THEN p[i] ELSE t[i - l]
    BY <1>3, <1>4, <1>6
  <2>2. CASE i <= l
    <3>1. i \in 1..l
      BY <2>2
    <3> QED BY <1>4, <2>1, <2>2, <3>1
  <2>3. CASE ~(i <= l)
    <3>1. i - l \in 1..n /\ l + (i - l) = i
      BY <2>3
    <3> QED BY <1>3, <2>1, <2>3, <3>1
  <2> QED BY <2>2, <2>3
<1>8. p \o t = q
  <2>1. Len(p \o t) = l + n
    BY <1>3, <1>4, <1>5
  <2>2. PICK r, k : r = p \o t /\ k = l + n
    OBVIOUS
  <2>3. r \in Seq(V) /\ Len(r) = k /\ q \in Seq(V) /\ Len(q) = k /\ \A i \in 1..k : r[i] = q[i]
    BY <1>5, <1>7, <2>1, <2>2
  <2>4. r = q
    BY ONLY <2>3
  <2> QED BY <2>2, <2>4
<1> QED BY <1>2, <1>8 DEF t, p

(* A sequence of a round, as the store sees it.                            *)
LEMMA StoreExtended ==
  ASSUME Mapped, Sound(cache), Sound(cache'), NEW s \in SeqIds(cache), SeqIds(cache') = SeqIds(cache),
         NEW n \in Nat, Extends(cache, cache', s, n)
  PROVE  Store!Extended(s, n)
<1>1. PICK d, l, p, q : d = cache' /\ l = cache.seq_map[s].seq_length /\ p = Contents(cache, s) /\ q = Contents(d, s)
  OBVIOUS
<1>2. d.seq_map[s].seq_length = l + n /\ SubSeq(q, 1, l) = p
  BY <1>1 DEF Extends
<1>3. contents[s] = p /\ l \in Nat /\ StoreWindow[s] = NoWindow
  BY <1>1, StoreAt
<1>4. contents'[s] = q
  <2>1. contents' = AllOf(d) /\ s \in SeqIds(d)
    BY <1>1 DEF Mapped
  <2> QED BY <1>1, <2>1, AllOfAt
<1>5. PICK V : q \in Seq(V) /\ Len(q) = l + n
  <2>1. Structured(d) /\ Ended(d) /\ s \in SeqIds(d)
    BY <1>1, WholeParts DEF Sound
  <2> QED BY <1>1, <1>2, <2>1, ContentsType
<1>6. /\ Following(q, l, n) \in [1..n -> {q[x] : x \in DOMAIN q}]
      /\ SubSeq(q, 1, l) \o Following(q, l, n) = q
  BY <1>3, <1>5, BehindJoin
<1>7. PICK t : t \in [1..n -> {q[x] : x \in DOMAIN q}] /\ p \o t = q
  BY <1>2, <1>6
<1>8. Store!Slid(contents[s] \o t, StoreWindow[s]) = q
  BY <1>3, <1>7 DEF Store!Slid
<1> QED BY <1>4, <1>7, <1>8 DEF Store!Extended, Store!Range

(* A round: every sequence of the batch gets longer, no other one changes. *)
LEMMA StoreExtends ==
  ASSUME Mapped, Sound(cache), Sound(cache'), StoreTrees = <<>>, NEW batch, Len(batch) \in Nat, Len(batch) > 0,
         IsBatch(cache, batch), HasExtended(cache, cache', batch, Len(batch)),
         \/ StoreTrees' = <<>> /\ \A i \in 1..Len(batch) : batch[i].n \in 1..MaxAppend
         \/ /\ DOMAIN StoreTrees' = {batch[i].seq : i \in 1..Len(batch)}
            /\ \A i \in 1..Len(batch) : Len(StoreTrees'[batch[i].seq].parents) = batch[i].n
  PROVE  Store!Next
<1> DEFINE D == {batch[i].seq : i \in 1..Len(batch)}
<1>1. PICK d : d = cache'
  OBVIOUS
<1>2. /\ SeqIds(d) = SeqIds(cache)
      /\ \A s \in SeqIds(cache) : (\A j \in 1..Len(batch) : batch[j].seq # s) => Contents(d, s) = Contents(cache, s)
      /\ \A j \in 1..Len(batch) : Extends(cache, d, batch[j].seq, batch[j].n)
  BY <1>1 DEF HasExtended
<1>3. \A j \in 1..Len(batch) : batch[j].seq \in SeqIds(cache) /\ batch[j].n \in Nat
  BY DEF IsBatch
<1>4. contents = AllOf(cache) /\ contents' = AllOf(d) /\ StoreWindow = NoWindows(cache) /\ StoreWindow' = NoWindows(d)
  BY <1>1 DEF Mapped
<1>5. DOMAIN contents = SeqIds(cache) /\ DOMAIN contents' = SeqIds(cache)
  BY <1>2, <1>4, AllOfAt
<1>6. StoreWindow' = StoreWindow
  BY <1>2, <1>4 DEF NoWindows
<1>7. D \in (SUBSET SeqIds(cache)) \ {{}}
  <2>1. 1 \in 1..Len(batch)
    OBVIOUS
  <2> QED BY <1>3, <2>1
<1>8. \A s \in SeqIds(cache) \ D : contents'[s] = contents[s]
  BY <1>2, <1>4, AllOfAt
<1>9. ASSUME NEW j \in 1..Len(batch) PROVE Store!Extended(batch[j].seq, batch[j].n)
  <2>1. batch[j].seq \in SeqIds(cache) /\ batch[j].n \in Nat /\ Extends(cache, cache', batch[j].seq, batch[j].n)
        /\ SeqIds(cache') = SeqIds(cache)
    BY <1>1, <1>2, <1>3
  <2> QED BY <2>1, StoreExtended
<1>10. \/ StoreTrees' = <<>> /\ \A s \in D : \E n \in 1..MaxAppend : Store!Extended(s, n)
       \/ DOMAIN StoreTrees' = D /\ \A s \in D : Store!Extended(s, Len(StoreTrees'[s].parents))
  <2>1. CASE StoreTrees' = <<>> /\ \A i \in 1..Len(batch) : batch[i].n \in 1..MaxAppend
    <3>1. ASSUME NEW s \in D PROVE \E n \in 1..MaxAppend : Store!Extended(s, n)
      <4>1. PICK j \in 1..Len(batch) : s = batch[j].seq
        OBVIOUS
      <4>2. Store!Extended(s, batch[j].n) /\ batch[j].n \in 1..MaxAppend
        BY <1>9, <2>1, <4>1
      <4> QED BY <4>2
    <3> QED BY <2>1, <3>1
  <2>2. CASE /\ DOMAIN StoreTrees' = D
             /\ \A i \in 1..Len(batch) : Len(StoreTrees'[batch[i].seq].parents) = batch[i].n
    <3>1. ASSUME NEW s \in D PROVE Store!Extended(s, Len(StoreTrees'[s].parents))
      <4>1. PICK j \in 1..Len(batch) : s = batch[j].seq
        OBVIOUS
      <4> QED BY <1>9, <2>2, <4>1
    <3> QED BY <2>2, <3>1
  <2> QED BY <2>1, <2>2
<1> HIDE DEF D
<1>11. Store!Extend
  BY <1>5, <1>6, <1>7, <1>8, <1>10 DEF Store!Extend, Store!Live
<1> QED BY <1>11 DEF Store!Next

(* The trees of a round, each found by its sequence.                       *)
TreesOf(r) ==
  [s \in {r[i].seq : i \in DOMAIN r} |->
     LET entry == r[CHOOSE i \in DOMAIN r : r[i].seq = s]
     IN [parents |-> entry.parents, leaf |-> entry.leaf]]
LEMMA TreesAre == StoreTrees = TreesOf(round) /\ StoreTrees' = TreesOf(round')
BY DEF StoreTrees, TreesOf
(* No round has no trees.                                                  *)
LEMMA TreesNone == TreesOf(<<>>) = <<>>
BY DEF TreesOf
(* A sequence has the tree of its entry.                                   *)
LEMMA TreesAt ==
  ASSUME NEW r, \A i, j \in DOMAIN r : r[i].seq = r[j].seq => i = j
  PROVE  /\ DOMAIN TreesOf(r) = {r[i].seq : i \in DOMAIN r}
         /\ \A i \in DOMAIN r : /\ TreesOf(r)[r[i].seq].parents = r[i].parents
                                /\ TreesOf(r)[r[i].seq].leaf = r[i].leaf
<1>1. ASSUME NEW i \in DOMAIN r
      PROVE  TreesOf(r)[r[i].seq] = [parents |-> r[i].parents, leaf |-> r[i].leaf]
  <2>1. (CHOOSE j \in DOMAIN r : r[j].seq = r[i].seq) = i
    OBVIOUS
  <2>2. r[i].seq \in {r[j].seq : j \in DOMAIN r}
    OBVIOUS
  <2> QED BY <2>1, <2>2, Zenon DEF TreesOf
<1> QED BY <1>1 DEF TreesOf

(* An entry of the round, as the store commits it.                         *)
LEMMA StoreAccepted ==
  ASSUME Mapped, Sound(cache), TreeDue(cache, round), NEW i \in DOMAIN round, NEW s, s = round[i].seq,
         NEW d, CommittedOne(cache, d, round[i])
  PROVE  /\ s \in DOMAIN StoreTrees /\ s \in SeqIds(cache)
         /\ LET before == Len(contents[s]) - Len(StoreTrees[s].parents)
                tail   == SubSeq(contents[s], before + 1, Len(contents[s]))
            IN Contents(d, s) = SubSeq(contents[s], 1, before)
                                \o Store!Accepted(tail, StoreTrees[s].parents, StoreTrees[s].leaf)
<1>1. Structured(cache) /\ Ended(cache)
  BY WholeParts DEF Sound
<1>2. PICK e, n, k : e = round[i] /\ IsEntry(cache, e, n, k)
  BY <1>1, EntryFacts
<1>3. PICK q, a, b, l : q = Contents(cache, s) /\ a = Accepted(e) /\ b = Before(cache, e) /\ l = cache.seq_map[s].seq_length
  OBVIOUS
<1>4. /\ s \in SeqIds(cache) /\ n \in Nat /\ k \in Nat /\ k <= n /\ n = Len(e.parents) /\ k = Len(a)
      /\ b + n = l /\ DOMAIN a = 1..k /\ \A j \in 1..k : a[j] \in 0..(n - 1)
  BY <1>2, <1>3 DEF IsEntry
<1>5. b \in Nat
  <2>1. PICK x, y : x \in Nat /\ y \in Nat /\ b = x + y
    BY <1>2, <1>3 DEF IsEntry
  <2> QED BY <2>1
<1>6. /\ StoreTrees = TreesOf(round) /\ s \in DOMAIN StoreTrees
      /\ StoreTrees[s].parents = e.parents /\ StoreTrees[s].leaf = e.leaf
  <2>1. \A x, y \in DOMAIN round : round[x].seq = round[y].seq => x = y
    BY DEF TreeDue, RoundDue
  <2>2. /\ DOMAIN TreesOf(round) = {round[x].seq : x \in DOMAIN round}
        /\ \A x \in DOMAIN round : /\ TreesOf(round)[round[x].seq].parents = round[x].parents
                                    /\ TreesOf(round)[round[x].seq].leaf = round[x].leaf
    BY <2>1, TreesAt
  <2>3. StoreTrees = TreesOf(round)
    BY TreesAre
  <2> QED BY <1>2, <2>2, <2>3
<1>7. contents[s] = q /\ Len(q) = l /\ l \in Nat
  BY <1>3, <1>4, StoreAt
<1>8. PICK V : q \in Seq(V)
  BY <1>1, <1>3, <1>4, ContentsType
<1>9. Store!Way(e.parents, e.leaf) = a
  <2>1. e.parents \in Forests /\ e.leaf \in -1..(Len(e.parents) - 1)
    BY <1>2 DEF TreeDue, RoundDue, Due
  <2> QED BY <1>3, <2>1, StoreWay DEF Accepted
<1>10. PICK t : t = SubSeq(q, b + 1, l)
  OBVIOUS
<1>11. \A x \in 0..(n - 1) : t[x + 1] = q[b + x + 1]
  BY <1>4, <1>5, <1>7, <1>8, <1>10
<1>12. Store!Accepted(t, e.parents, e.leaf) = AcceptedTokens(cache, e)
  <2>1. Store!Accepted(t, e.parents, e.leaf) = [j \in 1..k |-> t[a[j] + 1]]
    BY <1>4, <1>9 DEF Store!Accepted
  <2>2. AcceptedTokens(cache, e) = [j \in 1..k |-> q[b + a[j] + 1]]
    BY <1>2, <1>3, <1>4 DEF AcceptedTokens
  <2>3. \A j \in 1..k : t[a[j] + 1] = q[b + a[j] + 1]
    BY <1>4, <1>11
  <2> QED BY <2>1, <2>2, <2>3
<1>13. Contents(d, s) = SubSeq(q, 1, b) \o AcceptedTokens(cache, e)
  BY <1>2, <1>3 DEF CommittedOne
<1>14. Len(contents[s]) - Len(StoreTrees[s].parents) = b /\ Len(contents[s]) = l
  BY <1>4, <1>5, <1>6, <1>7
<1> QED BY <1>4, <1>6, <1>7, <1>10, <1>12, <1>13, <1>14, Zenon

(* CommitAcceptedTokenTreeNodes.                                           *)
LEMMA StoreCommits ==
  ASSUME Mapped, Sound(cache), TreeDue(cache, round), Len(round) > 0, Uniform(round),
         cache' = Committed(cache, round), round' = <<>>
  PROVE  Store!Next
<1>1. PICK d : d = cache' /\ HasCommitted(cache, d, round)
  BY CommittedContents DEF Sound
<1>2. /\ SeqIds(d) = SeqIds(cache)
      /\ \A s \in SeqIds(cache) : (\A i \in DOMAIN round : round[i].seq # s) => Contents(d, s) = Contents(cache, s)
      /\ \A i \in DOMAIN round : CommittedOne(cache, d, round[i])
  BY <1>1 DEF HasCommitted
<1>3. contents = AllOf(cache) /\ contents' = AllOf(d) /\ StoreWindow = NoWindows(cache) /\ StoreWindow' = NoWindows(d)
  BY <1>1 DEF Mapped
<1>4. DOMAIN contents = SeqIds(cache) /\ StoreWindow' = StoreWindow
  BY <1>2, <1>3, AllOfAt DEF NoWindows
<1>5. DOMAIN StoreTrees = {round[i].seq : i \in DOMAIN round} /\ StoreTrees' = <<>>
  BY TreesAre, TreesAt, TreesNone DEF TreeDue, RoundDue
<1>6. StoreTrees # <<>>
  <2>1. 1 \in DOMAIN round
    BY DEF TreeDue, RoundDue
  <2>2. round[1].seq \in DOMAIN StoreTrees
    BY <1>5, <2>1
  <2>3. DOMAIN <<>> = {}
    OBVIOUS
  <2> QED BY <2>2, <2>3, Zenon
<1>7. ASSUME NEW s \in SeqIds(cache)
      PROVE  Contents(d, s) =
               IF s \notin DOMAIN StoreTrees THEN contents[s]
               ELSE LET before == Len(contents[s]) - Len(StoreTrees[s].parents)
                        tail   == SubSeq(contents[s], before + 1, Len(contents[s]))
                    IN SubSeq(contents[s], 1, before)
                       \o Store!Accepted(tail, StoreTrees[s].parents, StoreTrees[s].leaf)
  <2>1. CASE s \notin DOMAIN StoreTrees
    BY <1>2, <1>3, <1>5, <2>1, AllOfAt
  <2>2. CASE s \in DOMAIN StoreTrees
    <3>1. PICK i \in DOMAIN round : s = round[i].seq
      BY <1>5, <2>2
    <3>2. CommittedOne(cache, d, round[i])
      BY <1>2
    <3>3. LET before == Len(contents[s]) - Len(StoreTrees[s].parents)
              tail   == SubSeq(contents[s], before + 1, Len(contents[s]))
          IN Contents(d, s) = SubSeq(contents[s], 1, before)
                              \o Store!Accepted(tail, StoreTrees[s].parents, StoreTrees[s].leaf)
      BY <3>1, <3>2, StoreAccepted, Zenon
    <3> QED BY <2>2, <3>3, Zenon
  <2> QED BY <2>1, <2>2
<1>8. contents' = [s \in SeqIds(cache) |->
                     IF s \notin DOMAIN StoreTrees THEN contents[s]
                     ELSE LET before == Len(contents[s]) - Len(StoreTrees[s].parents)
                              tail   == SubSeq(contents[s], before + 1, Len(contents[s]))
                          IN SubSeq(contents[s], 1, before)
                             \o Store!Accepted(tail, StoreTrees[s].parents, StoreTrees[s].leaf)]
  BY <1>2, <1>3, <1>7, Zenon DEF AllOf
<1>9. Store!Commit
  BY <1>4, <1>5, <1>6, <1>8, Zenon DEF Store!Commit, Store!Live
<1> QED BY <1>9 DEF Store!Next

-----------------------------------------------------------------------------
(* The invariant and the steps.                                            *)

(* The structure, and what of the contents depends on the history: the     *)
(* slots of a round are still the last ones of their blocks.               *)
StoreInvariant ==
  /\ StructureInvariant
  /\ DOMAIN cache.kv = Page
  /\ TreeDue(cache, round)
  /\ round = <<>> \/ Len(round) > 0
  /\ contents = AllContents

(* A round of trees whose last one is a chain consists of chains.          *)
UniformRound == round # <<>> => Uniform(round)

(* What the invariant says of the cache.                                   *)
LEMMA InvariantSays ==
  ASSUME StoreInvariant
  PROVE  /\ Sound(cache) /\ TreeDue(cache, round) /\ contents = AllOf(cache) /\ StoreWindow = NoWindows(cache)
         /\ round = <<>> \/ Len(round) > 0
<1>1. Sound(cache) /\ TreeDue(cache, round) /\ (round = <<>> \/ Len(round) > 0)
  BY DEF StoreInvariant, StructureInvariant, Sound
<1>2. contents = AllOf(cache)
  BY DEF StoreInvariant, AllContents, AllOf
<1> QED BY <1>1, <1>2, WindowsNone

(* No tree is due when no round is.                                        *)
LEMMA NoTreeDue == ASSUME NEW c PROVE TreeDue(c, <<>>)
BY NoRoundDue DEF TreeDue

(* And what it says of the next state.                                     *)
Shown == contents = AllOf(cache) /\ StoreWindow = NoWindows(cache)
LEMMA InvariantSaysNext == StoreInvariant' => contents' = AllOf(cache') /\ StoreWindow' = NoWindows(cache')
<1>1. StoreInvariant => Shown
  BY InvariantSays DEF Shown
<1>2. StoreInvariant' => Shown'
  BY <1>1, PTL
<1> QED BY <1>2 DEF Shown

(* What is left to show of a step.                                         *)
LEMMA InvariantNext ==
  ASSUME Sound(cache'), TreeDue(cache', round'), round' = <<>> \/ Len(round') > 0, contents' = AllContents'
  PROVE  StoreInvariant' /\ contents' = AllOf(cache') /\ StoreWindow' = NoWindows(cache')
<1>1. StructureInvariant'
  BY DEF StructureInvariant, Sound, TreeDue
<1>2. StoreInvariant'
  BY <1>1 DEF StoreInvariant, Sound
<1> QED BY <1>2, InvariantSaysNext

(* A call that returns.                                                    *)
LEMMA StoreReturns ==
  ASSUME StoreInvariant, Ready, NEW c, Sound(c), Returns(c), contents' = AllContents'
  PROVE  /\ StoreInvariant' /\ Mapped /\ Sound(cache) /\ cache' = c /\ Sound(cache')
         /\ StoreTrees = <<>> /\ StoreTrees' = <<>>
<1>1. cache' = c /\ round' = <<>> /\ round = <<>>
  BY DEF Ready, Returns
<1>2. Sound(cache) /\ contents = AllOf(cache) /\ StoreWindow = NoWindows(cache)
  BY InvariantSays
<1>3. Sound(cache') /\ TreeDue(cache', round')
  BY <1>1, NoTreeDue
<1>4. StoreInvariant' /\ contents' = AllOf(cache') /\ StoreWindow' = NoWindows(cache')
  BY <1>1, <1>3, InvariantNext
<1>5. StoreTrees = <<>> /\ StoreTrees' = <<>>
  BY <1>1, TreesAre, TreesNone
<1> QED BY <1>1, <1>2, <1>3, <1>4, <1>5 DEF Mapped

(* A call that throws, or no call.                                         *)
LEMMA StoreStutters ==
  ASSUME StoreInvariant, UNCHANGED <<cache, round>>, contents' = AllContents'
  PROVE  StoreInvariant' /\ UNCHANGED Store!svars
<1>1. /\ Sound(cache) /\ TreeDue(cache, round) /\ contents = AllOf(cache)
      /\ round = <<>> \/ Len(round) > 0
  BY InvariantSays
<1>2. StoreInvariant' /\ contents' = AllOf(cache')
  <2>1. Sound(cache') /\ TreeDue(cache', round') /\ (round' = <<>> \/ Len(round') > 0)
    BY <1>1
  <2> QED BY <2>1, InvariantNext
<1>3. contents' = contents
  BY <1>1, <1>2
<1>4. StoreWindow' = StoreWindow /\ StoreTrees' = StoreTrees
  BY DEF StoreWindow, StoreTrees, SinkSize, LastBlock
<1> QED BY <1>2, <1>3, <1>4 DEF Store!svars

(* A step of the cache is one of the store, or none.                       *)
Implements == StoreInvariant' /\ (Store!Next \/ UNCHANGED Store!svars)

(* A round without trees.                                                  *)
LEMMA StoreRounds ==
  ASSUME ~support_sliding_window, StoreInvariant, Ready, contents' = AllContents',
         NEW batch, IsBatch(cache, batch), Distinct(batch), Len(batch) > 0, \A i \in 1..Len(batch) : batch[i].n \in 1..MaxAppend,
         NEW import, NEW result, result = Forwarded(cache, batch, import),
         IF result.threw = "no" THEN Returns(result.cache) ELSE Throws(result.threw)
  PROVE  Implements
<1>1. Sound(cache) /\ round = <<>>
  BY InvariantSays DEF Ready
<1>2. CASE result.threw = "no"
  <2>1. BatchDone(cache, batch, result, Len(batch))
    BY <1>1, ForwardedContents DEF Sound
  <2>2. HasExtended(cache, result.cache, batch, Len(batch))
    BY <1>2, <2>1 DEF BatchDone
  <2>3. PICK c : c = result.cache /\ Sound(c) /\ Returns(c)
    BY <1>1, <1>2, <2>2 DEF HasExtended, Sound
  <2>4. /\ StoreInvariant' /\ Mapped /\ cache' = c /\ Sound(cache')
        /\ StoreTrees = <<>> /\ StoreTrees' = <<>>
    BY <2>3, StoreReturns
  <2>5. HasExtended(cache, cache', batch, Len(batch)) /\ Len(batch) \in Nat
    BY <2>2, <2>3, <2>4 DEF IsBatch
  <2>6. Store!Next
    BY <1>1, <2>4, <2>5, StoreExtends
  <2> QED BY <2>4, <2>6 DEF Implements
<1>3. CASE result.threw # "no"
  <2>1. UNCHANGED <<cache, round>>
    BY <1>3 DEF Throws
  <2> QED BY <2>1, StoreStutters DEF Implements
<1> QED BY <1>2, <1>3

(* A batch has sequences, and each of them tokens.                         *)
LEMMA BatchSizes ==
  ASSUME NEW batch \in Batches
  PROVE  /\ IsBatch(cache, batch) /\ Distinct(batch) /\ Len(batch) > 0 /\ DOMAIN batch = 1..Len(batch)
         /\ \A i \in 1..Len(batch) : batch[i].n \in 1..MaxAppend
<1>1. PICK k \in 1..MaxBatch :
        \E q \in Injection(1..k, SeqIds(cache)), n \in [1..k -> 1..MaxAppend] :
          batch = [i \in 1..k |-> [seq |-> q[i], n |-> n[i]]]
  BY SMTT(30) DEF Batches
<1>2. PICK q \in Injection(1..k, SeqIds(cache)), n \in [1..k -> 1..MaxAppend] :
        batch = [i \in 1..k |-> [seq |-> q[i], n |-> n[i]]]
  BY <1>1
<1>3. k \in Nat /\ k > 0
  BY BoundAssumption
<1>4. Len(batch) = k
  BY <1>2, <1>3
<1>5. \A i \in 1..k : batch[i].n \in 1..MaxAppend
  BY <1>2
<1>6. IsBatch(cache, batch) /\ Distinct(batch) /\ DOMAIN batch = 1..Len(batch)
  BY BatchFacts DEF Distinct
<1> QED BY <1>3, <1>4, <1>5, <1>6

(* A round with trees.                                                     *)
LEMMA StoreTreeRounds ==
  ASSUME ~support_sliding_window, StoreInvariant, contents' = AllContents', NEW batch \in Batches,
         NEW forests \in [DOMAIN batch -> Forests], NEW leaves \in [DOMAIN batch -> -1..(MaxAppend - 1)],
         \A i \in DOMAIN batch : Len(forests[i]) = batch[i].n /\ leaves[i] < batch[i].n,
         BeginForwardTree(batch, forests, leaves)
  PROVE  Implements
<1>1. Sound(cache) /\ contents = AllOf(cache) /\ StoreWindow = NoWindows(cache)
  BY InvariantSays
<1>2. /\ IsBatch(cache, batch) /\ Distinct(batch) /\ Len(batch) > 0 /\ Len(batch) \in Nat
      /\ DOMAIN batch = 1..Len(batch)
  BY BatchSizes DEF IsBatch
<1>3. PICK result : result = Forwarded(cache, batch, FALSE)
  OBVIOUS
<1>4. PICK r : r = [i \in DOMAIN batch |-> [seq |-> batch[i].seq, parents |-> forests[i], leaf |-> leaves[i],
                                            slots |-> result.slots[i]]]
  OBVIOUS
<1>5. IF result.threw = "no" THEN cache' = result.cache /\ round' = r ELSE Throws(result.threw)
  BY <1>3, <1>4, Zenon DEF BeginForwardTree
<1>6. Ready /\ round = <<>>
  BY DEF BeginForwardTree, Ready
<1>7. CASE result.threw = "no"
  <2>1. BatchDone(cache, batch, result, Len(batch))
    BY <1>1, <1>2, <1>3, ForwardedContents DEF Sound
  <2>2. HasExtended(cache, result.cache, batch, Len(batch)) /\ result.slots = BatchSlots(result.cache, batch, Len(batch))
    BY <1>7, <2>1 DEF BatchDone
  <2>3. HasGrown(cache, batch, result, Len(batch))
    BY <1>1, <1>2, <1>3, ForwardedWhole DEF Sound
  <2>4. PICK c : c = result.cache /\ Sound(c) /\ cache' = c /\ round' = r
    BY <1>1, <1>5, <1>7, <2>2 DEF HasExtended, Sound
  <2>5. RoundDue(c, r)
    BY <1>4, <1>7, <2>3, <2>4, TreesDue
  <2>6. /\ DOMAIN r = 1..Len(batch) /\ Len(r) = Len(batch)
        /\ \A i \in 1..Len(batch) : /\ r[i].seq = batch[i].seq /\ r[i].parents = forests[i]
                                    /\ r[i].slots = result.slots[i] /\ Len(r[i].parents) = batch[i].n
    BY <1>2, <1>4
  <2>7. TreeDue(c, r)
    <3>1. ASSUME NEW i \in DOMAIN r PROVE r[i].slots = RoundSlots(c, r[i].seq, Len(r[i].parents))
      <4>1. i \in 1..Len(batch)
        BY <2>6
      <4>2. result.slots[i] = RoundSlots(c, batch[i].seq, batch[i].n)
        BY <2>2, <2>4, <4>1 DEF BatchSlots
      <4> QED BY <2>6, <4>1, <4>2
    <3> QED BY <2>5, <3>1 DEF TreeDue
  <2>8. Sound(cache') /\ TreeDue(cache', round') /\ (round' = <<>> \/ Len(round') > 0)
    BY <1>2, <2>4, <2>6, <2>7
  <2>9. StoreInvariant' /\ contents' = AllOf(cache') /\ StoreWindow' = NoWindows(cache')
    BY <2>8, InvariantNext
  <2>10. Mapped
    BY <1>1, <2>9 DEF Mapped
  <2>11. StoreTrees = <<>> /\ StoreTrees' = TreesOf(r)
    BY <1>6, <2>4, TreesAre, TreesNone
  <2>12. /\ DOMAIN TreesOf(r) = {r[i].seq : i \in DOMAIN r}
         /\ \A i \in DOMAIN r : TreesOf(r)[r[i].seq].parents = r[i].parents
    <3>1. \A i, j \in DOMAIN r : r[i].seq = r[j].seq => i = j
      BY <2>5 DEF RoundDue
    <3> QED BY <3>1, TreesAt
  <2>13. /\ DOMAIN StoreTrees' = {batch[i].seq : i \in 1..Len(batch)}
         /\ \A i \in 1..Len(batch) : Len(StoreTrees'[batch[i].seq].parents) = batch[i].n
    <3>1. {r[i].seq : i \in DOMAIN r} = {batch[i].seq : i \in 1..Len(batch)}
      BY <2>6
    <3>2. ASSUME NEW i \in 1..Len(batch) PROVE Len(StoreTrees'[batch[i].seq].parents) = batch[i].n
      <4>1. i \in DOMAIN r /\ r[i].seq = batch[i].seq /\ Len(r[i].parents) = batch[i].n
        BY <2>6
      <4>2. TreesOf(r)[r[i].seq].parents = r[i].parents
        BY <2>12, <4>1
      <4> QED BY <2>11, <4>1, <4>2, Zenon
    <3> QED BY <2>11, <2>12, <3>1, <3>2
  <2>14. HasExtended(cache, cache', batch, Len(batch))
    BY <2>2, <2>4
  <2>15. Store!Next
    BY <1>1, <1>2, <2>8, <2>10, <2>11, <2>13, <2>14, StoreExtends
  <2> QED BY <2>9, <2>15 DEF Implements
<1>8. CASE result.threw # "no"
  <2>1. UNCHANGED <<cache, round>>
    BY <1>5, <1>8 DEF Throws
  <2> QED BY <2>1, StoreStutters DEF Implements
<1> QED BY <1>7, <1>8

(* The commit of a round.                                                  *)
LEMMA StoreCommitted ==
  ASSUME StoreInvariant, UniformRound, contents' = AllContents', CommitAcceptedTokenTreeNodes
  PROVE  Implements
<1>1. /\ Sound(cache) /\ TreeDue(cache, round) /\ contents = AllOf(cache) /\ StoreWindow = NoWindows(cache)
      /\ round = <<>> \/ Len(round) > 0
  BY InvariantSays
<1>2. round # <<>> /\ cache' = Committed(cache, round) /\ round' = <<>>
  BY DEF CommitAcceptedTokenTreeNodes
<1>3. Len(round) > 0 /\ Uniform(round)
  BY <1>1, <1>2 DEF UniformRound
<1>4. PICK d : d = cache'
  OBVIOUS
<1>5. Whole(d, {}) /\ SeqIds(d) = SeqIds(cache)
  BY <1>1, <1>2, <1>4, CommittedWhole DEF Sound, TreeDue
<1>6. DOMAIN d.kv = Page
  <2>1. HasCommitted(cache, d, round)
    BY <1>1, <1>2, <1>3, <1>4, CommittedContents DEF Sound
  <2> QED BY <2>1 DEF HasCommitted
<1>7. Sound(cache') /\ TreeDue(cache', round')
  <2>1. Sound(d) /\ TreeDue(d, <<>>)
    BY <1>1, <1>5, <1>6, NoTreeDue DEF Sound
  <2> QED BY <1>2, <1>4, <2>1
<1>8. StoreInvariant' /\ contents' = AllOf(cache') /\ StoreWindow' = NoWindows(cache')
  BY <1>2, <1>7, InvariantNext
<1>9. Mapped
  BY <1>1, <1>8 DEF Mapped
<1>10. Store!Next
  BY <1>1, <1>2, <1>3, <1>9, StoreCommits
<1> QED BY <1>8, <1>10 DEF Implements

(* DebugSetKV writes in the range it is given.                             *)
LEMMA StoreSets ==
  ASSUME StoreInvariant, contents' = AllContents', NEW s \in SeqIds(cache), NEW n \in 1..MaxAppend,
         NEW start \in 0..MaxLength, DebugSetKV(s, start, n)
  PROVE  Implements
<1>1. Sound(cache)
  BY InvariantSays
<1>2. PICK prefix, slots, tokens :
        /\ prefix = cache.seq_map[s].seq_length - LastBlock(cache, s).seq_length
        /\ slots = [i \in 1..n |-> Slot(LastBlock(cache, s), OffsetInBlock(LastBlock(cache, s), start - prefix + i - 1))]
        /\ tokens = NewTokens(cache, start, n)
  OBVIOUS
<1>3. /\ Ready /\ prefix <= start /\ start + n <= cache.seq_map[s].seq_length
      /\ Returns(Written(cache, slots, tokens))
  BY <1>2, Zenon DEF DebugSetKV
<1>4. start \in Nat /\ n \in Nat
  BY BoundAssumption
<1>5. PICK d : d = Written(cache, slots, tokens)
  OBVIOUS
<1>6. Replaces(cache, d, s, start, n)
  BY <1>1, <1>2, <1>3, <1>4, <1>5, SetContents DEF Sound
<1>7. Sound(d) /\ Returns(d)
  BY <1>1, <1>3, <1>5, <1>6 DEF Sound, Replaces
<1>8. /\ StoreInvariant' /\ Mapped /\ cache' = d /\ Sound(cache')
      /\ StoreTrees = <<>> /\ StoreTrees' = <<>>
  BY <1>3, <1>7, StoreReturns
<1>9. Replaces(cache, cache', s, start, n) /\ StoreTrees' = StoreTrees
  BY <1>6, <1>8
<1>10. Store!Next
  BY <1>1, <1>3, <1>4, <1>8, <1>9, StoreOverwrites
<1> QED BY <1>8, <1>10 DEF Implements

(* AddSequence, which never fails.                                         *)
LEMMA StoreAddsStep ==
  ASSUME StoreInvariant, contents' = AllContents', NEW s \in SeqId, AddSequence(s)
  PROVE  Implements
<1>1. Sound(cache)
  BY InvariantSays
<1>2. Ready /\ s \in SeqId \ SeqIds(cache) /\ Returns(Added(cache, s))
  BY DEF AddSequence
<1>3. PICK d : d = Added(cache, s)
  OBVIOUS
<1>4. Whole(d, {}) /\ SeqIds(d) = SeqIds(cache) \cup {s}
  BY <1>1, <1>2, <1>3, AddedWhole DEF Sound
<1>5. DOMAIN d.kv = Page
  BY <1>1, <1>2, <1>3, AddedContents DEF Sound
<1>6. Sound(d) /\ Returns(d)
  BY <1>1, <1>2, <1>3, <1>4, <1>5 DEF Sound
<1>7. /\ StoreInvariant' /\ Mapped /\ cache' = d /\ StoreTrees = <<>> /\ StoreTrees' = <<>>
  BY <1>2, <1>6, StoreReturns
<1>8. Store!Next
  <2>1. cache' = Added(cache, s) /\ StoreTrees' = StoreTrees
    BY <1>3, <1>7
  <2> QED BY <1>1, <1>2, <1>7, <2>1, StoreAdds
<1> QED BY <1>7, <1>8 DEF Implements
(* RemoveSequence, which never fails.                                      *)
LEMMA StoreRemovesStep ==
  ASSUME StoreInvariant, contents' = AllContents', NEW s \in SeqId, RemoveSequence(s)
  PROVE  Implements
<1>1. Sound(cache)
  BY InvariantSays
<1>2. Ready /\ s \in SeqIds(cache) /\ Returns(Removed(cache, s))
  BY DEF RemoveSequence
<1>3. PICK d : d = Removed(cache, s)
  OBVIOUS
<1>4. Whole(d, {}) /\ SeqIds(d) = SeqIds(cache) \ {s}
  BY <1>1, <1>2, <1>3, RemovedWhole DEF Sound
<1>5. DOMAIN d.kv = Page
  BY <1>1, <1>2, <1>3, RemovedContents DEF Sound
<1>6. Sound(d) /\ Returns(d)
  BY <1>1, <1>2, <1>3, <1>4, <1>5 DEF Sound
<1>7. /\ StoreInvariant' /\ Mapped /\ cache' = d /\ StoreTrees = <<>> /\ StoreTrees' = <<>>
  BY <1>2, <1>6, StoreReturns
<1>8. Store!Next
  <2>1. cache' = Removed(cache, s) /\ StoreTrees' = StoreTrees
    BY <1>3, <1>7
  <2> QED BY <1>1, <1>2, <1>7, <2>1, StoreRemoves
<1> QED BY <1>7, <1>8 DEF Implements
(* ForkSequence, which fails without a page for the copy.                  *)
LEMMA StoreForksStep ==
  ASSUME StoreInvariant, contents' = AllContents', NEW s \in SeqIds(cache), NEW child \in SeqId,
         NEW pos \in 0..MaxLength, ForkSequence(s, child, pos)
  PROVE  Implements
<1>1. Sound(cache)
  BY InvariantSays
<1>2. /\ Ready /\ child \notin SeqIds(cache) /\ pos <= cache.seq_map[s].seq_length
      /\ IF ForkFits(ReadyToFork(cache, s, pos), pos)
         THEN Returns(Forked(cache, s, child, pos)) ELSE Throws("full")
  BY DEF ForkSequence
<1>3. pos \in Nat /\ child \in SeqId \cup {TempSeq}
  BY BoundAssumption
<1>4. CASE ForkFits(ReadyToFork(cache, s, pos), pos)
  <2>1. Room(cache)
    BY <1>1, <1>2, ChildRoom DEF Sound
  <2>2. PICK d : d = Forked(cache, s, child, pos)
    OBVIOUS
  <2>3. HasForked(cache, d, s, child, pos, {})
    BY <1>1, <1>2, <1>3, <1>4, <2>1, <2>2, ForkedWhole DEF Sound
  <2>4. Whole(d, {}) /\ SeqIds(d) = SeqIds(cache) \cup {child}
    BY <2>3, Zenon DEF HasForked
  <2>5. DOMAIN d.kv = Page
    BY <1>1, <1>2, <1>3, <1>4, <2>1, <2>2, ForkedContents DEF Sound
  <2>6. Returns(d)
    BY <1>2, <1>4, <2>2, Zenon
  <2>7. Sound(d)
    BY <1>1, <2>4, <2>5 DEF Sound
  <2>8. /\ StoreInvariant' /\ Mapped /\ cache' = d /\ StoreTrees = <<>> /\ StoreTrees' = <<>>
    BY <1>2, <2>6, <2>7, StoreReturns
  <2>9. cache' = Forked(cache, s, child, pos) /\ StoreTrees' = StoreTrees /\ child \in SeqId \ SeqIds(cache)
    BY <1>2, <2>2, <2>8
  <2>10. Store!Next
    BY <1>1, <1>2, <1>3, <1>4, <2>1, <2>8, <2>9, StoreForks
  <2> QED BY <2>8, <2>10 DEF Implements
<1>5. CASE ~ForkFits(ReadyToFork(cache, s, pos), pos)
  <2>1. UNCHANGED <<cache, round>>
    BY <1>2, <1>5, Zenon DEF Throws
  <2> QED BY <2>1, StoreStutters DEF Implements
<1> QED BY <1>4, <1>5
(* PopN, which fails if it has to fork and cannot.                         *)
LEMMA StorePopsStep ==
  ASSUME StoreInvariant, contents' = AllContents', NEW s \in SeqIds(cache), NEW n \in 1..MaxLength, PopN(s, n)
  PROVE  Implements
<1>1. Sound(cache)
  BY InvariantSays
<1>2. /\ Ready /\ n <= cache.seq_map[s].seq_length
      /\ IF PopFits(cache, s, n) THEN Returns(Popped(cache, s, n)) ELSE Throws("fork")
  BY DEF PopN
<1>3. n \in Nat /\ n > 0
  BY BoundAssumption
<1>4. CASE PopFits(cache, s, n)
  <2>1. PICK d : d = Popped(cache, s, n)
    OBVIOUS
  <2>2. Whole(d, {}) /\ SeqIds(d) = SeqIds(cache)
    BY <1>1, <1>2, <1>3, <1>4, <2>1, PoppedWhole DEF Sound
  <2>3. DOMAIN d.kv = Page
    BY <1>1, <1>2, <1>3, <1>4, <2>1, PoppedContents DEF Sound
  <2>4. Sound(d)
    BY <1>1, <2>2, <2>3 DEF Sound
  <2>5. Returns(d)
    BY <1>2, <1>4, <2>1, Zenon
  <2>6. /\ StoreInvariant' /\ Mapped /\ cache' = d /\ StoreTrees = <<>> /\ StoreTrees' = <<>>
    BY <1>2, <2>4, <2>5, StoreReturns
  <2>7. cache' = Popped(cache, s, n) /\ StoreTrees' = StoreTrees
    BY <2>1, <2>6
  <2>8. Store!Next
    BY <1>1, <1>2, <1>3, <1>4, <2>6, <2>7, StorePops
  <2> QED BY <2>6, <2>8 DEF Implements
<1>5. CASE ~PopFits(cache, s, n)
  <2>1. UNCHANGED <<cache, round>>
    BY <1>2, <1>5, Zenon DEF Throws
  <2> QED BY <2>1, StoreStutters DEF Implements
<1> QED BY <1>4, <1>5

(* Clear.                                                                  *)
LEMMA ClearedSound == Sound(Cleared) /\ AllOf(Cleared) = <<>> /\ NoWindows(Cleared) = <<>>
<1>1. PICK c : c = Cleared
  OBVIOUS
<1>2. Whole(c, {}) /\ SeqIds(c) = {}
  BY <1>1, ClearedWhole
<1>3. DOMAIN c.kv = Page
  BY <1>1 DEF Cleared
<1>4. AllOf(c) = <<>> /\ NoWindows(c) = <<>>
  BY <1>2 DEF AllOf, NoWindows
<1> QED BY <1>1, <1>2, <1>3, <1>4 DEF Sound
(* The step of Clear.                                                      *)
LEMMA StoreClears ==
  ASSUME StoreInvariant, contents' = AllContents', Clear
  PROVE  Implements
<1>1. PICK d : d = Cleared /\ Sound(d) /\ AllOf(d) = <<>> /\ NoWindows(d) = <<>> /\ Ready /\ Returns(d)
  BY ClearedSound DEF Clear
<1>2. /\ StoreInvariant' /\ Mapped /\ cache' = d /\ StoreTrees = <<>> /\ StoreTrees' = <<>>
  BY <1>1, StoreReturns
<1>3. Store!Clear
  BY <1>1, <1>2 DEF Store!Clear, Mapped
<1> QED BY <1>2, <1>3 DEF Implements, Store!Next

(* One step per operation of the cache.                                    *)
LEMMA StoreStep ==
  ASSUME ~support_sliding_window, StoreInvariant, UniformRound, [TrackedNext]_<<vars, contents>>
  PROVE  Implements
<1>1. CASE UNCHANGED <<vars, contents>>
  <2>1. UNCHANGED <<cache, round>> /\ contents' = contents
    BY <1>1 DEF vars
  <2>2. contents' = AllContents'
    <3>1. contents = AllOf(cache) /\ AllContents' = AllOf(cache')
      BY InvariantSays DEF AllContents, AllOf
    <3> QED BY <2>1, <3>1
  <2> QED BY <2>1, <2>2, StoreStutters DEF Implements
<1>2. CASE Next /\ contents' = AllContents'
  <2>1. contents' = AllContents'
    BY <1>2
  <2>2. Clear => Implements
    BY <2>1, StoreClears
  <2>3. Sequences => Implements
    BY <2>1, StoreAddsStep, StoreRemovesStep DEF Sequences
  <2>4. Rounds => Implements
    <3>1. ASSUME NEW batch \in Batches, BeginForward(batch) PROVE Implements
      <4>1. PICK result : result = Forwarded(cache, batch, FALSE)
        OBVIOUS
      <4>2. Ready /\ IF result.threw = "no" THEN Returns(result.cache) ELSE Throws(result.threw)
        BY <3>1, <4>1 DEF BeginForward
      <4> QED BY <2>1, <4>1, <4>2, BatchSizes, StoreRounds
    <3>2. ASSUME NEW s \in SeqIds(cache), NEW n \in 1..MaxAppend, DisaggPrepareRecv(s, n) PROVE Implements
      <4>1. PICK batch, result : batch = <<[seq |-> s, n |-> n]>> /\ result = Forwarded(cache, batch, TRUE)
        OBVIOUS
      <4>2. Ready /\ IF result.threw = "no" THEN Returns(result.cache) ELSE Throws(result.threw)
        BY <3>2, <4>1 DEF DisaggPrepareRecv
      <4>3. Len(batch) = 1 /\ batch[1].seq = s /\ batch[1].n = n /\ n \in Nat
        BY <4>1, BoundAssumption
      <4>4. IsBatch(cache, batch)
        BY <4>3 DEF IsBatch
      <4>5. Distinct(batch) /\ Len(batch) > 0 /\ \A i \in 1..Len(batch) : batch[i].n \in 1..MaxAppend
        BY <4>3 DEF Distinct
      <4> QED BY <2>1, <4>1, <4>2, <4>4, <4>5, StoreRounds
    <3>3. ASSUME NEW s \in SeqIds(cache), NEW n \in 1..MaxAppend, NEW start \in 0..MaxLength, DebugSetKV(s, start, n)
          PROVE  Implements
      BY <2>1, <3>3, StoreSets
    <3> QED BY <3>1, <3>2, <3>3 DEF Rounds
  <2>5. Forks => Implements
    BY <2>1, StoreForksStep DEF Forks
  <2>6. Pops => Implements
    BY <2>1, StorePopsStep DEF Pops
  <2>7. Trees => Implements
    <3>1. ASSUME NEW batch \in Batches, NEW forests \in [DOMAIN batch -> Forests],
                 NEW leaves \in [DOMAIN batch -> -1..(MaxAppend - 1)],
                 \A i \in DOMAIN batch : Len(forests[i]) = batch[i].n /\ leaves[i] < batch[i].n,
                 BeginForwardTree(batch, forests, leaves)
          PROVE  Implements
      BY <2>1, <3>1, StoreTreeRounds
    <3>2. CommitAcceptedTokenTreeNodes => Implements
      BY <2>1, StoreCommitted
    <3> QED BY <3>1, <3>2 DEF Trees
  <2>8. ~Enables
    BY DEF Enables, EnableSlidingWindowForSeq
  <2> QED BY <1>2, <2>2, <2>3, <2>4, <2>5, <2>6, <2>7, <2>8 DEF Next
<1> QED BY <1>1, <1>2 DEF TrackedNext

(* At first there is no sequence.                                          *)
LEMMA StoreInit == TrackedInit => StoreInvariant /\ Store!Init
<1> SUFFICES ASSUME TrackedInit PROVE StoreInvariant /\ Store!Init
  OBVIOUS
<1>1. cache = Cleared /\ round = <<>> /\ contents = AllContents
  BY DEF TrackedInit, Init
<1>2. Sound(cache) /\ AllOf(cache) = <<>> /\ NoWindows(cache) = <<>>
  BY <1>1, ClearedSound
<1>3. StructureInvariant
  BY InvariantInit DEF TrackedInit
<1>4. StoreInvariant
  BY <1>1, <1>2, <1>3, NoTreeDue DEF StoreInvariant, Sound
<1>5. contents = <<>> /\ StoreWindow = <<>>
  BY <1>2, <1>4, InvariantSays
<1>6. StoreTrees = <<>>
  BY <1>1, TreesAre, TreesNone
<1> QED BY <1>4, <1>5, <1>6 DEF Store!Init

-----------------------------------------------------------------------------
(* The theorem.                                                            *)

(* Whatever is added, forked, popped, appended, imported, committed and    *)
(* removed, every sequence of a cache without sliding windows is the       *)
(* string of tokens the abstract store says it is: the pages, the shared   *)
(* blocks, the splits and the copies never show.  It holds as long as the  *)
(* rounds of token trees are uniform, since CommitAcceptedTokenTreeNodes   *)
(* skips the copy for all of a round's trees if its last one is a chain.   *)
THEOREM ImplementsStore ==
  ASSUME ~support_sliding_window
  PROVE  TrackedSpec /\ []UniformRound => StoreSpec
<1>1. TrackedInit => StoreInvariant /\ Store!Init
  BY StoreInit
<1>2. StoreInvariant /\ UniformRound /\ [TrackedNext]_<<vars, contents>>
        => StoreInvariant' /\ [Store!Next]_(Store!svars)
  BY StoreStep DEF Implements
<1> QED BY <1>1, <1>2, PTL DEF TrackedSpec, StoreSpec, Store!Spec
=============================================================================

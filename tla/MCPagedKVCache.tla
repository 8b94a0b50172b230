---------------------------- MODULE MCPagedKVCache -----------------------------
(***************************************************************************)
(* Instances of PagedKVCache for TLC.                                      *)
(***************************************************************************)
EXTENDS PagedKVStore

CONSTANTS s1, s2, s3

Symmetry  == Permutations(SeqId)
NoWindows == {}
TwoWindows == {[size |-> 4, sink |-> 3], [size |-> 3, sink |-> 0]}

(* With sliding windows: the calls that leave a sequence with a window in  *)
(* order.  A window is at least as long as the shared prefix.  The         *)
(* sequence is forked below its end, and after it has slid only within the *)
(* first page of its last block; it is popped before it slides, within its *)
(* last block.  README says what the others do.                            *)
HasWindow(s) == cache.seq_map[s].sliding_window_size # NoWindow.size
HasSlid(s)   == LastBlock(cache, s).sliding_window_offset > 0
Prefix(s)    == cache.seq_map[s].seq_length - LastBlock(cache, s).seq_length
WindowForks(s) == \E child \in SeqId, pos \in 0..MaxLength :
  /\ HasWindow(s) => pos < cache.seq_map[s].seq_length
  /\ HasSlid(s) => pos < Prefix(s) + page_size
  /\ ForkSequence(s, child, pos)
WindowPops(s) == \E n \in 1..MaxLength :
  /\ HasWindow(s) => ~HasSlid(s) /\ n <= LastBlock(cache, s).seq_length
  /\ PopN(s, n)
WindowEnables(s) == \E w \in Windows : Prefix(s) <= w.size /\ EnableSlidingWindowForSeq(s, w)
MCWindowNext ==
  /\ \/ Clear \/ Sequences \/ Rounds
     \/ \E s \in SeqIds(cache) : WindowForks(s) \/ WindowPops(s) \/ WindowEnables(s)
  /\ contents' = AllContents'
MCWindowSpec == TrackedInit /\ [][MCWindowNext]_<<vars, contents>>

(* Two states that differ in the names of pages, blocks and tokens only    *)
(* are the same: a block is named by the sequences it belongs to, a token  *)
(* by the places where it is found.                                        *)
Places(t) == IF t = Junk THEN Junk
             ELSE UNION {{<<s, i>> : i \in {i \in DOMAIN contents[s] : contents[s][i] = t}} :
                         s \in DOMAIN contents}
Shape ==
  [s \in SeqIds(cache) |->
    <<[cache.seq_map[s] EXCEPT !.last_block_idx = 0],
      [k \in DOMAIN Trace(cache, s) |->
        LET b == Trace(cache, s)[k] IN
        <<{x \in SeqIds(cache) : b \in ToSet(Trace(cache, x))},
          [cache.pool[b] EXCEPT
            !.page_ids = [i \in DOMAIN @ |-> [o \in Offset |-> Places(cache.kv[@[i]][o])]],
            !.parent_idx = 0]>>]>>]
View == <<Shape, Cardinality(cache.free_page_ids), Cardinality(cache.free_block_idx),
          [i \in DOMAIN round |-> [round[i] EXCEPT !.slots = <<>>]], threw>>
=============================================================================

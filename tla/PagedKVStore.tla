----------------------------- MODULE PagedKVStore ------------------------------
(***************************************************************************)
(* The refinement mapping from PagedKVCache to KVStore.  The mapped        *)
(* contents are kept in a history variable, which is a function of the     *)
(* state, only because the checker of the refinement reads them many times *)
(* in each step.                                                           *)
(***************************************************************************)
EXTENDS PagedKVCache

VARIABLE contents

AllContents == [s \in SeqIds(cache) |-> Contents(cache, s)]

TrackedInit == Init /\ contents = AllContents
TrackedNext == Next /\ contents' = AllContents'
TrackedSpec == TrackedInit /\ [][TrackedNext]_<<vars, contents>>

(* What the store sees of the windows, and of the round while it is due.   *)
StoreWindow ==
  [s \in SeqIds(cache) |->
     IF cache.seq_map[s].sliding_window_size = NoWindow.size THEN NoWindow
     ELSE [size |-> cache.seq_map[s].sliding_window_size, sink |-> SinkSize(cache, s)]]
StoreTrees ==
  [s \in {round[i].seq : i \in DOMAIN round} |->
     LET entry == round[CHOOSE i \in DOMAIN round : round[i].seq = s]
     IN [parents |-> entry.parents, leaf |-> entry.leaf]]

Store == INSTANCE KVStore WITH
  store  <- contents,
  window <- StoreWindow,
  trees  <- StoreTrees,
  MaxWindow <- MaxLength

(* Every call does to the tokens of the sequences what the abstract store  *)
(* does: a fork shares exactly the prefix, a pop drops exactly the end, an *)
(* append, an import or an accepted path changes no other sequence.        *)
StoreSpec == Store!Spec
=============================================================================

-------------------------------- MODULE KVStore --------------------------------
(***************************************************************************)
(* What a KV cache promises, whatever its pages look like: a sequence is   *)
(* the string of the tokens whose K/V it holds.  A sequence with a sliding *)
(* window keeps its attention sink and its most recent tokens.  The tokens *)
(* of a speculative round form a forest until one path of it is accepted.  *)
(***************************************************************************)
EXTENDS Integers, Sequences, Functions

CONSTANTS
  SeqId,
  MaxAppend,                   \* most tokens one call appends to a sequence
  MaxWindow,                   \* largest window or sink
  NoWindow                     \* window of a sequence without one

VARIABLES
  store,                       \* the live sequences, each a sequence of tokens
  window,                      \* [size, sink] of each live sequence, or NoWindow
  trees                        \* [parents, leaf] of the last round, while a commit is due

svars == <<store, window, trees>>

Live == DOMAIN store

Init == store = <<>> /\ window = <<>> /\ trees = <<>>

Set(f, s, v) == [x \in DOMAIN f \cup {s} |-> IF x = s THEN v ELSE f[x]]
Unset(f, s)  == [x \in DOMAIN f \ {s} |-> f[x]]

Add(s) ==
  /\ s \notin Live
  /\ store' = Set(store, s, <<>>)
  /\ window' = Set(window, s, NoWindow)
  /\ trees' = trees

Remove(s) ==
  /\ store' = Unset(store, s)
  /\ window' = Unset(window, s)
  /\ trees' = trees

(* The child is the first pos tokens of its parent and has no window.      *)
Fork(parent, child, pos) ==
  /\ child \notin Live
  /\ store' = Set(store, child, SubSeq(store[parent], 1, pos))
  /\ window' = Set(window, child, NoWindow)
  /\ trees' = trees

Pop(s, n) ==
  /\ store' = [store EXCEPT ![s] = SubSeq(@, 1, Len(@) - n)]
  /\ UNCHANGED <<window, trees>>

(* The sink counts at least the tokens asked for: a shared prefix never    *)
(* slides.                                                                 *)
EnableWindow(s, size, sink) ==
  /\ window[s] = NoWindow
  /\ window' = [window EXCEPT ![s] = [size |-> size, sink |-> sink]]
  /\ UNCHANGED <<store, trees>>

Slid(tokens, w) ==
  IF w = NoWindow \/ Len(tokens) <= w.size THEN tokens
  ELSE SubSeq(tokens, 1, w.sink) \o SubSeq(tokens, Len(tokens) - (w.size - w.sink) + 1, Len(tokens))

(* One round appends tokens to some sequences.  After a speculative one    *)
(* each of them awaits its commit, with the shape of its forest.           *)
Extended(s, n) ==
  \E tokens \in [1..n -> Range(store'[s])] : store'[s] = Slid(store[s] \o tokens, window[s])

Extend ==
  /\ trees = <<>>
  /\ DOMAIN store' = Live
  /\ \E D \in (SUBSET Live) \ {{}} :
       /\ \A s \in Live \ D : store'[s] = store[s]
       /\ \/ /\ trees' = <<>>
             /\ \A s \in D : \E n \in 1..MaxAppend : Extended(s, n)
          \/ /\ DOMAIN trees' = D
             /\ \A s \in D : Extended(s, Len(trees'[s].parents))
  /\ UNCHANGED window

(* External K/V replaces the contents of a range.                          *)
Overwrite(s, start, n) ==
  /\ DOMAIN store' = Live
  /\ \A x \in Live : x # s => store'[x] = store[x]
  /\ DOMAIN store'[s] = DOMAIN store[s]
  /\ \A i \in DOMAIN store[s] : i \notin start + 1..start + n => store'[s][i] = store[s][i]
  /\ UNCHANGED <<window, trees>>

(* The nodes on the way from a root to a leaf, counted from 0; none to     *)
(* leaf -1.                                                                *)
IsWay(way, parents, leaf) ==
  /\ way = <<>> <=> leaf = -1
  /\ way # <<>> => parents[way[1] + 1] = -1 /\ way[Len(way)] = leaf
  /\ \A i \in 2..Len(way) : parents[way[i] + 1] = way[i - 1]
Way(parents, leaf) ==
  CHOOSE way \in UNION {[1..k -> 0..(Len(parents) - 1)] : k \in 0..Len(parents)} :
    IsWay(way, parents, leaf)
Accepted(tail, parents, leaf) ==
  [i \in DOMAIN Way(parents, leaf) |-> tail[Way(parents, leaf)[i] + 1]]

(* Of every sequence of the round, the tokens of the accepted path remain. *)
Commit ==
  /\ trees # <<>>
  /\ store' = [s \in Live |->
       IF s \notin DOMAIN trees THEN store[s]
       ELSE LET before == Len(store[s]) - Len(trees[s].parents)
                tail   == SubSeq(store[s], before + 1, Len(store[s]))
            IN SubSeq(store[s], 1, before) \o Accepted(tail, trees[s].parents, trees[s].leaf)]
  /\ trees' = <<>>
  /\ window' = window

Clear == store' = <<>> /\ window' = <<>> /\ trees' = <<>>

-----------------------------------------------------------------------------
Next ==
  \/ \E s \in SeqId \ Live : Add(s)
  \/ \E s \in Live :
       \/ Remove(s)
       \/ \E child \in SeqId \ Live, pos \in 0..Len(store[s]) : Fork(s, child, pos)
       \/ \E n \in 1..Len(store[s]) : Pop(s, n)
       \/ \E size \in 1..MaxWindow, sink \in 0..MaxWindow : EnableWindow(s, size, sink)
       \/ \E start \in 0..Len(store[s]), n \in 1..MaxAppend : Overwrite(s, start, n)
  \/ Extend
  \/ Commit
  \/ Clear

Spec == Init /\ [][Next]_svars
=============================================================================

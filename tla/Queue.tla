--------------------------------- MODULE Queue ---------------------------------
(***************************************************************************)
(* The request queues: what is in one, and what is left of one when some   *)
(* elements are erased.  The order-preserving filter is written with       *)
(* positions instead of a recursion over the sequence, so that the facts   *)
(* about it have proofs (QueueLemmas).                                     *)
(***************************************************************************)
EXTENDS Integers, Sequences, FiniteSets

Elements(q)  == {q[i] : i \in DOMAIN q}
NoRepeats(q) == \A i, j \in DOMAIN q : q[i] = q[j] => i = j

(* The elements of q come in the order of their numbers in f.              *)
Increasing(f, q) == \A i, j \in DOMAIN q : i < j => f[q[i]] < f[q[j]]

(* The position of i among the positions K, counted from 1.                *)
Rank(K, i) == Cardinality({j \in K : j <= i})

(* The elements of q that are in S, in their order.                        *)
Positions(q, S) == {i \in DOMAIN q : q[i] \in S}
Keep(q, S) ==
  LET K == Positions(q, S) IN
  [n \in 1..Cardinality(K) |-> q[CHOOSE i \in K : Rank(K, i) = n]]

Without(q, S) == Keep(q, Elements(q) \ S)
=============================================================================

----------------------------- MODULE RequestInputs -----------------------------
(***************************************************************************)
(* The inputs of a request: a sequence of data, each of a kind and with    *)
(* the ids of its tokens (for an image, one id per embedding position; for *)
(* a text, those the tokenizer gives).  The operators take inputs apart:   *)
(* data.cc, SplitData; batch_prefill_base.cc, chunks and prefix matches.   *)
(***************************************************************************)
EXTENDS Integers, Sequences, FiniteSets, SequencesExt, FiniteSetsExt

Data == [kind : {"text", "token", "image"}, ids : Seq(Nat)]
Token(ids) == [kind |-> "token", ids |-> ids]

GetLength(data)  == Len(data.ids)
IdsOf(inputs)    == FlattenSeq([i \in DOMAIN inputs |-> inputs[i].ids])
LengthOf(inputs) == Len(IdsOf(inputs))

(* Request::FromUntokenized.                                               *)
FromUntokenized(inputs) ==
  [i \in DOMAIN inputs |-> IF inputs[i].kind = "text" THEN Token(inputs[i].ids) ELSE inputs[i]]

UpTo(inputs, k)   == SubSeq(inputs, 1, k)
Behind(inputs, k) == SubSeq(inputs, k + 1, Len(inputs))
Reach(inputs, k)  == LengthOf(UpTo(inputs, k))

(* The two parts of the k-th datum at a position inside it; only tokens    *)
(* can be cut.                                                             *)
Before(inputs, k, position) ==
  Token(SubSeq(inputs[k].ids, 1, position - Reach(inputs, k - 1)))
After_Whole(inputs, k, position) == inputs[k]
After(inputs, k, position) ==
  Token(SubSeq(inputs[k].ids, position - Reach(inputs, k - 1) + 1, GetLength(inputs[k])))

(* Data are taken off the end, so the right-hand side comes out backwards; *)
(* it is turned round only when a datum is cut.                            *)
SplitData(inputs, split_pos) ==
  LET ends == {k \in 0..Len(inputs) : Reach(inputs, k) = split_pos} IN
  IF ends # {}
  THEN [lhs |-> UpTo(inputs, Max(ends)), rhs |-> Reverse(Behind(inputs, Max(ends)))]
  ELSE LET cut == Min({k \in 1..Len(inputs) : Reach(inputs, k) > split_pos}) IN
       [lhs |-> Append(UpTo(inputs, cut - 1), Before(inputs, cut, split_pos)),
        rhs |-> <<After(inputs, cut, split_pos)>> \o Behind(inputs, cut)]
CanSplit(inputs, split_pos) ==
  /\ split_pos \in 0..LengthOf(inputs)
  /\ \A k \in DOMAIN inputs :
       Reach(inputs, k - 1) < split_pos /\ split_pos < Reach(inputs, k) => inputs[k].kind = "token"

(* The chunk that is prefilled and the inputs left; max_prefill_length is  *)
(* at most the length.  An image that does not fit is left whole, and the  *)
(* chunk may then be empty.                                                *)
ChunkPrefillInputData(inputs, max_prefill_length) ==
  LET last == Min({k \in 1..Len(inputs) : Reach(inputs, k) >= max_prefill_length}) IN
  IF Reach(inputs, last) = max_prefill_length
  THEN [chunk |-> UpTo(inputs, last), left |-> Behind(inputs, last)]
  ELSE IF inputs[last].kind # "token"
  THEN [chunk |-> UpTo(inputs, last - 1), left |-> Behind(inputs, last - 1)]
  ELSE [chunk |-> Append(UpTo(inputs, last - 1), Before(inputs, last, max_prefill_length)),
        left  |-> <<After(inputs, last, max_prefill_length)>> \o Behind(inputs, last)]

(* What the prefix cache matches a prompt by, and the inputs left when it  *)
(* holds num_tokens of them, fewer than there are.                         *)
GetConcatPrefillInputData(inputs) ==
  IF \A i \in DOMAIN inputs : inputs[i].kind = "token" THEN IdsOf(inputs) ELSE <<>>
PopPrefillInputData(inputs, num_tokens) ==
  LET whole == Max({k \in 0..Len(inputs) : Reach(inputs, k) <= num_tokens}) IN
  IF Reach(inputs, whole) = num_tokens THEN Behind(inputs, whole)
  ELSE <<After(inputs, whole + 1, num_tokens)>> \o Behind(inputs, whole + 1)
=============================================================================

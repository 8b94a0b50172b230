------------------------------ MODULE KVCapacity ------------------------------
(***************************************************************************)
(* The arithmetic every component shares when it talks about KV cache      *)
(* space: how many pages a run of tokens takes, how many pages the cache   *)
(* is created with, and the two admission tests of the engine actions.     *)
(***************************************************************************)
EXTENDS Integers, FiniteSets

CONSTANTS
  page_size,                   \* kv_cache_page_size, tokens per page
  max_total_sequence_length    \* token capacity the cache is created for

ASSUME PageSizeAssumption == page_size \in Nat \ {0}
ASSUME CapacityAssumption == max_total_sequence_length \in Nat \ {0}

(* The sum of f over S, counted and not folded: facts about it have proofs. *)
Total(f, S) == Cardinality(UNION {{r} \X (1..f[r]) : r \in S})

(* Pages that n tokens of one sequence occupy.                             *)
CountPagesForTokens(n) == (n + page_size - 1) \div page_size

(* The cache rounds its capacity up and keeps one page in reserve.         *)
NumTotalPages_NoSpare == CountPagesForTokens(max_total_sequence_length)
NumTotalPages == CountPagesForTokens(max_total_sequence_length) + 1

(* Tokens of headroom asked per sequence before a prefill is admitted.     *)
Watermark == 8

HasPrefillSpace(required_pages, batch_size, available_pages, total_seq_len, input_length) ==
  /\ required_pages + batch_size <= available_pages
  /\ total_seq_len + input_length + Watermark * batch_size <= max_total_sequence_length

(* The test of PDExternalKVPrefill: pages for the prefix and, separately,  *)
(* for the replay tokens, and the total length limit.                      *)
CanReserveKV(prefill_length, num_replay, available_pages, total_seq_len) ==
  /\ CountPagesForTokens(prefill_length) + CountPagesForTokens(num_replay) <= available_pages
  /\ total_seq_len + prefill_length + num_replay <= max_total_sequence_length
=============================================================================

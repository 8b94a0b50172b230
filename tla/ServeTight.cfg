SPECIFICATION Spec
CONSTANTS
  t1 = t1
  t2 = t2
  t3 = t3
  e1 = e1
  e2 = e2
  Request = {t1, t2, t3, e1}
  ExternalKV <- External
  PromptTokens <- TightPrompt
  DecodeTokenIds <- TightSeeds
  MaxTokens <- TightMaxTokens
  page_size = 4
  max_total_sequence_length = 32
  prefill_mode = "hybrid"
  prefill_chunk_size = 8
  max_num_sequence = 2
  max_single_sequence_length = 32
INVARIANTS
  RunningBounded
  ReservationHolds
  NoKVCacheFull
CHECK_DEADLOCK FALSE

SPECIFICATION Spec
CONSTANTS
  t1 = t1
  t2 = t2
  t3 = t3
  e1 = e1
  e2 = e2
  Request = {t1, e1}
  ExternalKV <- External
  PromptTokens <- LongPrompt
  DecodeTokenIds <- LongSeeds
  MaxTokens <- LongMaxTokens
  page_size = 8
  max_total_sequence_length = 32
  prefill_mode = "hybrid"
  prefill_chunk_size = 6
  max_num_sequence = 2
  max_single_sequence_length = 30
INVARIANTS
  ChunkNotExceeded
CHECK_DEADLOCK FALSE

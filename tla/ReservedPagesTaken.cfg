SPECIFICATION Spec
CONSTANTS
  t1 = t1
  t2 = t2
  t3 = t3
  e1 = e1
  e2 = e2
  Request = {t1, t2, e1}
  ExternalKV <- External
  PromptTokens <- ReplayPrompt
  DecodeTokenIds <- ReplaySeeds
  MaxTokens <- ReplayMaxTokens
  page_size = 32
  max_total_sequence_length = 192
  prefill_mode = "hybrid"
  prefill_chunk_size = 131
  max_num_sequence = 4
  max_single_sequence_length = 191
INVARIANTS
  NoKVCacheFull
CHECK_DEADLOCK FALSE

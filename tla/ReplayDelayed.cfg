SPECIFICATION Spec
CONSTANTS
  t1 = t1
  t2 = t2
  t3 = t3
  e1 = e1
  e2 = e2
  Request = {t1, e1}
  ExternalKV <- External
  PromptTokens <- SmallPrompt
  DecodeTokenIds <- SmallSeeds
  MaxTokens <- SmallMaxTokens
  page_size = 8
  max_total_sequence_length = 32
  prefill_mode = "chunked"
  prefill_chunk_size = 6
  max_num_sequence = 2
  max_single_sequence_length = 14
PROPERTIES
  ReplayInSameStep
CHECK_DEADLOCK FALSE

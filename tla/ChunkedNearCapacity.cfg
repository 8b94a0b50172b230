SPECIFICATION Spec
CONSTANTS
  t1 = t1
  t2 = t2
  t3 = t3
  e1 = e1
  e2 = e2
  Request = {t1, t2}
  ExternalKV <- External
  PromptTokens <- NearPrompt
  DecodeTokenIds <- NearSeeds
  MaxTokens <- NearMaxTokens
  page_size = 8
  max_total_sequence_length = 32
  prefill_mode = "hybrid"
  prefill_chunk_size = 16
  max_num_sequence = 2
  max_single_sequence_length = 32
INVARIANTS
  ActionTaken
CHECK_DEADLOCK FALSE

SPECIFICATION TrackedSpec
CONSTANTS
  s1 = s1
  s2 = s2
  s3 = s3
  SeqId = {s1, s2}
  TempSeq = TempSeq
  Junk = Junk
  Block = {0, 1, 2, 3, 4, 5, 6}
  Page = {0, 1}
  page_size = 2
  support_sliding_window = FALSE
  Windows <- NoWindows
  MaxAppend = 2
  MaxLength = 2
  MaxBatch = 2
PROPERTIES
  StoreSpec
CHECK_DEADLOCK FALSE

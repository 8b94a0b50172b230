SPECIFICATION MCWindowSpec
CONSTANTS
  s1 = s1
  s2 = s2
  s3 = s3
  SeqId = {s1, s2}
  TempSeq = TempSeq
  Junk = Junk
  Block = {0, 1, 2, 3, 4, 5, 6}
  Page = {0, 1, 2, 3}
  page_size = 2
  support_sliding_window = TRUE
  Windows <- TwoWindows
  MaxAppend = 2
  MaxLength = 4
  MaxBatch = 2
SYMMETRY Symmetry
VIEW View
INVARIANTS
  PagePartition
  SlideChecks
PROPERTIES
  StoreSpec
CHECK_DEADLOCK FALSE

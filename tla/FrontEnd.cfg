SPECIFICATION FrontEndSpec
CONSTANTS
  c1 = c1
  c2 = c2
  d1 = d1
  d2 = d2
  d3 = d3
  RequestId = {c1, c2}
  Requests <- MCRequests
  Templates <- MCTemplates
  Vision = TRUE
  Request = {d1, d2, d3}
  Offered <- MCOffered
  prefill_chunk_size = 2
  max_single_sequence_length = 8
INVARIANTS
  FrontEndTypeOK
  ContentsInOrder
  HistoryStripped
  RolesAnnounced
  ServedExactly
  EchoExact
  PlaceAgrees
  SequencesAccounted
  TokensInOrder
  StreamedInBudget
  HandoverComplete
PROPERTIES
  EngineStream
  EveryRequestEnds
CHECK_DEADLOCK FALSE

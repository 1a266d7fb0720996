SPECIFICATION MCSpec
CONSTANTS
  i1 = i1
  i2 = i2
  login = login
  Items <- MCItems
  Login <- login
  Rollover = 2
  MaxCalls = 3
  Catalogs <- MCCatalogs
  PageSize = 2
  MaxPages = 5
  Formats <- MCFormats
  MaxRecords = 3
  Inputs <- MCInputs
  MaxTriples = 4
INVARIANTS InStepUntilAbandoned NeverCatchesUp SeqTellsStaleReply
INVARIANTS NoGapNoRepeat EOFIsTheEnd
INVARIANTS StreamIsPrefix WrittenIsTaken ClosedMeansComplete ConvertIsFaithful
INVARIANT OneAhead
PROPERTIES DeadlineBoundsExchange StreamsResultSet ReadReturns
PROPERTIES ImplementsSink EOFMeansEnded StreamsInput ProducerReleased DecodeReturns
CHECK_DEADLOCK FALSE

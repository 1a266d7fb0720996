SPECIFICATION MCSpec
CONSTANTS
  Formats = {"iso2709", "marcjson", "marcjson-stream", "marcxml", "mrk"}
  Contents <- MCContents
  Written <- MCWritten
  PrintableTags <- MCPrintableTags
  Received <- MCReceived
  MaxFieldLen = 16
  MaxLen = 104
  Collections <- MCCollections
  Elsewhere <- MCElsewhere
  MaxRounds = 4
INVARIANTS OneResultPerRecord FileAgrees RecordReadsAsWritten FieldsStandAlone NotLossyIsWritable EntriesReturn CrosswalkSettles
PROPERTY StreamsInput
CHECK_DEADLOCK FALSE

SPECIFICATION MCSpec
CONSTANTS
  Formats = {"mrk"}
  Contents <- MCContents
  Written <- MCMisplaced
  PrintableTags <- MCPrintableTags
  Received = {}
  MaxFieldLen = 16
  MaxLen = 104
  Collections = {}
  Elsewhere = {}
  MaxRounds = 4
INVARIANT NoRawValueIsLost
CHECK_DEADLOCK FALSE

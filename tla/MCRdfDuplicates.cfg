CONSTANTS
  Documents = {}
  ReadTerm <- ReadNTTerm
  ReadSizes <- MCReadSizes
  MaxParseDepth = 2
  MaxIRICacheEntries = 1
  MaxStatementBytes = 40
  Blanks <- MCBlanks
  Shapes <- MCOnceAndTwice
  MaxCanonWork = 63
  MaxCanonDepth = 8
  Subjects = {1, 2}
  Predicates = {11}
  Objs = {21, 22}
  GraphTerms = {0, 3}
  MaxStatements = 0
  MapAbove = 1
SPECIFICATION MCSpec
INVARIANT DuplicatesCollapse
CHECK_DEADLOCK FALSE

CONSTANTS
  Documents <- MCTwoStatements
  ReadTerm <- ReadNTTerm
  ReadSizes <- MCReadSizes
  MaxParseDepth = 2
  MaxIRICacheEntries = 1
  MaxStatementBytes = 40
  Blanks <- MCBlanks
  Shapes = {}
  MaxCanonWork = 63
  MaxCanonDepth = 8
  Subjects = {1, 2}
  Predicates = {11}
  Objs = {21, 22}
  GraphTerms = {0, 3}
  MaxStatements = 0
  MapAbove = 1
SPECIFICATION MCSpec
INVARIANT EveryStatementIsParsed
CHECK_DEADLOCK FALSE

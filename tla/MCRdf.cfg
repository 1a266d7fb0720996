CONSTANTS
  Documents <- MCDocuments
  ReadTerm <- ReadNTTerm
  ReadSizes <- MCReadSizes
  MaxParseDepth = 2
  MaxIRICacheEntries = 1
  MaxStatementBytes = 40
  Blanks <- MCBlanks
  Shapes <- MCShapes
  MaxCanonWork = 63
  MaxCanonDepth = 8
  Subjects = {1, 2}
  Predicates = {11}
  Objs = {21, 22}
  GraphTerms = {0, 3}
  MaxStatements = 3
  MapAbove = 1
SPECIFICATION MCSpec
INVARIANTS StreamingIsParsing LinesAreParsing WrittenIsRead CanonicalDecidesIsomorphism ViewsAgree IndexAgrees
CHECK_DEADLOCK FALSE

SPECIFICATION Spec
CONSTANTS
  Formats = {"marcjson"}
  Contents <- MCContents
INVARIANT EOFMeansExhausted
CHECK_DEADLOCK FALSE

SPECIFICATION Spec
CONSTANTS
  q1 = q1
  q2 = q2
  none = none
  cDeadline = cDeadline
  background = background
  Queries <- MCQueries
  NoQuery <- none
  Positions <- MCPositions
  Ctxs <- MCCtxs
  EndingCtxs <- MCDeadlineCtxs
  DeadlineCtxs <- MCDeadlineCtxs
  MaxCalls = 3
  Parts = 2
  Forms <- MCForms
INVARIANTS InStepUntilAbandoned PresentReadsLastSearch FramingKept TimeoutHasCause
SYMMETRY QuerySymmetry
CHECK_DEADLOCK FALSE

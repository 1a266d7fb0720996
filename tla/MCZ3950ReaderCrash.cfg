SPECIFICATION ReaderSpec
CONSTANTS
  q = q
  none = none
  deadlineCtx = deadlineCtx
  Queries <- MCQueries
  NoQuery <- none
  Positions <- MCRanges
  Ctxs <- MCCtxs
  EndingCtxs <- MCCtxs
  DeadlineCtxs <- MCCtxs
  MaxCalls = 7
  Parts = 2
  Forms <- MCForms
  Catalogs <- MCCatalogs
  PageSize = 2
  Query <- q
  Ctx <- deadlineCtx
INVARIANT NoCrash
CHECK_DEADLOCK FALSE

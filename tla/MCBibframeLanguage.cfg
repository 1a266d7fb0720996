SPECIFICATION BibSpec
CONSTANTS
 Collections <- MCCollections
 Elsewhere <- MCElsewhere
 MaxRounds = 4
INVARIANT LanguageReturns
CHECK_DEADLOCK FALSE

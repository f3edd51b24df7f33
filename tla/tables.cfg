SPECIFICATION Spec
CHECK_DEADLOCK FALSE
CONSTANTS
  Callers = {t1, t2, t3}
  Platforms <- MCPlatforms
  Requests <- MCRequests
INVARIANTS
  StartupInv
  TablesReadyWhenUsed
  CallersAgree
  KernelsCoverBuffer
  TablesAreTheField
  NextPrimeIsLeast
  SeedsInTables
  RowColumnsDistinct
  DeckIsPermutation
  MemoryIsGivenBack
PROPERTIES
  InitReturns

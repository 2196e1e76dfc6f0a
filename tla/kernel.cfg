SPECIFICATION MemorySpec
CONSTANTS
  NoRecord = NoRecord
  HookChain <- MCHookChain
  Decisions <- MCDecisions
  HasStore = TRUE
  MaxEvents = 3
  MaxCrashes = 2
  Wirings <- MCWirings
  Queries = {q}
  Values = {v}
  NoValue = NoValue
  MayWrite <- MCMayWrite
  MayRead <- MCMayRead
  MaxAccesses = 2
INVARIANTS
  TypeOK
  ObserversTrackTask
  HookAuthority
  TiersAnswerForThemselves
PROPERTIES
  FinishedStaysFinished
  ImplementsTaskRecord

SPECIFICATION FairSpec
CONSTANTS
  Steps <- MCSteps
  DelegateSteps <- MCDelegateSteps
  Deps <- MCDeps
  InitialPlans <- MCInitialPlans
  EntryStates = {"created", "delegated"}
  Decisions <- MCDecisions
  Vetoed <- MCVetoed
  Verdicts <- AllVerdicts
  StoreMayFail = TRUE
  HasExecutor = TRUE
  ToolReports = {5, 8}
  MaxIterations = 2
  MaxActions = 2
  MaxRuns = 1
INVARIANTS
  HandoffsThroughRuntime

SPECIFICATION FairSpec
CONSTANTS
  Steps <- MCSteps
  DelegateSteps <- MCDelegateSteps
  Deps <- MCDeps
  InitialPlans <- MCInitialPlans
  EntryStates = {"created", "delegated"}
  Decisions <- MCDecisions
  Vetoed <- MCVetoed
  Verdicts <- AllVerdicts
  StoreMayFail = TRUE
  HasExecutor = TRUE
  ToolReports = {5, 8}
  MaxIterations = 3
  MaxActions = 2
  MaxRuns = 2
INVARIANTS
  SubtasksReported
  BudgetRespected
  RevisitsDoNotCollide
  PlannedHandoffsDelegateTheTask
  NothingLeftPending
PROPERTIES
  RunReturns
  ImplementsDeepRun
  OnlyErrorsReopenSteps

SPECIFICATION Spec
CONSTANTS
  Settings <- MCSettings
  Steps <- MCSteps
  PlannedDelegates <- MCPlannedDelegates
  Deps <- MCDeps
  PlanStatuses = {"pending", "ready", "failed"}
  HasTools = TRUE
  ToolReports = {0, 7}
  MaxActions = 2
INVARIANTS
  NothingIsDelegated
  OutcomeTellsTheTask

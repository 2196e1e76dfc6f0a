SPECIFICATION Spec
CONSTANTS
  Flows = {"f1", "f2"}
  RunOf <- MCRunOf
  Routings <- MCRoutings
  Requests <- MCRequests
  DelegatorMayFail = TRUE
INVARIANTS
  ResultsAnswerTheirCalls
  FinalResponsesAreBacked
  ObserversFollowTheFlow

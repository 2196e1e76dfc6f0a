SPECIFICATION Spec
CONSTANTS
  Servers = {s1, s2}
  Requests <- SafetyRequests
  BlockingThreads = 1
  MaxSends = 2
  MaxStops = 1
SYMMETRY ServerSymmetry
INVARIANTS
  AnswersAreTrue
  
  OnlyStopsLoseRequests

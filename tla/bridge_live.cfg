SPECIFICATION FairSpec
CONSTANTS
  Servers = {s1}
  Requests <- LiveRequests
  BlockingThreads = 2
  MaxSends = 3
  MaxStops = 1
PROPERTIES
  OthersAreServed

SPECIFICATION DispatchSpec
CONSTANTS
  Calls = {"look", "write"}
  MaxIterations = 3
  MaxSteps = 3
  MaxAsked = 2
  Providers = {"p1", "p2"}
  Threads = {"t1", "t2"}
  ScopeOf <- MCScopeOf
  StepIds <- MCStepIds
  Scopes <- MCScopes
  Bodies <- MCBodies
  MaxFragments = 1
  MaxCalls = 5
INVARIANTS
  ToolsAreReachedOnce
  HostCallsAreCharged
  ConversationIsBounded
  WhatWasToldStays
  ProvidersDoNotCollideWithThemselves

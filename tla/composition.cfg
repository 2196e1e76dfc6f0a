SPECIFICATION PackingSpec
CONSTANTS
  AgentIds <- MCAgentIds
  Capabilities <- MCCapabilities
  ProviderIds <- MCProviderIds
  PackRefs <- MCPackRefs
  SetupRefs <- MCSetupRefs
  Catalog <- MCCatalog
  Requests <- MCRequests
  Packed <- MCPacked
  Additions <- MCAdditions
  Chains <- MCChains
INVARIANTS
  DependenciesServeTheirAgents
  
  BundleServesTheAgents
  ArchivesAreComplete
  NotFoundIsTrue

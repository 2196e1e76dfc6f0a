SPECIFICATION CliSpec
CONSTANTS
  Cwd <- MCCwd
  Files <- MCFiles
  AgentSuffixes <- MCAgentSuffixes
  CommandLines <- StarterCommand
  Documents <- MCDocuments
  TemplateCatalogs <- MCTemplateCatalogs
  ProviderCatalogs <- MCProviderCatalogs
  Templates <- MCTemplates
  Words = {"x", "y"}
  Counts = {0, 1, 2}
  Typed <- MCTyped
  WorkerCommands <- MCWorkerCommands
  Kinds <- MCKinds
  FirstDisk <- MCDisk
  Directories <- MCDirectories
  Stems <- MCStems
  PdfNames = {"faq.pdf", "torn.pdf"}
  MaxCommands = 0
INVARIANTS
  StarterTemplateIsUsed
CHECK_DEADLOCK FALSE

\* Two chunks or resizes after each of the situations of MCPrologues.
SPECIFICATION Spec
CONSTANTS
  Cap = 2
  PromptCap = 2
  I32Range = 4096
  UsizeRange = 65536
  Cols = 3
  Rows = 3
  Chunks <- MCChunks
  Prologues <- MCPrologues
  Sizes <- MCSizes
  MaxSteps = 2
INVARIANTS TerminalTypeOK Resyncs CombosOwned SearchExact
PROPERTIES HistoryGrows AltIsolated PenIsSgr ChunksDoNotMatter PromptFollowsLine
\* A run ends after MaxSteps.
CHECK_DEADLOCK FALSE

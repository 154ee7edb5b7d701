\* The window is widened after lines have scrolled into the history.
SPECIFICATION Spec
CONSTANTS
  Cap = 2
  PromptCap = 2
  I32Range = 4096
  UsizeRange = 65536
  Cols = 3
  Rows = 3
  Chunks <- MCChunks
  Prologues <- MCPrologues
  Sizes <- MCSizes
  MaxSteps = 2
INVARIANTS ViewportIsGrid
\* A run ends after MaxSteps.
CHECK_DEADLOCK FALSE

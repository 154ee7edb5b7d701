\* Two panes, two chunks of output and three actions of the user.
SPECIFICATION Spec
CONSTANTS
  Pane = {1, 2}
  NoPane = 0
  Ring = 3
  Rows = 2
  Step = 1
  MaxOut = 2
  MaxActs = 3
  MaxHits = 2
  Chunks <- MCChunks
  Commands <- MCCommands
  Keys <- MCKeys
INVARIANTS ViewTypeOK PinnedView
PROPERTIES OutputServed
\* The user and the sessions may stop.
CHECK_DEADLOCK FALSE

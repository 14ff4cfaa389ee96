SPECIFICATION TopologySpec
CONSTANTS
  r1 = r1
  r2 = r2
  p1 = p1
  p2 = p2
  Run = {r1}
  Proc = {p1, p2}
  Folder = {1, 2}
  Inside <- Nested
  None = None
  MaxChanges = 1
  MaxCommands = 2
  MaxRecorders = 2
SYMMETRY Symmetry
INVARIANTS
  CompletionCovers
  StartsClean
  RunsStayFindable
  ReadersFindProject
CHECK_DEADLOCK FALSE

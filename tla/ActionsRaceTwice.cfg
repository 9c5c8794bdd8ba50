SPECIFICATION Spec
CONSTANTS
  h1 = h1
  h2 = h2
  Handlers = {h1, h2}
  MaxDrafts = 1
  MaxApprovals = 1
SYMMETRY HandlerSymmetry
INVARIANTS
  TokenSpentOnce

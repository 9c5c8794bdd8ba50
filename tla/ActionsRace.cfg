SPECIFICATION Spec
CONSTANTS
  h1 = h1
  h2 = h2
  Handlers = {h1, h2}
  MaxDrafts = 3
  MaxApprovals = 2
SYMMETRY HandlerSymmetry
INVARIANTS
  OnlyApprovedIsGiven
  TokenFitsItsWords

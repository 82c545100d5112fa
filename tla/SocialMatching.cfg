SPECIFICATION Spec
CONSTANTS
  Members = {ann, ben, cid}
  Proposals = {p1, p2}
  Handlers = {h1, h2}
  Compatible <- MCCompatible
  Fickle = {ann}
  Overtaken = {h1}
  None = None
SYMMETRY MCSymmetry
INVARIANTS OneProposalEach 
PROPERTIES NotAfterRefusal ImplementsIntroductions
CHECK_DEADLOCK FALSE

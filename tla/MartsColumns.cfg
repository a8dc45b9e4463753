SPECIFICATION Spec
CONSTANTS
  Requests = {r1, r2, r3}
  Own <- OwnColumns
  Others <- OtherColumns
  Candidates <- TwoPicks
  None = None
INVARIANTS QueryIsValid BestPicked
PROPERTIES MapIsFinal

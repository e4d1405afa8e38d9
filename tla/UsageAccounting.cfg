SPECIFICATION Spec
CONSTANTS
  Calls = {m1, x1, x2}
  Primary = {m1}
  Operators = {o1}
  Allowance <- MCAllowance
  LastDay = 2
  MaxRevision = 2
  CallLimit = 2
  TokenLimit = 2
  MaxUnresolved = 2
  NoCorrection = NoCorrection
SYMMETRY CallSymmetry
INVARIANTS TypeOK Balanced SpendIsCovered EndedTurnOwnsNoCall DispatchAgrees
PROPERTIES OnlyEvidenceResolves ClosedCallIsNotSent ImplementsLimit
CHECK_DEADLOCK FALSE

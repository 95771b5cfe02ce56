SPECIFICATION Spec
CONSTANTS
  Session = {s1, s2}
  Connector = {c1}
  Credential = {k1, k2}
  Config = {good, bad}
  ValidConfig = {good}
  Secret = {x, y}
  Key = {key1}
  Null = Null
  Gone = Gone
SYMMETRY MCSymmetry
INVARIANTS TypeOK StoredIsSettled UndisputedVerdictHolds VerdictIsReported
PROPERTIES VerdictIsOfStored UndisputedLeavesNoSecret TestUsesGivenSecret

SPECIFICATION Spec
CONSTANTS
  Workspace = {w1}
  Project = {p1}
  Notebook = {n1}
  Cell = {c1, c2}
  Metadata = {m1}
  Dependency = {d1, d2}
  Package = {g1}
  Key = {k1, k2}
  None = None
  Session = {s1, s2}
  Endings = {"rollback"}
PROPERTY CreatedIsStored
CHECK_DEADLOCK FALSE

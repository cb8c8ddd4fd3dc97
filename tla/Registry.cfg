SPECIFICATION Spec
CONSTANTS
  m1 = m1
  m2 = m2
  c1 = c1
  e1 = e1
  e2 = e2
  r1 = r1
  r2 = r2
  Merchant = {m1, m2}
  Customer = {c1}
  Email = {e1, e2}
  Req = {r1, r2}
  Shapes <- MCShapes
  MaxRows = 2
  None = None
SYMMETRY Symmetry
INVARIANTS
  TypeOK
  DeletedStaysClosed
  SavedWithItsOwn
  BlockedOnlyBySubmit
CHECK_DEADLOCK FALSE

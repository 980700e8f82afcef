SPECIFICATION Spec
CONSTANTS
  ann = ann
  bob = bob
  r1 = r1
  r2 = r2
  None = None
  Malformed = Malformed
  Subjects = {ann, bob}
  Requests = {r1, r2}
  Lifetime = 1
  MaxTime = 2
SYMMETRY Symmetry
INVARIANTS TypeOK InstanceIsOwned
PROPERTIES OnlyOwnerServed

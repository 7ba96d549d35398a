SPECIFICATION Spec
CONSTANTS
  Processes = {p1, p2}
  RandomKeys = {m1, m2, m3}
  InjectedKey = me
  Offers = {o1, o2}
  None = None
  Partial = Partial
  Raw = Raw
SYMMETRY Symmetry
CHECK_DEADLOCK FALSE
INVARIANTS
  OneMasterKey
  ConsistentStartsSucceed
  PendingIsUsable
PROPERTY UpgradeSparesCurrent

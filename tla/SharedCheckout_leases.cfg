\* Three calls, a retried dispatch and another one, crashes.
SPECIFICATION Spec
CONSTANTS
  Call = {c1, c2, c3}
  l1 = l1
  l2 = l2
  l3 = l3
  d1 = d1
  d2 = d2
  Lease = {l1, l2, l3}
  Dispatch = {d1, d2}
  DispatchOf <- RetriedDispatch
  Nobody = Nobody
  NoLease = NoLease
  SharedLeaseCalls = FALSE
SYMMETRY CallSymmetry
INVARIANTS
  TypeOK
  ReadersExcludeWriters
  NoOrphanMarker
  HeldLeaseKeepsMarker
PROPERTIES
  BarrierSpec
\* Every lease may have been used, and every process may have crashed.
CHECK_DEADLOCK FALSE

\* Two calls that may use one lease at once, fair processes and clocks.
SPECIFICATION FairSpec
CONSTANTS
  Call = {c1, c2}
  l1 = l1
  l2 = l2
  l3 = l3
  d1 = d1
  d2 = d2
  Lease = {l1}
  Dispatch = {d1, d2}
  DispatchOf <- OneDispatch
  Nobody = Nobody
  NoLease = NoLease
  SharedLeaseCalls = TRUE
PROPERTIES
  EveryCallReturns
\* Every lease may have been used, and every process may have crashed.
CHECK_DEADLOCK FALSE

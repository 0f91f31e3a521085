\* Two calls at a time, two client requests, failing writes and crashes.
SPECIFICATION Spec
CONSTANTS
  c1 = c1
  c2 = c2
  k1 = k1
  k2 = k2
  k3 = k3
  s1 = s1
  s2 = s2
  t1 = t1
  t2 = t2
  Call = {c1, c2}
  Key = {k1, k2}
  Content = {s1, s2}
  Original = s1
  Tree = {t1}
  MaxVersion = 4
  MayBlock = FALSE
  MayTear = FALSE
  Nobody = Nobody
  None = None
SYMMETRY Symmetry
INVARIANTS
  TypeOK
  ProjectionFollowsHistory
  
PROPERTIES
  LedgerSpec

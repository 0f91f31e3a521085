\* Dispatches that find their Context stale, half-written lines.
SPECIFICATION Spec
CONSTANTS
  c1 = c1
  c2 = c2
  k1 = k1
  k2 = k2
  k3 = k3
  s1 = s1
  s2 = s2
  t1 = t1
  t2 = t2
  Call = {c1}
  Key = {k1, k2}
  Content = {s1, s2}
  Original = s1
  Tree = {t1, t2}
  MaxVersion = 5
  MayBlock = TRUE
  MayTear = TRUE
  Nobody = Nobody
  None = None
SYMMETRY Symmetry

  
PROPERTIES
  BrokenHistoryStandsStill

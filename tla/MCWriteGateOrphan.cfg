SPECIFICATION Spec
CONSTANTS
  g1 = g1
  g2 = g2
  s1 = s1
  m1 = m1
  r1 = r1
  f1 = f1
  None = None
  App = {g1}
  Cmd = {s1, m1, r1, f1}
  AppOf <- OneAppOf
  KindOf <- OneKindOf
INVARIANT
  NoOrphan

CONSTANTS
  p1 = p1  p2 = p2  p3 = p3  p4 = p4  p5 = p5
  g1 = g1  g2 = g2  g3 = g3  k1 = k1  k2 = k2  k3 = k3
  Groups = {g1, g2, g3}
  Parents = {p1, p2, p3, p4, p5}
  GroupOf <- ThreeGroups
  PkOf <- ThreeGroupsPk
  Addresses = {a1, a2, a3}
  Retained = {g1, g2}
  Modes = {TRUE, FALSE}
  MaxFaults = 1
  NoPage = NoPage  Unanswered = Unanswered  Failed = Failed
SPECIFICATION FairSpec
CHECK_DEADLOCK FALSE
INVARIANTS NeverWrongPage OneSharedRead
PROPERTIES ResolvesAsIfAlone FieldsAnswer

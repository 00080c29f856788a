CONSTANTS
  p1 = p1  p2 = p2  p3 = p3  p4 = p4  p5 = p5
  g1 = g1  g2 = g2  g3 = g3  k1 = k1  k2 = k2  k3 = k3
  r1 = r1  r2 = r2  r3 = r3  r4 = r4  author = author  reviewer = reviewer
  Groups = {g1, g2, g3}
  Parents = {p1, p2, p3, p4, p5}
  GroupOf <- ThreeGroups
  PkOf <- ThreeGroupsPk
  Addresses = {a1, a2, a3, a4}
  Retained = {}
  Rows = {r1, r2, r3, r4}
  Columns = {author, reviewer}
  ValueOf <- TableRows
  Outcomes <- PlainOutcome
  MaxFaults = 0
  Missing = Missing  Unanswered = Unanswered  Failed = Failed
SPECIFICATION Spec
SYMMETRY AddressSymmetry
CHECK_DEADLOCK FALSE
INVARIANT NeverWrongRows

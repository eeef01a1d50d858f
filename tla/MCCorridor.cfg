CONSTANTS
  Worker = {w1}
  Strategy = {s1, s2}
  Approval = {p1, p2, p3}
  Attempt = {a1, a2, a3}
  Underlying <- OwnSymbol
  Quantity = 2
  Cap = 2
  MaxRung = 1
  MaxFaults = 1
  None = None
SYMMETRY Symmetry
SPECIFICATION Spec
INVARIANTS TypeOK SendIsBacked NoDoubleExposure RiskIsVisible SpentIsExplained
PROPERTIES SendsAlone RecordsAreFinal ImplementsLicence
CHECK_DEADLOCK FALSE

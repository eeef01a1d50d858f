CONSTANTS
  Worker = {w1, w2}
  Attempt = {a1, a2, a3}
  Limits = {1, 2}
  Cap = 2
  MaxDay = 2
  MaxExits = 1
  Tooling = TRUE
SYMMETRY Symmetry
SPECIFICATION MCSpec
INVARIANTS TypeOK SessionCap GrantedIsHeld DayCap SlotInv
PROPERTY SlotsNeverForgotten

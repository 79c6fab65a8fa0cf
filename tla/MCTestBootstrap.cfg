SPECIFICATION BootSpec
CONSTANTS
  Tools = {t1, t2}
  MaxDisturbances = 2
SYMMETRY MCSymmetry
INVARIANTS
  BootTypeOK
  ReportsAreGrounded
PROPERTY RunsAreWhole

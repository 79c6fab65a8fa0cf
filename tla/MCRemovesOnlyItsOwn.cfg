SPECIFICATION BootSpec
CONSTANTS
  Tools = {t1}
  MaxDisturbances = 1
PROPERTY RemovesOnlyItsOwn

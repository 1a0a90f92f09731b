SPECIFICATION Spec
CONSTANTS
  MaxRate = 3
  POWER_DOWN_FREQ = 1
INVARIANTS
  VoltageBeforeFrequency

SPECIFICATION Spec
CONSTANTS
  Processes = {1, 2, 3}
  MaxKills = 1
  MaxRefused = 1
  MaxBoxes = 2
  MaxMishaps = 2
INVARIANTS TypeOK OneInstance
PROPERTIES RequestsKept ExitHonoured ShowHonoured
CHECK_DEADLOCK FALSE

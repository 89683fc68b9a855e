SPECIFICATION Spec
CONSTANTS
  KeyIds <- MCKeyIds
  Devices = {1, 2}
  Layouts <- MCLayouts
  Lossy = {"Tab", "RightAlt"}
  Repeating = {"A", "Tab", "Numpad7"}
  MaxPresses = 3
  MaxQueue = 2
  MaxRare = 2
INVARIANTS TypeOK NoDoubleCount EveryPressCounted HeldAreDown
PROPERTIES StuckKeysRecover

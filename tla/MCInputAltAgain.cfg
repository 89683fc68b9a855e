SPECIFICATION Spec
CONSTANTS
  KeyIds <- MCKeyIds
  Devices = {1}
  Layouts <- MCAltTab
  Lossy = {}
  Repeating = {}
  MaxPresses = 3
  MaxQueue = 2
  MaxRare = 0
INVARIANTS OncePerPress

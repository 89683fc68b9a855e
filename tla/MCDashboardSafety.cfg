SPECIFICATION Spec
CONSTANTS
  Keys = {a}
  MaxCount = 9
  MaxMinute = 2
  Presets = {"All", "Custom"}
  CustomRanges <- MCRanges
  DayLen = 3
  RecentLen = 2
  MaxPresses = 2
  MaxSelects = 1
  MaxRefusals = 1
  MaxErrors = 1
  MaxExits = 1
  MaxSetBacks = 1
  MaxMishaps = 2
INVARIANTS TypeOK TotalNeverAhead ShownNeverAhead

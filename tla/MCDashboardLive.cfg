SPECIFICATION Spec
CONSTANTS
  Keys = {a}
  MaxCount = 9
  MaxMinute = 1
  Presets = {"All"}
  CustomRanges <- NoRanges
  DayLen = 1
  RecentLen = 2
  MaxPresses = 3
  MaxSelects = 0
  MaxRefusals = 0
  MaxErrors = 1
  MaxExits = 0
  MaxSetBacks = 1
  MaxMishaps = 1
PROPERTIES TotalCatchesUp LivePressShown

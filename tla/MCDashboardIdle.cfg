SPECIFICATION Spec
CONSTANTS
  Keys = {a}
  MaxCount = 9
  MaxMinute = 2
  Presets = {"Recent"}
  CustomRanges <- NoRanges
  DayLen = 3
  RecentLen = 2
  MaxPresses = 1
  MaxSelects = 1
  MaxRefusals = 0
  MaxErrors = 0
  MaxExits = 0
  MaxSetBacks = 0
  MaxMishaps = 0
PROPERTIES PressInRangeShown

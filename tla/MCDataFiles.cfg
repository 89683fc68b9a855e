SPECIFICATION Spec
CONSTANTS
  Keys = {0, 1}
  KeyCount = 2
  MaxCount = 9
  MaxMinute = 1
  Absent = Absent
  Garbled = Garbled
  Null = Null
  NoFile = NoFile
  Earlier = Earlier
  GoodFiles <- MCGoodFiles
  BadFiles <- MCBadFiles
  OldRows <- MCOldRows
  Ranges <- MCRanges
  InUse = {1}
  MaxPresses = 2
  MaxExports = 1
  MaxFaults = 1
  MaxKills = 1
  MaxEdits = 1
  MaxSetBacks = 1
  MaxMishaps = 3
INVARIANTS TypeOK BlobsReadExactly ExportIsComplete StartsUnlessSpoiled
PROPERTIES DestinationReplacedWhole UserSettingsKept

SPECIFICATION Spec
CONSTANTS
  Keys = {a}
  MaxCount = 2
  FlushSlices = 2
  MaxMinute = 1
  MaxPresses <- BothBusy
  MaxWaitId = 1
  MaxQueue = 1
  MaxFailures = 0
  MaxBackSteps = 0
  MaxCrashes = 0
INVARIANTS CleanExitKeepsEveryPress

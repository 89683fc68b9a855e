SPECIFICATION Spec
CONSTANTS
  Keys = {a}
  MaxCount = 2
  FlushSlices = 1
  MaxMinute = 1
  MaxPresses <- FirstBusy
  MaxWaitId = 1
  MaxQueue = 1
  MaxFailures = 1
  MaxBackSteps = 1
  MaxCrashes = 1
INVARIANTS TypeOK NeverOvercounts NoSilentLoss FlushVerdict NoLostWakeup

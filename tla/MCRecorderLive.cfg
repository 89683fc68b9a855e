SPECIFICATION Spec
CONSTANTS
  Keys = {a}
  MaxCount = 2
  FlushSlices = 1
  MaxMinute = 1
  MaxPresses <- OnePress
  MaxWaitId = 1
  MaxQueue = 1
  MaxFailures = 1
  MaxBackSteps = 1
  MaxCrashes = 0
PROPERTIES FlushReturns DisposeTerminates AutoSave ImplementsLedger

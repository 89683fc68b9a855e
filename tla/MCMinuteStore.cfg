SPECIFICATION Spec
CONSTANTS
  Keys = {a}
  Times <- MCTimes
  BlockLen = 2
  MaxCount = 3
  NewestKeyMap = 3
  MaxRowCount = 2
  MaxSaves = 2
  MaxFailures = 1
INVARIANTS TypeOK SchemaComplete RollupsExact AggregateOnce SeriesOnce AnswerReadable

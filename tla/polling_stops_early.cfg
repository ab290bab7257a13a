SPECIFICATION WebSpec
CONSTANTS
  Keys = {details}
  NoAnswer = NoAnswer
  MaxChanges = 7
  MaxMoves = 0
PROPERTY PollingStopsOnlyWhenSettled
CHECK_DEADLOCK FALSE

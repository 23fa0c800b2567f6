SPECIFICATION NotifierSpec
CONSTANTS
  MaxNotes = 2
  Lists = {{"webhook"}, {"logfile", "bell"}}
  Attempts = 3
  Timeout = 5
  Pause = 1
  Deadline = 10
INVARIANTS RecoveredEndpointIsReached DeadlineIsKept RepeatedOnlyWhenUnsure
  LogTellsSettledNotes
CHECK_DEADLOCK FALSE

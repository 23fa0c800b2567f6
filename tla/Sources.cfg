SPECIFICATION SourcesSpec
CONSTANTS
  MaxLines = 2
  MaxFiles = 2
  MaxTruncs = 2
  Families <- MCFamilies
  Interval = 2
  Timeout = 5
  Ceiling = 30
  PIDs = {1, 2}
  Word = 16
  MaxHost = 2
  MaxStarts = 2
  Datagrams <- MCDatagrams
  Streams = {1, 2}
  StreamLines = 3
  Huge = {2}
  LinesCap = 1
INVARIANTS EmittedInOrder NoHistory RecoversInTime ShareIsBounded
PROPERTIES WrittenIsEmitted FollowsRotation EndsWhenCancelled
CHECK_DEADLOCK FALSE

SPECIFICATION FairSpec
CONSTANTS
  r1 = r1
  r2 = r2
  m1 = m1
  bell = bell
  webhook = webhook
  Rules <- TwoRules
  Services <- OneService
  Labels = {none, l}
  NoLabels = none
  Values = {0, 2}
  SeriesCap = 1
  Notifiers = {bell}
  MaxAge = 2
  HasProgram = TRUE
INVARIANTS TuiFollowsEngine NotifiersFollowEngine
PROPERTIES FiresOnlyAfterFor ResolvesOnlyWhenClear AlertsSettle

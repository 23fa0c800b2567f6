SPECIFICATION FairSpec
CONSTANTS
  busy = busy
  quiet = quiet
  Sources = {busy, quiet}
  Pump = pump
  Publishers = {pump}
  Subscribers = {s1, s2}
  Events <- EventSet
  Quota <- Quotas
  BufSize = 2
  OutCap = 1
  LogCap = 2
INVARIANTS LogsInEmissionOrder NoSendOnClosed NoSilentLoss SubscribersSeeStoreOrder
PROPERTIES ImplementsLossyFifo AcceptedIsStored

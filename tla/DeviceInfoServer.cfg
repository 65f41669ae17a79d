\* Clients of one kind, any of which may never read; shutdown at any time.
SPECIFICATION FairSpec
CONSTANTS
  h1 = h1
  h2 = h2
  e1 = e1
  m1 = m1
  m2 = m2
  l1 = l1
  l2 = l2
  HealthClients = {h1, h2}
  EventClients = {e1}
  MetricPushers = {m1, m2}
  LogPushers = {l1, l2}
  NoClient = NoClient
  Workloads <- Loads
INVARIANTS
  InitialSendAlone
  BroadcastComplete
PROPERTIES
  NeverBackwards
  ClientsFreed
CHECK_DEADLOCK FALSE

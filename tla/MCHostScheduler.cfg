SPECIFICATION FairSpec
CONSTANTS
  Tasks = {t1, t2, t3}
  Hosts = {h1, h2}
  NoTask = NoTask
  NoHost = NoHost
  GlobalLimit = 2
  PerHost = 1
  MaxDelay = 2
INVARIANTS PermitsConserved
PROPERTIES GateKeepsDelay EveryCallIsServed

SPECIFICATION TimedSpec
CONSTANTS
  Replicas = 2
  NoHolder = NoHolder
  LeaseDuration <- MCLeaseDuration
  RenewInterval <- MCRenewInterval
  ObserveInterval <- MCObserveInterval
  StartupGrace <- MCStartupGrace
  MaxBackoff <- MCMaxBackoff
  DeleteSleep <- MCDeleteSleep
  MaxDowntime <- MCMaxDowntime
  Flaky <- NoPods
  SlowStart <- NoPods
  FaultKinds <- CrashFaults
  MaxFaults = 2
INVARIANTS OutageBounded
PROPERTIES FailoverCompletes HolderServes

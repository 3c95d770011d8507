SPECIFICATION Spec
CONSTANTS
  Replicas = 2
  NoHolder = NoHolder
  LeaseDuration <- MCLeaseDuration
  RenewInterval <- MCRenewInterval
  ObserveInterval <- MCObserveInterval
  StartupGrace <- MCStartupGrace
  MaxBackoff <- MCMaxBackoff
  DeleteSleep <- MCDeleteSleep
  MaxDowntime <- MCMaxDowntime
  Flaky <- Pod1
  SlowStart <- BothPods
  FaultKinds <- AllFaultKinds
  MaxFaults = 2
INVARIANTS LeaseInv
PROPERTIES TakeoverOnlyWhenExpired HealthyHolderNotVotedOut

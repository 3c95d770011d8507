SPECIFICATION OpFairSpec
CONSTANTS
  Replicas = 2
  NoHolder = NoHolder
  LeaseDuration <- MCLeaseDuration
  RenewInterval <- MCRenewInterval
  ObserveInterval <- MCObserveInterval
  StartupGrace <- MCStartupGrace
  MaxBackoff <- MCMaxBackoff
  DeleteSleep <- MCDeleteSleep
  MaxDowntime <- MCMaxDowntime
  Flaky <- NoPods
  SlowStart <- Pod0
  FaultKinds <- OperatorFaults
  MaxFaults = 1
INVARIANTS OpTypeOK
PROPERTIES RoutingConverges StatusForgetsDeadHolder RoutingIsKept

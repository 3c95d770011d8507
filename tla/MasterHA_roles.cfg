SPECIFICATION TimelySpec
CONSTANTS
  Replicas = 3
  NoHolder = NoHolder
  LeaseDuration <- TensLeaseDuration
  RenewInterval <- TensRenewInterval
  ObserveInterval <- TensObserveInterval
  StartupGrace <- TensStartupGrace
  MaxBackoff <- TensMaxBackoff
  DeleteSleep <- TensDeleteSleep
  MaxDowntime <- TensMaxDowntime
  Flaky <- Pod1
  SlowStart <- BothPods
  FaultKinds <- AllFaultKinds
  MaxFaults = 2
INVARIANTS TypeOK AtMostOneMaster DeposedStopsInTime
PROPERTIES RoleSpec RenewalKeepsHolder
CHECK_DEADLOCK FALSE

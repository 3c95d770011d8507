SPECIFICATION FairSpec
CONSTANTS
  Replicas = 2
  NoHolder = NoHolder
  LeaseDuration <- MCLeaseDuration
  RenewInterval <- MCRenewInterval
  ObserveInterval <- MCObserveInterval
  StartupGrace <- MCStartupGrace
  MaxBackoff <- MCMaxBackoff
  DeleteSleep <- MCDeleteSleep
  MaxDowntime <- MCMaxDowntime
  Flaky <- NoPods
  SlowStart <- Pod0
  FaultKinds <- NodeFault
  MaxFaults = 1
PROPERTIES SurvivesNodeLoss

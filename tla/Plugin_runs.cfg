CONSTANTS
  Runs = {alice, bob}
  Names = {n1}
  NameOf <- MCNameOf
  Script <- Filegoals
  NoPod = NoPod
  FaultKinds = {"api", "interrupt", "drain", "evict"}
  MaxFaults = 2
SPECIFICATION Spec
INVARIANTS TypeOK SuccessMeansOver ExitCodeIsOwn NothingLeftBehind
PROPERTIES OwnPodOnly PodsGoAway

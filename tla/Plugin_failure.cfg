CONSTANTS
  Runs = {alice}
  Names = {n1}
  NameOf <- MCNameOf
  Script <- Admins
  NoPod = NoPod
  FaultKinds = {}
  MaxFaults = 0
SPECIFICATION Spec
INVARIANT FailureIsReported

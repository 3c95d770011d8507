-------------------------- MODULE MasterHA_proofs --------------------------
(***************************************************************************)
(* Proofs about the election, for any number of pods, any durations and    *)
(* any set of faults: type correctness, the invariant LeaseInv and the two *)
(* action properties that follow from it.                                  *)
(***************************************************************************)
EXTENDS MasterHA, TLAPS

USE DurationAssumption, ReplicasAssumption, NoHolderAssumption, FaultAssumption

LEMMA InitTypeOK == Init => TypeOK
<1> SUFFICES ASSUME Init
             PROVE  TypeOK
  OBVIOUS
<1> USE DEF Init
<1>1. /\ created \in BOOLEAN
      /\ holder \in Pods \cup {NoHolder}
      /\ seen \in SUBSET Pods
  OBVIOUS
<1>6. age \in 0 .. MaxAge /\ faults \in 0 .. MaxFaults
  BY DEF MaxAge
<1>2. phase \in [Pods -> Phases] /\ pc \in [Pods -> Labels]
  BY DEF Phases, Labels
<1>3. personality \in [Pods -> {"none", "master", "shadow"}]
  OBVIOUS
<1>4. sfs \in [Pods -> {"up", "down"}]
  OBVIOUS
<1>5. timer \in [Pods -> Nat] /\ grace \in [Pods -> 0 .. StartupGrace]
  OBVIOUS
<1>7. late \in [Pods -> 0 .. MaxAge]
  BY DEF MaxAge
<1> QED  BY <1>1, <1>2, <1>3, <1>4, <1>5, <1>6, <1>7 DEF TypeOK

LEMMA NextTypeOK == TypeOK /\ [Next]_vars => TypeOK'
<1> SUFFICES ASSUME TypeOK, [Next]_vars
             PROVE  TypeOK'
  OBVIOUS
<1> USE DEF TypeOK, MaxAge, leaseVars, podVars, loopVars
<1>1. CASE BootstrapLease
  BY <1>1 DEF BootstrapLease
<1>2. CASE Tick
  <2>1. timer' \in [Pods -> Nat] /\ grace' \in [Pods -> 0 .. StartupGrace]
    BY <1>2 DEF Tick, Less, Older, Patching
  <2>2. age' \in 0 .. MaxAge /\ late' \in [Pods -> 0 .. MaxAge]
    BY <1>2 DEF Tick, Older, MaxAge
  <2> QED  BY <1>2, <2>1, <2>2 DEF Tick
<1>3. ASSUME NEW p \in Pods, Sidecar(p)
      PROVE  TypeOK'
  <2> USE DEF At, GoTo, WriteLease, Fault, CallFault, Labels
  <2>1. CASE ObserveLease(p)
    BY <2>1 DEF ObserveLease, Backoffs
  <2>2. CASE ObserveNothing(p)
    BY <2>2 DEF ObserveNothing
  <2>3. CASE RenewLease(p)
    BY <2>3 DEF RenewLease
  <2>4. CASE ReleaseLease(p)
    BY <2>4 DEF ReleaseLease
  <2>5. CASE AcquireLease(p)
    BY <2>5 DEF AcquireLease
  <2>6. CASE DeleteSelf(p)
    BY <2>6 DEF DeleteSelf, StopSidecar, BranchSleep, Phases
  <2> QED  BY <1>3, <2>1, <2>2, <2>3, <2>4, <2>5, <2>6 DEF Sidecar
<1>4. ASSUME NEW p \in Pods, PodStart(p)
      PROVE  TypeOK'
  <2> USE DEF GoTo, Fault, CallFault, Phases, Labels
  <2>1. CASE TerminatePod(p)
    BY <2>1 DEF TerminatePod
  <2>2. CASE CreatePod(p)
    BY <2>2 DEF CreatePod, Creatable
  <2>3. CASE InitConfig(p)
    BY <2>3 DEF InitConfig
  <2>4. CASE StartContainers(p)
    BY <2>4 DEF StartContainers
  <2>5. CASE RestartSfsmaster(p)
    BY <2>5 DEF RestartSfsmaster
  <2> QED  BY <1>4, <2>1, <2>2, <2>3, <2>4, <2>5 DEF PodStart
<1>5. ASSUME NEW p \in Pods, Crash(p) \/ RecoverNode(p)
      PROVE  TypeOK'
  <2> USE DEF GoTo, Fault, Phases, Labels
  <2>1. CASE CrashSfsmaster(p)
    BY <2>1 DEF CrashSfsmaster
  <2>2. CASE CrashSidecar(p)
    BY <2>2 DEF CrashSidecar
  <2>3. CASE CrashNode(p)
    BY <2>3 DEF CrashNode, StopSidecar
  <2>4. CASE RecoverNode(p)
    BY <2>4 DEF RecoverNode
  <2> QED  BY <1>5, <2>1, <2>2, <2>3, <2>4 DEF Crash
<1>6. CASE UNCHANGED vars
  BY <1>6 DEF vars
<1> QED  BY <1>1, <1>2, <1>3, <1>4, <1>5, <1>6 DEF Next

\* Every reachable state of the election has the types the module declares.
THEOREM TypeCorrect == Spec => []TypeOK
<1>1. Init => TypeOK
  BY InitTypeOK
<1>2. TypeOK /\ [Next]_vars => TypeOK'
  BY NextTypeOK
<1> QED  BY <1>1, <1>2, PTL DEF Spec

-----------------------------------------------------------------------------
(***************************************************************************)
(* LeaseInv is inductive relative to TypeOK.  Every write to the Lease     *)
(* empties seen, and a sidecar leaves the label acquire before it can hold *)
(* the Lease: that keeps AcquirerInv.  A good connection never fails a     *)
(* call, so the only sleep of a holder is the one after a renewal, and a   *)
(* tick moves one unit from timer to age: that keeps SleeperInv.           *)
(***************************************************************************)
LEMMA InitLeaseInv == Init => LeaseInv
  BY DEF Init, MaxAge, LeaseInv, AcquirerInv, SleeperInv, Pods

LEMMA NextAcquirerInv ==
  TypeOK /\ LeaseInv /\ [Next]_vars => AcquirerInv'
<1> SUFFICES ASSUME TypeOK, LeaseInv, [Next]_vars
             PROVE  AcquirerInv'
  OBVIOUS
<1> USE DEF TypeOK, MaxAge, LeaseInv, AcquirerInv, Expired, leaseVars, podVars, loopVars
<1>1. CASE BootstrapLease
  BY <1>1 DEF BootstrapLease
<1>2. CASE Tick
  BY <1>2 DEF Tick, Older
<1>3. ASSUME NEW p \in Pods, Sidecar(p)
      PROVE  AcquirerInv'
  <2> USE DEF At, GoTo, WriteLease
  <2>1. CASE ObserveLease(p)
    BY <2>1 DEF ObserveLease, Backoffs
  <2>2. CASE ObserveNothing(p)
    BY <2>2 DEF ObserveNothing
  <2>3. CASE RenewLease(p)
    BY <2>3 DEF RenewLease
  <2>4. CASE ReleaseLease(p)
    BY <2>4 DEF ReleaseLease
  <2>5. CASE AcquireLease(p)
    BY <2>5 DEF AcquireLease
  <2>6. CASE DeleteSelf(p)
    BY <2>6 DEF DeleteSelf, StopSidecar
  <2> QED  BY <1>3, <2>1, <2>2, <2>3, <2>4, <2>5, <2>6 DEF Sidecar
<1>4. ASSUME NEW p \in Pods, PodStart(p)
      PROVE  AcquirerInv'
  <2>1. CASE TerminatePod(p)
    BY <2>1 DEF TerminatePod
  <2>2. CASE CreatePod(p)
    BY <2>2 DEF CreatePod, Creatable
  <2>3. CASE InitConfig(p)
    BY <2>3 DEF InitConfig
  <2>4. CASE StartContainers(p)
    BY <2>4 DEF StartContainers, GoTo
  <2>5. CASE RestartSfsmaster(p)
    BY <2>5 DEF RestartSfsmaster
  <2> QED  BY <1>4, <2>1, <2>2, <2>3, <2>4, <2>5 DEF PodStart
<1>5. ASSUME NEW p \in Pods, Crash(p) \/ RecoverNode(p)
      PROVE  AcquirerInv'
  <2>1. CASE CrashSfsmaster(p)
    BY <2>1 DEF CrashSfsmaster
  <2>2. CASE CrashSidecar(p)
    BY <2>2 DEF CrashSidecar, GoTo
  <2>3. CASE CrashNode(p)
    BY <2>3 DEF CrashNode, StopSidecar, GoTo
  <2>4. CASE RecoverNode(p)
    BY <2>4 DEF RecoverNode
  <2> QED  BY <1>5, <2>1, <2>2, <2>3, <2>4 DEF Crash
<1>6. CASE UNCHANGED vars
  BY <1>6 DEF vars
<1> QED  BY <1>1, <1>2, <1>3, <1>4, <1>5, <1>6 DEF Next

LEMMA NextSleeperInv ==
  TypeOK /\ LeaseInv /\ [Next]_vars => SleeperInv'
<1> SUFFICES ASSUME TypeOK, LeaseInv, [Next]_vars
             PROVE  SleeperInv'
  OBVIOUS
<1> USE DEF TypeOK, MaxAge, LeaseInv, AcquirerInv, SleeperInv, leaseVars, podVars, loopVars
<1>1. CASE BootstrapLease
  BY <1>1 DEF BootstrapLease
<1>2. CASE Tick
  <2>1. age' <= age + 1 /\ age' \in Nat
    BY <1>2 DEF Tick, Older
  <2>2. ASSUME NEW p \in Pods \ Flaky
        PROVE  /\ late'[p] = 0
               /\ (holder = p /\ phase[p] = "running" /\ timer[p] > 0 => age + timer[p] <= RenewInterval)'
    <3>1. ~Patching(p)
      BY <1>2 DEF Tick, Urgent, Patching
    <3> QED  BY <1>2, <2>1, <3>1 DEF Tick, Less
  <2>3. \A p \in Pods : timer'[p] > 0 => timer[p] > 0
    BY <1>2 DEF Tick, Less
  <2> QED  BY <1>2, <2>2, <2>3 DEF Tick
<1>3. ASSUME NEW p \in Pods, Sidecar(p)
      PROVE  SleeperInv'
  <2> USE DEF At, GoTo, WriteLease, CallFault
  <2>1. CASE ObserveLease(p)
    BY <2>1 DEF ObserveLease, Backoffs
  <2>2. CASE ObserveNothing(p)
    BY <2>2 DEF ObserveNothing
  <2>3. CASE RenewLease(p)
    BY <2>3 DEF RenewLease
  <2>4. CASE ReleaseLease(p)
    BY <2>4 DEF ReleaseLease
  <2>5. CASE AcquireLease(p)
    BY <2>5 DEF AcquireLease
  <2>6. CASE DeleteSelf(p)
    BY <2>6 DEF DeleteSelf, StopSidecar
  <2> QED  BY <1>3, <2>1, <2>2, <2>3, <2>4, <2>5, <2>6 DEF Sidecar
<1>4. ASSUME NEW p \in Pods, PodStart(p)
      PROVE  SleeperInv'
  <2>1. CASE TerminatePod(p)
    BY <2>1 DEF TerminatePod
  <2>2. CASE CreatePod(p)
    BY <2>2 DEF CreatePod, Creatable
  <2>3. CASE InitConfig(p)
    BY <2>3 DEF InitConfig
  <2>4. CASE StartContainers(p)
    BY <2>4 DEF StartContainers, GoTo
  <2>5. CASE RestartSfsmaster(p)
    BY <2>5 DEF RestartSfsmaster
  <2> QED  BY <1>4, <2>1, <2>2, <2>3, <2>4, <2>5 DEF PodStart
<1>5. ASSUME NEW p \in Pods, Crash(p) \/ RecoverNode(p)
      PROVE  SleeperInv'
  <2>1. CASE CrashSfsmaster(p)
    BY <2>1 DEF CrashSfsmaster
  <2>2. CASE CrashSidecar(p)
    BY <2>2 DEF CrashSidecar, GoTo
  <2>3. CASE CrashNode(p)
    BY <2>3 DEF CrashNode, StopSidecar, GoTo
  <2>4. CASE RecoverNode(p)
    BY <2>4 DEF RecoverNode
  <2> QED  BY <1>5, <2>1, <2>2, <2>3, <2>4 DEF Crash
<1>6. CASE UNCHANGED vars
  BY <1>6 DEF vars
<1> QED  BY <1>1, <1>2, <1>3, <1>4, <1>5, <1>6 DEF Next

(* The invariant the run MasterHA_faults checks: what an acquiring sidecar and
   a sleeping holder may rely on, in every reachable state. *)
THEOREM LeaseInvariant == Spec => []LeaseInv
<1>1. Init => LeaseInv
  BY InitLeaseInv
<1>2. TypeOK /\ LeaseInv /\ [Next]_vars => LeaseInv'
  BY NextAcquirerInv, NextSleeperInv DEF LeaseInv
<1> QED  BY <1>1, <1>2, TypeCorrect, PTL DEF Spec

LEMMA TakeoverStep ==
  ASSUME TypeOK, LeaseInv, Next,
         NEW p \in Pods, pc[p] = "acquire", holder # p, holder' = p
  PROVE  Expired
<1> USE DEF leaseVars, podVars, loopVars
<1>1. p # NoHolder
  OBVIOUS
<1>2. ASSUME NEW q \in Pods, Sidecar(q)
      PROVE  Expired
  <2>1. CASE ObserveLease(q)
    BY <2>1 DEF ObserveLease, Backoffs
  <2>2. CASE ObserveNothing(q)
    BY <2>2 DEF ObserveNothing
  <2>3. CASE RenewLease(q)
    BY <2>3 DEF RenewLease, WriteLease, At
  <2>4. CASE ReleaseLease(q)
    BY <1>1, <2>4 DEF ReleaseLease, WriteLease
  <2>5. CASE AcquireLease(q)
    BY <2>5 DEF AcquireLease, WriteLease, LeaseInv, AcquirerInv
  <2>6. CASE DeleteSelf(q)
    BY <2>6 DEF DeleteSelf
  <2> QED  BY <1>2, <2>1, <2>2, <2>3, <2>4, <2>5, <2>6 DEF Sidecar
<1>3. ASSUME NEW q \in Pods, PodStart(q) \/ Crash(q) \/ RecoverNode(q)
      PROVE  FALSE
  BY <1>3 DEF PodStart, Crash, RecoverNode, TerminatePod, CreatePod, Creatable,
              InitConfig, StartContainers, RestartSfsmaster, CrashSfsmaster, CrashSidecar, CrashNode
<1> QED  BY <1>2, <1>3 DEF Next, BootstrapLease, Tick

(* No sidecar ever takes over a Lease that is not expired at the moment the API
   server applies its PATCH, whatever fails and however late it wakes up. *)
THEOREM TakeoverSafety == Spec => TakeoverOnlyWhenExpired
<1>1. TypeOK /\ LeaseInv /\ [Next]_vars
        => [\A p \in Pods :
              pc[p] = "acquire" /\ holder # p /\ holder' = p => Expired]_vars
  BY TakeoverStep
<1> QED  BY <1>1, TypeCorrect, LeaseInvariant, PTL DEF Spec, TakeoverOnlyWhenExpired

(* A master whose pod keeps running and whose connection to the API server is
   good is never voted out in its sleep, for every number of pods, every startup
   grace and every behaviour of the other pods. *)
THEOREM HealthyHolderSafety == Spec => HealthyHolderNotVotedOut
<1>1. TypeOK /\ LeaseInv /\ [Next]_vars
        => [\A p \in Pods \ Flaky :
              /\ holder = p
              /\ phase[p] = "running"
              /\ timer[p] > 0
              => \A q \in Pods \ {p} : ~(pc[q] = "acquire" /\ holder' = q)]_vars
  <2> SUFFICES ASSUME TypeOK, LeaseInv, Next,
                      NEW p \in Pods \ Flaky,
                      holder = p, phase[p] = "running", timer[p] > 0,
                      NEW q \in Pods \ {p}, pc[q] = "acquire", holder' = q
               PROVE  FALSE
    OBVIOUS
  <2>1. age + timer[p] <= RenewInterval /\ timer[p] \in Nat /\ age \in Nat
    BY DEF LeaseInv, SleeperInv, TypeOK, MaxAge
  <2>2. ~Expired
    BY <2>1, RenewalAssumption DEF Expired
  <2>3. Expired
    BY TakeoverStep
  <2> QED  BY <2>2, <2>3
<1> QED  BY <1>1, TypeCorrect, LeaseInvariant, PTL DEF Spec, HealthyHolderNotVotedOut
=============================================================================

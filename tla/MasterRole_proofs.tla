-------------------------- MODULE MasterRole_proofs --------------------------
(***************************************************************************)
(* Proof that the election implements MasterRole, and so has one master at *)
(* most, for any number of pods, any durations and any number and kind of  *)
(* faults, as long as the deadlines of TimelySpec are met.  That there is  *)
(* a takeover at all is the point: the invariant says where the previous   *)
(* master can be when the Lease runs out, namely nowhere.                  *)
(***************************************************************************)
EXTENDS MasterHA_proofs

(* Where a sidecar is tells whose the Lease is: nobody comes between its GET and the
   PATCH that follows, and what it writes is no older than the Lease. *)
LabelInv ==
  \A p \in Pods :
    phase[p] = "running" /\ pc[p] \in {"renew", "release"}
      => holder = p /\ late[p] <= age

\* A holder that is up and well connected keeps its Lease young, and it is the master
\* when it starts.
HolderInv ==
  \A p \in Pods \ Flaky :
    holder = p =>
      /\ phase[p] = "running" => ~Expired
      /\ phase[p] = "starting" => personality[p] = "master"

(* A pod configured as master holds the Lease, or has given it up itself: then, if
   well connected, it deletes itself at once, and is gone after its downtime. *)
MasterInv ==
  /\ \A p \in Pods :
       personality[p] = "master" =>
         /\ phase[p] \in {"starting", "running", "terminating"}
         /\ holder \in {p, NoHolder}
         /\ phase[p] = "starting" => holder = p
         /\ phase[p] = "running" => pc[p] # "acquired"
         /\ phase[p] = "running" /\ p \notin Flaky
              => holder = p \/ (pc[p] = "released" /\ age = 0)
         /\ phase[p] = "terminating" /\ p \notin Flaky \cup SlowStart /\ holder # p
              => age + timer[p] <= MaxDowntime
  /\ \A p, q \in Pods : personality[p] = "master" /\ personality[q] = "master" => p = q

RoleInv == Timely /\ LabelInv /\ HolderInv /\ MasterInv

USE DurationAssumption, ReplicasAssumption, NoHolderAssumption, FaultAssumption

-----------------------------------------------------------------------------
(***************************************************************************)
(* RoleInv is inductive relative to TypeOK and LeaseInv.                   *)
(***************************************************************************)
LEMMA InitRoleInv == Init => RoleInv
  BY DEF Init, RoleInv, Timely, LabelInv, HolderInv, MasterInv, Expired, MaxAge

(* When a shadow may take the Lease, nobody is configured as master and no PATCH of a
   holder is under way: all deadlines are over. *)
LEMMA TakeoverMeetsNobody ==
  ASSUME TypeOK, LeaseInv, RoleInv, NEW p \in seen
  PROVE  /\ Expired
         /\ \A q \in Pods : personality[q] # "master"
         /\ \A q \in Pods : phase[q] = "running" => pc[q] \notin {"renew", "release"}
<1>1. Expired
  BY DEF LeaseInv, AcquirerInv
<1>2. ASSUME NEW q \in Pods, personality[q] = "master"
      PROVE  FALSE
  <2>1. phase[q] = "running" /\ q \notin Flaky
    BY <1>1, <1>2 DEF RoleInv, Timely
  <2>2. holder = q \/ age = 0
    BY <1>2, <2>1 DEF RoleInv, MasterInv
  <2> QED  BY <1>1, <2>1, <2>2 DEF RoleInv, HolderInv, Expired
<1>3. ASSUME NEW q \in Pods, phase[q] = "running", pc[q] \in {"renew", "release"}
      PROVE  FALSE
  <2>1. holder = q
    BY <1>3 DEF RoleInv, LabelInv
  <2> QED  BY <1>1, <1>3, <2>1 DEF RoleInv, Timely, HolderInv
<1> QED  BY <1>1, <1>2, <1>3

\* The sidecar that writes the Lease at a label is the only one that may.
LEMMA OneWriter ==
  ASSUME TypeOK, LeaseInv, RoleInv, NEW r \in Pods, phase[r] = "running",
         pc[r] \in {"renew", "release"}
  PROVE  /\ holder = r /\ late[r] <= age
         /\ \A q \in Pods \ {r} : personality[q] # "master"
         /\ \A q \in Pods \ {r} : phase[q] = "running" => pc[q] \notin {"renew", "release"}
  BY DEF RoleInv, LabelInv, MasterInv

LEMMA NextTimely ==
  ASSUME TypeOK, LeaseInv, RoleInv, TimelyNext
  PROVE  Timely'
<1> USE DEF TypeOK, MaxAge, Expired, LeaseInv, AcquirerInv, SleeperInv, CallFault, leaseVars, podVars, loopVars, RoleInv, Timely
<1>1. CASE BootstrapLease
  BY <1>1 DEF BootstrapLease
<1>2. ASSUME NEW r \in Pods, Sidecar(r)
      PROVE  Timely'
  <2>1. CASE ObserveLease(r)
    BY <2>1, OneWriter DEF TimelyNext, ObserveLease, Backoffs, At, GoTo
  <2>2. CASE ObserveNothing(r)
    BY <2>2 DEF ObserveNothing, At, GoTo
  <2>3. CASE RenewLease(r)
    BY <2>3, OneWriter DEF RenewLease, At, GoTo, WriteLease
  <2>4. CASE ReleaseLease(r)
    BY <2>4, OneWriter DEF ReleaseLease, At, GoTo, WriteLease
  <2>5. CASE AcquireLease(r)
    BY <2>5, TakeoverMeetsNobody DEF AcquireLease, At, GoTo, WriteLease
  <2>6. CASE DeleteSelf(r)
    BY <2>6 DEF DeleteSelf, StopSidecar, At, GoTo, MasterInv, HolderInv
  <2> QED  BY <1>2, <2>1, <2>2, <2>3, <2>4, <2>5, <2>6 DEF Sidecar
<1>3. ASSUME NEW r \in Pods, PodStart(r)
      PROVE  Timely'
  <2>1. CASE TerminatePod(r)
    BY <2>1 DEF TerminatePod
  <2>2. CASE CreatePod(r)
    BY <2>2 DEF CreatePod, Creatable
  <2>3. CASE InitConfig(r)
    BY <2>3 DEF TimelyNext, InitConfig
  <2>4. CASE StartContainers(r)
    BY <2>4 DEF StartContainers, GoTo
  <2>5. CASE RestartSfsmaster(r)
    BY <2>5 DEF RestartSfsmaster
  <2> QED  BY <1>3, <2>1, <2>2, <2>3, <2>4, <2>5 DEF PodStart
<1>4. ASSUME NEW r \in Pods, Crash(r) \/ RecoverNode(r)
      PROVE  Timely'
  <2>1. CASE CrashSfsmaster(r)
    BY <2>1 DEF CrashSfsmaster
  <2>2. CASE CrashSidecar(r)
    BY <2>2 DEF CrashSidecar, GoTo
  <2>3. CASE CrashNode(r)
    BY <2>3 DEF CrashNode, StopSidecar, GoTo
  <2>4. CASE RecoverNode(r)
    BY <2>4 DEF RecoverNode
  <2> QED  BY <1>4, <2>1, <2>2, <2>3, <2>4 DEF Crash
<1>5. CASE Tick
  BY <1>5 DEF TimelyNext
<1> QED  BY <1>1, <1>2, <1>3, <1>4, <1>5 DEF TimelyNext, Next

LEMMA NextLabelInv ==
  ASSUME TypeOK, LeaseInv, RoleInv, TimelyNext
  PROVE  LabelInv'
<1> USE DEF TypeOK, MaxAge, Expired, LeaseInv, AcquirerInv, SleeperInv, CallFault, leaseVars, podVars, loopVars, RoleInv, LabelInv
<1>1. CASE BootstrapLease
  BY <1>1 DEF BootstrapLease
<1>2. ASSUME NEW r \in Pods, Sidecar(r)
      PROVE  LabelInv'
  <2>1. CASE ObserveLease(r)
    BY <2>1 DEF ObserveLease, Backoffs, At, GoTo
  <2>2. CASE ObserveNothing(r)
    BY <2>2 DEF ObserveNothing, At, GoTo
  <2>3. CASE RenewLease(r)
    BY <2>3, OneWriter DEF RenewLease, At, GoTo, WriteLease
  <2>4. CASE ReleaseLease(r)
    BY <2>4, OneWriter DEF ReleaseLease, At, GoTo, WriteLease
  <2>5. CASE AcquireLease(r)
    BY <2>5, TakeoverMeetsNobody DEF AcquireLease, At, GoTo, WriteLease
  <2>6. CASE DeleteSelf(r)
    BY <2>6 DEF DeleteSelf, StopSidecar, At, GoTo
  <2> QED  BY <1>2, <2>1, <2>2, <2>3, <2>4, <2>5, <2>6 DEF Sidecar
<1>3. ASSUME NEW r \in Pods, PodStart(r)
      PROVE  LabelInv'
  <2>1. CASE TerminatePod(r)
    BY <2>1 DEF TerminatePod
  <2>2. CASE CreatePod(r)
    BY <2>2 DEF CreatePod, Creatable
  <2>3. CASE InitConfig(r)
    BY <2>3 DEF InitConfig
  <2>4. CASE StartContainers(r)
    BY <2>4 DEF StartContainers, GoTo
  <2>5. CASE RestartSfsmaster(r)
    BY <2>5 DEF RestartSfsmaster
  <2> QED  BY <1>3, <2>1, <2>2, <2>3, <2>4, <2>5 DEF PodStart
<1>4. ASSUME NEW r \in Pods, Crash(r) \/ RecoverNode(r)
      PROVE  LabelInv'
  <2>1. CASE CrashSfsmaster(r)
    BY <2>1 DEF CrashSfsmaster
  <2>2. CASE CrashSidecar(r)
    BY <2>2 DEF CrashSidecar, GoTo
  <2>3. CASE CrashNode(r)
    BY <2>3 DEF CrashNode, StopSidecar, GoTo
  <2>4. CASE RecoverNode(r)
    BY <2>4 DEF RecoverNode
  <2> QED  BY <1>4, <2>1, <2>2, <2>3, <2>4 DEF Crash
<1>5. CASE Tick
  BY <1>5 DEF Tick, Older, Patching
<1> QED  BY <1>1, <1>2, <1>3, <1>4, <1>5 DEF TimelyNext, Next

LEMMA NextHolderInv ==
  ASSUME TypeOK, LeaseInv, RoleInv, TimelyNext
  PROVE  HolderInv'
<1> USE DEF TypeOK, MaxAge, Expired, LeaseInv, AcquirerInv, SleeperInv, CallFault, leaseVars, podVars, loopVars, RoleInv, HolderInv
<1>1. CASE BootstrapLease
  BY <1>1 DEF BootstrapLease
<1>2. ASSUME NEW r \in Pods, Sidecar(r)
      PROVE  HolderInv'
  <2>1. CASE ObserveLease(r)
    BY <2>1 DEF ObserveLease, Backoffs, At, GoTo
  <2>2. CASE ObserveNothing(r)
    BY <2>2 DEF ObserveNothing, At, GoTo
  <2>3. CASE RenewLease(r)
    BY <2>3, OneWriter DEF RenewLease, At, GoTo, WriteLease
  <2>4. CASE ReleaseLease(r)
    BY <2>4, OneWriter DEF ReleaseLease, At, GoTo, WriteLease
  <2>5. CASE AcquireLease(r)
    BY <2>5, TakeoverMeetsNobody DEF AcquireLease, At, GoTo, WriteLease
  <2>6. CASE DeleteSelf(r)
    BY <2>6 DEF DeleteSelf, StopSidecar, At, GoTo
  <2> QED  BY <1>2, <2>1, <2>2, <2>3, <2>4, <2>5, <2>6 DEF Sidecar
<1>3. ASSUME NEW r \in Pods, PodStart(r)
      PROVE  HolderInv'
  <2>1. CASE TerminatePod(r)
    BY <2>1 DEF TerminatePod
  <2>2. CASE CreatePod(r)
    BY <2>2 DEF CreatePod, Creatable
  <2>3. CASE InitConfig(r)
    BY <2>3 DEF InitConfig
  <2>4. CASE StartContainers(r)
    BY <2>4 DEF StartContainers, GoTo, Timely
  <2>5. CASE RestartSfsmaster(r)
    BY <2>5 DEF RestartSfsmaster
  <2> QED  BY <1>3, <2>1, <2>2, <2>3, <2>4, <2>5 DEF PodStart
<1>4. ASSUME NEW r \in Pods, Crash(r) \/ RecoverNode(r)
      PROVE  HolderInv'
  <2>1. CASE CrashSfsmaster(r)
    BY <2>1 DEF CrashSfsmaster
  <2>2. CASE CrashSidecar(r)
    BY <2>2 DEF CrashSidecar, GoTo
  <2>3. CASE CrashNode(r)
    BY <2>3 DEF CrashNode, StopSidecar, GoTo
  <2>4. CASE RecoverNode(r)
    BY <2>4 DEF RecoverNode
  <2> QED  BY <1>4, <2>1, <2>2, <2>3, <2>4 DEF Crash
<1>5. CASE Tick
  BY <1>5, RenewalAssumption DEF Tick, Older, Urgent
<1> QED  BY <1>1, <1>2, <1>3, <1>4, <1>5 DEF TimelyNext, Next

LEMMA NextMasterInv ==
  ASSUME TypeOK, LeaseInv, RoleInv, TimelyNext
  PROVE  MasterInv'
<1> USE DEF TypeOK, MaxAge, Expired, LeaseInv, AcquirerInv, SleeperInv, CallFault, leaseVars, podVars, loopVars, RoleInv, MasterInv
<1>1. CASE BootstrapLease
  BY <1>1 DEF BootstrapLease
<1>2. ASSUME NEW r \in Pods, Sidecar(r)
      PROVE  MasterInv'
  <2>1. CASE ObserveLease(r)
    BY <2>1 DEF ObserveLease, Backoffs, At, GoTo
  <2>2. CASE ObserveNothing(r)
    BY <2>2 DEF ObserveNothing, At, GoTo
  <2>3. CASE RenewLease(r)
    BY <2>3, OneWriter DEF RenewLease, At, GoTo, WriteLease
  <2>4. CASE ReleaseLease(r)
    BY <2>4, OneWriter DEF ReleaseLease, At, GoTo, WriteLease
  <2>5. CASE AcquireLease(r)
    BY <2>5, TakeoverMeetsNobody DEF AcquireLease, At, GoTo, WriteLease
  <2>6. CASE DeleteSelf(r)
    BY <2>6 DEF DeleteSelf, StopSidecar, At, GoTo
  <2> QED  BY <1>2, <2>1, <2>2, <2>3, <2>4, <2>5, <2>6 DEF Sidecar
<1>3. ASSUME NEW r \in Pods, PodStart(r)
      PROVE  MasterInv'
  <2>1. CASE TerminatePod(r)
    BY <2>1 DEF TerminatePod
  <2>2. CASE CreatePod(r)
    BY <2>2 DEF CreatePod, Creatable
  <2>3. CASE InitConfig(r)
    BY <2>3 DEF InitConfig
  <2>4. CASE StartContainers(r)
    BY <2>4 DEF StartContainers, GoTo
  <2>5. CASE RestartSfsmaster(r)
    BY <2>5 DEF RestartSfsmaster
  <2> QED  BY <1>3, <2>1, <2>2, <2>3, <2>4, <2>5 DEF PodStart
<1>4. ASSUME NEW r \in Pods, Crash(r) \/ RecoverNode(r)
      PROVE  MasterInv'
  <2>1. CASE CrashSfsmaster(r)
    BY <2>1 DEF CrashSfsmaster
  <2>2. CASE CrashSidecar(r)
    BY <2>2 DEF CrashSidecar, GoTo, TimelyNext, Survives
  <2>3. CASE CrashNode(r)
    BY <2>3 DEF CrashNode, StopSidecar, GoTo
  <2>4. CASE RecoverNode(r)
    BY <2>4 DEF RecoverNode
  <2> QED  BY <1>4, <2>1, <2>2, <2>3, <2>4 DEF Crash
<1>5. CASE Tick
  BY <1>5 DEF Tick, Older, Less, Urgent
<1> QED  BY <1>1, <1>2, <1>3, <1>4, <1>5 DEF TimelyNext, Next

LEMMA TimelyIsSpec == TimelySpec => Spec
<1>1. [TimelyNext]_vars => [Next]_vars
  BY DEF TimelyNext
<1> QED  BY <1>1, PTL DEF TimelySpec, Spec

LEMMA RoleInvariant == TimelySpec => []RoleInv
<1>1. Init => RoleInv
  BY InitRoleInv
<1>2. TypeOK /\ LeaseInv /\ RoleInv /\ [TimelyNext]_vars => RoleInv'
  <2>1. CASE TimelyNext
    BY <2>1, NextTimely, NextLabelInv, NextHolderInv, NextMasterInv DEF RoleInv
  <2>2. CASE UNCHANGED vars
    BY <2>2 DEF vars, RoleInv, Timely, LabelInv, HolderInv, MasterInv, Expired
  <2> QED  BY <2>1, <2>2
<1> QED  BY <1>1, <1>2, TypeCorrect, LeaseInvariant, TimelyIsSpec, PTL DEF TimelySpec

(* As long as the deadlines are met there is never a second sfsmaster that serves as
   master: not during a failover, not after the crash of a pod that was about to take
   over, not when a node is lost for good or calls hang, for any number of pods. *)
THEOREM OneMaster == TimelySpec => []AtMostOneMaster
<1>1. RoleInv => AtMostOneMaster
  BY DEF RoleInv, MasterInv, AtMostOneMaster, ActiveMaster
<1> QED  BY <1>1, RoleInvariant, PTL

(* As long as the deadlines are met, a master that no longer holds the Lease has given
   it up by itself and no pod has it instead; if its connection is good and its node
   there, it is gone within MaxDowntime, whatever the other pods do. *)
THEOREM DeposedInTime == TimelySpec => []DeposedStopsInTime
<1>1. TypeOK /\ RoleInv => DeposedStopsInTime
  <2> SUFFICES ASSUME TypeOK, RoleInv, NEW p \in Pods \ (Flaky \cup SlowStart),
                      ActiveMaster(p), holder # p
               PROVE  holder = NoHolder /\ age <= MaxDowntime
    BY DEF DeposedStopsInTime
  <2>1. holder = NoHolder
    BY DEF RoleInv, MasterInv, ActiveMaster
  <2>2. age = 0 \/ age + timer[p] <= MaxDowntime
    BY DEF RoleInv, MasterInv, ActiveMaster
  <2> QED  BY <2>1, <2>2 DEF TypeOK, MaxAge
<1> QED  BY <1>1, TypeCorrect, TimelyIsSpec, RoleInvariant, PTL

(* As long as the deadlines are met, a renewal that follows its GET late, after a call
   that hung or a sidecar that was suspended, still finds the Lease as it was, although
   it carries no resourceVersion. *)
THEOREM RenewalSafety == TimelySpec => RenewalKeepsHolder
<1>1. ASSUME TypeOK, LeaseInv, RoleInv, [Next]_vars, NEW p \in Pods,
             pc[p] = "renew", holder # p, holder' = p
      PROVE  FALSE
  <2>1. phase[p] # "running"
    BY <1>1 DEF RoleInv, LabelInv
  <2>2. p # NoHolder
    OBVIOUS
  <2> USE DEF leaseVars, podVars, loopVars, At, WriteLease
  <2>3. ASSUME NEW r \in Pods, Sidecar(r)
        PROVE  FALSE
    BY <1>1, <2>1, <2>2, <2>3
       DEF Sidecar, ObserveLease, ObserveNothing, RenewLease, ReleaseLease,
           AcquireLease, DeleteSelf
  <2>4. ASSUME NEW r \in Pods, PodStart(r) \/ Crash(r) \/ RecoverNode(r)
        PROVE  FALSE
    BY <1>1, <2>4 DEF PodStart, Crash, RecoverNode, TerminatePod, CreatePod, Creatable,
       InitConfig, StartContainers, RestartSfsmaster, CrashSfsmaster, CrashSidecar, CrashNode
  <2> QED  BY <1>1, <2>3, <2>4 DEF Next, BootstrapLease, Tick, vars
<1>2. TypeOK /\ LeaseInv /\ RoleInv /\ [Next]_vars
        => [\A p \in Pods : pc[p] = "renew" /\ holder # p => holder' # p]_vars
  BY <1>1
<1> QED  BY <1>2, TypeCorrect, LeaseInvariant, RoleInvariant, TimelyIsSpec, PTL
         DEF Spec, RenewalKeepsHolder

-----------------------------------------------------------------------------
(***************************************************************************)
(* The election implements MasterRole.                                     *)
(***************************************************************************)
Serving == {p \in Pods : ActiveMaster(p)}

LEMMA RoleStep ==
  ASSUME TypeOK, LeaseInv, RoleInv, [TimelyNext]_vars
  PROVE  [Role!Next]_<<holder, Serving>>
<1> DEFINE Goal == [Role!Next]_<<holder, Serving>>
<1> SUFFICES Goal
  OBVIOUS
<1> USE DEF leaseVars, podVars, loopVars
<1>a. ASSUME UNCHANGED <<holder, podVars>>
      PROVE  Goal
  BY <1>a DEF Serving, ActiveMaster
<1>1. CASE BootstrapLease \/ Tick \/ UNCHANGED vars
  BY <1>1, <1>a DEF BootstrapLease, Tick, vars
<1>2. ASSUME NEW p \in Pods, Sidecar(p)
      PROVE  Goal
  <2>1. CASE ObserveLease(p) \/ ObserveNothing(p)
    BY <2>1, <1>a DEF ObserveLease, ObserveNothing
  <2>2. CASE RenewLease(p)
    BY <2>2, <1>a DEF RenewLease, CallFault, WriteLease, At, RoleInv, LabelInv
  <2>3. CASE ReleaseLease(p)
    <3>1. holder = p /\ holder' \in {p, NoHolder} /\ Serving' = Serving
      BY <2>3 DEF ReleaseLease, CallFault, WriteLease, At, RoleInv, LabelInv,
                  Serving, ActiveMaster
    <3> QED  BY <3>1 DEF Role!Next, Role!Vacate, Serving
  <2>4. CASE AcquireLease(p)
    <3>1. CASE holder' = holder
      BY <2>4, <3>1, <1>a DEF AcquireLease
    <3>2. CASE holder' # holder
      <4>1. p \in seen /\ holder' = p /\ Serving' = Serving
        BY <2>4, <3>2 DEF AcquireLease, WriteLease, Serving, ActiveMaster
      <4>2. Serving = {}
        BY <4>1, TakeoverMeetsNobody DEF Serving, ActiveMaster
      <4> QED  BY <3>2, <4>1, <4>2 DEF Role!Next, Role!Grant, Serving
    <3> QED  BY <3>1, <3>2
  <2>5. CASE DeleteSelf(p)
    <3>1. holder' = holder /\ Serving' = Serving
      BY <2>5 DEF DeleteSelf, CallFault, At, Serving, ActiveMaster, TypeOK
    <3> QED  BY <3>1
  <2> QED  BY <1>2, <2>1, <2>2, <2>3, <2>4, <2>5 DEF Sidecar
<1>3. ASSUME NEW p \in Pods, PodStart(p) \/ Crash(p) \/ RecoverNode(p)
      PROVE  Goal
  <2>0. holder' = holder
    BY <1>3 DEF PodStart, Crash, RecoverNode, TerminatePod, CreatePod, Creatable,
       InitConfig, StartContainers, RestartSfsmaster, CrashSfsmaster, CrashSidecar, CrashNode
  <2>1. \A q \in Pods \ {p} : ActiveMaster(q)' = ActiveMaster(q)
    BY <1>3 DEF PodStart, Crash, RecoverNode, TerminatePod, CreatePod, Creatable,
       InitConfig, StartContainers, RestartSfsmaster, CrashSfsmaster, CrashSidecar, CrashNode,
       ActiveMaster, TypeOK
  <2>2. CASE ActiveMaster(p)' = ActiveMaster(p)
    BY <2>0, <2>1, <2>2 DEF Serving
  <2>3. CASE ActiveMaster(p) /\ ~ActiveMaster(p)'
    <3>1. p \in Serving /\ Serving' = Serving \ {p}
      BY <2>1, <2>3 DEF Serving
    <3> QED  BY <2>0, <3>1 DEF Role!Next, Role!Stop, Serving
  <2>4. CASE ~ActiveMaster(p) /\ ActiveMaster(p)'
    <3>1. personality[p] = "master" /\ (holder = p \/ holder = NoHolder)
      BY <1>3, <2>4 DEF PodStart, Crash, RecoverNode, TerminatePod, CreatePod, Creatable,
         InitConfig, StartContainers, RestartSfsmaster, CrashSfsmaster, CrashSidecar, CrashNode,
         ActiveMaster, TypeOK, RoleInv, MasterInv
    <3>2. Serving = {}
      BY <2>4, <3>1 DEF Serving, ActiveMaster, RoleInv, MasterInv
    <3>3. Serving' = {p}
      BY <2>1, <2>4, <3>2 DEF Serving
    <3> QED  BY <2>0, <3>1, <3>2, <3>3 DEF Role!Next, Role!Serve, Serving
  <2>5. ActiveMaster(p) \in BOOLEAN /\ ActiveMaster(p)' \in BOOLEAN
    BY DEF ActiveMaster
  <2> QED  BY <2>2, <2>3, <2>4, <2>5
<1> QED  BY <1>1, <1>2, <1>3 DEF TimelyNext, Next

(* As long as the deadlines are met, the Lease, the scripts and the StatefulSet together
   keep what a master role promises: the role passes on only when nobody serves any
   more, and only its owner, or the last one, starts to serve. *)
THEOREM ElectionImplementsRole == TimelySpec => RoleSpec
<1>1. Init => Role!Init
  BY DEF Init, Role!Init, ActiveMaster
<1>2. TypeOK /\ LeaseInv /\ RoleInv /\ [TimelyNext]_vars => [Role!Next]_(Role!vars)
  BY RoleStep DEF Role!vars, Serving
<1> QED  BY <1>1, <1>2, TypeCorrect, LeaseInvariant, RoleInvariant, TimelyIsSpec, PTL
         DEF TimelySpec, RoleSpec, Role!Spec
=============================================================================

-------------------------- MODULE OperatorHA_proofs --------------------------
(***************************************************************************)
(* Proofs about the election with the operator that observes it, for any   *)
(* number of pods, any durations and any set of faults.  The operator      *)
(* writes none of the state the election decides by, so that the           *)
(* invariants of MasterHA hold in the composition too; its own invariant   *)
(* OpTypeOK says, beyond the types, that a pass which labels pods never    *)
(* has the empty holder in its hand.                                       *)
(***************************************************************************)
EXTENDS OperatorHA, MasterRole_proofs

USE DurationAssumption, ReplicasAssumption, NoHolderAssumption, FaultAssumption

(* What a step of the operator may touch of the election: the fault counter
   that both share, nothing else. *)
LEMMA OperatorLeavesElection ==
  ASSUME TypeOK, Operator \/ OpCrash
  PROVE  /\ UNCHANGED <<leaseVars, podVars, loopVars, grace>>
         /\ faults' \in 0 .. MaxFaults /\ faults' \in {faults, faults + 1}
<1> USE DEF TypeOK, Fault, vars
<1>1. CASE OpRead
  BY <1>1 DEF OpRead, leaseVars, podVars, loopVars
<1>2. CASE OpList
  BY <1>2 DEF OpList, leaseVars, podVars, loopVars
<1>3. ASSUME NEW p \in Pods, OpLabel(p)
      PROVE  /\ UNCHANGED <<leaseVars, podVars, loopVars, grace>>
             /\ faults' \in 0 .. MaxFaults /\ faults' \in {faults, faults + 1}
  BY <1>3 DEF OpLabel, leaseVars, podVars, loopVars
<1>4. CASE OpStatus
  BY <1>4 DEF OpStatus, leaseVars, podVars, loopVars
<1>5. CASE OpCrash
  BY <1>5 DEF OpCrash
<1> QED  BY <1>1, <1>2, <1>3, <1>4, <1>5 DEF Operator

LEMMA OpNextTypeOK ==
  TypeOK /\ [OpNext]_allVars => TypeOK'
<1> SUFFICES ASSUME TypeOK, [OpNext]_allVars
             PROVE  TypeOK'
  OBVIOUS
<1>1. CASE Election
  BY <1>1, NextTypeOK DEF Election
<1>2. CASE Operator \/ OpCrash
  BY <1>2, OperatorLeavesElection DEF TypeOK, leaseVars, podVars, loopVars
<1>3. CASE UNCHANGED allVars
  BY <1>3, NextTypeOK DEF allVars
<1> QED  BY <1>1, <1>2, <1>3 DEF OpNext

LEMMA OpNextLeaseInv ==
  TypeOK /\ LeaseInv /\ [OpNext]_allVars => LeaseInv'
<1> SUFFICES ASSUME TypeOK, LeaseInv, [OpNext]_allVars
             PROVE  LeaseInv'
  OBVIOUS
<1>1. CASE Election
  BY <1>1, NextAcquirerInv, NextSleeperInv DEF Election, LeaseInv
<1>2. CASE Operator \/ OpCrash
  BY <1>2, OperatorLeavesElection
     DEF LeaseInv, AcquirerInv, SleeperInv, Expired, leaseVars, podVars, loopVars
<1>3. CASE UNCHANGED allVars
  BY <1>3, NextAcquirerInv, NextSleeperInv DEF allVars, LeaseInv
<1> QED  BY <1>1, <1>2, <1>3 DEF OpNext

(* The operator, its failures and its restarts disturb nothing the sidecars rely
   on: the invariants of the election hold while it is observed. *)
THEOREM ObservedElection == OpSpec => [](TypeOK /\ LeaseInv)
<1>1. OpInit => TypeOK /\ LeaseInv
  BY InitTypeOK, InitLeaseInv DEF OpInit
<1>2. TypeOK /\ LeaseInv /\ [OpNext]_allVars => (TypeOK /\ LeaseInv)'
  BY OpNextTypeOK, OpNextLeaseInv
<1> QED  BY <1>1, <1>2, PTL DEF OpSpec

-----------------------------------------------------------------------------
LEMMA OpNextOpTypeOK ==
  TypeOK /\ OpTypeOK /\ [OpNext]_allVars => OpTypeOK'
<1> SUFFICES ASSUME TypeOK, OpTypeOK, [OpNext]_allVars
             PROVE  OpTypeOK'
  OBVIOUS
<1> USE DEF OpTypeOK, OpLabels
<1>1. CASE Election
  BY <1>1 DEF Election
<1>2. CASE OpRead
  BY <1>2 DEF OpRead, TypeOK
<1>3. CASE OpList
  BY <1>3 DEF OpList, Existing
<1>4. ASSUME NEW p \in Pods, OpLabel(p)
      PROVE  OpTypeOK'
  BY <1>4 DEF OpLabel
<1>5. CASE OpStatus
  BY <1>5 DEF OpStatus
<1>6. CASE OpCrash
  BY <1>6 DEF OpCrash
<1>7. CASE UNCHANGED allVars
  BY <1>7 DEF allVars, opVars
<1> QED  BY <1>1, <1>2, <1>3, <1>4, <1>5, <1>6, <1>7 DEF OpNext, Operator

(* reconcileMasterHA never enters its labelling loop for a Lease without holder,
   which would take the label from every pod, although the holder may have
   been released, deposed or replaced since it was read. *)
THEOREM OpTypeCorrect == OpSpec => []OpTypeOK
<1>1. OpInit => OpTypeOK
  BY DEF OpInit, OpTypeOK, OpLabels
<1>2. TypeOK /\ OpTypeOK /\ [OpNext]_allVars => OpTypeOK'
  BY OpNextOpTypeOK
<1> QED  BY <1>1, <1>2, ObservedElection, PTL DEF OpSpec

(* With the operator at work, too, a Lease is taken over only while it is expired
   at the moment of the compare-and-swap. *)
THEOREM ObservedTakeover == OpSpec => TakeoverOnlyWhenExpired
<1>1. TypeOK /\ LeaseInv /\ [OpNext]_allVars
        => [\A p \in Pods :
              pc[p] = "acquire" /\ holder # p /\ holder' = p => Expired]_vars
  <2> SUFFICES ASSUME TypeOK, LeaseInv, [OpNext]_allVars,
                      NEW p \in Pods, pc[p] = "acquire", holder # p, holder' = p
               PROVE  Expired
    OBVIOUS
  <2>1. CASE Election
    BY <2>1, TakeoverStep DEF Election
  <2>2. CASE Operator \/ OpCrash
    BY <2>2, OperatorLeavesElection DEF leaseVars
  <2>3. CASE UNCHANGED allVars
    BY <2>3 DEF allVars, vars
  <2> QED  BY <2>1, <2>2, <2>3 DEF OpNext
<1> QED  BY <1>1, ObservedElection, PTL DEF OpSpec, TakeoverOnlyWhenExpired

-----------------------------------------------------------------------------
(***************************************************************************)
(* With the deadlines of TimelySpec met.                                   *)
(***************************************************************************)
LEMMA TimelyOpIsSpec == TimelyOpSpec => OpSpec
<1>1. [TimelyOpNext]_allVars => [OpNext]_allVars
  BY DEF TimelyOpNext, OpNext
<1> QED  BY <1>1, PTL DEF TimelyOpSpec, OpSpec

\* The election makes a timely step or stands still.
LEMMA TimelyOpStep ==
  ASSUME TypeOK, [TimelyOpNext]_allVars
  PROVE  [TimelyNext]_vars \/ UNCHANGED <<leaseVars, podVars, loopVars, grace>>
<1>1. CASE Operator \/ OpCrash
  BY <1>1, OperatorLeavesElection
<1>2. CASE UNCHANGED allVars
  BY <1>2 DEF allVars
<1> QED  BY <1>1, <1>2 DEF TimelyOpNext

LEMMA ObservedRoleInvariant == TimelyOpSpec => []RoleInv
<1>1. OpInit => RoleInv
  BY InitRoleInv DEF OpInit
<1>2. TypeOK /\ LeaseInv /\ RoleInv /\ [TimelyOpNext]_allVars => RoleInv'
  <2> SUFFICES ASSUME TypeOK, LeaseInv, RoleInv, [TimelyOpNext]_allVars
               PROVE  RoleInv'
    OBVIOUS
  <2>1. CASE TimelyNext
    BY <2>1, NextTimely, NextLabelInv, NextHolderInv, NextMasterInv DEF RoleInv
  <2>2. CASE UNCHANGED <<leaseVars, podVars, loopVars, grace>>
    BY <2>2 DEF RoleInv, Timely, LabelInv, HolderInv, MasterInv, Expired,
                leaseVars, podVars, loopVars
  <2>3. CASE UNCHANGED vars
    BY <2>2, <2>3 DEF vars, leaseVars, podVars, loopVars
  <2> QED  BY <2>1, <2>2, <2>3, TimelyOpStep
<1> QED  BY <1>1, <1>2, ObservedElection, TimelyOpIsSpec, PTL DEF TimelyOpSpec

(* The election that the operator observes still implements MasterRole: its labels,
   its status, its failures and its restarts give nobody the role and take it from
   nobody, as long as the deadlines are met. *)
THEOREM ObservedElectionImplementsRole == TimelyOpSpec => RoleSpec
<1>1. OpInit => Role!Init
  BY DEF OpInit, Init, Role!Init, ActiveMaster
<1>2. TypeOK /\ LeaseInv /\ RoleInv /\ [TimelyOpNext]_allVars => [Role!Next]_(Role!vars)
  <2> SUFFICES ASSUME TypeOK, LeaseInv, RoleInv, [TimelyOpNext]_allVars
               PROVE  [Role!Next]_(Role!vars)
    OBVIOUS
  <2>1. CASE [TimelyNext]_vars
    BY <2>1, RoleStep DEF Role!vars, Serving
  <2>2. CASE UNCHANGED <<leaseVars, podVars, loopVars, grace>>
    BY <2>2 DEF Role!vars, leaseVars, podVars, ActiveMaster
  <2> QED  BY <2>1, <2>2, TimelyOpStep
<1> QED  BY <1>1, <1>2, ObservedElection, ObservedRoleInvariant, TimelyOpIsSpec, PTL
         DEF TimelyOpSpec, RoleSpec, Role!Spec

(* As long as the deadlines are met there is one master at most while the operator
   observes, labels, fails and restarts. *)
THEOREM ObservedOneMaster == TimelyOpSpec => []AtMostOneMaster
<1>1. RoleInv => AtMostOneMaster
  BY DEF RoleInv, MasterInv, AtMostOneMaster, ActiveMaster
<1> QED  BY <1>1, ObservedRoleInvariant, PTL

-----------------------------------------------------------------------------
(***************************************************************************)
(* Routing.                                                                *)
(***************************************************************************)

\* A settled master is not disturbed by the election.
LEMMA ElectionKeepsRouted ==
  ASSUME TypeOK, LeaseInv, Election, faults' = faults, NEW p \in Pods \ Flaky, Routed(p)
  PROVE  Routed(p)'
<1> USE DEF TypeOK, MaxAge, Routed, Ready, leaseVars, podVars, loopVars, Less, Older
<1>0. /\ Next /\ created /\ ~Expired /\ p # NoHolder /\ seen = {}
      /\ UNCHANGED <<activeMaster, opPc, opHolder>>
      /\ \A k : ~Fault(k)
  BY RenewalAssumption DEF Election, LeaseInv, SleeperInv, AcquirerInv, Expired, Fault
<1>1. labels' = {q \in {p} : phase'[q] # "absent"}
  BY DEF Election
<1>2. CASE BootstrapLease
  BY <1>0, <1>2 DEF BootstrapLease
<1>3. CASE Tick
  <2>1. timer[p] > 0
    BY <1>3 DEF Tick, Urgent
  <2>2. age + timer[p] <= RenewInterval /\ timer[p] \in Nat
    BY <2>1 DEF LeaseInv, SleeperInv
  <2> QED  BY <1>0, <1>1, <1>3, <2>1, <2>2 DEF Tick
<1>4. ASSUME NEW r \in Pods, Sidecar(r)
      PROVE  Routed(p)'
  <2> USE DEF At, GoTo
  <2>1. CASE ObserveLease(r)
    BY <1>0, <1>1, <2>1 DEF ObserveLease, Backoffs
  <2>2. CASE ObserveNothing(r)
    BY <1>0, <1>1, <2>2 DEF ObserveNothing, CallFault
  <2>3. CASE RenewLease(r)
    <3>1. r = p /\ late[p] = 0
      BY <2>3 DEF RenewLease, LeaseInv, SleeperInv
    <3> QED  BY <1>0, <1>1, <2>3, <3>1, RenewalAssumption DEF RenewLease, WriteLease, CallFault
  <2>4. CASE ReleaseLease(r)
    BY <1>0, <1>1, <2>4 DEF ReleaseLease
  <2>5. CASE AcquireLease(r)
    BY <1>0, <1>1, <2>5 DEF AcquireLease, CallFault
  <2>6. CASE DeleteSelf(r)
    BY <1>0, <1>1, <2>6 DEF DeleteSelf, StopSidecar, CallFault
  <2> QED  BY <1>4, <2>1, <2>2, <2>3, <2>4, <2>5, <2>6 DEF Sidecar
<1>5. ASSUME NEW r \in Pods, PodStart(r) \/ RecoverNode(r)
      PROVE  Routed(p)'
  <2>1. CASE TerminatePod(r)
    BY <1>0, <1>1, <2>1 DEF TerminatePod
  <2>2. CASE CreatePod(r)
    BY <1>0, <1>1, <2>2 DEF CreatePod, Creatable
  <2>3. CASE InitConfig(r)
    BY <1>0, <1>1, <2>3 DEF InitConfig
  <2>4. CASE StartContainers(r)
    BY <1>0, <1>1, <2>4 DEF StartContainers, GoTo
  <2>5. CASE RestartSfsmaster(r)
    BY <1>0, <1>1, <2>5 DEF RestartSfsmaster
  <2>6. CASE RecoverNode(r)
    BY <1>0, <1>1, <2>6 DEF RecoverNode
  <2> QED  BY <1>5, <2>1, <2>2, <2>3, <2>4, <2>5, <2>6 DEF PodStart
<1>6. ASSUME NEW r \in Pods, Crash(r)
      PROVE  FALSE
  BY <1>0, <1>6 DEF Crash, CrashSfsmaster, CrashSidecar, CrashNode
<1> QED  BY <1>0, <1>2, <1>3, <1>4, <1>5, <1>6 DEF Next

\* Nor by a pass of the operator: what it patches is nothing, or the label it finds.
LEMMA OperatorKeepsRouted ==
  ASSUME TypeOK, OpTypeOK, Operator \/ OpCrash, faults' = faults, NEW p \in Pods, Routed(p)
  PROVE  Routed(p)'
<1>1. UNCHANGED <<leaseVars, podVars, pc>> /\ ~Fault("operator") /\ ~Expired /\ p # NoHolder
  BY OperatorLeavesElection, RenewalAssumption
     DEF Fault, TypeOK, MaxAge, Routed, Expired, leaseVars, podVars, loopVars
<1>2. labels' = {p} /\ activeMaster' = p /\ (opPc' # "idle" => opHolder' = p)
  <2> USE <1>1 DEF Routed
  <2>1. CASE OpRead
    BY <2>1 DEF OpRead
  <2>2. CASE OpList
    BY <2>2 DEF OpList
  <2>3. ASSUME NEW q \in Pods, OpLabel(q)
        PROVE  labels' = {p} /\ activeMaster' = p /\ (opPc' # "idle" => opHolder' = p)
    BY <2>3 DEF OpLabel
  <2>4. CASE OpStatus
    BY <2>4 DEF OpStatus, OpTypeOK, OpLabels
  <2>5. CASE OpCrash
    BY <2>5 DEF OpCrash
  <2> QED  BY <2>1, <2>2, <2>3, <2>4, <2>5 DEF Operator
<1> QED  BY <1>1, <1>2 DEF Routed, Ready, leaseVars, podVars

(* RoutingIsKept: whatever the operator listed before, and however its pass is
   interleaved with the election, a settled master keeps the label and the status. *)
THEOREM RoutingSafety == OpSpec => RoutingIsKept
<1>1. ASSUME TypeOK, LeaseInv, OpTypeOK, [OpNext]_allVars,
             NEW p \in Pods \ Flaky, Routed(p), faults' = faults, ~UNCHANGED allVars
      PROVE  Routed(p)'
  BY <1>1, ElectionKeepsRouted, OperatorKeepsRouted DEF OpNext
<1>2. TypeOK /\ LeaseInv /\ OpTypeOK /\ [OpNext]_allVars =>
        [\A p \in Pods \ Flaky : Routed(p) /\ faults' = faults => Routed(p)']_allVars
  BY <1>1
<1> QED  BY <1>2, ObservedElection, OpTypeCorrect, PTL DEF OpSpec, RoutingIsKept
=============================================================================

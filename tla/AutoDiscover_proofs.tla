------------------------- MODULE AutoDiscover_proofs -------------------------
(***************************************************************************)
(* Proofs about the auto-discovered chunk servers, for any number of       *)
(* disks, any events and any number of failing calls and crashes: type     *)
(* correctness, that no part of a resource set outlives its claim, that    *)
(* only lost disks are swept and only their servers stopped, and that what *)
(* is torn down stays so.  All but the first need names of their own for   *)
(* the disks they are about.                                               *)
(***************************************************************************)
EXTENDS AutoDiscover, TLAPS

USE NamesAssumption, NoPVAssumption, BoundsAssumption

\* The types and where the loops are, without the Booleans.
DataInv == EnvTypes /\ SetTypes /\ OpTypes /\ LoopInv /\ ClaimInv

-----------------------------------------------------------------------------
LEMMA InitInv == Init => DataInv /\ FlagTypes
<1> SUFFICES ASSUME Init
             PROVE  DataInv /\ FlagTypes
  OBVIOUS
<1> USE DEF Init
<1>1. EnvTypes /\ SetTypes
  BY DEF EnvTypes, SetTypes, Phases
<1>2. OpTypes /\ LoopInv /\ ClaimInv
  BY DEF OpTypes, LoopInv, ClaimInv
<1>3. FlagTypes
  BY DEF FlagTypes
<1> QED  BY <1>1, <1>2, <1>3 DEF DataInv

LEMMA FlagStep == FlagTypes /\ [Next]_vars => FlagTypes'
<1> USE DEF FlagTypes, envVars, setVars, opVars
<1>1. ASSUME FlagTypes, Environment
      PROVE  FlagTypes'
  BY <1>1 DEF Environment, AddDisk, LoseDisk, ReturnDisk, ReapPV, Reselect, SetEnabled,
              Event, PVEvent
<1>2. ASSUME FlagTypes, Kubernetes
      PROVE  FlagTypes'
  BY <1>2 DEF Kubernetes, BindPVC, StartPod, StopPod, FinalizePVC, PVEvent
<1>3. ASSUME FlagTypes, Operator
      PROVE  FlagTypes'
  BY <1>3 DEF Operator, StartReconcile, NextElement, CreateObject, StartSweep,
              DeleteObject, EndReconcile, Advance, Idle
<1>4. ASSUME FlagTypes, Abort
      PROVE  FlagTypes'
  BY <1>4 DEF Abort, Idle
<1> QED  BY <1>1, <1>2, <1>3, <1>4 DEF Next, vars

LEMMA DataStep == DataInv /\ FlagTypes /\ [Next]_vars => DataInv'
<1> SUFFICES ASSUME DataInv, FlagTypes, [Next]_vars
             PROVE  DataInv'
  OBVIOUS
<1> USE DEF DataInv, EnvTypes, SetTypes, OpTypes, LoopInv, ClaimInv, Phases,
            envVars, setVars, opVars
<1>1. ASSUME NEW v \in PVs, AddDisk(v) \/ LoseDisk(v) \/ ReturnDisk(v) \/ ReapPV(v)
      PROVE  DataInv'
  BY <1>1 DEF AddDisk, LoseDisk, ReturnDisk, ReapPV, Event, PVEvent, Exists
<1>2. ASSUME NEW v \in PVs, Reselect(v)
      PROVE  DataInv'
  BY <1>2 DEF Reselect, Event
<1>3. CASE SetEnabled
  BY <1>3 DEF SetEnabled, Event
<1>4. ASSUME NEW n \in Names, BindPVC(n) \/ StartPod(n) \/ StopPod(n)
      PROVE  DataInv'
  BY <1>4 DEF BindPVC, StartPod, StopPod, PVEvent
<1>5. ASSUME NEW n \in Names, FinalizePVC(n)
      PROVE  DataInv'
  BY <1>5 DEF FinalizePVC, PVEvent
<1>6. CASE StartReconcile
  BY <1>6 DEF StartReconcile, Wanted, Healthy, Lost, Exists
<1>7. CASE NextElement
  BY <1>7 DEF NextElement
<1>8. CASE CreateObject
  <2>1. cur \in PVs /\ ShortName[cur] \in Names /\ at \in 1 .. 4 /\ cur \in view
    BY <1>8 DEF CreateObject
  <2>2. SetTypes' /\ \A n \in Names : pvc[n] # NoPV => pvc'[n] = pvc[n]
    BY <1>8, <2>1 DEF CreateObject, CreateOrder
  <2>3. ClaimInv'
    BY <1>8, <2>1, <2>2 DEF CreateObject, CreateOrder
  <2>4. EnvTypes' /\ OpTypes' /\ LoopInv'
    BY <1>8, <2>1 DEF CreateObject, Advance
  <2> QED  BY <2>2, <2>3, <2>4
<1>9. CASE StartSweep
  BY <1>9 DEF StartSweep
<1>10. CASE DeleteObject
  <2>1. cur \in Names /\ at \in 1 .. 4 /\ sweeping
    BY <1>10 DEF DeleteObject
  <2>2. SetTypes' /\ pvc' = pvc
    BY <1>10, <2>1 DEF DeleteObject, DeleteOrder
  <2>3. EnvTypes' /\ OpTypes' /\ LoopInv'
    BY <1>10, <2>1 DEF DeleteObject, Advance
  <2>4. ClaimInv'
    BY <1>10, <2>2 DEF DeleteObject
  <2> QED  BY <2>2, <2>3, <2>4
<1>11. CASE EndReconcile
  BY <1>11 DEF EndReconcile, Idle
<1>12. CASE Abort
  BY <1>12 DEF Abort, Idle
<1>13. CASE UNCHANGED vars
  BY <1>13 DEF vars
<1> QED
  BY <1>1, <1>2, <1>3, <1>4, <1>5, <1>6, <1>7, <1>8, <1>9, <1>10, <1>11, <1>12, <1>13
  DEF Next, Environment, Kubernetes, Operator

(* The variables of the discovery keep their types, and the loops of a reconcile
   walk through their lists in order. *)
THEOREM TypeCorrect == Spec => []TypeOK
<1>1. DataInv /\ FlagTypes => TypeOK
  BY DEF DataInv, TypeOK
<1> QED  BY InitInv, FlagStep, DataStep, <1>1, PTL DEF Spec

-----------------------------------------------------------------------------
\* The first eight characters tell a steady disk from every other disk.
Distinct == \A v \in Steady, w \in PVs : ShortName[v] = ShortName[w] => v = w

SetOK(v) == SetInv(v) /\ (Present(ShortName[v]) => pvc[ShortName[v]] # NoPV)

LEMMA InitSet == ASSUME NEW v \in Steady
                 PROVE  Init => SetOK(v)
BY DEF Init, SetOK, SetInv, Present, Steady

\* A disk that has a claim was published, so that a steady one stays lost.
LEMMA OwnClaim ==
  ASSUME Distinct, DataInv, NEW v \in Steady
  PROVE  LET n == ShortName[v]
         IN n \in Names /\ (pvc[n] # NoPV => pvc[n] = v /\ phase[v] # "absent")
BY DEF Distinct, DataInv, SetTypes, ClaimInv, Steady

LEMMA SetStep ==
  ASSUME Distinct, DataInv, FlagTypes, NEW v \in Steady, SetOK(v), [Next]_vars
  PROVE  SetOK(v)'
<1> DEFINE n == ShortName[v]
<1>1. v \in PVs /\ v \notin Flapping /\ n \in Names
  BY DEF Steady
<1>2. pvc[n] # NoPV => pvc[n] = v /\ phase[v] # "absent"
  BY OwnClaim
<1> HIDE DEF n
<1>3. n = ShortName[v]
  BY DEF n
<1> USE DEF SetOK, SetInv, Present, Lost, Exists, DataInv, EnvTypes, SetTypes, OpTypes,
            LoopInv, Phases, envVars, setVars, opVars
<1>4. ASSUME NEW w \in PVs, AddDisk(w) \/ LoseDisk(w) \/ ReturnDisk(w) \/ ReapPV(w)
                            \/ Reselect(w)
      PROVE  SetOK(v)'
  BY <1>1, <1>2, <1>3, <1>4 DEF AddDisk, LoseDisk, ReturnDisk, ReapPV, Reselect, Event
<1>5. CASE SetEnabled
  BY <1>1, <1>2, <1>3, <1>5 DEF SetEnabled, Event
<1>6. ASSUME NEW m \in Names, BindPVC(m) \/ StartPod(m) \/ StopPod(m)
      PROVE  SetOK(v)'
  BY <1>1, <1>2, <1>3, <1>6 DEF BindPVC, StartPod, StopPod
<1>7. ASSUME NEW m \in Names, FinalizePVC(m)
      PROVE  SetOK(v)'
  BY <1>1, <1>2, <1>3, <1>7 DEF FinalizePVC
<1>8. CASE StartReconcile
  BY <1>1, <1>2, <1>3, <1>8 DEF StartReconcile, Wanted, Healthy
<1>9. CASE NextElement
  BY <1>1, <1>2, <1>3, <1>9 DEF NextElement
<1>10. CASE CreateObject
  BY <1>1, <1>2, <1>3, <1>10 DEF CreateObject, CreateOrder, Advance, Distinct
<1>11. CASE StartSweep
  BY <1>1, <1>2, <1>3, <1>11 DEF StartSweep
<1>12. CASE DeleteObject
  <2>1. at \in 1 .. 4 /\ cur \in Names /\ sweeping
    BY <1>12 DEF DeleteObject
  <2>2. CASE cur # n
    BY <1>1, <1>2, <1>3, <1>12, <2>1, <2>2 DEF DeleteObject, DeleteOrder, Advance
  <2>3. CASE cur = n
    <3>1. CASE at = 1
      BY <1>1, <1>2, <1>3, <1>12, <2>1, <2>3, <3>1 DEF DeleteObject, DeleteOrder, Advance
    <3>2. CASE at = 2
      BY <1>1, <1>2, <1>3, <1>12, <2>1, <2>3, <3>2 DEF DeleteObject, DeleteOrder, Advance
    <3>3. CASE at = 3
      BY <1>1, <1>2, <1>3, <1>12, <2>1, <2>3, <3>3 DEF DeleteObject, DeleteOrder, Advance
    <3>4. CASE at = 4
      BY <1>1, <1>2, <1>3, <1>12, <2>1, <2>3, <3>4 DEF DeleteObject, DeleteOrder, Advance
    <3> QED  BY <2>1, <3>1, <3>2, <3>3, <3>4
  <2> QED  BY <2>2, <2>3
<1>13. CASE EndReconcile \/ Abort
  BY <1>1, <1>2, <1>3, <1>13 DEF EndReconcile, Abort, Idle
<1>14. CASE UNCHANGED vars
  BY <1>14 DEF vars
<1> QED
  BY <1>4, <1>5, <1>6, <1>7, <1>8, <1>9, <1>10, <1>11, <1>12, <1>13, <1>14
  DEF Next, Environment, Kubernetes, Operator

\* A steady disk that was published and is lost stays lost.
LEMMA LostStaysLost ==
  ASSUME DataInv, [Next]_vars, NEW v \in Steady, Lost(v), phase[v] # "absent"
  PROVE  Lost(v)' /\ phase'[v] # "absent"
<1>1. v \in PVs /\ v \notin Flapping /\ phase \in [PVs -> Phases]
  BY DEF Steady, DataInv, EnvTypes
<1> USE DEF Lost, Exists, Phases
<1>2. ASSUME NEW w \in PVs, AddDisk(w) \/ LoseDisk(w) \/ ReturnDisk(w) \/ ReapPV(w)
      PROVE  Lost(v)' /\ phase'[v] # "absent"
  BY <1>1, <1>2 DEF AddDisk, LoseDisk, ReturnDisk, ReapPV
<1>3. ASSUME NEW m \in Names, BindPVC(m)
      PROVE  Lost(v)' /\ phase'[v] # "absent"
  BY <1>1, <1>3 DEF BindPVC
<1>4. ASSUME NEW m \in Names, FinalizePVC(m)
      PROVE  Lost(v)' /\ phase'[v] # "absent"
  BY <1>1, <1>4 DEF FinalizePVC
<1>5. CASE UNCHANGED <<phase, missing>>
  BY <1>5
<1> QED
  BY <1>2, <1>3, <1>4, <1>5
     DEF Next, Environment, Kubernetes, Operator, vars, envVars, Reselect, SetEnabled,
         StartPod, StopPod, StartReconcile, NextElement, CreateObject, StartSweep, DeleteObject,
         EndReconcile, Abort

SetsOK == \A v \in Steady : SetOK(v)

LEMMA SetsInvariant ==
  ASSUME Distinct
  PROVE  Spec => [](DataInv /\ FlagTypes /\ SetsOK)
<1>1. Init => SetsOK
  BY InitSet DEF SetsOK
<1>2. SetsOK /\ DataInv /\ FlagTypes /\ [Next]_vars => SetsOK'
  BY SetStep DEF SetsOK, Steady
<1> QED  BY <1>1, <1>2, InitInv, FlagStep, DataStep, PTL DEF Spec

(* Through failing calls, crashes and whatever the disks do, no Service, ConfigMap
   or StatefulSet of a steady disk is left where the sweep would not find it. *)
THEOREM NoHiddenOrphans ==
  ASSUME Distinct
  PROVE  Spec => []SetHasPVC
<1>1. SetsOK => SetHasPVC
  BY DEF SetsOK, SetOK, SetHasPVC
<1> QED  BY SetsInvariant, <1>1, PTL

(* A chunk server is never taken down for another reason than a lost disk. *)
THEOREM SweepSafety ==
  ASSUME Distinct
  PROVE  Spec => OnlyLostDisksAreSwept
<1> DEFINE Swept(v) == \/ sts[ShortName[v]] # NoPV /\ sts'[ShortName[v]] = NoPV
                       \/ ShortName[v] \notin deleting /\ ShortName[v] \in deleting'
<1>1. ASSUME DataInv, FlagTypes, SetsOK, [Next]_vars, NEW v \in Steady, Swept(v)
      PROVE  Lost(v)
  <2> DEFINE n == ShortName[v]
  <2>1. v \in PVs /\ n \in Names /\ SetOK(v)
    BY <1>1 DEF Steady, SetsOK
  <2> USE DEF DataInv, SetTypes, OpTypes, envVars, setVars, opVars
  <2>2. CASE CreateObject
    BY <1>1, <2>1, <2>2 DEF CreateObject, CreateOrder
  <2>3. CASE DeleteObject
    <3>1. cur = n /\ sweeping /\ at > 0
      BY <1>1, <2>1, <2>3 DEF DeleteObject
    <3>2. pvc[n] # NoPV
      BY <1>1, <2>1, <2>3 DEF DeleteObject, SetOK, Present
    <3> QED  BY <2>1, <3>1, <3>2 DEF SetOK, SetInv
  <2>4. CASE Environment
    BY <1>1, <2>1, <2>4 DEF Environment, AddDisk, LoseDisk, ReturnDisk, ReapPV, Reselect,
                            SetEnabled, Event
  <2>5. CASE Kubernetes
    BY <1>1, <2>1, <2>5 DEF Kubernetes, BindPVC, StartPod, StopPod, FinalizePVC
  <2>6. CASE StartReconcile \/ NextElement \/ StartSweep \/ EndReconcile \/ Abort
    BY <1>1, <2>1, <2>6 DEF StartReconcile, NextElement, StartSweep, EndReconcile, Abort
  <2>7. CASE UNCHANGED vars
    BY <1>1, <2>1, <2>7 DEF vars
  <2> QED  BY <1>1, <2>2, <2>3, <2>4, <2>5, <2>6, <2>7 DEF Next, Operator
<1>2. DataInv /\ FlagTypes /\ SetsOK /\ [Next]_vars
        => [\A v \in Steady :
              LET n == ShortName[v]
              IN (sts[n] # NoPV /\ sts'[n] = NoPV) \/ (n \notin deleting /\ n \in deleting')
                   => Lost(v)]_vars
  BY <1>1
<1> QED  BY <1>2, SetsInvariant, PTL DEF Spec, OnlyLostDisksAreSwept

-----------------------------------------------------------------------------
(***************************************************************************)
(* What pods and users see of it.                                          *)
(***************************************************************************)

\* A pod that waits for the garbage collector belongs to a lost disk.
OrphanInv == \A v \in Steady : ShortName[v] \in orphaned => Lost(v)

LEMMA OrphanStep ==
  ASSUME DataInv, FlagTypes, Distinct, SetsOK, OrphanInv, [Next]_vars
  PROVE  OrphanInv'
<1> SUFFICES ASSUME NEW v \in Steady, ShortName[v] \in orphaned'
             PROVE  Lost(v)'
  BY DEF OrphanInv, Steady
<1> DEFINE n == ShortName[v]
<1>1. v \in PVs /\ v \notin Flapping /\ n \in Names /\ SetOK(v)
  BY DEF Steady, SetsOK
<1>2. n \in orphaned => Lost(v)
  BY DEF OrphanInv
<1>3. n \in orphaned \/ n \in pod => pvc[n] = v /\ phase[v] # "absent"
  BY OwnClaim DEF DataInv, SetTypes
<1> HIDE DEF n
<1>4. n = ShortName[v]
  BY DEF n
<1>5. CASE DeleteObject
  <2>1. UNCHANGED <<phase, missing>>
    BY <1>5 DEF DeleteObject, envVars
  <2>2. CASE n \in orphaned
    BY <1>2, <2>1, <2>2 DEF Lost, Exists
  <2>3. CASE n \notin orphaned
    <3>1. cur = n /\ sweeping /\ at > 0 /\ n \in pod
      BY <1>4, <1>5, <2>3 DEF DeleteObject
    <3>2. Lost(v)
      BY <1>1, <1>3, <1>4, <3>1, NoPVAssumption DEF SetOK, SetInv
    <3> QED  BY <2>1, <3>2 DEF Lost, Exists
  <2> QED  BY <2>2, <2>3
<1>6. CASE ~DeleteObject
  <2>1. n \in orphaned
    BY <1>4, <1>6
       DEF Next, Environment, Kubernetes, Operator, vars, setVars, AddDisk, LoseDisk, ReturnDisk,
           ReapPV, Reselect, SetEnabled, Event, BindPVC, StartPod, StopPod, FinalizePVC,
           StartReconcile, NextElement, CreateObject, StartSweep, EndReconcile, Abort
  <2>2. Lost(v) /\ phase[v] # "absent"
    BY <1>2, <1>3, <2>1
  <2> QED
    BY <1>1, <1>6, <2>2, LostStaysLost
<1> QED  BY <1>5, <1>6

(* A chunk server that runs on a steady disk stops for no other reason than the loss of
   the disk, however reconciles are cut off and whatever happens to other disks. *)
ServersRunOn ==
  [][\A v \in Steady : ShortName[v] \in pod /\ ShortName[v] \notin pod' => Lost(v)]_vars

(* What is deployed goes on serving: OnlyLostDisksAreSwept carried over to the pods, which
   the garbage collector stops some time after the sweep, when a StatefulSet of the same
   name may be there again. *)
THEOREM ServersStopOnlyForLoss ==
  ASSUME Distinct
  PROVE  Spec => ServersRunOn
<1>1. Init => OrphanInv
  BY DEF Init, OrphanInv
<1>2. DataInv /\ FlagTypes /\ SetsOK /\ OrphanInv /\ [Next]_vars => OrphanInv'
  BY OrphanStep
<1>3. DataInv /\ OrphanInv /\ [Next]_vars =>
        [\A v \in Steady : ShortName[v] \in pod /\ ShortName[v] \notin pod' => Lost(v)]_vars
  <2> SUFFICES ASSUME DataInv, OrphanInv, [Next]_vars, NEW v \in Steady,
                      ShortName[v] \in pod, ShortName[v] \notin pod'
               PROVE  Lost(v)
    OBVIOUS
  <2>1. PICK m \in Names : StopPod(m)
    BY DEF Next, Environment, Kubernetes, Operator, vars, setVars, AddDisk, LoseDisk, ReturnDisk,
           ReapPV, Reselect, SetEnabled, Event, BindPVC, StartPod, FinalizePVC, StartReconcile,
           NextElement, CreateObject, StartSweep, DeleteObject, EndReconcile, Abort
  <2>2. ShortName[v] = m /\ m \in orphaned
    BY <2>1 DEF StopPod
  <2> QED  BY <2>2 DEF OrphanInv
<1> QED  BY <1>1, <1>2, <1>3, SetsInvariant, PTL DEF Spec, ServersRunOn

(* The resource set of a disk that is lost for good is gone, and the reconcile that may be
   under way has not listed the disk. *)
TornDown(v) == Lost(v) /\ phase[v] # "absent" /\ ~Present(ShortName[v]) /\ v \notin view

(* The safety half of OrphansAreTornDown: what was torn down for a steady disk is never
   built again, not by a list that is out of date and not by events of other disks. *)
THEOREM TornDownForGood ==
  ASSUME Distinct, NEW v \in Steady
  PROVE  Spec => [](TornDown(v) => []TornDown(v))
<1> DEFINE n == ShortName[v]
<1>1. ASSUME DataInv, TornDown(v), [Next]_vars
      PROVE  TornDown(v)'
  <2>1. v \in PVs /\ n \in Names
    BY DEF Steady
  <2>2. Lost(v)' /\ phase'[v] # "absent"
    BY <1>1, LostStaysLost DEF TornDown
  <2>3. v \notin view'
    BY <1>1
       DEF TornDown, Next, Environment, Kubernetes, Operator, vars, opVars, AddDisk, LoseDisk,
           ReturnDisk, ReapPV, Reselect, SetEnabled, Event, BindPVC, StartPod, StopPod,
           FinalizePVC, StartReconcile, NextElement, CreateObject, Advance, StartSweep,
           DeleteObject, EndReconcile, Abort, Idle
  <2> HIDE DEF n
  <2>4. n = ShortName[v]
    BY DEF n
  <2>5. ~Present(n)'
    <3> USE DEF Present
    <3>1. ~Present(n)
      BY <1>1, <2>4 DEF TornDown
    <3>2. CASE CreateObject
      <4>1. cur \in PVs /\ cur \in view
        BY <1>1, <3>2 DEF CreateObject, DataInv, OpTypes, LoopInv
      <4>2. ShortName[cur] # n
        BY <1>1, <2>4, <4>1 DEF TornDown, Distinct
      <4> QED  BY <1>1, <2>1, <3>1, <3>2, <4>2 DEF CreateObject, DataInv, SetTypes
    <3>3. CASE DeleteObject
      BY <1>1, <2>1, <3>1, <3>3 DEF DeleteObject, DataInv, SetTypes
    <3>4. ASSUME NEW m \in Names, FinalizePVC(m)
          PROVE  ~Present(n)'
      BY <1>1, <2>1, <3>1, <3>4 DEF FinalizePVC, DataInv, SetTypes
    <3>5. CASE UNCHANGED <<pvc, sts, parts>>
      BY <3>1, <3>5
    <3> QED
      BY <1>1, <3>2, <3>3, <3>4, <3>5
         DEF Next, Environment, Kubernetes, Operator, vars, setVars, AddDisk, LoseDisk,
             ReturnDisk, ReapPV, Reselect, SetEnabled, Event, BindPVC, StartPod, StopPod,
             StartReconcile, NextElement, StartSweep, EndReconcile, Abort
  <2> QED  BY <2>2, <2>3, <2>4, <2>5 DEF TornDown
<1>2. DataInv /\ TornDown(v) /\ [Next]_vars => TornDown(v)'
  BY <1>1
<1>3. Spec => []DataInv
  BY InitInv, FlagStep, DataStep, PTL DEF Spec
<1> QED  BY <1>2, <1>3, PTL DEF Spec
=============================================================================

---------------------------- MODULE AutoDiscover ----------------------------
(***************************************************************************)
(* Chunk servers from discovered disks: localdisk-operator publishes a     *)
(* PersistentVolume per disk, reconcileAutoDiscoverChunkServers creates a  *)
(* PVC, a headless Service, a ConfigMap and a StatefulSet for it, and      *)
(* sweepOrphanedAutoDiscoverResources deletes them for a lost disk.        *)
(*                                                                         *)
(* Every API call of the operator is a step.  Disks, users, kubelet, the   *)
(* volume controller and the garbage collector act between any two, and    *)
(* any call may fail.  The operator runs only when something it watches    *)
(* has changed: PVs, the LeilFSCluster, and the StatefulSets and Services  *)
(* it owns, but neither PVCs nor ConfigMaps.                               *)
(***************************************************************************)
EXTENDS Integers, Sequences

CONSTANTS
  PVs,          \* names of PersistentVolumes (disk UUIDs)
  Names,        \* resource names "<cluster>-chunk-ad-<first 8 characters>"
  ShortName,    \* ShortName[v]: the resource name derived from PV v
  NoPV,         \* neither a PV nor a name
  Flapping,     \* the PVs whose disks may come back after a loss
  MaxEvents,    \* bound on the changes made by disks and users
  MaxFaults     \* bound on failing calls and operator crashes

ASSUME NamesAssumption == ShortName \in [PVs -> Names]
ASSUME NoPVAssumption == NoPV \notin PVs \cup Names
ASSUME BoundsAssumption == Flapping \subseteq PVs /\ MaxEvents \in Nat /\ MaxFaults \in Nat

VARIABLES
  phase,     \* absent (not created yet), Available, Bound, Released, or reaped
  missing,   \* PVs labelled disk-state=Missing
  selected,  \* PVs whose labels match pvLabelSelector
  enabled,   \* spec.chunk.autoDiscover.enabled
  pvc,       \* pvc[n]: volumeName of the PVC n, NoPV if there is none
  deleting,  \* PVCs with a deletionTimestamp
  sts,       \* sts[n]: the PV that StatefulSet n was last built for, NoPV if none
  parts,     \* the Services and ConfigMaps that exist, <<n, kind>>
  pod,       \* chunk-server pods that hold their PVC
  orphaned,  \* those of them whose StatefulSet was deleted
  dirty,     \* is a reconcile request queued?
  at,        \* progress of the reconcile: 0 idle, otherwise position in an order
  sweeping,  \* in the sweep, not in the create loop
  todo,      \* the rest of the loop: PVs to create for, names to delete
  cur,       \* the element the loop is at
  view,      \* PVs the reconcile listed that exist and are not Missing
  events,    \* changes by disks and users so far
  faults     \* failing calls and crashes so far

envVars == <<phase, missing, selected, enabled, events>>
setVars == <<pvc, deleting, sts, parts, pod, orphaned>>
opVars  == <<at, sweeping, todo, cur, view>>
vars    == <<phase, missing, selected, enabled, events, pvc, deleting, sts,
             parts, pod, orphaned, dirty, at, sweeping, todo, cur, view, faults>>

Phases == {"absent", "Available", "Bound", "Released", "reaped"}

Exists(v)  == phase[v] \notin {"absent", "reaped"}
Healthy(v) == phase[v] \in {"Available", "Bound"} /\ v \notin missing
Lost(v)    == ~Exists(v) \/ v \in missing

\* Some object of the resource set n is there.
Present(n) == \/ sts[n] # NoPV
              \/ pvc[n] # NoPV
              \/ \E kind \in {"Service", "ConfigMap"} : <<n, kind>> \in parts

Init ==
  /\ phase = [v \in PVs |-> "absent"]
  /\ missing = {}
  /\ selected = PVs
  /\ enabled = TRUE
  /\ pvc = [n \in Names |-> NoPV]
  /\ deleting = {}
  /\ sts = [n \in Names |-> NoPV]
  /\ parts = {}
  /\ pod = {}
  /\ orphaned = {}
  /\ dirty = TRUE
  /\ at = 0
  /\ sweeping = FALSE
  /\ todo = {}
  /\ cur = NoPV
  /\ view = {}
  /\ events = 0
  /\ faults = 0

-----------------------------------------------------------------------------
(***************************************************************************)
(* Disks and users                                                         *)
(***************************************************************************)

Event == /\ events < MaxEvents
         /\ events' = events + 1
         /\ UNCHANGED <<setVars, opVars, faults>>

\* A PV event queues the clusters that have autoDiscover enabled.
PVEvent == dirty' = (dirty \/ enabled)

\* localdisk-operator publishes a disk, one that was lost before only if it flaps.
AddDisk(v) ==
  /\ ~Exists(v)
  /\ phase[v] = "reaped" => v \in Flapping
  /\ Event
  /\ phase' = [phase EXCEPT ![v] = "Available"]
  /\ missing' = missing \ {v}
  /\ PVEvent
  /\ UNCHANGED <<selected, enabled>>

\* A disk is confirmed gone; its PV stays.
LoseDisk(v) ==
  /\ Exists(v)
  /\ v \notin missing
  /\ Event
  /\ missing' = missing \cup {v}
  /\ PVEvent
  /\ UNCHANGED <<phase, selected, enabled>>

ReturnDisk(v) ==
  /\ v \in Flapping
  /\ Exists(v)
  /\ v \in missing
  /\ Event
  /\ missing' = missing \ {v}
  /\ PVEvent
  /\ UNCHANGED <<phase, selected, enabled>>

\* localdisk-operator deletes a PV, never one that is Bound.
ReapPV(v) ==
  /\ phase[v] \in {"Available", "Released"}
  /\ Event
  /\ phase' = [phase EXCEPT ![v] = "reaped"]
  /\ PVEvent
  /\ UNCHANGED <<missing, selected, enabled>>

\* Labels or selector change: the PV matches no longer, or again.
Reselect(v) ==
  /\ Event
  /\ selected' = IF v \in selected THEN selected \ {v} ELSE selected \cup {v}
  /\ dirty' = TRUE
  /\ UNCHANGED <<phase, missing, enabled>>

SetEnabled ==
  /\ Event
  /\ enabled' = ~enabled
  /\ dirty' = TRUE
  /\ UNCHANGED <<phase, missing, selected>>

-----------------------------------------------------------------------------
(***************************************************************************)
(* Kubernetes                                                              *)
(***************************************************************************)

\* The volume controller binds a PVC to the volume it names.
BindPVC(n) ==
  /\ pvc[n] # NoPV
  /\ n \notin deleting
  /\ phase[pvc[n]] = "Available"
  /\ phase' = [phase EXCEPT ![pvc[n]] = "Bound"]
  /\ PVEvent
  /\ UNCHANGED <<missing, selected, enabled, events, setVars, opVars, faults>>

(* The StatefulSet's pod starts; kubelet mounts only a bound PVC that is not
   being deleted.  The StatefulSet's status changes. *)
StartPod(n) ==
  /\ sts[n] # NoPV
  /\ n \notin pod
  /\ pvc[n] # NoPV
  /\ n \notin deleting
  /\ phase[pvc[n]] = "Bound"
  /\ pod' = pod \cup {n}
  /\ dirty' = TRUE
  /\ UNCHANGED <<envVars, pvc, deleting, sts, parts, orphaned, opVars, faults>>

\* The garbage collector removes the pod of a deleted StatefulSet, although a
\* StatefulSet of the same name may be there again.
StopPod(n) ==
  /\ n \in orphaned
  /\ pod' = pod \ {n}
  /\ orphaned' = orphaned \ {n}
  /\ UNCHANGED <<envVars, pvc, deleting, sts, parts, dirty, opVars, faults>>

(* A deleted PVC goes when no pod holds it any more (pvc-protection); its
   volume is Released. *)
FinalizePVC(n) ==
  /\ n \in deleting
  /\ n \notin pod
  /\ pvc' = [pvc EXCEPT ![n] = NoPV]
  /\ deleting' = deleting \ {n}
  /\ phase' = [phase EXCEPT ![pvc[n]] = IF @ = "Bound" THEN "Released" ELSE @]
  /\ IF phase' # phase THEN PVEvent ELSE UNCHANGED dirty
  /\ UNCHANGED <<missing, selected, enabled, events, sts, parts, pod, orphaned, opVars, faults>>

-----------------------------------------------------------------------------
(***************************************************************************)
(* The operator                                                            *)
(***************************************************************************)

CreateOrder == <<"PVC", "Service", "ConfigMap", "StatefulSet">>

\* Mutant: the PVC is deleted first.
DeleteOrderPVCFirst == <<"PVC", "StatefulSet", "Service", "ConfigMap">>

DeleteOrder == <<"StatefulSet", "Service", "ConfigMap", "PVC">>

\* The PVs for which the create loop ensures a resource set.
Wanted(v) == v \in selected /\ Healthy(v)

\* Start of reconcileAutoDiscoverChunkServers: nothing unless enabled, else list
\* the PVs.  Both loops look at this list only.
StartReconcile ==
  /\ at = 0
  /\ dirty
  /\ dirty' = FALSE
  /\ IF enabled
     THEN /\ at' = 1
          /\ todo' = {v \in PVs : Wanted(v)}
          /\ view' = {v \in PVs : ~Lost(v)}
     ELSE UNCHANGED <<at, todo, view>>
  /\ UNCHANGED <<envVars, setVars, sweeping, cur, faults>>

\* The loop goes to its next element.
NextElement ==
  /\ at > 0
  /\ cur = NoPV
  /\ \E e \in todo : cur' = e /\ todo' = todo \ {e}
  /\ UNCHANGED <<envVars, setVars, dirty, at, sweeping, view, faults>>

\* Mutant: one object too many.
AdvancePast == /\ at' = IF at > 4 THEN 1 ELSE at + 1
               /\ cur' = IF at > 4 THEN NoPV ELSE cur
               /\ UNCHANGED <<sweeping, todo, view>>

\* After the i-th of the four objects: the next one, or the next element.
Advance == /\ at' = IF at = 4 THEN 1 ELSE at + 1
           /\ cur' = IF at = 4 THEN NoPV ELSE cur
           /\ UNCHANGED <<sweeping, todo, view>>

(* Ensure one object of the set of PV cur.  A PVC that is there is left as it
   is; a StatefulSet that is there gets the template for this PV. *)
CreateObject ==
  /\ at > 0 /\ ~sweeping /\ cur # NoPV
  /\ LET n == ShortName[cur]
         kind == CreateOrder[at]
     IN \/ /\ kind = "PVC"
           /\ pvc' = IF pvc[n] = NoPV THEN [pvc EXCEPT ![n] = cur] ELSE pvc
           /\ UNCHANGED <<sts, parts, dirty>>
        \/ /\ kind = "StatefulSet"
           /\ sts' = [sts EXCEPT ![n] = cur]
           /\ dirty' = (dirty \/ sts' # sts)
           /\ UNCHANGED <<pvc, parts>>
        \/ /\ kind \in {"Service", "ConfigMap"}
           /\ parts' = parts \cup {<<n, kind>>}
           /\ dirty' = (dirty \/ (kind = "Service" /\ parts' # parts))
           /\ UNCHANGED <<pvc, sts>>
  /\ Advance
  /\ UNCHANGED <<envVars, deleting, pod, orphaned, faults>>

\* Mutant: whatever is not wanted any more is swept.
SweepUnwanted ==
  /\ at > 0 /\ ~sweeping /\ cur = NoPV /\ todo = {}
  /\ sweeping' = TRUE
  /\ todo' = {n \in Names : pvc[n] # NoPV /\ ~(pvc[n] \in view /\ Wanted(pvc[n]))}
  /\ UNCHANGED <<envVars, setVars, dirty, at, cur, view, faults>>

\* Mutant: a set whose StatefulSet is gone counts as swept.
SweepDeployed ==
  /\ at > 0 /\ ~sweeping /\ cur = NoPV /\ todo = {}
  /\ sweeping' = TRUE
  /\ todo' = {n \in Names : pvc[n] # NoPV /\ pvc[n] \notin view /\ sts[n] # NoPV}
  /\ UNCHANGED <<envVars, setVars, dirty, at, cur, view, faults>>

(* The create loop is done: list the PVCs, select those whose PV was not listed
   or was Missing. *)
StartSweep ==
  /\ at > 0 /\ ~sweeping /\ cur = NoPV /\ todo = {}
  /\ sweeping' = TRUE
  /\ todo' = {n \in Names : pvc[n] # NoPV /\ pvc[n] \notin view}
  /\ UNCHANGED <<envVars, setVars, dirty, at, cur, view, faults>>

(* Delete one object of set cur; one that is not there is no error.  The PVC
   only gets its deletionTimestamp. *)
DeleteObject ==
  /\ at > 0 /\ sweeping /\ cur # NoPV
  /\ LET kind == DeleteOrder[at]
     IN \/ /\ kind = "PVC"
           /\ deleting' = IF pvc[cur] = NoPV THEN deleting ELSE deleting \cup {cur}
           /\ UNCHANGED <<sts, parts, dirty, orphaned>>
        \/ /\ kind = "StatefulSet"
           /\ sts' = [sts EXCEPT ![cur] = NoPV]
           /\ orphaned' = orphaned \cup (pod \cap {cur})
           /\ dirty' = (dirty \/ sts' # sts)
           /\ UNCHANGED <<deleting, parts>>
        \/ /\ kind \in {"Service", "ConfigMap"}
           /\ parts' = parts \ {<<cur, kind>>}
           /\ dirty' = (dirty \/ (kind = "Service" /\ parts' # parts))
           /\ UNCHANGED <<deleting, sts, orphaned>>
  /\ Advance
  /\ UNCHANGED <<envVars, pvc, pod, faults>>

Idle == /\ at' = 0
        /\ sweeping' = FALSE
        /\ todo' = {}
        /\ cur' = NoPV
        /\ view' = {}

EndReconcile ==
  /\ at > 0 /\ sweeping /\ cur = NoPV /\ todo = {}
  /\ Idle
  /\ UNCHANGED <<envVars, setVars, dirty, faults>>

\* Mutant: an error is logged and the request is not queued again.
AbortAndForget ==
  /\ at > 0
  /\ faults < MaxFaults
  /\ faults' = faults + 1
  /\ Idle
  /\ UNCHANGED <<envVars, setVars, dirty>>

(* A call fails before or after it took effect, or the operator crashes: the
   request is queued again, by the back-off or by the list at start-up. *)
Abort ==
  /\ at > 0
  /\ faults < MaxFaults
  /\ faults' = faults + 1
  /\ dirty' = TRUE
  /\ Idle
  /\ UNCHANGED <<envVars, setVars>>

-----------------------------------------------------------------------------
Environment == \/ \E v \in PVs : \/ AddDisk(v) \/ LoseDisk(v) \/ ReturnDisk(v)
                                 \/ ReapPV(v) \/ Reselect(v)
               \/ SetEnabled

Kubernetes == \E n \in Names : \/ BindPVC(n) \/ StartPod(n)
                               \/ StopPod(n) \/ FinalizePVC(n)

Operator == \/ StartReconcile \/ NextElement \/ CreateObject
            \/ StartSweep \/ DeleteObject \/ EndReconcile

Next == Environment \/ Kubernetes \/ Operator \/ Abort

Spec == Init /\ [][Next]_vars

\* Kubernetes and the operator go on; disks, users and faults owe nothing.
FairSpec == /\ Spec
            /\ WF_vars(Operator)
            /\ \A n \in Names : /\ WF_vars(BindPVC(n))
                                /\ WF_vars(StartPod(n))
                                /\ WF_vars(StopPod(n))
                                /\ WF_vars(FinalizePVC(n))

-----------------------------------------------------------------------------
(***************************************************************************)
(* Properties                                                              *)
(***************************************************************************)

EnvTypes ==
  /\ phase \in [PVs -> Phases]
  /\ missing \in SUBSET PVs
  /\ selected \in SUBSET PVs
  /\ events \in 0 .. MaxEvents
  /\ faults \in 0 .. MaxFaults

SetTypes ==
  /\ pvc \in [Names -> PVs \cup {NoPV}]
  /\ deleting \in SUBSET {n \in Names : pvc[n] # NoPV}
  /\ sts \in [Names -> PVs \cup {NoPV}]
  /\ parts \in SUBSET (Names \X {"Service", "ConfigMap"})
  /\ pod \in SUBSET {n \in Names : pvc[n] # NoPV}
  /\ orphaned \in SUBSET pod

FlagTypes == enabled \in BOOLEAN /\ dirty \in BOOLEAN /\ sweeping \in BOOLEAN

OpTypes ==
  /\ at \in 0 .. 4
  /\ sweeping => todo \subseteq Names /\ cur \in Names \cup {NoPV}
  /\ ~sweeping => todo \subseteq PVs /\ cur \in PVs \cup {NoPV}
  /\ view \in SUBSET PVs

\* The type invariant of the discovery: of disks, resource sets and loops.
TypeOK == EnvTypes /\ SetTypes /\ FlagTypes /\ OpTypes

Steady == PVs \ Flapping

\* Where the loops of a reconcile are.
LoopInv ==
  /\ at = 0 => ~sweeping /\ cur = NoPV /\ todo = {}
  /\ at > 1 => cur # NoPV
  /\ ~sweeping => todo \subseteq view /\ (cur # NoPV => cur \in view)
  /\ \A v \in view : phase[v] # "absent"

\* A claim carries the name of the disk it was made for, which had been published.
ClaimInv ==
  \A n \in Names :
    pvc[n] # NoPV => ShortName[pvc[n]] = n /\ phase[pvc[n]] # "absent"

(* The resource set of disk v: what the sweep works on is lost and was not listed;
   it deletes in order; what belonged to a dying claim is gone and stays so. *)
SetInv(v) ==
  LET n == ShortName[v]
      gone(kind) == <<n, kind>> \notin parts
  IN /\ at > 0 /\ v \notin view /\ pvc[n] # NoPV => Lost(v)
     /\ sweeping /\ (n \in todo \/ cur = n) => v \notin view
     /\ sweeping /\ cur = n => /\ at > 1 => sts[n] = NoPV
                               /\ at > 2 => gone("Service")
                               /\ at > 3 => gone("ConfigMap")
     /\ ~sweeping /\ cur = v /\ at > 1 => pvc[n] # NoPV
     /\ n \in deleting => /\ Lost(v) /\ v \notin view
                          /\ sts[n] = NoPV /\ gone("Service") /\ gone("ConfigMap")

SweepInv == \A v \in Steady : SetInv(v)

(* No object of a resource set is left without the set's PVC: the sweep finds
   orphans by their PVCs only, so that anything else is lost to it.  It holds
   through every failing call because the PVC is created first and deleted last. *)
SetHasPVC == \A v \in Steady : Present(ShortName[v]) => pvc[ShortName[v]] # NoPV

(* A chunk server is taken down for a lost disk and for no other reason: not when
   discovery is disabled, not when the volume stops matching the selector, not
   when it is published while a reconcile is under way. *)
OnlyLostDisksAreSwept ==
  [][\A v \in Steady :
       LET n == ShortName[v]
       IN (sts[n] # NoPV /\ sts'[n] = NoPV) \/ (n \notin deleting /\ n \in deleting')
            => Lost(v)]_vars

(* The whole resource set of a disk that is lost once and for all goes away. *)
OrphansAreTornDown ==
  \A v \in Steady : <>[](enabled /\ Lost(v)) => <>[]~Present(ShortName[v])

(* The claim of any disk that is lost in the end goes, however often the disk came
   back, also while its claim was being deleted: nothing keeps the volume from
   being released and removed. *)
ClaimsAreReleased ==
  \A v \in PVs : <>[](enabled /\ Lost(v)) => <>[](pvc[ShortName[v]] = NoPV)

(* A disk that is there in the end and was never lost has a running chunk server,
   whatever the other disks, failing calls and users do meanwhile. *)
DisksAreServed ==
  \A v \in Steady :
    <>[](enabled /\ v \in selected /\ Healthy(v)) => <>[](ShortName[v] \in pod)
=============================================================================

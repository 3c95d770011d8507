----------------------------- MODULE OperatorHA -----------------------------
(***************************************************************************)
(* The operator as observer of the election: reconcileMasterHA reads the   *)
(* HA Lease, puts the active-master label on the holder's pod, removes it  *)
(* from the others, and records the holder in status.activeMaster.  Its    *)
(* writes are steps of their own: the election, crashes and time go on     *)
(* between its reads and its writes.  Composed with MasterHA, whose Lease  *)
(* it reads and whose pods it labels.                                      *)
(*                                                                         *)
(* The Services of an HA cluster select pods by the label, and route to    *)
(* those that are ready.                                                   *)
(***************************************************************************)
EXTENDS MasterHA

VARIABLES
  labels,        \* pods that carry leilfs.io/active-master=true
  activeMaster,  \* status.activeMaster
  opPc,          \* where reconcileMasterHA is
  opHolder,      \* the holder it read, NoHolder if the Lease was expired
  todo,          \* the pods of its list it has not labelled yet
  snapshot       \* which pods of that list carried the label when listed

opVars  == <<labels, activeMaster, opPc, opHolder, todo, snapshot>>
allVars == <<vars, opVars>>

OpLabels == {"idle", "list", "labels", "status"}

Existing  == {p \in Pods : phase[p] # "absent"}
Endpoints == {p \in labels : Ready(p)}

OpInit == /\ Init
          /\ labels = {}
          /\ activeMaster = NoHolder
          /\ opPc = "idle"
          /\ opHolder = NoHolder
          /\ todo = {}
          /\ snapshot = {}

\* A step of the election.  A pod that is replaced comes back without the label.
Election == /\ Next
            /\ labels' = {p \in labels : phase'[p] # "absent"}
            /\ UNCHANGED <<activeMaster, opPc, opHolder, todo, snapshot>>

-----------------------------------------------------------------------------
(***************************************************************************)
(* reconcileMasterHA                                                       *)
(***************************************************************************)

\* Mutant: nothing to do when the status already names the holder.
OpReadUnlessKnown ==
  /\ opPc = "idle"
  /\ holder \notin {NoHolder, activeMaster}
  /\ opHolder' = IF Expired THEN NoHolder ELSE holder
  /\ opPc' = IF Expired THEN "status" ELSE "list"
  /\ UNCHANGED <<vars, labels, activeMaster, todo, snapshot>>

\* Mutant: the age of the Lease is not looked at.
OpReadAnyAge ==
  /\ opPc = "idle"
  /\ holder # NoHolder
  /\ opHolder' = holder
  /\ opPc' = "list"
  /\ UNCHANGED <<vars, labels, activeMaster, todo, snapshot>>

\* Mutant: a Lease without holder is not treated apart.
OpReadHolderless ==
  /\ opPc = "idle"
  /\ \/ age <= LeaseDuration /\ opHolder' = holder /\ opPc' = "list"
     \/ Expired /\ opHolder' = NoHolder /\ opPc' = "status"
  /\ UNCHANGED <<vars, labels, activeMaster, todo, snapshot>>

(* A Lease without holder is left alone, status and labels too.  A Lease that
   is older than its duration clears the status and nothing else.  The operator
   compares fractions of a second, age > leaseDuration, so that within the unit
   in which the Lease expires it may see it either way. *)
OpRead ==
  /\ opPc = "idle"
  /\ holder # NoHolder
  /\ \/ age <= LeaseDuration /\ opHolder' = holder /\ opPc' = "list"
     \/ Expired /\ opHolder' = NoHolder /\ opPc' = "status"
  /\ UNCHANGED <<vars, labels, activeMaster, todo, snapshot>>

\* Mutant: the labels are taken off first, so that no old one is left.
OpListClearing ==
  /\ opPc = "list"
  /\ opPc' = "labels"
  /\ todo' = Existing
  /\ snapshot' = {}
  /\ labels' = {}
  /\ UNCHANGED <<vars, activeMaster, opHolder>>

\* List the pods of the master StatefulSet; on an error the reconcile ends.
OpList ==
  /\ opPc = "list"
  /\ \/ /\ opPc' = "labels"
        /\ todo' = Existing
        /\ snapshot' = labels
        /\ UNCHANGED vars
     \/ /\ opPc' = "idle"
        /\ UNCHANGED <<leaseVars, podVars, loopVars, grace, todo, snapshot>>
        /\ Fault("operator")
  /\ UNCHANGED <<labels, activeMaster, opHolder>>

(* Patch the label of one pod, in the order of the list.  The patch is the
   difference to the listed pod, so that it is empty when the pod had the wanted
   label then, and it is applied by name to whatever pod has that name now.  A
   failed patch is logged and the loop goes on. *)
OpLabel(p) ==
  /\ opPc = "labels"
  /\ p \in todo
  /\ \/ /\ labels' = IF (p \in snapshot) = (p = opHolder) \/ p \notin Existing
                     THEN labels
                     ELSE IF p = opHolder THEN labels \cup {p} ELSE labels \ {p}
        /\ UNCHANGED vars
     \/ /\ Fault("operator")
        /\ UNCHANGED <<leaseVars, podVars, loopVars, grace, labels>>
  /\ todo' = todo \ {p}
  /\ UNCHANGED <<activeMaster, opPc, opHolder, snapshot>>

(* All pods are done: write the Service selector (which already is the label),
   then the status at the end of Reconcile.  If either write fails, the status
   in the API server stays as it was. *)
OpStatus ==
  /\ \/ opPc = "labels" /\ todo = {}
     \/ opPc = "status"
  /\ \/ activeMaster' = opHolder /\ UNCHANGED vars
     \/ /\ Fault("operator")
        /\ UNCHANGED <<leaseVars, podVars, loopVars, grace, activeMaster>>
  /\ opPc' = "idle"
  /\ opHolder' = NoHolder
  /\ snapshot' = {}
  /\ UNCHANGED <<labels, todo>>

\* The operator dies in the middle of a reconcile and starts over.
OpCrash ==
  /\ opPc # "idle"
  /\ Fault("operator")
  /\ opPc' = "idle"
  /\ opHolder' = NoHolder
  /\ todo' = {}
  /\ snapshot' = {}
  /\ UNCHANGED <<leaseVars, podVars, loopVars, grace, labels, activeMaster>>

Operator == OpRead \/ OpList \/ (\E p \in Pods : OpLabel(p)) \/ OpStatus

OpNext == Election \/ Operator \/ OpCrash

OpSpec == OpInit /\ [][OpNext]_allVars

\* With the deadlines of TimelySpec met.
TimelyOpNext == (Election /\ TimelyNext) \/ Operator \/ OpCrash
TimelyOpSpec == OpInit /\ [][TimelyOpNext]_allVars

(***************************************************************************)
(* The election goes on: time does not pass over what is due (Urgent), so  *)
(* that one fairness condition covers its timed steps.  The operator       *)
(* requeues every leaseObserveInterval, and after an error with a          *)
(* back-off.                                                               *)
(***************************************************************************)
Progress == \/ BootstrapLease
            \/ Tick
            \/ \E p \in Pods : Sidecar(p) \/ PodStart(p)
            \/ \E p \in Pods \ SlowStart : RecoverNode(p)

OpFairness == WF_allVars(Election /\ Progress) /\ WF_allVars(Operator)

OpFairSpec == OpSpec /\ OpFairness

-----------------------------------------------------------------------------
(***************************************************************************)
(* Properties                                                              *)
(***************************************************************************)

\* The type invariant of the operator's part.
OpTypeOK ==
  /\ labels \in SUBSET Pods
  /\ activeMaster \in Pods \cup {NoHolder}
  /\ opPc \in OpLabels
  /\ opHolder \in Pods \cup {NoHolder}
  /\ todo \in SUBSET Pods
  /\ snapshot \in SUBSET Pods
  /\ opPc \in {"list", "labels"} => opHolder # NoHolder

(* p is the master, holds the Lease with its renewals on time, and no other sidecar is
   about to write the Lease; the label and the status name p, and so does what a pass
   of the operator that is under way has read. *)
Routed(p) ==
  /\ Ready(p) /\ personality[p] = "master"
  /\ holder = p /\ age <= RenewInterval
  /\ pc[p] \in {"observe", "renew"}
  /\ \A q \in Pods \ {p} : phase[q] = "running" => pc[q] \notin {"renew", "release"}
  /\ labels = {p} /\ activeMaster = p
  /\ opPc # "idle" => opHolder = p

(* Routing is kept: while nothing fails, no step of the election and no pass of the
   operator takes clients away from a settled master, not even for a moment. *)
RoutingIsKept ==
  [][\A p \in Pods \ Flaky : Routed(p) /\ faults' = faults => Routed(p)']_allVars

(* Once the election has settled, the Services route to the master and to it
   alone and the status names it: the label a pod lost with its restart comes
   back, a failed patch is repeated, a stale read does not stick. *)
RoutingConverges ==
  \A p \in Pods :
    <>[](ActiveMaster(p) /\ holder = p)
      => <>[](Endpoints = {p} /\ activeMaster = p)

(* A holder that never comes back disappears from the status, although nobody
   takes the Lease from it. *)
StatusForgetsDeadHolder ==
  <>[](holder # NoHolder /\ Expired) => <>[](activeMaster = NoHolder)

\* Clients that go through a Service reach a master, never a shadow.
EndpointsAreMasters == \A p \in Endpoints : personality[p] = "master"
=============================================================================

----------------------------- MODULE Plugin_proofs -----------------------------
(***************************************************************************)
(* Proofs about the runs of the plugin, for any number of runs, any        *)
(* collision of their names, any scripts and any faults.                   *)
(***************************************************************************)
EXTENDS Plugin, TLAPS

USE NameOfAssumption, NoPodAssumption


-----------------------------------------------------------------------------
(* Types *)

LEMMA PodFields ==
  ASSUME TypeOK, NEW n \in Names, pods[n] # NoPod
  PROVE  /\ pods[n] \in PodType
         /\ pods[n].owner \in Runs /\ pods[n].phase \in Phases /\ pods[n].deleting \in BOOLEAN
<1>1. pods[n] \in PodType
  BY DEF TypeOK
<1> QED  BY <1>1 DEF PodType

\* A pod that is updated is a pod.
LEMMA PodUpdates ==
  ASSUME NEW p \in PodType, NEW ph \in Phases
  PROVE  /\ [p EXCEPT !.deleting = TRUE] \in PodType
         /\ [p EXCEPT !.phase = ph] \in PodType
BY DEF PodType

LEMMA NewPodTyped ==
  ASSUME TypeOK, NEW r \in Runs, NewPod(r)
  PROVE  pods' \in [Names -> PodType \cup {NoPod}]
<1>1. [owner |-> r, phase |-> "Pending", deleting |-> FALSE] \in PodType
  BY DEF PodType, Phases
<1> QED  BY <1>1 DEF NewPod, TypeOK

LEMMA MarkDeletedTyped ==
  ASSUME TypeOK, NEW n \in Names, MarkDeleted(n)
  PROVE  pods' \in [Names -> PodType \cup {NoPod}]
<1>1. pods[n] # NoPod => [pods[n] EXCEPT !.deleting = TRUE] \in PodType
  BY PodFields, PodUpdates DEF Phases
<1> QED  BY <1>1 DEF MarkDeleted, TypeOK

LEMMA StepTyped ==
  ASSUME step \in [Runs -> 1 .. 5], NEW r \in Runs, NEW last \in 1 .. 4,
         step' = step \/ (step[r] \leq last /\ step' = [step EXCEPT ![r] = @ + 1])
  PROVE  step' \in [Runs -> 1 .. 5]
OBVIOUS

LEMMA OwnerOfTyped ==
  ASSUME TypeOK, NEW n \in Names
  PROVE  OwnerOf(n) \subseteq Runs
BY PodFields DEF OwnerOf

LEMMA InitTypeOK == Init => TypeOK
BY DEF Init, TypeOK, Containers, Locations, Results

LEMMA NextTypeOK == TypeOK /\ [Next]_vars => TypeOK'
<1> SUFFICES ASSUME TypeOK, [Next]_vars
             PROVE  TypeOK'
  OBVIOUS
<1> USE DEF TypeOK, Containers, Locations, Results, Fault, Goto, Returns, Fails, apiVars, nodeVars, pluginVars
<1>1. ASSUME NEW r \in Runs, Plugin(r)
      PROVE  TypeOK'
  <2>1. CASE Prepare(r)
    BY <2>1 DEF Prepare
  <2>2. CASE Create(r)
    BY <2>2, NewPodTyped DEF Create
  <2>3. CASE CreateRefused(r)
    BY <2>3 DEF CreateRefused
  <2>4. CASE CreateFails(r)
    BY <2>4, NewPodTyped DEF CreateFails
  <2>5. CASE Started(r)
    BY <2>5 DEF Started
  <2>6. CASE TimesOut(r)
    BY <2>6 DEF TimesOut
  <2>7. CASE OpenStream(r)
    <3>1. Pod(r) # NoPod => Pod(r).owner \in Runs
      BY PodFields DEF Pod
    <3> QED  BY <2>7, <3>1 DEF OpenStream
  <2>8. CASE StreamEnds(r)
    BY <2>8 DEF StreamEnds
  <2>9. CASE CheckPhase(r)
    BY <2>9 DEF CheckPhase
  <2>10. CASE CallFails(r)
    BY <2>10 DEF CallFails
  <2>11. CASE Delete(r)
    <3>1. OwnerOf(NameOf[r]) \subseteq Runs
      BY OwnerOfTyped
    <3> QED  BY <2>11, <3>1, MarkDeletedTyped DEF Delete
  <2>12. CASE DeleteFails(r)
    BY <2>12 DEF DeleteFails
  <2>13. CASE KillPlugin(r)
    BY <2>13 DEF KillPlugin
  <2> QED  BY <1>1, <2>1, <2>2, <2>3, <2>4, <2>5, <2>6, <2>7, <2>8, <2>9, <2>10, <2>11, <2>12, <2>13 DEF Plugin
<1>2. ASSUME NEW r \in Runs, RunScript(r)
      PROVE  TypeOK'
  <2>1. Len(Script[r]) \in 1 .. 4
    BY ScriptAssumption DEF AdminScript, MountScript
  <2>3. \/ step' = step
        \/ step[r] \leq Len(Script[r]) /\ step' = [step EXCEPT ![r] = @ + 1]
    BY <1>2, <2>1 DEF RunScript
  <2>2. step' \in [Runs -> 1 .. 5]
    BY <2>1, <2>3, StepTyped
  <2> QED  BY <1>2, <2>2 DEF RunScript
<1>3. ASSUME NEW n \in Names, Cluster(n)
      PROVE  TypeOK'
  <2>1. CASE StartContainer(n)
    BY <2>1, PodFields DEF StartContainer
  <2>2. CASE ReportPhase(n)
    <3>1. PhaseOf(container[pods[n].owner]) \in Phases
      BY DEF PhaseOf, Phases
    <3>2. pods' \in [Names -> PodType \cup {NoPod}]
      BY <2>2, <3>1, PodFields, PodUpdates DEF ReportPhase
    <3> QED  BY <2>2, <3>2 DEF ReportPhase
  <2>3. CASE KillContainer(n)
    BY <2>3, PodFields DEF KillContainer
  <2>4. CASE RemovePod(n)
    BY <2>4 DEF RemovePod
  <2>5. CASE Drain(n)
    BY <2>5, OwnerOfTyped, MarkDeletedTyped DEF Drain
  <2>6. CASE Evict(n)
    BY <2>6, PodFields DEF Evict
  <2> QED  BY <1>3, <2>1, <2>2, <2>3, <2>4, <2>5, <2>6 DEF Cluster
<1>4. CASE UNCHANGED vars
  BY <1>4 DEF vars
<1> QED  BY <1>1, <1>2, <1>3, <1>4 DEF Next, Finished

(* Pods, containers and runs are always what their declarations say. *)
THEOREM TypeCorrect == Spec => []TypeOK
BY InitTypeOK, NextTypeOK, PTL DEF Spec

-----------------------------------------------------------------------------
(* Success means that the container is over *)

(* The log is followed until the container ends, and nothing is returned before
   the phase was looked at. *)
EndInv ==
  \A r \in Runs :
    /\ pc[r] = "check" => container[stream[r]] \in Over
    /\ pc[r] \in {"prepare", "create", "wait", "open", "follow", "check"} => result[r] = "none"
    /\ result[r] \in {"success", "exitcode"} => container[stream[r]] \in Over

LEMMA InitEndInv == Init => EndInv
BY DEF Init, EndInv

LEMMA NextEndInv == TypeOK /\ EndInv /\ [Next]_vars => EndInv'
<1> SUFFICES ASSUME TypeOK /\ EndInv, [Next]_vars
             PROVE  EndInv'
  OBVIOUS
<1> USE DEF TypeOK, EndInv, Over, Containers, Locations, Results, Fault, Goto, Returns, Fails, apiVars, nodeVars, pluginVars
<1>1. ASSUME NEW r \in Runs, Plugin(r)
      PROVE  EndInv'
  <2>1. CASE Prepare(r)
    BY <2>1 DEF Prepare
  <2>2. CASE Create(r)
    BY <2>2 DEF Create
  <2>3. CASE CreateRefused(r)
    BY <2>3 DEF CreateRefused
  <2>4. CASE CreateFails(r)
    BY <2>4 DEF CreateFails
  <2>5. CASE Started(r)
    BY <2>5 DEF Started
  <2>6. CASE TimesOut(r)
    BY <2>6 DEF TimesOut
  <2>7. CASE OpenStream(r)
    BY <2>7 DEF OpenStream
  <2>8. CASE StreamEnds(r)
    BY <2>8 DEF StreamEnds
  <2>9. CASE CheckPhase(r)
    BY <2>9 DEF CheckPhase
  <2>10. CASE CallFails(r)
    BY <2>10 DEF CallFails
  <2>11. CASE Delete(r)
    BY <2>11 DEF Delete
  <2>12. CASE DeleteFails(r)
    BY <2>12 DEF DeleteFails
  <2>13. CASE KillPlugin(r)
    BY <2>13 DEF KillPlugin
  <2> QED  BY <1>1, <2>1, <2>2, <2>3, <2>4, <2>5, <2>6, <2>7, <2>8, <2>9, <2>10, <2>11, <2>12, <2>13 DEF Plugin
<1>2. ASSUME NEW r \in Runs, RunScript(r)
      PROVE  EndInv'
  BY <1>2 DEF RunScript
<1>3. ASSUME NEW n \in Names, Cluster(n)
      PROVE  EndInv'
  <2>1. CASE StartContainer(n)
    BY <2>1, PodFields DEF StartContainer
  <2>2. CASE ReportPhase(n)
    BY <2>2 DEF ReportPhase
  <2>3. CASE KillContainer(n)
    BY <2>3, PodFields DEF KillContainer
  <2>4. CASE RemovePod(n)
    BY <2>4 DEF RemovePod
  <2>5. CASE Drain(n)
    BY <2>5 DEF Drain
  <2>6. CASE Evict(n)
    BY <2>6, PodFields DEF Evict
  <2> QED  BY <1>3, <2>1, <2>2, <2>3, <2>4, <2>5, <2>6 DEF Cluster
<1>4. CASE UNCHANGED vars
  BY <1>4 DEF vars
<1> QED  BY <1>1, <1>2, <1>3, <1>4 DEF Next, Finished

(* SuccessMeansOver: after a reported success nothing of the command is left to
   happen. *)
THEOREM SuccessIsOver == Spec => []SuccessMeansOver
<1>1. EndInv => SuccessMeansOver
  BY DEF EndInv, SuccessMeansOver
<1> QED  BY <1>1, InitEndInv, NextEndInv, TypeCorrect, PTL DEF Spec

-----------------------------------------------------------------------------
(* Whose pod it is *)

(* A pod has the name of the run that created it and is deleted by no other run
   as long as its own run needs it. *)
OwnInv ==
  /\ \A n \in Names : pods[n] # NoPod =>
       NameOf[pods[n].owner] = n /\ pc[pods[n].owner] \notin {"prepare", "create"}
  /\ \A r \in Runs : pc[r] \in {"wait", "open", "follow", "check", "delete"} /\ r \notin removed =>
       Pod(r) # NoPod /\ Pod(r).owner = r /\ ~Pod(r).deleting
  /\ NothingLeftBehind

LEMMA InitOwnInv == Init => OwnInv
BY DEF Init, OwnInv, NothingLeftBehind

LEMMA NextOwnInv == TypeOK /\ OwnInv /\ [Next]_vars => OwnInv'
<1> SUFFICES ASSUME TypeOK /\ OwnInv, [Next]_vars
             PROVE  OwnInv'
  OBVIOUS
<1> USE DEF TypeOK, OwnInv, NothingLeftBehind, Pod, Locations, Fault, Goto, Returns, Fails, apiVars, nodeVars, pluginVars
<1>1. ASSUME NEW r \in Runs, Plugin(r)
      PROVE  OwnInv'
  <2>1. CASE Prepare(r)
    BY <2>1, PodFields DEF Prepare
  <2>2. CASE Create(r)
    <3>1. /\ pods'[NameOf[r]] \in PodType
          /\ pods'[NameOf[r]].owner = r /\ ~pods'[NameOf[r]].deleting
      BY <2>2 DEF Create, NewPod, PodType, Phases
    <3>2. \A m \in Names : m # NameOf[r] => pods'[m] = pods[m]
      BY <2>2 DEF Create, NewPod
    <3>3. pods'[NameOf[r]] # NoPod
      BY <3>1
    <3>4. pods[NameOf[r]] = NoPod /\ pc[r] = "create" /\ pc' = [pc EXCEPT ![r] = "wait"]
      BY <2>2 DEF Create
    <3>5. UNCHANGED <<left, removed>>
      BY <2>2 DEF Create
    <3> QED  BY <3>1, <3>2, <3>3, <3>4, <3>5, PodFields
  <2>3. CASE CreateRefused(r)
    BY <2>3 DEF CreateRefused
  <2>4. CASE CreateFails(r)
    BY <2>4, PodFields DEF CreateFails, NewPod, PodType
  <2>5. CASE Started(r)
    BY <2>5, PodFields DEF Started
  <2>6. CASE TimesOut(r)
    BY <2>6 DEF TimesOut
  <2>7. CASE OpenStream(r)
    BY <2>7, PodFields DEF OpenStream
  <2>8. CASE StreamEnds(r)
    BY <2>8 DEF StreamEnds
  <2>9. CASE CheckPhase(r)
    BY <2>9 DEF CheckPhase
  <2>10. CASE CallFails(r)
    BY <2>10 DEF CallFails
  <2>11. CASE Delete(r)
    BY <2>11, PodFields DEF Delete, MarkDeleted, OwnerOf
  <2>12. CASE DeleteFails(r)
    BY <2>12 DEF DeleteFails
  <2>13. CASE KillPlugin(r)
    BY <2>13 DEF KillPlugin
  <2> QED  BY <1>1, <2>1, <2>2, <2>3, <2>4, <2>5, <2>6, <2>7, <2>8, <2>9, <2>10, <2>11, <2>12, <2>13 DEF Plugin
<1>2. ASSUME NEW r \in Runs, RunScript(r)
      PROVE  OwnInv'
  BY <1>2 DEF RunScript
<1>3. ASSUME NEW n \in Names, Cluster(n)
      PROVE  OwnInv'
  <2>1. CASE StartContainer(n)
    BY <2>1 DEF StartContainer
  <2>2. CASE ReportPhase(n)
    <3>1. PhaseOf(container[pods[n].owner]) \in Phases
      BY DEF PhaseOf, Phases
    <3>2. /\ pods'[n] \in PodType
          /\ pods'[n].owner = pods[n].owner /\ pods'[n].deleting = pods[n].deleting
      BY <2>2, <3>1, PodFields, PodUpdates DEF ReportPhase, PodType
    <3>3. \A m \in Names : m # n => pods'[m] = pods[m]
      BY <2>2 DEF ReportPhase
    <3>4. pods[n] # NoPod /\ pods'[n] # NoPod
      BY <2>2, <3>2 DEF ReportPhase
    <3>5. UNCHANGED <<pc, left, removed>>
      BY <2>2 DEF ReportPhase
    <3> QED  BY <3>2, <3>3, <3>4, <3>5, PodFields
  <2>3. CASE KillContainer(n)
    BY <2>3 DEF KillContainer
  <2>4. CASE RemovePod(n)
    BY <2>4 DEF RemovePod
  <2>5. CASE Drain(n)
    BY <2>5, PodFields DEF Drain, MarkDeleted, OwnerOf
  <2>6. CASE Evict(n)
    BY <2>6 DEF Evict
  <2> QED  BY <1>3, <2>1, <2>2, <2>3, <2>4, <2>5, <2>6 DEF Cluster
<1>4. CASE UNCHANGED vars
  BY <1>4 DEF vars
<1> QED  BY <1>1, <1>2, <1>3, <1>4 DEF Next, Finished

LEMMA OwnershipInductive == Spec => [](TypeOK /\ OwnInv)
BY InitTypeOK, NextTypeOK, InitOwnInv, NextOwnInv, PTL DEF Spec

(* NothingLeftBehind: every path out of a run that still can deletes its pod. *)
THEOREM CleansUp == Spec => []NothingLeftBehind
<1>1. OwnInv => NothingLeftBehind
  BY DEF OwnInv
<1> QED  BY <1>1, OwnershipInductive, PTL

(* OwnPodOnly: a deletion hits another run's pod only after one's own was deleted
   by somebody else. *)
THEOREM DeletesOwnPod == Spec => OwnPodOnly
<1>1. TypeOK /\ OwnInv =>
        \A r \in Runs : pc[r] = "delete" /\ Pod(r) # NoPod => Pod(r).owner = r \/ r \in removed
  BY DEF OwnInv
<1>2. TypeOK /\ OwnInv /\ [Next]_vars =>
        [\A r \in Runs :
           /\ pc[r] = "delete" /\ pc'[r] = "done"
           /\ Pod(r) # NoPod /\ Pod(r)' # Pod(r)
           => Pod(r).owner = r \/ r \in removed]_vars
  BY <1>1
<1> QED  BY <1>2, OwnershipInductive, PTL DEF Spec, OwnPodOnly

-----------------------------------------------------------------------------
(* Whose exit code it is *)

(* A phase that says Failed is true of the container of the pod's owner. *)
FailInv ==
  /\ \A n \in Names : pods[n] # NoPod /\ pods[n].phase = "Failed" =>
       container[pods[n].owner] \in {"failed", "killed"}
  /\ ExitCodeIsOwn

LEMMA InitFailInv == Init => FailInv
BY DEF Init, FailInv, ExitCodeIsOwn

LEMMA NextFailInv == TypeOK /\ OwnInv /\ FailInv /\ [Next]_vars => FailInv'
<1> SUFFICES ASSUME TypeOK /\ OwnInv /\ FailInv, [Next]_vars
             PROVE  FailInv'
  OBVIOUS
<1> USE DEF TypeOK, FailInv, ExitCodeIsOwn, Pod, Containers, Results, Fault, Goto, Returns, Fails, apiVars, nodeVars, pluginVars
<1>1. ASSUME NEW r \in Runs, Plugin(r)
      PROVE  FailInv'
  <2>1. CASE Prepare(r)
    BY <2>1, PodFields DEF Prepare
  <2>2. CASE Create(r)
    <3>1. /\ pods'[NameOf[r]] \in PodType
          /\ pods'[NameOf[r]].owner = r /\ pods'[NameOf[r]].phase = "Pending"
      BY <2>2 DEF Create, NewPod, PodType, Phases
    <3>2. \A m \in Names : m # NameOf[r] => pods'[m] = pods[m]
      BY <2>2 DEF Create, NewPod
    <3>3. pods'[NameOf[r]] # NoPod
      BY <3>1
    <3>4. pods[NameOf[r]] = NoPod
      BY <2>2 DEF Create
    <3>5. UNCHANGED <<container, result, removed>>
      BY <2>2 DEF Create
    <3> QED  BY <3>1, <3>2, <3>3, <3>4, <3>5, PodFields
  <2>3. CASE CreateRefused(r)
    BY <2>3 DEF CreateRefused
  <2>4. CASE CreateFails(r)
    <3>1. CASE UNCHANGED <<pods, left>>
      BY <2>4, <3>1 DEF CreateFails
    <3>2. CASE Pod(r) = NoPod /\ NewPod(r)
      <4>1. /\ pods'[NameOf[r]] \in PodType
          /\ pods'[NameOf[r]].owner = r /\ pods'[NameOf[r]].phase = "Pending"
      BY <2>4, <3>2 DEF NewPod, PodType, Phases
      <4>2. \A m \in Names : m # NameOf[r] => pods'[m] = pods[m]
      BY <2>4, <3>2 DEF NewPod
      <4>3. pods'[NameOf[r]] # NoPod
      BY <4>1
      <4>4. pods[NameOf[r]] = NoPod
      BY <2>4, <3>2 DEF CreateFails
      <4>5. /\ UNCHANGED <<container, removed>>
          /\ result' = [result EXCEPT ![r] = "error"]
      BY <2>4, <3>2 DEF CreateFails
      <4> QED  BY <4>1, <4>2, <4>3, <4>4, <4>5, PodFields
    <3> QED  BY <2>4, <3>1, <3>2 DEF CreateFails
  <2>5. CASE Started(r)
    BY <2>5, PodFields DEF Started
  <2>6. CASE TimesOut(r)
    BY <2>6 DEF TimesOut
  <2>7. CASE OpenStream(r)
    BY <2>7, PodFields DEF OpenStream
  <2>8. CASE StreamEnds(r)
    BY <2>8 DEF StreamEnds
  <2>9. CASE CheckPhase(r)
    BY <2>9, PodFields DEF CheckPhase, OwnInv
  <2>10. CASE CallFails(r)
    BY <2>10 DEF CallFails
  <2>11. CASE Delete(r)
    BY <2>11, PodFields DEF Delete, MarkDeleted, OwnerOf
  <2>12. CASE DeleteFails(r)
    BY <2>12 DEF DeleteFails
  <2>13. CASE KillPlugin(r)
    BY <2>13 DEF KillPlugin
  <2> QED  BY <1>1, <2>1, <2>2, <2>3, <2>4, <2>5, <2>6, <2>7, <2>8, <2>9, <2>10, <2>11, <2>12, <2>13 DEF Plugin
<1>2. ASSUME NEW r \in Runs, RunScript(r)
      PROVE  FailInv'
  <2>1. /\ container[r] = "running"
        /\ \/ container' = container
           \/ container' = [container EXCEPT ![r] = "ok"]
           \/ container' = [container EXCEPT ![r] = "failed"]
        /\ UNCHANGED <<pods, result, removed>>
    BY <1>2 DEF RunScript
  <2> QED  BY <2>1, PodFields
<1>3. ASSUME NEW n \in Names, Cluster(n)
      PROVE  FailInv'
  <2>1. CASE StartContainer(n)
    BY <2>1, PodFields DEF StartContainer
  <2>2. CASE ReportPhase(n)
    <3> DEFINE c == container[pods[n].owner]
    <3>0. PhaseOf(c) \in Phases /\ (PhaseOf(c) = "Failed" => c \in {"failed", "killed"})
      BY PodFields, <2>2 DEF PhaseOf, Phases, ReportPhase
    <3>1. pods[n] # NoPod /\ pods' = [pods EXCEPT ![n].phase = PhaseOf(c)]
      BY <2>2 DEF ReportPhase
    <3> HIDE DEF c
    <3>2. /\ pods'[n] \in PodType
          /\ pods'[n].owner = pods[n].owner /\ pods'[n].phase = PhaseOf(c)
      BY <3>0, <3>1, PodFields, PodUpdates DEF PodType
    <3>3. \A m \in Names : m # n => pods'[m] = pods[m]
      BY <3>1
    <3>4. UNCHANGED <<container, result, removed>>
      BY <2>2 DEF ReportPhase
    <3> QED  BY <3>0, <3>1, <3>2, <3>3, <3>4, PodFields DEF c
  <2>3. CASE KillContainer(n)
    BY <2>3, PodFields DEF KillContainer
  <2>4. CASE RemovePod(n)
    BY <2>4, PodFields DEF RemovePod
  <2>5. CASE Drain(n)
    BY <2>5, PodFields DEF Drain, MarkDeleted, OwnerOf
  <2>6. CASE Evict(n)
    BY <2>6, PodFields DEF Evict
  <2> QED  BY <1>3, <2>1, <2>2, <2>3, <2>4, <2>5, <2>6 DEF Cluster
<1>4. CASE UNCHANGED vars
  BY <1>4 DEF vars
<1> QED  BY <1>1, <1>2, <1>3, <1>4 DEF Next, Finished

(* ExitCodeIsOwn: a reported exit code is the one of the run's own command. *)
THEOREM ExitCodeTrue == Spec => []ExitCodeIsOwn
<1>1. FailInv => ExitCodeIsOwn
  BY DEF FailInv
<1> QED  BY <1>1, InitFailInv, NextFailInv, OwnershipInductive, PTL DEF Spec
=============================================================================

-------------------------------- MODULE Plugin --------------------------------
(***************************************************************************)
(* The commands of the kubectl plugin that need a client image: "admin"    *)
(* and "filegoal get|set".  A run of the plugin creates an ephemeral pod,  *)
(* waits until it has started, follows its log, looks at its phase to tell *)
(* success from failure, and deletes it.                                   *)
(*                                                                         *)
(* Several runs, of several users, go on at a time; their pods live in one *)
(* namespace under names made of a clock reading.  Every call to the API   *)
(* server is a step, and so is everything Kubernetes does to a pod: the    *)
(* container ends on the node first, and its phase is reported later.      *)
(***************************************************************************)
EXTENDS Naturals, Sequences, FiniteSets

CONSTANTS
  Runs,        \* runs of the plugin
  Names,       \* names of pods
  NameOf,      \* the pod name of each run: the command and UnixNano()%1e9, which may repeat
  Script,      \* the steps of each run's container, see AdminScript, MountScript
  NoPod,       \* a pod that does not exist
  FaultKinds,  \* the kinds of fault that may occur
  MaxFaults    \* bound on the number of faults of a behaviour

\* A step of a script: under "set -e" the script ends with the first step that
\* must work and does not.
Must(name) == [name |-> name, must |-> TRUE]
Try(name)  == [name |-> name, must |-> FALSE]

\* The container of "admin" is the command itself.
AdminScript == <<Must("command")>>

\* buildMountScript
MountScript == <<Must("mkdir"), Must("sfsmount"), Must("command"), Try("unmount")>>

Phases  == {"Pending", "Running", "Succeeded", "Failed"}
PodType == [owner : Runs, phase : Phases, deleting : BOOLEAN]

ASSUME NameOfAssumption == NameOf \in [Runs -> Names]
\* The names of the two commands differ: <cluster>-admin-..., <cluster>-filegoal-...
ASSUME KindsAssumption == \A r, q \in Runs : NameOf[r] = NameOf[q] => Script[r] = Script[q]
ASSUME ScriptAssumption == Script \in [Runs -> {AdminScript, MountScript}]
ASSUME NoPodAssumption == NoPod \notin PodType
ASSUME MaxFaultsAssumption == MaxFaults \in Nat

VARIABLES
  pods,       \* the pod of each name, or NoPod
  container,  \* what became of the container of each run's own pod
  step,       \* the step of its script that is next
  pc,         \* where each run is
  stream,     \* the run whose container a run follows the log of
  result,     \* what the plugin returns
  left,       \* runs that ended without deleting the pod they created
  removed,    \* runs whose pod was deleted by somebody else
  faults      \* number of faults so far

apiVars    == <<pods, left, removed>>
nodeVars   == <<container, step>>
pluginVars == <<pc, stream, result>>
vars       == <<pods, container, step, pc, stream, result, left, removed, faults>>

Containers == {"waiting", "running", "ok", "failed", "killed"}
Over       == {"ok", "failed", "killed"}
Locations  == {"prepare", "create", "wait", "open", "follow", "check", "delete",
               "done", "killed"}
Results    == {"none", "success", "error", "exitcode"}

Pod(r) == pods[NameOf[r]]

\* Type invariant: pods and runs are what the declarations above say.
TypeOK ==
  /\ pods \in [Names -> PodType \cup {NoPod}]
  /\ container \in [Runs -> Containers]
  /\ step \in [Runs -> 1 .. 5]
  /\ pc \in [Runs -> Locations]
  /\ stream \in [Runs -> Runs]
  /\ result \in [Runs -> Results]
  /\ left \subseteq Runs
  /\ removed \subseteq Runs
  /\ faults \in Nat

Init ==
  /\ pods = [n \in Names |-> NoPod]
  /\ container = [r \in Runs |-> "waiting"]
  /\ step = [r \in Runs |-> 1]
  /\ pc = [r \in Runs |-> "prepare"]
  /\ stream = [r \in Runs |-> r]
  /\ result = [r \in Runs |-> "none"]
  /\ left = {}
  /\ removed = {}
  /\ faults = 0

Fault(kind) == kind \in FaultKinds /\ faults < MaxFaults /\ faults' = faults + 1

Goto(r, l)      == pc' = [pc EXCEPT ![r] = l]
Returns(r, res) == result' = [result EXCEPT ![r] = res]

-----------------------------------------------------------------------------
(* The plugin *)

(* runAdmin, prepareFileGoalRun: without a configuration, a namespace or the
   LeilFSCluster the run is over before a pod exists. *)
Prepare(r) ==
  /\ pc[r] = "prepare"
  /\ \/ Goto(r, "create") /\ UNCHANGED result
     \/ Goto(r, "done") /\ Returns(r, "error")
  /\ UNCHANGED <<apiVars, nodeVars, stream, faults>>

NewPod(r) ==
  pods' = [pods EXCEPT ![NameOf[r]] = [owner |-> r, phase |-> "Pending", deleting |-> FALSE]]

Create(r) ==
  /\ pc[r] = "create"
  /\ Pod(r) = NoPod
  /\ NewPod(r)
  /\ Goto(r, "wait")
  /\ UNCHANGED <<nodeVars, stream, result, left, removed, faults>>

\* Mutant: the deletion is deferred before the pod is created.
CreateRefusedAfterDefer(r) ==
  /\ pc[r] = "create"
  /\ Pod(r) # NoPod
  /\ Goto(r, "delete")
  /\ Returns(r, "error")
  /\ UNCHANGED <<apiVars, nodeVars, stream, faults>>

(* AlreadyExists *)
CreateRefused(r) ==
  /\ pc[r] = "create"
  /\ Pod(r) # NoPod
  /\ Goto(r, "done")
  /\ Returns(r, "error")
  /\ UNCHANGED <<apiVars, nodeVars, stream, faults>>

(* The request is lost, or it takes effect and its answer is lost.  Either way
   nothing was deferred yet. *)
CreateFails(r) ==
  /\ pc[r] = "create"
  /\ Fault("api")
  /\ \/ UNCHANGED <<pods, left>>
     \/ Pod(r) = NoPod /\ NewPod(r) /\ left' = left \cup {r}
  /\ Goto(r, "done")
  /\ Returns(r, "error")
  /\ UNCHANGED <<nodeVars, stream, removed>>

\* From here on every return runs the deferred deletion.
Fails(r) == Goto(r, "delete") /\ Returns(r, "error")

(* waitForPodRunningOrDone: a poll that ends the waiting; NotFound is an error. *)
Started(r) ==
  /\ pc[r] = "wait"
  /\ Pod(r) # NoPod => Pod(r).phase # "Pending"
  /\ IF Pod(r) = NoPod THEN Fails(r) ELSE Goto(r, "open") /\ UNCHANGED result
  /\ UNCHANGED <<apiVars, nodeVars, stream, faults>>

\* Mutant: the deletion is deferred after the waiting.
TimesOutBeforeDefer(r) ==
  /\ pc[r] = "wait"
  /\ Goto(r, "done")
  /\ Returns(r, "error")
  /\ UNCHANGED <<apiVars, nodeVars, stream, faults>>

(* The timeout of a minute is over: no image, no node, a slow poll. *)
TimesOut(r) ==
  /\ pc[r] = "wait"
  /\ Fails(r)
  /\ UNCHANGED <<apiVars, nodeVars, stream, faults>>

(* GetLogs: refused while the container waits. *)
OpenStream(r) ==
  /\ pc[r] = "open"
  /\ IF Pod(r) # NoPod /\ container[Pod(r).owner] # "waiting"
     THEN /\ stream' = [stream EXCEPT ![r] = Pod(r).owner]
          /\ Goto(r, "follow")
          /\ UNCHANGED result
     ELSE Fails(r) /\ UNCHANGED stream
  /\ UNCHANGED <<apiVars, nodeVars, faults>>

\* Mutant: the log is read without following it.
StreamEndsAtOnce(r) ==
  /\ pc[r] = "follow"
  /\ Goto(r, "check")
  /\ UNCHANGED <<apiVars, nodeVars, stream, result, faults>>

(* Follow: the end of the log is the end of the container. *)
StreamEnds(r) ==
  /\ pc[r] = "follow"
  /\ container[stream[r]] \in Over
  /\ Goto(r, "check")
  /\ UNCHANGED <<apiVars, nodeVars, stream, result, faults>>

\* Mutant: the phase of any pod but a succeeded one is a failure.
CheckPhaseNotSucceeded(r) ==
  /\ pc[r] = "check"
  /\ Goto(r, "delete")
  /\ Returns(r, IF Pod(r) # NoPod /\ Pod(r).phase # "Succeeded" THEN "exitcode" ELSE "success")
  /\ UNCHANGED <<apiVars, nodeVars, stream, faults>>

\* Mutant: the phase itself is returned.
CheckPhaseRaw(r) ==
  /\ pc[r] = "check"
  /\ Goto(r, "delete")
  /\ Returns(r, IF Pod(r) # NoPod THEN Pod(r).phase ELSE "success")
  /\ UNCHANGED <<apiVars, nodeVars, stream, faults>>

(* Whatever is not Failed is a success: a pod that is gone, and a phase that has
   not been reported yet. *)
CheckPhase(r) ==
  /\ pc[r] = "check"
  /\ Goto(r, "delete")
  /\ Returns(r, IF Pod(r) # NoPod /\ Pod(r).phase = "Failed" THEN "exitcode" ELSE "success")
  /\ UNCHANGED <<apiVars, nodeVars, stream, faults>>

(* A call of the run fails.  A failing look at the phase counts as success. *)
CallFails(r) ==
  /\ pc[r] \in {"wait", "open", "follow", "check"}
  /\ Fault("api")
  /\ Goto(r, "delete")
  /\ Returns(r, IF pc[r] = "check" THEN "success" ELSE "error")
  /\ UNCHANGED <<apiVars, nodeVars, stream>>

\* The API server accepts a deletion: the pod goes away gracefully.
MarkDeleted(n) ==
  pods' = [pods EXCEPT ![n] = IF @ = NoPod THEN @ ELSE [@ EXCEPT !.deleting = TRUE]]

OwnerOf(n) == IF pods[n] = NoPod THEN {} ELSE {pods[n].owner}

\* Mutant: a pod that failed is kept for a look at it.
DeleteUnlessFailed(r) ==
  /\ pc[r] = "delete"
  /\ IF result[r] = "success" THEN MarkDeleted(NameOf[r]) ELSE UNCHANGED pods
  /\ removed' = removed \cup (OwnerOf(NameOf[r]) \ {r})
  /\ Goto(r, "done")
  /\ UNCHANGED <<nodeVars, stream, result, left, faults>>

(* The deferred deletion, by name.  Its error is dropped. *)
Delete(r) ==
  /\ pc[r] = "delete"
  /\ MarkDeleted(NameOf[r])
  /\ removed' = removed \cup (OwnerOf(NameOf[r]) \ {r})
  /\ Goto(r, "done")
  /\ UNCHANGED <<nodeVars, stream, result, left, faults>>

DeleteFails(r) ==
  /\ pc[r] = "delete"
  /\ Fault("api")
  /\ left' = left \cup {r}
  /\ Goto(r, "done")
  /\ UNCHANGED <<pods, removed, nodeVars, stream, result>>

(* Ctrl-C: the context is context.Background(), nothing deferred runs. *)
KillPlugin(r) ==
  /\ pc[r] \notin {"done", "killed"}
  /\ Fault("interrupt")
  /\ left' = left \cup {r}
  /\ Goto(r, "killed")
  /\ UNCHANGED <<pods, removed, nodeVars, stream, result>>

-----------------------------------------------------------------------------
(* Kubernetes *)

StartContainer(n) ==
  /\ pods[n] # NoPod
  /\ ~pods[n].deleting
  /\ container[pods[n].owner] = "waiting"
  /\ container' = [container EXCEPT ![pods[n].owner] = "running"]
  /\ UNCHANGED <<apiVars, step, pluginVars, faults>>

(* A step of the script ends, well or not. *)
RunScript(r) ==
  /\ container[r] = "running"
  /\ \/ /\ step[r] < Len(Script[r])
        /\ step' = [step EXCEPT ![r] = @ + 1]
        /\ UNCHANGED container
     \/ /\ step[r] = Len(Script[r])
        /\ container' = [container EXCEPT ![r] = "ok"]
        /\ step' = [step EXCEPT ![r] = @ + 1]
     \/ /\ Script[r][step[r]].must
        /\ container' = [container EXCEPT ![r] = "failed"]
        /\ UNCHANGED step
  /\ UNCHANGED <<apiVars, pluginVars, faults>>

PhaseOf(c) ==
  CASE c = "waiting" -> "Pending"
    [] c = "running" -> "Running"
    [] c = "ok"      -> "Succeeded"
    [] OTHER         -> "Failed"

(* The kubelet reports the phase. *)
ReportPhase(n) ==
  /\ pods[n] # NoPod
  /\ LET p == PhaseOf(container[pods[n].owner])
     IN pods[n].phase # p /\ pods' = [pods EXCEPT ![n].phase = p]
  /\ UNCHANGED <<left, removed, nodeVars, pluginVars, faults>>

(* The containers of a pod that is being deleted are killed. *)
KillContainer(n) ==
  /\ pods[n] # NoPod
  /\ pods[n].deleting
  /\ container[pods[n].owner] = "running"
  /\ container' = [container EXCEPT ![pods[n].owner] = "killed"]
  /\ UNCHANGED <<apiVars, step, pluginVars, faults>>

RemovePod(n) ==
  /\ pods[n] # NoPod
  /\ pods[n].deleting
  /\ container[pods[n].owner] # "running"
  /\ pods' = [pods EXCEPT ![n] = NoPod]
  /\ UNCHANGED <<left, removed, nodeVars, pluginVars, faults>>

(* Somebody drains the node or deletes the pod. *)
Drain(n) ==
  /\ pods[n] # NoPod
  /\ ~pods[n].deleting
  /\ Fault("drain")
  /\ MarkDeleted(n)
  /\ removed' = removed \cup OwnerOf(n)
  /\ UNCHANGED <<left, nodeVars, pluginVars>>

(* The node runs out of memory: the pod stays, its container does not. *)
Evict(n) ==
  /\ pods[n] # NoPod
  /\ container[pods[n].owner] = "running"
  /\ Fault("evict")
  /\ container' = [container EXCEPT ![pods[n].owner] = "killed"]
  /\ UNCHANGED <<apiVars, step, pluginVars>>

(* Every run is over and no pod is about to change. *)
Finished ==
  /\ \A r \in Runs : pc[r] \in {"done", "killed"}
  /\ \A n \in Names : pods[n] # NoPod =>
       ~pods[n].deleting /\ pods[n].phase \in {"Succeeded", "Failed"}
  /\ UNCHANGED vars

-----------------------------------------------------------------------------
(* One run of the plugin, and what the nodes do. *)

Plugin(r) ==
  \/ Prepare(r) \/ Create(r) \/ CreateRefused(r) \/ CreateFails(r) \/ Started(r)
  \/ TimesOut(r) \/ OpenStream(r) \/ StreamEnds(r) \/ CheckPhase(r) \/ CallFails(r)
  \/ Delete(r) \/ DeleteFails(r) \/ KillPlugin(r)

Cluster(n) ==
  \/ StartContainer(n) \/ ReportPhase(n) \/ KillContainer(n) \/ RemovePod(n)
  \/ Drain(n) \/ Evict(n)

Next ==
  \/ \E r \in Runs : Plugin(r) \/ RunScript(r)
  \/ \E n \in Names : Cluster(n)
  \/ Finished

Forward(r) ==
  \/ Prepare(r) \/ Create(r) \/ CreateRefused(r) \/ Started(r) \/ TimesOut(r)
  \/ OpenStream(r) \/ StreamEnds(r) \/ CheckPhase(r) \/ Delete(r)

(* A plugin that is not interrupted goes on, a command ends some day, and the
   nodes report, kill and remove.  Nothing says that a container ever starts. *)
Fairness ==
  /\ \A r \in Runs : WF_vars(Forward(r)) /\ WF_vars(RunScript(r))
  /\ \A n \in Names :
       WF_vars(ReportPhase(n)) /\ WF_vars(KillContainer(n)) /\ WF_vars(RemovePod(n))

Spec == Init /\ [][Next]_vars /\ Fairness

-----------------------------------------------------------------------------
(***************************************************************************)
(* Safety                                                                  *)
(***************************************************************************)

(* When the plugin returns success the container it followed has ended: nothing
   of a reported "filegoal set" happens after the report.  (A failing look at
   the phase, a phase that lags, a pod that was drained in between do not matter
   for this: the log was followed to its end.) *)
SuccessMeansOver ==
  \A r \in Runs : result[r] \in {"success", "exitcode"} => container[stream[r]] \in Over

(* A run that reports an exit code reports its own command's failure, however
   many runs share the clock reading in their name, unless somebody else
   deleted its pod and the name was used again. *)
ExitCodeIsOwn ==
  \A r \in Runs : result[r] = "exitcode" /\ r \notin removed => container[r] \in {"failed", "killed"}

(* Whatever the outcome the pod of a run that is over is on its way out, except
   when its creation or its deletion lost its answer or the plugin was killed. *)
NothingLeftBehind ==
  \A n \in Names : pods[n] # NoPod =>
    LET r == pods[n].owner
    IN pc[r] \in {"done", "killed"} /\ r \notin left => pods[n].deleting

(* A run deletes the pod it created and nobody else's, unless its own had
   been deleted by somebody else and another run got the name. *)
OwnPodOnly ==
  [][\A r \in Runs :
       /\ pc[r] = "delete" /\ pc'[r] = "done"
       /\ Pod(r) # NoPod /\ Pod(r)' # Pod(r)
       => Pod(r).owner = r \/ r \in removed]_vars

(***************************************************************************)
(* Liveness                                                                *)
(***************************************************************************)

(* Every pod goes away, also one that never starts, except the ones no run will
   delete. *)
PodsGoAway ==
  \A r \in Runs : pc[r] = "wait" ~> (r \in left \/ \A n \in Names : pods[n] = NoPod \/ pods[n].owner # r)

(***************************************************************************)
(* What the source says and the code does not do                           *)
(***************************************************************************)

(* admin.go: "Check final pod phase to propagate failure."  The log ends with
   the container, the phase follows with the next report of the kubelet: the
   plugin looks in between and reports the failed command as a success. *)
FailureIsReported ==
  \A r \in Runs : result[r] = "success" => container[r] = "ok"
=============================================================================

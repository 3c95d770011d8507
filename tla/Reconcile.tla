------------------------------ MODULE Reconcile ------------------------------
(***************************************************************************)
(* The reconcile loop of one LeilFSCluster: finalizer, validation, the     *)
(* ordered steps that create, update and delete the cluster's objects, the *)
(* status patch, the metrics, the deletion of the cluster.                 *)
(*                                                                         *)
(* The operator works on the copy of the cluster it read at the start.     *)
(* Every API call that may write is a step of its own; users change or     *)
(* delete the cluster between any two of them, any call may fail, with or  *)
(* without effect, and the operator may crash.  One worker serves the      *)
(* cluster, so that reconciles do not overlap.                             *)
(*                                                                         *)
(* What happens to the master pod after the operator's writes is here only *)
(* as far as it depends on them: the election among several pods is the    *)
(* subject of MasterHA, the auto-discovered chunk servers of AutoDiscover. *)
(***************************************************************************)
EXTENDS Admission, SequencesExt

CONSTANTS
  Specs,       \* the specs users write, admissible or not
  FirstSpec,   \* the spec the cluster is created with
  None,        \* an object that does not exist
  MaxChanges,  \* bound on the spec changes of users
  MaxFaults    \* bound on failing calls and operator crashes

ASSUME FirstSpecAssumption == FirstSpec \in Specs /\ Admitted(FirstSpec)
ASSUME BoundsAssumption == MaxChanges \in Nat /\ MaxFaults \in Nat
\* A spec lists its chunk servers in an order.
ASSUME ServersAssumption == \A s \in Specs : s.servers \in Seq(ToSet(s.servers))

VARIABLES
  exists,      \* is the LeilFSCluster in the API server?
  deleted,     \* its deletionTimestamp is set
  finalizer,   \* it carries leilfsClusterFinalizer
  spec,        \* its spec
  gen,         \* its generation
  status,      \* its Ready condition: [ready, reason, observed]
  objects,     \* the other objects of the cluster: what is told apart, or None
  pod,         \* a master pod: [template, role, file], or None
  metrics,     \* the phase the operator's series of this cluster show, or None
  dirty,       \* a reconcile request is queued
  pc,          \* where Reconcile is
  snap,        \* the spec it read
  snapGen,     \* the generation it read
  todo,        \* the calls of the steps that are left
  failed,      \* the reason of reconcileErr, or "no"
  faults       \* failing calls and crashes so far

clusterVars == <<exists, deleted, finalizer, spec, gen, status>>
opVars      == <<pc, snap, snapGen, todo, failed>>
vars        == <<exists, deleted, finalizer, spec, gen, status, objects, pod, metrics,
                 dirty, pc, snap, snapGen, todo, failed, faults>>

-----------------------------------------------------------------------------
(***************************************************************************)
(* The steps, as the calls they make.  A call ensures that an object is    *)
(* there with a value, or, with the value None, that it is not there.      *)
(***************************************************************************)
Call(o, v)   == [obj |-> o, val |-> v]
Ensure(o, v) == <<Call(o, v)>>
Absent(o)    == <<Call(o, None)>>
EnsureIf(c, o, v) == IF c THEN Ensure(o, v) ELSE Absent(o)

HA(s)      == s.shadow > 0
Route(s)   == IF HA(s) THEN "activeMaster" ELSE "allMasters"
Chunk(kind, srv) == <<kind, "chunk", srv.name>>

Goals          == <<"ConfigMap", "goals">>
MasterHeadless == <<"Service", "master-hl">>
MasterSet      == <<"StatefulSet", "master">>
MasterService  == <<"Service", "master">>
ServiceAccount == <<"ServiceAccount", "master">>
Role           == <<"Role", "master-ha">>
RoleBinding    == <<"RoleBinding", "master-ha">>
Lease          == <<"Lease", "master-ha">>
PDB            == <<"PodDisruptionBudget", "master">>
ExposeService  == <<"Service", "client-expose">>
Legacy == <<<<"DaemonSet", "master">>, <<"Deployment", "master">>,
            <<"StatefulSet", "shadow">>, <<"Service", "shadow">>>>

GoalsCalls(s) == EnsureIf(s.goals # <<>>, Goals, GoalsConfig(s.goals))

\* migrateMasterToStatefulSet
MigrationCalls == Absent(Legacy[1]) \o Absent(Legacy[2]) \o Absent(Legacy[3]) \o Absent(Legacy[4])

(* What a change of makes the pods be replaced: the sidecar, the volume with the goals,
   the default goal in the script of init-config. *)
Template(s) == [ha |-> HA(s), goals |-> s.goals # <<>>, default |-> DefaultGoal(s.goals)]

MasterSetValue(s) == [replicas |-> 1 + s.shadow, template |-> Template(s)]

MasterCalls(s) == Ensure(MasterHeadless, "allMasters") \o Ensure(MasterSet, MasterSetValue(s))

ServiceCalls(s) == Ensure(MasterService, Route(s))

\* Mutant: nobody binds the account to the Role.
RBACCallsUnbound(s) == IF HA(s) THEN Ensure(ServiceAccount, "account") \o Ensure(Role, 1 + s.shadow)
                       ELSE <<>>

\* Without HA nothing is created and nothing is removed.
RBACCalls(s) ==
  IF HA(s) THEN Ensure(ServiceAccount, "account") \o Ensure(Role, 1 + s.shadow)
                \o Ensure(RoleBinding, "binding")
  ELSE <<>>

\* The Lease of reconcileMasterHA; its labels and status are OperatorHA's.
LeaseCalls(s) == EnsureIf(HA(s), Lease, "unheld")

PDBCalls(s) == EnsureIf(HA(s), PDB, "minAvailable1")

ChunkHeadlessService(srv) == Call(Chunk("Service", srv), "chunk")
ChunkHddConfigMap(srv)    == Call(Chunk("ConfigMap", srv), "hdd")
ChunkStatefulSet(srv)     == Call(Chunk("StatefulSet", srv), ChunkTemplate(srv))

ChunkServerCalls(srv) ==
  <<ChunkHeadlessService(srv), ChunkHddConfigMap(srv), ChunkStatefulSet(srv)>>

\* reconcileChunkServers: three objects per server, nothing for other servers.
ChunkCalls(s) ==
  [k \in 1 .. 3 * Len(s.servers) |->
     ChunkServerCalls(s.servers[1 + ((k - 1) \div 3)])[1 + ((k - 1) % 3)]]

MetaloggerSet     == <<"StatefulSet", "metalogger">>
MetaloggerService == <<"Service", "metalogger">>

MetaloggerCalls(s) ==
  IF "metalogger" \in s.features
  THEN Ensure(MetaloggerService, "on") \o Ensure(MetaloggerSet, "on")
  ELSE Absent(MetaloggerSet) \o Absent(MetaloggerService)

Interface        == <<"Deployment", "interface">>
InterfaceService == <<"Service", "interface">>

InterfaceCalls(s) ==
  LET on == "interface" \in s.features
  IN EnsureIf(on, Interface, "on") \o EnsureIf(on, InterfaceService, "on")

\* The admin port is in the Service only if it is set.
ExposeValue(s) ==
  [type |-> "NodePort", route |-> Route(s),
   ports |-> <<s.clientPort>> \o IF s.adminPort > 0 THEN <<s.adminPort>> ELSE <<>>]

ExposeCalls(s) == EnsureIf("expose" \in s.features, ExposeService, ExposeValue(s))

NFSConfig     == <<"ConfigMap", "nfs">>
NFSDeployment == <<"Deployment", "nfs">>
NFSService    == <<"Service", "nfs">>

NFSValue(s) == [type |-> IF s.nfsType = Empty THEN "NodePort" ELSE s.nfsType,
                route |-> "gateway", ports |-> <<s.nfsPort>>]

NFSCalls(s) ==
  IF "nfs" \in s.features
  THEN Ensure(NFSConfig, "on") \o Ensure(NFSDeployment, "on") \o Ensure(NFSService, NFSValue(s))
  ELSE Absent(NFSDeployment) \o Absent(NFSService) \o Absent(NFSConfig)

\* Mutant: the goals are written after the StatefulSet that names the default one.
CallsGoalsLast(s) ==
  MigrationCalls \o MasterCalls(s) \o ServiceCalls(s) \o RBACCalls(s)
  \o LeaseCalls(s) \o PDBCalls(s) \o ChunkCalls(s) \o MetaloggerCalls(s)
  \o InterfaceCalls(s) \o ExposeCalls(s) \o NFSCalls(s) \o GoalsCalls(s)

\* The steps of Reconcile in their order.
Calls(s) ==
  GoalsCalls(s) \o MigrationCalls \o MasterCalls(s) \o ServiceCalls(s) \o RBACCalls(s)
  \o LeaseCalls(s) \o PDBCalls(s) \o ChunkCalls(s) \o MetaloggerCalls(s)
  \o InterfaceCalls(s) \o ExposeCalls(s) \o NFSCalls(s)

Objects == ToSet(Legacy) \cup {ServiceAccount, Role, RoleBinding}
           \cup UNION {{c.obj : c \in ToSet(Calls(s))} : s \in Specs}

\* An object that exists has some other value than None.
ASSUME NoneAssumption ==
  /\ None \notin {"unheld", "held", "account", "binding", "minAvailable1", "chunk", "hdd", "on"}
  /\ \A s \in Specs : ExposeValue(s) # None /\ NFSValue(s) # None

\* Kinds the controller Owns: a change queues a request.
Watched == {"StatefulSet", "Deployment", "Service", "ServiceAccount", "Role",
            "RoleBinding", "Lease"}

\* What the API server makes of a call: an existing Lease is not touched.
Result(c) == IF c.obj = Lease /\ c.val # None /\ objects[Lease] # None
             THEN objects[Lease] ELSE c.val

(* The API server's own checks of node ports (0: it chooses one, and never one that a
   spec asks for).  The range is its --service-node-port-range.  Within a Service no
   port is asked for twice, no two Services have the same one, and one of type
   ClusterIP has none (it drops those an existing Service has when its type changes,
   and refuses them the next time; here it refuses them at once). *)
NodePortServices == {ExposeService, NFSService}

ServiceNodePortRange == 30000 .. 32767

NodePorts(v) == ToSet(v.ports) \ {0}

Acceptable(c) ==
  c.val # None /\ c.obj \in NodePortServices =>
    /\ NodePorts(c.val) \subseteq ServiceNodePortRange
    /\ \A i, j \in DOMAIN c.val.ports :
         c.val.ports[i] = c.val.ports[j] /\ c.val.ports[i] # 0 => i = j
    /\ c.val.type = "ClusterIP" => NodePorts(c.val) = {}
    /\ \A o \in NodePortServices \ {c.obj} :
         objects[o] # None => NodePorts(c.val) \cap NodePorts(objects[o]) = {}

-----------------------------------------------------------------------------
Unknown == [ready |-> "unknown", reason |-> "none", observed |-> 0]

Init ==
  /\ exists = TRUE
  /\ deleted = FALSE
  /\ finalizer = FALSE
  /\ spec = FirstSpec
  /\ gen = 1
  /\ status = Unknown
  /\ \E old \in {{}, ToSet(Legacy)} :
       objects = [o \in Objects |-> IF o \in old THEN "legacy" ELSE None]
  /\ pod = None
  /\ metrics = None
  /\ dirty = TRUE
  /\ pc = "idle"
  /\ snap = FirstSpec
  /\ snapGen = 0
  /\ todo = <<>>
  /\ failed = "no"
  /\ faults = 0

-----------------------------------------------------------------------------
(***************************************************************************)
(* Users and Kubernetes                                                    *)
(***************************************************************************)

\* A user writes a spec; the webhook rejects it unless it is admitted.
UpdateSpec(s) ==
  /\ exists
  /\ gen <= MaxChanges
  /\ s # spec
  /\ Admitted(s)
  /\ spec' = s
  /\ gen' = gen + 1
  /\ dirty' = TRUE
  /\ UNCHANGED <<exists, deleted, finalizer, status, objects, pod, metrics, opVars, faults>>

\* A user deletes the cluster; a finalizer keeps it in the API server.
DeleteCluster ==
  /\ exists
  /\ ~deleted
  /\ deleted' = TRUE
  /\ exists' = finalizer
  /\ dirty' = TRUE
  /\ UNCHANGED <<finalizer, spec, gen, status, objects, pod, metrics, opVars, faults>>

\* The garbage collector removes what a cluster that is gone owned.
CollectGarbage ==
  /\ ~exists
  /\ \E o \in Objects : objects[o] # None
  /\ objects' = [o \in Objects |-> None]
  /\ UNCHANGED <<clusterVars, pod, metrics, dirty, opVars, faults>>

\* The containers start: init-config copies the goals and makes the pod a master iff
\* the Lease names it.
Started(t) == [template |-> t,
               role |-> IF objects[Lease] = "held" THEN "master" ELSE "shadow",
               file |-> IF t.goals THEN objects[Goals].file ELSE {}]

Waiting(t) == [template |-> t, role |-> "waiting", file |-> {}]

(* The StatefulSet controller creates the master pod if its ServiceAccount is there;
   the pod waits for the ConfigMap it mounts. *)
StartMaster ==
  /\ objects[MasterSet] # None
  /\ objects[ServiceAccount] # None
  /\ pod = None
  /\ LET t == objects[MasterSet].template
     IN pod' = IF t.goals /\ objects[Goals] = None THEN Waiting(t) ELSE Started(t)
  /\ dirty' \in {dirty, TRUE}
  /\ UNCHANGED <<clusterVars, objects, metrics, opVars, faults>>

MountGoals ==
  /\ pod # None
  /\ pod.role = "waiting"
  /\ objects[Goals] # None
  /\ pod' = Started(pod.template)
  /\ dirty' \in {dirty, TRUE}
  /\ UNCHANGED <<clusterVars, objects, metrics, opVars, faults>>

(* The pod goes when its StatefulSet is deleted, or has another template; but an
   OrderedReady StatefulSet waits for a pod that does not start. *)
StopMaster ==
  /\ pod # None
  /\ \/ objects[MasterSet] = None
     \/ objects[MasterSet] # None /\ pod.role # "waiting"
        /\ objects[MasterSet].template # pod.template
  /\ pod' = None
  /\ dirty' \in {dirty, TRUE}
  /\ UNCHANGED <<clusterVars, objects, metrics, opVars, faults>>

\* The ha-sidecar of the pod acquires the Lease and deletes the pod.
ElectMaster ==
  /\ pod # None
  /\ pod.template.ha /\ pod.role # "waiting"
  /\ objects[Lease] = "unheld"
  /\ objects[Role] # None /\ objects[RoleBinding] # None
  /\ objects' = [objects EXCEPT ![Lease] = "held"]
  /\ pod' = None
  /\ dirty' = TRUE
  /\ UNCHANGED <<clusterVars, metrics, opVars, faults>>

-----------------------------------------------------------------------------
(***************************************************************************)
(* Reconcile                                                               *)
(***************************************************************************)
Fault == /\ faults < MaxFaults
         /\ faults' = faults + 1

\* The cluster the operator read is still the one in the API server.
Unchanged == exists /\ gen = snapGen

\* The end of a reconcile; again: a request is to be queued.
Return(again) == /\ pc' = "idle"
                 /\ todo' = <<>>
                 /\ failed' = "no"
                 /\ dirty' = (dirty \/ again)

\* Mutant: the finalizer is left for later.
ReadClusterNoFinalizer ==
  /\ pc = "idle"
  /\ dirty
  /\ dirty' = FALSE
  /\ snap' = spec
  /\ snapGen' = gen
  /\ \/ ~exists /\ metrics' = None /\ UNCHANGED pc
     \/ /\ exists
        /\ pc' = IF deleted THEN IF finalizer THEN "release" ELSE "idle" ELSE "validate"
        /\ UNCHANGED metrics
  /\ UNCHANGED <<clusterVars, objects, pod, todo, failed, faults>>

\* Read the cluster: gone, being deleted, or to be reconciled.
ReadCluster ==
  /\ pc = "idle"
  /\ dirty
  /\ dirty' = FALSE
  /\ snap' = spec
  /\ snapGen' = gen
  /\ \/ /\ ~exists
        /\ metrics' = None
        /\ UNCHANGED pc
     \/ /\ exists
        /\ pc' = IF deleted THEN IF finalizer THEN "release" ELSE "idle"
                 ELSE IF finalizer THEN "validate" ELSE "finalizer"
        /\ UNCHANGED metrics
  /\ UNCHANGED <<clusterVars, objects, pod, todo, failed, faults>>

\* An Update with the resourceVersion that was read: a conflict ends the reconcile.
AddFinalizer ==
  /\ pc = "finalizer"
  /\ \/ /\ Unchanged
        /\ finalizer' = TRUE
        /\ pc' = "validate"
        /\ dirty' = TRUE
        /\ UNCHANGED <<todo, failed, faults>>
     \/ /\ ~Unchanged
        /\ Return(TRUE)
        /\ UNCHANGED <<finalizer, faults>>
     \/ /\ Fault
        /\ Return(TRUE)
        /\ finalizer' \in {finalizer, Unchanged}
  /\ UNCHANGED <<exists, deleted, spec, gen, status, objects, pod, metrics, snap, snapGen>>

\* Mutant: a deletion that failed is not tried again.
RemoveFinalizerOnce ==
  /\ pc = "release"
  /\ \/ /\ Unchanged
        /\ finalizer' = FALSE
        /\ exists' = FALSE
        /\ Return(TRUE)
        /\ UNCHANGED faults
     \/ /\ Fault
        /\ Return(FALSE)
        /\ UNCHANGED <<finalizer, exists>>
  /\ UNCHANGED <<deleted, spec, gen, status, objects, pod, metrics, snap, snapGen>>

\* finalizeCluster does nothing; the finalizer goes and with it the cluster.
RemoveFinalizer ==
  /\ pc = "release"
  /\ \/ /\ Unchanged
        /\ finalizer' = FALSE
        /\ exists' = FALSE
        /\ UNCHANGED faults
     \/ /\ ~Unchanged
        /\ UNCHANGED <<finalizer, exists, faults>>
     \/ /\ Fault
        /\ \/ UNCHANGED <<finalizer, exists>>
           \/ Unchanged /\ finalizer' = FALSE /\ exists' = FALSE
  /\ Return(TRUE)
  /\ UNCHANGED <<deleted, spec, gen, status, objects, pod, metrics, snap, snapGen>>

\* The first step, validateClusterSpec, decides about all others.
ValidateSpec ==
  /\ pc = "validate"
  /\ IF Supported(snap) THEN pc' = "steps" /\ todo' = Calls(snap) /\ UNCHANGED failed
     ELSE pc' = "status" /\ failed' = "UnsupportedSpec" /\ UNCHANGED todo
  /\ UNCHANGED <<clusterVars, objects, pod, metrics, dirty, snap, snapGen, faults>>

WriteObject(c) ==
  /\ objects' = [objects EXCEPT ![c.obj] = Result(c)]
  /\ dirty' = (dirty \/ (objects' # objects /\ c.obj[1] \in Watched))

\* Mutant: the calls that are left stay to be made.
FailCallKeepTodo(c) == /\ pc' = "status"
                       /\ failed' = "ReconcileError"
                       /\ UNCHANGED todo

EndWithError == pc' = "status" /\ todo' = <<>> /\ failed' = "ReconcileError"
SkipCall     == pc' = "steps" /\ todo' = Tail(todo) /\ UNCHANGED failed

(* An error ends the steps.  But an error of deleting the Lease is ignored, and so
   is one of the GET that precedes the deletion of a legacy object. *)
FailCall(c) ==
  \/ c.obj = Lease /\ c.val = None /\ SkipCall
  \/ c.obj \in ToSet(Legacy) /\ (SkipCall \/ EndWithError)
  \/ ~(c.obj = Lease /\ c.val = None) /\ c.obj \notin ToSet(Legacy) /\ EndWithError

\* The next call of the steps; one that fails may have taken effect.
MakeCall ==
  /\ pc = "steps"
  /\ todo # <<>>
  /\ LET c == Head(todo)
     IN \/ /\ Acceptable(c)
           /\ WriteObject(c)
           /\ todo' = Tail(todo)
           /\ UNCHANGED <<pc, failed, faults>>
        \/ /\ Acceptable(c)
           /\ Fault
           /\ WriteObject(c) \/ UNCHANGED <<objects, dirty>>
           /\ FailCall(c)
        \/ /\ ~Acceptable(c)
           /\ FailCall(c)
           /\ UNCHANGED <<objects, dirty, faults>>
  /\ UNCHANGED <<clusterVars, pod, metrics, snap, snapGen>>

EndSteps ==
  /\ pc = "steps"
  /\ todo = <<>>
  /\ pc' = "status"
  /\ UNCHANGED <<clusterVars, objects, pod, metrics, dirty, snap, snapGen, todo, failed, faults>>

\* Mutant: the condition is for the generation the API server has by now.
NewStatusCurrent == [ready |-> IF failed = "no" THEN "true" ELSE "false",
                     reason |-> IF failed = "no" THEN "Ready" ELSE failed,
                     observed |-> gen]

\* The Ready condition, for the generation that was read.
NewStatus == [ready |-> IF failed = "no" THEN "true" ELSE "false",
              reason |-> IF failed = "no" THEN "Ready" ELSE failed,
              observed |-> snapGen]

\* publishMetrics: the phase of the condition that was patched.
Phase == IF failed = "no" THEN "Ready" ELSE "Failed"

\* Mutant: what has failed is in the status and not tried again.
PatchStatusAndForget ==
  /\ pc = "status"
  /\ exists
  /\ status' = NewStatus
  /\ metrics' = Phase
  /\ Return(FALSE)
  /\ UNCHANGED <<exists, deleted, finalizer, spec, gen, objects, pod, snap, snapGen, faults>>

(* Patch the status, publish the metrics, and queue a request if a step failed, if
   HA is configured, or because the cluster has changed.  Without a patched status
   there are no metrics. *)
PatchStatus ==
  /\ pc = "status"
  /\ \/ /\ exists
        /\ status' = NewStatus
        /\ metrics' = Phase
        /\ Return(failed # "no" \/ HA(snap) \/ status' # status)
        /\ UNCHANGED faults
     \/ /\ IF exists THEN Fault /\ status' \in {status, NewStatus}
                   ELSE UNCHANGED <<faults, status>>
        /\ Return(TRUE)
        /\ UNCHANGED metrics
  /\ UNCHANGED <<exists, deleted, finalizer, spec, gen, objects, pod, snap, snapGen>>

\* The operator dies: metrics and queue are gone; it starts by listing clusters.
Crash ==
  /\ Fault
  /\ pc' = "idle"
  /\ todo' = <<>>
  /\ failed' = "no"
  /\ metrics' = None
  /\ dirty' = exists
  /\ UNCHANGED <<clusterVars, objects, pod, snap, snapGen>>

-----------------------------------------------------------------------------
Operator == \/ ReadCluster \/ AddFinalizer \/ RemoveFinalizer \/ ValidateSpec
            \/ MakeCall \/ EndSteps \/ PatchStatus

Next == \/ \E s \in Specs : UpdateSpec(s)
        \/ DeleteCluster \/ CollectGarbage
        \/ StartMaster \/ MountGoals \/ StopMaster \/ ElectMaster
        \/ Operator \/ Crash

Spec == Init /\ [][Next]_vars

\* Kubernetes and the operator go on; users and faults owe nothing.
FairSpec == /\ Spec
            /\ WF_vars(Operator)
            /\ WF_vars(CollectGarbage)
            /\ WF_vars(StartMaster)
            /\ WF_vars(MountGoals)
            /\ WF_vars(StopMaster)
            /\ WF_vars(ElectMaster)

-----------------------------------------------------------------------------
(***************************************************************************)
(* Properties                                                              *)
(***************************************************************************)

FlagTypes == /\ exists \in BOOLEAN /\ deleted \in BOOLEAN
             /\ finalizer \in BOOLEAN /\ dirty \in BOOLEAN

StatusTypes ==
  /\ status.ready \in {"unknown", "true", "false"}
  /\ status.reason \in {"none", "Ready", "ReconcileError", "UnsupportedSpec"}
  /\ status.observed \in 0 .. gen

ValueTypes ==
  /\ metrics \in {None, "Ready", "Failed"}
  /\ spec \in Specs /\ snap \in Specs
  /\ gen \in 1 .. MaxChanges + 1 /\ snapGen \in 0 .. gen
  /\ DOMAIN objects = Objects
  /\ pod # None => pod.role \in {"waiting", "master", "shadow"}
  /\ pc \in {"idle", "finalizer", "release", "validate", "steps", "status"}
  /\ failed \in {"no", "ReconcileError", "UnsupportedSpec"}
  /\ todo # <<>> => pc = "steps"
  /\ faults \in 0 .. MaxFaults

\* The states of Reconcile: calls are left only while the steps run, and nothing
\* is ever observed or read of a generation that is not there yet.
TypeOK == FlagTypes /\ StatusTypes /\ ValueTypes

\* What the objects of a cluster with spec s are once it is reconciled.  What is
\* left behind is not looked at where the code may leave it: legacy objects it could
\* not read, the Lease and the ServiceAccount of an HA that was switched off, the
\* chunk servers that are no longer listed.
Reconciled(s) ==
  LET there(o) == objects[o] # None
      ifOn(f, v) == IF f \in s.features THEN v ELSE None
  IN /\ objects[Goals] = IF s.goals = <<>> THEN None ELSE GoalsConfig(s.goals)
     /\ objects[MasterHeadless] = "allMasters"
     /\ objects[MasterSet] = MasterSetValue(s)
     /\ objects[MasterService] = Route(s)
     /\ HA(s) => there(ServiceAccount) /\ there(RoleBinding) /\ there(Lease)
                 /\ objects[Role] = 1 + s.shadow
     /\ there(PDB) <=> HA(s)
     /\ \A i \in DOMAIN s.servers :
          /\ there(Chunk("Service", s.servers[i]))
          /\ there(Chunk("ConfigMap", s.servers[i]))
          /\ objects[Chunk("StatefulSet", s.servers[i])] = ChunkTemplate(s.servers[i])
     /\ \A o \in {MetaloggerService, MetaloggerSet} : objects[o] = ifOn("metalogger", "on")
     /\ \A o \in {Interface, InterfaceService} : objects[o] = ifOn("interface", "on")
     /\ objects[ExposeService] = ifOn("expose", ExposeValue(s))
     /\ \A o \in {NFSConfig, NFSDeployment} : objects[o] = ifOn("nfs", "on")
     /\ objects[NFSService] = ifOn("nfs", NFSValue(s))

Live == exists /\ ~deleted

Ready == status.ready = "true" /\ status.observed = gen

(* The condition Ready of the current generation is a promise about every object,
   whatever the users changed while the operator worked, whichever calls failed,
   and wherever it crashed. *)
ReadyMeansReconciled == Live /\ Ready => Reconciled(spec)

ChunkSets(s) == {Chunk("StatefulSet", s.servers[i]) : i \in DOMAIN s.servers}

(* The chunk servers of a cluster that is Ready mount no claim twice and, those with
   the same nodeName, no directory twice: the webhook's rules on the spec carry over
   to the pod templates the controller writes, whatever has been changed on the way.
   It says nothing of a server without nodeName beside one with, nor of servers that
   were removed from the spec: see the two properties that follow. *)
StorageIsExclusive ==
  Live /\ Ready => \A a, b \in ChunkSets(spec) :
    a # b => ~Share(objects[a], objects[b], SameNode(objects[a], objects[b]))

(* And wherever the scheduler puts the pods that have no nodeName; violated, although
   the comment in reconcileChunkStatefulSet says "Each chunk server is pinned to a
   dedicated node (nodeName)". *)
StorageIsExclusiveWherever ==
  Live /\ Ready => \A a, b \in ChunkSets(spec) :
    a # b => ~Share(objects[a], objects[b], MayMeet(objects[a], objects[b]))

(* And with the chunk servers that were removed from the spec, whose StatefulSets
   still run; violated, although the comment of validateChunkServerMountPaths says that
   a claim is not to be mounted "from two different StatefulSets". *)
StorageIsExclusiveWithRemoved ==
  Live /\ Ready =>
    \A a, b \in {o \in UNION {ChunkSets(s) : s \in Specs} : objects[o] # None} :
      a # b => ~Share(objects[a], objects[b], SameNode(objects[a], objects[b]))

(* Nothing is created for a cluster that is gone: the finalizer holds it until the
   reconcile that was under way has ended. *)
NothingBuiltForTheDead ==
  [][\A o \in Objects : objects[o] = None /\ objects'[o] # None => exists]_vars

Settled ==
  /\ status.observed = gen
  /\ IF Supported(spec)
     THEN /\ status.ready = "true"
          /\ metrics = "Ready"
          /\ Reconciled(spec)
          /\ \A o \in ToSet(Legacy) : objects[o] = None
     ELSE /\ status.ready = "false" /\ status.reason = "UnsupportedSpec"
          /\ metrics = "Failed"

\* No two ports of an admitted spec, or of two that follow each other, are in each
\* other's way, and none is asked of a Service that can have none.
PortsFit ==
  \A s, t \in {x \in Specs : Admitted(x)} :
    /\ s.clientPort = s.adminPort => s.clientPort = 0
    /\ NodePorts(ExposeValue(s)) \cap NodePorts(NFSValue(t)) = {}
    /\ NFSValue(s).type = "ClusterIP" => s.nfsPort = 0

(* A cluster that is left alone settles: it is reconciled and Ready, or the status
   says that its spec is not supported, and the metrics say the same.  No call fails
   for ever, which includes that the ports the webhook lets through are in the API
   server's range; that they fit together is assumed, as nothing checks it. *)
Converges == PortsFit /\ <>[]Live => <>[]Settled

(* Without that assumption; violated, although the comment of nodePortRangeMin says
   that the webhook spares the user "a later apiserver rejection when the operator
   tries to create the backing Service". *)
ConvergesWithAnyPorts == <>[]Live => <>[]Settled

Forgotten == ~exists /\ metrics = None /\ \A o \in Objects : objects[o] = None

\* A cluster that is deleted goes for good, with all its objects and series.
DeletionCompletes == deleted ~> []Forgotten

MasterServes == pod # None /\ pod.role = "master"

(* The objects of an HA cluster suffice for a master to come up: the account of the
   pod, the permissions of its sidecar, the Lease it acquires. *)
HAMasterComesUp == <>[](Live /\ Supported(spec) /\ HA(spec)) => <>[]MasterServes

\* The spec is changed once at most.
ChangedOnce == [](gen <= 2)

(* The goals reach the master in one piece: the default goal its configuration names
   ends up to be one of the goals file it copied when it started, although file and
   name come by two objects, and a pod may start between the writes of the two.  Only
   if users do not return to an earlier default: the file of a pod that started
   meanwhile is not the one of its template then, and nothing replaces the pod. *)
DefaultGoalIsDefined ==
  ChangedOnce /\ <>[](Live /\ Supported(spec)) =>
    <>[](pod # None /\ pod.role # "waiting" =>
           pod.template.default \in pod.file \cup {Empty})

(* What HAMasterComesUp says, without HA, as the comment of reconcileMasterStatefulSet has it
   ("replicas = 1 (primary only, no HA)"); violated. *)
SingleMasterComesUp == <>[](Live /\ Supported(spec) /\ ~HA(spec)) => <>[]MasterServes
=============================================================================

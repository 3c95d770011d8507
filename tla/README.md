# leilfs-operator in TLA+

leilfs-operator runs LeilFS clusters (one active metadata master, shadows,
chunk servers, metaloggers, a web interface, an NFS gateway) on Kubernetes.
This directory holds TLA+ models of the operator and of the scripts it puts
into the master pods, TLC configurations that check them, and TLAPS proofs.
Line numbers below are those of
`src/internal/controller/leilfscluster_controller.go` unless a file is named.

    tlc -config MasterHA_roles.cfg MCMasterHA     # one run
    tlapm MasterHA_proofs.tla                     # the proofs of one module

`PROJECT.json` lists components, runs, the lines every definition stands for,
the hazards, the findings, and for every property of a passing run a mutant
(the definitions marked "Mutant" in the modules): a plausible bug that breaks
exactly what the property is for.

## Inventory

| Component | State | Operations | Hard part | What makes it correct |
|---|---|---|---|---|
| Master pods: init-config (2341), ha-sidecar (2408), masterRunCmd (2390) | the HA Lease; PERSONALITY in an emptyDir; the sfsmaster process; shell variables of the loop | read Lease, renew, release, acquire by compare-and-swap, delete the own pod, start as master or shadow | interleaved HTTP calls, stale reads, lost answers, restarts, node loss, time | one master; failover completes; no takeover from a healthy holder |
| Operator as observer, `reconcileMasterHA` (2906) | pod labels, `status.activeMaster` | create the Lease, label pods, write the status | reads and writes interleaved with the election; partial failures; crashes | Services and status follow the master |
| Auto-discovered chunk servers (1153-1398, 3265) | PVC, Service, ConfigMap, StatefulSet per disk | create the set of a PV, sweep the set of a lost one | one list for two loops, half-made sets, PVCs that linger, events that do not come | healthy disks are served, lost ones torn down, nothing else is |
| Reconcile loop (313-440) and its steps | the cluster object, about 25 kinds and names of owned objects, the work queue, metrics | finalizer, 14 steps, status patch, requeue, deletion | spec changes and deletion under way, errors in any call, crashes | Ready is true; the cluster settles; deletion ends |
| Admission webhook (`src/api/v1alpha1/leilfscluster_webhook.go`) and `validateClusterSpec` (110) | none | accept or reject a spec | rules of two places that must agree with the API server's and with what the steps build | storage is exclusive, ports are acceptable |
| Storage goals (660-761, 2318) | ConfigMap, the file a master copies from it, the default goal in its configuration | render, mount, copy | two objects for one fact, two readings of "default" | a template's default goal is in the file; a master's default goal is one of its goals |
| Operator metrics (481, `src/internal/metrics/metrics.go`) | series per cluster | publish, drop | series that stay | the phase is true in the end; series go with the cluster |
| Filesystem exporter (`src/internal/exporter`) | one mutex, one map per scrape | nine commands in parallel, parse, respond | overlapping scrapes, hanging commands, output that does not parse | every scrape is answered with its own results; a failure costs no other series |
| kubectl plugin (`src/cmd/kubectl-leilfs/cmd/admin.go`, `filegoal.go`) | none; an ephemeral pod in the cluster | create, wait, follow the log, read the phase, delete | colliding names, lost answers, a phase that lags behind the log, Ctrl-C | reports are true, own pod only, nothing left behind |

The components meet in the API server only. The operator writes StatefulSets,
Services, the Lease's first version and labels; the sidecars write the Lease and
delete their own pods; Kubernetes' controllers create and stop pods; the
operator learns of all this by watches and, with HA, by a requeue every 5 s.
localdisk-operator publishes disks as PersistentVolumes. The exporter talks to
the sfsmaster of its own pod only, the plugin to the API server and its own pods.

## Modules

| Module | Models | Uses |
|---|---|---|
| `MasterRole` | what the election promises: an owner, and the pods that serve | |
| `MasterHA` | the election: Lease, scripts, pods, faults, time | implements `MasterRole` |
| `FailoverTime` | `MasterHA` with a history variable that measures how long nobody serves | extends `MasterHA` |
| `OperatorHA` | the operator as observer, composed with the election | extends `MasterHA` |
| `AutoDiscover` | chunk servers from discovered disks | |
| `Admission` | the rules for a spec, the volumes and the goals made of it | |
| `Reconcile` | the reconcile loop over all objects of a cluster, its status and metrics | extends `Admission` |
| `Exporter` | scrapes of the exporter | |
| `Plugin` | runs of the plugin with an ephemeral pod | |
| `MasterHA_proofs`, `AutoDiscover_proofs`, `Reconcile_proofs`, `Exporter_proofs`, `Plugin_proofs` | theorems; those about `Admission` are in `Reconcile_proofs` | extend the module they are named after |
| `MasterRole_proofs` | that the election implements `MasterRole` | extends `MasterHA_proofs` |
| `FailoverTime_proofs` | that failover is bounded | extends `FailoverTime`, `MasterRole_proofs` |
| `OperatorHA_proofs` | the election beside the operator, and routing | extends `OperatorHA`, `MasterRole_proofs` |
| `MCMasterHA`, `MCFailoverTime`, `MCOperatorHA`, `MCAutoDiscover`, `MCReconcile`, `MCExporter`, `MCPlugin` | values of the constants for TLC | |

### MasterHA

A pod has a `phase` (from *absent* by *creating*, *starting*, *running* to
*terminating*, or *lost* with its node), a `personality` (what init-config wrote),
an sfsmaster that is up or down, and a sidecar at label `pc` that sleeps for
`timer`. The Lease is `created`, `holder` and `age`, the time since renewTime. The
scripts take the time before they make the call (`NOW`, 2491, 2497, 2589): `late` is
how long ago that was, and the age of the Lease that the PATCH leaves (`WriteLease`).
`seen` holds the sidecars whose RES_VER is still the Lease's resourceVersion;
every write to the Lease empties it, which is all that a compare-and-swap can
tell.

Each HTTP call of a script is an action: `ObserveLease` is `get_lease` with the
branches that follow up to the next call (2471-2586), `RenewLease`,
`ReleaseLease` and `AcquireLease` are the three PATCHes, `DeleteSelf` is
`delete_self`, `InitConfig` the GET of the init container with the edit of
sfsmaster.cfg. Everything else may happen between two calls. Calls of pods in
`Flaky` may fail, take effect and lose their answer, or hang: `Tick` waits for
every due step of a pod except those of flaky ones, since wget is called
without a timeout. A lost
node takes its pod with it; how long the replacement takes is `MaxDowntime` at
most, except for pods in `SlowStart`. That one pod waits for lower ordinals is
what OrderedReady, the default of a StatefulSet without podManagementPolicy
(2751), does.

The staleness back-off (2559-2586) is a member of `Backoffs`, any delay up to its
cap: it depends on the age of a changelog that the model does not have.

`TimelySpec` has the behaviours of `Spec` that meet the election's deadlines, see
"Deadlines" below.

`FailoverTime` adds `outage`, the time since a pod last held the Lease and served
as master, or since the last crash if that was later. `OutageBound` is the
longest way through a failover: LeaseDuration, one sleep of a shadow, the
back-off, and the restart of the winner. `BackoffAssumption` is a fact of the code's
constants: the back-off ends at 15 s, the Lease lasts 30 s.

### OperatorHA

The steps of `reconcileMasterHA`: `OpRead` (the Lease, fresh or expired),
`OpList`, `OpLabel` for each listed pod, `OpStatus`. A label patch is the
difference to the pod as it was listed and goes to whatever pod has that name
by then (`snapshot`, 3153-3164). Writes of the Service selector change nothing
and are part of `OpStatus`. `Election` embeds a step of `MasterHA`; a pod that is
replaced comes back without the label.

`Routed(p)` is a settled master: p runs as master, holds the Lease with its
renewals on time, no other sidecar is about to write, label and status name p, and
so does what a pass of the operator under way has read. `RoutingIsKept` says that
only a fault ends this: a pass may interleave with the election as it likes, it
never takes the label off for a moment.

### AutoDiscover

`StartReconcile` lists the PVs; `CreateObject` and `DeleteObject` are the single
calls, in the orders `CreateOrder` and `DeleteOrder`; `Abort` is an error return
or a crash. The environment publishes, loses, returns and reaps disks, changes
labels, and switches discovery off and on. `dirty` is the work queue: PV events
queue a request, changes of StatefulSets and Services too, those of PVCs and
ConfigMaps do not (3248-3260). The model is of a cluster without `spec.shadow`,
which is the harder one: with it the operator looks again every 5 s anyway.
Properties about disks that never come back are stated for `Steady`; what
happens to the others is one of the disagreements below. `LoopInv`, `ClaimInv` and
`SetInv` are the inductive invariant of `AutoDiscover_proofs`.

### Reconcile

`Calls(s)` is the sequence of API calls that the steps (363-381) make for spec
`s`, in their order; a call ensures that an object has a value or is absent.
`ReadCluster`, `AddFinalizer`, `ValidateSpec`, `MakeCall`, `EndSteps`,
`PatchStatus` and `RemoveFinalizer` walk through `Reconcile` on the copy it
read. Users write a spec, or delete the cluster, between any two calls. A call
that fails may have taken effect; `FailCall` says whose errors end the steps and
whose are ignored (2914 and the GETs of 626-649). Changes of owned kinds queue a
request. The master pod is present as far as it depends on these objects:
`StartMaster` needs its ServiceAccount and, if there are goals, their ConfigMap,
without which the pod waits (`MountGoals`); a pod that has started keeps the
goals file it copied. `ElectMaster` needs the Role, the RoleBinding and a Lease.
`StopMaster` is the StatefulSet controller replacing a pod of another template,
which it does not do with a pod that has not started. `PatchStatus` writes the
condition and then publishes the phase, which a crash forgets.

Values of objects are what a property tells apart: replicas and template of the
master StatefulSet (sidecar, goals volume, default goal), names in the goals file,
selector (`Route`), type and node ports of Services, nodeName and volumes of the chunk
servers' templates (`ChunkTemplate`). `Acceptable` is what the API server refuses: a
node port out of its range, twice in one Service, in two Services, or in a Service of
type ClusterIP. `Reconciled` lists every object that a spec asks for.

### Admission

Operators, no state: the four rules of the webhook, `validateClusterSpec`,
`buildChunkVolumes`, `buildGoalsConfig` and the choice of the default goal. `Share`
says when two pods mount the same storage; a host path is shared on one node only,
and whether two pods may be on one node depends on the nodeNames: `SameNode` is what
the webhook compares, `MayMeet` what the scheduler may do with a pod that has none.

### Exporter

A scrape waits for the mutex (`StartCommands`), starts every subcommand, and
finishes when all have ended (`Finish`). A subcommand answers with one of the
outputs it may print, fails, or is killed at its deadline (`KillCommand`, the
timeout of ExecRunner's context). `version` counts changes of the filesystem,
an answer carries the one it saw. An output is a sequence of rows with a number
of fields and the set of fields that are not numbers; `RowNeeds` has a case per
parser. `Finish` is the rest of `Collect` and the handler's answer, an error if
the registry finds two series of one family with the same labels; `Family` keeps the
three kinds of rows of chunks-health apart (476-493 of `collector.go`).

The code as it is, and so the model: output that does not parse leaves `up` at 1,
`metadataserver-status` runs and its output is never parsed, and a scrape goes on
when its client has left, because `Collect` has no context.

### Plugin

A run is at a location of `runAdmin` or `prepareFileGoalRun`, `runEphemeralPod`
or `runFUSEPod`, and `streamAndWaitPod`; from `wait` on every return passes
`delete`, the deferred deletion. The pod of a run has a container that runs the
script on the node, and a phase that the kubelet reports later. Calls may fail
with or without effect, the user may press Ctrl-C, pods are drained and
evicted. Two runs of one command may have one pod name (the clock modulo a second;
`KindsAssumption`: the names of `admin` and `filegoal` differ), so that a
run may look at, follow or delete what is another's by then: `stream`, `removed`
and `left` record what the properties need of that.

## Runs

States are distinct states; times are those of a two-core machine.

| Run | Question | Instance | Result |
|---|---|---|---|
| `MasterHA_roles` | one master, gone soon when it has no Lease, the abstract role, renewals that take nobody's Lease, as long as deadlines are met? | 3 pods, pod 1 flaky, pods 0 and 1 slow, 2 faults of 5 kinds | holds, 959 k states, 1 min |
| `MasterHA_failover` | does failover complete, and in time; does the holder serve? | 2 pods, 2 crashes of nodes, processes or sidecars, fair | holds, 69 k |
| `MasterHA_faults` | what holds under every fault? | 2 pods, pod 1 flaky, both slow, 2 faults of 5 kinds | holds, 330 k |
| `MasterHA_slow_restart` | one master, with a slow restart? | 2 pods, 1 node loss | violated |
| `MasterHA_node_loss` | does the cluster survive the loss of a node? | 2 pods, 1 node loss for good | violated |
| `OperatorHA_routing` | do routes and status settle on the master, and stay there? | 2 pods, pod 0 slow, 1 fault (node, process, failing call or operator crash) | holds, 415 k, 2 min |
| `AutoDiscover_sets` | served, torn down, claims released, and nothing else swept? | 2 disks, one flapping, 4 changes, 1 fault | holds, 100 k |
| `Reconcile_objects` | is Ready true, is storage exclusive, does the cluster settle, does it go away, do goals reach the master? | 7 specs, 2 changes, deletion, 1 fault | holds, 319 k, 2 min |
| `Reconcile_single_master` | does a master without HA come up? | 1 spec, nothing fails | violated |
| `Plugin_runs` | true reports, own pods, nothing left? | 2 filegoal runs with one name, 2 faults of 4 kinds | holds, 275 k |
| `Plugin_failure` | is a failed command reported? | 1 run, no fault | violated |
| `Exporter_scrapes` | one scrape at a time, answered, fresh, failures isolated? | 2 scrapes of 3 commands, every kind of output | holds, 48 k |

**Bounds.** Durations of `MasterHA` are the code's in units of 5 s, the greatest
common divisor of its constants, so that no ordering of timeouts is lost but
those within 5 s; the steps inside a unit interleave freely. `MasterHA_roles` has a
third pod and every kind of fault and uses 10 s, `OperatorHA` adds
an actor and uses 15 s, both rounded up. `MaxDowntime` is 10 s. Two pods are the ADR's
configuration; three let two shadows race. Two faults allow a crash in the recovery
from a crash. `MasterHA_roles` does not check for deadlocks: where `TimelySpec` rules out
all that could follow, time stops.
`OperatorHA_routing` also passes with two faults, in 5.5 minutes. Four changes of
disks let a disk appear, vanish, return and vanish while the other one is
handled. `MaxChanges` = 2 lets the spec go from HA to no HA and back with
everything in between, so that every object of `Calls` is created and removed;
of the seven specs the webhook has to reject three (a claim in two servers, a
directory in two servers of one node, a port out of range) and the controller one,
and one that is admitted has two chunk servers with one directory on two nodes. One
fault is one at every possible place, combined with every change. The specs
`Unpinned`, `Renamed` and `PortMoved` are for the disagreements below. No goals file defines the default goal of
another spec, so that every mixture of file and name shows. `Plugin_runs` has two runs
that can disturb each other, of the command with the longer script, and two faults, so
that a fault can hit the recovery from another. `Exporter_scrapes` has one command of each way of
parsing (first line, every line, not at all); commands do not know of each other.

**Tight bounds.** `OutageBound` is 11 units, 55 s; with 10 TLC finds a behaviour that
exceeds it.

**Deadlines.** Nothing in the code makes sure that a master is gone before its Lease
has run out: a restart or a call may take longer than that. Two masters are possible
then (`MasterHA_slow_restart`), so that a property like `AtMostOneMaster` is about
behaviours in which the deadlines are met, whatever happens otherwise. `TimelySpec`
says which ones these are, on the behaviour and not on the constants. `Timely`: time does
not pass the end of the Lease while a pod configured as master is starting,
terminating or behind a bad connection, or while a PATCH of the holder hangs; and a
pod that starts, or comes back from a hanging GET, as the holder does so before
that. `Survives("released")`: a sidecar that has released the Lease lives to delete its
pod. Within this, faults are of any kind and any number: calls fail, hang and lose
their answers, pods restart slowly and nodes do not come back. One restart, or one
call, of less than 20 s (LeaseDuration less RenewInterval) meets the deadlines by itself,
several in a row may not; that a master which is about to miss one is stopped is
what the code would have to add.

`MasterHA_failover` asks for an end and a bound, and for these delays have to be
bounded: connections are good and pods are replaced within `MaxDowntime`
(`DelaysBounded` in `FailoverTime_proofs`). `TimedSpec` adds that a sidecar does
not die between its acquisition and the deletion of its pod; it dies at any other place,
and the deadlines of `TimelySpec` are not assumed: there may be two masters on the way.

**Fairness.** The sidecar is an endless loop, kubelet and the controllers of
Kubernetes retry, time passes, and the operator's work queue brings every
request back until it succeeds: weak fairness for each of these. No user, disk
or fault is ever forced to act, and `RecoverNode` is fair only for pods outside
`SlowStart` (`HealSpec` adds the others). Deadlock is checked in the election,
which never stops (but under `TimelySpec`, see above); a settled cluster without HA may stop, so that the runs of
`AutoDiscover` and `Reconcile` do not check it. `Plugin` and `Exporter` have an
action of their own for the end, so that deadlock is checked. In `Plugin` a
command on the node ends some day, since nothing in the code limits it, while no
container ever has to start: the timeout of a minute covers that. In `Exporter`
commands owe nothing, only the clock is fair and the mutex, which Go gives to a
waiting goroutine some day (strong fairness).

## What the violated runs show

1. **Two masters after a slow restart** (2364). init-config believes a Lease
   without looking at its age. `leilfscluster_types.go:240`: "ensuring only one
   pod holds the master role at any time".
2. **No master after the loss of a node** (2751). The winner deletes itself and is
   not created again while pod 0 is missing. ADR-0001:153: "A master failure is
   detected and recovered by the shadow sidecar".
3. **No master without HA** (3004). The pod names an account that is created for
   HA clusters only. 2174: "replicas = 1 (primary only, no HA)".
4. **A failed command reported as a success**
   (`src/cmd/kubectl-leilfs/cmd/admin.go:236`). The plugin reads the phase once, when
   the log has ended, and the kubelet may not have reported the end. `admin.go:235`:
   "Check final pod phase to propagate failure."

## Other disagreements

Met while modelling, in the models as the code has them, without a run of their
own:

- **A deposed master goes on** (2506). A sidecar that hangs in a call for longer
  than the Lease lasts finds another holder and watches, while its sfsmaster stays
  master. 2402: "another pod has taken over, kill sfsmaster". `DeposedMasterStops`
  fails in `MasterHA` under fairness as soon as a pod is in `Flaky`. The same pod may, with the
  blind PATCH of 2498, take the Lease back: `RenewalKeepsHolder` fails as well.
- **Two masters after the crash of a sidecar** (2494). A release is two calls. When
  the sidecar dies between them nothing deletes its pod any more, kubelet restarts
  sfsmaster as master, and a shadow acquires the released Lease. 2403: "kill
  sfsmaster → pod restarts → init-container". `AtMostOneMaster` fails under `Spec`
  with prompt restarts when `FaultKinds` is `ContainerFaults`; this is
  why `TimelySpec` excludes it.
- **A winner that stays a shadow** (2593). When the answer to an acquisition is lost, or
  the sidecar dies before it deletes its pod, the next GET names the pod as holder,
  and it renews the Lease without ever becoming master. `HolderServes` fails
  without `Survives("acquired")`.
- **Services route to a shadow** (2986), between the acquisition and the restart of
  the winner. 1629: "external clients never land on a shadow".
  `EndpointsAreMasters` of `OperatorHA` fails without any fault.
- **A release looks fresh** (2491). 2490: "so shadows see an expired lease"; but
  renewTime is set to now, and shadows wait for LeaseDuration more. This is the
  first summand of `OutageBound`, and why the ADR's "leaseDurationSeconds (30 s) +
  pod restart time" (`src/docs/adr/0001-master-ha-election-via-kubernetes-lease.md:156`)
  is less than the 55 s a failover may take.
- **A set that is never torn down** (1358). A PVC that is being deleted counts as
  existing: a disk that comes back in that window gets a StatefulSet without a
  PVC, and the sweep walks PVCs. 1147: "any previously auto-discovered PV that has
  become an orphan". What does hold of such disks is `ClaimsAreReleased`.
- **One directory, two chunk servers** (`leilfscluster_webhook.go:209`). The webhook takes
  an empty nodeName for a node of its own, so that a server without one and a pinned
  server may have one host path, and the scheduler may put them on one node. 1040:
  "Each chunk server is pinned to a dedicated node (nodeName)." `StorageIsExclusiveWherever`
  fails with `Specs <- OnlyUnpinned`, without any change or fault.
- **One claim, two StatefulSets** (864). What a server that was removed from the spec
  leaves behind goes on mounting its claim, when a new server has it too; the webhook
  looks at the new spec alone. `leilfscluster_webhook.go:173-175`: "mounts the same
  PersistentVolumeClaim (normally ReadWriteOnce) from two different StatefulSets".
  `StorageIsExclusiveWithRemoved` fails with `Specs <- ServerRename`.
- **Node ports that never come** (1669). When NFS is turned off and its port given to
  client-expose, the step of the latter comes first, is refused, and ends the steps
  before NFS is cleaned up, in every retry. `leilfscluster_webhook.go:67`: "instead of a
  later apiserver rejection". `ConvergesWithAnyPorts` fails with `Specs <- PortMove`, one
  change and no fault. Equal client and admin ports and a port of a ClusterIP Service
  are admitted and refused alike; `Converges` assumes that there are none (`PortsFit`).
- **Colliding names** (1230). Two PVs whose names share eight characters share one
  set; `NoHiddenOrphans` and `SweepSafety` assume `Distinct`.
- **Goals that are removed** (677). The ConfigMap is deleted before the StatefulSet
  stops to mount it; a master pod that restarts in between waits for it for ever,
  and the StatefulSet waits for the pod. 671: "the ConfigMap is deleted (if it
  existed) and the master uses its built-in default goals". `HAMasterComesUp` is
  checked with an HA spec that has goals.
- **A file that no pod is replaced for** (2304, 2318). The goals are copied once, when
  a pod starts, and the template names the default goal only. Users write a spec
  with another default, its ConfigMap is written, a master pod restarts and copies
  it; before the StatefulSet is written (a step fails, or users are quick), or before
  its pods are replaced, the users return to the first spec. The template is what it
  was, so that nothing replaces the pod: its default goal is not in its file.
  `src/api/v1alpha1/leilfscluster_types.go:48`: "The first entry flagged with
  Default=true is applied as the cluster-wide default goal via the master
  configuration." `DefaultGoalIsDefined` fails without its premise `ChangedOnce`;
  what holds of every history is `GoalsComeFirst`.
- **A default goal without a definition** (743, 2318). A goal with neither EC nor
  replication is skipped in the file, but may be the default of sfsmaster.cfg; of
  several defaults the ConfigMap's text names the last and sfsmaster.cfg the
  first. `DefaultGoalsAgree` proves the two equal on well-formed goals.

## Proofs

All proofs are checked by TLAPS with SMT, Zenon and, for the temporal steps, LS4.
The assumptions are the named ASSUMEs of the modules, which TLC evaluates in
every run, and the premises `Distinct` and `DelaysBounded` where they are stated.
No bound of a run is needed: faults, changes, pods, disks, specs, runs and scrapes
are any number.

| Theorem | Statement |
|---|---|
| `MasterHA_proofs!TypeCorrect`, `LeaseInvariant` | `Spec => []TypeOK`, `Spec => []LeaseInv` |
| `TakeoverSafety` | `Spec => TakeoverOnlyWhenExpired` |
| `HealthyHolderSafety` | `Spec => HealthyHolderNotVotedOut` |
| `MasterRole_proofs!OneMaster` | `TimelySpec => []AtMostOneMaster` |
| `ElectionImplementsRole` | `TimelySpec => RoleSpec` |
| `RenewalSafety` | `TimelySpec => RenewalKeepsHolder` |
| `DeposedInTime` | `TimelySpec => []DeposedStopsInTime`: a well connected master without the Lease has released it at most MaxDowntime ago |
| `FailoverTime_proofs!BoundedFailover` | `DelaysBounded` gives `TimedSpec => []OutageBounded` |
| `OperatorHA_proofs!ObservedElection`, `OpTypeCorrect` | `[](TypeOK /\ LeaseInv)` and `[]OpTypeOK` of `OpSpec` |
| `ObservedTakeover` | `OpSpec => TakeoverOnlyWhenExpired` |
| `ObservedElectionImplementsRole`, `ObservedOneMaster` | `TimelyOpSpec => RoleSpec`, `TimelyOpSpec => []AtMostOneMaster` |
| `RoutingSafety` | `OpSpec => RoutingIsKept` |
| `AutoDiscover_proofs!TypeCorrect` | `Spec => []TypeOK` |
| `NoHiddenOrphans` | `Distinct` gives `Spec => []SetHasPVC` |
| `SweepSafety` | `Distinct` gives `Spec => OnlyLostDisksAreSwept` |
| `ServersStopOnlyForLoss` | `Distinct` gives: the pod of a steady disk stops only when the disk is lost |
| `TornDownForGood` | `Distinct` gives `Spec => [](TornDown(v) => []TornDown(v))` for every steady disk |
| `Reconcile_proofs!VolumesAreExclusive` | `Admitted` gives: the templates of two servers do not `Share` on `SameNode` |
| `DefaultGoalsAgree` | the two readings of "default" are one on well-formed goals |
| `TypeCorrect` | `Spec => []TypeOK` |
| `NoPosthumousObjects` | `Spec => NothingBuiltForTheDead` |
| `ForgottenForGood` | `Spec => [](Forgotten => []Forgotten)` |
| `ReadyIsReconciled` | `Spec => []ReadyMeansReconciled` |
| `ReadySharesNoStorage` | `Spec => []StorageIsExclusive` |
| `SettledStays` | `Spec => [][Steady /\ Calm => Steady']_vars`: only users and faults end what has settled |
| `GoalsComeFirst` | well-formed goals give `Spec => TemplateKnowsItsGoal` |
| `Plugin_proofs!TypeCorrect`, `SuccessIsOver`, `ExitCodeTrue`, `CleansUp` | `[]` of `TypeOK`, `SuccessMeansOver`, `ExitCodeIsOwn`, `NothingLeftBehind` |
| `DeletesOwnPod` | `Spec => OwnPodOnly` |
| `Exporter_proofs!TypeCorrect`, `MutualExclusion`, `NothingStale` | `[]` of `TypeOK`, `OneScrapeAtATime`, `Fresh` |
| `Isolation` | `Spec => FailuresAreIsolated` |

**Election.** Neither action property follows from the types: that a sidecar
acquires only an expired Lease depends on what happened since its GET.
`LeaseInv` carries that over. `AcquirerInv`: a sidecar in `seen` is about to
acquire and the Lease *is* expired, because time only ages it, and the only steps
that make it young again empty `seen`. `SleeperInv`: a holder with a good
connection that sleeps has `age + timer <= RenewInterval`, because its last write
set age to 0 and a tick moves one unit from timer to age. With RenewInterval <
LeaseDuration the Lease of such a holder is not expired, so that nobody is in
`seen`, so that no compare-and-swap succeeds. `StopSidecar` and the crashes matter
because they must not leave a pod in `seen`.

**One master.** Two masters could only meet when a takeover finds the previous one
still on its way, so that the proof is about what is possible when the Lease runs out.
`Timely` speaks of those who are late; that everybody else is in time has to be proved.
`HolderInv`: a holder that runs with a good connection keeps its Lease young
(`SleeperInv`), and is master when it starts. `LabelInv`: a sidecar about to renew or
release holds the Lease, and the time it will write is no older than the Lease's, so
that its PATCH never makes the Lease older. `MasterInv`: a pod configured as master
holds the Lease or has given it up by itself, in which case nobody has it; there is one
such pod at most. `TakeoverMeetsNobody` puts these together: when a shadow's
resourceVersion is current the Lease is expired, so that a master would have to run
with a good connection, hence to hold a young Lease or to be at the call after its
release, hence is not there, and no PATCH of a holder is under way either. This is
`Grant` of `MasterRole`. Releases are `Vacate`, starts `Serve`, ends `Stop`, everything
else stutters.

**Bounded failover.** `OutageInv` follows an outage from its start. Time passes only while
every due step has been taken, so that whoever is up is asleep with a running timer, and
whoever is down, or a pod it waits for (OrderedReady), is on its way back
(`SomebodyIsDue`, which takes the lowest pod that is not ready; `DueInTime`). The outage
is bounded along the way a failover takes.
While the Lease has no holder and is fresh, the outage is no older than its release
(`VacantInv`, first part). A sidecar that sleeps then wakes by LeaseDuration +
ObserveInterval - 1, whether it looked at the Lease before or after it ran out, and
one that backs off acquires MaxBackoff later; had it begun to back off for an older
Lease (it is not in `seen`), its PATCH fails while there is time to look again, which
is what `BackoffAssumption` is for. Whoever acquires restarts within MaxDowntime
(`TakeoverInv`), counting the pods it waits for; since that is less than LeaseDuration,
nobody can take the Lease from it on that way (`Winning`, `RestartInv`). `OwnerInv` closes
the circle: a holder that is up serves or is about to restart. `CalmInv` says that states
in which an urgent step is due cost no time. The theorem is about `TimedSpec`, as the
run is: whether a master stops that has released the Lease does not matter for the bound.

**Observer.** The operator's steps leave the variables of the election alone but for
the count of faults (`OperatorLeavesElection`), so that the invariants carry over, and
with them `RoleSpec` and one master (`TimelyOpStep`: the election makes a timely step or
stands still). `RoutingSafety` is a step invariant of `Routed`: a holder that renews on time
is not expired, so that by `AcquirerInv` no compare-and-swap succeeds; `OpRead` finds
it fresh, and a pass that began before has `opHolder = p` and leaves p's label alone.

**Discovery.** `SetHasPVC` alone is not inductive: a reconcile that is under way may
be about to create or delete. `SetInv(v)` adds what the sweep has selected (only
names whose disk was not in the list), how far it is (`at` counts the objects that
are gone), that a claim of a disk outside the list is that of a lost disk, and
that nothing of a set is left once its claim is dying. `ClaimInv` ties a claim to
its disk, `LoopInv` the loops to the list. That a disk is steady, so that lost
means lost for good (`LostStaysLost`), carries all of it through the other actors'
steps. `ServersStopOnlyForLoss` adds that a pod that waits for the garbage collector
is that of a lost disk (`OrphanInv`), `TornDownForGood` that the list of the reconcile
under way does not have the disk.

**Reconcile.** `IInv` is types, `LoopInv` and `SpecInv`: the finalizer is there while
the steps run, a generation that was read is the spec that was read, and only
supported specs reach the steps and the condition Ready. The one worker is what
keeps `exists` true: the finalizer is removed at another place of the same loop.
`ReadyIsReconciled` adds `ProgressInv`: while the steps run, every call of the spec
that was read is left to be made or `Holds`; when they end without an error all
hold (`AllHold`); and they hold as long as the cluster is Ready. Three facts carry
it. The calls are a set as well as a sequence (`CallsAre`), so that one that is not
left was made. No two calls for a spec want different values of one object
(`CallsAgree`): for the fixed objects by their names, for chunk servers by the
webhook's rule on names; hence a call undoes no other (`CallHolds`). And a status for
the current generation is never newer than what the worker read, so that while a
cluster is Ready every write under way is for the spec it is Ready with. What the
code may skip (`FailCall`) is exactly what `Reconciled` does not promise.
`ServersAssumption` says that a spec's servers are a sequence, `NoneAssumption` that
an object which exists differs from one which does not. `ReadySharesNoStorage` carries
`VolumesAreExclusive` over to the objects, which are the templates of a spec that was
admitted. `PortsInv` says that a Service with node ports which exists was accepted, and
so is any further call that asks for the same (`ReconciledIsAccepted`). `SettledStays`
takes it, `ProgressInv`, and that only a deleted cluster is released (`ReleaseInv`): with
the status at the current generation, whatever a pass still does is for that
generation (`snapGen = gen`), every call it makes is accepted and leaves `Reconciled`
true, and the condition and the phase it patches are those that were there. `GoalsComeFirst` adds the order that the
set has lost: the first call is that of the goals (`First`, `GoalsInv`), so that when
the StatefulSet's turn comes the ConfigMap holds the goals its template names.

**Exporter, plugin.** The invariants relate the mutex to the running commands and
the version of an answer to the version at its start. `Isolation` counts: a row has
a series of its own, and the parsers accept each row or refuse the whole output
(`ParseTakes`), so that `SeriesCount` is a bijection between accepted rows and
series; `OutputsAssumption` says that outputs are finite sequences of rows. The
plugin's invariants relate the location of a run to what it owns (`OwnInv`), follows
(`EndInv`) and reports (`FailInv`). `OwnPodOnly` and `ExitCodeIsOwn` are about runs
that share a name: a run past `create` owns the pod under its name, or that pod was
removed by somebody else.

Only model-checked is the liveness, which is out of TLAPS's reach here:
`FailoverCompletes`, `HolderServes`, `RoutingConverges`,
`StatusForgetsDeadHolder`, `OrphansAreTornDown`, `ClaimsAreReleased`,
`DisksAreServed`, `Converges`, `DeletionCompletes`, `HAMasterComesUp`,
`DefaultGoalIsDefined`, `PodsGoAway`, `ScrapesAreAnswered`. For some of these a safety
half is proved: `BoundedFailover`, `DeposedInTime`, `RoutingSafety`, `TornDownForGood`,
`SettledStays`, `ForgottenForGood`, `GoalsComeFirst`. Every invariant and every action property of a passing run is
a theorem.

## What is not modelled

- Contents of config files, images, resources, probes' timing, PVCs of masters,
  metadata and its replication; therefore also which shadow is the freshest.
- Clocks that differ between nodes: all ages are measured with one clock.
- A second operator instance (leader election is off by default, `src/cmd/main.go:68`).
- Informer caches that lag behind, and their resync every 10 hours.
- Of the API server's own validation anything but node ports.
- A StatefulSet's rolling update, scaling, and pod evictions.
- Values of metrics, labels of metrics, the text of config files and parsers.
- Commands of the plugin that only read and print (`status`, `list`, `topology`,
  `goals`, `logs`), the wiring of `src/cmd/main.go`, generated code.

## Plan

Done: the election with its abstract role and its time; the operator as its
observer; auto-discovery; admission and goals; the reconcile loop with status,
metrics and the master's goals; exporter; plugin; theorems about each of them: every
safety property of the runs, the refinement of `MasterRole` and the bound on a
failover among them. Left, in this order:

1. Proof: the safety halves of `ClaimsAreReleased`, for disks that flap, and of
   `PodsGoAway`; that the deadlines of `TimelySpec` follow from bounds on restarts and
   calls, by pod.
2. `Reconcile` with the Lease that is left when HA is switched off; `OperatorHA` in
   reconciles whose earlier steps fail.
3. `AutoDiscover` with colliding names, and with HA's requeue.
4. Two operators at a time, as when leader election is off.

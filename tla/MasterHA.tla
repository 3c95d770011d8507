------------------------------ MODULE MasterHA ------------------------------
(***************************************************************************)
(* Election of the LeilFS master: the pods of the unified master           *)
(* StatefulSet, the init-config script that picks a personality, the       *)
(* ha-sidecar loop that renews or acquires the HA Lease, and the parts of  *)
(* Kubernetes they run on (API server, kubelet, StatefulSet controller,    *)
(* clock).  Scripts and pod template come from reconcileMasterStatefulSet. *)
(*                                                                         *)
(* Every HTTP call of a script is one step: the request takes effect on    *)
(* the API server and its answer decides where the script goes next.  What *)
(* happens between two calls of a script is interleaved with everything    *)
(* else.  The unit of time is a model parameter; all durations are in it.  *)
(***************************************************************************)
EXTENDS Integers, FiniteSets

CONSTANTS
  Replicas,         \* 1 + spec.shadow.replicas pods, ordinals 0 .. Replicas-1
  NoHolder,         \* an empty holderIdentity
  LeaseDuration,    \* leaseDuration
  RenewInterval,    \* leaseRenewInterval
  ObserveInterval,  \* leaseObserveInterval
  StartupGrace,     \* spec.master.startupGracePeriod
  MaxBackoff,       \* cap of the staleness back-off before an acquisition
  DeleteSleep,      \* the sleep at the end of delete_self
  MaxDowntime,      \* longest time from losing a pod to its containers running
  Flaky,            \* pods with a bad connection to the API server: their
                    \* calls may fail, lose their answer, or hang (wget is
                    \* called without a timeout)
  SlowStart,        \* pods whose restart may take longer than MaxDowntime
  FaultKinds,       \* the kinds of fault that may occur
  MaxFaults         \* bound on the number of faults of a behaviour

Pods == 0 .. Replicas - 1

\* Older than LeaseDuration: by how much makes no difference.
MaxAge == LeaseDuration + 1

ASSUME ReplicasAssumption == Replicas \in Nat \ {0}
ASSUME NoHolderAssumption == NoHolder \notin Pods
ASSUME DurationAssumption ==
  /\ LeaseDuration \in Nat \ {0}
  /\ RenewInterval \in Nat \ {0}
  /\ ObserveInterval \in Nat \ {0}
  /\ StartupGrace \in Nat
  /\ MaxBackoff \in Nat
  /\ DeleteSleep \in Nat
  /\ MaxDowntime \in Nat
\* leaseRenewInterval (10s) is shorter than leaseDuration (30s).
ASSUME RenewalAssumption == RenewInterval < LeaseDuration
ASSUME FaultAssumption ==
  /\ Flaky \subseteq Pods
  /\ SlowStart \subseteq Pods
  /\ MaxFaults \in Nat

VARIABLES
  created,      \* does the Lease object exist?
  holder,       \* its holderIdentity
  age,          \* time since its renewTime in whole units, saturating at
                \* MaxAge, which also stands for "no renewTime"
  phase,        \* phase of each pod of the StatefulSet
  personality,  \* PERSONALITY in each pod's sfsmaster.cfg (an emptyDir)
  sfs,          \* is each pod's sfsmaster process up or down?
  pc,           \* where each sidecar loop is
  timer,        \* running pod: rest of the sidecar's sleep;
                \* any other pod: rest of its allowed downtime
  late,         \* how long ago each sidecar took the time that its PATCH
                \* will write, saturating at MaxAge
  grace,        \* rest of each sidecar's startup grace
  seen,         \* acquiring sidecars whose RES_VER is still the Lease's
                \* resourceVersion; every write to the Lease empties it
  faults        \* number of faults so far

leaseVars == <<created, holder, age, seen>>
podVars   == <<phase, personality, sfs>>
loopVars  == <<pc, timer, late>>
vars      == <<created, holder, age, phase, personality, sfs, pc, timer, late,
               grace, seen, faults>>

(* absent: no such pod; creating: pod object exists, init-config not run;
   starting: init-config done, containers not started; running; terminating:
   DELETE accepted, sfsmaster may still serve; lost: node down or
   unreachable-and-dead, pod object not replaced yet. *)
Phases == {"absent", "creating", "starting", "running", "terminating", "lost"}

(* observe: about to GET the Lease; renew, release, acquire: about to PATCH it;
   released, unconfirmed, acquired: about to DELETE the own pod, after a
   release, an unconfirmed renewal or an acquisition. *)
Labels == {"observe", "renew", "release", "acquire",
           "released", "unconfirmed", "acquired"}

AllFaultKinds == {"node", "sfsmaster", "sidecar", "request", "response"}

(***************************************************************************)
(* A pod's sfsmaster process serves (until TerminatePod also while the pod *)
(* is being deleted); it serves as master iff its config says so.          *)
(***************************************************************************)
ActiveMaster(p) == /\ phase[p] \in {"running", "terminating"}
                   /\ sfs[p] = "up"
                   /\ personality[p] = "master"

\* The TCP readiness probe of the leilfs-master container.
Ready(p) == phase[p] = "running" /\ sfs[p] = "up"

\* The sidecar's comparison: [ ${AGE} -lt ${LEASE_DURATION} ] is false.
Expired == age >= LeaseDuration

Fault(kind) == /\ kind \in FaultKinds
               /\ faults < MaxFaults
               /\ faults' = faults + 1

\* An HTTP call of pod p goes wrong.
CallFault(p, kind) == p \in Flaky /\ Fault(kind)

Init ==
  /\ created = FALSE
  /\ holder = NoHolder
  /\ age = MaxAge
  /\ phase = [p \in Pods |-> "absent"]
  /\ personality = [p \in Pods |-> "none"]
  /\ sfs = [p \in Pods |-> "down"]
  /\ pc = [p \in Pods |-> "observe"]
  /\ timer = [p \in Pods |-> MaxDowntime]
  /\ late = [p \in Pods |-> 0]
  /\ grace = [p \in Pods |-> 0]
  /\ seen = {}
  /\ faults = 0

-----------------------------------------------------------------------------
(***************************************************************************)
(* The operator                                                            *)
(***************************************************************************)

\* reconcileMasterHA finds no Lease and creates one without holder or renewTime.
BootstrapLease ==
  /\ ~created
  /\ created' = TRUE
  /\ UNCHANGED <<holder, age, seen, podVars, loopVars, grace, faults>>

-----------------------------------------------------------------------------
(***************************************************************************)
(* The ha-sidecar loop                                                     *)
(***************************************************************************)

\* The sidecar of p is at label l and not sleeping.
At(p, l) == /\ phase[p] = "running"
            /\ pc[p] = l
            /\ timer[p] = 0

\* The sidecar of p goes to label l and sleeps for d first.
GoTo(p, l, d) == /\ pc' = [pc EXCEPT ![p] = l]
                 /\ timer' = [timer EXCEPT ![p] = d]
                 /\ late' = [late EXCEPT ![p] = 0]

(* A PATCH of p that the API server applies: a new resourceVersion, and as
   renewTime the time that p took before it made the call. *)
WriteLease(p, h) == /\ holder' = h
                    /\ age' = late[p]
                    /\ seen' = {}

\* Mutant: a changelog that is old enough delays the acquisition without a cap.
BackoffsUncapped == 0 .. MaxBackoff + ObserveInterval

(* How long a shadow may wait before it acquires an expired Lease: half of what its
   changelog is older than LeaseDuration, or its ordinal, 15 s at most. *)
Backoffs == 0 .. MaxBackoff

\* Mutant: the loop starts only after the startup grace, so that sfsmaster can load.
ObserveLeaseAfterGrace(p) ==
  /\ At(p, "observe")
  /\ created
  /\ IF grace[p] > 0 THEN GoTo(p, "observe", grace[p]) /\ UNCHANGED seen
     ELSE IF holder = p
          THEN /\ GoTo(p, IF sfs[p] = "down" THEN "release" ELSE "renew", 0)
               /\ UNCHANGED seen
          ELSE IF ~Expired
               THEN GoTo(p, "observe", ObserveInterval) /\ UNCHANGED seen
               ELSE GoTo(p, "acquire", 0) /\ seen' = seen \cup {p}
  /\ UNCHANGED <<created, holder, age, podVars, grace, faults>>

(* get_lease and the branches up to the next call.  The holder compares pgrep
   with its grace period; a shadow compares renewTime with its clock and backs
   off. *)
ObserveLease(p) ==
  /\ At(p, "observe")
  /\ created
  /\ \/ /\ holder = p
        /\ GoTo(p, IF grace[p] = 0 /\ sfs[p] = "down" THEN "release" ELSE "renew", 0)
        /\ UNCHANGED seen
     \/ /\ holder # p
        /\ ~Expired
        /\ GoTo(p, "observe", ObserveInterval)
        /\ UNCHANGED seen
     \/ /\ holder # p
        /\ Expired
        /\ \E backoff \in Backoffs : GoTo(p, "acquire", backoff)
        /\ seen' = seen \cup {p}
  /\ UNCHANGED <<created, holder, age, podVars, grace, faults>>

\* Mutant: without an answer the loop goes on to the acquisition.
ObserveNothingGoOn(p) ==
  /\ At(p, "observe")
  /\ \/ ~created /\ UNCHANGED faults
     \/ CallFault(p, "request")
  /\ GoTo(p, "acquire", ObserveInterval)
  /\ UNCHANGED <<leaseVars, podVars, grace>>

\* get_lease returns nothing: there is no Lease yet, or the request fails.
ObserveNothing(p) ==
  /\ At(p, "observe")
  /\ \/ ~created /\ UNCHANGED faults
     \/ CallFault(p, "request")
  /\ GoTo(p, "observe", ObserveInterval)
  /\ UNCHANGED <<leaseVars, podVars, grace>>

(* The renewal PATCH carries no resourceVersion: whoever holds the Lease by
   now, the answer names p.  Only a lost request or a lost answer sends the
   sidecar to delete_self. *)
RenewLease(p) ==
  /\ At(p, "renew")
  /\ \/ /\ WriteLease(p, p)
        /\ \/ GoTo(p, "observe", RenewInterval) /\ UNCHANGED faults
           \/ GoTo(p, "unconfirmed", 0) /\ CallFault(p, "response")
     \/ /\ CallFault(p, "request")
        /\ GoTo(p, "unconfirmed", 0)
        /\ UNCHANGED <<holder, age, seen>>
  /\ UNCHANGED <<created, podVars, grace>>

\* Mutant: the release leaves a Lease that shadows see as expired.
ReleaseLeaseExpired(p) ==
  /\ At(p, "release")
  /\ holder' = NoHolder
  /\ age' = MaxAge
  /\ seen' = {}
  /\ GoTo(p, "released", 0)
  /\ UNCHANGED <<created, podVars, grace, faults>>

\* Mutant: the release is not followed by delete_self.
ReleaseLeaseKeepPod(p) ==
  /\ At(p, "release")
  /\ WriteLease(p, NoHolder)
  /\ GoTo(p, "observe", 0)
  /\ UNCHANGED <<created, podVars, grace, faults>>

\* sfsmaster is dead: empty the holder, renewTime = now; the answer is ignored.
ReleaseLease(p) ==
  /\ At(p, "release")
  /\ \/ WriteLease(p, NoHolder) /\ UNCHANGED faults
     \/ CallFault(p, "request") /\ UNCHANGED <<holder, age, seen>>
  /\ GoTo(p, "released", 0)
  /\ UNCHANGED <<created, podVars, grace>>

\* Mutant: the acquiring PATCH carries no resourceVersion.
AcquireLeaseBlind(p) ==
  /\ At(p, "acquire")
  /\ WriteLease(p, p)
  /\ GoTo(p, "acquired", 0)
  /\ UNCHANGED <<created, podVars, grace, faults>>

\* Mutant: the winner goes on as it is and does not restart as master.
AcquireLeaseInPlace(p) ==
  /\ At(p, "acquire")
  /\ IF p \in seen THEN WriteLease(p, p)
     ELSE UNCHANGED <<holder, age, seen>>
  /\ GoTo(p, "observe", ObserveInterval)
  /\ UNCHANGED <<created, podVars, grace, faults>>

\* The compare-and-swap PATCH: it carries RES_VER and fails if that is stale.
AcquireLease(p) ==
  /\ At(p, "acquire")
  /\ \/ /\ p \in seen
        /\ WriteLease(p, p)
        /\ \/ GoTo(p, "acquired", 0) /\ UNCHANGED faults
           \/ GoTo(p, "observe", ObserveInterval) /\ CallFault(p, "response")
     \/ /\ \/ p \notin seen /\ UNCHANGED faults
           \/ CallFault(p, "request")
        /\ GoTo(p, "observe", ObserveInterval)
        /\ seen' = seen \ {p}
        /\ UNCHANGED <<holder, age>>
  /\ UNCHANGED <<created, podVars, grace>>

\* The sleep that follows delete_self in the branch that called it.
BranchSleep(l) == CASE l = "released"    -> 0
                    [] l = "unconfirmed" -> RenewInterval
                    [] l = "acquired"    -> ObserveInterval

\* The pod stops being a running pod: its sidecar is gone.
StopSidecar(p) == /\ GoTo(p, "observe", MaxDowntime)
                  /\ grace' = [grace EXCEPT ![p] = 0]
                  /\ seen' = seen \ {p}

\* delete_self: errors of the DELETE are ignored, the loop goes on after a sleep.
DeleteSelf(p) ==
  \E l \in {"released", "unconfirmed", "acquired"} :
    /\ At(p, l)
    /\ \/ /\ phase' = [phase EXCEPT ![p] = "terminating"]
          /\ StopSidecar(p)
          /\ UNCHANGED faults
       \/ /\ CallFault(p, "request")
          /\ GoTo(p, "observe", DeleteSleep + BranchSleep(l))
          /\ UNCHANGED <<phase, grace, seen>>
    /\ UNCHANGED <<created, holder, age, personality, sfs>>

-----------------------------------------------------------------------------
(***************************************************************************)
(* Pod start: StatefulSet controller, init-config, kubelet                 *)
(***************************************************************************)

\* The containers of a terminating pod have stopped and the pod object is gone.
TerminatePod(p) ==
  /\ phase[p] = "terminating"
  /\ phase' = [phase EXCEPT ![p] = "absent"]
  /\ personality' = [personality EXCEPT ![p] = "none"]
  /\ sfs' = [sfs EXCEPT ![p] = "down"]
  /\ UNCHANGED <<leaseVars, loopVars, grace, faults>>

(* The StatefulSet names no podManagementPolicy and so is OrderedReady: a pod
   is created only while every lower ordinal is ready. *)
Creatable(p) == phase[p] = "absent" /\ \A q \in 0 .. p - 1 : Ready(q)

CreatePod(p) ==
  /\ Creatable(p)
  /\ phase' = [phase EXCEPT ![p] = "creating"]
  /\ UNCHANGED <<leaseVars, personality, sfs, loopVars, grace, faults>>

\* Mutant: an empty holder means master too.
InitConfigUnlessHeld(p) ==
  /\ phase[p] = "creating"
  /\ personality' = [personality EXCEPT ![p] =
                       IF holder \in {p, NoHolder} THEN "master" ELSE "shadow"]
  /\ phase' = [phase EXCEPT ![p] = "starting"]
  /\ UNCHANGED <<leaseVars, sfs, loopVars, grace, faults>>

\* Mutant: every restarted pod joins as shadow of the master Service.
InitConfigShadow(p) ==
  /\ phase[p] = "creating"
  /\ personality' = [personality EXCEPT ![p] = "shadow"]
  /\ phase' = [phase EXCEPT ![p] = "starting"]
  /\ UNCHANGED <<leaseVars, sfs, loopVars, grace, faults>>

(* init-config: master iff the GET succeeds and names this pod; renewTime is
   not looked at.  No Lease, no answer or no holder mean shadow. *)
InitConfig(p) ==
  /\ phase[p] = "creating"
  /\ \/ /\ personality' = [personality EXCEPT ![p] =
                             IF created /\ holder = p THEN "master" ELSE "shadow"]
        /\ UNCHANGED faults
     \/ /\ CallFault(p, "request")
        /\ personality' = [personality EXCEPT ![p] = "shadow"]
  /\ phase' = [phase EXCEPT ![p] = "starting"]
  /\ UNCHANGED <<leaseVars, sfs, loopVars, grace>>

\* sfsmaster and the sidecar start; the sidecar notes START_EPOCH.
StartContainers(p) ==
  /\ phase[p] = "starting"
  /\ phase' = [phase EXCEPT ![p] = "running"]
  /\ sfs' = [sfs EXCEPT ![p] = "up"]
  /\ grace' = [grace EXCEPT ![p] = StartupGrace]
  /\ GoTo(p, "observe", 0)
  /\ UNCHANGED <<leaseVars, personality, faults>>

\* Kubelet restarts the leilfs-master container; init-config does not run again.
RestartSfsmaster(p) ==
  /\ phase[p] = "running"
  /\ sfs[p] = "down"
  /\ sfs' = [sfs EXCEPT ![p] = "up"]
  /\ UNCHANGED <<leaseVars, phase, personality, loopVars, grace, faults>>

-----------------------------------------------------------------------------
(***************************************************************************)
(* Crashes and time                                                        *)
(***************************************************************************)

\* sfsmaster dies, or the liveness probe kills its container.
CrashSfsmaster(p) ==
  /\ Ready(p)
  /\ Fault("sfsmaster")
  /\ sfs' = [sfs EXCEPT ![p] = "down"]
  /\ UNCHANGED <<leaseVars, phase, personality, loopVars, grace>>

\* The sidecar container dies and kubelet restarts it: the script starts over.
CrashSidecar(p) ==
  /\ phase[p] = "running"
  /\ Fault("sidecar")
  /\ GoTo(p, "observe", 0)
  /\ grace' = [grace EXCEPT ![p] = StartupGrace]
  /\ seen' = seen \ {p}
  /\ UNCHANGED <<created, holder, age, podVars>>

\* The node of a pod dies with everything on it.
CrashNode(p) ==
  /\ phase[p] \in {"creating", "starting", "running", "terminating"}
  /\ Fault("node")
  /\ phase' = [phase EXCEPT ![p] = "lost"]
  /\ personality' = [personality EXCEPT ![p] = "none"]
  /\ sfs' = [sfs EXCEPT ![p] = "down"]
  /\ StopSidecar(p)
  /\ UNCHANGED <<created, holder, age>>

\* The node is back, or the pod object is removed: the pod can be replaced.
RecoverNode(p) ==
  /\ phase[p] = "lost"
  /\ phase' = [phase EXCEPT ![p] = "absent"]
  /\ UNCHANGED <<leaseVars, personality, sfs, loopVars, grace, faults>>

(* Something that must happen before time passes: a sidecar whose sleep is
   over, a container to be restarted, a pod whose downtime is used up (unless
   it has to wait for lower ordinals). *)
Urgent(p) ==
  \/ phase[p] = "running" /\ timer[p] = 0 /\ p \notin Flaky
  \/ phase[p] = "running" /\ sfs[p] = "down" /\ p \notin SlowStart
  \/ /\ phase[p] # "running"
     /\ timer[p] = 0
     /\ p \notin SlowStart
     /\ phase[p] = "absent" => Creatable(p)

\* One unit of time later.
Less(t) == IF t = 0 THEN 0 ELSE t - 1
Older(a) == IF a < MaxAge THEN a + 1 ELSE a

\* The sidecar of p has taken the time and its PATCH is on the way.
Patching(p) == /\ phase[p] = "running"
               /\ pc[p] \in {"renew", "release", "acquire"}
               /\ timer[p] = 0

Tick ==
  /\ \A p \in Pods : ~Urgent(p)
  /\ age' = Older(age)
  /\ timer' = [p \in Pods |-> Less(timer[p])]
  /\ late' = [p \in Pods |-> IF Patching(p) THEN Older(late[p]) ELSE late[p]]
  /\ grace' = [p \in Pods |-> Less(grace[p])]
  /\ UNCHANGED <<created, holder, podVars, pc, seen, faults>>

-----------------------------------------------------------------------------
Sidecar(p) == \/ ObserveLease(p) \/ ObserveNothing(p)
              \/ RenewLease(p) \/ ReleaseLease(p) \/ AcquireLease(p)
              \/ DeleteSelf(p)

PodStart(p) == \/ TerminatePod(p) \/ CreatePod(p) \/ InitConfig(p)
               \/ StartContainers(p) \/ RestartSfsmaster(p)

Crash(p) == CrashSfsmaster(p) \/ CrashSidecar(p) \/ CrashNode(p)

Next == \/ BootstrapLease
        \/ Tick
        \/ \E p \in Pods : Sidecar(p) \/ PodStart(p) \/ Crash(p) \/ RecoverNode(p)

Spec == Init /\ [][Next]_vars

(***************************************************************************)
(* Scripts and containers keep running, kubelet and the StatefulSet        *)
(* controller keep trying, the operator reconciles, time passes.  A pod is *)
(* replaced within MaxDowntime unless it is in SlowStart: then nothing     *)
(* says that its node comes back, and HealSpec adds that.                  *)
(***************************************************************************)
Fairness == /\ WF_vars(BootstrapLease)
            /\ WF_vars(Tick)
            /\ \A p \in Pods : WF_vars(Sidecar(p)) /\ WF_vars(PodStart(p))
            /\ \A p \in Pods \ SlowStart : WF_vars(RecoverNode(p))

FairSpec == Spec /\ Fairness
HealSpec == FairSpec /\ \A p \in SlowStart : WF_vars(RecoverNode(p))

(***************************************************************************)
(* Nothing in the code makes sure that a master is gone before its Lease   *)
(* has run out: a restart or a call may take longer than leaseDuration, or *)
(* the sidecar may die in between, and then there can be two masters.      *)
(* TimelySpec has the behaviours in which these deadlines are met.  They   *)
(* are not limited otherwise: any number and kind of faults, hanging       *)
(* calls, slow restarts, nodes that never come back.                       *)
(***************************************************************************)

(* When the Lease runs out, no pod configured as master is on its way up or down or
   waits for an answer of the API server, and no PATCH of the holder hangs. *)
Timely ==
  /\ \A p \in Pods : personality[p] = "master" /\ Expired
                      => phase[p] = "running" /\ p \notin Flaky
  /\ \A p \in Flaky : phase[p] = "running" /\ holder = p /\ pc[p] \in {"renew", "release"}
                      => ~Expired

\* A sidecar at label l, about to delete its pod, does not die before it has done so.
Survives(l) == \A p \in Pods : pc[p] = l => ~CrashSidecar(p)

(* Time does not pass over these deadlines, and a pod that reads that it holds the
   Lease, in init-config or after a hanging call, reads so before it runs out. *)
TimelyNext ==
  /\ Next
  /\ \/ Tick
     \/ \E p \in Pods : holder = p /\ (InitConfig(p) \/ (p \in Flaky /\ ObserveLease(p)))
     => Timely'
  /\ Survives("released")

TimelySpec == Init /\ [][TimelyNext]_vars
-----------------------------------------------------------------------------
(***************************************************************************)
(* Properties                                                              *)
(***************************************************************************)

\* The type invariant of the election; nobody looks past a Lease that is not there.
TypeOK ==
  /\ created \in BOOLEAN
  /\ holder \in Pods \cup {NoHolder}
  /\ age \in 0 .. MaxAge
  /\ phase \in [Pods -> Phases]
  /\ personality \in [Pods -> {"none", "master", "shadow"}]
  /\ sfs \in [Pods -> {"up", "down"}]
  /\ pc \in [Pods -> Labels]
  /\ timer \in [Pods -> Nat]
  /\ late \in [Pods -> 0 .. MaxAge]
  /\ grace \in [Pods -> 0 .. StartupGrace]
  /\ seen \in SUBSET Pods
  /\ faults \in 0 .. MaxFaults
  /\ ~created => holder = NoHolder /\ seen = {} /\ \A p \in Pods : pc[p] = "observe"

(* At most one sfsmaster serves as master, through every restart of pods and
   processes: init-config, delete_self and the Lease together keep it so. *)
AtMostOneMaster ==
  \A p, q \in Pods : ActiveMaster(p) /\ ActiveMaster(q) => p = q

Role == INSTANCE MasterRole WITH owner <- holder,
                                 serving <- {p \in Pods : ActiveMaster(p)}

(* The detailed election implements the abstract role: the Lease's holder is
   the owner, the sfsmasters that run as master are the pods that serve, and
   the role never passes to a pod while another one serves. *)
RoleSpec == Role!Spec

\* An acquiring sidecar whose RES_VER is current looks at an expired Lease, and
\* not at its own.
AcquirerInv ==
  /\ \A p \in seen : phase[p] = "running" /\ pc[p] = "acquire" /\ created /\ Expired
  /\ \A p \in Pods : phase[p] = "running" /\ pc[p] = "acquire" => holder # p

\* A pod with a good connection that holds the Lease never sleeps past the next
\* renewal, and the time it writes is the present.
SleeperInv ==
  /\ \A p \in Pods :
       phase[p] = "running" /\ timer[p] > 0 => pc[p] \in {"observe", "acquire"}
  /\ \A p \in Pods \ Flaky :
       /\ late[p] = 0
       /\ holder = p /\ phase[p] = "running" /\ timer[p] > 0
            => age + timer[p] <= RenewInterval

(* The inductive invariant behind the two action properties below: what a sidecar
   read before a sleep or another's write is either still true when it acts on it,
   or its resourceVersion is no longer the Lease's. *)
LeaseInv == AcquirerInv /\ SleeperInv

(* A sidecar takes the Lease over only while it is expired at that moment: a
   renewal, a release or another acquisition that comes after its GET, also
   during its back-off, makes its compare-and-swap fail. *)
TakeoverOnlyWhenExpired ==
  [][\A p \in Pods :
       pc[p] = "acquire" /\ holder # p /\ holder' = p => Expired]_vars

(* The master of a pod that keeps running and whose sidecar wakes up in time is
   never voted out, whatever happens to the other pods: its Lease does not
   expire in a sleep of its loop, not even in the startup grace. *)
HealthyHolderNotVotedOut ==
  [][\A p \in Pods \ Flaky :
       /\ holder = p
       /\ phase[p] = "running"
       /\ timer[p] > 0
       => \A q \in Pods \ {p} : ~(pc[q] = "acquire" /\ holder' = q)]_vars

(* The renewal PATCH is blind, yet it only ever renews: between the GET that named
   the pod as holder and the PATCH nobody else can have become the holder, so
   that no master is overruled by one that lags behind. *)
RenewalKeepsHolder ==
  [][\A p \in Pods :
       pc[p] = "renew" /\ holder # p => holder' # p]_vars

ServedByHolder == \E p \in Pods : ActiveMaster(p) /\ holder = p
ClusterUp      == (\A p \in Pods : Ready(p)) /\ ServedByHolder

(* The loss of a node for good, the master's too, leaves the other pods serving:
   again and again one of them is the holder and the master. *)
SurvivesNodeLoss ==
  (<>ClusterUp /\ \E p \in Pods : <>[](phase[p] = "lost")) => []<>ServedByHolder

(* Failover completes: once the cluster has been up, and whatever crashes
   later, some pod ends up as the holder of the Lease and the master. *)
FailoverCompletes == [](ClusterUp => <>[]ServedByHolder)

(* Whoever holds the Lease becomes the master, or somebody else gets it: the
   Lease is not renewed forever by a pod that runs as shadow. *)
HolderServes ==
  \A p \in Pods : holder = p ~> (ActiveMaster(p) \/ holder # p)

(* A well connected master that no longer holds the Lease has released it itself, is
   gone within MaxDowntime of that, and nobody holds the Lease before it is gone. *)
DeposedStopsInTime ==
  \A p \in Pods \ (Flaky \cup SlowStart) :
    ActiveMaster(p) /\ holder # p => holder = NoHolder /\ age <= MaxDowntime

(* A master that no longer holds the Lease stops being master, however it lost it;
   violated where calls hang, although the script says "another pod has taken over,
   kill sfsmaster". *)
DeposedMasterStops ==
  \A p \in Pods : (ActiveMaster(p) /\ holder # p) ~> (~ActiveMaster(p) \/ holder = p)
=============================================================================

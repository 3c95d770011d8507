--------------------------- MODULE Reconcile_proofs ---------------------------
(***************************************************************************)
(* Proofs about admission and the reconcile loop, for every set of specs   *)
(* and any number of changes, failing calls and crashes: what the rules    *)
(* for a spec guarantee, type correctness, that nothing is built for a     *)
(* cluster that is gone and nothing left of one that is forgotten, that a  *)
(* cluster is Ready only with the objects of its spec, that its chunk      *)
(* servers then share no storage as far as the webhook looks, and that the *)
(* operator does not undo what has settled.                                *)
(***************************************************************************)
EXTENDS Reconcile, TLAPS

USE FirstSpecAssumption, BoundsAssumption, NoneAssumption

-----------------------------------------------------------------------------
(***************************************************************************)
(* What the rules for a spec guarantee, for any number of chunk servers,   *)
(* mount paths and goals.                                                  *)
(***************************************************************************)

(* The webhook's rules carry over to what the controller makes of a spec: the pods of
   two chunk servers mount no claim and, with the same nodeName, no directory twice,
   not even where a host path hides a claim that is set too.  A server without nodeName
   beside one with is not covered, and the webhook does admit a common host path
   there. *)
THEOREM VolumesAreExclusive ==
  ASSUME NEW s, Admitted(s),
         NEW i \in DOMAIN s.servers, NEW j \in DOMAIN s.servers, i # j
  PROVE  LET p == ChunkTemplate(s.servers[i])
             q == ChunkTemplate(s.servers[j])
         IN ~Share(p, q, SameNode(p, q))
<1> DEFINE a == s.servers[i]
           b == s.servers[j]
           p == ChunkTemplate(a)
           q == ChunkTemplate(b)
<1>1. /\ p.node = a.node /\ p.volumes = Volumes(a)
      /\ q.node = b.node /\ q.volumes = Volumes(b)
  BY DEF ChunkTemplate
<1>2. ASSUME NEW v \in Volumes(a) \cap Volumes(b)
      PROVE  ~(v[1] = "claim" \/ (v[1] = "hostPath" /\ SameNode(p, q)))
  <2>1. PICK k \in Mounts(a) : v = Volume(a.mounts[k])
    BY DEF Volumes
  <2>2. PICK l \in Mounts(b) : v = Volume(b.mounts[l])
    BY DEF Volumes
  <2> DEFINE x == a.mounts[k]
             y == b.mounts[l]
  <2>3. v[1] # "claim"
    <3>1. SUFFICES ASSUME v[1] = "claim"
                   PROVE  FALSE
      OBVIOUS
    <3>2. v = <<"claim", x.claim>> /\ x.claim # Empty
      BY <2>1, <3>1 DEF Volume
    <3>3. v = <<"claim", y.claim>>
      BY <2>2, <3>1 DEF Volume
    <3> QED  BY <3>2, <3>3 DEF Admitted, ClaimsOK
  <2>4. ~(v[1] = "hostPath" /\ SameNode(p, q))
    <3>1. SUFFICES ASSUME v[1] = "hostPath", SameNode(p, q)
                   PROVE  FALSE
      OBVIOUS
    <3>2. v = <<"hostPath", x.host>> /\ x.host # Empty
      BY <2>1, <3>1 DEF Volume
    <3>3. v = <<"hostPath", y.host>>
      BY <2>2, <3>1 DEF Volume
    <3>4. a.node = b.node
      BY <1>1, <3>1 DEF SameNode
    <3> QED  BY <3>2, <3>3, <3>4 DEF Admitted, HostPathsOK
  <2> QED  BY <2>3, <2>4
<1> QED  BY <1>1, <1>2 DEF Share

(* The two readings of "default" agree on goals that are well formed: the goal that
   init-config writes to sfsmaster.cfg (the first one marked) is the goal that the
   ConfigMap names (the last one marked that is rendered), and it has a line in
   sfsgoals.cfg.  Nothing enforces that goals are well formed. *)
THEOREM DefaultGoalsAgree ==
  ASSUME NEW goals,
         DOMAIN goals \subseteq Nat,
         \A i \in DOMAIN goals : goals[i].kind # "neither",
         \A i, j \in DOMAIN goals : goals[i].default /\ goals[j].default => i = j
  PROVE  /\ SnippetGoal(goals) = DefaultGoal(goals)
         /\ DefaultGoal(goals) \in GoalsFile(goals) \cup {Empty}
<1> DEFINE marked == {i \in DOMAIN goals : goals[i].default}
<1>1. Rendered(goals) = DOMAIN goals
  BY DEF Rendered
<1>2. CASE marked = {}
  BY <1>1, <1>2 DEF SnippetGoal, DefaultGoal
<1>3. CASE marked # {}
  <2>1. PICK i \in DOMAIN goals : marked = {i}
    BY <1>3
  <2>2. (CHOOSE k \in marked : \A j \in marked : j <= k) = i
    BY <2>1
  <2>3. (CHOOSE k \in marked : \A j \in marked : k <= j) = i
    BY <2>1
  <2>4. SnippetGoal(goals) = goals[i].name /\ DefaultGoal(goals) = goals[i].name
    BY <1>1, <1>3, <2>2, <2>3 DEF SnippetGoal, DefaultGoal
  <2> QED  BY <1>1, <2>4 DEF GoalsFile
<1> QED  BY <1>2, <1>3

-----------------------------------------------------------------------------
(* The finalizer holds the cluster while the steps run; a generation that was read
   is the spec that was read; only a supported spec is reconciled and found Ready. *)
LoopInv ==
  /\ pc \in {"validate", "steps"} => exists /\ finalizer
  /\ snapGen = gen => snap = spec
  /\ pc = "steps" => Supported(snap)
  /\ pc # "status" => failed = "no"
  /\ pc = "status" /\ failed = "no" => Supported(snap)

\* What users write has passed the webhook, what is Ready has passed the controller too.
SpecInv ==
  /\ Admitted(spec)
  /\ status.ready = "true" /\ status.observed = gen => Supported(spec)

IInv == TypeOK /\ LoopInv /\ SpecInv

-----------------------------------------------------------------------------
(***************************************************************************)
(* IInv is inductive.                                                      *)
(***************************************************************************)

LEMMA InitIInv == Init => IInv
<1> SUFFICES ASSUME Init
             PROVE  IInv
  OBVIOUS
<1> USE DEF Init
<1>1. FlagTypes
  BY DEF FlagTypes
<1>2. StatusTypes
  BY DEF StatusTypes, Unknown
<1>3. ValueTypes
  BY DEF ValueTypes
<1>4. LoopInv /\ SpecInv
  BY DEF LoopInv, SpecInv, Unknown
<1> QED  BY <1>1, <1>2, <1>3, <1>4 DEF IInv, TypeOK

\* The flags stay flags.
LEMMA NextFlags == IInv /\ [Next]_vars => FlagTypes'
<1> SUFFICES ASSUME IInv, [Next]_vars
             PROVE  FlagTypes'
  OBVIOUS
<1> USE DEF IInv, TypeOK, FlagTypes, StatusTypes, ValueTypes, LoopInv, SpecInv,
            clusterVars, opVars, Fault, Return, Unchanged
<1>1. ASSUME NEW s \in Specs, UpdateSpec(s)
      PROVE  FlagTypes'
  BY <1>1 DEF UpdateSpec
<1>2. CASE DeleteCluster
  BY <1>2 DEF DeleteCluster
<1>3. CASE CollectGarbage
  BY <1>3 DEF CollectGarbage
<1>4. CASE StartMaster
  BY <1>4 DEF StartMaster, Started, Waiting
<1>5. CASE MountGoals
  BY <1>5 DEF MountGoals, Started
<1>6. CASE StopMaster
  BY <1>6 DEF StopMaster
<1>7. CASE ElectMaster
  BY <1>7 DEF ElectMaster
<1>8. CASE ReadCluster
  BY <1>8 DEF ReadCluster
<1>9. CASE AddFinalizer
  BY <1>9 DEF AddFinalizer
<1>10. CASE RemoveFinalizer
  BY <1>10 DEF RemoveFinalizer
<1>11. CASE ValidateSpec
  BY <1>11 DEF ValidateSpec
<1>12. CASE MakeCall
  BY <1>12 DEF MakeCall, WriteObject, FailCall, SkipCall, EndWithError
<1>13. CASE EndSteps
  BY <1>13 DEF EndSteps
<1>14. CASE PatchStatus
  BY <1>14 DEF PatchStatus, NewStatus, Phase
<1>15. CASE Crash
  BY <1>15 DEF Crash
<1>16. CASE UNCHANGED vars
  BY <1>16 DEF vars
<1> QED
  BY <1>1, <1>2, <1>3, <1>4, <1>5, <1>6, <1>7, <1>8,
     <1>9, <1>10, <1>11, <1>12, <1>13, <1>14, <1>15, <1>16
  DEF Next, Operator

\* The status tells of a generation that was there, and Ready of a supported spec.
LEMMA NextStatus == IInv /\ [Next]_vars => StatusTypes' /\ SpecInv'
<1> SUFFICES ASSUME IInv, [Next]_vars
             PROVE  StatusTypes' /\ SpecInv'
  OBVIOUS
<1> USE DEF IInv, TypeOK, FlagTypes, StatusTypes, ValueTypes, LoopInv, SpecInv,
            clusterVars, opVars, Fault, Return, Unchanged
<1>1. ASSUME NEW s \in Specs, UpdateSpec(s)
      PROVE  StatusTypes' /\ SpecInv'
  BY <1>1 DEF UpdateSpec
<1>2. CASE DeleteCluster
  BY <1>2 DEF DeleteCluster
<1>3. CASE CollectGarbage
  BY <1>3 DEF CollectGarbage
<1>4. CASE StartMaster
  BY <1>4 DEF StartMaster, Started, Waiting
<1>5. CASE MountGoals
  BY <1>5 DEF MountGoals, Started
<1>6. CASE StopMaster
  BY <1>6 DEF StopMaster
<1>7. CASE ElectMaster
  BY <1>7 DEF ElectMaster
<1>8. CASE ReadCluster
  BY <1>8 DEF ReadCluster
<1>9. CASE AddFinalizer
  BY <1>9 DEF AddFinalizer
<1>10. CASE RemoveFinalizer
  BY <1>10 DEF RemoveFinalizer
<1>11. CASE ValidateSpec
  BY <1>11 DEF ValidateSpec
<1>12. CASE MakeCall
  BY <1>12 DEF MakeCall, WriteObject, FailCall, SkipCall, EndWithError
<1>13. CASE EndSteps
  BY <1>13 DEF EndSteps
<1>14. CASE PatchStatus
  BY <1>14 DEF PatchStatus, NewStatus, Phase
<1>15. CASE Crash
  BY <1>15 DEF Crash
<1>16. CASE UNCHANGED vars
  BY <1>16 DEF vars
<1> QED
  BY <1>1, <1>2, <1>3, <1>4, <1>5, <1>6, <1>7, <1>8,
     <1>9, <1>10, <1>11, <1>12, <1>13, <1>14, <1>15, <1>16
  DEF Next, Operator

\* The variables of the loop, from one step to the next.
LEMMA NextLoop == IInv /\ [Next]_vars => ValueTypes' /\ LoopInv'
<1> SUFFICES ASSUME IInv, [Next]_vars
             PROVE  ValueTypes' /\ LoopInv'
  OBVIOUS
<1> USE DEF IInv, TypeOK, FlagTypes, StatusTypes, ValueTypes, LoopInv, SpecInv,
            clusterVars, opVars, Fault, Return, Unchanged
<1>1. ASSUME NEW s \in Specs, UpdateSpec(s)
      PROVE  ValueTypes' /\ LoopInv'
  BY <1>1 DEF UpdateSpec
<1>2. CASE DeleteCluster
  BY <1>2 DEF DeleteCluster
<1>3. CASE CollectGarbage
  BY <1>3 DEF CollectGarbage
<1>4. CASE StartMaster
  <2>1. pod' # None => pod'.role \in {"waiting", "master", "shadow"}
    <3> HIDE DEF IInv
    <3> QED  BY <1>4 DEF StartMaster, Started, Waiting
  <2>2. UNCHANGED <<clusterVars, objects, metrics, opVars, faults>>
    <3> HIDE DEF IInv, clusterVars, opVars
    <3> QED  BY <1>4 DEF StartMaster
  <2> QED  BY <2>1, <2>2
<1>5. CASE MountGoals
  <2>1. pod' # None => pod'.role \in {"waiting", "master", "shadow"}
    <3> HIDE DEF IInv
    <3> QED  BY <1>5 DEF MountGoals, Started
  <2>2. UNCHANGED <<clusterVars, objects, metrics, opVars, faults>>
    <3> HIDE DEF IInv, clusterVars, opVars
    <3> QED  BY <1>5 DEF MountGoals
  <2> QED  BY <2>1, <2>2
<1>6. CASE StopMaster
  BY <1>6 DEF StopMaster
<1>7. CASE ElectMaster
  BY <1>7 DEF ElectMaster
<1>8. CASE ReadCluster
  BY <1>8 DEF ReadCluster
<1>9. CASE AddFinalizer
  BY <1>9 DEF AddFinalizer
<1>10. CASE RemoveFinalizer
  BY <1>10 DEF RemoveFinalizer
<1>11. CASE ValidateSpec
  BY <1>11 DEF ValidateSpec
<1>12. CASE MakeCall
  BY <1>12 DEF MakeCall, WriteObject, FailCall, SkipCall, EndWithError
<1>13. CASE EndSteps
  BY <1>13 DEF EndSteps
<1>14. CASE PatchStatus
  BY <1>14 DEF PatchStatus, NewStatus, Phase
<1>15. CASE Crash
  BY <1>15 DEF Crash
<1>16. CASE UNCHANGED vars
  BY <1>16 DEF vars
<1> QED
  BY <1>1, <1>2, <1>3, <1>4, <1>5, <1>6, <1>7, <1>8,
     <1>9, <1>10, <1>11, <1>12, <1>13, <1>14, <1>15, <1>16
  DEF Next, Operator

LEMMA NextIInv == IInv /\ [Next]_vars => IInv'
BY NextFlags, NextStatus, NextLoop DEF IInv, TypeOK

LEMMA AlwaysIInv == Spec => []IInv
BY InitIInv, NextIInv, PTL DEF Spec

-----------------------------------------------------------------------------
(* The variables of the reconcile loop keep their types; in particular calls are left
   only while the steps run, and no generation is observed before it is there. *)
THEOREM TypeCorrect == Spec => []TypeOK
<1>1. IInv => TypeOK
  BY DEF IInv
<1> QED  BY AlwaysIInv, <1>1, PTL

\* Only the steps create objects, and the finalizer holds the cluster meanwhile.
LEMMA StepsBuild ==
  ASSUME IInv, [Next]_vars,
         NEW o \in Objects, objects[o] = None, objects'[o] # None
  PROVE  exists
<1>1. CASE MakeCall
  BY <1>1 DEF MakeCall, IInv, LoopInv
<1>2. CASE ElectMaster
  <2>1. objects' = [objects EXCEPT ![Lease] = "held"] /\ objects[Lease] # None
    BY <1>2 DEF ElectMaster
  <2>2. DOMAIN objects = Objects
    BY DEF IInv, TypeOK, ValueTypes
  <2> QED  BY <2>1, <2>2
<1>3. CASE CollectGarbage
  BY <1>3 DEF CollectGarbage
<1>4. CASE UNCHANGED objects
  BY <1>4
<1>5. ~MakeCall /\ ~ElectMaster /\ ~CollectGarbage => UNCHANGED objects
  BY DEF Next, Operator, vars, UpdateSpec, DeleteCluster, StartMaster, MountGoals, StopMaster,
         ReadCluster, AddFinalizer, RemoveFinalizer, ValidateSpec, EndSteps, PatchStatus, Crash
<1> QED  BY <1>1, <1>2, <1>3, <1>4, <1>5

(* Nothing is created for a cluster that is gone: only the steps create objects, and
   the finalizer, which AddFinalizer sets before them, is removed by the same worker. *)
THEOREM NoPosthumousObjects == Spec => NothingBuiltForTheDead
<1> DEFINE A == \A o \in Objects : objects[o] = None /\ objects'[o] # None => exists
<1>1. IInv /\ [Next]_vars => [A]_vars
  BY StepsBuild
<1> QED  BY AlwaysIInv, <1>1, PTL DEF Spec, NothingBuiltForTheDead

(* What is forgotten is forgotten for good, which is the safety half of
   DeletionCompletes: once the cluster, its objects and its series are gone, neither a
   reconcile that is still under way nor a crash brings one of them back. *)
THEOREM ForgottenForGood == Spec => [](Forgotten => []Forgotten)
<1>1. IInv /\ Forgotten /\ [Next]_vars => Forgotten'
  <2> SUFFICES ASSUME IInv, Forgotten, [Next]_vars
               PROVE  Forgotten'
    OBVIOUS
  <2> USE DEF Forgotten
  <2>1. \A o \in Objects : objects'[o] = None
    BY StepsBuild
  <2>2. ~exists' /\ metrics' = None
    <3>1. ~MakeCall /\ \A s \in Specs : ~UpdateSpec(s)
      BY DEF MakeCall, UpdateSpec, IInv, LoopInv
    <3>2. CASE DeleteCluster
      BY <3>2 DEF DeleteCluster
    <3>7. CASE CollectGarbage \/ StartMaster \/ MountGoals \/ StopMaster \/ ElectMaster
               \/ ValidateSpec \/ EndSteps \/ UNCHANGED vars
      <4>1. UNCHANGED <<exists, metrics>>
        BY <3>7 DEF clusterVars, vars, CollectGarbage, StartMaster, MountGoals,
                    StopMaster, ElectMaster, ValidateSpec, EndSteps
      <4> QED  BY <4>1
    <3>3. CASE ReadCluster \/ Crash
      BY <3>3 DEF clusterVars, ReadCluster, Crash
    <3>4. CASE AddFinalizer
      BY <3>4 DEF AddFinalizer
    <3>5. CASE RemoveFinalizer
      BY <3>5 DEF RemoveFinalizer, Unchanged
    <3>6. CASE PatchStatus
      BY <3>6 DEF PatchStatus
    <3> QED  BY <3>1, <3>2, <3>3, <3>4, <3>5, <3>6, <3>7 DEF Next, Operator
  <2> QED  BY <2>1, <2>2
<1> QED  BY AlwaysIInv, <1>1, PTL DEF Spec

-----------------------------------------------------------------------------
(***************************************************************************)
(* The calls for a spec, as a set: which object gets which value.  A       *)
(* sequence is proper if it is one of its own elements.                    *)
(***************************************************************************)
Proper(a) == a \in Seq(ToSet(a))

LEMMA Joined ==
  ASSUME NEW a, NEW b, Proper(a), Proper(b)
  PROVE  Proper(a \o b) /\ ToSet(a \o b) = ToSet(a) \cup ToSet(b)
<1> DEFINE S == ToSet(a) \cup ToSet(b)
<1>1. a \in Seq(S) /\ b \in Seq(S)
  BY DEF Proper
<1>2. /\ Len(a \o b) = Len(a) + Len(b)
      /\ \A i \in 1 .. Len(a) : (a \o b)[i] = a[i]
      /\ \A i \in 1 .. Len(b) : (a \o b)[Len(a) + i] = b[i]
      /\ a \o b \in Seq(S)
      /\ Len(a) \in Nat /\ Len(b) \in Nat
      /\ DOMAIN a = 1 .. Len(a) /\ DOMAIN b = 1 .. Len(b)
      /\ DOMAIN (a \o b) = 1 .. Len(a \o b)
  BY <1>1
<1>3. ToSet(a \o b) = S
  <2>1. ASSUME NEW i \in DOMAIN (a \o b)
        PROVE  (a \o b)[i] \in S
    BY <1>2
  <2>2. ASSUME NEW i \in DOMAIN a
        PROVE  a[i] \in ToSet(a \o b)
    BY <1>2, i \in DOMAIN (a \o b) DEF ToSet
  <2>3. ASSUME NEW i \in DOMAIN b
        PROVE  b[i] \in ToSet(a \o b)
    BY <1>2, Len(a) + i \in DOMAIN (a \o b) DEF ToSet
  <2> QED  BY <2>1, <2>2, <2>3 DEF ToSet
<1> QED  BY <1>2, <1>3 DEF Proper

LEMMA OneCall ==
  ASSUME NEW o, NEW v
  PROVE  /\ Proper(Ensure(o, v)) /\ ToSet(Ensure(o, v)) = {Call(o, v)}
         /\ Proper(Absent(o)) /\ ToSet(Absent(o)) = {Call(o, None)}
BY DEF Proper, ToSet, Ensure, Absent, Call

LEMMA OneCallOrNone ==
  ASSUME NEW o, NEW v, NEW c
  PROVE  Proper(EnsureIf(c, o, v)) /\ ToSet(EnsureIf(c, o, v)) = {Call(o, IF c THEN v ELSE None)}
<1>1. CASE c
  BY <1>1, OneCall DEF EnsureIf
<1>2. CASE ~c
  BY <1>2, OneCall DEF EnsureIf
<1> QED  BY <1>1, <1>2

First(a, x) == a # <<>> /\ Head(a) = x

\* What comes first stays first, whatever follows.
LEMMA FirstJoined ==
  ASSUME NEW a, NEW b, NEW x, Proper(a), Proper(b), First(a, x)
  PROVE  First(a \o b, x)
<1> DEFINE S == ToSet(a) \cup ToSet(b)
<1>1. a \in Seq(S) /\ b \in Seq(S) /\ a # <<>>
  BY DEF Proper, First
<1>2. Len(a) \in Nat \ {0} /\ Len(b) \in Nat /\ Len(a \o b) = Len(a) + Len(b)
  BY <1>1
<1>3. a \o b # <<>> /\ Head(a \o b) = a[1] /\ Head(a) = a[1]
  BY <1>1, <1>2
<1> QED  BY <1>3 DEF First

LEMMA EmptyProper == Proper(<<>>) /\ ToSet(<<>>) = {}
BY DEF Proper, ToSet

\* The first element of a sequence is done, the others are left.
LEMMA HeadAndTail ==
  ASSUME NEW S, NEW a \in Seq(S), a # <<>>
  PROVE  /\ Head(a) \in ToSet(a)
         /\ Tail(a) \in Seq(S)
         /\ ToSet(a) = {Head(a)} \cup ToSet(Tail(a))
<1>1. /\ Len(a) \in Nat \ {0} /\ DOMAIN a = 1 .. Len(a)
      /\ Tail(a) \in Seq(S) /\ Len(Tail(a)) = Len(a) - 1
      /\ DOMAIN Tail(a) = 1 .. Len(a) - 1
      /\ \A i \in 1 .. Len(a) - 1 : Tail(a)[i] = a[i + 1]
      /\ Head(a) = a[1]
  OBVIOUS
<1>2. ASSUME NEW i \in DOMAIN a
      PROVE  a[i] \in {Head(a)} \cup ToSet(Tail(a))
  <2>1. CASE i = 1
    BY <1>1, <2>1
  <2>2. CASE i # 1
    BY <1>1, <2>2, i - 1 \in DOMAIN Tail(a) DEF ToSet
  <2> QED  BY <2>1, <2>2
<1>3. ASSUME NEW i \in DOMAIN Tail(a)
      PROVE  Tail(a)[i] \in ToSet(a)
  BY <1>1, i + 1 \in DOMAIN a DEF ToSet
<1>4. Head(a) \in ToSet(a)
  BY <1>1, 1 \in DOMAIN a DEF ToSet
<1>5. \A x \in ToSet(a) : x \in {Head(a)} \cup ToSet(Tail(a))
  BY <1>2 DEF ToSet
<1>6. \A x \in ToSet(Tail(a)) : x \in ToSet(a)
  BY <1>3 DEF ToSet
<1> QED  BY <1>1, <1>4, <1>5, <1>6
-----------------------------------------------------------------------------
On(s, f) == f \in s.features

ServerCalls(srv) == {Call(Chunk("Service", srv), "chunk"), Call(Chunk("ConfigMap", srv), "hdd"),
                     Call(Chunk("StatefulSet", srv), ChunkTemplate(srv))}

\* The calls of each step, then of all steps, without their order.
GoalsCall(s) == Call(Goals, IF s.goals # <<>> THEN GoalsConfig(s.goals) ELSE None)
GoalsWanted(s) == {GoalsCall(s)}
MigrationWanted == {Call(Legacy[1], None), Call(Legacy[2], None),
                    Call(Legacy[3], None), Call(Legacy[4], None)}
MasterWanted(s) == {Call(MasterHeadless, "allMasters"), Call(MasterSet, MasterSetValue(s))}
ServiceWanted(s) == {Call(MasterService, Route(s))}
RBACWanted(s) == IF HA(s) THEN {Call(ServiceAccount, "account"), Call(Role, 1 + s.shadow),
                                Call(RoleBinding, "binding")} ELSE {}
LeaseWanted(s) == {Call(Lease, IF HA(s) THEN "unheld" ELSE None)}
PDBWanted(s) == {Call(PDB, IF HA(s) THEN "minAvailable1" ELSE None)}
ChunkWanted(s) == UNION {ServerCalls(s.servers[i]) : i \in DOMAIN s.servers}
IfOn(s, f, v) == IF On(s, f) THEN v ELSE None
MetaloggerWanted(s) == {Call(MetaloggerService, IfOn(s, "metalogger", "on")),
                        Call(MetaloggerSet, IfOn(s, "metalogger", "on"))}
InterfaceWanted(s) == {Call(Interface, IfOn(s, "interface", "on")),
                       Call(InterfaceService, IfOn(s, "interface", "on"))}
ExposeWanted(s) == {Call(ExposeService, IfOn(s, "expose", ExposeValue(s)))}
NFSWanted(s) == {Call(NFSConfig, IfOn(s, "nfs", "on")), Call(NFSDeployment, IfOn(s, "nfs", "on")),
                 Call(NFSService, IfOn(s, "nfs", NFSValue(s)))}

Wanted(s) ==
  GoalsWanted(s) \cup MigrationWanted \cup MasterWanted(s) \cup ServiceWanted(s)
  \cup RBACWanted(s) \cup LeaseWanted(s) \cup PDBWanted(s) \cup ChunkWanted(s)
  \cup MetaloggerWanted(s) \cup InterfaceWanted(s) \cup ExposeWanted(s) \cup NFSWanted(s)

LEMMA ChunkCallsAre ==
  ASSUME NEW s \in Specs
  PROVE  /\ Proper(ChunkCalls(s))
         /\ ToSet(ChunkCalls(s)) = UNION {ServerCalls(s.servers[i]) : i \in DOMAIN s.servers}
<1> DEFINE n == Len(s.servers)
           L(k) == ChunkServerCalls(s.servers[1 + ((k - 1) \div 3)])[1 + ((k - 1) % 3)]
<1>1. n \in Nat /\ DOMAIN s.servers = 1 .. n
  BY ServersAssumption
<1>2. ASSUME NEW srv
      PROVE  ChunkServerCalls(srv) = <<Call(Chunk("Service", srv), "chunk"),
                                       Call(Chunk("ConfigMap", srv), "hdd"),
                                       Call(Chunk("StatefulSet", srv), ChunkTemplate(srv))>>
  BY DEF ChunkServerCalls, ChunkHeadlessService, ChunkHddConfigMap, ChunkStatefulSet
<1>3. ASSUME NEW k \in 1 .. 3 * n
      PROVE  \E i \in 1 .. n : L(k) \in ServerCalls(s.servers[i])
  <2> DEFINE i == 1 + ((k - 1) \div 3)
             j == 1 + ((k - 1) % 3)
  <2>1. i \in 1 .. n /\ j \in {1, 2, 3}
    BY <1>1
  <2> HIDE DEF i, j
  <2>2. ChunkServerCalls(s.servers[i])[j] \in ServerCalls(s.servers[i])
    BY <1>2, <2>1 DEF ServerCalls
  <2> QED  BY <2>1, <2>2 DEF i, j
<1>4. ASSUME NEW i \in 1 .. n, NEW c \in ServerCalls(s.servers[i])
      PROVE  \E k \in 1 .. 3 * n : L(k) = c
  <2>1. PICK j \in {1, 2, 3} : c = ChunkServerCalls(s.servers[i])[j]
    BY <1>2 DEF ServerCalls
  <2> DEFINE k == 3 * (i - 1) + j
  <2>2. k \in 1 .. 3 * n
    BY <1>1
  <2>3. 1 + ((k - 1) \div 3) = i /\ 1 + ((k - 1) % 3) = j
    <3>1. CASE j = 1
      BY <1>1, <3>1
    <3>2. CASE j = 2
      BY <1>1, <3>2
    <3>3. CASE j = 3
      BY <1>1, <3>3
    <3> QED  BY <3>1, <3>2, <3>3
  <2> QED  BY <2>1, <2>2, <2>3
<1>5. DOMAIN ChunkCalls(s) = 1 .. 3 * n /\ \A k \in 1 .. 3 * n : ChunkCalls(s)[k] = L(k)
  BY DEF ChunkCalls
<1>6. Proper(ChunkCalls(s))
  <2>1. 3 * n \in Nat
    BY <1>1
  <2>2. \A k \in 1 .. 3 * n : L(k) \in ToSet(ChunkCalls(s))
    BY <1>5 DEF ToSet
  <2>3. ChunkCalls(s) \in [1 .. 3 * n -> ToSet(ChunkCalls(s))]
    BY <2>2 DEF ChunkCalls
  <2> QED  BY <2>1, <2>3 DEF Proper
<1>7. ToSet(ChunkCalls(s)) = {L(k) : k \in 1 .. 3 * n}
  BY <1>5 DEF ToSet
<1> HIDE DEF L
<1>8. \A x \in ToSet(ChunkCalls(s)) : \E i \in DOMAIN s.servers : x \in ServerCalls(s.servers[i])
  BY <1>1, <1>3, <1>7
<1>9. \A i \in DOMAIN s.servers : \A x \in ServerCalls(s.servers[i]) : x \in ToSet(ChunkCalls(s))
  BY <1>1, <1>4, <1>7
<1> QED  BY <1>6, <1>8, <1>9

LEMMA CallsAre ==
  ASSUME NEW s \in Specs
  PROVE  Proper(Calls(s)) /\ ToSet(Calls(s)) = Wanted(s) /\ First(Calls(s), GoalsCall(s))
<1>1. Proper(GoalsCalls(s)) /\ ToSet(GoalsCalls(s)) = GoalsWanted(s)
  BY OneCallOrNone DEF GoalsCalls, GoalsWanted, GoalsCall
<1>20. First(GoalsCalls(s), GoalsCall(s))
  BY DEF First, GoalsCalls, GoalsCall, EnsureIf, Ensure, Absent
<1>2. Proper(MigrationCalls) /\ ToSet(MigrationCalls) = MigrationWanted
  <2>1. /\ Proper(Absent(Legacy[1]) \o Absent(Legacy[2]))
        /\ ToSet(Absent(Legacy[1]) \o Absent(Legacy[2])) = {Call(Legacy[1], None), Call(Legacy[2], None)}
    BY OneCall, Joined
  <2>2. /\ Proper(Absent(Legacy[1]) \o Absent(Legacy[2]) \o Absent(Legacy[3]))
        /\ ToSet(Absent(Legacy[1]) \o Absent(Legacy[2]) \o Absent(Legacy[3]))
             = {Call(Legacy[1], None), Call(Legacy[2], None), Call(Legacy[3], None)}
    BY <2>1, OneCall, Joined
  <2> QED  BY <2>2, OneCall, Joined DEF MigrationCalls, MigrationWanted
<1>3. Proper(MasterCalls(s)) /\ ToSet(MasterCalls(s)) = MasterWanted(s)
  BY OneCall, Joined DEF MasterCalls, MasterWanted
<1>4. Proper(ServiceCalls(s)) /\ ToSet(ServiceCalls(s)) = ServiceWanted(s)
  BY OneCall DEF ServiceCalls, ServiceWanted
<1>5. Proper(RBACCalls(s)) /\ ToSet(RBACCalls(s)) = RBACWanted(s)
  <2>1. CASE HA(s)
    BY <2>1, OneCall, Joined DEF RBACCalls, RBACWanted
  <2>2. CASE ~HA(s)
    BY <2>2, EmptyProper DEF RBACCalls, RBACWanted
  <2> QED  BY <2>1, <2>2
<1>6. Proper(LeaseCalls(s)) /\ ToSet(LeaseCalls(s)) = LeaseWanted(s)
  BY OneCallOrNone DEF LeaseCalls, LeaseWanted
<1>7. Proper(PDBCalls(s)) /\ ToSet(PDBCalls(s)) = PDBWanted(s)
  BY OneCallOrNone DEF PDBCalls, PDBWanted
<1>8. Proper(MetaloggerCalls(s)) /\ ToSet(MetaloggerCalls(s)) = MetaloggerWanted(s)
  <2>1. CASE On(s, "metalogger")
    <3>1. MetaloggerCalls(s) = Ensure(MetaloggerService, "on") \o Ensure(MetaloggerSet, "on")
      BY <2>1 DEF MetaloggerCalls, On
    <3> QED  BY <2>1, <3>1, OneCall, Joined DEF MetaloggerWanted, IfOn
  <2>2. CASE ~On(s, "metalogger")
    <3>1. MetaloggerCalls(s) = Absent(MetaloggerSet) \o Absent(MetaloggerService)
      BY <2>2 DEF MetaloggerCalls, On
    <3>2. /\ Proper(MetaloggerCalls(s))
          /\ ToSet(MetaloggerCalls(s)) = {Call(MetaloggerSet, None), Call(MetaloggerService, None)}
      BY <3>1, OneCall, Joined
    <3> QED  BY <2>2, <3>2 DEF MetaloggerWanted, IfOn
  <2> QED  BY <2>1, <2>2
<1>9. Proper(InterfaceCalls(s)) /\ ToSet(InterfaceCalls(s)) = InterfaceWanted(s)
  <2>1. InterfaceCalls(s) = EnsureIf(On(s, "interface"), Interface, "on")
                            \o EnsureIf(On(s, "interface"), InterfaceService, "on")
    BY DEF InterfaceCalls, On
  <2> QED  BY <2>1, OneCallOrNone, Joined DEF InterfaceWanted, IfOn
<1>10. Proper(ExposeCalls(s)) /\ ToSet(ExposeCalls(s)) = ExposeWanted(s)
  <2>1. ExposeCalls(s) = EnsureIf(On(s, "expose"), ExposeService, ExposeValue(s))
    BY DEF ExposeCalls, On
  <2> QED  BY <2>1, OneCallOrNone DEF ExposeWanted, IfOn
<1>11. Proper(NFSCalls(s)) /\ ToSet(NFSCalls(s)) = NFSWanted(s)
  <2>1. CASE On(s, "nfs")
    <3>1. NFSCalls(s) = Ensure(NFSConfig, "on") \o Ensure(NFSDeployment, "on")
                        \o Ensure(NFSService, NFSValue(s))
      BY <2>1 DEF NFSCalls, On
    <3>2. /\ Proper(NFSCalls(s))
          /\ ToSet(NFSCalls(s)) = {Call(NFSConfig, "on"), Call(NFSDeployment, "on"),
                                   Call(NFSService, NFSValue(s))}
      BY <3>1, OneCall, Joined
    <3> QED  BY <2>1, <3>2 DEF NFSWanted, IfOn
  <2>2. CASE ~On(s, "nfs")
    <3>1. /\ Proper(NFSCalls(s))
          /\ ToSet(NFSCalls(s)) = {Call(NFSConfig, None), Call(NFSDeployment, None), Call(NFSService, None)}
      BY <2>2, OneCall, Joined DEF NFSCalls, On
    <3> QED  BY <2>2, <3>1 DEF NFSWanted, IfOn
  <2> QED  BY <2>1, <2>2
<1>12. Proper(ChunkCalls(s)) /\ ToSet(ChunkCalls(s)) = ChunkWanted(s)
  BY ChunkCallsAre DEF ChunkWanted
<1> DEFINE c1 == GoalsCalls(s) \o MigrationCalls
           c2 == c1 \o MasterCalls(s)
           c3 == c2 \o ServiceCalls(s)
           c4 == c3 \o RBACCalls(s)
           c5 == c4 \o LeaseCalls(s)
           c6 == c5 \o PDBCalls(s)
           c7 == c6 \o ChunkCalls(s)
           c8 == c7 \o MetaloggerCalls(s)
           c9 == c8 \o InterfaceCalls(s)
           c10 == c9 \o ExposeCalls(s)
           c11 == c10 \o NFSCalls(s)
<1>13. Calls(s) = c11
  BY DEF Calls
<1>21. Proper(c1) /\ ToSet(c1) = ToSet(GoalsCalls(s)) \cup ToSet(MigrationCalls)
         /\ First(c1, GoalsCall(s))
  BY <1>1, <1>2, <1>20, Joined, FirstJoined
<1> HIDE DEF c1
<1>22. Proper(c2) /\ ToSet(c2) = ToSet(c1) \cup ToSet(MasterCalls(s))
         /\ First(c2, GoalsCall(s))
  BY <1>21, <1>3, Joined, FirstJoined
<1> HIDE DEF c2
<1>23. Proper(c3) /\ ToSet(c3) = ToSet(c2) \cup ToSet(ServiceCalls(s))
         /\ First(c3, GoalsCall(s))
  BY <1>22, <1>4, Joined, FirstJoined
<1> HIDE DEF c3
<1>24. Proper(c4) /\ ToSet(c4) = ToSet(c3) \cup ToSet(RBACCalls(s))
         /\ First(c4, GoalsCall(s))
  BY <1>23, <1>5, Joined, FirstJoined
<1> HIDE DEF c4
<1>25. Proper(c5) /\ ToSet(c5) = ToSet(c4) \cup ToSet(LeaseCalls(s))
         /\ First(c5, GoalsCall(s))
  BY <1>24, <1>6, Joined, FirstJoined
<1> HIDE DEF c5
<1>26. Proper(c6) /\ ToSet(c6) = ToSet(c5) \cup ToSet(PDBCalls(s))
         /\ First(c6, GoalsCall(s))
  BY <1>25, <1>7, Joined, FirstJoined
<1> HIDE DEF c6
<1>27. Proper(c7) /\ ToSet(c7) = ToSet(c6) \cup ToSet(ChunkCalls(s))
         /\ First(c7, GoalsCall(s))
  BY <1>26, <1>12, Joined, FirstJoined
<1> HIDE DEF c7
<1>28. Proper(c8) /\ ToSet(c8) = ToSet(c7) \cup ToSet(MetaloggerCalls(s))
         /\ First(c8, GoalsCall(s))
  BY <1>27, <1>8, Joined, FirstJoined
<1> HIDE DEF c8
<1>29. Proper(c9) /\ ToSet(c9) = ToSet(c8) \cup ToSet(InterfaceCalls(s))
         /\ First(c9, GoalsCall(s))
  BY <1>28, <1>9, Joined, FirstJoined
<1> HIDE DEF c9
<1>30. Proper(c10) /\ ToSet(c10) = ToSet(c9) \cup ToSet(ExposeCalls(s))
         /\ First(c10, GoalsCall(s))
  BY <1>29, <1>10, Joined, FirstJoined
<1> HIDE DEF c10
<1>31. Proper(c11) /\ ToSet(c11) = ToSet(c10) \cup ToSet(NFSCalls(s))
         /\ First(c11, GoalsCall(s))
  BY <1>30, <1>11, Joined, FirstJoined
<1>32. ToSet(Calls(s)) =
         ToSet(GoalsCalls(s)) \cup ToSet(MigrationCalls) \cup ToSet(MasterCalls(s))
         \cup ToSet(ServiceCalls(s)) \cup ToSet(RBACCalls(s)) \cup ToSet(LeaseCalls(s))
         \cup ToSet(PDBCalls(s)) \cup ToSet(ChunkCalls(s)) \cup ToSet(MetaloggerCalls(s))
         \cup ToSet(InterfaceCalls(s)) \cup ToSet(ExposeCalls(s)) \cup ToSet(NFSCalls(s))
  BY <1>13, <1>21, <1>22, <1>23, <1>24, <1>25, <1>26, <1>27, <1>28, <1>29, <1>30, <1>31
<1>33. ToSet(Calls(s)) = Wanted(s)
  BY <1>32, <1>1, <1>2, <1>3, <1>4, <1>5, <1>6, <1>7, <1>8, <1>9, <1>10, <1>11, <1>12 DEF Wanted
<1> QED  BY <1>13, <1>31, <1>33
-----------------------------------------------------------------------------
(***************************************************************************)
(* The calls for one spec agree: no two want different values of one       *)
(* object.  Among the chunk servers this is the webhook's rule on names.   *)
(***************************************************************************)
FixedWanted(s) ==
  GoalsWanted(s) \cup MigrationWanted \cup MasterWanted(s) \cup ServiceWanted(s)
  \cup RBACWanted(s) \cup LeaseWanted(s) \cup PDBWanted(s)
  \cup MetaloggerWanted(s) \cup InterfaceWanted(s) \cup ExposeWanted(s) \cup NFSWanted(s)

\* Everything but the chunk servers' objects, by kind and name.
FixedValue(s, kind, name) ==
  CASE kind = "ConfigMap" /\ name = "goals" -> IF s.goals # <<>> THEN GoalsConfig(s.goals) ELSE None
    [] kind = "ConfigMap" /\ name = "nfs" -> IfOn(s, "nfs", "on")
    [] kind = "DaemonSet" -> None
    [] kind = "Deployment" /\ name = "master" -> None
    [] kind = "Deployment" /\ name = "interface" -> IfOn(s, "interface", "on")
    [] kind = "Deployment" /\ name = "nfs" -> IfOn(s, "nfs", "on")
    [] kind = "StatefulSet" /\ name = "shadow" -> None
    [] kind = "StatefulSet" /\ name = "master" -> MasterSetValue(s)
    [] kind = "StatefulSet" /\ name = "metalogger" -> IfOn(s, "metalogger", "on")
    [] kind = "Service" /\ name = "shadow" -> None
    [] kind = "Service" /\ name = "master-hl" -> "allMasters"
    [] kind = "Service" /\ name = "master" -> Route(s)
    [] kind = "Service" /\ name = "metalogger" -> IfOn(s, "metalogger", "on")
    [] kind = "Service" /\ name = "interface" -> IfOn(s, "interface", "on")
    [] kind = "Service" /\ name = "client-expose" -> IfOn(s, "expose", ExposeValue(s))
    [] kind = "Service" /\ name = "nfs" -> IfOn(s, "nfs", NFSValue(s))
    [] kind = "ServiceAccount" -> "account"
    [] kind = "Role" -> 1 + s.shadow
    [] kind = "RoleBinding" -> "binding"
    [] kind = "Lease" -> IF HA(s) THEN "unheld" ELSE None
    [] kind = "PodDisruptionBudget" -> IF HA(s) THEN "minAvailable1" ELSE None

LEMMA FixedCalls ==
  ASSUME NEW s, NEW c \in FixedWanted(s)
  PROVE  c.obj[2] # "chunk" /\ c.val = FixedValue(s, c.obj[1], c.obj[2])
<1> USE DEF Call
<1>1. CASE c \in GoalsWanted(s)
  BY <1>1 DEF GoalsWanted, GoalsCall, FixedValue, Goals
<1>2. CASE c \in MigrationWanted
  BY <1>2 DEF MigrationWanted, FixedValue, Legacy
<1>3. CASE c \in MasterWanted(s)
  BY <1>3 DEF MasterWanted, FixedValue, MasterHeadless, MasterSet
<1>4. CASE c \in ServiceWanted(s)
  BY <1>4 DEF ServiceWanted, FixedValue, MasterService
<1>5. CASE c \in RBACWanted(s)
  BY <1>5 DEF RBACWanted, FixedValue, ServiceAccount, Role, RoleBinding
<1>6. CASE c \in LeaseWanted(s)
  BY <1>6 DEF LeaseWanted, FixedValue, Lease
<1>7. CASE c \in PDBWanted(s)
  BY <1>7 DEF PDBWanted, FixedValue, PDB
<1>8. CASE c \in MetaloggerWanted(s)
  BY <1>8 DEF MetaloggerWanted, FixedValue, MetaloggerService, MetaloggerSet
<1>9. CASE c \in InterfaceWanted(s)
  BY <1>9 DEF InterfaceWanted, FixedValue, Interface, InterfaceService
<1>10. CASE c \in ExposeWanted(s)
  BY <1>10 DEF ExposeWanted, FixedValue, ExposeService
<1>11. CASE c \in NFSWanted(s)
  BY <1>11 DEF NFSWanted, FixedValue, NFSConfig, NFSDeployment, NFSService
<1> QED
  BY <1>1, <1>2, <1>3, <1>4, <1>5, <1>6, <1>7, <1>8, <1>9, <1>10, <1>11 DEF FixedWanted

LEMMA ChunkServerObjects ==
  ASSUME NEW srv, NEW c \in ServerCalls(srv)
  PROVE  /\ c.obj[2] = "chunk" /\ c.obj[3] = srv.name
         /\ c.val = CASE c.obj[1] = "Service" -> "chunk"
                      [] c.obj[1] = "ConfigMap" -> "hdd"
                      [] c.obj[1] = "StatefulSet" -> ChunkTemplate(srv)
BY DEF ServerCalls, Call, Chunk

LEMMA CallsAgree ==
  ASSUME NEW s \in Specs, Admitted(s),
         NEW c \in ToSet(Calls(s)), NEW d \in ToSet(Calls(s)), c.obj = d.obj
  PROVE  c.val = d.val
<1>1. /\ c \in FixedWanted(s) \cup ChunkWanted(s)
      /\ d \in FixedWanted(s) \cup ChunkWanted(s)
  BY CallsAre DEF Wanted, FixedWanted
<1>2. ASSUME NEW x \in ChunkWanted(s)
      PROVE  \E i \in DOMAIN s.servers : x \in ServerCalls(s.servers[i])
  BY DEF ChunkWanted
<1>3. CASE c \in FixedWanted(s)
  <2>1. d \notin ChunkWanted(s)
    BY <1>2, <1>3, FixedCalls, ChunkServerObjects
  <2> QED  BY <1>1, <1>3, <2>1, FixedCalls
<1>4. CASE c \in ChunkWanted(s)
  <2>1. PICK i \in DOMAIN s.servers : c \in ServerCalls(s.servers[i])
    BY <1>2, <1>4
  <2>2. d \notin FixedWanted(s)
    BY <2>1, FixedCalls, ChunkServerObjects
  <2>3. PICK j \in DOMAIN s.servers : d \in ServerCalls(s.servers[j])
    BY <1>1, <1>2, <2>2
  <2>4. s.servers[i].name = s.servers[j].name
    BY <2>1, <2>3, ChunkServerObjects
  <2>5. i = j
    BY <2>4 DEF Admitted, NamesOK
  <2> QED  BY <2>1, <2>3, <2>5, ChunkServerObjects
<1> QED  BY <1>1, <1>3, <1>4

LEMMA CallsOnObjects ==
  ASSUME NEW s \in Specs, NEW c \in ToSet(Calls(s))
  PROVE  c.obj \in Objects
BY DEF Objects
-----------------------------------------------------------------------------
(***************************************************************************)
(* What a call has achieved stays achieved while its spec is worked on.    *)
(***************************************************************************)

(* The Lease only has to be there, and the deletion of the Lease or of a legacy object
   may have failed without ending the steps. *)
Holds(c) ==
  /\ c.obj = Lease /\ c.val # None => objects[Lease] # None
  /\ c.obj \notin {Lease} \cup ToSet(Legacy) => objects[c.obj] = c.val

AllHold(s) == \A c \in ToSet(Calls(s)) : Holds(c)

ProgressInv ==
  /\ Admitted(snap)
  /\ status.observed <= snapGen
  /\ pc = "steps" =>
       /\ todo \in Seq(ToSet(Calls(snap)))
       /\ \A c \in ToSet(Calls(snap)) : c \in ToSet(todo) \/ Holds(c)
  /\ pc = "status" /\ failed = "no" /\ exists => AllHold(snap)
  /\ exists /\ Ready => AllHold(spec)

\* A call makes itself hold and undoes no other of the same spec.
LEMMA CallHolds ==
  ASSUME IInv, NEW s \in Specs, Admitted(s), NEW c \in ToSet(Calls(s)),
         WriteObject(c)
  PROVE  Holds(c)' /\ \A d \in ToSet(Calls(s)) : Holds(d) => Holds(d)'
<1>1. c.obj \in DOMAIN objects
  BY CallsOnObjects DEF IInv, TypeOK, ValueTypes
<1>2. /\ objects'[c.obj] = Result(c)
      /\ \A o \in DOMAIN objects : o # c.obj => objects'[o] = objects[o]
  BY <1>1 DEF WriteObject
<1>3. Holds(c)'
  BY <1>2 DEF Holds, Result
<1>4. ASSUME NEW d \in ToSet(Calls(s)), Holds(d)
      PROVE  Holds(d)'
  <2>1. CASE d.obj = c.obj
    <3>1. d.val = c.val
      BY <2>1, CallsAgree
    <3> QED  BY <1>3, <2>1, <3>1 DEF Holds
  <2>2. CASE d.obj # c.obj
    <3>1. objects'[d.obj] = objects[d.obj]
      BY <1>2, <2>2, CallsOnObjects DEF IInv, TypeOK, ValueTypes
    <3> QED  BY <1>4, <3>1 DEF Holds
  <2> QED  BY <2>1, <2>2
<1> QED  BY <1>3, <1>4

\* The election changes nothing that a call is about.
LEMMA ElectionHolds ==
  ASSUME IInv, ElectMaster, NEW c, Holds(c)
  PROVE  Holds(c)'
<1>1. objects' = [objects EXCEPT ![Lease] = "held"] /\ objects[Lease] # None
  BY DEF ElectMaster
<1>2. CASE c.obj = Lease
  <2>1. objects'[Lease] # None
    BY <1>1
  <2> QED  BY <1>2, <2>1 DEF Holds
<1>3. CASE c.obj # Lease
  <2>1. objects'[c.obj] = objects[c.obj]
    BY <1>1, <1>3
  <2> QED  BY <1>3, <2>1 DEF Holds
<1> QED  BY <1>2, <1>3

LEMMA InitProgress == Init => ProgressInv
BY DEF Init, ProgressInv, Unknown, Ready

LEMMA NextProgress == IInv /\ ProgressInv /\ [Next]_vars => ProgressInv'
<1> SUFFICES ASSUME IInv, ProgressInv, [Next]_vars
             PROVE  ProgressInv'
  OBVIOUS
<1> USE DEF ProgressInv
<1>0. /\ status.observed \in Nat /\ gen \in Nat /\ snapGen \in Nat
      /\ snapGen <= gen /\ spec \in Specs /\ snap \in Specs
      /\ snapGen = gen => snap = spec
      /\ Ready => snapGen = gen
  BY DEF IInv, TypeOK, StatusTypes, ValueTypes, LoopInv, Ready
<1>1. ASSUME NEW s \in Specs, UpdateSpec(s)
      PROVE  ProgressInv'
  BY <1>0, <1>1 DEF UpdateSpec, opVars, AllHold, Holds, Ready
<1>2. CASE DeleteCluster
  BY <1>2 DEF DeleteCluster, opVars, AllHold, Holds, Ready
<1>3. CASE CollectGarbage
  BY <1>3 DEF CollectGarbage, clusterVars, opVars, IInv, LoopInv
<1>4. CASE ElectMaster
  BY <1>4, ElectionHolds DEF ElectMaster, clusterVars, opVars, AllHold, Ready
<1>5. CASE StartMaster \/ MountGoals \/ StopMaster \/ UNCHANGED vars
  <2>1. UNCHANGED <<clusterVars, objects, opVars>>
    BY <1>5 DEF StartMaster, MountGoals, StopMaster, vars, clusterVars, opVars
  <2> QED  BY <2>1 DEF clusterVars, opVars, AllHold, Holds, Ready
<1>6. CASE ReadCluster
  BY <1>0, <1>6 DEF ReadCluster, clusterVars, AllHold, Holds, Ready, IInv, SpecInv
<1>7. CASE AddFinalizer
  BY <1>7 DEF AddFinalizer, Return, Fault, AllHold, Holds, Ready
<1>8. CASE RemoveFinalizer
  BY <1>8 DEF RemoveFinalizer, Return, Fault, AllHold, Holds, Ready
<1>9. CASE ValidateSpec
  <2>1. UNCHANGED <<clusterVars, objects, snap, snapGen>>
    BY <1>9 DEF ValidateSpec
  <2>2. pc' = "steps" => todo' = Calls(snap)
    BY <1>9 DEF ValidateSpec
  <2>3. Calls(snap) \in Seq(ToSet(Calls(snap)))
    BY <1>0, CallsAre DEF Proper
  <2>4. pc' = "status" => failed' # "no"
    BY <1>9 DEF ValidateSpec
  <2> QED  BY <2>1, <2>2, <2>3, <2>4 DEF clusterVars, AllHold, Holds, Ready
<1>10. CASE MakeCall
  <2> PICK c : c = Head(todo)
    OBVIOUS
  <2>1. pc = "steps" /\ todo # <<>> /\ UNCHANGED <<clusterVars, snap, snapGen>>
    BY <1>10 DEF MakeCall
  <2>2. /\ c \in ToSet(todo) /\ Tail(todo) \in Seq(ToSet(Calls(snap)))
        /\ ToSet(todo) = {c} \cup ToSet(Tail(todo))
    BY <2>1, HeadAndTail
  <2>3. c \in ToSet(Calls(snap))
    BY <2>1
  <2>4. /\ WriteObject(c) \/ UNCHANGED objects
        /\ \/ EndWithError
           \/ pc' = "steps" /\ todo' = Tail(todo) /\ (WriteObject(c) \/ Holds(c))
    <3>1. Lease \notin ToSet(Legacy)
      BY DEF Lease, Legacy, ToSet
    <3> QED  BY <1>10, <2>1, <3>1 DEF MakeCall, FailCall, SkipCall, Holds
  <2>5. \A d \in ToSet(Calls(snap)) : Holds(d) => Holds(d)'
    BY <1>0, <2>3, <2>4, CallHolds DEF Holds
  <2>6. WriteObject(c) \/ Holds(c) => Holds(c)'
    BY <1>0, <2>3, <2>5, CallHolds
  <2>7. pc' = "steps" => /\ todo' \in Seq(ToSet(Calls(snap)))
                         /\ \A d \in ToSet(Calls(snap)) : d \in ToSet(todo') \/ Holds(d)'
    BY <2>1, <2>2, <2>4, <2>5, <2>6 DEF EndWithError
  <2>8. ~(pc' = "status" /\ failed' = "no")
    BY <2>4 DEF EndWithError
  <2>9. exists /\ Ready => \A d \in ToSet(Calls(spec)) : Holds(d)'
    BY <1>0, <2>5 DEF AllHold
  <2> QED  BY <2>1, <2>7, <2>8, <2>9 DEF clusterVars, AllHold, Ready
<1>11. CASE EndSteps
  <2>1. ToSet(todo) = {}
    BY <1>11, EmptyProper DEF EndSteps
  <2> QED  BY <1>11, <2>1 DEF EndSteps, clusterVars, AllHold, Holds, Ready
<1>12. CASE PatchStatus
  <2>1. UNCHANGED <<exists, spec, gen, objects, snap, snapGen>> /\ pc' = "idle"
    BY <1>12 DEF PatchStatus, Return
  <2>2. pc = "status" /\ (UNCHANGED status \/ status' = NewStatus)
    BY <1>12 DEF PatchStatus
  <2>3. CASE UNCHANGED status
    BY <2>1, <2>3 DEF AllHold, Holds, Ready
  <2>4. CASE status' = NewStatus
    BY <1>0, <2>1, <2>2, <2>4 DEF NewStatus, AllHold, Holds, Ready
  <2> QED  BY <2>2, <2>3, <2>4
<1>13. CASE Crash
  BY <1>13 DEF Crash, clusterVars, AllHold, Holds, Ready
<1> QED
  BY <1>1, <1>2, <1>3, <1>4, <1>5, <1>6, <1>7, <1>8,
     <1>9, <1>10, <1>11, <1>12, <1>13
  DEF Next, Operator
LEMMA AlwaysProgress == Spec => [](IInv /\ ProgressInv)
<1>1. IInv /\ ProgressInv /\ [Next]_vars => (IInv /\ ProgressInv)'
  BY NextIInv, NextProgress
<1> QED  BY InitIInv, InitProgress, <1>1, PTL DEF Spec

LEMMA HoldsAll ==
  ASSUME NEW s \in Specs, AllHold(s)
  PROVE  Reconciled(s)
<1>1. \A c \in Wanted(s) : Holds(c)
  BY CallsAre DEF AllHold
<1>2. ASSUME NEW o, NEW v, Call(o, v) \in Wanted(s), o # Lease, o \notin ToSet(Legacy)
      PROVE  objects[o] = v
  BY <1>1, <1>2 DEF Holds, Call
<1>3. /\ objects[Goals] = IF s.goals = <<>> THEN None ELSE GoalsConfig(s.goals)
  <2>1. Goals # Lease /\ Goals \notin ToSet(Legacy)
    BY DEF Goals, Lease, Legacy, ToSet
  <2> QED  BY <1>2, <2>1 DEF Wanted, GoalsWanted, GoalsCall
<1>4. objects[MasterSet] = MasterSetValue(s) /\ objects[MasterHeadless] = "allMasters"
  <2>1. \A o \in {MasterSet, MasterHeadless} : o # Lease /\ o \notin ToSet(Legacy)
    BY DEF MasterSet, MasterHeadless, Lease, Legacy, ToSet
  <2> QED  BY <1>2, <2>1 DEF Wanted, MasterWanted
<1>5. objects[MasterService] = Route(s)
  <2>1. MasterService # Lease /\ MasterService \notin ToSet(Legacy)
    BY DEF MasterService, Lease, Legacy, ToSet
  <2> QED  BY <1>2, <2>1 DEF Wanted, ServiceWanted
<1>6. HA(s) => /\ objects[ServiceAccount] = "account" /\ objects[RoleBinding] = "binding"
               /\ objects[Role] = 1 + s.shadow
  <2>1. \A o \in {ServiceAccount, RoleBinding, Role} : o # Lease /\ o \notin ToSet(Legacy)
    BY DEF ServiceAccount, RoleBinding, Role, Lease, Legacy, ToSet
  <2> QED  BY <1>2, <2>1 DEF Wanted, RBACWanted
<1>7. HA(s) => objects[Lease] # None
  <2>1. HA(s) => Call(Lease, "unheld") \in Wanted(s)
    BY DEF Wanted, LeaseWanted
  <2>2. HA(s) => Holds(Call(Lease, "unheld"))
    BY <1>1, <2>1
  <2>3. Call(Lease, "unheld").obj = Lease /\ Call(Lease, "unheld").val # None
    BY DEF Call
  <2> QED  BY <2>2, <2>3 DEF Holds
<1>8. objects[PDB] = IF HA(s) THEN "minAvailable1" ELSE None
  <2>1. PDB # Lease /\ PDB \notin ToSet(Legacy)
    BY DEF PDB, Lease, Legacy, ToSet
  <2> QED  BY <1>2, <2>1 DEF Wanted, PDBWanted
<1>9. ASSUME NEW i \in DOMAIN s.servers
      PROVE  /\ objects[Chunk("Service", s.servers[i])] = "chunk"
             /\ objects[Chunk("ConfigMap", s.servers[i])] = "hdd"
             /\ objects[Chunk("StatefulSet", s.servers[i])] = ChunkTemplate(s.servers[i])
  <2>1. \A kind : Chunk(kind, s.servers[i]) # Lease /\ Chunk(kind, s.servers[i]) \notin ToSet(Legacy)
    BY DEF Chunk, Lease, Legacy, ToSet
  <2>2. ServerCalls(s.servers[i]) \subseteq Wanted(s)
    BY DEF Wanted, ChunkWanted
  <2> QED  BY <1>2, <2>1, <2>2 DEF ServerCalls
<1>10. /\ \A o \in {MetaloggerService, MetaloggerSet} : objects[o] = IfOn(s, "metalogger", "on")
       /\ \A o \in {Interface, InterfaceService} : objects[o] = IfOn(s, "interface", "on")
  <2>1. \A o \in {MetaloggerService, MetaloggerSet, Interface, InterfaceService} :
          o # Lease /\ o \notin ToSet(Legacy)
    BY DEF MetaloggerService, MetaloggerSet, Interface, InterfaceService, Lease, Legacy, ToSet
  <2>2. MetaloggerWanted(s) \cup InterfaceWanted(s) \subseteq Wanted(s)
    BY DEF Wanted
  <2> QED  BY <1>2, <2>1, <2>2 DEF MetaloggerWanted, InterfaceWanted
<1>11. /\ objects[ExposeService] = IfOn(s, "expose", ExposeValue(s))
       /\ \A o \in {NFSConfig, NFSDeployment} : objects[o] = IfOn(s, "nfs", "on")
       /\ objects[NFSService] = IfOn(s, "nfs", NFSValue(s))
  <2>1. \A o \in {ExposeService, NFSConfig, NFSDeployment, NFSService} :
          o # Lease /\ o \notin ToSet(Legacy)
    BY DEF ExposeService, NFSConfig, NFSDeployment, NFSService, Lease, Legacy, ToSet
  <2>2. ExposeWanted(s) \cup NFSWanted(s) \subseteq Wanted(s)
    BY DEF Wanted
  <2> QED  BY <1>2, <2>1, <2>2 DEF ExposeWanted, NFSWanted
<1> QED
  BY <1>3, <1>4, <1>5, <1>6, <1>7, <1>8, <1>9, <1>10, <1>11 DEF Reconciled, IfOn, On

(* Ready keeps its promise: whatever the users changed while the operator worked,
   whichever calls failed and wherever it crashed, the objects of a cluster that is
   Ready at its current generation are those of its spec.  The steps left are those
   that do not hold yet, and no later call of a spec undoes an earlier one. *)
THEOREM ReadyIsReconciled == Spec => []ReadyMeansReconciled
<1>1. IInv /\ ProgressInv => ReadyMeansReconciled
  BY HoldsAll DEF ReadyMeansReconciled, Live, ProgressInv, IInv, TypeOK, ValueTypes
<1> QED  BY AlwaysProgress, <1>1, PTL

(* The chunk servers of a cluster that is Ready mount no claim twice and, with the same
   nodeName, no directory twice: the pod templates in the API server are those of a
   spec the webhook has admitted, for any number of servers. *)
THEOREM ReadySharesNoStorage == Spec => []StorageIsExclusive
<1>1. IInv /\ ReadyMeansReconciled => StorageIsExclusive
  <2> SUFFICES ASSUME IInv, ReadyMeansReconciled, Live, Ready,
                      NEW a \in ChunkSets(spec), NEW b \in ChunkSets(spec), a # b
               PROVE  ~Share(objects[a], objects[b], SameNode(objects[a], objects[b]))
    BY DEF StorageIsExclusive
  <2>1. PICK i \in DOMAIN spec.servers : a = Chunk("StatefulSet", spec.servers[i])
    BY DEF ChunkSets
  <2>2. PICK j \in DOMAIN spec.servers : b = Chunk("StatefulSet", spec.servers[j])
    BY DEF ChunkSets
  <2>3. i # j
    BY <2>1, <2>2
  <2>4. Admitted(spec)
    BY DEF IInv, SpecInv
  <2>5. /\ objects[a] = ChunkTemplate(spec.servers[i])
        /\ objects[b] = ChunkTemplate(spec.servers[j])
    BY <2>1, <2>2 DEF ReadyMeansReconciled, Reconciled
  <2> QED  BY <2>3, <2>4, <2>5, VolumesAreExclusive
<1> QED  BY AlwaysIInv, ReadyIsReconciled, <1>1, PTL

-----------------------------------------------------------------------------
(***************************************************************************)
(* What has settled                                                        *)
(***************************************************************************)

\* The Services that are in the API server are such as it accepts, side by side.
PortsInv == \A o \in NodePortServices : objects[o] # None => Acceptable(Call(o, objects[o]))

LEMMA PortServicesAreObjects == NodePortServices \subseteq Objects
<1>1. ExposeWanted(FirstSpec) \cup NFSWanted(FirstSpec) \subseteq ToSet(Calls(FirstSpec))
  BY CallsAre DEF Wanted
<1>2. \E c \in ToSet(Calls(FirstSpec)) : c.obj = ExposeService
  BY <1>1 DEF ExposeWanted, Call
<1>3. \E c \in ToSet(Calls(FirstSpec)) : c.obj = NFSService
  BY <1>1 DEF NFSWanted, Call
<1> QED  BY <1>2, <1>3, CallsOnObjects DEF NodePortServices

LEMMA NoPortServiceIsOther ==
  \A o \in NodePortServices : o # Lease /\ o \notin ToSet(Legacy)
BY DEF NodePortServices, ExposeService, NFSService, Lease, Legacy, ToSet

LEMMA AlwaysPorts == Spec => []PortsInv
<1>1. Init => PortsInv
  BY PortServicesAreObjects, NoPortServiceIsOther DEF Init, PortsInv
<1>2. IInv /\ PortsInv /\ [Next]_vars => PortsInv'
  <2> SUFFICES ASSUME IInv, PortsInv, [Next]_vars
               PROVE  PortsInv'
    OBVIOUS
  <2>0. DOMAIN objects = Objects
    BY DEF IInv, TypeOK, ValueTypes
  <2>1. CASE UNCHANGED objects
    BY <2>1 DEF PortsInv, Acceptable
  <2>2. CASE CollectGarbage
    BY <2>2, PortServicesAreObjects DEF CollectGarbage, PortsInv
  <2>3. CASE ElectMaster
    <3>1. \A o \in NodePortServices : objects'[o] = objects[o]
      BY <2>3, NoPortServiceIsOther DEF ElectMaster
    <3> QED  BY <3>1 DEF PortsInv, Acceptable
  <2>4. ASSUME NEW c, WriteObject(c), Acceptable(c)
        PROVE  PortsInv'
    <3>1. \A o \in NodePortServices : o # c.obj => objects'[o] = objects[o]
      BY <2>4 DEF WriteObject
    <3>2. CASE c.obj \notin NodePortServices
      <4>1. \A o \in NodePortServices : objects'[o] = objects[o]
        BY <3>1, <3>2
      <4> QED  BY <4>1 DEF PortsInv, Acceptable
    <3>3. CASE c.obj \in NodePortServices
      <4>1. objects'[c.obj] = c.val
        BY <2>0, <2>4, <3>3, PortServicesAreObjects, NoPortServiceIsOther DEF WriteObject, Result
      <4>2. ASSUME NEW o \in NodePortServices, objects'[o] # None
            PROVE  Acceptable(Call(o, objects[o]))'
        <5>1. CASE o = c.obj
          BY <2>4, <3>1, <3>3, <4>1, <4>2, <5>1 DEF Acceptable, Call
        <5>2. CASE o # c.obj
          <6>1. objects'[o] = objects[o] /\ Acceptable(Call(o, objects[o]))
            BY <3>1, <4>2, <5>2 DEF PortsInv
          <6>2. c.val # None => NodePorts(c.val) \cap NodePorts(objects[o]) = {}
            BY <2>4, <3>3, <4>2, <5>2, <6>1 DEF Acceptable
          <6>3. \A u \in NodePortServices \ {o} : u # c.obj => objects'[u] = objects[u]
            BY <3>1
          <6> QED  BY <4>1, <6>1, <6>2, <6>3 DEF Acceptable, Call
        <5> QED  BY <5>1, <5>2
      <4> QED  BY <4>2 DEF PortsInv
    <3> QED  BY <3>2, <3>3
  <2>5. CASE MakeCall
    BY <2>1, <2>4, <2>5 DEF MakeCall
  <2>6. CASE UNCHANGED vars
    BY <2>1, <2>6 DEF vars
  <2> QED
    BY <2>1, <2>2, <2>3, <2>5, <2>6
       DEF Next, Operator, clusterVars, opVars, UpdateSpec, DeleteCluster, StartMaster,
           MountGoals, StopMaster, ReadCluster, AddFinalizer, RemoveFinalizer, ValidateSpec,
           EndSteps, PatchStatus, Crash
<1> QED  BY AlwaysIInv, <1>1, <1>2, PTL DEF Spec

\* What a reconciled cluster asks for is what the API server has already accepted.
LEMMA ReconciledIsAccepted ==
  ASSUME PortsInv, NEW s \in Specs, Admitted(s), Reconciled(s), NEW c \in ToSet(Calls(s))
  PROVE  Acceptable(c)
<1>1. SUFFICES ASSUME c.val # None, c.obj \in NodePortServices
               PROVE  Acceptable(c)
  BY DEF Acceptable
<1>2. ExposeWanted(s) \cup NFSWanted(s) \subseteq ToSet(Calls(s))
  BY CallsAre DEF Wanted
<1>3. c.val = objects[c.obj]
  <2>1. CASE c.obj = ExposeService
    <3> DEFINE d == Call(ExposeService, IfOn(s, "expose", ExposeValue(s)))
    <3>1. d \in ToSet(Calls(s)) /\ d.obj = c.obj
      BY <1>2, <2>1 DEF ExposeWanted, Call
    <3>2. c.val = d.val
      BY <3>1, CallsAgree
    <3> QED  BY <2>1, <3>2 DEF Call, Reconciled, IfOn, On
  <2>2. CASE c.obj = NFSService
    <3> DEFINE d == Call(NFSService, IfOn(s, "nfs", NFSValue(s)))
    <3>1. d \in ToSet(Calls(s)) /\ d.obj = c.obj
      BY <1>2, <2>2 DEF NFSWanted, Call
    <3>2. c.val = d.val
      BY <3>1, CallsAgree
    <3> QED  BY <2>2, <3>2 DEF Call, Reconciled, IfOn, On
  <2> QED  BY <1>1, <2>1, <2>2 DEF NodePortServices
<1>4. Acceptable(Call(c.obj, objects[c.obj]))
  BY <1>1, <1>3 DEF PortsInv
<1> QED  BY <1>3, <1>4 DEF Acceptable, Call

\* A deletion is not taken back, and only a deleted cluster is released.
ReleaseInv == pc = "release" => deleted

LEMMA AlwaysReleased == Spec => []ReleaseInv
<1>1. Init => ReleaseInv
  BY DEF Init, ReleaseInv
<1>2. ReleaseInv /\ [Next]_vars => ReleaseInv'
  BY DEF ReleaseInv, Next, Operator, vars, clusterVars, opVars, UpdateSpec, DeleteCluster,
         CollectGarbage, StartMaster, MountGoals, StopMaster, ElectMaster, ReadCluster,
         AddFinalizer, RemoveFinalizer, Return, ValidateSpec, MakeCall, FailCall, SkipCall,
         EndWithError, EndSteps, PatchStatus, Crash
<1> QED  BY <1>1, <1>2, PTL DEF Spec

\* The calls for the objects of earlier versions only ever remove them.
LEMMA LegacyIsRemoved ==
  ASSUME NEW s \in Specs, NEW c \in ToSet(Calls(s)), c.obj \in ToSet(Legacy)
  PROVE  c.val = None
<1>1. c.obj \in {Legacy[1], Legacy[2], Legacy[3], Legacy[4]}
  BY DEF ToSet, Legacy
<1>2. c \in FixedWanted(s)
  <2>1. c \in FixedWanted(s) \cup ChunkWanted(s)
    BY CallsAre DEF Wanted, FixedWanted
  <2>2. c \notin ChunkWanted(s)
    BY <1>1, ChunkServerObjects DEF ChunkWanted, Legacy
  <2> QED  BY <2>1, <2>2
<1> QED  BY <1>1, <1>2, FixedCalls DEF FixedValue, Legacy

(* Settled, and the reconcile that may be under way has met no error that Settled does
   not tell of. *)
Steady ==
  /\ Live
  /\ Settled
  /\ failed \in IF Supported(spec) THEN {"no"} ELSE {"no", "UnsupportedSpec"}

SteadyInv == IInv /\ ProgressInv /\ ReleaseInv /\ PortsInv

\* Users leave the cluster alone, and nothing fails.
Calm == UNCHANGED <<spec, deleted, faults>>

(* The operator does not undo what it has achieved: a cluster that has settled stays so
   for as long as its users leave it alone and no call fails, although with HA it is
   reconciled every 5 s and the election writes to the Lease meanwhile, and whatever
   node ports it asks for.  This is the safety half of Converges. *)
THEOREM SettledStays == Spec => [][Steady /\ Calm => Steady']_vars
<1>1. SteadyInv /\ ReadyMeansReconciled' /\ [Next]_vars => [Steady /\ Calm => Steady']_vars
  <2> SUFFICES ASSUME SteadyInv, ReadyMeansReconciled', Next, Steady, Calm
               PROVE  Steady'
    BY DEF vars, Calm
  <2> USE DEF Calm
  <2>1. /\ status.observed = gen /\ snapGen = gen /\ snap = spec
        /\ spec \in Specs /\ Admitted(spec) /\ exists /\ ~deleted
        /\ gen \in Nat /\ faults \in Nat /\ ~Fault
    BY DEF SteadyInv, IInv, TypeOK, StatusTypes, ValueTypes, LoopInv, SpecInv, ProgressInv,
           Steady, Settled, Live, Fault
  <2>2. UNCHANGED <<exists, gen>>
    <3>1. ~DeleteCluster /\ ~RemoveFinalizer /\ \A s \in Specs : ~UpdateSpec(s)
      BY <2>1 DEF DeleteCluster, RemoveFinalizer, UpdateSpec, SteadyInv, ReleaseInv
    <3>2. ~DeleteCluster /\ ~RemoveFinalizer /\ (\A s \in Specs : ~UpdateSpec(s))
            => UNCHANGED <<exists, gen>>
      BY DEF Next, Operator, clusterVars, CollectGarbage, StartMaster, MountGoals,
             StopMaster, ElectMaster, ReadCluster, AddFinalizer, ValidateSpec, MakeCall, EndSteps,
             PatchStatus, Crash
    <3> QED  BY <3>1, <3>2
  <2>3. Live' /\ (status' = status => status'.observed = gen')
    BY <2>1, <2>2 DEF Live
  <2>4. CASE ~Supported(spec)
    <3>1. /\ pc # "steps"
          /\ pc = "status" => failed = "UnsupportedSpec"
      BY <2>1, <2>4 DEF SteadyInv, IInv, LoopInv, Steady
    <3>2. /\ status.observed = gen /\ status.ready = "false" /\ status.reason = "UnsupportedSpec"
          /\ metrics = "Failed" /\ failed \in {"no", "UnsupportedSpec"}
      BY <2>4 DEF Steady, Settled
    <3>3. failed' \in {"no", "UnsupportedSpec"}
      BY <2>1, <3>1, <3>2
         DEF Next, Operator, clusterVars, opVars, UpdateSpec, DeleteCluster, CollectGarbage,
             StartMaster, MountGoals, StopMaster, ElectMaster, ReadCluster, AddFinalizer,
             RemoveFinalizer, Return, ValidateSpec, MakeCall, EndSteps, PatchStatus, Crash
    <3>4. /\ status'.observed = gen /\ status'.ready = "false"
          /\ status'.reason = "UnsupportedSpec" /\ metrics' = "Failed"
      <4>1. CASE PatchStatus
        <5>1. pc = "status" /\ status' = NewStatus /\ metrics' = Phase
          BY <2>1, <4>1 DEF PatchStatus
        <5> QED  BY <2>1, <2>2, <3>1, <5>1 DEF NewStatus, Phase
      <4>2. CASE ~PatchStatus
        <5>1. ~(ReadCluster /\ ~exists) /\ ~Crash
          BY <2>1 DEF Crash
        <5>2. UNCHANGED <<status, metrics>>
          BY <2>1, <3>1, <4>2, <5>1
             DEF Next, Operator, clusterVars, opVars, UpdateSpec, DeleteCluster, CollectGarbage,
                 StartMaster, MountGoals, StopMaster, ElectMaster, ReadCluster, AddFinalizer,
                 RemoveFinalizer, ValidateSpec, MakeCall, EndSteps
        <5> QED  BY <3>2, <5>2
      <4> QED  BY <4>1, <4>2
    <3> QED  BY <2>2, <2>3, <2>4, <3>3, <3>4 DEF Steady, Settled
  <2>5. CASE Supported(spec)
    <3>1. /\ status.observed = gen /\ status.ready = "true" /\ metrics = "Ready"
          /\ failed = "no" /\ \A o \in ToSet(Legacy) : objects[o] = None
      BY <2>5 DEF Steady, Settled
    <3>2. ASSUME MakeCall
          PROVE  /\ failed' = "no" /\ UNCHANGED <<status, metrics>>
                 /\ \A o \in ToSet(Legacy) : objects'[o] = None
      <4> PICK c : c = Head(todo)
        OBVIOUS
      <4>1. todo # <<>> /\ pc = "steps" /\ UNCHANGED <<status, metrics>>
        BY <3>2 DEF MakeCall, clusterVars
      <4>2. c \in ToSet(todo) /\ c \in ToSet(Calls(spec))
        <5>1. todo \in Seq(ToSet(Calls(spec)))
          BY <2>1, <4>1 DEF SteadyInv, ProgressInv
        <5>2. c \in ToSet(todo)
          BY <4>1, <5>1, HeadAndTail
        <5> QED  BY <5>1, <5>2 DEF ToSet
      <4>3. Acceptable(c)
        BY <2>1, <2>5, <4>2, ReconciledIsAccepted DEF SteadyInv, Steady, Settled
      <4>4. WriteObject(c) /\ failed' = "no"
        BY <2>1, <3>1, <3>2, <4>3 DEF MakeCall
      <4>5. ASSUME NEW o \in ToSet(Legacy)
            PROVE  objects'[o] = None
        <5>1. CASE o = c.obj
          <6>1. c.val = None
            BY <2>1, <4>2, <5>1, LegacyIsRemoved
          <6>2. Result(c) = None
            BY <6>1 DEF Result
          <6> QED  BY <3>1, <4>4, <5>1, <6>2 DEF WriteObject
        <5>2. CASE o # c.obj
          BY <3>1, <4>4, <5>2 DEF WriteObject
        <5> QED  BY <5>1, <5>2
      <4> QED  BY <4>1, <4>4, <4>5
    <3>3. ASSUME PatchStatus
          PROVE  /\ failed' = "no" /\ UNCHANGED objects
                 /\ status'.observed = gen /\ status'.ready = "true" /\ metrics' = "Ready"
      BY <2>1, <3>1, <3>3 DEF PatchStatus, Return, NewStatus, Phase
    <3>4. ASSUME ElectMaster
          PROVE  /\ failed' = "no" /\ UNCHANGED <<status, metrics>>
                 /\ \A o \in ToSet(Legacy) : objects'[o] = None
      <4>1. objects' = [objects EXCEPT ![Lease] = "held"] /\ failed' = failed
            /\ UNCHANGED <<status, metrics>>
        BY <3>4 DEF ElectMaster, opVars, clusterVars
      <4>2. Lease \notin ToSet(Legacy)
        BY DEF Lease, Legacy, ToSet
      <4> QED  BY <3>1, <4>1, <4>2
    <3>5. ASSUME ~MakeCall, ~PatchStatus, ~ElectMaster
          PROVE  failed' = "no" /\ UNCHANGED <<status, metrics, objects>>
      <4>1. ~CollectGarbage /\ ~Crash /\ ~(ReadCluster /\ ~exists)
        BY <2>1 DEF CollectGarbage, Crash
      <4>2. pc = "validate" => Supported(snap)
        BY <2>1, <2>5
      <4> QED
        BY <2>1, <2>5, <3>1, <3>5, <4>1
           DEF Next, Operator, clusterVars, opVars, UpdateSpec, DeleteCluster,
               StartMaster, MountGoals, StopMaster, ReadCluster, AddFinalizer,
               RemoveFinalizer, Return, ValidateSpec, EndSteps
    <3>6. /\ failed' = "no" /\ \A o \in ToSet(Legacy) : objects'[o] = None
          /\ status'.observed = gen /\ status'.ready = "true" /\ metrics' = "Ready"
      BY <3>1, <3>2, <3>3, <3>4, <3>5
    <3>7. Reconciled(spec)'
      BY <2>2, <2>3, <3>6 DEF ReadyMeansReconciled, Ready
    <3> QED  BY <2>2, <2>3, <2>5, <3>6, <3>7 DEF Steady, Settled
  <2> QED  BY <2>4, <2>5
<1> QED  BY AlwaysIInv, AlwaysProgress, AlwaysReleased, AlwaysPorts, ReadyIsReconciled, <1>1, PTL
         DEF Spec, SteadyInv

-----------------------------------------------------------------------------
(***************************************************************************)
(* The goals come first                                                    *)
(***************************************************************************)

\* Once the steps have begun the ConfigMap is that of the goals they work on.
GoalsInv == pc = "steps" => todo = Calls(snap) \/ Holds(GoalsCall(snap))

LEMMA GoalsIsNoOther == Goals # Lease /\ Goals \notin ToSet(Legacy) /\ Goals # MasterSet
                        /\ MasterSet # Lease /\ MasterSet \notin ToSet(Legacy)
BY DEF Goals, MasterSet, Lease, Legacy, ToSet

\* The next call is one of the spec's, and the first one is that of the goals.
LEMMA NextCall ==
  ASSUME IInv, ProgressInv, pc = "steps", todo # <<>>
  PROVE  /\ snap \in Specs /\ Admitted(snap)
         /\ Head(todo) \in ToSet(Calls(snap))
         /\ GoalsCall(snap) \in ToSet(Calls(snap))
         /\ todo = Calls(snap) => Head(todo) = GoalsCall(snap)
<1>1. snap \in Specs /\ Admitted(snap) /\ todo \in Seq(ToSet(Calls(snap)))
  BY DEF IInv, TypeOK, ValueTypes, ProgressInv
<1>2. Head(todo) \in ToSet(todo)
  BY <1>1, HeadAndTail
<1>3. GoalsCall(snap) \in ToSet(Calls(snap))
  BY <1>1, CallsAre DEF Wanted, GoalsWanted
<1>4. todo = Calls(snap) => Head(todo) = GoalsCall(snap)
  BY <1>1, CallsAre DEF First
<1> QED  BY <1>1, <1>2, <1>3, <1>4 DEF ToSet

LEMMA NextGoals == IInv /\ ProgressInv /\ GoalsInv /\ [Next]_vars => GoalsInv'
<1> SUFFICES ASSUME IInv, ProgressInv, GoalsInv, [Next]_vars, pc' = "steps"
             PROVE  (todo = Calls(snap) \/ Holds(GoalsCall(snap)))'
  BY DEF GoalsInv
<1>1. CASE MakeCall
  <2> PICK c : c = Head(todo)
    OBVIOUS
  <2>1. pc = "steps" /\ todo # <<>> /\ snap' = snap
    BY <1>1 DEF MakeCall
  <2>2. /\ snap \in Specs /\ Admitted(snap)
        /\ c \in ToSet(Calls(snap)) /\ GoalsCall(snap) \in ToSet(Calls(snap))
        /\ todo = Calls(snap) => c = GoalsCall(snap)
    BY <2>1, NextCall
  <2>3. \/ WriteObject(c)
        \/ UNCHANGED objects /\ (c.obj = Lease \/ c.obj \in ToSet(Legacy))
    <3>1. ~EndWithError
      BY DEF EndWithError
    <3> QED  BY <1>1, <2>1, <3>1 DEF MakeCall, FailCall
  <2>4. CASE WriteObject(c)
    BY <2>1, <2>2, <2>4, CallHolds DEF GoalsInv
  <2>5. CASE UNCHANGED objects /\ (c.obj = Lease \/ c.obj \in ToSet(Legacy))
    <3>1. c # GoalsCall(snap)
      BY <2>5, GoalsIsNoOther DEF GoalsCall, Call
    <3> QED  BY <2>1, <2>2, <2>5, <3>1 DEF GoalsInv, Holds
  <2> QED  BY <2>3, <2>4, <2>5
<1>2. CASE ElectMaster
  BY <1>2, ElectionHolds DEF ElectMaster, opVars, GoalsInv
<1>3. CASE ValidateSpec
  BY <1>3 DEF ValidateSpec
<1>4. ASSUME ~MakeCall, ~ElectMaster, ~ValidateSpec
      PROVE  pc = "steps" /\ UNCHANGED <<todo, snap, objects>>
  <2>1. pc = "steps" => ~CollectGarbage
    BY DEF CollectGarbage, IInv, LoopInv
  <2> QED
    BY <1>4, <2>1
       DEF Next, Operator, vars, opVars, UpdateSpec, DeleteCluster, CollectGarbage, StartMaster,
           MountGoals, StopMaster, ReadCluster, AddFinalizer, RemoveFinalizer, Return, EndSteps,
           PatchStatus, Crash
<1>5. CASE ~MakeCall /\ ~ElectMaster /\ ~ValidateSpec
  BY <1>4, <1>5 DEF GoalsInv, Holds
<1> QED  BY <1>1, <1>2, <1>3, <1>5

\* Goals that are what the fields of a spec mean, of which one at most is the default.
WellFormed(goals) ==
  /\ DOMAIN goals \subseteq Nat
  /\ \A i \in DOMAIN goals : goals[i].kind # "neither"
  /\ \A i, j \in DOMAIN goals : goals[i].default /\ goals[j].default => i = j

(* Whenever the template of the master pods changes, the default goal it names is one
   that a pod which starts then finds in the file it copies. *)
TemplateKnowsItsGoal ==
  [][objects'[MasterSet] \notin {None, objects[MasterSet]} =>
       LET t == objects'[MasterSet].template
       IN t.default \in (IF t.goals THEN objects'[Goals].file ELSE {}) \cup {Empty}]_vars

(* The order of the steps, goals before the StatefulSet, keeps its purpose through
   changes of the spec, errors and crashes: no template is ever written that names a
   default goal the ConfigMap does not define.  (The converse order of events, a file
   that changes under a running pod, is what DefaultGoalIsDefined is about.) *)
THEOREM GoalsComeFirst ==
  ASSUME \A s \in Specs : WellFormed(s.goals)
  PROVE  Spec => TemplateKnowsItsGoal
<1> DEFINE A == objects'[MasterSet] \notin {None, objects[MasterSet]} =>
                  LET t == objects'[MasterSet].template
                  IN t.default \in (IF t.goals THEN objects'[Goals].file ELSE {}) \cup {Empty}
<1>1. ASSUME NEW s \in Specs
      PROVE  DefaultGoal(s.goals) \in
               (IF s.goals # <<>> THEN GoalsFile(s.goals) ELSE {}) \cup {Empty}
  <2>1. CASE s.goals = <<>>
    BY <2>1 DEF DefaultGoal
  <2>2. CASE s.goals # <<>>
    BY <2>2, DefaultGoalsAgree DEF WellFormed
  <2> QED  BY <2>1, <2>2
<1>2. IInv /\ ProgressInv /\ GoalsInv /\ [Next]_vars => [A]_vars
  <2> SUFFICES ASSUME IInv, ProgressInv, GoalsInv, Next,
                      objects'[MasterSet] # None, objects'[MasterSet] # objects[MasterSet]
               PROVE  LET t == objects'[MasterSet].template
                      IN t.default \in (IF t.goals THEN objects'[Goals].file ELSE {}) \cup {Empty}
    BY DEF vars
  <2>0. MasterSet \in Objects /\ DOMAIN objects = Objects
    <3> DEFINE d == Call(MasterSet, MasterSetValue(FirstSpec))
    <3>1. d \in ToSet(Calls(FirstSpec)) /\ d.obj = MasterSet
      BY CallsAre DEF Wanted, MasterWanted, Call
    <3>2. d.obj \in Objects
      BY <3>1, CallsOnObjects
    <3> QED  BY <3>1, <3>2 DEF IInv, TypeOK, ValueTypes
  <2>1. MakeCall
    <3>1. ~ElectMaster
      BY <2>0, GoalsIsNoOther DEF ElectMaster
    <3>2. ~CollectGarbage
      BY <2>0 DEF CollectGarbage
    <3>3. ~UNCHANGED objects
      OBVIOUS
    <3> QED
      BY <3>1, <3>2, <3>3
         DEF Next, Operator, UpdateSpec, DeleteCluster, StartMaster, MountGoals, StopMaster,
             ReadCluster, AddFinalizer, RemoveFinalizer, ValidateSpec, EndSteps, PatchStatus, Crash
  <2> PICK c : c = Head(todo)
    OBVIOUS
  <2>2. pc = "steps" /\ todo # <<>>
    BY <2>1 DEF MakeCall
  <2>3. /\ snap \in Specs /\ Admitted(snap)
        /\ c \in ToSet(Calls(snap)) /\ GoalsCall(snap) \in ToSet(Calls(snap))
        /\ todo = Calls(snap) => c = GoalsCall(snap)
    BY <2>2, NextCall
  <2>4. objects' = [objects EXCEPT ![c.obj] = Result(c)]
    BY <2>1 DEF MakeCall, WriteObject
  <2>5. c.obj = MasterSet
    BY <2>4
  <2>6. c.val = MasterSetValue(snap)
    <3> DEFINE d == Call(MasterSet, MasterSetValue(snap))
    <3>1. d \in ToSet(Calls(snap)) /\ d.obj = MasterSet
      BY <2>3, CallsAre DEF Wanted, MasterWanted, Call
    <3> QED  BY <2>3, <2>5, <3>1, CallsAgree DEF Call
  <2>7. objects'[MasterSet] = MasterSetValue(snap)
    <3>1. Result(c) = c.val
      BY <2>5, GoalsIsNoOther DEF Result
    <3>2. c.obj \in DOMAIN objects
      BY <2>3, CallsOnObjects DEF IInv, TypeOK, ValueTypes
    <3> QED  BY <2>4, <2>5, <2>6, <3>1, <3>2
  <2>8. snap.goals # <<>> => objects'[Goals] = GoalsConfig(snap.goals)
    <3>1. Holds(GoalsCall(snap))
      BY <2>2, <2>3, <2>5, GoalsIsNoOther DEF GoalsInv, GoalsCall, Call
    <3>2. objects[Goals] = GoalsCall(snap).val
      BY <3>1, GoalsIsNoOther DEF Holds, GoalsCall, Call
    <3>3. objects'[Goals] = objects[Goals]
      BY <2>4, <2>5, GoalsIsNoOther
    <3> QED  BY <3>2, <3>3 DEF GoalsCall, Call
  <2>9. /\ objects'[MasterSet].template.default = DefaultGoal(snap.goals)
        /\ objects'[MasterSet].template.goals = (snap.goals # <<>>)
    BY <2>7 DEF MasterSetValue, Template
  <2>10. CASE snap.goals = <<>>
    BY <1>1, <2>3, <2>9, <2>10
  <2>11. CASE snap.goals # <<>>
    <3>1. objects'[Goals].file = GoalsFile(snap.goals)
      BY <2>8, <2>11 DEF GoalsConfig
    <3> QED  BY <1>1, <2>3, <2>9, <2>11, <3>1
  <2> QED  BY <2>10, <2>11
<1>3. Init => GoalsInv
  BY DEF Init, GoalsInv
<1> QED  BY AlwaysProgress, NextGoals, <1>2, <1>3, PTL DEF Spec, TemplateKnowsItsGoal
=============================================================================

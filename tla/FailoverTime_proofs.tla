------------------------- MODULE FailoverTime_proofs -------------------------
(***************************************************************************)
(* Proof that failover is bounded, for any number of pods, any durations   *)
(* and any number of crashes of nodes, masters and sidecars, if every      *)
(* delay is bounded.  The invariant follows an outage from its start:      *)
(* while nobody holds the Lease some sidecar is due to look at it or to    *)
(* acquire it, and while the holder is down it, or a pod it waits for, is  *)
(* due to be started.                                                      *)
(***************************************************************************)
EXTENDS FailoverTime, MasterHA_proofs, WellFoundedInduction

(* Without a bound on calls and restarts there is none on a failover: connections are
   good, pods are replaced within MaxDowntime, and that is less than leaseDuration. *)
DelaysBounded ==
  /\ Flaky = {}
  /\ SlowStart = {}
  /\ MaxDowntime < LeaseDuration

\* The longest way until a shadow has looked at a Lease without holder.
Wakeup == LeaseDuration + (ObserveInterval - 1)

Down(p) == phase[p] # "running"

(* Nothing counts before the Lease exists, while the holder serves, and while the
   last crash is not dealt with: no time passes then. *)
CalmInv ==
  /\ outage \in 0 .. OutageBound
  /\ ServedByHolder \/ ~created => outage = 0
  /\ \A p \in Pods :
       ~Down(p) /\ (sfs[p] = "down" \/ pc[p] \in {"release", "released"}) => outage = 0

\* How long a pod is down, a sidecar sleeps before it looks again, and a shadow
\* before it acquires.
SleepInv ==
  \A p \in Pods :
    /\ Down(p) => timer[p] <= MaxDowntime
    /\ ~Down(p) =>
         /\ pc[p] = "observe" => timer[p] <= ObserveInterval \/ timer[p] <= RenewInterval
         /\ pc[p] = "acquire" => timer[p] <= MaxBackoff

(* A holder that is up is the master, or has just acquired the Lease and is about to
   restart as the master, unless the previous holder overwrites the acquisition. *)
OwnerInv ==
  \A p \in Pods :
    /\ phase[p] = "starting" /\ holder = p => personality[p] = "master"
    /\ ~Down(p) =>
         /\ holder = p => personality[p] = "master" \/ pc[p] = "acquired"
         /\ pc[p] \in {"renew", "release"} => personality[p] = "master"
         /\ pc[p] # "unconfirmed"
         /\ pc[p] = "acquired" => IF holder = p THEN age = 0 ELSE outage = 0

\* The new holder h restarts and is back before its Lease runs out.
Winning(h) ==
  /\ holder = h
  /\ Down(h)
  /\ \A q \in Pods : q <= h /\ Down(q) => age + timer[q] <= MaxDowntime

\* A pod went down with the outage, or the holder restarts by itself.
RestartInv ==
  \A q \in Pods :
    Down(q) => outage + timer[q] <= MaxDowntime \/ \E h \in Pods : Winning(h)

\* A takeover comes in time, and leaves time for the restart that follows.
TakeoverInv ==
  \A h \in Pods :
    holder = h =>
      /\ ~Down(h) => outage <= Wakeup + MaxBackoff
      /\ Down(h) => \A q \in Pods : q <= h /\ Down(q) => outage + timer[q] <= OutageBound

(* A Lease without holder: while it is fresh the outage is as old as its release;
   once it has run out, whoever looks at it next, or has seen it so, is in time. *)
VacantInv ==
  holder = NoHolder =>
    /\ age < LeaseDuration => outage <= age
    /\ \A p \in Pods :
         ~Down(p) =>
           /\ pc[p] = "observe" => outage + timer[p] <= Wakeup
           /\ pc[p] = "acquire" => outage + timer[p] <= Wakeup + MaxBackoff
           /\ pc[p] = "acquire" /\ p \notin seen => outage + timer[p] <= MaxBackoff

OutageInv == CalmInv /\ SleepInv /\ OwnerInv /\ RestartInv /\ TakeoverInv /\ VacantInv

\* What the election's own invariants say; they hold in every state of TimedSpec too.
Ground == TypeOK /\ LeaseInv

TimedStep == TimedNext /\ Survives("acquired")

USE DurationAssumption, ReplicasAssumption, NoHolderAssumption, FaultAssumption,
    BackoffAssumption

-----------------------------------------------------------------------------
LEMMA Minimum ==
  ASSUME NEW S \in SUBSET Nat, S # {}
  PROVE  \E n \in S : \A m \in S : n <= m
<1>1. PICK n \in S : \A m \in S : ~(<<m, n>> \in OpToRel(<, Nat))
  BY WFMin, NatLessThanWellFounded, Zenon
<1>2. \A m \in S : ~(m < n)
  BY <1>1 DEF OpToRel
<1> QED  BY <1>2

\* Time passes while p is not ready only if p or a pod below it is still on its way.
LEMMA SomebodyIsDue ==
  ASSUME DelaysBounded, TypeOK, Tick, NEW p \in Pods, phase[p] # "running"
  PROVE  \E q \in Pods : q <= p /\ phase[q] # "running" /\ timer[q] > 0
<1> DEFINE Waiting == {q \in 0 .. p : ~Ready(q)}
<1>1. p \in Waiting /\ Waiting \in SUBSET Nat /\ Waiting \subseteq Pods
  BY DEF Ready, Pods
<1>2. PICK q \in Waiting : \A r \in Waiting : q <= r
  <2> HIDE DEF Waiting
  <2> QED  BY <1>1, Minimum
<1>3. \A r \in 0 .. q - 1 : Ready(r)
  BY <1>1, <1>2 DEF Pods
<1>4. q \in Pods /\ ~Urgent(q)
  BY <1>1 DEF Tick
<1>5. phase[q] # "running"
  BY <1>4 DEF Urgent, DelaysBounded, Ready, TypeOK
<1>6. timer[q] # 0
  BY <1>3, <1>4, <1>5 DEF Urgent, DelaysBounded, Creatable
<1> QED  BY <1>1, <1>2, <1>4, <1>5, <1>6 DEF TypeOK

-----------------------------------------------------------------------------
LEMMA InitOutageInv ==
  ASSUME DelaysBounded
  PROVE  TimedInit => OutageInv
<1> SUFFICES ASSUME TimedInit
             PROVE  OutageInv
  OBVIOUS
<1> USE DEF TimedInit, Init, Down
<1>1. 0 \in 0 .. OutageBound
  BY DEF OutageBound
<1>2. CalmInv
  BY <1>1 DEF CalmInv
<1>3. SleepInv /\ OwnerInv
  BY DEF SleepInv, OwnerInv
<1>4. RestartInv /\ TakeoverInv
  BY DEF RestartInv, TakeoverInv
<1>5. VacantInv
  BY DEF VacantInv, MaxAge
<1> QED  BY <1>2, <1>3, <1>4, <1>5 DEF OutageInv

\* Only time adds to an outage; a crash and a holder that serves end the count.
LEMMA OutageStep ==
  ASSUME TimedNext, OutageInv
  PROVE  /\ ServedByHolder' => outage' = 0
         /\ ~Tick => outage' \in {0, outage}
         /\ Tick => outage' \in {0, outage + 1}
         /\ ~created \/ faults' # faults => outage' = 0
<1>1. outage \in 0 .. OutageBound /\ (~created => outage = 0)
  BY DEF OutageInv, CalmInv
<1>2. Counted = outage + 1
  BY <1>1 DEF Counted, OutageBound
<1> QED  BY <1>1, <1>2, Zenon DEF TimedNext

\* Down pods are due in order, and time passes only while one of them is on its way.
LEMMA DownIsDue ==
  ASSUME DelaysBounded, Ground, OutageInv, Tick, NEW p \in Pods, Down(p)
  PROVE  \E q \in Pods : q <= p /\ Down(q) /\ timer[q] \in Nat \ {0}
<1>1. PICK q \in Pods : q <= p /\ phase[q] # "running" /\ timer[q] > 0
  BY SomebodyIsDue DEF Ground, Down
<1> QED  BY <1>1 DEF Ground, TypeOK, Down

\* A sidecar that is up sleeps while time passes, and its sfsmaster is up.
LEMMA UpIsAsleep ==
  ASSUME DelaysBounded, Ground, OutageInv, Tick, NEW p \in Pods, ~Down(p)
  PROVE  /\ timer[p] \in Nat \ {0}
         /\ pc[p] \in {"observe", "acquire"}
         /\ sfs[p] = "up"
         /\ holder = p => ServedByHolder /\ ServedByHolder'
<1>1. ~Urgent(p)
  BY DEF Tick
<1>2. timer[p] \in Nat \ {0} /\ sfs[p] = "up"
  BY <1>1 DEF Urgent, DelaysBounded, Down, Ground, TypeOK
<1>3. pc[p] \in {"observe", "acquire"}
  BY <1>2 DEF Ground, LeaseInv, SleeperInv, Down
<1>4. ASSUME holder = p
      PROVE  ActiveMaster(p) /\ ActiveMaster(p)' /\ holder' = p
  <2>2. personality[p] = "master"
    BY <1>3, <1>4 DEF OutageInv, OwnerInv
  <2> QED  BY <1>2, <1>4, <2>2 DEF ActiveMaster, Down, Tick, podVars
<1> QED  BY <1>2, <1>3, <1>4 DEF ServedByHolder

\* The holder that restarts keeps the Lease until it is back.
LEMMA WinnerIsSafe ==
  ASSUME DelaysBounded, Ground, OutageInv, NEW h \in Pods, Winning(h)
  PROVE  ~Expired
<1>1. age + timer[h] <= MaxDowntime
  BY DEF Winning, Pods
<1> QED  BY <1>1 DEF Expired, DelaysBounded, Ground, TypeOK, MaxAge

\* An outage does not reach its bound: somebody is due before.
LEMMA DueInTime ==
  ASSUME DelaysBounded, Ground, OutageInv, Tick, created
  PROVE  ServedByHolder' \/ outage + 1 <= OutageBound
<1>0. MaxDowntime < LeaseDuration /\ holder \in Pods \cup {NoHolder} /\ outage \in Nat
  BY DEF DelaysBounded, Ground, TypeOK, OutageInv, CalmInv
<1>1. CASE holder = NoHolder
  <2>1. 0 \in Pods
    BY DEF Pods
  <2>2. CASE ~Down(0)
    BY <1>0, <1>1, <2>1, <2>2, UpIsAsleep DEF OutageInv, VacantInv, Wakeup, OutageBound
  <2>3. CASE Down(0)
    <3>1. PICK q \in Pods : q <= 0 /\ Down(q) /\ timer[q] \in Nat \ {0}
      BY <2>1, <2>3, DownIsDue
    <3>2. outage + timer[q] <= MaxDowntime
      BY <1>1, <3>1 DEF OutageInv, RestartInv, Winning
    <3> QED  BY <1>0, <3>1, <3>2 DEF OutageBound
  <2> QED  BY <2>2, <2>3
<1>2. ASSUME NEW h \in Pods, holder = h
      PROVE  ServedByHolder' \/ outage + 1 <= OutageBound
  <2>1. CASE ~Down(h)
    BY <1>2, <2>1, UpIsAsleep
  <2>2. CASE Down(h)
    <3>1. PICK q \in Pods : q <= h /\ Down(q) /\ timer[q] \in Nat \ {0}
      BY <2>2, DownIsDue
    <3>2. outage + timer[q] <= OutageBound
      BY <1>2, <2>2, <3>1 DEF OutageInv, TakeoverInv
    <3> QED  BY <1>0, <3>1, <3>2 DEF OutageBound
  <2> QED  BY <2>1, <2>2
<1> QED  BY <1>0, <1>1, <1>2

-----------------------------------------------------------------------------
(***************************************************************************)
(* A tick moves a unit from what is left to what has passed.               *)
(***************************************************************************)
LEMMA TickOutageInv ==
  ASSUME DelaysBounded, Ground, OutageInv, TimedNext, Tick
  PROVE  OutageInv'
<1>1. /\ outage \in Nat
      /\ outage' \in {0, outage + 1}
      /\ ServedByHolder' \/ ~created => outage' = 0
      /\ created' = created /\ holder' = holder /\ pc' = pc /\ phase' = phase
      /\ personality' = personality /\ sfs' = sfs /\ seen' = seen
  BY OutageStep DEF Tick, podVars, OutageInv, CalmInv
<1>2. \A p \in Pods : timer[p] \in Nat /\ timer'[p] = Less(timer[p])
  BY DEF Tick, Ground, TypeOK
<1>3. \A p \in Pods : Down(p)' = Down(p)
  BY <1>1 DEF Down
<1>4. CalmInv'
  <2>1. outage' \in 0 .. OutageBound
    BY <1>1, DueInTime DEF OutageBound
  <2>2. \A p \in Pods : ~Down(p) => sfs[p] # "down" /\ pc[p] \notin {"release", "released"}
    BY UpIsAsleep DEF Tick, Urgent, Down, DelaysBounded
  <2> QED  BY <1>1, <1>3, <2>1, <2>2 DEF CalmInv
<1>5. SleepInv' /\ OwnerInv'
  <2>1. SleepInv'
    BY <1>1, <1>2, <1>3 DEF SleepInv, Less, OutageInv
  <2>2. \A p \in Pods : ~Down(p) => pc[p] # "acquired"
    BY UpIsAsleep
  <2>3. OwnerInv'
    BY <1>1, <1>3, <2>2 DEF OwnerInv, OutageInv
  <2> QED  BY <2>1, <2>3
<1>6. RestartInv'
  <2> SUFFICES ASSUME NEW q \in Pods, Down(q)
               PROVE  outage' + timer'[q] <= MaxDowntime \/ \E h \in Pods : Winning(h)'
    BY <1>3 DEF RestartInv
  <2>1. PICK d \in Pods : d <= q /\ Down(d) /\ timer[d] \in Nat \ {0}
    BY DownIsDue
  <2>2. CASE \E h \in Pods : Winning(h)
    <3>1. PICK h \in Pods : Winning(h)
      BY <2>2
    <3>2. ASSUME NEW e \in Pods, e <= h, Down(e)
          PROVE  age' + timer'[e] <= MaxDowntime
      <4>1. PICK f \in Pods : f <= e /\ Down(f) /\ timer[f] \in Nat \ {0}
        BY <3>2, DownIsDue
      <4>2. f <= h
        BY <3>2, <4>1 DEF Pods
      <4>3. age + timer[f] <= MaxDowntime /\ age + timer[e] <= MaxDowntime
        BY <3>1, <3>2, <4>1, <4>2 DEF Winning
      <4>4. age \in Nat /\ age' \in Nat /\ age' <= age + 1
        BY DEF Tick, Older, Ground, TypeOK, MaxAge
      <4> QED  BY <1>2, <4>1, <4>3, <4>4 DEF Less
    <3>3. Winning(h)'
      BY <1>1, <1>3, <3>1, <3>2 DEF Winning
    <3> QED  BY <3>3
  <2>3. CASE ~\E h \in Pods : Winning(h)
    <3>1. outage + timer[d] <= MaxDowntime /\ outage + timer[q] <= MaxDowntime
      BY <2>1, <2>3 DEF OutageInv, RestartInv
    <3> QED  BY <1>1, <1>2, <2>1, <3>1 DEF Less
  <2> QED  BY <2>2, <2>3
<1>7. TakeoverInv'
  <2> SUFFICES ASSUME NEW h \in Pods, holder = h
               PROVE  /\ ~Down(h) => outage' <= Wakeup + MaxBackoff
                      /\ Down(h) => \A q \in Pods :
                           q <= h /\ Down(q) => outage' + timer'[q] <= OutageBound
    BY <1>1, <1>3 DEF TakeoverInv
  <2>1. CASE ~Down(h)
    BY <1>1, <2>1, UpIsAsleep DEF Wakeup
  <2>2. ASSUME Down(h), NEW q \in Pods, q <= h, Down(q)
        PROVE  outage' + timer'[q] <= OutageBound
    <3>1. PICK d \in Pods : d <= q /\ Down(d) /\ timer[d] \in Nat \ {0}
      BY <2>2, DownIsDue
    <3>2. d <= h
      BY <2>2, <3>1 DEF Pods
    <3>3. outage + timer[d] <= OutageBound /\ outage + timer[q] <= OutageBound
      BY <2>2, <3>1, <3>2 DEF OutageInv, TakeoverInv
    <3> QED  BY <1>1, <1>2, <3>1, <3>3 DEF Less, OutageBound
  <2> QED  BY <2>1, <2>2
<1>8. VacantInv'
  <2> SUFFICES ASSUME holder = NoHolder
               PROVE  VacantInv'
    BY <1>1 DEF VacantInv
  <2>1. age' < LeaseDuration => outage' <= age'
    BY <1>1 DEF OutageInv, VacantInv, Tick, Older, Ground, TypeOK, MaxAge
  <2>2. \A p \in Pods : ~Down(p) => timer[p] # 0 /\ outage' + timer'[p] <= outage + timer[p]
    BY <1>1, <1>2, UpIsAsleep DEF Less
  <2> QED  BY <1>1, <1>2, <1>3, <2>1, <2>2 DEF OutageInv, VacantInv, Less, Wakeup
<1> QED  BY <1>4, <1>5, <1>6, <1>7, <1>8 DEF OutageInv

-----------------------------------------------------------------------------
(***************************************************************************)
(* Every other step leaves the outage as it is or ends it.                 *)
(***************************************************************************)
LEMMA QuietStep ==
  ASSUME DelaysBounded, Ground, OutageInv, TimedNext, ~Tick
  PROVE  /\ outage \in 0 .. OutageBound /\ outage \in Nat
         /\ outage' \in {0, outage}
         /\ ServedByHolder' => outage' = 0
         /\ ~created \/ faults' # faults => outage' = 0
  BY OutageStep DEF OutageInv, CalmInv, OutageBound

\* A holder that has restarted serves: the outage is over.
LEMMA HolderStarts ==
  ASSUME Ground, OutageInv, NEW p \in Pods, StartContainers(p), holder = p
  PROVE  ServedByHolder'
<1>1. personality[p] = "master"
  BY DEF StartContainers, OutageInv, OwnerInv
<1>2. ActiveMaster(p)' /\ holder' = p
  BY <1>1 DEF StartContainers, leaseVars, ActiveMaster, Ground, TypeOK
<1> QED  BY <1>2 DEF ServedByHolder

\* A sidecar that renews or releases serves, or its sfsmaster has just died.
LEMMA OwnerWrites ==
  ASSUME DelaysBounded, Ground, OutageInv, TimedNext, ~Tick,
         NEW p \in Pods, RenewLease(p) \/ ReleaseLease(p)
  PROVE  outage' = 0 /\ age' = 0 /\ seen' = {}
<1>1. late[p] = 0 /\ ~CallFault(p, "request") /\ ~CallFault(p, "response")
  BY DEF DelaysBounded, CallFault, Ground, LeaseInv, SleeperInv
<1>2. age' = 0 /\ seen' = {}
  BY <1>1 DEF RenewLease, ReleaseLease, WriteLease
<1>3. CASE ReleaseLease(p) \/ sfs[p] = "down"
  <2>1. outage = 0
    BY <1>3 DEF RenewLease, ReleaseLease, At, Down, OutageInv, CalmInv
  <2> QED  BY <1>2, <2>1, QuietStep
<1>4. CASE RenewLease(p) /\ sfs[p] # "down"
  <2>1. personality[p] = "master"
    BY <1>4 DEF RenewLease, At, Down, OutageInv, OwnerInv
  <2>2. ActiveMaster(p)' /\ holder' = p
    BY <1>1, <1>4, <2>1 DEF RenewLease, WriteLease, At, ActiveMaster, podVars, Ground, TypeOK
  <2> QED  BY <1>2, <2>2, QuietStep DEF ServedByHolder
<1> QED  BY <1>3, <1>4

\* Whoever takes the Lease over finds it expired, and not in the hands of a pod that
\* is about to serve: in time for TakeoverInv.
LEMMA AcquisitionInTime ==
  ASSUME DelaysBounded, Ground, OutageInv, TimedNext, ~Tick,
         NEW p \in Pods, AcquireLease(p), p \in seen
  PROVE  /\ holder' = p /\ age' = 0 /\ seen' = {} /\ pc'[p] = "acquired"
         /\ ~Down(p) /\ Expired
         /\ outage <= Wakeup + MaxBackoff
         /\ \A h \in Pods : ~Winning(h)
<1>1. late[p] = 0 /\ ~CallFault(p, "request") /\ ~CallFault(p, "response")
  BY DEF DelaysBounded, CallFault, Ground, LeaseInv, SleeperInv
<1>2. holder' = p /\ age' = 0 /\ seen' = {} /\ pc'[p] = "acquired" /\ ~Down(p) /\ timer[p] = 0
  BY <1>1 DEF AcquireLease, WriteLease, At, GoTo, Down, Ground, TypeOK
<1>3. Expired /\ pc[p] = "acquire"
  BY DEF Ground, LeaseInv, AcquirerInv
<1>4. \A h \in Pods : ~Winning(h)
  BY <1>3, WinnerIsSafe
<1>5. outage \in Nat /\ holder \in Pods \cup {NoHolder} /\ Wakeup + MaxBackoff \in Nat
  BY QuietStep DEF Ground, TypeOK, Wakeup
<1>6. ASSUME holder = NoHolder
      PROVE  outage <= Wakeup + MaxBackoff
  <2>1. outage + timer[p] <= Wakeup + MaxBackoff
    BY <1>2, <1>3, <1>6 DEF OutageInv, VacantInv
  <2>2. outage + timer[p] = outage
    BY <1>2, <1>5
  <2> QED  BY <2>1, <2>2
<1>7. ASSUME NEW h \in Pods, holder = h
      PROVE  outage <= Wakeup + MaxBackoff
  <2>1. CASE ~Down(h)
    BY <1>7, <2>1 DEF OutageInv, TakeoverInv
  <2>2. CASE Down(h)
    <3>1. outage + timer[h] <= MaxDowntime /\ timer[h] \in Nat
      BY <1>4, <2>2 DEF OutageInv, RestartInv, Ground, TypeOK
    <3> QED  BY <1>5, <3>1 DEF Wakeup, DelaysBounded
  <2> QED  BY <2>1, <2>2
<1> QED  BY <1>2, <1>3, <1>4, <1>5, <1>6, <1>7

LEMMA NextSleepInv ==
  ASSUME DelaysBounded, Ground, OutageInv, TimedStep, ~Tick
  PROVE  SleepInv'
<1>0. TimedNext
  BY DEF TimedStep
<1> USE <1>0, QuietStep DEF DelaysBounded, Ground, TypeOK, MaxAge, LeaseInv, AcquirerInv, SleeperInv, CallFault,
            leaseVars, podVars, loopVars, OutageInv, Down, Expired, SleepInv
<1>1. CASE BootstrapLease
  BY <1>1 DEF BootstrapLease
<1>2. ASSUME NEW r \in Pods, Sidecar(r)
      PROVE  SleepInv'
  <2>1. CASE ObserveLease(r)
    BY <2>1 DEF ObserveLease, Backoffs, At, GoTo
  <2>2. CASE ObserveNothing(r)
    BY <2>2 DEF ObserveNothing, At, GoTo
  <2>3. CASE RenewLease(r)
    BY <2>3 DEF RenewLease, At, GoTo, WriteLease
  <2>4. CASE ReleaseLease(r)
    BY <2>4 DEF ReleaseLease, At, GoTo, WriteLease
  <2>5. CASE AcquireLease(r)
    BY <2>5 DEF AcquireLease, At, GoTo, WriteLease
  <2>6. CASE DeleteSelf(r)
    BY <2>6 DEF DeleteSelf, StopSidecar, At, GoTo
  <2> QED  BY <1>2, <2>1, <2>2, <2>3, <2>4, <2>5, <2>6 DEF Sidecar
<1>3. ASSUME NEW r \in Pods, PodStart(r)
      PROVE  SleepInv'
  <2>1. CASE TerminatePod(r)
    BY <2>1 DEF TerminatePod
  <2>2. CASE CreatePod(r)
    BY <2>2 DEF CreatePod, Creatable
  <2>3. CASE InitConfig(r)
    BY <2>3 DEF InitConfig
  <2>4. CASE StartContainers(r)
    BY <2>4 DEF StartContainers, GoTo
  <2>5. CASE RestartSfsmaster(r)
    BY <2>5 DEF RestartSfsmaster
  <2> QED  BY <1>3, <2>1, <2>2, <2>3, <2>4, <2>5 DEF PodStart
<1>4. ASSUME NEW r \in Pods, Crash(r) \/ RecoverNode(r)
      PROVE  SleepInv'
  <2>1. CASE CrashSfsmaster(r)
    BY <2>1 DEF CrashSfsmaster, Fault
  <2>2. CASE CrashSidecar(r)
    BY <2>2 DEF CrashSidecar, GoTo, Fault
  <2>3. CASE CrashNode(r)
    BY <2>3 DEF CrashNode, StopSidecar, GoTo, Fault
  <2>4. CASE RecoverNode(r)
    BY <2>4 DEF RecoverNode
  <2> QED  BY <1>4, <2>1, <2>2, <2>3, <2>4 DEF Crash
<1> QED  BY <1>0, <1>1, <1>2, <1>3, <1>4 DEF Next, TimedNext

LEMMA NextOwnerInv ==
  ASSUME DelaysBounded, Ground, OutageInv, TimedStep, ~Tick
  PROVE  OwnerInv'
<1>0. TimedNext
  BY DEF TimedStep
<1> USE <1>0, QuietStep DEF DelaysBounded, Ground, TypeOK, MaxAge, LeaseInv, AcquirerInv, SleeperInv, CallFault,
            leaseVars, podVars, loopVars, OutageInv, Down, Expired, OwnerInv
<1>1. CASE BootstrapLease
  BY <1>1 DEF BootstrapLease
<1>2. ASSUME NEW r \in Pods, Sidecar(r)
      PROVE  OwnerInv'
  <2>1. CASE ObserveLease(r)
    BY <2>1 DEF ObserveLease, Backoffs, At, GoTo
  <2>2. CASE ObserveNothing(r)
    BY <2>2 DEF ObserveNothing, At, GoTo
  <2>3. CASE RenewLease(r)
    BY <2>3, OwnerWrites DEF RenewLease, At, GoTo, WriteLease
  <2>4. CASE ReleaseLease(r)
    <3>1. outage' = 0
      BY <2>4, OwnerWrites
    <3>2. /\ holder' = NoHolder
          /\ phase' = phase /\ personality' = personality
          /\ \A p \in Pods : pc'[p] = IF p = r THEN "released" ELSE pc[p]
      BY <2>4 DEF ReleaseLease, At, GoTo, WriteLease
    <3> QED  BY <3>1, <3>2
  <2>5. CASE AcquireLease(r)
    BY <2>5, AcquisitionInTime DEF AcquireLease, At, GoTo, WriteLease
  <2>6. CASE DeleteSelf(r)
    BY <2>6 DEF DeleteSelf, StopSidecar, At, GoTo
  <2> QED  BY <1>2, <2>1, <2>2, <2>3, <2>4, <2>5, <2>6 DEF Sidecar
<1>3. ASSUME NEW r \in Pods, PodStart(r)
      PROVE  OwnerInv'
  <2>1. CASE TerminatePod(r)
    BY <2>1 DEF TerminatePod
  <2>2. CASE CreatePod(r)
    BY <2>2 DEF CreatePod, Creatable
  <2>3. CASE InitConfig(r)
    BY <2>3 DEF InitConfig
  <2>4. CASE StartContainers(r)
    BY <2>4 DEF StartContainers, GoTo
  <2>5. CASE RestartSfsmaster(r)
    BY <2>5 DEF RestartSfsmaster
  <2> QED  BY <1>3, <2>1, <2>2, <2>3, <2>4, <2>5 DEF PodStart
<1>4. ASSUME NEW r \in Pods, Crash(r) \/ RecoverNode(r)
      PROVE  OwnerInv'
  <2>1. CASE CrashSfsmaster(r)
    BY <2>1 DEF CrashSfsmaster, Fault
  <2>2. CASE CrashSidecar(r)
    BY <2>2 DEF CrashSidecar, GoTo, Fault, TimedStep, Survives
  <2>3. CASE CrashNode(r)
    BY <2>3 DEF CrashNode, StopSidecar, GoTo, Fault
  <2>4. CASE RecoverNode(r)
    BY <2>4 DEF RecoverNode
  <2> QED  BY <1>4, <2>1, <2>2, <2>3, <2>4 DEF Crash
<1> QED  BY <1>0, <1>1, <1>2, <1>3, <1>4 DEF Next, TimedNext

LEMMA NextCalmInv ==
  ASSUME DelaysBounded, Ground, OutageInv, TimedStep, ~Tick
  PROVE  CalmInv'
<1>0. TimedNext
  BY DEF TimedStep
<1> USE <1>0, QuietStep DEF DelaysBounded, Ground, TypeOK, MaxAge, LeaseInv, AcquirerInv, SleeperInv, CallFault,
            leaseVars, podVars, loopVars, OutageInv, Down, Expired, CalmInv, OutageBound
<1>1. CASE BootstrapLease
  BY <1>1 DEF BootstrapLease
<1>2. ASSUME NEW r \in Pods, Sidecar(r)
      PROVE  CalmInv'
  <2>1. CASE ObserveLease(r)
    BY <2>1 DEF ObserveLease, Backoffs, At, GoTo
  <2>2. CASE ObserveNothing(r)
    BY <2>2 DEF ObserveNothing, At, GoTo
  <2>3. CASE RenewLease(r)
    BY <2>3, OwnerWrites DEF RenewLease, At, GoTo, WriteLease
  <2>4. CASE ReleaseLease(r)
    BY <2>4, OwnerWrites DEF ReleaseLease, At, GoTo, WriteLease
  <2>5. CASE AcquireLease(r)
    BY <2>5 DEF AcquireLease, At, GoTo, WriteLease
  <2>6. CASE DeleteSelf(r)
    BY <2>6 DEF DeleteSelf, StopSidecar, At, GoTo
  <2> QED  BY <1>2, <2>1, <2>2, <2>3, <2>4, <2>5, <2>6 DEF Sidecar
<1>3. ASSUME NEW r \in Pods, PodStart(r)
      PROVE  CalmInv'
  <2>1. CASE TerminatePod(r)
    BY <2>1 DEF TerminatePod
  <2>2. CASE CreatePod(r)
    BY <2>2 DEF CreatePod, Creatable
  <2>3. CASE InitConfig(r)
    BY <2>3 DEF InitConfig
  <2>4. CASE StartContainers(r)
    BY <2>4 DEF StartContainers, GoTo
  <2>5. CASE RestartSfsmaster(r)
    BY <2>5 DEF RestartSfsmaster
  <2> QED  BY <1>3, <2>1, <2>2, <2>3, <2>4, <2>5 DEF PodStart
<1>4. ASSUME NEW r \in Pods, Crash(r) \/ RecoverNode(r)
      PROVE  CalmInv'
  <2>1. CASE CrashSfsmaster(r)
    BY <2>1 DEF CrashSfsmaster, Fault
  <2>2. CASE CrashSidecar(r)
    BY <2>2 DEF CrashSidecar, GoTo, Fault
  <2>3. CASE CrashNode(r)
    BY <2>3 DEF CrashNode, StopSidecar, GoTo, Fault
  <2>4. CASE RecoverNode(r)
    BY <2>4 DEF RecoverNode
  <2> QED  BY <1>4, <2>1, <2>2, <2>3, <2>4 DEF Crash
<1> QED  BY <1>0, <1>1, <1>2, <1>3, <1>4 DEF Next, TimedNext

\* What RestartInv says is kept where no pod goes down and the Lease is not written,
LEMMA RestartsGoOn ==
  ASSUME OutageInv, outage \in Nat, outage' \in {0, outage}, holder' = holder, age' = age,
         \A q \in Pods : Down(q)' => Down(q) /\ timer'[q] = timer[q] /\ timer[q] \in Nat,
         \A h \in Pods : holder = h /\ Down(h) => Down(h)'
  PROVE  RestartInv'
<1>1. \A h \in Pods : Winning(h) => Winning(h)'
  BY DEF Winning
<1> QED  BY <1>1 DEF OutageInv, RestartInv

\* and holds at the start of every count.
LEMMA RestartsBegin ==
  ASSUME outage' = 0,
         \A q \in Pods : Down(q)' => timer'[q] \in Nat /\ timer'[q] <= MaxDowntime
  PROVE  RestartInv'
  BY DEF RestartInv

LEMMA NextRestartInv ==
  ASSUME DelaysBounded, Ground, OutageInv, TimedStep, ~Tick
  PROVE  RestartInv'
<1>0. TimedNext
  BY DEF TimedStep
<1>a. /\ outage \in Nat /\ outage' \in {0, outage}
      /\ \A q \in Pods : timer[q] \in Nat /\ (Down(q) => timer[q] <= MaxDowntime)
  BY <1>0, QuietStep DEF Ground, TypeOK, OutageInv, SleepInv
<1> USE <1>a DEF Ground, TypeOK, leaseVars, podVars, loopVars, Down
<1>1. CASE BootstrapLease
  BY <1>1, RestartsGoOn DEF BootstrapLease
<1>2. ASSUME NEW r \in Pods, Sidecar(r)
      PROVE  RestartInv'
  <2>1. CASE ObserveLease(r)
    BY <2>1, RestartsGoOn DEF ObserveLease, At, GoTo
  <2>2. CASE ObserveNothing(r)
    BY <2>2, RestartsGoOn DEF ObserveNothing, At, GoTo
  <2>3. CASE RenewLease(r) \/ ReleaseLease(r)
    <3>1. outage' = 0
      BY <1>0, <2>3, OwnerWrites
    <3> QED  BY <2>3, <3>1, RestartsBegin DEF RenewLease, ReleaseLease, At, GoTo
  <2>4. CASE AcquireLease(r)
    <3>1. CASE r \in seen
      <4>1. \A h \in Pods : ~Winning(h)
        BY <1>0, <2>4, <3>1, AcquisitionInTime
      <4>2. \A q \in Pods : Down(q)' => Down(q) /\ timer'[q] = timer[q]
        BY <2>4 DEF AcquireLease, At, GoTo
      <4> QED  BY <4>1, <4>2 DEF OutageInv, RestartInv
    <3>2. CASE r \notin seen
      BY <2>4, <3>2, RestartsGoOn DEF AcquireLease, At, GoTo
    <3> QED  BY <3>1, <3>2
  <2>5. CASE DeleteSelf(r)
    <3>1. /\ holder' = holder /\ age' = age /\ Down(r)'
          /\ \A q \in Pods : Down(q)' => timer'[q] \in Nat /\ timer'[q] <= MaxDowntime
          /\ pc[r] \in {"released", "acquired"} /\ ~Down(r)
      BY <2>5 DEF DeleteSelf, StopSidecar, At, GoTo, CallFault, DelaysBounded, OutageInv, OwnerInv
    <3>2. CASE pc[r] = "acquired" /\ holder = r
      <4>1. age' = 0 /\ holder' = r
        BY <3>1, <3>2 DEF OutageInv, OwnerInv
      <4>2. Winning(r)'
        BY <3>1, <4>1 DEF Winning
      <4> QED  BY <4>2 DEF RestartInv
    <3>3. CASE ~(pc[r] = "acquired" /\ holder = r)
      <4>1. outage' = 0
        BY <3>1, <3>3 DEF OutageInv, OwnerInv, CalmInv
      <4> QED  BY <3>1, <4>1, RestartsBegin
    <3> QED  BY <3>2, <3>3
  <2> QED  BY <1>2, <2>1, <2>2, <2>3, <2>4, <2>5 DEF Sidecar
<1>3. ASSUME NEW r \in Pods, PodStart(r)
      PROVE  RestartInv'
  <2>1. CASE TerminatePod(r) \/ CreatePod(r) \/ InitConfig(r)
    BY <2>1, RestartsGoOn DEF TerminatePod, CreatePod, Creatable, InitConfig
  <2>2. CASE StartContainers(r)
    <3>1. CASE holder = r
      <4>1. outage' = 0
        BY <1>0, <2>2, <3>1, HolderStarts, QuietStep
      <4> QED  BY <2>2, <4>1, RestartsBegin DEF StartContainers, GoTo
    <3>2. CASE holder # r
      BY <2>2, <3>2, RestartsGoOn DEF StartContainers, GoTo
    <3> QED  BY <3>1, <3>2
  <2>3. CASE RestartSfsmaster(r)
    BY <2>3, RestartsGoOn DEF RestartSfsmaster
  <2> QED  BY <1>3, <2>1, <2>2, <2>3 DEF PodStart
<1>4. ASSUME NEW r \in Pods, Crash(r) \/ RecoverNode(r)
      PROVE  RestartInv'
  <2>1. CASE Crash(r)
    <3>1. outage' = 0
      BY <1>0, <2>1, QuietStep DEF Crash, CrashSfsmaster, CrashSidecar, CrashNode, Fault
    <3> QED  BY <2>1, <3>1, RestartsBegin
             DEF Crash, CrashSfsmaster, CrashSidecar, CrashNode, StopSidecar, GoTo
  <2>2. CASE RecoverNode(r)
    BY <2>2, RestartsGoOn DEF RecoverNode
  <2> QED  BY <1>4, <2>1, <2>2
<1> QED  BY <1>0, <1>1, <1>2, <1>3, <1>4 DEF Next, TimedNext

LEMMA NextTakeoverInv ==
  ASSUME DelaysBounded, Ground, OutageInv, TimedStep, ~Tick
  PROVE  TakeoverInv'
<1>0. TimedNext
  BY DEF TimedStep
<1> USE <1>0, QuietStep DEF DelaysBounded, Ground, TypeOK, MaxAge, LeaseInv, AcquirerInv, SleeperInv, CallFault,
            leaseVars, podVars, loopVars, OutageInv, Down, Expired, TakeoverInv, SleepInv, OutageBound, Wakeup
<1>1. CASE BootstrapLease
  BY <1>1 DEF BootstrapLease
<1>2. ASSUME NEW r \in Pods, Sidecar(r)
      PROVE  TakeoverInv'
  <2>1. CASE ObserveLease(r)
    BY <2>1 DEF ObserveLease, Backoffs, At, GoTo
  <2>2. CASE ObserveNothing(r)
    BY <2>2 DEF ObserveNothing, At, GoTo
  <2>3. CASE RenewLease(r)
    BY <2>3, OwnerWrites DEF RenewLease, At, GoTo, WriteLease
  <2>4. CASE ReleaseLease(r)
    BY <2>4, OwnerWrites DEF ReleaseLease, At, GoTo, WriteLease
  <2>5. CASE AcquireLease(r)
    BY <2>5, AcquisitionInTime DEF AcquireLease, At, GoTo, WriteLease
  <2>6. CASE DeleteSelf(r)
    <3>1. /\ holder' = holder
          /\ \A p \in Pods : Down(p)' <=> p = r \/ Down(p)
          /\ \A p \in Pods : timer'[p] = IF p = r THEN MaxDowntime ELSE timer[p]
          /\ ~Down(r) /\ pc[r] \in {"released", "unconfirmed", "acquired"}
      BY <2>6 DEF DeleteSelf, StopSidecar, At, GoTo
    <3>2. outage = 0 \/ (holder = r /\ outage <= Wakeup + MaxBackoff)
      <4>1. pc[r] = "released" => outage = 0
        BY <3>1 DEF CalmInv
      <4>2. pc[r] # "unconfirmed" /\ (pc[r] = "acquired" => holder = r \/ outage = 0)
        BY <3>1 DEF OwnerInv
      <4> QED  BY <3>1, <4>1, <4>2
    <3>3. \A q \in Pods : Down(q)' => timer'[q] \in Nat /\ timer'[q] <= MaxDowntime
      BY <3>1
    <3>4. outage' \in Nat /\ outage' <= Wakeup + MaxBackoff
      <4>1. 0 <= Wakeup + MaxBackoff
        OBVIOUS
      <4> QED  BY <3>2, <4>1
    <3>5. \A q \in Pods : Down(q)' => outage' + timer'[q] <= OutageBound
      BY <3>3, <3>4
    <3>6. \A h \in Pods : holder = h /\ ~Down(h)' => outage' <= Wakeup + MaxBackoff
      BY <3>1, <3>4
    <3> QED  BY <3>1, <3>5, <3>6
  <2> QED  BY <1>2, <2>1, <2>2, <2>3, <2>4, <2>5, <2>6 DEF Sidecar
<1>3. ASSUME NEW r \in Pods, PodStart(r)
      PROVE  TakeoverInv'
  <2>1. CASE TerminatePod(r)
    BY <2>1 DEF TerminatePod
  <2>2. CASE CreatePod(r)
    BY <2>2 DEF CreatePod, Creatable
  <2>3. CASE InitConfig(r)
    BY <2>3 DEF InitConfig
  <2>4. CASE StartContainers(r)
    <3>1. /\ holder' = holder
          /\ \A p \in Pods : Down(p)' <=> p # r /\ Down(p)
          /\ \A p \in Pods : p # r => timer'[p] = timer[p]
      BY <2>4 DEF StartContainers, GoTo
    <3>2. holder = r => outage' = 0
      BY <2>4, HolderStarts
    <3>3. outage' <= outage /\ outage' \in Nat /\ 0 <= Wakeup + MaxBackoff
      OBVIOUS
    <3>4. \A h \in Pods : holder = h /\ ~Down(h)' => outage' <= Wakeup + MaxBackoff
      BY <3>1, <3>2, <3>3
    <3>5. \A h, q \in Pods :
            holder = h /\ Down(h)' /\ q <= h /\ Down(q)' => outage' + timer'[q] <= OutageBound
      BY <3>1, <3>3
    <3> QED  BY <3>1, <3>4, <3>5
  <2>5. CASE RestartSfsmaster(r)
    BY <2>5 DEF RestartSfsmaster
  <2> QED  BY <1>3, <2>1, <2>2, <2>3, <2>4, <2>5 DEF PodStart
<1>4. ASSUME NEW r \in Pods, Crash(r) \/ RecoverNode(r)
      PROVE  TakeoverInv'
  <2>1. CASE CrashSfsmaster(r)
    BY <2>1 DEF CrashSfsmaster, Fault
  <2>2. CASE CrashSidecar(r)
    BY <2>2 DEF CrashSidecar, GoTo, Fault
  <2>3. CASE CrashNode(r)
    BY <2>3 DEF CrashNode, StopSidecar, GoTo, Fault
  <2>4. CASE RecoverNode(r)
    BY <2>4 DEF RecoverNode
  <2> QED  BY <1>4, <2>1, <2>2, <2>3, <2>4 DEF Crash
<1> QED  BY <1>0, <1>1, <1>2, <1>3, <1>4 DEF Next, TimedNext

LEMMA NextVacantInv ==
  ASSUME DelaysBounded, Ground, OutageInv, TimedStep, ~Tick
  PROVE  VacantInv'
<1>0. TimedNext
  BY DEF TimedStep
<1> USE <1>0, QuietStep DEF DelaysBounded, Ground, TypeOK, MaxAge, LeaseInv, AcquirerInv, SleeperInv, CallFault,
            leaseVars, podVars, loopVars, OutageInv, Down, Expired, VacantInv, SleepInv, Wakeup
<1>1. CASE BootstrapLease
  BY <1>1 DEF BootstrapLease
<1>2. ASSUME NEW r \in Pods, Sidecar(r)
      PROVE  VacantInv'
  <2>1. CASE ObserveLease(r)
    BY <2>1 DEF ObserveLease, Backoffs, At, GoTo
  <2>2. CASE ObserveNothing(r)
    BY <2>2 DEF ObserveNothing, At, GoTo
  <2>3. CASE RenewLease(r)
    BY <2>3, OwnerWrites DEF RenewLease, At, GoTo, WriteLease
  <2>4. CASE ReleaseLease(r)
    <3>1. outage' = 0 /\ age' = 0 /\ seen' = {}
      BY <2>4, OwnerWrites
    <3>2. /\ phase' = phase
          /\ \A p \in Pods : p # r => pc'[p] = pc[p] /\ timer'[p] = timer[p]
          /\ pc'[r] = "released"
      BY <2>4 DEF ReleaseLease, At, GoTo
    <3>3. \A p \in Pods :
            ~Down(p)' =>
              /\ pc'[p] = "observe" => timer'[p] \in Nat /\ timer'[p] <= Wakeup
              /\ pc'[p] = "acquire" => timer'[p] \in Nat /\ timer'[p] <= MaxBackoff
      BY <3>2, RenewalAssumption
    <3> QED  BY <3>1, <3>3
  <2>5. CASE AcquireLease(r)
    BY <2>5, AcquisitionInTime DEF AcquireLease, At, GoTo, WriteLease
  <2>6. CASE DeleteSelf(r)
    BY <2>6 DEF DeleteSelf, StopSidecar, At, GoTo
  <2> QED  BY <1>2, <2>1, <2>2, <2>3, <2>4, <2>5, <2>6 DEF Sidecar
<1>3. ASSUME NEW r \in Pods, PodStart(r)
      PROVE  VacantInv'
  <2>1. CASE TerminatePod(r)
    BY <2>1 DEF TerminatePod
  <2>2. CASE CreatePod(r)
    BY <2>2 DEF CreatePod, Creatable
  <2>3. CASE InitConfig(r)
    BY <2>3 DEF InitConfig
  <2>4. CASE StartContainers(r)
    <3>1. /\ holder' = holder /\ age' = age /\ seen' = seen
          /\ \A p \in Pods : p # r => /\ Down(p)' <=> Down(p)
                                     /\ pc'[p] = pc[p] /\ timer'[p] = timer[p]
          /\ pc'[r] = "observe" /\ timer'[r] = 0
          /\ Down(r)
      BY <2>4 DEF StartContainers, GoTo
    <3>2. outage' <= outage /\ outage' \in Nat
      OBVIOUS
    <3>3. holder = NoHolder => outage <= Wakeup
      BY <3>1 DEF RestartInv, Winning
    <3> QED  BY <3>1, <3>2, <3>3
  <2>5. CASE RestartSfsmaster(r)
    BY <2>5 DEF RestartSfsmaster
  <2> QED  BY <1>3, <2>1, <2>2, <2>3, <2>4, <2>5 DEF PodStart
<1>4. ASSUME NEW r \in Pods, Crash(r) \/ RecoverNode(r)
      PROVE  VacantInv'
  <2>1. CASE CrashSfsmaster(r)
    BY <2>1 DEF CrashSfsmaster, Fault
  <2>2. CASE CrashSidecar(r)
    BY <2>2 DEF CrashSidecar, GoTo, Fault
  <2>3. CASE CrashNode(r)
    BY <2>3 DEF CrashNode, StopSidecar, GoTo, Fault
  <2>4. CASE RecoverNode(r)
    BY <2>4 DEF RecoverNode
  <2> QED  BY <1>4, <2>1, <2>2, <2>3, <2>4 DEF Crash
<1> QED  BY <1>0, <1>1, <1>2, <1>3, <1>4 DEF Next, TimedNext

(* Failover is bounded: some pod serves as master and holds the Lease again within
   OutageBound of the last crash and of the creation of the cluster, for any number of
   pods, any durations and any number of crashes of nodes, masters and sidecars, where
   every delay is bounded and the winner of the Lease lives to delete its pod. *)
THEOREM BoundedFailover ==
  ASSUME DelaysBounded
  PROVE  TimedSpec => []OutageBounded
<1>1. TimedInit => Ground /\ OutageInv
  BY InitTypeOK, InitLeaseInv, InitOutageInv DEF TimedInit, Ground
<1>2. Ground /\ OutageInv /\ [TimedStep]_timedVars => Ground' /\ OutageInv'
  <2> SUFFICES ASSUME Ground, OutageInv, [TimedStep]_timedVars
               PROVE  Ground' /\ OutageInv'
    OBVIOUS
  <2>1. [Next]_vars
    BY DEF TimedStep, TimedNext, timedVars
  <2>2. Ground'
    BY <2>1, NextTypeOK, NextAcquirerInv, NextSleeperInv DEF Ground, LeaseInv
  <2>3. CASE UNCHANGED timedVars
    BY <2>2, <2>3 DEF timedVars, vars, OutageInv, CalmInv, SleepInv, OwnerInv, RestartInv,
                      TakeoverInv, VacantInv, Winning, Down, ServedByHolder, ActiveMaster
  <2>4. CASE TimedStep /\ Tick
    BY <2>2, <2>4, TickOutageInv DEF TimedStep
  <2>5. CASE TimedStep /\ ~Tick
    BY <2>2, <2>5, NextCalmInv, NextSleepInv, NextOwnerInv, NextRestartInv, NextTakeoverInv,
       NextVacantInv DEF OutageInv
  <2> QED  BY <2>3, <2>4, <2>5
<1>3. OutageInv => OutageBounded
  BY DEF OutageInv, CalmInv, OutageBounded, OutageBound
<1> QED  BY <1>1, <1>2, <1>3, PTL DEF TimedSpec, TimedStep
=============================================================================

----------------------------- MODULE FailoverTime -----------------------------
(***************************************************************************)
(* How long the cluster is without a master: MasterHA with a history       *)
(* variable that measures it.                                              *)
(***************************************************************************)
EXTENDS MasterHA

\* The back-off is capped at 15 s, leaseDuration is 30 s.
ASSUME BackoffAssumption == MaxBackoff < LeaseDuration

VARIABLE outage  \* time since a holder served, or since the last crash if that
                 \* was later; it stops just above OutageBound

timedVars == <<vars, outage>>

(* The longest way: the dead master's sidecar releases the Lease, which makes it
   look fresh; it runs out, a shadow looks at it (its sleep began before that),
   backs off, acquires, and restarts as master. *)
OutageBound == LeaseDuration + (ObserveInterval - 1) + MaxBackoff + MaxDowntime

Counted == IF outage > OutageBound THEN outage ELSE outage + 1

TimedInit == Init /\ outage = 0

TimedNext ==
  /\ Next
  /\ outage' = IF ServedByHolder' \/ faults' # faults \/ ~created THEN 0
               ELSE IF Tick THEN Counted ELSE outage

\* The winner of the Lease lives to restart as master.
TimedSpec == TimedInit /\ [][TimedNext /\ Survives("acquired")]_timedVars /\ Fairness

(* Failover is bounded: some pod serves as master and holds the Lease again
   within OutageBound of the last crash, and of the creation of the cluster. *)
OutageBounded == outage <= OutageBound
=============================================================================

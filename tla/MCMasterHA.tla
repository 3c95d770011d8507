----------------------------- MODULE MCMasterHA -----------------------------
(***************************************************************************)
(* Values of the constants of MasterHA for TLC.  The durations are those   *)
(* of the code in units of five seconds, the greatest common divisor of    *)
(* its constants; the cap of the back-off is 15 s, delete_self sleeps 60 s *)
(* and the default startup grace is 30 s.                                  *)
(***************************************************************************)
EXTENDS MasterHA

Units(seconds) == seconds \div 5

MCLeaseDuration   == Units(30)
MCRenewInterval   == Units(10)
MCObserveInterval == Units(5)
MCStartupGrace    == Units(30)
MCMaxBackoff      == Units(15)
MCDeleteSleep     == Units(60)
MCMaxDowntime     == Units(10)

(* Three pods multiply the states: MasterHA_roles counts in units of ten seconds,
   durations rounded up. *)
Tens(seconds) == (seconds + 9) \div 10

TensLeaseDuration   == Tens(30)
TensRenewInterval   == Tens(10)
TensObserveInterval == Tens(5)
TensStartupGrace    == Tens(30)
TensMaxBackoff      == Tens(15)
TensDeleteSleep     == Tens(60)
TensMaxDowntime     == Tens(10)

NoPods   == {}
Pod0     == {0}
Pod1     == {1}
BothPods == {0, 1}

CrashFaults == {"node", "sfsmaster", "sidecar"}
NodeFault   == {"node"}

\* The containers of a pod die one by one.
ContainerFaults == {"sfsmaster", "sidecar"}
=============================================================================

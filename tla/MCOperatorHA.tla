---------------------------- MODULE MCOperatorHA ----------------------------
(***************************************************************************)
(* Values of the constants of OperatorHA for TLC.  The operator adds to    *)
(* the states of the election, so that the unit of time is coarser than in *)
(* MCMasterHA: fifteen seconds, durations rounded up.  The startup grace   *)
(* is zero, so that a dead sfsmaster releases the Lease at any time.       *)
(***************************************************************************)
EXTENDS OperatorHA

Units(seconds) == (seconds + 14) \div 15

MCLeaseDuration   == Units(30)
MCRenewInterval   == Units(10)
MCObserveInterval == Units(5)
MCStartupGrace    == 0
MCMaxBackoff      == Units(15)
MCDeleteSleep     == Units(60)
MCMaxDowntime     == Units(10)

NoPods   == {}
Pod0     == {0}

OperatorFaults == {"node", "sfsmaster", "operator"}
=============================================================================

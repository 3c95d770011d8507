----------------------------- MODULE MasterRole -----------------------------
(***************************************************************************)
(* What the election promises: one master role, held by at most one pod,   *)
(* and a pod that serves as master only while nobody else holds the role.  *)
(* The role is handed to a pod only when no pod serves as master any more: *)
(* a takeover never meets the previous master.                             *)
(***************************************************************************)
CONSTANTS Pods, NoHolder

VARIABLES
  owner,    \* the pod that holds the role, or NoHolder
  serving   \* the pods that serve as master

vars == <<owner, serving>>

Init == owner = NoHolder /\ serving = {}

\* The role goes to p, from nobody or from a pod that has stopped serving.
Grant(p) == /\ owner # p
            /\ serving = {}
            /\ owner' = p
            /\ UNCHANGED serving

\* The owner gives the role up; it may still be about to stop.
Vacate == /\ owner # NoHolder
          /\ owner' = NoHolder
          /\ UNCHANGED serving

\* p starts to serve: no other pod holds the role, none serves.
Serve(p) == /\ owner \in {p, NoHolder}
            /\ serving = {}
            /\ serving' = {p}
            /\ UNCHANGED owner

Stop(p) == /\ p \in serving
           /\ serving' = serving \ {p}
           /\ UNCHANGED owner

Next == \/ Vacate
        \/ \E p \in Pods : Grant(p) \/ Serve(p) \/ Stop(p)

Spec == Init /\ [][Next]_vars
=============================================================================

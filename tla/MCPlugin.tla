------------------------------- MODULE MCPlugin -------------------------------
(* Two runs of one command whose clock readings collide. *)
EXTENDS Plugin

MCNameOf == [r \in Runs |-> CHOOSE n \in Names : TRUE]

Filegoals == [r \in Runs |-> MountScript]
Admins    == [r \in Runs |-> AdminScript]
=============================================================================

---------------------------- MODULE MCReconcile ----------------------------
(* Small instances of Reconcile: the specs users write. *)
EXTENDS Reconcile

CONSTANTS A, B,         \* names of chunk servers
          n1, n2,       \* nodes
          p1,           \* a mount path
          c1, h1,       \* a claim and a host path
          gold, silver  \* names of goals

Claim == [path |-> p1, host |-> Empty, claim |-> c1]
Path  == [path |-> p1, host |-> h1, claim |-> Empty]
\* Passes validateClusterSpec, as it looks at mounts with a path only.
Scratch == [path |-> Empty, host |-> Empty, claim |-> Empty]

Server(srv, node, mounts) == [name |-> srv, node |-> node, mounts |-> mounts]

Goal(name, isDefault) == [name |-> name, kind |-> "ec", default |-> isDefault]

Single == [shadow |-> 0, perShadow |-> FALSE, csi |-> FALSE, goals |-> <<>>,
           features |-> {"nfs"}, servers |-> <<Server(A, Empty, <<Claim>>)>>,
           clientPort |-> 0, adminPort |-> 0, nfsPort |-> 30000, nfsType |-> Empty]

\* HA with most of the optional parts, and no chunk server.
HighlyAvailable == [Single EXCEPT !.shadow = 1, !.goals = <<Goal(gold, TRUE)>>, !.servers = <<>>,
                                  !.features = {"expose"},
                                  !.clientPort = 32767, !.adminPort = 30001]

\* With another goal, so that no file defines the default of both; and with the same
\* directory on two nodes.
OtherParts == [Single EXCEPT !.features = {"metalogger", "interface"},
                             !.servers = <<Server(A, n1, <<Path, Scratch>>),
                                           Server(B, n2, <<Path, Claim, Scratch>>)>>,
                             !.goals = <<Goal(silver, TRUE)>>]
Unsupported == [Single EXCEPT !.csi = TRUE]

\* What the webhook has to reject.
SharedClaim == [Single EXCEPT !.servers = <<Server(A, n1, <<Claim>>), Server(B, n2, <<Claim>>)>>]
SharedPath  == [Single EXCEPT !.servers = <<Server(A, n1, <<Path>>), Server(B, n1, <<Path>>)>>]
PortTooHigh == [Single EXCEPT !.nfsPort = 32768]

AllSpecs   == {Single, HighlyAvailable, OtherParts, Unsupported,
               SharedClaim, SharedPath, PortTooHigh}
OnlySingle == {Single}

(* Instances in which properties fail that no run checks. *)

\* A server without nodeName beside one with: the webhook admits it.
Unpinned     == [Single EXCEPT !.features = {},
                               !.servers = <<Server(A, n1, <<Path>>), Server(B, Empty, <<Path>>)>>]
OnlyUnpinned == {Unpinned}

\* The claim of a server that is removed goes to another one.
Renamed      == [Single EXCEPT !.servers = <<Server(B, Empty, <<Claim>>)>>]
ServerRename == {Single, Renamed}

\* The node port of the NFS Service goes to the Service for clients.
PortMoved == [Single EXCEPT !.features = {"expose"}, !.clientPort = 30000, !.nfsPort = 0]
PortMove  == {Single, PortMoved}
=============================================================================

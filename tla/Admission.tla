------------------------------ MODULE Admission ------------------------------
(***************************************************************************)
(* The rules a LeilFSCluster has to pass: those of the validating webhook  *)
(* (Admitted), which keep a spec from being stored, and those of           *)
(* validateClusterSpec (Supported), which the controller applies first in  *)
(* every reconcile.  And what the controller makes of two parts of a spec  *)
(* that have passed: the storage a chunk server mounts, and the goals.     *)
(*                                                                         *)
(* A spec is a record with the fields named below; a chunk server is       *)
(* [name, node, mounts], its node Empty if the scheduler is to choose one; *)
(* a mount is [path, host, claim], each of them Empty if it is not set; a  *)
(* goal is [name, kind, default], of kind "ec", "replication", "neither".  *)
(***************************************************************************)
EXTENDS Integers, Sequences

CONSTANT Empty   \* the empty string

Mounts(srv) == DOMAIN srv.mounts

-----------------------------------------------------------------------------
(***************************************************************************)
(* The webhook                                                             *)
(***************************************************************************)

\* validateChunkServerNames: names are distinct.
NamesOK(servers) ==
  \A i, j \in DOMAIN servers : servers[i].name = servers[j].name => i = j

\* validateChunkServerMountPaths: no claim twice, in one server or in two.
ClaimsOK(servers) ==
  \A i, j \in DOMAIN servers : \A k \in Mounts(servers[i]), l \in Mounts(servers[j]) :
    LET c == servers[i].mounts[k].claim
    IN c # Empty /\ c = servers[j].mounts[l].claim => <<i, k>> = <<j, l>>

\* Mutant: host paths are compared within a server only.
HostPathsOKPerServer(servers) ==
  \A i \in DOMAIN servers : \A k, l \in Mounts(servers[i]) :
    LET h == servers[i].mounts[k].host
    IN h # Empty /\ h = servers[i].mounts[l].host => k = l

\* No host path twice in one server or in two servers with the same nodeName, which
\* may be empty.
HostPathsOK(servers) ==
  \A i, j \in DOMAIN servers : \A k \in Mounts(servers[i]), l \in Mounts(servers[j]) :
    LET h == servers[i].mounts[k].host
    IN /\ h # Empty
       /\ h = servers[j].mounts[l].host
       /\ servers[i].node = servers[j].node
       => <<i, k>> = <<j, l>>

NodePortRange == 30000 .. 32767

\* validateNodePorts: 0 lets Kubernetes choose.
NodePortsOK(s) ==
  \A port \in {s.clientPort, s.adminPort, s.nfsPort} : port = 0 \/ port \in NodePortRange

\* validateLeilFSCluster, on create and on update.
Admitted(s) == /\ NamesOK(s.servers)
               /\ ClaimsOK(s.servers)
               /\ HostPathsOK(s.servers)
               /\ NodePortsOK(s)

-----------------------------------------------------------------------------
(***************************************************************************)
(* The controller                                                          *)
(***************************************************************************)

\* validateClusterSpec: no CSI driver, no settings for shadows only, and a host
\* path or a claim behind every mount path that is set.
Supported(s) ==
  /\ ~s.csi
  /\ s.shadow > 0 => ~s.perShadow
  /\ \A i \in DOMAIN s.servers : \A k \in Mounts(s.servers[i]) :
       LET m == s.servers[i].mounts[k]
       IN m.path # Empty => m.host # Empty \/ m.claim # Empty

\* buildChunkVolumes: the host path wins over the claim.
Volume(mount) ==
  IF mount.host # Empty THEN <<"hostPath", mount.host>>
  ELSE IF mount.claim # Empty THEN <<"claim", mount.claim>>
  ELSE <<"emptyDir">>

Volumes(srv) == {Volume(srv.mounts[k]) : k \in Mounts(srv)}

\* The pod template of a chunk server: where it runs and what it mounts.
ChunkTemplate(srv) == [node |-> srv.node, volumes |-> Volumes(srv)]

\* Two pods mount the same claim or, if they are on one node, the same directory of it.
Share(p, q, together) ==
  \E v \in p.volumes \cap q.volumes : v[1] = "claim" \/ (v[1] = "hostPath" /\ together)

\* The pods are told to run on one node, or both left to the scheduler.
SameNode(p, q) == p.node = q.node

\* The scheduler may put the pods on one node.
MayMeet(p, q) == SameNode(p, q) \/ Empty \in {p.node, q.node}

-----------------------------------------------------------------------------
(***************************************************************************)
(* The goals                                                               *)
(***************************************************************************)

\* buildGoalsConfig skips an entry that has neither EC nor Replication.
Rendered(goals) == {i \in DOMAIN goals : goals[i].kind # "neither"}

\* The names of the lines of sfsgoals.cfg.
GoalsFile(goals) == {goals[i].name : i \in Rendered(goals)}

\* The goal that the comment for the user names: the last one marked as default.
SnippetGoal(goals) ==
  LET marked == {i \in Rendered(goals) : goals[i].default}
  IN IF marked = {} THEN Empty
     ELSE goals[CHOOSE i \in marked : \A j \in marked : j <= i].name

GoalsConfig(goals) == [file |-> GoalsFile(goals), snippet |-> SnippetGoal(goals)]

\* The goal that init-config writes to sfsmaster.cfg: the first one marked.
DefaultGoal(goals) ==
  LET marked == {i \in DOMAIN goals : goals[i].default}
  IN IF marked = {} THEN Empty
     ELSE goals[CHOOSE i \in marked : \A j \in marked : i <= j].name

=============================================================================

--------------------------- MODULE MCAutoDiscover ---------------------------
\* Two discovered disks with distinct resource names.
EXTENDS AutoDiscover

TwoNames == [v \in PVs |-> v + 10]
=============================================================================

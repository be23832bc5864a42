---------------------------- MODULE PartitionPlan ----------------------------
(***************************************************************************)
(* The requests of dump_partition for every partition: which sector of the *)
(* device ends up at which place of the file, against the plain definition *)
(* of a copy.  The states are the partitions a table can describe.         *)
(***************************************************************************)
EXTENDS DumpGeometry

CONSTANT MaxSector   \* bound on the last sector of a partition

VARIABLES offset, size

vars == <<offset, size>>

Init == offset = 0 /\ size = 0

(* A partition one sector further, and one that is a sector longer. *)
Further == offset + size < MaxSector /\ offset' = offset + 1 /\ UNCHANGED size
Longer  == offset + size < MaxSector /\ size' = size + 1 /\ UNCHANGED offset

Spec == Init /\ [][Further \/ Longer]_vars

(* The file has as many sectors as the partition, and if the partition     *)
(* begins with a cluster of the device, place k holds the partition's      *)
(* sector k, across the change from clusters to single sectors.            *)
OneToOne ==
    /\ DumpedSectors(size) = size
    /\ Aligned(offset) => \A k \in 0 .. size - 1 : SectorAt(offset, size, k) = offset + k

(* What comes out of any other partition: the clusters are read too early, *)
(* by the sectors that the partition begins after a cluster's first, and   *)
(* the sectors of the tail are right.                                      *)
OnlyClustersShift ==
    \A k \in 0 .. size - 1 :
        SectorAt(offset, size, k) =
            offset + k - (IF k < size - nSectorsToRead(size)
                          THEN offset % SectorsPerCluster ELSE 0)
=============================================================================

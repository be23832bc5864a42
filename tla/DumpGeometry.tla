---------------------------- MODULE DumpGeometry ----------------------------
(***************************************************************************)
(* How dump_partition (client/psvemmc/psvemmc.cpp) covers a partition:     *)
(* whole clusters from the cluster that holds the first sector, then the   *)
(* sectors that are left over, one at a time.                              *)
(***************************************************************************)
EXTENDS Integers, Sequences

CONSTANT SectorsPerCluster   \* sectorsPerCluster, 8 in the source

ASSUME ClusterAssumption == SectorsPerCluster \in Nat \ {0}

(* Mutant: the sectors of a last, partial cluster are rounded up. *)
Bug_RoundUp(size) == (size + SectorsPerCluster - 1) \div SectorsPerCluster

nClustersToRead(size)  == size \div SectorsPerCluster
nSectorsToRead(size)   == size % SectorsPerCluster
clusterOffset(offset)  == offset \div SectorsPerCluster

(* Mutant: the tail starts after the clusters' number, not their sectors. *)
Bug_TailInClusters(offset, size) == offset + nClustersToRead(size)

tailOffset(offset, size) ==
    offset + nClustersToRead(size) * SectorsPerCluster

(* The sectors that the driver reads for the i-th cluster request (from 0), *)
(* and the sector read for the i-th request of the tail.                   *)
ClusterRequest(offset, i) == clusterOffset(offset) + i
ClusterFirstSector(offset, i) == SectorsPerCluster * ClusterRequest(offset, i)
TailSector(offset, size, i) == tailOffset(offset, size) + i

(* How many sectors the file has at the end. *)
DumpedSectors(size) ==
    (nClustersToRead(size) * SectorsPerCluster) + nSectorsToRead(size)

(* The sector that ends up at place k (from 0) of the file. *)
SectorAt(offset, size, k) ==
    IF k < nClustersToRead(size) * SectorsPerCluster
    THEN ClusterFirstSector(offset, k \div SectorsPerCluster) + (k % SectorsPerCluster)
    ELSE TailSector(offset, size, k - nClustersToRead(size) * SectorsPerCluster)

Aligned(offset) == offset % SectorsPerCluster = 0
=============================================================================

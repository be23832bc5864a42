------------------------ MODULE PartitionPlan_proofs -------------------------
(***************************************************************************)
(* The requests of dump_partition, for every number of sectors per cluster *)
(* and every partition.                                                    *)
(***************************************************************************)
EXTENDS PartitionPlan, TLAPS

(* Division with remainder. *)
LEMMA Division ==
  ASSUME NEW n \in Nat \ {0}, NEW a \in Nat
  PROVE  /\ a \div n \in Nat
         /\ a % n \in 0 .. n - 1
         /\ a = n * (a \div n) + (a % n)
  OBVIOUS

(* The states are partitions. *)
LEMMA PlanType == Spec => [](offset \in Nat /\ size \in Nat)
<1> DEFINE Type == offset \in Nat /\ size \in Nat
<1>1. Init => Type
  BY DEF Init
<1>2. Type /\ [Further \/ Longer]_vars => Type'
  BY DEF Further, Longer, vars
<1>3. QED
  BY <1>1, <1>2, PTL DEF Spec

(* The clusters and the tail together are the partition. *)
LEMMA WholeSize ==
  ASSUME NEW s \in Nat
  PROVE  /\ nClustersToRead(s) \in Nat
         /\ nClustersToRead(s) * SectorsPerCluster = s - nSectorsToRead(s)
         /\ DumpedSectors(s) = s
  BY ClusterAssumption, Division
     DEF DumpedSectors, nClustersToRead, nSectorsToRead

(* Place k of the file, for any partition: a place of the clusters' part   *)
(* holds the sector that is offset % SectorsPerCluster before the          *)
(* partition's sector k, a place of the tail that sector itself.           *)
LEMMA PlaceOfSector ==
  ASSUME NEW o \in Nat, NEW s \in Nat, NEW k \in 0 .. s - 1
  PROVE  SectorAt(o, s, k) =
           o + k - (IF k < s - nSectorsToRead(s) THEN o % SectorsPerCluster ELSE 0)
<1> DEFINE S == SectorsPerCluster
<1>1. nClustersToRead(s) \in Nat /\ nClustersToRead(s) * S = s - nSectorsToRead(s)
  BY WholeSize
<1>2. S \in Nat \ {0}
  BY ClusterAssumption
<1>3. nSectorsToRead(s) \in Nat
  BY <1>2, Division DEF nSectorsToRead
<1>4. CASE k < s - nSectorsToRead(s)
  <2>1. SectorAt(o, s, k) = S * ((o \div S) + (k \div S)) + (k % S)
    BY <1>1, <1>4 DEF SectorAt, ClusterFirstSector, ClusterRequest, clusterOffset
  <2>2. /\ o \div S \in Nat /\ o % S \in Nat /\ o = S * (o \div S) + (o % S)
        /\ k \div S \in Nat /\ k % S \in Nat /\ k = S * (k \div S) + (k % S)
    BY <1>2, Division
  <2>3. S * ((o \div S) + (k \div S)) = S * (o \div S) + S * (k \div S)
    BY <1>2, <2>2
  <2>4. S * (o \div S) \in Nat /\ S * (k \div S) \in Nat
    BY <1>2, <2>2
  <2> HIDE DEF S
  <2>5. S * ((o \div S) + (k \div S)) + (k % S) = o + k - (o % S)
    BY <2>2, <2>3, <2>4
  <2>6. QED
    BY <1>4, <2>1, <2>5 DEF S
<1>5. CASE ~(k < s - nSectorsToRead(s))
  BY <1>1, <1>3, <1>5 DEF SectorAt, TailSector, tailOffset
<1>6. QED
  BY <1>4, <1>5

(* A dump of an aligned partition is one to one, and a dump of any         *)
(* partition has its size (psvemmc.cpp, dump_partition), for every number  *)
(* of sectors per cluster and partitions of any place and size.            *)
THEOREM DumpIsOneToOne == Spec => []OneToOne
<1>1. ASSUME offset \in Nat, size \in Nat
      PROVE  OneToOne
  <2>1. DumpedSectors(size) = size
    BY <1>1, WholeSize
  <2>2. ASSUME Aligned(offset), NEW k \in 0 .. size - 1
        PROVE  SectorAt(offset, size, k) = offset + k
    BY <1>1, <2>2, PlaceOfSector DEF Aligned
  <2>3. QED
    BY <2>1, <2>2 DEF OneToOne
<1>2. QED
  BY <1>1, PlanType, PTL

(* What a misaligned partition costs (psvemmc.cpp, clusterOffset): the     *)
(* clusters come from too early, the tail is right.                        *)
THEOREM MisalignedClustersShift == Spec => []OnlyClustersShift
<1>1. ASSUME offset \in Nat, size \in Nat
      PROVE  OnlyClustersShift
  BY <1>1, PlaceOfSector DEF OnlyClustersShift
<1>2. QED
  BY <1>1, PlanType, PTL
=============================================================================

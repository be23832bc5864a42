--------------------------- MODULE EmmcProxy_proofs ---------------------------
(***************************************************************************)
(* Proofs about whole dumps: client, server and driver, with failing       *)
(* calls, lost connections, killed clients and a restarted server, for     *)
(* every set of clients, every partition, cluster size and device, every   *)
(* number of faults and starts; most of them also when a receive returns   *)
(* only a part of a message.                                               *)
(***************************************************************************)
EXTENDS EmmcProxy, Server_proofs

-----------------------------------------------------------------------------
(* The inductive invariant *)

nClusters == C!nClustersToRead(PartitionSize)
nSectors  == C!nSectorsToRead(PartitionSize)

Words == Seq(Int)

(* Every request that a client sends. *)
Requests == {<<PING>>, <<DEINIT>>, <<INIT, SectorSize, SectorsPerCluster>>}
            \cup {<<READ_SECTOR[Mode], n>> : n \in Nat}
            \cup {<<READ_CLUSTER[Mode], n>> : n \in Nat}

Serves(c, place) == cli_sock = c /\ pc = place
Alive(c) == link[c].cli /\ ~link[c].rst

(* The session ends before another command is read; it has ended. *)
Closing == pc = "close" \/ (pc = "send" /\ after = "close")
Over(c) == link[c].srv = "closed" \/ Serves(c, "close")

(* How much of the response has arrived, and a request without an answer. *)
Received(c) == Len(cl[c].header) + Len(cl[c].got) + Len(link[c].s2c)
Fresh(c) == cl[c].phase # "send" /\ Received(c) = 0

(* What waits to be read as a command is a whole request; it is the one    *)
(* that its client is at, which has no part of an answer.                  *)
Queue(c) ==
    link[c].srv = "backlog" \/ Serves(c, "recv") =>
        /\ link[c].c2s \in Requests \cup {<<>>}
        /\ link[c].cli /\ link[c].c2s # <<>> => link[c].c2s = C!Request(c) /\ Fresh(c)

(* So is what is handled; its rest is in the stream. *)
Hand(c) ==
    Serves(c, "handle") =>
        \E q \in Requests :
            /\ cmd = q[1]
            /\ ~link[c].rst => link[c].c2s = SubSeq(q, 2, Len(q))
            /\ Alive(c) => q = C!Request(c) /\ Fresh(c)

(* A handler that goes on has taken its whole request, and the client      *)
(* waits as long as the answer is not sent, or closes.                     *)
Replies(c) ==
    Serves(c, "send") =>
        /\ out # <<>>
        /\ after = "recv" => link[c].c2s = <<>>
        /\ Alive(c) /\ cl[c].op # "close" => cl[c].phase # "send"

Ends(c) ==
    /\ link[c].rst => link[c].c2s = <<>> /\ link[c].s2c = <<>>
    /\ cl[c].op = "connect" => ~link[c].cli /\ link[c].srv = "none"
    /\ link[c].srv = "backlog" /\ link[c].cli => cl[c].op = "ping" /\ link[c].s2c = <<>>
    /\ link[c].cli => link[c].srv # "none"
    /\ cl[c].ret = "ok" => \/ link[c].srv = "closed" \/ Serves(c, "close")
                           \/ link[c].c2s = <<>> /\ ~Serves(c, "handle")

(* Between two requests nothing of an answer is left.  A cluster's header  *)
(* is whole or, at the end of the stream, empty: then no data comes.       *)
Phases(c) ==
    /\ cl[c].phase = "send" =>
         /\ cl[c].header = <<>> /\ cl[c].got = <<>>
         /\ link[c].cli /\ cl[c].op # "close" => link[c].s2c = <<>>
    /\ cl[c].phase # "send" => link[c].cli
    /\ cl[c].phase = "header" =>
         /\ cl[c].op \in {"ping", "init", "cluster", "deinit"}
         /\ cl[c].header = <<>> /\ cl[c].got = <<>>
    /\ cl[c].phase = "loop" =>
         \/ cl[c].op \in {"mbr", "sector"} /\ cl[c].header = <<>>
         \/ cl[c].op = "cluster" /\ Len(cl[c].header) = BaseLen
         \/ /\ cl[c].op = "cluster" /\ cl[c].header = <<>> /\ cl[c].got = <<>>
            /\ link[c].srv = "closed" /\ link[c].s2c = <<>>

(* The file has the words of the requests that have been answered. *)
Progress(c) ==
    /\ cl[c].op \in {"connect", "ping", "mbr", "init"} => cl[c].file = <<>> /\ cl[c].i = 0
    /\ cl[c].op = "cluster" =>
         cl[c].i < nClusters /\ Len(cl[c].file) = cl[c].i * SectorsPerCluster
    /\ cl[c].op = "sector" =>
         cl[c].i < nSectors /\ Len(cl[c].file) = nClusters * SectorsPerCluster + cl[c].i
    /\ cl[c].op = "deinit" => Len(cl[c].file) = PartitionSize
    /\ cl[c].ret = "ok" => Len(cl[c].file) = PartitionSize
    /\ cl[c].op \notin {"close", "exit"} => cl[c].ret = "none"

(* The sector of the device that ends up at place p of the file. *)
Source(p) == IF p < nClusters * SectorsPerCluster
             THEN SectorsPerCluster * C!clusterOffset(PartitionOffset) + p
             ELSE PartitionOffset + p

(* Word k of the file is right; or it is the zero that a server which took *)
(* the request for a broken one answers before it ends the session, and no *)
(* other word follows.                                                     *)
RightWord(c, k) == cl[c].file[k] = SectorWord(Mode, Source(k - 1))
LastZero(c, k) ==
    /\ ShortRecv
    /\ cl[c].op \in {"deinit", "close", "exit"} \/ (cl[c].op = "sector" /\ cl[c].i > 0)
    /\ k = Len(cl[c].file) /\ cl[c].file[k] = 0

Content(c) ==
    /\ ~badCopy => \A k \in 1 .. Len(cl[c].file) : RightWord(c, k) \/ LastZero(c, k)
    /\ cl[c].file # <<>> /\ nClusters > 0 /\ ~freeFailed => c \in acquired

(* No answer comes to a client that has such a zero for a sector that is   *)
(* not the last.                                                           *)
Cheated(c) == cl[c].op = "sector" /\ cl[c].i > 0 /\ ~RightWord(c, Len(cl[c].file))
Stuck(c) ==
    Cheated(c) => /\ cl[c].got = <<>> /\ link[c].s2c = <<>>
                  /\ link[c].rst \/ Over(c)

(* The client's init is behind it. *)
Past(c) ==
    \/ cl[c].op \in {"cluster", "sector", "deinit"}
    \/ /\ cl[c].op = "init" /\ cl[c].phase = "header"
       /\ link[c].c2s = <<>> /\ pc # "handle"

(* A client that is served after its init without a pool of its own finds  *)
(* none.                                                                   *)
Unpooled(c) ==
    link[c].srv = "open" /\ Alive(c) /\ ~Closing /\ Past(c) /\ c \notin acquired
        => upool.init = 0

(* The words q are those of R that follow its first n. *)
Matches(q, R, n) == n + Len(q) <= Len(R) /\ \A k \in 1 .. Len(q) : q[k] = R[n + k]

(* The pieces o, of one word each but for the first, are words of R that   *)
(* follow its first n.                                                     *)
Pieces(o, R, n) ==
    /\ o # <<>> /\ o[1] # <<>>
    /\ n + Len(o[1]) + Len(o) - 1 = Len(R)
    /\ Matches(o[1], R, n)
    /\ \A k \in 2 .. Len(o) : o[k] = <<R[n + Len(o[1]) + k - 1]>>

ResponseLen(op) ==
    CASE op \in {"ping", "mbr", "sector"} -> BaseLen + 1
      [] op = "cluster"                   -> BaseLen + SectorsPerCluster
      [] OTHER                            -> BaseLen

TailWord(c) == SectorWord(Mode, C!TailSector(PartitionOffset, PartitionSize, cl[c].i))

(* A response that the client at c's place accepts has the right words, or *)
(* the zero of a broken request; the data of a cluster may be missing.     *)
Response(c, R) ==
    /\ R \in Seq(Int)
    /\ Len(R) = ResponseLen(cl[c].op) \/ (cl[c].op = "cluster" /\ Len(R) = BaseLen)
    /\ cl[c].op = "sector" /\ R[3] = 0 => R[4] = TailWord(c) \/ (ShortRecv /\ R[4] = 0)
    /\ cl[c].op = "cluster" /\ R[3] = 0 /\ Len(R) # BaseLen =>
         /\ ~badCopy => \A k \in 1 .. SectorsPerCluster :
                R[3 + k] = SectorWord(Mode, C!ClusterFirstSector(PartitionOffset, cl[c].i) + k - 1)
         /\ ~freeFailed => c \in acquired

(* What the client has, what is on its way and what the server is going to *)
(* send are parts of one response, in order, its header in one piece; what *)
(* is missing then will not come.                                          *)
Parts(c, R) ==
    /\ Matches(cl[c].header, R, 0)
    /\ Matches(cl[c].got, R, Len(cl[c].header))
    /\ Matches(link[c].s2c, R, Len(cl[c].header) + Len(cl[c].got))
    /\ Serves(c, "send") /\ ~link[c].rst => Pieces(out, R, Received(c))
    /\ ~link[c].rst => IF Received(c) = 0 THEN Serves(c, "send") => Len(out[1]) >= BaseLen
                       ELSE /\ Received(c) >= BaseLen
                            /\ Received(c) = Len(R) \/ Over(c) \/ Serves(c, "send")

(* The server answers a broken request with a zero before it ends the      *)
(* session.                                                                *)
Ending(c) == Over(c) \/ (Serves(c, "send") /\ after = "close")
Told(c, R) == cl[c].op = "sector" /\ R[3] = 0 => R[4] = TailWord(c) \/ Ending(c)

Answer(c) ==
    cl[c].phase # "send" => \E R \in Seq(Int) : Response(c, R) /\ Parts(c, R) /\ Told(c, R)

(* What holds of a client that has kept its place in the stream. *)
Dumping(c) ==
    /\ Queue(c) /\ Hand(c) /\ Replies(c) /\ Ends(c) /\ Phases(c)
    /\ Progress(c) /\ Content(c) /\ Stuck(c) /\ Unpooled(c) /\ Answer(c)

Reads == {READ_SECTOR[Mode], READ_CLUSTER[Mode]}

(* Behind its first o words q has read requests, whole ones, and in the    *)
(* end, unless there are more to come, a deinit may follow.                *)
Asked(q, o, more) ==
    \A j \in 1 .. Len(q) :
        IF (j + o) % 2 = 1
        THEN \/ q[j] \in Reads /\ j < Len(q)
             \/ ~more /\ q[j] = DEINIT /\ j = Len(q)
        ELSE q[j] \in Nat

(* The client has not sent its deinit. *)
Going(c) == /\ link[c].cli
            /\ cl[c].op \in {"cluster", "sector"} \/ (cl[c].op = "deinit" /\ cl[c].phase = "send")

(* What it has sent is read in step, also when it has not waited for the   *)
(* answers: it takes what is left of one for another.                      *)
Waiting(c) ==
    /\ Serves(c, "recv") \/ (Serves(c, "send") /\ after = "recv") =>
         Asked(link[c].c2s, 0, Going(c))
    /\ Serves(c, "handle") =>
         \/ /\ cmd \in Reads
            /\ \/ link[c].c2s = <<>> /\ ~Alive(c)
               \/ link[c].c2s # <<>> /\ Asked(link[c].c2s, 1, Going(c))
         \/ cmd = DEINIT /\ link[c].c2s = <<>> /\ ~Going(c)

(* A client that has lost its place: nothing is said of its file, but its  *)
(* requests do no harm.                                                    *)
Off(c) ==
    /\ ShortRecv /\ c \in slipped
    /\ cl[c].op \in {"cluster", "sector", "deinit", "close", "exit"}
    /\ cl[c].op \in {"cluster", "sector", "deinit"} => link[c].cli
    /\ cl[c].phase = "loop" => cl[c].op \in {"cluster", "sector"}
    /\ link[c].srv \in {"open", "closed"}
    /\ link[c].rst => link[c].c2s = <<>> /\ link[c].s2c = <<>>
    /\ Serves(c, "send") => out # <<>>
    /\ Waiting(c)

Known(c) == Dumping(c) \/ Off(c)

(* The pools never have another geometry than the clients', and the user's *)
(* buffer has that size once it was set up.                                *)
Geometry ==
    /\ upool.bps # 0 => upool.spc = SectorsPerCluster
    /\ kpool.bps # 0 => kpool.spc = SectorsPerCluster
    /\ upool.ptr # 0 => upool.bps # 0 /\ Len(ubuf) = SectorsPerCluster

(* A kernel pool without a user pool is a fault of a release: it stays     *)
(* from a process that has ended, whose successor has no pointer, or the   *)
(* driver could not free it.                                               *)
Fit == ~freeFailed /\ kpool.init = 1 /\ upool.ptr # 0 => upool.init = 1

(* The client that has set up the pool will release it or has left. *)
Keeps(d) ==
    /\ d \in acquired /\ cl[d].ret # "ok" /\ cl[d].op # "connect"
    /\ link[d].cli =>
         /\ link[d].srv = "open" /\ ~link[d].rst /\ ~Closing
         /\ \/ cl[d].op \in {"cluster", "sector"}
            \/ cl[d].op = "init" /\ Past(d)
            \/ cl[d].op = "deinit" /\ (cl[d].phase = "send" \/ pc = "handle" \/ link[d].c2s # <<>>)

Holder == ~ShortRecv /\ faults = 0 /\ upool.init = 1 => \E d \in Clients : Keeps(d)

Types ==
    /\ link \in Conns(Words) /\ C!ClientType
    /\ ubuf \in Words /\ out \in Seq(Seq(Int)) /\ ctx \in [Devices -> {0, 1}]
    /\ badCopy \in BOOLEAN /\ freeFailed \in BOOLEAN /\ acquired \subseteq Clients

Inv == /\ ServerInv /\ Types /\ Geometry /\ Fit /\ CopiesFit /\ Holder
       /\ \A c \in Clients : Known(c)

-----------------------------------------------------------------------------
(* The partition *)

(* The clusters and the tail together are the partition. *)
LEMMA PlanSizes ==
  /\ SectorsPerCluster \in Nat \ {0}
  /\ nClusters \in Nat /\ nSectors \in Nat /\ nClusters * SectorsPerCluster \in Nat
  /\ nClusters * SectorsPerCluster + nSectors = PartitionSize
<1>1. SectorsPerCluster \in Nat \ {0} /\ PartitionSize \in Nat
  BY PartitionAssumption
<1>2. /\ PartitionSize \div SectorsPerCluster \in Nat
      /\ PartitionSize % SectorsPerCluster \in Nat
      /\ PartitionSize = SectorsPerCluster * (PartitionSize \div SectorsPerCluster)
                           + (PartitionSize % SectorsPerCluster)
  BY <1>1
<1>3. nClusters = PartitionSize \div SectorsPerCluster /\ nSectors = PartitionSize % SectorsPerCluster
  BY DEF nClusters, nSectors, C!nClustersToRead, C!nSectorsToRead
<1>4. QED
  BY <1>1, <1>2, <1>3

(* A cluster of the plan lies within the clusters' part of the file. *)
LEMMA ClusterPlace ==
  ASSUME NEW i \in Nat, i < nClusters
  PROVE  /\ i * SectorsPerCluster \in Nat
         /\ (i + 1) * SectorsPerCluster = i * SectorsPerCluster + SectorsPerCluster
         /\ (i + 1) * SectorsPerCluster <= nClusters * SectorsPerCluster
<1>1. PICK s \in Nat \ {0} : s = SectorsPerCluster
  BY PlanSizes
<1>2. PICK n \in Nat : n = nClusters
  BY PlanSizes
<1>3. i * s \in Nat /\ (i + 1) * s = i * s + s
  BY <1>1
<1>4. PICK j \in Nat : n = i + 1 + j
  <2>1. n - i - 1 \in Nat /\ n = i + 1 + (n - i - 1)
    BY <1>2
  <2>2. QED
    BY <2>1
<1>5. n * s = (i + 1) * s + j * s /\ j * s \in Nat
  BY <1>1, <1>2, <1>4
<1>6. (i + 1) * s <= n * s
  BY <1>1, <1>2, <1>3, <1>5
<1>7. QED
  BY <1>1, <1>2, <1>3, <1>6

(* The sectors of a request of the plan are the ones of its place. *)
LEMMA ClusterSource ==
  ASSUME NEW i \in Nat, i < nClusters, NEW k \in 1 .. SectorsPerCluster
  PROVE  Source(i * SectorsPerCluster + k - 1) = C!ClusterFirstSector(PartitionOffset, i) + k - 1
<1>1. PICK s \in Nat \ {0} : s = SectorsPerCluster
  BY PlanSizes
<1>2. PICK m \in Nat : m = C!clusterOffset(PartitionOffset)
  BY <1>1, PartitionAssumption DEF C!clusterOffset
<1>3. i * s \in Nat /\ i * s + k - 1 < nClusters * s /\ k \in Nat
  <2>1. PICK p, q \in Nat : p = i * s /\ q = nClusters * s
    BY <1>1, PlanSizes, ClusterPlace
  <2>2. p + s <= q
    BY <1>1, <2>1, ClusterPlace
  <2>3. QED
    BY <1>1, <2>1, <2>2
<1>4. Source(i * s + k - 1) = s * m + (i * s + k - 1)
  BY <1>1, <1>2, <1>3 DEF Source
<1>5. C!ClusterFirstSector(PartitionOffset, i) = s * (m + i)
  BY <1>1, <1>2 DEF C!ClusterFirstSector, C!ClusterRequest
<1>6. s * (m + i) = s * m + i * s /\ s * m \in Nat
  BY <1>1, <1>2
<1>7. QED
  BY <1>1, <1>3, <1>4, <1>5, <1>6

(* So are the sectors of the tail. *)
LEMMA SectorSource ==
  ASSUME NEW i \in Nat
  PROVE  Source(nClusters * SectorsPerCluster + i) = C!TailSector(PartitionOffset, PartitionSize, i)
<1>1. PICK q \in Nat : q = nClusters * SectorsPerCluster
  BY PlanSizes
<1>2. Source(q + i) = PartitionOffset + (q + i)
  BY <1>1 DEF Source
<1>3. C!TailSector(PartitionOffset, PartitionSize, i) = PartitionOffset + q + i
  BY <1>1 DEF C!TailSector, C!tailOffset, nClusters
<1>4. QED
  BY <1>1, <1>2, <1>3, PartitionAssumption

(* A dump of a partition that begins with a cluster reads its sectors. *)
LEMMA AlignedSource ==
  ASSUME C!Aligned(PartitionOffset), NEW p \in Nat
  PROVE  Source(p) = PartitionOffset + p
<1>1. PICK s \in Nat \ {0} : s = SectorsPerCluster
  BY PlanSizes
<1>2. PICK o \in Nat : o = PartitionOffset
  BY PartitionAssumption
<1>3. o % s = 0 /\ o = s * (o \div s) + (o % s) /\ o \div s \in Nat
  BY <1>1, <1>2 DEF C!Aligned
<1>4. s * C!clusterOffset(PartitionOffset) = o
  BY <1>1, <1>2, <1>3 DEF C!clusterOffset
<1>5. QED
  BY <1>1, <1>2, <1>4 DEF Source

-----------------------------------------------------------------------------
(* Parts of a response *)

(* The first words of a part are the part's beginning, ...                 *)
LEMMA FirstWords ==
  ASSUME NEW q \in Seq(Int), NEW k \in 0 .. Len(q)
  PROVE  /\ SubSeq(q, 1, k) \in Seq(Int) /\ Len(SubSeq(q, 1, k)) = k
         /\ \A j \in 1 .. k : SubSeq(q, 1, k)[j] = q[j]
         /\ k = 0 => SubSeq(q, 1, k) = <<>>
<1>1. PICK l \in Nat : l = Len(q)
  BY LenProperties
<1>2. \A i \in 1 .. k : q[i] \in Int
  BY <1>1, ElementOfSeq
<1>3. k \in Int /\ 1 \in Int
  BY <1>1
<1>4. /\ SubSeq(q, 1, k) \in Seq(Int)
      /\ Len(SubSeq(q, 1, k)) = IF 1 <= k THEN k - 1 + 1 ELSE 0
      /\ \A i \in 1 .. k - 1 + 1 : SubSeq(q, 1, k)[i] = q[1 + i - 1]
  BY <1>2, <1>3, SubSeqProperties
<1>5. k = 0 => SubSeq(q, 1, k) = <<>>
  BY <1>4, EmptySeq
<1>6. k \in Nat
  BY <1>1
<1>7. QED
  BY <1>1, <1>4, <1>5, <1>6

(* ... and match as it does, like its rest.                                *)
LEMMA MatchesSplit ==
  ASSUME NEW R \in Seq(Int), NEW q \in Seq(Int), NEW n \in Nat, NEW k \in 0 .. Len(q),
         Matches(q, R, n)
  PROVE  /\ Matches(SubSeq(q, 1, k), R, n)
         /\ Matches(SubSeq(q, k + 1, Len(q)), R, n + k)
<1>1. PICK l, m \in Nat : l = Len(q) /\ m = Len(R)
  BY LenProperties
<1>2. PICK p \in Seq(Int) : /\ p = SubSeq(q, 1, k) /\ Len(p) = k
                            /\ \A j \in 1 .. k : p[j] = q[j]
  BY FirstWords
<1>3. k \in Nat /\ k <= l
  BY <1>1
<1>4. PICK r \in Seq(Int) : /\ r = SubSeq(q, k + 1, Len(q)) /\ Len(r) = l - k
                            /\ \A j \in 1 .. l - k : r[j] = q[k + j]
  <2>1. /\ SubSeq(q, k + 1, Len(q)) \in Seq(Int)
        /\ Len(SubSeq(q, k + 1, Len(q))) = Len(q) - k
        /\ \A j \in 1 .. Len(q) - k : SubSeq(q, k + 1, Len(q))[j] = q[k + j]
    BY <1>1, <1>3, RestProperties
  <2>2. QED
    BY <1>1, <2>1
<1>5. n + l <= m /\ \A j \in 1 .. l : q[j] = R[n + j]
  BY <1>1 DEF Matches
<1>6. Matches(p, R, n)
  BY <1>1, <1>2, <1>3, <1>5 DEF Matches
<1>7. Matches(r, R, n + k)
  <2>1. n + k + Len(r) <= Len(R)
    <3>1. n + k + (l - k) = n + l
      BY <1>3
    <3>2. QED
      BY <1>1, <1>4, <1>5, <3>1
  <2>2. ASSUME NEW j \in 1 .. Len(r)
        PROVE  r[j] = R[n + k + j]
    <3>1. j \in 1 .. l - k /\ k + j \in 1 .. l
      BY <1>1, <1>3, <1>4
    <3>2. r[j] = q[k + j] /\ q[k + j] = R[n + (k + j)]
      BY <1>4, <1>5, <3>1
    <3>3. n + (k + j) = n + k + j
      BY <1>3, <3>1
    <3>4. QED
      BY <3>2, <3>3
  <2>3. QED
    BY <2>1, <2>2 DEF Matches
<1>8. QED
  BY <1>2, <1>4, <1>6, <1>7

(* Two parts that follow each other are one. *)
LEMMA MatchesJoin ==
  ASSUME NEW R \in Seq(Int), NEW p \in Seq(Int), NEW q \in Seq(Int), NEW n \in Nat,
         Matches(p, R, n), Matches(q, R, n + Len(p))
  PROVE  p \o q \in Seq(Int) /\ Len(p \o q) = Len(p) + Len(q) /\ Matches(p \o q, R, n)
<1>1. PICK k, l, m \in Nat : k = Len(p) /\ l = Len(q) /\ m = Len(R)
  BY LenProperties
<1>2. PICK r \in Seq(Int) : /\ r = p \o q /\ Len(r) = k + l
                            /\ \A i \in 1 .. k + l : r[i] = IF i <= k THEN p[i] ELSE q[i - k]
  <2>1. /\ p \o q \in Seq(Int) /\ Len(p \o q) = Len(p) + Len(q)
        /\ \A i \in 1 .. Len(p) + Len(q) :
              (p \o q)[i] = IF i <= Len(p) THEN p[i] ELSE q[i - Len(p)]
    BY ConcatProperties
  <2>2. QED
    BY <1>1, <2>1, Zenon
<1>3. /\ \A j \in 1 .. k : p[j] = R[n + j]
      /\ n + k + l <= m /\ \A j \in 1 .. l : q[j] = R[n + k + j]
  BY <1>1 DEF Matches
<1>4. ASSUME NEW i \in 1 .. k + l
      PROVE  r[i] = R[n + i]
  <2>1. CASE i <= k
    BY <1>2, <1>3, <2>1
  <2>2. CASE ~(i <= k)
    <3>1. i - k \in 1 .. l /\ n + k + (i - k) = n + i
      BY <2>2
    <3>2. r[i] = q[i - k] /\ q[i - k] = R[n + k + (i - k)]
      BY <1>2, <1>3, <2>2, <3>1
    <3>3. QED
      BY <3>1, <3>2
  <2>3. QED
    BY <2>1, <2>2
<1>5. n + (k + l) <= m
  BY <1>3
<1>6. QED
  BY <1>1, <1>2, <1>4, <1>5 DEF Matches

(* Lengths of parts are added up in any order. *)
LEMMA Sums ==
  ASSUME NEW a \in Nat, NEW b \in Nat, NEW k \in Nat, NEW l \in Nat
  PROVE  /\ a + b \in Nat /\ a + b + k \in Nat /\ k + l \in Nat
         /\ a + b + (k + l) = a + b + k + l
  OBVIOUS

(* Nothing matches anywhere. *)
LEMMA MatchesNone ==
  ASSUME NEW R \in Seq(Int), NEW n \in Nat, n <= Len(R)
  PROVE  Matches(<<>>, R, n)
<1>1. Len(<<>>) = 0 /\ n + 0 = n
  OBVIOUS
<1>2. 1 .. 0 = {}
  OBVIOUS
<1>3. QED
  BY <1>1, <1>2 DEF Matches

(* The first piece is part of the response, and the others follow it. *)
LEMMA PiecesSplit ==
  ASSUME NEW R \in Seq(Int), NEW o \in Seq(Seq(Int)), NEW n \in Nat, Pieces(o, R, n)
  PROVE  /\ Head(o) \in Seq(Int) /\ Len(Head(o)) \in Nat \ {0} /\ Matches(Head(o), R, n)
         /\ Tail(o) \in Seq(Seq(Int)) /\ (Len(o) = 1 <=> Tail(o) = <<>>)
         /\ Tail(o) # <<>> => Pieces(Tail(o), R, n + Len(Head(o)))
         /\ Tail(o) = <<>> => n + Len(Head(o)) = Len(R)
<1>1. o # <<>>
  BY DEF Pieces
<1>2. PICK l \in Nat \ {0} : l = Len(o)
  BY <1>1, EmptySeq
<1>3. PICK w \in Seq(Int) : w = o[1] /\ w = Head(o)
  BY <1>2, ElementOfSeq
<1>4. PICK k \in Nat \ {0} : k = Len(w)
  BY <1>3, EmptySeq DEF Pieces
<1>5. PICK t \in Seq(Seq(Int)) : /\ t = Tail(o) /\ Len(t) = l - 1
                                 /\ \A i \in 1 .. l - 1 : t[i] = o[i + 1]
  <2>1. /\ Tail(o) \in Seq(Seq(Int)) /\ Len(Tail(o)) = Len(o) - 1
        /\ \A i \in 1 .. Len(Tail(o)) : Tail(o)[i] = o[i + 1]
    BY <1>1, HeadTailProperties, Zenon
  <2>2. QED
    BY <1>2, <2>1, Zenon
<1>6. PICK m \in Nat : m = Len(R)
  BY LenProperties
<1>7. /\ n + k + l - 1 = m /\ Matches(w, R, n)
      /\ \A i \in 2 .. l : o[i] = <<R[n + k + i - 1]>>
  BY <1>2, <1>3, <1>4, <1>6 DEF Pieces
<1>8. ASSUME l # 1
      PROVE  Pieces(t, R, n + k)
  <2>1. l - 1 \in Nat \ {0} /\ t # <<>>
    <3>1. l - 1 \in Nat \ {0}
      BY <1>8
    <3>2. QED
      BY <1>5, <3>1, EmptySeq
  <2>2. t[1] = <<R[n + k + 1]>>
    <3>1. 1 \in 1 .. l - 1 /\ 1 + 1 = 2 /\ 2 \in 2 .. l
      BY <1>2, <1>8
    <3>2. t[1] = o[2] /\ o[2] = <<R[n + k + 2 - 1]>>
      BY <1>5, <1>7, <3>1
    <3>3. n + k + 2 - 1 = n + k + 1
      BY <1>4
    <3>4. QED
      BY <3>2, <3>3
  <2>3. PICK x : x = R[n + k + 1]
    OBVIOUS
  <2>4. t[1] = <<x>> /\ Len(t[1]) = 1 /\ t[1] # <<>> /\ t[1][1] = x
    BY <2>2, <2>3
  <2>5. n + k + 1 + Len(t) - 1 = m /\ n + k + 1 <= m
    <3>1. n + k + 1 + (l - 1) - 1 = n + k + l - 1 /\ n + k + 1 <= n + k + l - 1
      BY <2>1
    <3>2. QED
      BY <1>5, <1>7, <3>1
  <2>6. Matches(t[1], R, n + k)
    <3>1. /\ n + k + 1 <= Len(R) /\ 1 .. 1 = {1}
          /\ Len(t[1]) = 1 /\ t[1][1] = R[n + k + 1]
      BY <1>6, <2>3, <2>4, <2>5
    <3>2. QED
      BY <3>1 DEF Matches
  <2>7. ASSUME NEW i \in 2 .. Len(t)
        PROVE  t[i] = <<R[n + k + 1 + i - 1]>>
    <3>1. i \in 1 .. l - 1 /\ i + 1 \in 2 .. l /\ n + k + (i + 1) - 1 = n + k + 1 + i - 1
      BY <1>2, <1>4, <1>5, <2>7
    <3>2. t[i] = o[i + 1] /\ o[i + 1] = <<R[n + k + (i + 1) - 1]>>
      BY <1>5, <1>7, <3>1
    <3>3. QED
      BY <3>1, <3>2
  <2>8. QED
    BY <1>6, <2>1, <2>4, <2>5, <2>6, <2>7 DEF Pieces
<1>9. l = 1 <=> t = <<>>
  <2>1. l = 1 <=> l - 1 = 0
    OBVIOUS
  <2>2. Len(t) = 0 <=> t = <<>>
    BY <1>5, EmptySeq
  <2>3. QED
    BY <1>5, <2>1, <2>2
<1>10. l = 1 => n + k = m
  BY <1>7
<1>11. QED
  BY <1>2, <1>3, <1>4, <1>5, <1>6, <1>7, <1>8, <1>9, <1>10

-----------------------------------------------------------------------------
(* The connections, with what is on its way to the client *)

(* A connection that one of its ends or the network gives up: what is on   *)
(* its way stays or is lost, all of it after a reset.                      *)
Cut(l, m) ==
    /\ m \in Conn(Words)
    /\ m.c2s \in {l.c2s, <<>>} /\ m.s2c \in {l.s2c, <<>>}
    /\ l.rst => m.rst
    /\ m.rst => m.c2s = <<>> /\ m.s2c = <<>>
    /\ m.cli /\ ~m.rst => m.c2s = l.c2s /\ m.s2c = l.s2c

(* A connection that has settled lost all that was on its way, or          *)
(* nothing.                                                                *)
LEMMA SettledCut ==
  ASSUME NEW l \in Conn(Words), NEW m \in Conn(Words), m.c2s = l.c2s, m.s2c = l.s2c, l.rst => m.rst
  PROVE  /\ Cut(l, Link!Settled(m))
         /\ Link!Settled(m).cli = m.cli /\ Link!Settled(m).srv = m.srv /\ Link!Settled(m).rst = m.rst
<1>1. PICK n : n = [m EXCEPT !.c2s = <<>>, !.s2c = <<>>]
  OBVIOUS
<1>2. <<>> \in Words
  BY DEF Words
<1>3. /\ n \in Conn(Words) /\ n.cli = m.cli /\ n.srv = m.srv /\ n.rst = m.rst
      /\ n.c2s = <<>> /\ n.s2c = <<>>
  BY <1>1, <1>2 DEF Conn, Words
<1>4. Link!Settled(m) = IF m.rst \/ (~m.cli /\ m.srv = "closed") THEN n ELSE m
  BY <1>1 DEF Link!Settled
<1>5. CASE m.rst \/ (~m.cli /\ m.srv = "closed")
  BY <1>3, <1>4, <1>5 DEF Cut
<1>6. CASE ~(m.rst \/ (~m.cli /\ m.srv = "closed"))
  BY <1>4, <1>6 DEF Cut
<1>7. QED
  BY <1>5, <1>6

(* One connection is replaced. *)
LEMMA OneLink ==
  ASSUME link \in Conns(Words), NEW c \in Clients, NEW l, l \in Conn(Words),
         link' = [link EXCEPT ![c] = l]
  PROVE  link' \in Conns(Words) /\ link'[c] = l /\ \A d \in Clients \ {c} : link'[d] = link[d]
  BY DEF Conns

(* A reset, ...                                                            *)
LEMMA ResetCut ==
  ASSUME link \in Conns(Words), NEW c \in Clients, Link!Reset(c)
  PROVE  /\ link' \in Conns(Words) /\ \A d \in Clients \ {c} : link'[d] = link[d]
         /\ Cut(link[c], link'[c]) /\ link'[c].rst
         /\ link'[c].cli = link[c].cli /\ link'[c].srv = link[c].srv
<1>1. PICK l : l = [link[c] EXCEPT !.rst = TRUE]
  OBVIOUS
<1>2. /\ l \in Conn(Words) /\ link[c] \in Conn(Words) /\ l.cli = link[c].cli
      /\ l.srv = link[c].srv /\ l.rst /\ l.c2s = link[c].c2s /\ l.s2c = link[c].s2c
  BY <1>1 DEF Conn, Conns
<1>3. link' = [link EXCEPT ![c] = Link!Settled(l)]
  BY <1>1 DEF Link!Reset
<1>4. /\ Cut(link[c], Link!Settled(l)) /\ Link!Settled(l).rst
      /\ Link!Settled(l).cli = link[c].cli /\ Link!Settled(l).srv = link[c].srv
  BY <1>2, SettledCut
<1>5. QED
  BY <1>3, <1>4, OneLink DEF Cut

(* ... a client that closes, ...                                           *)
LEMMA CliCloseCut ==
  ASSUME link \in Conns(Words), NEW c \in Clients, Link!CliClose(c)
  PROVE  /\ link' \in Conns(Words) /\ \A d \in Clients \ {c} : link'[d] = link[d]
         /\ Cut(link[c], link'[c]) /\ link'[c].rst = link[c].rst
         /\ ~link'[c].cli /\ link'[c].srv = link[c].srv
<1>1. PICK l : l = [link[c] EXCEPT !.cli = FALSE]
  OBVIOUS
<1>2. /\ l \in Conn(Words) /\ link[c] \in Conn(Words) /\ ~l.cli
      /\ l.srv = link[c].srv /\ l.rst = link[c].rst /\ l.c2s = link[c].c2s /\ l.s2c = link[c].s2c
  BY <1>1 DEF Conn, Conns
<1>3. link' = [link EXCEPT ![c] = Link!Settled(l)]
  BY <1>1 DEF Link!CliClose, Link!CliClosed
<1>4. /\ Cut(link[c], Link!Settled(l)) /\ Link!Settled(l).rst = link[c].rst
      /\ ~Link!Settled(l).cli /\ Link!Settled(l).srv = link[c].srv
  BY <1>2, SettledCut
<1>5. QED
  BY <1>3, <1>4, OneLink DEF Cut

(* ... a server that closes a connection, ...                              *)
LEMMA SrvCloseCut ==
  ASSUME link \in Conns(Words), NEW c \in Clients, Link!SrvClose(c)
  PROVE  /\ link' \in Conns(Words) /\ \A d \in Clients \ {c} : link'[d] = link[d]
         /\ Cut(link[c], link'[c]) /\ link'[c].rst = link[c].rst
         /\ link'[c].cli = link[c].cli /\ link'[c].srv = "closed"
<1>1. PICK l : l = [link[c] EXCEPT !.srv = "closed"]
  OBVIOUS
<1>2. /\ l \in Conn(Words) /\ link[c] \in Conn(Words) /\ l.cli = link[c].cli
      /\ l.srv = "closed" /\ l.rst = link[c].rst /\ l.c2s = link[c].c2s /\ l.s2c = link[c].s2c
  BY <1>1 DEF Conn, Conns
<1>3. link' = [link EXCEPT ![c] = Link!Settled(l)]
  BY <1>1 DEF Link!SrvClose, Link!SrvClosed
<1>4. /\ Cut(link[c], Link!Settled(l)) /\ Link!Settled(l).rst = link[c].rst
      /\ Link!Settled(l).cli = link[c].cli /\ Link!Settled(l).srv = "closed"
  BY <1>2, SettledCut
<1>5. QED
  BY <1>3, <1>4, OneLink DEF Cut

(* ... its end, ...                                                        *)
LEMMA CloseAllCut ==
  ASSUME link \in Conns(Words), Link!CloseAll
  PROVE  /\ link' \in Conns(Words)
         /\ \A d \in Clients :
               /\ link'[d].cli = link[d].cli
               /\ \/ link'[d] = link[d] /\ link[d].srv \in {"none", "closed"}
                  \/ Cut(link[d], link'[d]) /\ link'[d].srv = "closed" /\ link[d].srv # "none"
<1> SUFFICES ASSUME NEW d \in Clients
             PROVE  /\ link'[d] \in Conn(Words) /\ link'[d].cli = link[d].cli
                    /\ \/ link'[d] = link[d] /\ link[d].srv \in {"none", "closed"}
                       \/ Cut(link[d], link'[d]) /\ link'[d].srv = "closed" /\ link[d].srv # "none"
  BY DEF Link!CloseAll, Conns
<1>1. PICK l \in Conn(Words) : l = link[d]
  BY DEF Conns
<1>2. PICK m : m = [l EXCEPT !.srv = "closed"]
  OBVIOUS
<1>3. PICK n : n = [l EXCEPT !.srv = "closed", !.rst = TRUE]
  OBVIOUS
<1>4. /\ m \in Conn(Words) /\ m.srv = "closed" /\ m.c2s = l.c2s /\ m.s2c = l.s2c
      /\ m.rst = l.rst /\ m.cli = l.cli
  BY <1>2 DEF Conn
<1>5. /\ n \in Conn(Words) /\ n.srv = "closed" /\ n.c2s = l.c2s /\ n.s2c = l.s2c
      /\ n.rst /\ n.cli = l.cli
  BY <1>3 DEF Conn
<1>6. Cut(l, Link!Settled(m)) /\ Link!Settled(m).srv = "closed" /\ Link!Settled(m).cli = l.cli
  BY <1>4, SettledCut
<1>7. Cut(l, Link!Settled(n)) /\ Link!Settled(n).srv = "closed" /\ Link!Settled(n).cli = l.cli
  BY <1>5, SettledCut
<1>8. link'[d] = IF l.srv = "open" THEN Link!Settled(m)
                 ELSE IF l.srv = "backlog" THEN Link!Settled(n) ELSE l
  BY <1>1, <1>2, <1>3 DEF Link!CloseAll, Link!SrvClosed, Link!ListenerClosed
<1>9. l.srv \in {"none", "backlog", "open", "closed"}
  BY DEF Conn
<1>10. CASE l.srv = "open"
  <2>1. link'[d] = Link!Settled(m)
    BY <1>8, <1>10
  <2>2. QED
    BY <1>1, <1>6, <1>10, <2>1 DEF Cut
<1>11. CASE l.srv = "backlog"
  <2>1. link'[d] = Link!Settled(n)
    BY <1>8, <1>11
  <2>2. QED
    BY <1>1, <1>7, <1>11, <2>1 DEF Cut
<1>12. CASE l.srv \in {"none", "closed"}
  <2>1. link'[d] = l
    BY <1>8, <1>12
  <2>2. QED
    BY <1>1, <1>12, <2>1
<1>13. QED
  BY <1>9, <1>10, <1>11, <1>12

(* ... and the end of its listening socket.                                *)
LEMMA CloseListenerCut ==
  ASSUME link \in Conns(Words), Link!CloseListener
  PROVE  /\ link' \in Conns(Words)
         /\ \A d \in Clients :
               /\ link'[d].cli = link[d].cli
               /\ \/ link'[d] = link[d]
                  \/ Cut(link[d], link'[d]) /\ link'[d].srv = "closed" /\ link[d].srv # "none"
<1> SUFFICES ASSUME NEW d \in Clients
             PROVE  /\ link'[d] \in Conn(Words) /\ link'[d].cli = link[d].cli
                    /\ \/ link'[d] = link[d]
                       \/ Cut(link[d], link'[d]) /\ link'[d].srv = "closed" /\ link[d].srv # "none"
  BY DEF Link!CloseListener, Conns
<1>1. PICK l \in Conn(Words) : l = link[d]
  BY DEF Conns
<1>2. PICK n : n = [l EXCEPT !.srv = "closed", !.rst = TRUE]
  OBVIOUS
<1>3. /\ n \in Conn(Words) /\ n.srv = "closed" /\ n.c2s = l.c2s /\ n.s2c = l.s2c
      /\ n.rst /\ n.cli = l.cli
  BY <1>2 DEF Conn
<1>4. Cut(l, Link!Settled(n)) /\ Link!Settled(n).srv = "closed" /\ Link!Settled(n).cli = l.cli
  BY <1>3, SettledCut
<1>5. link'[d] = IF l.srv = "backlog" THEN Link!Settled(n) ELSE l
  BY <1>1, <1>2 DEF Link!CloseListener, Link!ListenerClosed
<1>6. CASE l.srv = "backlog"
  <2>1. link'[d] = Link!Settled(n)
    BY <1>5, <1>6
  <2>2. QED
    BY <1>1, <1>4, <1>6, <2>1 DEF Cut
<1>7. CASE l.srv # "backlog"
  <2>1. link'[d] = l
    BY <1>5, <1>7
  <2>2. QED
    BY <1>1, <2>1
<1>8. QED
  BY <1>6, <1>7

(* A connection request and its acceptance, ...                            *)
LEMMA ConnectWords ==
  ASSUME link \in Conns(Words), NEW c \in Clients, Link!Connect(c)
  PROVE  /\ link' \in Conns(Words) /\ \A d \in Clients \ {c} : link'[d] = link[d]
         /\ link'[c].cli /\ link'[c].srv = "backlog" /\ ~link'[c].rst
         /\ link'[c].c2s = <<>> /\ link'[c].s2c = <<>>
<1>1. PICK l : l = [Link!NoConnection EXCEPT !.cli = TRUE, !.srv = "backlog"]
  OBVIOUS
<1>2. <<>> \in Words
  BY DEF Words
<1>3. /\ l \in Conn(Words) /\ l.cli /\ l.srv = "backlog" /\ ~l.rst
      /\ l.c2s = <<>> /\ l.s2c = <<>>
  BY <1>1, <1>2 DEF Conn, Link!NoConnection, Words
<1>4. link' = [link EXCEPT ![c] = l]
  BY <1>1 DEF Link!Connect
<1>5. QED
  BY <1>3, <1>4, OneLink

(* An accepted connection keeps the words that came before. *)
LEMMA AcceptWords ==
  ASSUME link \in Conns(Words), NEW c \in Clients, Link!Accept(c)
  PROVE  /\ link' \in Conns(Words) /\ \A d \in Clients \ {c} : link'[d] = link[d]
         /\ link'[c].srv = "open" /\ link'[c].cli = link[c].cli /\ link'[c].rst = link[c].rst
         /\ link'[c].c2s = link[c].c2s /\ link'[c].s2c = link[c].s2c
  BY DEF Conn, Conns, Link!Accept

(* ... and the transfers.                                                  *)
LEMMA SrvTakeWords ==
  ASSUME link \in Conns(Words), NEW c \in Clients, NEW n \in Nat, n <= Len(link[c].c2s),
         Link!SrvTake(c, n)
  PROVE  /\ link' \in Conns(Words) /\ \A d \in Clients \ {c} : link'[d] = link[d]
         /\ link'[c].srv = link[c].srv /\ link'[c].cli = link[c].cli /\ link'[c].rst = link[c].rst
         /\ link'[c].c2s = SubSeq(link[c].c2s, n + 1, Len(link[c].c2s))
         /\ link'[c].s2c = link[c].s2c
<1>1. link[c].c2s \in Seq(Int)
  BY DEF Conns, Conn, Words
<1>2. PICK q \in Words : q = SubSeq(link[c].c2s, n + 1, Len(link[c].c2s))
  BY <1>1, RestProperties DEF Words
<1>3. PICK l : l = [link[c] EXCEPT !.c2s = q]
  OBVIOUS
<1>4. /\ l \in Conn(Words) /\ l.srv = link[c].srv /\ l.cli = link[c].cli /\ l.rst = link[c].rst
      /\ l.c2s = q /\ l.s2c = link[c].s2c
  BY <1>3 DEF Conn, Conns, Words
<1>5. link' = [link EXCEPT ![c] = l]
  BY <1>2, <1>3 DEF Link!SrvTake, Link!Rest
<1>6. QED
  BY <1>2, <1>4, <1>5, OneLink

(* Words that the server sends come behind those on the way, unless the    *)
(* client is gone.                                                         *)
LEMMA SrvSendWords ==
  ASSUME link \in Conns(Words), NEW c \in Clients, NEW w \in Words, Link!SrvSend(c, w)
  PROVE  /\ link' \in Conns(Words) /\ \A d \in Clients \ {c} : link'[d] = link[d]
         /\ link'[c].srv = link[c].srv /\ link'[c].cli = link[c].cli /\ link'[c].rst = link[c].rst
         /\ link'[c].c2s = link[c].c2s
         /\ link'[c].s2c = IF link[c].cli THEN link[c].s2c \o w ELSE link[c].s2c
<1>1. link[c].s2c \in Seq(Int)
  BY DEF Conns, Conn, Words
<1>2. PICK q \in Words : q = IF link[c].cli THEN link[c].s2c \o w ELSE link[c].s2c
  BY <1>1, ConcatProperties DEF Words
<1>3. PICK l : l = [link[c] EXCEPT !.s2c = q]
  OBVIOUS
<1>4. /\ l \in Conn(Words) /\ l.srv = link[c].srv /\ l.cli = link[c].cli /\ l.rst = link[c].rst
      /\ l.c2s = link[c].c2s /\ l.s2c = q
  BY <1>3 DEF Conn, Conns, Words
<1>5. link' = [link EXCEPT ![c] = l]
  BY <1>2, <1>3 DEF Link!SrvSend
<1>6. QED
  BY <1>2, <1>4, <1>5, OneLink

(* What a client receives is taken from the front. *)
LEMMA CliTakeWords ==
  ASSUME link \in Conns(Words), NEW c \in Clients, NEW n \in Nat, n <= Len(link[c].s2c),
         Link!CliTake(c, n)
  PROVE  /\ link' \in Conns(Words) /\ \A d \in Clients \ {c} : link'[d] = link[d]
         /\ link'[c].srv = link[c].srv /\ link'[c].cli = link[c].cli /\ link'[c].rst = link[c].rst
         /\ link'[c].c2s = link[c].c2s
         /\ link'[c].s2c = SubSeq(link[c].s2c, n + 1, Len(link[c].s2c))
<1>1. link[c].s2c \in Seq(Int)
  BY DEF Conns, Conn, Words
<1>2. PICK q \in Words : q = SubSeq(link[c].s2c, n + 1, Len(link[c].s2c))
  BY <1>1, RestProperties DEF Words
<1>3. PICK l : l = [link[c] EXCEPT !.s2c = q]
  OBVIOUS
<1>4. /\ l \in Conn(Words) /\ l.srv = link[c].srv /\ l.cli = link[c].cli /\ l.rst = link[c].rst
      /\ l.c2s = link[c].c2s /\ l.s2c = q
  BY <1>3 DEF Conn, Conns, Words
<1>5. link' = [link EXCEPT ![c] = l]
  BY <1>2, <1>3 DEF Link!CliTake, Link!Rest
<1>6. QED
  BY <1>2, <1>4, <1>5, OneLink

(* What a client sends is all that is on its way if nothing was. *)
LEMMA CliSendWords ==
  ASSUME link \in Conns(Words), NEW c \in Clients, NEW w \in Words, Link!CliSend(c, w)
  PROVE  /\ link' \in Conns(Words) /\ \A d \in Clients \ {c} : link'[d] = link[d]
         /\ link'[c].srv = link[c].srv /\ link'[c].cli = link[c].cli /\ link'[c].rst = link[c].rst
         /\ link'[c].s2c = link[c].s2c
         /\ link[c].c2s = <<>> => link'[c].c2s = w
         /\ link'[c].c2s = link[c].c2s \o w
         /\ w # <<>> => link'[c].c2s # <<>>
<1>1. PICK p \in Seq(Int) : p = link[c].c2s
  BY DEF Conns, Conn, Words
<1>2. /\ p \o w \in Words /\ Len(p \o w) = Len(p) + Len(w)
      /\ Len(p) \in Nat /\ Len(w) \in Nat
  BY <1>1, ConcatProperties, LenProperties DEF Words
<1>3. w # <<>> => p \o w # <<>>
  <2>1. ASSUME w # <<>>
        PROVE  Len(p \o w) # 0
    <3>1. PICK m, n \in Nat : m = Len(p) /\ n = Len(w)
      BY <1>2
    <3>2. n # 0
      BY <2>1, <3>1, EmptySeq DEF Words
    <3>3. QED
      BY <1>2, <3>1, <3>2
  <2>2. QED
    BY <1>2, <2>1, EmptySeq DEF Words
<1>4. p = <<>> => p \o w = w
  BY ConcatEmptySeq DEF Words
<1>5. PICK q \in Words : q = p \o w
  BY <1>2
<1>6. PICK l : l = [link[c] EXCEPT !.c2s = q]
  OBVIOUS
<1>7. /\ l \in Conn(Words) /\ l.srv = link[c].srv /\ l.cli = link[c].cli /\ l.rst = link[c].rst
      /\ l.c2s = q /\ l.s2c = link[c].s2c
  BY <1>6 DEF Conn, Conns, Words
<1>8. link' = [link EXCEPT ![c] = l]
  BY <1>1, <1>5, <1>6 DEF Link!CliSend
<1>9. QED
  BY <1>1, <1>3, <1>4, <1>5, <1>7, <1>8, OneLink

-----------------------------------------------------------------------------
(* Read requests in a row *)

(* An empty stream has none. *)
LEMMA NothingAsked ==
  ASSUME NEW o, NEW more
  PROVE  Asked(<<>>, o, more)
<1>1. 1 .. Len(<<>>) = {}
  OBVIOUS
<1>2. QED
  BY <1>1, Zenon DEF Asked

(* That no more come says less of them. *)
LEMMA AskedLess ==
  ASSUME NEW q, NEW o, NEW more \in BOOLEAN, NEW less \in BOOLEAN, less => more,
         Asked(q, o, more)
  PROVE  Asked(q, o, less)
  BY DEF Asked

(* The first word of a stream is the command of a read, with its argument  *)
(* behind it, or the deinit at its end.                                    *)
LEMMA AskedCommand ==
  ASSUME NEW q \in Words, q # <<>>, NEW more \in BOOLEAN, Asked(q, 0, more),
         NEW rest, rest = SubSeq(q, 2, Len(q))
  PROVE  \/ q[1] \in Reads /\ rest # <<>> /\ Asked(rest, 1, more)
         \/ q[1] = DEINIT /\ rest = <<>> /\ ~more
<1>1. PICK n \in Nat : n = Len(q) - 1 /\ Len(q) = n + 1
  <2>1. Len(q) \in Nat /\ Len(q) # 0
    BY EmptySeq, LenProperties DEF Words
  <2>2. Len(q) - 1 \in Nat /\ Len(q) = (Len(q) - 1) + 1
    BY <2>1
  <2>3. QED
    BY <2>2
<1>2. /\ rest \in Words /\ Len(rest) = n /\ (rest = <<>> <=> n = 0)
      /\ \A k \in 1 .. n : rest[k] = q[1 + k]
  <2>1. /\ SubSeq(q, 1 + 1, Len(q)) \in Seq(Int)
        /\ Len(SubSeq(q, 1 + 1, Len(q))) = Len(q) - 1
        /\ \A k \in 1 .. Len(q) - 1 : SubSeq(q, 1 + 1, Len(q))[k] = q[1 + k]
    BY <1>1, RestProperties DEF Words
  <2>2. 1 + 1 = 2
    OBVIOUS
  <2>3. rest \in Words /\ Len(rest) = n /\ \A k \in 1 .. n : rest[k] = q[1 + k]
    BY <1>1, <2>1, <2>2 DEF Words
  <2>4. QED
    BY <2>3, EmptySeq DEF Words
<1>3. \/ q[1] \in Reads /\ n # 0
      \/ ~more /\ q[1] = DEINIT /\ n = 0
  <2>1. 1 \in 1 .. Len(q) /\ (1 + 0) % 2 = 1
    BY <1>1
  <2>2. QED
    BY <1>1, <2>1 DEF Asked
<1>4. Asked(rest, 1, more)
  <2>1. ASSUME NEW j \in 1 .. n
        PROVE  /\ 1 + j \in 1 .. Len(q) /\ rest[j] = q[1 + j]
               /\ (j + 1) % 2 = 1 <=> (1 + j + 0) % 2 = 1
               /\ j < n <=> 1 + j < Len(q)
               /\ j = n <=> 1 + j = Len(q)
    BY <1>1, <1>2
  <2>2. QED
    BY <1>2, <2>1 DEF Asked
<1>5. QED
  BY <1>2, <1>3, <1>4

(* Without the argument that comes first, whole requests are left.         *)
LEMMA AskedArgument ==
  ASSUME NEW q \in Words, q # <<>>, NEW more \in BOOLEAN, Asked(q, 1, more),
         NEW rest, rest = SubSeq(q, 2, Len(q))
  PROVE  q[1] \in Nat /\ Asked(rest, 0, more)
<1>1. PICK n \in Nat : n = Len(q) - 1 /\ Len(q) = n + 1
  <2>1. Len(q) \in Nat /\ Len(q) # 0
    BY EmptySeq, LenProperties DEF Words
  <2>2. Len(q) - 1 \in Nat /\ Len(q) = (Len(q) - 1) + 1
    BY <2>1
  <2>3. QED
    BY <2>2
<1>2. Len(rest) = n /\ \A k \in 1 .. n : rest[k] = q[1 + k]
  <2>1. /\ Len(SubSeq(q, 1 + 1, Len(q))) = Len(q) - 1
        /\ \A k \in 1 .. Len(q) - 1 : SubSeq(q, 1 + 1, Len(q))[k] = q[1 + k]
    BY <1>1, RestProperties DEF Words
  <2>2. 1 + 1 = 2
    OBVIOUS
  <2>3. QED
    BY <1>1, <2>1, <2>2
<1>3. q[1] \in Nat
  <2>1. 1 \in 1 .. Len(q) /\ (1 + 1) % 2 # 1
    BY <1>1
  <2>2. QED
    BY <2>1 DEF Asked
<1>4. Asked(rest, 0, more)
  <2>1. ASSUME NEW j \in 1 .. n
        PROVE  /\ 1 + j \in 1 .. Len(q) /\ rest[j] = q[1 + j]
               /\ (j + 0) % 2 = 1 <=> (1 + j + 1) % 2 = 1
               /\ j < n <=> 1 + j < Len(q)
               /\ j = n <=> 1 + j = Len(q)
    BY <1>1, <1>2
  <2>2. QED
    BY <1>2, <2>1 DEF Asked
<1>5. QED
  BY <1>3, <1>4

(* A request joins those that wait. *)
LEMMA AskedMore ==
  ASSUME NEW q \in Words, NEW o \in {0, 1}, o = 1 => q # <<>>, Asked(q, o, TRUE),
         NEW w \in Words, NEW more \in BOOLEAN,
         \/ Len(w) = 2 /\ w[1] \in Reads /\ w[2] \in Nat
         \/ Len(w) = 1 /\ w[1] = DEINIT /\ ~more
  PROVE  Asked(q \o w, o, more)
<1>1. PICK m, n \in Nat : m = Len(q) /\ n = Len(w) /\ n \in {1, 2}
  BY LenProperties DEF Words
<1>2. PICK r : r = q \o w
  OBVIOUS
<1>3. /\ Len(r) = m + n
      /\ \A k \in 1 .. m + n : r[k] = IF k <= m THEN q[k] ELSE w[k - m]
  <2>1. /\ Len(q \o w) = Len(q) + Len(w)
        /\ \A k \in 1 .. Len(q) + Len(w) :
              (q \o w)[k] = IF k <= Len(q) THEN q[k] ELSE w[k - Len(q)]
    BY ConcatProperties DEF Words
  <2>2. QED
    BY <1>1, <1>2, <2>1, Zenon
<1>4. (m + o) % 2 = 0
  <2>1. CASE m = 0
    <3>1. q = <<>>
      BY <1>1, <2>1, EmptySeq DEF Words
    <3>2. o = 0
      BY <3>1
    <3>3. QED
      BY <2>1, <3>2
  <2>2. CASE m # 0
    <3>1. m \in 1 .. Len(q) /\ ~(m < Len(q))
      BY <1>1, <2>2
    <3>2. (m + o) % 2 # 1
      BY <3>1 DEF Asked
    <3>3. QED
      BY <3>2
  <2>3. QED
    BY <2>1, <2>2
<1>5. ASSUME NEW j \in 1 .. m + n
      PROVE  IF (j + o) % 2 = 1
             THEN \/ r[j] \in Reads /\ j < m + n
                  \/ ~more /\ r[j] = DEINIT /\ j = m + n
             ELSE r[j] \in Nat
  <2>1. CASE j <= m
    <3>1. j \in 1 .. Len(q) /\ r[j] = q[j] /\ j < m + n
      BY <1>1, <1>3, <2>1
    <3>2. QED
      BY <3>1 DEF Asked
  <2>2. CASE j = m + 1
    <3>1. (j + o) % 2 = 1
      BY <1>4, <2>2
    <3>2. r[j] = w[1]
      <4>1. ~(j <= m) /\ j - m = 1
        BY <2>2
      <4>2. QED
        BY <1>3, <4>1
    <3>3. \/ n = 2 /\ w[1] \in Reads
          \/ n = 1 /\ w[1] = DEINIT /\ ~more
      BY <1>1
    <3>4. QED
      BY <2>2, <3>1, <3>2, <3>3
  <2>3. CASE j > m + 1
    <3>1. n = 2 /\ j = m + 2
      BY <1>1, <2>3
    <3>2. (j + o) % 2 # 1
      BY <1>4, <3>1
    <3>3. r[j] = w[2]
      <4>1. ~(j <= m) /\ j - m = 2
        BY <3>1
      <4>2. QED
        BY <1>3, <4>1
    <3>4. QED
      BY <1>1, <3>1, <3>2, <3>3
  <2>4. QED
    BY <2>1, <2>2, <2>3
<1>6. QED
  BY <1>2, <1>3, <1>5 DEF Asked

-----------------------------------------------------------------------------
(* What others do to a dump *)

(* The history of the system only grows. *)
Recorded ==
    /\ (badCopy => badCopy') /\ (freeFailed => freeFailed')
    /\ acquired \subseteq acquired' /\ slipped \subseteq slipped'

(* The types of a run and its connection. *)
LEMMA RunTypes ==
  ASSUME Types, NEW c \in Clients
  PROVE  /\ link[c].cli \in BOOLEAN /\ link[c].rst \in BOOLEAN
         /\ link[c].srv \in {"none", "backlog", "open", "closed"}
         /\ link[c].c2s \in Words /\ link[c].s2c \in Words
         /\ cl[c].i \in Nat /\ cl[c].header \in Words /\ cl[c].got \in Words
         /\ cl[c].file \in Words /\ cl[c].phase \in {"send", "header", "loop"}
         /\ cl[c].op \in {"connect", "ping", "mbr", "init", "cluster", "sector",
                          "deinit", "close", "exit"}
         /\ cl[c].ret \in {"none", "ok", "failed"}
         /\ Len(link[c].c2s) \in Nat /\ Len(link[c].s2c) \in Nat /\ Len(cl[c].header) \in Nat
         /\ Len(cl[c].got) \in Nat /\ Len(cl[c].file) \in Nat /\ Received(c) \in Nat
<1>1. /\ link[c].cli \in BOOLEAN /\ link[c].rst \in BOOLEAN
      /\ link[c].srv \in {"none", "backlog", "open", "closed"}
      /\ link[c].c2s \in Words /\ link[c].s2c \in Words
  BY DEF Types, Conns, Conn, Words
<1>2. /\ cl[c].i \in Nat /\ cl[c].header \in Words /\ cl[c].got \in Words
      /\ cl[c].file \in Words /\ cl[c].phase \in {"send", "header", "loop"}
      /\ cl[c].op \in {"connect", "ping", "mbr", "init", "cluster", "sector",
                       "deinit", "close", "exit"}
      /\ cl[c].ret \in {"none", "ok", "failed"}
  BY DEF Types, C!ClientType, Words
<1>3. \A q \in Words : Len(q) \in Nat
  BY LenProperties DEF Words
<1>4. PICK a, b, n \in Nat : /\ a = Len(cl[c].header) /\ b = Len(cl[c].got)
                             /\ n = Len(link[c].s2c)
  BY <1>1, <1>2, <1>3
<1>5. Received(c) = a + b + n
  BY <1>4 DEF Received
<1>6. a + b + n \in Nat
  OBVIOUS
<1>7. QED
  BY <1>1, <1>2, <1>3, <1>4, <1>5, <1>6

(* A response stays one when its client stays at its place. *)
LEMMA ResponseKept ==
  ASSUME NEW c \in Clients, NEW R, Response(c, R), Recorded,
         cl'[c].op = cl[c].op, cl'[c].i = cl[c].i
  PROVE  Response(c, R)'
  BY DEF Response, TailWord, Recorded

(* Content and progress depend on the run alone. *)
LEMMA FileKept ==
  ASSUME NEW c \in Clients, Progress(c), Content(c), Recorded, cl'[c] = cl[c]
  PROVE  Progress(c)' /\ Content(c)'
<1>1. Progress(c)'
  BY DEF Progress
<1>2. Content(c)'
  BY DEF Content, RightWord, LastZero, Recorded
<1>3. QED
  BY <1>1, <1>2

(* A client without answers stays so when nothing more is sent to it.      *)
LEMMA StuckKept ==
  ASSUME NEW c \in Clients, Stuck(c), cl'[c] = cl[c],
         link'[c].s2c \in {link[c].s2c, <<>>},
         link[c].rst => link'[c].rst, Over(c) => Over(c)'
  PROVE  Stuck(c)'
<1>1. Cheated(c)' <=> Cheated(c)
  BY DEF Cheated, RightWord
<1>2. QED
  BY <1>1 DEF Stuck

(* The parts of an answer that are there, without what is still to come,   *)
(* stay parts of it when what is on the way is lost.                       *)
LEMMA CutParts ==
  ASSUME Types, NEW c \in Clients, NEW R \in Seq(Int), Parts(c, R), cl'[c] = cl[c],
         link'[c].s2c \in {link[c].s2c, <<>>}
  PROVE  /\ Matches(cl'[c].header, R, 0)
         /\ Matches(cl'[c].got, R, Len(cl'[c].header))
         /\ Matches(link'[c].s2c, R, Len(cl'[c].header) + Len(cl'[c].got))
<1>1. PICK a, b, n \in Nat : /\ a = Len(cl[c].header) /\ b = Len(cl[c].got)
                             /\ n = Len(link[c].s2c)
  BY RunTypes
<1>2. PICK m \in Nat : m = Len(R)
  BY LenProperties
<1>3. a + b + n <= m
  BY <1>1, <1>2 DEF Parts, Matches
<1>4. a + b \in Nat /\ a + b <= m
  BY <1>3
<1>5. Matches(<<>>, R, a + b)
  BY <1>2, <1>4, MatchesNone
<1>6. QED
  BY <1>1, <1>5 DEF Parts

(* Of a connection that is not served the client keeps its place, also     *)
(* when it is cut.                                                         *)
LEMMA UnservedKeeps ==
  ASSUME Types, NEW c \in Clients, Dumping(c), Recorded, cl'[c] = cl[c],
         link'[c].cli = link[c].cli,
         \/ link'[c] = link[c]
         \/ /\ Cut(link[c], link'[c]) /\ link'[c].srv \in {link[c].srv, "closed"}
            /\ link[c].srv = "none" => link'[c].srv = "none",
         \A place \in Session : Serves(c, place) => link[c].srv = "open",
         link'[c].srv # "open", ~(cli_sock' = c /\ pc' \in Session)
  PROVE  Dumping(c)'
<1> USE DEF Dumping
<1>1. /\ link'[c].srv \in {link[c].srv, "closed"}
      /\ link[c].srv = "none" => link'[c].srv = "none"
      /\ link'[c].c2s \in {link[c].c2s, <<>>} /\ link'[c].s2c \in {link[c].s2c, <<>>}
      /\ link[c].rst => link'[c].rst
      /\ link'[c].rst => link'[c].c2s = <<>> /\ link'[c].s2c = <<>>
  BY DEF Cut, Ends
<1>2. \A place \in Session : ~Serves(c, place)'
  BY DEF Serves
<1>3. ~Serves(c, "recv")' /\ ~Serves(c, "handle")' /\ ~Serves(c, "send")'
  BY <1>2 DEF Session
<1>4. Fresh(c) => Fresh(c)'
  <2>1. PICK a, b, n \in Nat : /\ a = Len(cl[c].header) /\ b = Len(cl[c].got)
                               /\ n = Len(link[c].s2c)
    BY RunTypes
  <2>2. Len(link'[c].s2c) \in {n, 0}
    BY <1>1, <2>1, EmptySeq
  <2>3. PICK m \in {n, 0} : m = Len(link'[c].s2c)
    BY <2>2
  <2>4. Received(c) = a + b + n /\ Received(c)' = a + b + m
    <3>1. Len(cl'[c].header) = a /\ Len(cl'[c].got) = b
      BY <2>1
    <3>2. QED
      BY <2>1, <2>3, <3>1, Zenon DEF Received
  <2>5. a + b + n = 0 => a + b + m = 0
    <3>1. m = n \/ m = 0
      BY <2>3
    <3>2. QED
      BY <3>1
  <2>6. cl'[c].phase = cl[c].phase
    OBVIOUS
  <2>7. QED
    BY <2>4, <2>5, <2>6 DEF Fresh
<1>5. C!Request(c)' = C!Request(c)
  BY DEF C!Request
<1>6. Queue(c)'
  BY <1>1, <1>3, <1>4, <1>5 DEF Queue
<1>7. Hand(c)' /\ Replies(c)'
  BY <1>3 DEF Hand, Replies
<1>8. Ends(c)'
  <2>1. cl'[c].ret = "ok" => link'[c].srv = "closed" \/ link'[c].c2s = <<>>
    BY <1>1 DEF Ends, Session
  <2>2. QED
    BY <1>1, <1>3, <2>1 DEF Ends
<1>9. Phases(c)'
  BY <1>1 DEF Phases
<1>10. Progress(c)' /\ Content(c)'
  BY FileKept
<1>11. Unpooled(c)'
  BY DEF Unpooled
<1>12. Ending(c) \/ Serves(c, "send") => Over(c)'
  <2>1. Serves(c, "close") \/ Serves(c, "send") => link'[c].srv = "closed"
    BY <1>1 DEF Session
  <2>2. QED
    BY <1>1, <2>1 DEF Ending, Over
<1>13. ASSUME NEW R \in Seq(Int), Parts(c, R), cl[c].phase # "send"
       PROVE  Parts(c, R)'
  <2>1. /\ Matches(cl'[c].header, R, 0)
        /\ Matches(cl'[c].got, R, Len(cl'[c].header))
        /\ Matches(link'[c].s2c, R, Len(cl'[c].header) + Len(cl'[c].got))
    BY <1>1, <1>13, CutParts
  <2>2. ~link'[c].rst => ~link[c].rst /\ link'[c].s2c = link[c].s2c
    BY <1>1, <1>13 DEF Cut, Phases
  <2>3. ~link'[c].rst => Received(c)' = Received(c)
    BY <2>2 DEF Received
  <2>4. QED
    BY <1>3, <1>12, <1>13, <2>1, <2>2, <2>3 DEF Parts, Ending
<1>14. \A R \in Seq(Int) : Told(c, R) => Told(c, R)'
  BY <1>12 DEF Told, TailWord, Ending
<1>15. Answer(c)'
  BY <1>13, <1>14, ResponseKept DEF Answer
<1>16. Stuck(c)'
  BY <1>1, <1>12, StuckKept DEF Over, Ending
<1>17. QED
  BY <1>6, <1>7, <1>8, <1>9, <1>10, <1>11, <1>15, <1>16

(* A step that leaves the connection and the run of a client alone, and of *)
(* the server what bears upon them, leaves its dump alone.                 *)
LEMMA OthersKeep ==
  ASSUME NEW c \in Clients, Dumping(c), cl'[c] = cl[c], link'[c] = link[c],
         UNCHANGED <<pc, cli_sock, cmd, out, after, upool, badCopy, freeFailed, acquired>>,
         slipped \subseteq slipped'
  PROVE  Dumping(c)'
<1> USE DEF Dumping, Serves
<1>1. Queue(c)' /\ Hand(c)'
  BY DEF Queue, Hand, Fresh, Received, Alive, C!Request
<1>2. Replies(c)' /\ Ends(c)' /\ Phases(c)'
  BY DEF Replies, Ends, Phases, Alive
<1>3. Progress(c)' /\ Content(c)'
  <2>1. Recorded
    BY DEF Recorded
  <2>2. QED
    BY <2>1, FileKept
<1>4. Unpooled(c)'
  BY DEF Unpooled, Alive, Closing, Past
<1>5. Answer(c)'
  <2>1. Recorded
    BY DEF Recorded
  <2>2. \A R : Response(c, R) => Response(c, R)'
    BY <2>1, ResponseKept
  <2>3. Received(c)' = Received(c)
    BY DEF Received
  <2>4. \A R : Parts(c, R) => Parts(c, R)'
    BY <2>3 DEF Parts, Over
  <2>5. \A R : Told(c, R) => Told(c, R)'
    BY DEF Told, TailWord, Ending, Over
  <2>6. QED
    BY <2>2, <2>4, <2>5 DEF Answer
<1>6. Stuck(c)'
  BY StuckKept DEF Over
<1>7. QED
  BY <1>1, <1>2, <1>3, <1>4, <1>5, <1>6

(* A reset loses what is on its way; the server and the client find out. *)
LEMMA ResetKeeps ==
  ASSUME Types, NEW c \in Clients, Dumping(c), cl'[c] = cl[c],
         UNCHANGED <<pc, cli_sock, cmd, out, after, upool, badCopy, freeFailed, acquired>>,
         slipped \subseteq slipped',
         Cut(link[c], link'[c]), link'[c].rst,
         link'[c].cli = link[c].cli, link'[c].srv = link[c].srv
  PROVE  Dumping(c)'
<1> USE DEF Dumping
<1>1. link'[c].rst /\ link'[c].c2s = <<>> /\ link'[c].s2c = <<>>
  BY DEF Cut
<1>2. Recorded
  BY DEF Recorded
<1>3. \A place : Serves(c, place)' <=> Serves(c, place)
  BY DEF Serves
<1>4. Queue(c)' /\ Unpooled(c)'
  BY <1>1 DEF Queue, Unpooled, Alive
<1>5. Hand(c)'
  BY <1>1, <1>3 DEF Hand, Alive
<1>6. Replies(c)' /\ Ends(c)'
  BY <1>1, <1>3 DEF Replies, Ends, Alive
<1>7. Phases(c)'
  BY <1>1 DEF Phases
<1>8. Progress(c)' /\ Content(c)'
  BY <1>2, FileKept
<1>9. ASSUME NEW R \in Seq(Int), Parts(c, R)
      PROVE  Parts(c, R)'
  <2>1. /\ Matches(cl'[c].header, R, 0)
        /\ Matches(cl'[c].got, R, Len(cl'[c].header))
        /\ Matches(link'[c].s2c, R, Len(cl'[c].header) + Len(cl'[c].got))
    BY <1>1, <1>9, CutParts
  <2>2. QED
    BY <1>1, <2>1 DEF Parts
<1>10. \A R : Told(c, R) => Told(c, R)'
  BY <1>3 DEF Told, TailWord, Ending, Over
<1>11. Answer(c)'
  BY <1>2, <1>9, <1>10, ResponseKept DEF Answer
<1>12. Stuck(c)'
  BY <1>1, <1>3, StuckKept DEF Over
<1>13. QED
  BY <1>4, <1>5, <1>6, <1>7, <1>8, <1>11, <1>12

(* Steps that a client which has lost its place has no part in leave it    *)
(* there: of a connection that is not served,                              *)
LEMMA UnservedOff ==
  ASSUME Types, NEW c \in Clients, Off(c), cl'[c] = cl[c],
         slipped \subseteq slipped', link'[c].cli = link[c].cli,
         \/ link'[c] = link[c]
         \/ /\ Cut(link[c], link'[c]) /\ link'[c].srv \in {link[c].srv, "closed"}
            /\ link[c].srv = "none" => link'[c].srv = "none",
         link'[c].srv # "open", ~(cli_sock' = c /\ pc' \in Session)
  PROVE  Off(c)'
<1>1. /\ link'[c].srv = "closed"
      /\ link'[c].rst => link'[c].c2s = <<>> /\ link'[c].s2c = <<>>
  BY DEF Cut, Off
<1>2. ~Serves(c, "recv")' /\ ~Serves(c, "handle")' /\ ~Serves(c, "send")'
  BY DEF Serves, Session
<1>3. Waiting(c)'
  BY <1>2 DEF Waiting
<1>4. QED
  BY <1>1, <1>2, <1>3 DEF Off

(* of one that no step touches,                                            *)
LEMMA OthersOff ==
  ASSUME NEW c \in Clients, Off(c), cl'[c] = cl[c], link'[c] = link[c],
         slipped \subseteq slipped', UNCHANGED <<pc, cli_sock, cmd, out, after>>
  PROVE  Off(c)'
<1>1. Waiting(c)'
  BY DEF Off, Waiting, Serves, Going, Alive
<1>2. QED
  BY <1>1 DEF Off, Serves

(* and of one that is reset.                                               *)
LEMMA ResetOff ==
  ASSUME NEW c \in Clients, Off(c), cl'[c] = cl[c],
         slipped \subseteq slipped', UNCHANGED <<pc, cli_sock, cmd, out, after>>,
         Cut(link[c], link'[c]), link'[c].rst,
         link'[c].cli = link[c].cli, link'[c].srv = link[c].srv
  PROVE  Off(c)'
<1>1. link'[c].rst /\ link'[c].c2s = <<>> /\ link'[c].s2c = <<>>
  BY DEF Cut
<1>2. Going(c)' <=> Going(c)
  BY DEF Going
<1>3. Waiting(c)'
  BY <1>1, <1>2, NothingAsked DEF Off, Waiting, Serves, Alive
<1>4. QED
  BY <1>1, <1>3 DEF Off, Serves

(* The same for a client of either kind.                                   *)
LEMMA UnservedKnown ==
  ASSUME Types, NEW c \in Clients, Known(c), Recorded, cl'[c] = cl[c],
         link'[c].cli = link[c].cli,
         \/ link'[c] = link[c]
         \/ /\ Cut(link[c], link'[c]) /\ link'[c].srv \in {link[c].srv, "closed"}
            /\ link[c].srv = "none" => link'[c].srv = "none",
         \A place \in Session : Serves(c, place) => link[c].srv = "open",
         link'[c].srv # "open", ~(cli_sock' = c /\ pc' \in Session)
  PROVE  Known(c)'
<1>1. CASE Dumping(c)
  BY <1>1, UnservedKeeps DEF Known
<1>2. CASE Off(c)
  BY <1>2, UnservedOff DEF Known, Recorded
<1>3. QED
  BY <1>1, <1>2 DEF Known

(* ... of which no step touches anything, ...                              *)
LEMMA OthersKnown ==
  ASSUME NEW c \in Clients, Known(c), cl'[c] = cl[c], link'[c] = link[c],
         UNCHANGED <<pc, cli_sock, cmd, out, after, upool, badCopy, freeFailed, acquired>>,
         slipped \subseteq slipped'
  PROVE  Known(c)'
  BY OthersKeep, OthersOff DEF Known

(* ... and whose connection is reset.                                      *)
LEMMA ResetKnown ==
  ASSUME Types, NEW c \in Clients, Known(c), cl'[c] = cl[c],
         UNCHANGED <<pc, cli_sock, cmd, out, after, upool, badCopy, freeFailed, acquired>>,
         slipped \subseteq slipped',
         Cut(link[c], link'[c]), link'[c].rst,
         link'[c].cli = link[c].cli, link'[c].srv = link[c].srv
  PROVE  Known(c)'
  BY ResetKeeps, ResetOff DEF Known

-----------------------------------------------------------------------------
(* The pools and their holder over a step that has nothing to do with them *)

(* What a step of the server says of the history. *)
Noted ==
    /\ acquired' = IF upool.init = 0 /\ upool'.init = 1
                   THEN acquired \cup {cli_sock} ELSE acquired
    /\ freeFailed' = (freeFailed \/ (/\ pc = "handle" /\ cmd = DEINIT /\ upool.init # 0
                                    /\ kpool.init = 1 /\ kpool'.init = 1))
    /\ slipped' = slipped

(* Only a change of the server's flag or a release can change what is      *)
(* recorded of the pools.                                                  *)
LEMMA NothingNoted ==
  ASSUME Types, Noted, upool'.init \in {0, upool.init},
         ~(pc = "handle" /\ cmd = DEINIT /\ upool.init # 0)
  PROVE  acquired' = acquired /\ freeFailed' = freeFailed /\ slipped' = slipped
  BY DEF Types, Noted

(* What is said of the pools stays true as long as they do. *)
LEMMA PoolsAlone ==
  ASSUME Geometry, Fit, CopiesFit,
         UNCHANGED <<upool, ubuf, kpool, badCopy, freeFailed>>
  PROVE  Geometry' /\ Fit' /\ CopiesFit'
  BY DEF Geometry, Fit, CopiesFit

(* A step that sets up no pool and at which clients stay leaves the holder *)
(* of a set pool one if it leaves it one while it is connected.            *)
LEMMA HolderKept ==
  ASSUME Types, Holder, acquired \subseteq acquired', faults' = 0 => faults = 0,
         upool'.init = 1 => upool.init = 1,
         \A d \in Clients : cl'[d] = cl[d] /\ link'[d].cli = link[d].cli,
         \A d \in Clients : ~ShortRecv /\ faults' = 0 /\ Keeps(d) /\ link[d].cli => Keeps(d)'
  PROVE  Holder'
<1> SUFFICES ASSUME ~ShortRecv, faults' = 0, upool'.init = 1
             PROVE  \E d \in Clients : Keeps(d)'
  BY DEF Holder
<1>1. PICK d \in Clients : Keeps(d)
  BY DEF Holder
<1>2. CASE link[d].cli
  BY <1>1, <1>2
<1>3. CASE ~link[d].cli
  <2>1. Keeps(d)'
    BY <1>1, <1>3 DEF Keeps
  <2>2. QED
    BY <2>1
<1>4. QED
  BY <1>2, <1>3

(* A connected holder is the one that is served.                           *)
LEMMA HolderServed ==
  ASSUME ServerInv, NEW d \in Clients, Keeps(d), link[d].cli
  PROVE  /\ cli_sock = d /\ pc \in {"recv", "handle", "send"} /\ Alive(d)
         /\ pc = "send" => after = "recv"
<1>1. link[d].srv = "open" /\ ~link[d].rst /\ ~Closing
  BY DEF Keeps
<1>2. cli_sock = d /\ pc \in Session
  BY <1>1 DEF ServerInv, Sockets
<1>3. QED
  BY <1>1, <1>2 DEF ServerInv, Sockets, Session, Closing, Alive

-----------------------------------------------------------------------------
(* The server's process *)

(* Starting, stopping and killing the server, and closing a connection,    *)
(* keep what is said of each client.                                       *)
LEMMA ProcessDumps ==
  ASSUME Inv, Recorded, cl' = cl, NEW c \in Clients,
         init_net \/ deinit_net \/ exit \/ kill \/ launch \/ close_client
  PROVE  Known(c)' /\ link' \in Conns(Words) /\ link'[c].cli = link[c].cli
<1> USE DEF Inv, Session
<1>1. Types /\ link \in Conns(Words) /\ Known(c)
  BY DEF Types
<1>2. \A place \in Session : Serves(c, place) => link[c].srv = "open"
  BY DEF ServerInv, Sockets, Serves
<1>3. link[c].srv = "open" => cli_sock = c /\ pc \in Session
  BY DEF ServerInv, Sockets
<1>4. CASE init_net \/ launch
  <2>1. link' = link /\ link[c].srv # "open" /\ pc' \notin Session
    BY <1>3, <1>4 DEF init_net, launch
  <2>2. Known(c)'
    BY <1>1, <1>2, <2>1, UnservedKnown
  <2>3. QED
    BY <1>1, <2>1, <2>2
<1>5. CASE deinit_net
  <2>1. Link!CloseListener /\ pc' \notin Session /\ link[c].srv # "open"
    BY <1>3, <1>5 DEF deinit_net
  <2>2. /\ link' \in Conns(Words) /\ link'[c].cli = link[c].cli
        /\ \/ link'[c] = link[c]
           \/ Cut(link[c], link'[c]) /\ link'[c].srv = "closed" /\ link[c].srv # "none"
    BY <1>1, <2>1, CloseListenerCut
  <2>3. Known(c)'
    BY <1>1, <1>2, <2>1, <2>2, UnservedKnown
  <2>4. QED
    BY <2>2, <2>3
<1>6. CASE exit \/ kill
  <2>1. Link!CloseAll /\ pc' \notin Session
    BY <1>6 DEF exit, kill, ProcessEnds
  <2>2. /\ link' \in Conns(Words) /\ link'[c].cli = link[c].cli
        /\ \/ link'[c] = link[c] /\ link[c].srv \in {"none", "closed"}
           \/ Cut(link[c], link'[c]) /\ link'[c].srv = "closed" /\ link[c].srv # "none"
    BY <1>1, <2>1, CloseAllCut
  <2>3. Known(c)'
    BY <1>1, <1>2, <2>1, <2>2, UnservedKnown
  <2>4. QED
    BY <2>2, <2>3
<1>7. CASE close_client
  <2>1. PICK d \in Clients : d = cli_sock
    BY <1>7 DEF ServerInv, Sockets, close_client
  <2>2. Link!SrvClose(d) /\ pc' \notin Session
    BY <1>7, <2>1 DEF close_client
  <2>3. /\ link' \in Conns(Words) /\ \A e \in Clients \ {d} : link'[e] = link[e]
        /\ Cut(link[d], link'[d]) /\ link'[d].cli = link[d].cli /\ link'[d].srv = "closed"
    BY <1>1, <2>2, SrvCloseCut
  <2>4. CASE c = d
    <3>1. link[c].srv # "none"
      BY <1>7, <2>1, <2>4 DEF ServerInv, Sockets, close_client
    <3>2. Known(c)'
      BY <1>1, <1>2, <2>2, <2>3, <2>4, <3>1, UnservedKnown
    <3>3. QED
      BY <2>3, <2>4, <3>2
  <2>5. CASE c # d
    <3>1. link[c].srv # "open" /\ link'[c] = link[c]
      BY <1>3, <2>1, <2>3, <2>5
    <3>2. Known(c)'
      BY <1>1, <1>2, <2>2, <3>1, UnservedKnown
    <3>3. QED
      BY <2>3, <3>1, <3>2
  <2>6. QED
    BY <2>4, <2>5
<1>8. QED
  BY <1>4, <1>5, <1>6, <1>7

(* An accepted connection begins with the client's ping. *)
LEMMA AcceptDumps ==
  ASSUME Inv, cl' = cl, UNCHANGED <<badCopy, freeFailed, acquired, slipped>>, NEW c \in Clients, accept
  PROVE  Known(c)' /\ link' \in Conns(Words) /\ link'[c].cli = link[c].cli
<1> USE DEF Inv
<1>1. Types /\ link \in Conns(Words) /\ Known(c)
  BY DEF Types
<1>2. Recorded
  BY DEF Recorded
<1>3. /\ pc = "accept" /\ link[c].srv # "open" /\ ~Serves(c, "close")
      /\ \A place \in Session : ~Serves(c, place)
  BY DEF ServerInv, Sockets, Session, Serves, accept
<1>4. CASE pc' = "deinit" /\ UNCHANGED link
  <2>1. Known(c)'
    BY <1>1, <1>2, <1>3, <1>4, UnservedKnown DEF Session
  <2>2. QED
    BY <1>1, <1>4, <2>1
<1>5. ASSUME NEW d \in Clients, link[d].srv = "backlog", Link!Accept(d), cli_sock' = d, pc' = "recv"
      PROVE  Known(c)' /\ link' \in Conns(Words) /\ link'[c].cli = link[c].cli
  <2>1. /\ link' \in Conns(Words) /\ \A e \in Clients \ {d} : link'[e] = link[e]
        /\ link'[d].srv = "open" /\ link'[d].cli = link[d].cli /\ link'[d].rst = link[d].rst
        /\ link'[d].c2s = link[d].c2s /\ link'[d].s2c = link[d].s2c
    BY <1>1, <1>5, AcceptWords
  <2>2. CASE c # d
    <3>1. link'[c] = link[c]
      BY <2>1, <2>2
    <3>2. Known(c)'
      BY <1>1, <1>2, <1>3, <1>5, <2>2, <3>1, UnservedKnown
    <3>3. QED
      BY <2>1, <3>1, <3>2
  <2>3. CASE c = d
    <3>11. Dumping(c)
      BY <1>1, <1>5, <2>3 DEF Known, Off
    <3> USE <3>11 DEF Dumping
    <3>1. Queue(c)'
      BY <1>1, <1>5, <2>1, <2>3 DEF Queue, Fresh, Received, C!Request
    <3>2. Hand(c)' /\ Replies(c)'
      BY <1>5 DEF Hand, Replies, Serves
    <3>3. Ends(c)'
      BY <1>1, <1>3, <1>5, <2>1, <2>3 DEF Ends, Serves
    <3>4. Phases(c)'
      BY <1>1, <1>5, <2>1, <2>3 DEF Phases
    <3>5. Progress(c)' /\ Content(c)'
      BY <1>1, <1>2, FileKept
    <3>6. Unpooled(c)'
      BY <1>1, <1>5, <2>1, <2>3 DEF Unpooled, Past, Alive, Ends
    <3>7. \A R : Response(c, R) => Response(c, R)'
      BY <1>2, ResponseKept
    <3>8. \A R : Parts(c, R) => Parts(c, R)'
      BY <1>3, <1>5, <2>1, <2>3 DEF Parts, Received, Over, Serves, Session
    <3>12. \A R : Told(c, R) => Told(c, R)'
      BY <1>3, <1>5, <2>1, <2>3 DEF Told, TailWord, Ending, Over, Serves, Session
    <3>9. Answer(c)'
      BY <1>1, <3>7, <3>8, <3>12 DEF Answer
    <3>13. Stuck(c)'
      BY <1>3, <1>5, <2>1, <2>3, StuckKept DEF Over
    <3>10. QED
      BY <2>1, <2>3, <3>1, <3>2, <3>3, <3>4, <3>5, <3>6, <3>9, <3>13 DEF Known
  <2>4. QED
    BY <2>2, <2>3
<1>6. QED
  BY <1>4, <1>5 DEF accept

-----------------------------------------------------------------------------
(* The session *)

(* A step of a session leaves the clients alone that are not served. *)
LEMMA Bystander ==
  ASSUME Inv, Recorded, cl' = cl, NEW c \in Clients, pc \in Session,
         cli_sock' = cli_sock, c # cli_sock, link'[c] = link[c]
  PROVE  Known(c)'
<1>1. /\ link[c].srv # "open" /\ ~(cli_sock' = c /\ pc' \in Session)
      /\ \A place \in Session : ~Serves(c, place)
  BY DEF Inv, ServerInv, Sockets, Serves
<1>2. QED
  BY <1>1, UnservedKnown DEF Inv

(* A session that is given up leaves everything in its place. *)
LEMMA GivenUp ==
  ASSUME Inv, Recorded, UNCHANGED <<link, cl, cli_sock>>, pc \in Session, pc' = "close",
         NEW c \in Clients
  PROVE  Known(c)'
<1>1. CASE c # cli_sock
  BY <1>1, Bystander
<1>2. CASE c = cli_sock /\ Dumping(c)
  <2> USE <1>2 DEF Dumping
  <2>1. link[c].srv = "open"
    BY <1>2 DEF Inv, ServerInv, Sockets
  <2>2. Queue(c)' /\ Hand(c)' /\ Replies(c)'
    BY <2>1 DEF Queue, Hand, Replies, Serves
  <2>3. Ends(c)' /\ Phases(c)'
    BY <1>2, <2>1 DEF Ends, Phases, Serves
  <2>4. Progress(c)' /\ Content(c)'
    BY <2>1, FileKept
  <2>5. Unpooled(c)'
    BY DEF Unpooled, Closing
  <2>6. \A R : Response(c, R) => Response(c, R)'
    BY ResponseKept
  <2>7. \A R : Parts(c, R) => Parts(c, R)'
    BY <1>2 DEF Parts, Serves, Received, Over
  <2>8. \A R : Told(c, R) => Told(c, R)'
    BY <1>2 DEF Told, TailWord, Ending, Serves, Over
  <2>9. Answer(c)'
    BY <2>1, <2>6, <2>7, <2>8 DEF Answer
  <2>11. Stuck(c)'
    BY <1>2, <2>1, StuckKept DEF Over, Serves
  <2>10. QED
    BY <2>2, <2>3, <2>4, <2>5, <2>9, <2>11 DEF Known
<1>3. CASE c = cli_sock /\ Off(c)
  <2>1. ~Serves(c, "recv")' /\ ~Serves(c, "handle")' /\ ~Serves(c, "send")'
    BY DEF Serves
  <2>2. Waiting(c)'
    BY <2>1 DEF Waiting
  <2>3. QED
    BY <1>3, <2>1, <2>2 DEF Off, Known, Recorded
<1>4. QED
  BY <1>1, <1>2, <1>3 DEF Inv, Known

(* The first word of a request is taken for the command. *)
LEMMA TakenDumps ==
  ASSUME Inv, UNCHANGED <<cl, cli_sock, upool, acquired, slipped, freeFailed, badCopy>>,
         pc = "recv", pc' = "handle",
         NEW d \in Clients, d = cli_sock, Inbox # <<>>, cmd' = Head(Inbox), Link!SrvTake(d, 1),
         NEW c \in Clients
  PROVE  Known(c)' /\ link' \in Conns(Words) /\ link'[c].cli = link[c].cli
<1>1. link \in Conns(Words) /\ link[d].c2s # <<>> /\ link[d].c2s \in Seq(Int)
  BY DEF Inv, Types, Inbox, Conns, Conn
<1>2. Len(link[d].c2s) \in Nat \ {0}
  BY <1>1, EmptySeq, LenProperties
<1>3. /\ link' \in Conns(Words) /\ \A e \in Clients \ {d} : link'[e] = link[e]
      /\ link'[d].srv = link[d].srv /\ link'[d].cli = link[d].cli /\ link'[d].rst = link[d].rst
      /\ link'[d].c2s = SubSeq(link[d].c2s, 2, Len(link[d].c2s))
      /\ link'[d].s2c = link[d].s2c
  <2>1. 1 <= Len(link[d].c2s) /\ 1 + 1 = 2
    BY <1>2
  <2>2. QED
    BY <1>1, <2>1, SrvTakeWords
<1>4. Recorded
  BY DEF Recorded
<1>5. CASE c # d
  <2>1. Known(c)'
    BY <1>3, <1>4, <1>5, Bystander DEF Session
  <2>2. QED
    BY <1>3, <1>5, <2>1
<1>6. CASE c = d /\ Dumping(c)
  <2> USE DEF Dumping
  <2>1. Dumping(c) /\ link[c].srv = "open" /\ Serves(c, "recv")
    BY <1>6 DEF Inv, ServerInv, Sockets, Session, Serves
  <2>2. PICK q \in Requests : q = link[c].c2s
    BY <1>1, <1>6, <2>1 DEF Queue
  <2>3. cmd' = q[1]
    <3>1. PICK p \in Seq(Int) : p = link[d].c2s
      BY <1>1
    <3>2. Head(p) = p[1]
      BY <1>1, <3>1
    <3>3. QED
      BY <1>6, <2>2, <3>1, <3>2 DEF Inbox
  <2>4. link[c].cli => q = C!Request(c) /\ Fresh(c)
    BY <1>1, <1>6, <2>1, <2>2 DEF Queue
  <2>5. Fresh(c)' = Fresh(c) /\ C!Request(c)' = C!Request(c)
    BY <1>3, <1>6 DEF Fresh, Received, C!Request
  <2>6. Queue(c)' /\ Replies(c)'
    BY <1>3, <1>6, <2>1 DEF Queue, Replies, Serves
  <2>7. Hand(c)'
    <3>1. link'[c].c2s = SubSeq(q, 2, Len(q))
      BY <1>3, <1>6, <2>2
    <3>2. Alive(c)' => link[c].cli
      BY <1>3, <1>6 DEF Alive
    <3>3. /\ cmd' = q[1]
          /\ ~link'[c].rst => link'[c].c2s = SubSeq(q, 2, Len(q))
          /\ Alive(c)' => q = C!Request(c)' /\ Fresh(c)'
      BY <2>3, <2>4, <2>5, <3>1, <3>2
    <3>4. QED
      BY <3>3 DEF Hand
  <2>8. ~link[c].rst /\ cl[c].ret # "ok"
    BY <1>1, <1>6, <2>1 DEF Ends, Serves
  <2>9. Ends(c)'
    BY <1>3, <1>6, <2>1, <2>8 DEF Ends
  <2>10. Phases(c)'
    BY <1>3, <1>6, <2>1 DEF Phases
  <2>11. Progress(c)' /\ Content(c)'
    BY <1>4, <2>1, FileKept
  <2>12. Unpooled(c)'
    BY <1>3, <1>6, <2>1 DEF Unpooled, Past, Alive, Closing
  <2>13. \A R : Response(c, R) => Response(c, R)'
    BY <1>4, ResponseKept
  <2>14. \A R : Parts(c, R) => Parts(c, R)'
    BY <1>3, <1>6, <2>1 DEF Parts, Received, Over, Serves
  <2>17. \A R : Told(c, R) => Told(c, R)'
    BY <1>3, <1>6, <2>1 DEF Told, TailWord, Ending, Over, Serves
  <2>15. Answer(c)'
    BY <2>1, <2>13, <2>14, <2>17 DEF Answer
  <2>18. Stuck(c)'
    BY <1>3, <1>6, <2>1, StuckKept DEF Over, Serves
  <2>16. QED
    BY <1>3, <1>6, <2>6, <2>7, <2>9, <2>10, <2>11, <2>12, <2>15, <2>18 DEF Known
<1>7. CASE c = d /\ Off(c)
  <2>1. PICK q \in Words : q = link[c].c2s
    BY <1>1, <1>7 DEF Words
  <2>2. Going(c) \in BOOLEAN /\ Going(c)' = Going(c)
    BY <1>3, <1>7 DEF Going
  <2>3. Asked(q, 0, Going(c)) /\ q # <<>>
    BY <1>1, <1>7, <2>1 DEF Off, Waiting, Serves
  <2>4. cmd' = q[1]
    <3>1. Head(q) = q[1]
      BY <2>3 DEF Words
    <3>2. QED
      BY <1>7, <2>1, <3>1 DEF Inbox
  <2>5. PICK rest : rest = SubSeq(q, 2, Len(q)) /\ rest = link'[c].c2s
    BY <1>3, <1>7, <2>1
  <2>6. \/ cmd' \in Reads /\ rest # <<>> /\ Asked(rest, 1, Going(c))
        \/ cmd' = DEINIT /\ rest = <<>> /\ ~Going(c)
    BY <2>2, <2>3, <2>4, <2>5, AskedCommand
  <2>7. Waiting(c)'
    BY <2>2, <2>5, <2>6 DEF Waiting, Serves, Reads
  <2>8. ~link[c].rst /\ ~Serves(c, "send")'
    BY <1>1, <1>7 DEF Off, Serves
  <2>9. QED
    BY <1>3, <1>7, <2>7, <2>8 DEF Off, Known
<1>8. QED
  BY <1>5, <1>6, <1>7 DEF Inv, Known

(* A piece of an answer goes to the client. *)
LEMMA SentDumps ==
  ASSUME Inv, UNCHANGED <<cl, cli_sock, upool, acquired, slipped, freeFailed, badCopy, after>>,
         pc = "send",
         NEW d \in Clients, d = cli_sock, out # <<>>, ~link[d].rst,
         Link!SrvSend(d, Head(out)), out' = Tail(out),
         IF Len(out) = 1 THEN pc' = after ELSE pc' = pc,
         NEW c \in Clients
  PROVE  /\ Known(c)' /\ link' \in Conns(Words) /\ link'[c].cli = link[c].cli
         /\ out' \in Seq(Seq(Int))
<1>1. link \in Conns(Words) /\ out \in Seq(Seq(Int)) /\ after \in {"recv", "close"} /\ Types
  BY DEF Inv, Types, ServerInv, Sockets
<1>2. /\ Head(out) \in Words /\ Tail(out) \in Seq(Seq(Int))
      /\ Len(out) = 1 <=> Tail(out) = <<>>
  <2>1. /\ Head(out) \in Words /\ Tail(out) \in Seq(Seq(Int))
        /\ Len(Tail(out)) = Len(out) - 1 /\ Len(out) \in Nat
    BY <1>1, HeadTailProperties, LenProperties DEF Words
  <2>2. Len(Tail(out)) = 0 <=> Tail(out) = <<>>
    BY <2>1, EmptySeq
  <2>3. Len(out) = 1 <=> Len(out) - 1 = 0
    BY <2>1
  <2>4. QED
    BY <2>1, <2>2, <2>3
<1>3. /\ link' \in Conns(Words) /\ \A e \in Clients \ {d} : link'[e] = link[e]
      /\ link'[d].srv = link[d].srv /\ link'[d].cli = link[d].cli /\ link'[d].rst = link[d].rst
      /\ link'[d].c2s = link[d].c2s
      /\ link'[d].s2c = IF link[d].cli THEN link[d].s2c \o Head(out) ELSE link[d].s2c
  BY <1>1, <1>2, SrvSendWords
<1>4. Recorded
  BY DEF Recorded
<1>5. CASE c # d
  <2>1. Known(c)'
    BY <1>3, <1>4, <1>5, Bystander DEF Session
  <2>2. QED
    BY <1>2, <1>3, <1>5, <2>1
<1>6. CASE c = d /\ Dumping(c)
  <2> USE DEF Dumping
  <2>1. Dumping(c) /\ link[c].srv = "open" /\ Serves(c, "send")
    BY <1>6 DEF Inv, ServerInv, Sockets, Session, Serves
  <2>2. pc' \in {"send", "recv", "close"} /\ (pc' = "send" => out' # <<>>)
        /\ (pc' = "recv" => after = "recv")
    BY <1>1, <1>2
  <2>3. Queue(c)'
    BY <1>3, <1>6, <2>1, <2>2 DEF Queue, Replies, Serves
  <2>4. Hand(c)'
    BY <2>2 DEF Hand, Serves
  <2>5. Replies(c)'
    BY <1>3, <1>6, <2>1, <2>2 DEF Replies, Serves, Alive
  <2>6. Ends(c)'
    BY <1>3, <1>6, <2>1, <2>2 DEF Ends, Serves
  <2>7. cl[c].phase = "send" /\ cl[c].op # "close" => ~link[c].cli
    BY <1>6, <2>1 DEF Replies, Alive
  <2>8. Phases(c)'
    BY <1>3, <1>6, <2>1, <2>7 DEF Phases
  <2>9. Progress(c)' /\ Content(c)'
    BY <1>4, <2>1, FileKept
  <2>10. Unpooled(c)'
    BY <1>3, <1>6, <2>1, <2>2 DEF Unpooled, Past, Alive, Closing
  <2>11. ASSUME NEW R \in Seq(Int), Parts(c, R), link[c].cli
         PROVE  Parts(c, R)'
    <3>1. PICK o \in Seq(Seq(Int)) : o = out
      BY <1>1
    <3>2. PICK w \in Seq(Int) : w = Head(o)
      BY <1>2, <3>1 DEF Words
    <3>3. PICK q \in Seq(Int) : q = link[c].s2c
      BY <1>1, RunTypes DEF Words
    <3>4. PICK a, b \in Nat : a = Len(cl[c].header) /\ b = Len(cl[c].got)
      BY <1>1, RunTypes
    <3>5. PICK k, l \in Nat : k = Len(q) /\ l = Len(w)
      BY LenProperties
    <3>6. Received(c) = a + b + k
      BY <3>3, <3>4, <3>5, Zenon DEF Received
    <3>7. a + b \in Nat /\ a + b + k \in Nat
      BY Sums, Zenon
    <3>8. Pieces(o, R, a + b + k) /\ Matches(q, R, a + b)
      BY <1>6, <2>1, <2>11, <3>1, <3>3, <3>4, <3>6 DEF Parts
    <3>9. /\ Matches(w, R, a + b + k)
          /\ Tail(o) # <<>> => Pieces(Tail(o), R, a + b + k + l)
          /\ Tail(o) = <<>> => a + b + k + l = Len(R)
      BY <3>2, <3>5, <3>7, <3>8, PiecesSplit
    <3>10. q \o w \in Seq(Int) /\ Len(q \o w) = k + l /\ Matches(q \o w, R, a + b)
      BY <3>5, <3>7, <3>8, <3>9, MatchesJoin
    <3>11. link'[c].s2c = q \o w
      BY <1>3, <1>6, <2>11, <3>1, <3>2, <3>3
    <3>12. Received(c)' = a + b + (k + l)
      <4>1. Len(cl'[c].header) = a /\ Len(cl'[c].got) = b /\ Len(link'[c].s2c) = k + l
        BY <3>4, <3>10, <3>11
      <4>2. QED
        BY <4>1, Zenon DEF Received
    <3>13. a + b + (k + l) = a + b + k + l
      BY Sums
    <3>14. out' # <<>> => Pieces(out', R, Received(c)')
      BY <3>1, <3>9, <3>12, <3>13
    <3>15. /\ Matches(cl'[c].header, R, 0)
           /\ Matches(cl'[c].got, R, Len(cl'[c].header))
           /\ Matches(link'[c].s2c, R, Len(cl'[c].header) + Len(cl'[c].got))
      BY <2>11, <3>4, <3>10, <3>11 DEF Parts
    <3>16. Serves(c, "send")' => out' # <<>>
      BY <2>2 DEF Serves
    <3>18. Received(c)' >= BaseLen
      <4>1. w = o[1]
        BY <1>1, <3>1, <3>2, HeadTailProperties
      <4>2. a + b + k = 0 => l >= BaseLen
        BY <1>6, <2>1, <2>11, <3>1, <3>5, <3>6, <4>1 DEF Parts
      <4>3. a + b + k # 0 => a + b + k >= BaseLen
        BY <1>6, <2>11, <3>6 DEF Parts
      <4>4. QED
        BY <3>12, <4>2, <4>3 DEF BaseLen
    <3>19. Received(c)' = Len(R) \/ Serves(c, "send")'
      BY <1>2, <1>6, <2>1, <3>1, <3>9, <3>12, <3>13 DEF Serves
    <3>20. Received(c)' # 0
      BY <3>12, <3>18 DEF BaseLen
    <3>17. QED
      BY <3>14, <3>15, <3>16, <3>18, <3>19, <3>20 DEF Parts
  <2>12. \A R : Response(c, R) => Response(c, R)'
    BY <1>4, ResponseKept
  <2>13. cl[c].phase # "send" => link[c].cli
    BY <2>1 DEF Phases
  <2>16. \A R : Told(c, R) => Told(c, R)'
    BY <1>3, <1>6, <2>1, <2>2 DEF Told, TailWord, Ending, Over, Serves
  <2>14. Answer(c)'
    BY <2>1, <2>11, <2>12, <2>13, <2>16 DEF Answer
  <2>17. Stuck(c)'
    <3>1. ~Cheated(c)
      BY <1>6, <2>1 DEF Stuck, Over, Serves
    <3>2. ~Cheated(c)'
      BY <3>1 DEF Cheated, RightWord
    <3>3. QED
      BY <3>2 DEF Stuck
  <2>15. QED
    BY <1>2, <1>3, <1>6, <2>3, <2>4, <2>5, <2>6, <2>8, <2>9, <2>10, <2>14, <2>17 DEF Known
<1>7. CASE c = d /\ Off(c)
  <2>1. pc' \in {"send", "recv", "close"} /\ (pc' = "send" => out' # <<>>)
        /\ (pc' = "recv" => after = "recv")
    BY <1>1, <1>2
  <2>2. Serves(c, "recv")' \/ (Serves(c, "send") /\ after = "recv")'
          => Serves(c, "send") /\ after = "recv"
    BY <1>7, <2>1 DEF Serves
  <2>3. ~Serves(c, "handle")' /\ (Going(c)' <=> Going(c))
    BY <1>3, <1>7, <2>1 DEF Serves, Going
  <2>4. Waiting(c)'
    <3>1. Going(c)' = Going(c)
      BY <2>3 DEF Going
    <3>2. QED
      BY <1>3, <1>7, <2>2, <2>3, <3>1 DEF Off, Waiting
  <2>5. Off(c)'
    BY <1>3, <1>7, <2>1, <2>4 DEF Off, Serves
  <2>6. QED
    BY <1>2, <1>3, <1>7, <2>5 DEF Known
<1>8. QED
  BY <1>5, <1>6, <1>7 DEF Inv, Known

-----------------------------------------------------------------------------
(* Requests *)

(* The sequences of one and of two words. *)
LEMMA ShortSequences ==
  ASSUME NEW r \in Seq(Int)
  PROVE  /\ Len(r) = 1 => r = <<r[1]>>
         /\ Len(r) = 2 => r = <<r[1], r[2]>>
<1>1. ASSUME Len(r) = 1
      PROVE  r = <<r[1]>>
  <2>1. r[1] \in Int
    BY <1>1, ElementOfSeq
  <2>2. PICK p : p = <<r[1]>>
    OBVIOUS
  <2>3. p \in Seq(Int) /\ Len(p) = 1 /\ p[1] = r[1]
    BY <2>1, <2>2, Tuples
  <2>4. \A i \in 1 .. Len(r) : r[i] = p[i]
    BY <1>1, <2>3
  <2>5. QED
    BY <1>1, <2>2, <2>3, <2>4, SeqEqual
<1>2. ASSUME Len(r) = 2
      PROVE  r = <<r[1], r[2]>>
  <2>1. r[1] \in Int /\ r[2] \in Int
    BY <1>2, ElementOfSeq
  <2>2. PICK p : p = <<r[1], r[2]>>
    OBVIOUS
  <2>3. p \in Seq(Int) /\ Len(p) = 2 /\ p[1] = r[1] /\ p[2] = r[2]
    BY <2>1, <2>2
  <2>4. \A i \in 1 .. Len(r) : r[i] = p[i]
    BY <1>2, <2>3
  <2>5. QED
    BY <1>2, <2>2, <2>3, <2>4, SeqEqual
<1>3. QED
  BY <1>1, <1>2

(* What follows the command in a request. *)
LEMMA Rests ==
  ASSUME NEW a \in Int, NEW b \in Int, NEW c \in Int
  PROVE  /\ SubSeq(<<a>>, 2, Len(<<a>>)) = <<>>
         /\ SubSeq(<<a, b>>, 2, Len(<<a, b>>)) = <<b>>
         /\ SubSeq(<<a, b, c>>, 2, Len(<<a, b, c>>)) = <<b, c>>
<1>1. ASSUME NEW p \in Seq(Int), NEW n \in Nat, Len(p) = 1 + n
      PROVE  /\ SubSeq(p, 2, Len(p)) \in Seq(Int) /\ Len(SubSeq(p, 2, Len(p))) = n
             /\ \A k \in 1 .. n : SubSeq(p, 2, Len(p))[k] = p[1 + k]
             /\ n = 0 => SubSeq(p, 2, Len(p)) = <<>>
  <2>1. 1 <= 1 + n /\ 1 + n - 1 = n /\ 1 + 1 = 2 /\ (n = 0 => 1 + n = 1)
    OBVIOUS
  <2>2. /\ SubSeq(p, 1 + 1, Len(p)) \in Seq(Int)
        /\ Len(SubSeq(p, 1 + 1, Len(p))) = Len(p) - 1
        /\ \A k \in 1 .. Len(p) - 1 : SubSeq(p, 1 + 1, Len(p))[k] = p[1 + k]
        /\ Len(p) = 1 => SubSeq(p, 1 + 1, Len(p)) = <<>>
    BY <1>1, <2>1, RestProperties
  <2>3. QED
    BY <1>1, <2>1, <2>2
<1>2. PICK p1, p2, p3 : p1 = <<a>> /\ p2 = <<a, b>> /\ p3 = <<a, b, c>>
  OBVIOUS
<1>3. /\ p1 \in Seq(Int) /\ Len(p1) = 1 + 0
      /\ p2 \in Seq(Int) /\ Len(p2) = 1 + 1 /\ p2[1 + 1] = b
      /\ p3 \in Seq(Int) /\ Len(p3) = 1 + 2 /\ p3[1 + 1] = b /\ p3[1 + 2] = c
  BY <1>2
<1>4. SubSeq(p1, 2, Len(p1)) = <<>>
  BY <1>1, <1>3
<1>5. SubSeq(p2, 2, Len(p2)) = <<b>>
  <2>1. PICK r : r = SubSeq(p2, 2, Len(p2))
    OBVIOUS
  <2>2. r \in Seq(Int) /\ Len(r) = 1 /\ r[1] = p2[1 + 1]
    BY <1>1, <1>3, <2>1
  <2>3. QED
    BY <1>3, <2>1, <2>2, ShortSequences
<1>6. SubSeq(p3, 2, Len(p3)) = <<b, c>>
  <2>1. PICK r : r = SubSeq(p3, 2, Len(p3))
    OBVIOUS
  <2>2. r \in Seq(Int) /\ Len(r) = 2 /\ r[1] = p3[1 + 1] /\ r[2] = p3[1 + 2]
    BY <1>1, <1>3, <2>1
  <2>3. QED
    BY <1>3, <2>1, <2>2, ShortSequences
<1>7. QED
  BY <1>2, <1>4, <1>5, <1>6

(* A request is known by its command. *)
LEMMA RequestShapes ==
  ASSUME NEW q \in Requests
  PROVE  \/ q = <<PING>> /\ q[1] = 0 /\ SubSeq(q, 2, Len(q)) = <<>>
         \/ q = <<DEINIT>> /\ q[1] = 3 /\ SubSeq(q, 2, Len(q)) = <<>>
         \/ /\ q = <<INIT, SectorSize, SectorsPerCluster>> /\ q[1] = 2
            /\ SubSeq(q, 2, Len(q)) = <<1, SectorsPerCluster>>
         \/ \E n \in Nat : /\ q = <<READ_SECTOR[Mode], n>>
                           /\ q[1] = READ_SECTOR[Mode] /\ q[1] \in {4, 8, 12}
                           /\ SubSeq(q, 2, Len(q)) = <<n>>
         \/ \E n \in Nat : /\ q = <<READ_CLUSTER[Mode], n>>
                           /\ q[1] = READ_CLUSTER[Mode] /\ q[1] \in {5, 9, 13}
                           /\ SubSeq(q, 2, Len(q)) = <<n>>
<1>1. SectorsPerCluster \in Int
  BY PlanSizes
<1>2. READ_SECTOR[Mode] \in {4, 8, 12} /\ READ_CLUSTER[Mode] \in {5, 9, 13}
  BY PartitionAssumption, CommandNumbers
<1>3. PING = 0 /\ DEINIT = 3 /\ INIT = 2 /\ SectorSize = 1
  BY DEF PING, DEINIT, INIT, SectorSize
<1>4. ASSUME q = <<PING>>
      PROVE  q[1] = 0 /\ SubSeq(q, 2, Len(q)) = <<>>
  BY <1>3, <1>4, Rests
<1>5. ASSUME q = <<DEINIT>>
      PROVE  q[1] = 3 /\ SubSeq(q, 2, Len(q)) = <<>>
  BY <1>3, <1>5, Rests
<1>6. ASSUME q = <<INIT, SectorSize, SectorsPerCluster>>
      PROVE  q[1] = 2 /\ SubSeq(q, 2, Len(q)) = <<1, SectorsPerCluster>>
  <2>1. PICK s \in Int : s = SectorsPerCluster
    BY <1>1
  <2>2. PICK a, b \in Int : a = INIT /\ b = SectorSize /\ a = 2 /\ b = 1
    BY <1>3
  <2>3. SubSeq(<<a, b, s>>, 2, Len(<<a, b, s>>)) = <<b, s>> /\ q = <<a, b, s>>
    BY <1>6, <2>1, <2>2, Rests, Zenon
  <2>4. QED
    BY <2>1, <2>2, <2>3
<1>7. ASSUME NEW n \in Nat, q = <<READ_SECTOR[Mode], n>>
      PROVE  /\ q[1] = READ_SECTOR[Mode] /\ q[1] \in {4, 8, 12}
             /\ SubSeq(q, 2, Len(q)) = <<n>>
  <2>1. PICK m \in Int : m = READ_SECTOR[Mode]
    BY <1>2
  <2>2. q = <<m, n>> /\ q[1] = m
    BY <1>7, <2>1
  <2>3. SubSeq(q, 2, Len(q)) = <<n>>
    <3>1. n \in Int
      OBVIOUS
    <3>2. QED
      BY <2>2, <3>1, Rests
  <2>4. QED
    BY <1>2, <2>1, <2>2, <2>3
<1>8. ASSUME NEW n \in Nat, q = <<READ_CLUSTER[Mode], n>>
      PROVE  /\ q[1] = READ_CLUSTER[Mode] /\ q[1] \in {5, 9, 13}
             /\ SubSeq(q, 2, Len(q)) = <<n>>
  <2>1. PICK m \in Int : m = READ_CLUSTER[Mode]
    BY <1>2
  <2>2. q = <<m, n>> /\ q[1] = m
    BY <1>8, <2>1
  <2>3. SubSeq(q, 2, Len(q)) = <<n>>
    <3>1. n \in Int
      OBVIOUS
    <3>2. QED
      BY <2>2, <3>1, Rests
  <2>4. QED
    BY <1>2, <2>1, <2>2, <2>3
<1>9. \/ q \in {<<PING>>, <<DEINIT>>, <<INIT, SectorSize, SectorsPerCluster>>}
      \/ \E n \in Nat : q = <<READ_SECTOR[Mode], n>>
      \/ \E n \in Nat : q = <<READ_CLUSTER[Mode], n>>
  BY DEF Requests
<1>10. QED
  BY <1>4, <1>5, <1>6, <1>7, <1>8, <1>9

(* The requests that a client sends. *)
LEMMA ClientRequests ==
  ASSUME NEW c, cl[c].i \in Nat,
         cl[c].op \in {"ping", "mbr", "init", "cluster", "sector", "deinit"}
  PROVE  /\ C!Request(c) \in Requests
         /\ cl[c].op = "ping" => C!Request(c) = <<PING>>
         /\ cl[c].op = "mbr" => C!Request(c) = <<READ_SECTOR[Mode], 0>>
         /\ cl[c].op = "init" => C!Request(c) = <<INIT, SectorSize, SectorsPerCluster>>
         /\ cl[c].op = "deinit" => C!Request(c) = <<DEINIT>>
         /\ cl[c].op = "cluster" => /\ C!ClusterRequest(PartitionOffset, cl[c].i) \in Nat
                 /\ C!Request(c) = <<READ_CLUSTER[Mode], C!ClusterRequest(PartitionOffset, cl[c].i)>>
         /\ cl[c].op = "sector" => /\ C!TailSector(PartitionOffset, PartitionSize, cl[c].i) \in Nat
                 /\ C!Request(c) = <<READ_SECTOR[Mode],
                                     C!TailSector(PartitionOffset, PartitionSize, cl[c].i)>>
<1>1. PICK i \in Nat : i = cl[c].i
  OBVIOUS
<1>2. C!ClusterRequest(PartitionOffset, i) \in Nat
  <2>1. PICK s \in Nat \ {0} : s = SectorsPerCluster
    BY PlanSizes
  <2>2. C!clusterOffset(PartitionOffset) \in Nat
    BY <2>1, PartitionAssumption DEF C!clusterOffset
  <2>3. QED
    BY <1>1, <2>2 DEF C!ClusterRequest
<1>3. C!TailSector(PartitionOffset, PartitionSize, i) \in Nat
  <2>1. PICK m \in Nat : m = nClusters * SectorsPerCluster
    BY PlanSizes
  <2>2. QED
    BY <1>1, <2>1, PartitionAssumption DEF C!TailSector, C!tailOffset, nClusters
<1>0. /\ C!PING = PING /\ C!INIT = INIT /\ C!DEINIT = DEINIT /\ C!SectorSize = SectorSize
      /\ C!READ_SECTOR = READ_SECTOR /\ C!READ_CLUSTER = READ_CLUSTER
  BY DEF C!PING, C!INIT, C!DEINIT, C!SectorSize, C!READ_SECTOR, C!READ_CLUSTER,
         PING, INIT, DEINIT, SectorSize, READ_SECTOR, READ_CLUSTER
<1>4. CASE cl[c].op \in {"ping", "mbr", "init", "deinit"}
  BY <1>0, <1>4 DEF C!Request, Requests
<1>5. CASE cl[c].op = "cluster"
  <2>1. C!Request(c) = <<READ_CLUSTER[Mode], C!ClusterRequest(PartitionOffset, i)>>
    BY <1>0, <1>1, <1>5 DEF C!Request
  <2>2. QED
    BY <1>1, <1>2, <1>5, <2>1 DEF Requests
<1>6. CASE cl[c].op = "sector"
  <2>1. C!Request(c) = <<READ_SECTOR[Mode], C!TailSector(PartitionOffset, PartitionSize, i)>>
    BY <1>0, <1>1, <1>6 DEF C!Request
  <2>2. QED
    BY <1>1, <1>3, <1>6, <2>1 DEF Requests
<1>7. QED
  BY <1>4, <1>5, <1>6

(* What is handled: a request's command, with its rest in the stream unless *)
(* the connection was reset, and the one its client is at.                 *)
LEMMA Handled ==
  ASSUME Inv, NEW d \in Clients, d = cli_sock, pc = "handle"
  PROVE  /\ link[d].srv = "open" /\ link[d].c2s \in Seq(Int)
         /\ cmd \in {0, 2, 3} \cup {READ_SECTOR[Mode], READ_CLUSTER[Mode]}
         /\ cmd \in {0, 3} => link[d].c2s = <<>>
         /\ cmd = 2 => link[d].c2s = <<>> \/ link[d].c2s = <<1, SectorsPerCluster>>
         /\ cmd \in {READ_SECTOR[Mode], READ_CLUSTER[Mode]}
              => \/ link[d].c2s = <<>> \/ (\E n \in Nat : link[d].c2s = <<n>>)
                 \/ Off(d) /\ link[d].c2s # <<>> /\ Asked(link[d].c2s, 1, Going(d))
         /\ Alive(d) /\ Dumping(d) =>
              /\ Fresh(d)
              /\ cmd = 0 <=> cl[d].op = "ping"
              /\ cmd = 2 <=> cl[d].op = "init"
              /\ cmd = 3 <=> cl[d].op = "deinit"
              /\ cmd = READ_CLUSTER[Mode] <=> cl[d].op = "cluster"
              /\ cmd = READ_SECTOR[Mode] => cl[d].op \in {"mbr", "sector"}
              /\ cl[d].op = "cluster" =>
                    link[d].c2s = <<C!ClusterRequest(PartitionOffset, cl[d].i)>>
              /\ cl[d].op = "sector" =>
                    link[d].c2s = <<C!TailSector(PartitionOffset, PartitionSize, cl[d].i)>>
<1>1. Known(d) /\ Types
  BY DEF Inv
<1>2. link[d].srv = "open" /\ link[d].c2s \in Seq(Int)
  BY <1>1, RunTypes DEF Inv, ServerInv, Sockets, Session, Words
<1>5. READ_SECTOR[Mode] \in {4, 8, 12} /\ READ_CLUSTER[Mode] \in {5, 9, 13}
  BY PartitionAssumption, CommandNumbers
<1>15. CASE ~Dumping(d)
  <2>1. Off(d)
    BY <1>1, <1>15 DEF Known
  <2>2. \/ /\ cmd \in Reads
           /\ link[d].c2s = <<>> \/ (link[d].c2s # <<>> /\ Asked(link[d].c2s, 1, Going(d)))
        \/ cmd = DEINIT /\ link[d].c2s = <<>>
    BY <2>1 DEF Off, Waiting, Serves
  <2>3. CASE cmd \in Reads
    BY <1>2, <1>5, <1>15, <2>1, <2>2, <2>3 DEF Reads
  <2>4. CASE cmd = DEINIT /\ link[d].c2s = <<>>
    BY <1>2, <1>5, <1>15, <2>4 DEF DEINIT
  <2>5. QED
    BY <2>2, <2>3, <2>4
<1>16. SUFFICES ASSUME Dumping(d)
                PROVE  /\ cmd \in {0, 2, 3} \cup {READ_SECTOR[Mode], READ_CLUSTER[Mode]}
                       /\ cmd \in {0, 3} => link[d].c2s = <<>>
                       /\ cmd = 2 => link[d].c2s = <<>> \/ link[d].c2s = <<1, SectorsPerCluster>>
                       /\ cmd \in {READ_SECTOR[Mode], READ_CLUSTER[Mode]}
                            => link[d].c2s = <<>> \/ (\E n \in Nat : link[d].c2s = <<n>>)
                       /\ Alive(d) /\ Dumping(d) =>
                            /\ Fresh(d)
                            /\ cmd = 0 <=> cl[d].op = "ping"
                            /\ cmd = 2 <=> cl[d].op = "init"
                            /\ cmd = 3 <=> cl[d].op = "deinit"
                            /\ cmd = READ_CLUSTER[Mode] <=> cl[d].op = "cluster"
                            /\ cmd = READ_SECTOR[Mode] => cl[d].op \in {"mbr", "sector"}
                            /\ cl[d].op = "cluster" =>
                                  link[d].c2s = <<C!ClusterRequest(PartitionOffset, cl[d].i)>>
                            /\ cl[d].op = "sector" =>
                                  link[d].c2s = <<C!TailSector(PartitionOffset, PartitionSize, cl[d].i)>>
  BY <1>2, <1>15, <1>16
<1>3. PICK q \in Requests :
        /\ cmd = q[1]
        /\ ~link[d].rst => link[d].c2s = SubSeq(q, 2, Len(q))
        /\ Alive(d) /\ Dumping(d) => q = C!Request(d) /\ Fresh(d)
  BY <1>16 DEF Dumping, Hand, Serves
<1>4. link[d].c2s = <<>> \/ link[d].c2s = SubSeq(q, 2, Len(q))
  BY <1>1, <1>3, <1>16 DEF Dumping, Ends
<1>6. Alive(d) /\ Dumping(d) => cl[d].op \in {"ping", "mbr", "init", "cluster", "sector", "deinit"}
                  /\ ~link[d].rst /\ cl[d].i \in Nat
  <2>1. ASSUME Alive(d), Dumping(d)
        PROVE  cl[d].op \in {"ping", "mbr", "init", "cluster", "sector", "deinit"}
    <3>1. cl[d].phase \in {"header", "loop"}
      BY <1>1, <1>3, <2>1, RunTypes DEF Fresh
    <3>2. Phases(d)
      BY <2>1 DEF Dumping
    <3>3. cl[d].phase = "loop" => cl[d].op \in {"mbr", "sector", "cluster"}
      BY <3>2 DEF Phases
    <3>4. QED
      BY <3>1, <3>2, <3>3 DEF Phases
  <2>2. QED
    BY <1>1, <2>1, RunTypes DEF Alive
<1>7. CASE q = <<PING>> /\ q[1] = 0 /\ SubSeq(q, 2, Len(q)) = <<>>
  <2>1. cmd = 0 /\ link[d].c2s = <<>>
    BY <1>3, <1>4, <1>7
  <2>2. Alive(d) /\ Dumping(d) => cl[d].op = "ping"
    BY <1>3, <1>5, <1>6, <1>7, ClientRequests, RequestShapes DEF DEINIT, INIT
  <2>3. QED
    BY <1>2, <1>3, <1>5, <2>1, <2>2
<1>8. CASE q = <<DEINIT>> /\ q[1] = 3 /\ SubSeq(q, 2, Len(q)) = <<>>
  <2>1. cmd = 3 /\ link[d].c2s = <<>>
    BY <1>3, <1>4, <1>8
  <2>2. Alive(d) /\ Dumping(d) => cl[d].op = "deinit"
    BY <1>3, <1>5, <1>6, <1>8, ClientRequests DEF PING, INIT
  <2>3. QED
    BY <1>2, <1>3, <1>5, <2>1, <2>2
<1>9. CASE /\ q = <<INIT, SectorSize, SectorsPerCluster>> /\ q[1] = 2
           /\ SubSeq(q, 2, Len(q)) = <<1, SectorsPerCluster>>
  <2>1. cmd = 2 /\ (link[d].c2s = <<>> \/ link[d].c2s = <<1, SectorsPerCluster>>)
    BY <1>3, <1>4, <1>9
  <2>2. Alive(d) /\ Dumping(d) => cl[d].op = "init"
    BY <1>3, <1>5, <1>6, <1>9, ClientRequests DEF PING, DEINIT
  <2>3. QED
    BY <1>2, <1>3, <1>5, <2>1, <2>2
<1>10. ASSUME NEW n \in Nat, q = <<READ_SECTOR[Mode], n>>,
              q[1] = READ_SECTOR[Mode], q[1] \in {4, 8, 12}, SubSeq(q, 2, Len(q)) = <<n>>
       PROVE  /\ cmd = READ_SECTOR[Mode] /\ (link[d].c2s = <<>> \/ link[d].c2s = <<n>>)
              /\ Alive(d) /\ Dumping(d) =>
                   /\ Fresh(d) /\ cl[d].op \in {"mbr", "sector"}
                   /\ cl[d].op = "sector" =>
                        link[d].c2s = <<C!TailSector(PartitionOffset, PartitionSize, cl[d].i)>>
  <2>1. cmd = READ_SECTOR[Mode] /\ (link[d].c2s = <<>> \/ link[d].c2s = <<n>>)
    BY <1>3, <1>4, <1>10
  <2>2. Alive(d) /\ Dumping(d) => cl[d].op \in {"mbr", "sector"}
    BY <1>3, <1>5, <1>6, <1>10, ClientRequests DEF PING, DEINIT, INIT
  <2>3. Alive(d) /\ Dumping(d) /\ cl[d].op = "sector" =>
          link[d].c2s = <<C!TailSector(PartitionOffset, PartitionSize, cl[d].i)>>
    <3>1. ASSUME Alive(d), Dumping(d), cl[d].op = "sector"
          PROVE  n = C!TailSector(PartitionOffset, PartitionSize, cl[d].i) /\ link[d].c2s = <<n>>
      <4>1. q = <<READ_SECTOR[Mode], C!TailSector(PartitionOffset, PartitionSize, cl[d].i)>>
        BY <1>3, <1>6, <3>1, ClientRequests
      <4>2. q[2] = n /\ q[2] = C!TailSector(PartitionOffset, PartitionSize, cl[d].i)
        BY <1>10, <4>1
      <4>3. QED
        BY <1>3, <1>6, <1>10, <3>1, <4>2
    <3>2. QED
      BY <3>1
  <2>4. QED
    BY <1>3, <2>1, <2>2, <2>3
<1>11. ASSUME NEW n \in Nat, q = <<READ_CLUSTER[Mode], n>>,
              q[1] = READ_CLUSTER[Mode], q[1] \in {5, 9, 13}, SubSeq(q, 2, Len(q)) = <<n>>
       PROVE  /\ cmd = READ_CLUSTER[Mode] /\ (link[d].c2s = <<>> \/ link[d].c2s = <<n>>)
              /\ Alive(d) /\ Dumping(d) =>
                   /\ Fresh(d) /\ cl[d].op = "cluster"
                   /\ link[d].c2s = <<C!ClusterRequest(PartitionOffset, cl[d].i)>>
  <2>1. cmd = READ_CLUSTER[Mode] /\ (link[d].c2s = <<>> \/ link[d].c2s = <<n>>)
    BY <1>3, <1>4, <1>11
  <2>2. Alive(d) /\ Dumping(d) => cl[d].op = "cluster"
    BY <1>3, <1>5, <1>6, <1>11, ClientRequests DEF PING, DEINIT, INIT
  <2>3. Alive(d) /\ Dumping(d) => link[d].c2s = <<C!ClusterRequest(PartitionOffset, cl[d].i)>>
    <3>1. ASSUME Alive(d), Dumping(d)
          PROVE  n = C!ClusterRequest(PartitionOffset, cl[d].i) /\ link[d].c2s = <<n>>
      <4>1. q = <<READ_CLUSTER[Mode], C!ClusterRequest(PartitionOffset, cl[d].i)>>
        BY <1>3, <1>6, <2>2, <3>1, ClientRequests
      <4>2. q[2] = n /\ q[2] = C!ClusterRequest(PartitionOffset, cl[d].i)
        BY <1>11, <4>1
      <4>3. QED
        BY <1>3, <1>6, <1>11, <3>1, <4>2
    <3>2. QED
      BY <3>1
  <2>4. QED
    BY <1>3, <2>1, <2>2, <2>3
<1>12. \/ \E n \in Nat : /\ q = <<READ_SECTOR[Mode], n>>
                         /\ q[1] = READ_SECTOR[Mode] /\ q[1] \in {4, 8, 12}
                         /\ SubSeq(q, 2, Len(q)) = <<n>>
       \/ \E n \in Nat : /\ q = <<READ_CLUSTER[Mode], n>>
                         /\ q[1] = READ_CLUSTER[Mode] /\ q[1] \in {5, 9, 13}
                         /\ SubSeq(q, 2, Len(q)) = <<n>>
       \/ q[1] \in {0, 2, 3}
  BY RequestShapes
<1>13. CASE q[1] \notin {0, 2, 3}
  BY <1>2, <1>5, <1>10, <1>11, <1>12, <1>13
<1>14. QED
  BY <1>5, <1>7, <1>8, <1>9, <1>13, RequestShapes

-----------------------------------------------------------------------------
(* The handlers *)

(* What a handler is going to send is the response to the client's request. *)
Answers(c, R) ==
    Response(c, R) /\ Told(c, R) /\ Pieces(out, R, 0) /\ Len(out[1]) >= BaseLen

(* A handler leaves the dumps in place if it has taken the whole request,  *)
(* unless it ends the session, and answers in the client's words, if there *)
(* is still somebody to answer.                                            *)
LEMMA AnswerGiven ==
  ASSUME Inv, Recorded, UNCHANGED <<cl, cli_sock>>,
         pc = "handle", pc' = "send", out' # <<>>,
         \A k \in 1 .. Len(out') : out'[k] # <<>>, after' \in {"recv", "close"},
         NEW d \in Clients, d = cli_sock,
         \A e \in Clients \ {d} : link'[e] = link[e],
         link'[d].srv = link[d].srv, link'[d].cli = link[d].cli, link'[d].rst = link[d].rst,
         link'[d].s2c = link[d].s2c, link[d].c2s = <<>> => link'[d].c2s = <<>>,
         after' = "recv" =>
           link'[d].c2s = <<>> \/ (Off(d) /\ Asked(link'[d].c2s, 0, Going(d))),
         Alive(d) /\ Dumping(d) /\ after' = "recv" /\ Past(d)' /\ d \notin acquired'
           => upool'.init = 0,
         Alive(d) /\ Dumping(d) => \E R \in Seq(Int) : Answers(d, R)',
         NEW c \in Clients
  PROVE  Known(c)'
<1>1. Types /\ Known(d) /\ link[d].srv = "open" /\ Serves(d, "handle")
  BY DEF Inv, ServerInv, Sockets, Session, Serves
<1>2. CASE c # d
  BY <1>2, Bystander DEF Session
<1>3. CASE c = d /\ Dumping(d) /\ ~Off(d)
  <2> USE <1>3 DEF Dumping
  <2>1. Queue(d)' /\ Hand(d)'
    BY <1>1 DEF Queue, Hand, Serves
  <2>2. Alive(d)' = Alive(d)
    BY DEF Alive
  <2>3. Alive(d) => Fresh(d)
    BY <1>1 DEF Hand
  <2>4. Replies(d)'
    BY <2>2, <2>3 DEF Replies, Fresh
  <2>5. link[d].rst => link[d].c2s = <<>> /\ link[d].s2c = <<>>
    BY <1>1 DEF Ends
  <2>6. cl[d].ret # "ok" /\ cl[d].op # "connect"
    BY <1>1 DEF Ends, Serves
  <2>7. Ends(d)'
    BY <1>1, <2>5, <2>6 DEF Ends
  <2>8. Phases(d)'
    BY <1>1 DEF Phases
  <2>9. Progress(d)' /\ Content(d)'
    BY <1>1, FileKept
  <2>10. Unpooled(d)'
    <3>1. ASSUME Alive(d)', ~Closing', Past(d)', d \notin acquired'
          PROVE  upool'.init = 0
      <4>1. after' = "recv"
        <5>1. after' # "close"
          BY <3>1 DEF Closing
        <5>2. after' \in {"recv", "close"}
          OBVIOUS
        <5>3. QED
          BY <5>1, <5>2
      <4>2. QED
        BY <2>2, <3>1, <4>1
    <3>2. QED
      BY <3>1 DEF Unpooled
  <2>11. ASSUME cl'[d].phase # "send"
         PROVE  \E R \in Seq(Int) : Response(d, R)' /\ Parts(d, R)' /\ Told(d, R)'
    <3>1. link[d].cli
      BY <1>1, <2>11 DEF Phases
    <3>2. CASE link[d].rst
      <4>1. PICK R \in Seq(Int) : Response(d, R) /\ Parts(d, R) /\ Told(d, R)
        BY <1>1, <2>11 DEF Answer
      <4>2. Response(d, R)'
        BY <4>1, ResponseKept
      <4>3. Parts(d, R)'
        BY <3>2, <4>1 DEF Parts
      <4>5. Told(d, R)'
        BY <1>1, <4>1 DEF Told, TailWord, Ending, Over, Serves
      <4>4. QED
        BY <4>2, <4>3, <4>5
    <3>3. CASE ~link[d].rst
      <4>1. PICK R \in Seq(Int) : Answers(d, R)'
        BY <3>1, <3>3 DEF Alive
      <4>2. Received(d) = 0
        BY <2>3, <3>1, <3>3 DEF Alive, Fresh
      <4>3. /\ cl[d].header = <<>> /\ cl[d].got = <<>> /\ link[d].s2c = <<>>
        <5>1. PICK a, b, n \in Nat : /\ a = Len(cl[d].header) /\ b = Len(cl[d].got)
                                     /\ n = Len(link[d].s2c)
          BY <1>1, RunTypes
        <5>2. a + b + n = 0
          BY <4>2, <5>1 DEF Received
        <5>3. a = 0 /\ b = 0 /\ n = 0
          BY <5>2
        <5>4. PICK p, q, r \in Seq(Int) : /\ p = cl[d].header /\ q = cl[d].got
                                          /\ r = link[d].s2c
          BY <1>1, RunTypes DEF Words
        <5>5. p = <<>> /\ q = <<>> /\ r = <<>>
          <6>1. Len(p) = 0 /\ Len(q) = 0 /\ Len(r) = 0
            BY <5>1, <5>3, <5>4
          <6>2. QED
            BY <6>1, EmptySeq
        <5>6. QED
          BY <5>4, <5>5
      <4>4. Matches(<<>>, R, 0)
        BY MatchesNone, LenProperties
      <4>5. Len(<<>>) = 0 /\ 0 + 0 = 0
        OBVIOUS
      <4>6. cl'[d].header = <<>> /\ cl'[d].got = <<>> /\ link'[d].s2c = <<>>
        BY <4>3
      <4>7. Received(d)' = 0
        BY <4>5, <4>6 DEF Received
      <4>8. Parts(d, R)'
        BY <4>1, <4>4, <4>5, <4>6, <4>7 DEF Parts, Answers
      <4>9. QED
        BY <4>1, <4>8 DEF Answers
    <3>4. QED
      BY <3>2, <3>3
  <2>12. Answer(d)'
    BY <2>11 DEF Answer
  <2>14. Stuck(d)'
    BY <1>1, StuckKept DEF Over, Serves
  <2>13. QED
    BY <1>3, <2>1, <2>4, <2>7, <2>8, <2>9, <2>10, <2>12, <2>14 DEF Known
<1>4. CASE c = d /\ Off(d)
  <2>1. Going(d)' = Going(d)
    BY DEF Going
  <2>2. after' = "recv" => Asked(link'[d].c2s, 0, Going(d))
    BY <1>4, NothingAsked
  <2>3. Waiting(d)'
    BY <2>1, <2>2 DEF Waiting, Serves
  <2>4. QED
    BY <1>1, <1>4, <2>3 DEF Off, Known, Recorded
<1>5. QED
  BY <1>1, <1>2, <1>3, <1>4 DEF Known

(* A sequence with a length has words. *)
LEMMA NotEmpty ==
  ASSUME NEW s, Len(s) # 0
  PROVE  s # <<>>
<1>1. Len(<<>>) = 0
  OBVIOUS
<1>2. QED
  BY <1>1

(* An answer of one piece is its own response, ...                         *)
LEMMA OnePiece ==
  ASSUME NEW w \in Seq(Int), w # <<>>, NEW o, o = <<w>>
  PROVE  /\ o \in Seq(Seq(Int)) /\ o # <<>> /\ Pieces(o, w, 0) /\ o[1] = w
         /\ \A k \in 1 .. Len(o) : o[k] # <<>>
<1>1. PICK k \in Nat \ {0} : k = Len(w)
  BY EmptySeq
<1>2. o \in Seq(Seq(Int)) /\ Len(o) = 1 /\ o[1] = w
  OBVIOUS
<1>3. o # <<>>
  BY <1>2, EmptySeq
<1>4. Matches(w, w, 0)
  BY <1>1 DEF Matches
<1>5. 0 + k + 1 - 1 = k /\ 2 .. 1 = {}
  OBVIOUS
<1>6. QED
  BY <1>1, <1>2, <1>3, <1>4, <1>5 DEF Pieces

(* ... and a header and the n words f that follow it one by one are one.   *)
HeaderAndWords(o, a, b, r, n, f) ==
    /\ a \in Int /\ b \in Int /\ r \in Int /\ n \in Nat
    /\ \A k \in 1 .. n : f[k] \in Int
    /\ o \in Seq(Seq(Int)) /\ Len(o) = 1 + n /\ o[1] = <<a, b, r>>
    /\ \A k \in 1 .. Len(o) - 1 : o[1 + k] = <<f[k]>>

AllWords(R, a, b, r, n, f) ==
    /\ Len(R) = 3 + n /\ R[1] = a /\ R[2] = b /\ R[3] = r
    /\ \A k \in 1 .. n : R[3 + k] = f[k]

(* A header and the words behind it are the pieces of one response. *)
LEMMA AnswerPieces ==
  ASSUME NEW a, NEW b, NEW r, NEW n, NEW f, NEW o, HeaderAndWords(o, a, b, r, n, f)
  PROVE  /\ \E R \in Seq(Int) : AllWords(R, a, b, r, n, f) /\ Pieces(o, R, 0)
         /\ o # <<>> /\ Len(o[1]) = 3 /\ \A k \in 1 .. Len(o) : o[k] # <<>>
<1> USE DEF HeaderAndWords, AllWords
<1>1. PICK R : R = [k \in 1 .. 3 + n |-> IF k = 1 THEN a ELSE IF k = 2 THEN b
                                         ELSE IF k = 3 THEN r ELSE f[k - 3]]
  OBVIOUS
<1>2. R \in Seq(Int) /\ Len(R) = 3 + n
  <2>1. R \in [1 .. 3 + n -> Int]
    <3>1. \A k \in 1 .. 3 + n : k \notin {1, 2, 3} => k - 3 \in 1 .. n
      OBVIOUS
    <3>2. QED
      BY <1>1, <3>1
  <2>2. PICK m \in Nat : m = 3 + n
    OBVIOUS
  <2>3. R \in [1 .. m -> Int]
    BY <2>1, <2>2
  <2>4. R \in Seq(Int) /\ Len(R) = m
    BY <2>3
  <2>5. QED
    BY <2>2, <2>4
<1>3. R[1] = a /\ R[2] = b /\ R[3] = r
  BY <1>1
<1>4. ASSUME NEW k \in 1 .. n
      PROVE  R[3 + k] = f[k]
  <2>1. 3 + k \in 1 .. 3 + n /\ 3 + k \notin {1, 2, 3} /\ 3 + k - 3 = k
    OBVIOUS
  <2>2. QED
    BY <1>1, <2>1
<1>5. PICK w : w = <<a, b, r>>
  OBVIOUS
<1>6. w \in Seq(Int) /\ Len(w) = 3 /\ w[1] = a /\ w[2] = b /\ w[3] = r /\ w # <<>>
  BY <1>5, Tuples
<1>7. Matches(w, R, 0)
  BY <1>2, <1>3, <1>6 DEF Matches
<1>8. ASSUME NEW k \in 2 .. Len(o)
      PROVE  o[k] = <<R[0 + Len(o[1]) + k - 1]>>
  <2>1. k - 1 \in 1 .. n /\ 1 + (k - 1) = k /\ k - 1 \in 1 .. Len(o) - 1
    BY <1>8
  <2>2. o[k] = <<f[k - 1]>> /\ R[3 + (k - 1)] = f[k - 1]
    BY <1>4, <2>1
  <2>3. 0 + 3 + k - 1 = 3 + (k - 1)
    BY <1>8
  <2>4. QED
    BY <1>5, <1>6, <2>2, <2>3
<1>9. 0 + 3 + Len(o) - 1 = 3 + n /\ Len(o) # 0
  OBVIOUS
<1>10. o # <<>>
  BY <1>9, NotEmpty, Zenon
<1>11. Pieces(o, R, 0)
  BY <1>2, <1>5, <1>6, <1>7, <1>8, <1>9, <1>10 DEF Pieces
<1>13. ASSUME NEW k \in 1 .. Len(o)
       PROVE  o[k] # <<>>
  <2>1. k = 1 \/ k \in 2 .. Len(o)
    BY <1>13
  <2>2. \A x : <<x>> # <<>>
    BY NotEmpty
  <2>3. QED
    BY <1>5, <1>6, <1>8, <2>1, <2>2
<1>12. QED
  BY <1>2, <1>3, <1>4, <1>5, <1>6, <1>10, <1>11, <1>13

(* A handler that takes what there is, or nothing, leaves the rest of the  *)
(* connections.                                                            *)
LEMMA HandlerLink ==
  ASSUME link \in Conns(Words), NEW d \in Clients, d = cli_sock,
         \/ UNCHANGED link
         \/ \E n \in Nat : n <= Len(link[d].c2s) /\ Link!SrvTake(cli_sock, n)
  PROVE  /\ link' \in Conns(Words) /\ \A e \in Clients : link'[e].cli = link[e].cli
         /\ \A e \in Clients \ {d} : link'[e] = link[e]
         /\ link'[d].srv = link[d].srv /\ link'[d].rst = link[d].rst
         /\ link'[d].s2c = link[d].s2c /\ (link[d].c2s = <<>> => link'[d].c2s = <<>>)
         /\ (\E n \in Nat : Len(link[d].c2s) = n /\ Link!SrvTake(cli_sock, n))
              => link'[d].c2s = <<>>
<1>1. ASSUME UNCHANGED link
      PROVE  /\ link' \in Conns(Words) /\ \A e \in Clients : link'[e].cli = link[e].cli
             /\ \A e \in Clients \ {d} : link'[e] = link[e]
             /\ link'[d].srv = link[d].srv /\ link'[d].rst = link[d].rst
             /\ link'[d].s2c = link[d].s2c /\ (link[d].c2s = <<>> => link'[d].c2s = <<>>)
  BY <1>1
<1>2. ASSUME NEW n \in Nat, n <= Len(link[d].c2s), Link!SrvTake(d, n)
      PROVE  /\ link' \in Conns(Words) /\ \A e \in Clients \ {d} : link'[e] = link[e]
             /\ link'[d].srv = link[d].srv /\ link'[d].cli = link[d].cli
             /\ link'[d].rst = link[d].rst /\ link'[d].s2c = link[d].s2c
             /\ link[d].c2s = <<>> \/ n = Len(link[d].c2s) => link'[d].c2s = <<>>
  <2>1. link[d].c2s \in Seq(Int) /\ n <= Len(link[d].c2s)
    BY <1>2 DEF Conns, Conn
  <2>4. link[d].c2s = <<>> => n = Len(link[d].c2s)
    <3>1. link[d].c2s = <<>> => Len(link[d].c2s) = 0
      BY <2>1, EmptySeq
    <3>2. QED
      BY <1>2, <3>1
  <2>2. n = Len(link[d].c2s) => SubSeq(link[d].c2s, n + 1, Len(link[d].c2s)) = <<>>
    BY <1>2, <2>1, RestProperties
  <2>3. QED
    BY <1>2, <2>1, <2>2, <2>4, SrvTakeWords
<1>3. QED
  BY <1>1, <1>2

(* A handler keeps the types if what it writes has them. *)
LEMMA HandlerTypes ==
  ASSUME Types, Noted, cli_sock \in Clients, UNCHANGED <<cl, ctx>>,
         link' \in Conns(Words), ubuf' \in Words, out' \in Seq(Seq(Int)),
         badCopy' \in BOOLEAN
  PROVE  Types'
<1>1. freeFailed' \in BOOLEAN
  BY DEF Noted, Types
<1>2. acquired' \subseteq Clients
  BY DEF Noted, Types
<1>3. C!ClientType'
  BY DEF Types, C!ClientType
<1>4. QED
  BY <1>1, <1>2, <1>3 DEF Types

(* A handler that leaves the flag of the pool keeps the dumps and the      *)
(* holder of the pool, if it goes on for a client that is past its init.   *)
LEMMA HandlerKeeps ==
  ASSUME Inv, Noted, UNCHANGED <<cl, cli_sock, ctx>>, pc = "handle",
         ~(cmd = DEINIT /\ upool.init # 0), upool'.init = upool.init,
         faults' = faults \/ Fault, badCopy' \in BOOLEAN, badCopy => badCopy',
         ubuf' \in Words,
         pc' = "send", out' \in Seq(Seq(Int)), out' # <<>>,
         \A k \in 1 .. Len(out') : out'[k] # <<>>, after' \in {"recv", "close"},
         NEW d \in Clients, d = cli_sock,
         \/ UNCHANGED link
         \/ \E n \in Nat : n <= Len(link[d].c2s) /\ Link!SrvTake(cli_sock, n),
         after' = "recv" =>
           link'[d].c2s = <<>> \/ (Off(d) /\ Asked(link'[d].c2s, 0, Going(d))),
         upool.init = 1 /\ cmd = INIT => after' = "close",
         ~ShortRecv /\ Alive(d) /\ upool.init = 1 /\ cmd # INIT => after' = "recv",
         Alive(d) /\ Dumping(d) => \E R \in Seq(Int) : Answers(d, R)'
  PROVE  Types' /\ Holder' /\ \A c \in Clients : Known(c)'
<1>1. Types /\ Holder /\ upool.init \in {0, 1} /\ (Dumping(d) => Unpooled(d)) /\ link[d].srv = "open" /\ ServerInv
  BY DEF Inv, Dumping, ServerInv, UserInv, UPool!PoolType, Sockets, Session
<1>2. acquired' = acquired /\ freeFailed' = freeFailed /\ Recorded
  BY <1>1, NothingNoted DEF Recorded
<1>3. /\ link' \in Conns(Words) /\ \A e \in Clients : link'[e].cli = link[e].cli
      /\ \A e \in Clients \ {d} : link'[e] = link[e]
      /\ link'[d].srv = link[d].srv /\ link'[d].rst = link[d].rst
      /\ link'[d].s2c = link[d].s2c /\ (link[d].c2s = <<>> => link'[d].c2s = <<>>)
  BY <1>1, HandlerLink DEF Types
<1>4. Types'
  BY <1>1, <1>3, HandlerTypes
<1>5. faults' = 0 => faults = 0
  BY DEF Fault, Inv, ServerInv
<1>6. Alive(d) /\ Dumping(d) =>
        /\ cmd = INIT <=> cl[d].op = "init"
        /\ cmd = DEINIT <=> cl[d].op = "deinit"
  BY Handled DEF INIT, DEINIT
<1>7. ASSUME Alive(d), Dumping(d), after' = "recv", Past(d)', d \notin acquired'
      PROVE  upool'.init = 0
  <2>1. CASE cmd = INIT
    BY <1>1, <1>7, <2>1
  <2>2. CASE cmd # INIT
    <3>1. Past(d)
      BY <1>6, <1>7, <2>2 DEF Past
    <3>2. ~Closing
      BY DEF Closing
    <3>3. QED
      BY <1>1, <1>2, <1>7, <3>1, <3>2 DEF Unpooled
  <2>3. QED
    BY <2>1, <2>2
<1>8. ASSUME NEW c \in Clients
      PROVE  Known(c)'
  BY <1>2, <1>3, <1>7, AnswerGiven, Zenon
<1>9. ASSUME ~ShortRecv, upool.init = 1, NEW e \in Clients, Keeps(e), link[e].cli
      PROVE  Keeps(e)'
  <2>1. e = d /\ Alive(d) /\ Dumping(d)
    BY <1>1, <1>9, HolderServed DEF Inv, Known, Off
  <2>2. cl[d].op \in {"cluster", "sector"}
    BY <1>6, <1>9, <2>1 DEF Keeps, Past
  <2>3. after' = "recv"
    BY <1>1, <1>6, <1>9, <2>1, <2>2 DEF INIT
  <2>4. QED
    BY <1>2, <1>3, <1>9, <2>1, <2>2, <2>3 DEF Keeps, Closing
<1>10. Holder'
  <2>1. CASE upool.init = 1 /\ ~ShortRecv
    BY <1>1, <1>2, <1>3, <1>5, <1>9, <2>1, HolderKept, Zenon
  <2>2. CASE upool.init # 1 \/ ShortRecv
    BY <2>2 DEF Holder
  <2>3. QED
    BY <2>1, <2>2
<1>11. QED
  BY <1>4, <1>8, <1>10

(* What a step keeps besides what is said of the server and the driver. *)
Kept == /\ Types' /\ Geometry' /\ Fit' /\ CopiesFit' /\ Holder'
        /\ \A c \in Clients : Known(c)'

(* A ping is answered, ...                                                 *)
LEMMA PingKeeps ==
  ASSUME Inv, Noted, UNCHANGED cl, handle_command_0
  PROVE  Kept
<1>1. /\ pc = "handle" /\ cmd = 0 /\ pc' = "send" /\ after' = "recv"
      /\ out' = <<Base(PING, 0, 0) \o <<Name>>>>
      /\ UNCHANGED <<link, upool, ubuf, badCopy, faults, cli_sock, kpool, ctx>>
  BY DEF handle_command_0, Handling, PING, Reply, PingReply, handlerVars, processVars, dvars
<1>2. PICK d \in Clients : d = cli_sock
  BY <1>1 DEF Inv, ServerInv, Sockets, Session
<1>3. Types /\ ServerInv /\ Geometry /\ Fit /\ CopiesFit
  BY DEF Inv
<1>4. PICK w \in Seq(Int) : /\ w = Base(PING, 0, 0) \o <<Name>> /\ Len(w) = BaseLen + 1
                            /\ w # <<>>
  <2>1. PICK p, q : p = Base(PING, 0, 0) /\ q = <<Name>>
    OBVIOUS
  <2>2. p \in Seq(Int) /\ q \in Seq(Int) /\ Len(p) = 3 /\ Len(q) = 1
    BY <2>1, Tuples DEF Base, PING, Name
  <2>3. p \o q \in Seq(Int) /\ Len(p \o q) = 4 /\ BaseLen + 1 = 4
    <3>1. p \o q \in Seq(Int) /\ Len(p \o q) = Len(p) + Len(q)
      BY <2>2, ConcatProperties
    <3>2. QED
      BY <2>2, <3>1 DEF BaseLen
  <2>4. p \o q # <<>>
    BY <2>3, EmptySeq
  <2>5. QED
    BY <2>1, <2>3, <2>4, Zenon
<1>5. /\ out' \in Seq(Seq(Int)) /\ out' # <<>> /\ Pieces(out', w, 0) /\ out'[1] = w
      /\ \A k \in 1 .. Len(out') : out'[k] # <<>>
  BY <1>1, <1>4, OnePiece
<1>6. Alive(d) /\ Dumping(d) => cl[d].op = "ping"
  BY <1>1, <1>2, Handled
<1>7. link[d].c2s = <<>>
  BY <1>1, <1>2, Handled
<1>8. Alive(d) /\ Dumping(d) => Answers(d, w)'
  BY <1>1, <1>4, <1>5, <1>6 DEF Answers, Response, ResponseLen, Told, BaseLen
<1>9. badCopy \in BOOLEAN /\ ubuf \in Words
  BY <1>3 DEF Types
<1>10. cmd # DEINIT /\ cmd # INIT
  BY <1>1 DEF DEINIT, INIT
<1>11. Types' /\ Holder' /\ \A c \in Clients : Known(c)'
  BY <1>1, <1>2, <1>5, <1>7, <1>8, <1>9, <1>10, HandlerKeeps, Zenon
<1>12. freeFailed' = freeFailed
  BY <1>1, <1>3, <1>10, NothingNoted
<1>13. Geometry' /\ Fit' /\ CopiesFit'
  BY <1>1, <1>3, <1>12, PoolsAlone
<1>14. QED
  BY <1>11, <1>13 DEF Kept

(* The pointer to the user's block is set with it and stays. *)
LEMMA UserPointer ==
  ASSUME UserInv, NEW bps, NEW spc \in Int, NEW ret
  PROVE  /\ initializePool(bps, spc, ret) =>
               IF ret = 0 THEN upool'.ptr # 0 ELSE upool'.ptr = upool.ptr
         /\ deinitializePool(ret) => upool'.ptr = upool.ptr
<1>1. /\ upool.init \in {0, 1} /\ Error # 0 /\ 0 \notin Blocks
      /\ upool = [bps |-> upool.bps, spc |-> upool.spc, init |-> upool.init, uid |-> upool.uid,
                  ptr |-> upool.ptr, blocks |-> upool.blocks, lost |-> upool.lost]
  BY BlocksAssumption DEF UserInv, UPool!PoolType, Error
<1>2. ASSUME upool' = upool
      PROVE  upool'.ptr = upool.ptr
  BY <1>2
<1>3. ASSUME upool' = [upool EXCEPT !.bps = bps, !.spc = spc, !.uid = Error]
      PROVE  upool'.ptr = upool.ptr
  BY <1>1, <1>3
<1>4. ASSUME NEW b \in UPool!Allocatable(bps * spc),
             upool' = [upool EXCEPT !.bps = bps, !.spc = spc, !.uid = b,
                                    !.blocks[b] = bps * spc, !.lost = @ \cup {b}]
      PROVE  upool'.ptr = upool.ptr
  BY <1>1, <1>4
<1>5. ASSUME NEW b \in UPool!Allocatable(bps * spc),
             upool' = [upool EXCEPT !.bps = bps, !.spc = spc, !.uid = b,
                                    !.blocks[b] = bps * spc, !.ptr = b, !.init = 1]
      PROVE  upool'.ptr # 0
  <2>1. b \in Blocks
    BY DEF UPool!Allocatable
  <2>2. upool'.ptr = b
    BY <1>1, <1>5
  <2>3. QED
    BY <1>1, <2>1, <2>2
<1>6. ASSUME upool' = [upool EXCEPT !.blocks[upool.uid] = 0, !.init = 0]
      PROVE  upool'.ptr = upool.ptr
  BY <1>1, <1>6
<1>7. initializePool(bps, spc, ret) =>
        IF ret = 0 THEN upool'.ptr # 0 ELSE upool'.ptr = upool.ptr
  <2>1. -1 # 0 /\ -2 # 0
    OBVIOUS
  <2>2. QED
    BY <1>1, <1>2, <1>3, <1>4, <1>5, <2>1, Zenon DEF initializePool, UPool!initializePool
<1>8. deinitializePool(ret) => upool'.ptr = upool.ptr
  BY <1>2, <1>6, Zenon DEF deinitializePool, UPool!deinitializePool
<1>9. QED
  BY <1>7, <1>8

(* An answer without data. *)
LEMMA HeaderAnswer ==
  ASSUME NEW a \in Int, NEW b \in Int, NEW r \in Int, out' = <<Base(a, b, r)>>,
         NEW d \in Clients, cl'[d].op \in {"init", "deinit"}
  PROVE  \E R \in Seq(Int) : Answers(d, R)'
<1>1. PICK w : w = Base(a, b, r)
  OBVIOUS
<1>2. w \in Seq(Int) /\ Len(w) = 3 /\ w # <<>>
  BY <1>1, Tuples DEF Base
<1>3. Pieces(out', w, 0) /\ out'[1] = w
  BY <1>1, <1>2, OnePiece
<1>4. Response(d, w)'
  BY <1>2 DEF Response, ResponseLen, BaseLen
<1>5. Told(d, w)'
  BY DEF Told
<1>6. Len(out'[1]) >= BaseLen
  <2>1. Len(out'[1]) = 3
    BY <1>2, <1>3, Zenon
  <2>2. 3 >= BaseLen
    BY DEF BaseLen
  <2>3. QED
    BY <2>1, <2>2, Zenon
<1>7. Answers(d, w)'
  BY <1>3, <1>4, <1>5, <1>6 DEF Answers
<1>8. QED
  BY <1>2, <1>7

(* An answer without data is one piece. *)
LEMMA HeaderOut ==
  ASSUME NEW a \in Int, NEW b \in Int, NEW r \in Int, NEW o, o = <<Base(a, b, r)>>
  PROVE  o \in Seq(Seq(Int)) /\ o # <<>> /\ \A k \in 1 .. Len(o) : o[k] # <<>>
<1>1. PICK w : w = Base(a, b, r)
  OBVIOUS
<1>2. w \in Seq(Int) /\ w # <<>>
  BY <1>1, Tuples DEF Base
<1>3. QED
  BY <1>1, <1>2, OnePiece

(* What a request of the client lacks was lost with the connection. *)
LEMMA CutOffDead ==
  ASSUME ~ShortRecv, NEW n, Short(n), NEW d \in Clients, d = cli_sock
  PROVE  ~Alive(d)
  BY DEF Short, CutOff, Alive

(* ... an init is refused or sets up the pools for its client, ...         *)
LEMMA InitKeeps ==
  ASSUME Inv, Noted, UNCHANGED cl, handle_command_2
  PROVE  Kept
<1>1. /\ pc = "handle" /\ cmd = 2 /\ pc' = "send"
      /\ UNCHANGED <<badCopy, cli_sock>>
  BY DEF handle_command_2, Handling, INIT, Reply, handlerVars, processVars
<1>2. PICK d \in Clients : d = cli_sock
  BY <1>1 DEF Inv, ServerInv, Sockets, Session
<1>3. /\ Types /\ ServerInv /\ Geometry /\ Fit /\ CopiesFit /\ Holder
      /\ UserInv /\ PoolInv /\ link \in Conns(Words) /\ Inbox = link[d].c2s
  BY <1>2 DEF Inv, ServerInv, Types, Inbox
<1>4. cmd = INIT /\ cmd # DEINIT /\ INIT \in Int /\ Error \in Int /\ Error # 0
  BY <1>1 DEF DEINIT, INIT, Error
<1>5. Alive(d) /\ Dumping(d) => cl[d].op = "init" /\ Fresh(d)
  BY <1>1, <1>2, Handled
<1>6. badCopy \in BOOLEAN /\ ubuf \in Words /\ upool.init \in {0, 1}
  BY <1>3 DEF Types, UserInv, UPool!PoolType
<1>7. CASE /\ UNCHANGED <<link, upool, ubuf, faults, dvars>>
           /\ \/ upool.init # 0 /\ Reply(<<Base(INIT, -2, 0)>>, "close")
              \/ Short(2) /\ Reply(<<Base(INIT, -1, 0)>>, "close")
  <2>1. PICK v \in Int : out' = <<Base(INIT, v, 0)>> /\ after' = "close"
    BY <1>7 DEF Reply
  <2>2. Alive(d) /\ Dumping(d) => \E R \in Seq(Int) : Answers(d, R)'
    <3>1. PICK z \in Int : z = 0
      OBVIOUS
    <3>2. out' = <<Base(INIT, v, z)>> /\ INIT \in Int
      BY <1>4, <2>1, <3>1
    <3>3. Alive(d) /\ Dumping(d) => cl'[d].op \in {"init", "deinit"}
      BY <1>5
    <3>4. QED
      BY <3>1, <3>2, <3>3, HeaderAnswer, Zenon
  <2>3. out' \in Seq(Seq(Int)) /\ out' # <<>> /\ \A k \in 1 .. Len(out') : out'[k] # <<>>
    BY <1>4, <2>1, HeaderOut
  <2>4. UNCHANGED <<link, upool, ubuf, faults, kpool, ctx>>
    BY <1>7 DEF dvars
  <2>5. Types' /\ Holder' /\ \A c \in Clients : Known(c)'
    BY <1>1, <1>2, <1>4, <1>6, <2>1, <2>2, <2>3, <2>4, HandlerKeeps, Zenon
  <2>6. freeFailed' = freeFailed
    BY <1>3, <1>4, <2>4, NothingNoted
  <2>7. Geometry' /\ Fit' /\ CopiesFit'
    BY <1>1, <1>3, <2>4, <2>6, PoolsAlone
  <2>8. QED
    BY <2>5, <2>7 DEF Kept
<1>8. ASSUME Whole(2), Link!SrvTake(cli_sock, 2)
      PROVE  /\ link[d].c2s = <<1, SectorsPerCluster>> /\ Len(link[d].c2s) = 2
             /\ Inbox[1] = 1 /\ Inbox[2] = SectorsPerCluster /\ ~link[d].rst
             /\ 2 \in Nat /\ link'[d].c2s = <<>>
  <2>1. link[d].c2s # <<>>
    <3>1. Len(<<>>) = 0
      OBVIOUS
    <3>2. QED
      BY <1>3, <1>8, <3>1 DEF Whole
  <2>2. link[d].c2s = <<1, SectorsPerCluster>>
    BY <1>1, <1>2, <2>1, Handled
  <2>3. Len(link[d].c2s) = 2 /\ Inbox[1] = 1 /\ Inbox[2] = SectorsPerCluster
    BY <1>3, <2>2
  <2>4. ~link[d].rst
    BY <2>1 DEF Inv, Known, Off, Dumping, Ends
  <2>5. link'[d].c2s = <<>>
    <3>1. /\ \E n \in Nat : n <= Len(link[d].c2s) /\ Link!SrvTake(cli_sock, n)
          /\ \E n \in Nat : Len(link[d].c2s) = n /\ Link!SrvTake(cli_sock, n)
      BY <1>8, <2>3
    <3>2. QED
      BY <1>2, <1>3, <3>1, HandlerLink
  <2>6. QED
    BY <2>2, <2>3, <2>4, <2>5
<1>9. ASSUME NEW vita \in Results \ {0}, upool.init = 0, Whole(2), Link!SrvTake(cli_sock, 2),
             initializePool(Inbox[1], Inbox[2], vita), Charge(vita),
             Reply(<<Base(INIT, vita, 0)>>, "recv"), UNCHANGED <<ubuf, dvars>>
      PROVE  Kept
  <2>1. /\ Len(link[d].c2s) = 2 /\ Inbox[1] = 1 /\ Inbox[2] = SectorsPerCluster
        /\ 2 \in Nat /\ link'[d].c2s = <<>>
    BY <1>8, <1>9
  <2>2. initializePool(1, SectorsPerCluster, vita) /\ SectorsPerCluster \in Int /\ SectorSize = 1
    BY <1>9, <2>1, PlanSizes DEF SectorSize
  <2>3. vita = Error /\ upool'.init = 0 /\ upool'.bps = 1 /\ upool'.spc = SectorsPerCluster
    BY <1>3, <1>9, <2>2, UserInitializeEffect
  <2>4. upool'.ptr = upool.ptr
    BY <1>3, <1>9, <2>2, UserPointer
  <2>5. Fault /\ UNCHANGED <<kpool, ctx, ubuf>>
    BY <1>9, <2>3 DEF Charge, dvars
  <2>6. out' = <<Base(INIT, Error, 0)>> /\ after' = "recv"
    BY <1>9, <2>3 DEF Reply
  <2>7. Alive(d) /\ Dumping(d) => \E R \in Seq(Int) : Answers(d, R)'
    BY <1>4, <1>5, <2>6, HeaderAnswer DEF Error
  <2>8. out' \in Seq(Seq(Int)) /\ out' # <<>> /\ \A k \in 1 .. Len(out') : out'[k] # <<>>
    BY <1>4, <2>6, HeaderOut
  <2>9. upool.init = 0 /\ upool'.init = upool.init /\ (\E n \in Nat : n <= Len(link[d].c2s) /\ Link!SrvTake(cli_sock, n))
    BY <1>9, <2>1, <2>3
  <2>10. Types' /\ Holder' /\ \A c \in Clients : Known(c)'
    <3>1. ~(upool.init = 1)
      BY <2>9
    <3>2. QED
      BY <1>1, <1>2, <1>4, <1>6, <2>1, <2>5, <2>6, <2>7, <2>8, <2>9, <3>1, HandlerKeeps, Zenon
  <2>11. freeFailed' = freeFailed
    BY <1>3, <1>4, <2>9, NothingNoted
  <2>12. Geometry'
    BY <1>3, <2>3, <2>4, <2>5 DEF Geometry
  <2>13. Fit' /\ CopiesFit'
    BY <1>1, <1>3, <2>4, <2>5, <2>9, <2>11 DEF Fit, CopiesFit
  <2>14. QED
    BY <2>10, <2>12, <2>13 DEF Kept
<1>10. ASSUME NEW proxy \in Results, upool.init = 0, Whole(2), Link!SrvTake(cli_sock, 2),
              initializePool(Inbox[1], Inbox[2], 0),
              ubuf' = FreshBuffer(Inbox[1] * Inbox[2]),
              psvemmcInitialize(Inbox[1], Inbox[2], proxy), Charge(proxy),
              Reply(<<Base(INIT, 0, proxy)>>, "recv")
       PROVE  Kept
  <2>1. /\ Len(link[d].c2s) = 2 /\ Inbox[1] = 1 /\ Inbox[2] = SectorsPerCluster
        /\ ~link[d].rst /\ 2 \in Nat /\ link'[d].c2s = <<>>
    BY <1>8, <1>10
  <2>2. PICK s \in Nat \ {0} : s = SectorsPerCluster /\ 1 * s = s
    BY PlanSizes
  <2>3. /\ initializePool(1, s, 0) /\ psvemmcInitialize(1, s, proxy)
        /\ ubuf' = FreshBuffer(s) /\ s \in Int /\ SectorSize = 1 /\ 1 \in Int
    BY <1>10, <2>1, <2>2 DEF SectorSize
  <2>4. upool'.init = 1 /\ upool'.bps = 1 /\ upool'.spc = s
    BY <1>3, <2>3, UserInitializeEffect
  <2>5. upool'.ptr # 0
    BY <1>3, <2>3, UserPointer
  <2>6. ubuf' \in Words /\ Len(ubuf') = s
    <3>1. ubuf' \in [1 .. s -> Int]
      BY <2>3 DEF FreshBuffer, Garbage
    <3>2. ubuf' \in Seq(Int) /\ Len(ubuf') = s
      BY <3>1
    <3>3. QED
      BY <3>2 DEF Words
  <2>7. /\ proxy = 0 => kpool'.init = 1 /\ kpool'.bps = 1 /\ kpool'.spc = s
        /\ proxy = Error => kpool'.bps = 1 /\ kpool'.spc = s
        /\ proxy \notin {0, Error} => kpool' = kpool
        /\ UNCHANGED ctx
    <3>1. UNCHANGED ctx
      BY <2>3 DEF psvemmcInitialize
    <3>2. QED
      BY <1>3, <2>3, <3>1, KernelInitializeEffect
  <2>8. out' = <<Base(INIT, 0, proxy)>> /\ after' = "recv" /\ proxy \in Int
    <3>1. proxy \in Int
      BY DEF Results, Error
    <3>2. QED
      BY <1>10, <3>1 DEF Reply
  <2>9. Alive(d) /\ Dumping(d) => \E R \in Seq(Int) : Answers(d, R)'
    <3>1. PICK i, v \in Int : i = INIT /\ v = 0
      BY <1>4
    <3>2. out' = <<Base(i, v, proxy)>> /\ proxy \in Int
      BY <2>8, <3>1
    <3>3. Alive(d) /\ Dumping(d) => cl'[d].op \in {"init", "deinit"}
      BY <1>5
    <3>4. QED
      BY <3>1, <3>2, <3>3, HeaderAnswer, Zenon
  <2>10. out' \in Seq(Seq(Int)) /\ out' # <<>> /\ \A k \in 1 .. Len(out') : out'[k] # <<>>
    BY <1>4, <2>8, HeaderOut
  <2>11. acquired' = acquired \cup {d} /\ freeFailed' = freeFailed /\ Recorded
    <3>1. acquired' = acquired \cup {d}
      BY <1>2, <1>10, <2>4 DEF Noted
    <3>2. freeFailed' = freeFailed
      BY <1>3, <1>4 DEF Noted, Types
    <3>3. QED
      BY <1>1, <3>1, <3>2 DEF Recorded, Noted
  <2>12. \E n \in Nat : n <= Len(link[d].c2s) /\ Link!SrvTake(cli_sock, n)
    BY <1>10, <2>1
  <2>13. /\ link' \in Conns(Words) /\ \A e \in Clients : link'[e].cli = link[e].cli
         /\ \A e \in Clients \ {d} : link'[e] = link[e]
         /\ link'[d].srv = link[d].srv /\ link'[d].rst = link[d].rst
         /\ link'[d].s2c = link[d].s2c /\ (link[d].c2s = <<>> => link'[d].c2s = <<>>)
    BY <1>2, <1>3, <2>12, HandlerLink
  <2>14. Types'
    BY <1>1, <1>2, <1>3, <1>6, <2>6, <2>7, <2>10, <2>13, HandlerTypes, Zenon
  <2>15. ASSUME NEW c \in Clients
         PROVE  Known(c)'
    <3>1. d \in acquired'
      BY <2>11
    <3>2. QED
      BY <1>1, <1>2, <2>1, <2>8, <2>9, <2>10, <2>11, <2>13, <3>1, AnswerGiven, Zenon
  <2>16. Geometry'
    BY <1>3, <2>2, <2>4, <2>5, <2>6, <2>7 DEF Geometry
  <2>17. Fit' /\ CopiesFit'
    BY <1>1, <1>3, <2>4, <2>11 DEF Fit, CopiesFit
  <2>18. Holder'
    <3> SUFFICES ASSUME ~ShortRecv
                 PROVE  Holder'
      BY DEF Holder
    <3>5. Dumping(d)
      BY DEF Inv, Known, Off
    <3>1. cl[d].ret # "ok" /\ cl[d].op # "connect" /\ link[d].srv = "open"
      BY <1>1, <1>2, <3>5, Handled DEF Dumping, Ends, Serves
    <3>2. ASSUME link[d].cli
          PROVE  cl[d].op = "init" /\ cl[d].phase = "header"
      <4>1. cl[d].op = "init" /\ cl[d].phase # "send"
        BY <1>5, <2>1, <3>2, <3>5 DEF Alive, Fresh
      <4>2. QED
        BY <1>3, <3>5, <4>1, RunTypes DEF Dumping, Phases
    <3>3. Keeps(d)'
      BY <1>1, <2>1, <2>8, <2>11, <2>13, <3>1, <3>2 DEF Keeps, Closing, Past
    <3>4. QED
      BY <3>3 DEF Holder
  <2>19. QED
    BY <2>14, <2>15, <2>16, <2>17, <2>18 DEF Kept
<1>11. QED
  BY <1>7, <1>9, <1>10 DEF handle_command_2

(* ... a deinit is refused or releases the pools, ...                      *)
LEMMA DeinitKeeps ==
  ASSUME Inv, Noted, UNCHANGED cl, handle_command_3
  PROVE  Kept
<1>1. /\ pc = "handle" /\ cmd = 3 /\ pc' = "send"
      /\ UNCHANGED <<link, ubuf, badCopy, cli_sock>>
  BY DEF handle_command_3, Handling, DEINIT, Reply, handlerVars, processVars
<1>2. PICK d \in Clients : d = cli_sock
  BY <1>1 DEF Inv, ServerInv, Sockets, Session
<1>3. /\ Types /\ ServerInv /\ Geometry /\ Fit /\ CopiesFit
      /\ UserInv /\ PoolInv /\ link \in Conns(Words)
  BY DEF Inv, ServerInv, Types
<1>4. cmd = DEINIT /\ cmd # INIT /\ DEINIT \in Int
  BY <1>1 DEF DEINIT, INIT
<1>5. Alive(d) /\ Dumping(d) => cl[d].op = "deinit"
  BY <1>1, <1>2, Handled
<1>6. link[d].c2s = <<>> /\ link[d].srv = "open"
  BY <1>1, <1>2, Handled
<1>7. badCopy \in BOOLEAN /\ ubuf \in Words /\ upool.init \in {0, 1} /\ faults \in Nat
  BY <1>3 DEF Types, ServerInv, UserInv, UPool!PoolType
<1>8. CASE /\ upool.init = 0 /\ Reply(<<Base(DEINIT, -2, 0)>>, "close")
           /\ UNCHANGED <<upool, faults, dvars>>
  <2>1. PICK v \in Int : out' = <<Base(DEINIT, v, 0)>> /\ after' = "close"
    BY <1>8 DEF Reply
  <2>2. Alive(d) /\ Dumping(d) => \E R \in Seq(Int) : Answers(d, R)'
    <3>1. PICK z \in Int : z = 0
      OBVIOUS
    <3>2. out' = <<Base(DEINIT, v, z)>> /\ DEINIT \in Int
      BY <1>4, <2>1, <3>1
    <3>3. Alive(d) /\ Dumping(d) => cl'[d].op = "deinit"
      BY <1>5
    <3>4. QED
      BY <3>2, <3>3, HeaderAnswer, Zenon
  <2>3. out' \in Seq(Seq(Int)) /\ out' # <<>> /\ \A k \in 1 .. Len(out') : out'[k] # <<>>
    BY <1>4, <2>1, HeaderOut
  <2>4. UNCHANGED <<link, upool, ubuf, faults, kpool, ctx>> /\ upool.init = 0
    BY <1>1, <1>8 DEF dvars
  <2>5. Types' /\ Holder' /\ \A c \in Clients : Known(c)'
    <3>1. ~(upool.init = 1)
      BY <2>4
    <3>2. QED
      BY <1>1, <1>2, <1>4, <1>7, <2>1, <2>2, <2>3, <2>4, <3>1, HandlerKeeps, Zenon
  <2>6. freeFailed' = freeFailed
    BY <1>3, <1>4, <2>4, NothingNoted
  <2>7. Geometry' /\ Fit' /\ CopiesFit'
    BY <1>1, <1>3, <2>4, <2>6, PoolsAlone
  <2>8. QED
    BY <2>5, <2>7 DEF Kept
<1>9. ASSUME NEW proxy \in Results, NEW vita \in Results, upool.init # 0,
             psvemmcDeinitialize(proxy), deinitializePool(vita),
             IF proxy = Error /\ vita = Error
             THEN faults + 2 <= MaxFaults /\ faults' = faults + 2
             ELSE Charge(IF proxy = Error THEN proxy ELSE vita),
             Reply(<<Base(DEINIT, vita, proxy)>>, "recv")
      PROVE  Kept
  <2>1. /\ upool'.bps = upool.bps /\ upool'.spc = upool.spc
        /\ upool'.init = IF vita = 0 THEN 0 ELSE upool.init
        /\ vita \in {0, Error}
    BY <1>3, <1>9, UserDeinitializeEffect
  <2>2. upool'.ptr = upool.ptr
    <3>1. 0 \in Int
      OBVIOUS
    <3>2. QED
      BY <1>3, <1>9, <3>1, UserPointer, Zenon
  <2>3. /\ kpool'.bps = kpool.bps /\ kpool'.spc = kpool.spc
        /\ kpool'.init = IF proxy = 0 THEN 0 ELSE kpool.init
        /\ UNCHANGED ctx
    BY <1>3, <1>9, KernelDeinitializeEffect DEF psvemmcDeinitialize
  <2>4. faults' = 0 => upool'.init = 0
    <3>1. CASE vita = 0
      BY <2>1, <3>1
    <3>2. CASE vita # 0
      <4>1. vita = Error
        BY <2>1, <3>2
      <4>2. faults' = faults + 1 \/ faults' = faults + 2
        BY <1>9, <4>1 DEF Charge, Fault
      <4>3. QED
        BY <1>7, <4>2
    <3>3. QED
      BY <3>1, <3>2
  <2>5. out' = <<Base(DEINIT, vita, proxy)>> /\ after' = "recv"
    BY <1>9 DEF Reply
  <2>6. vita \in Int /\ proxy \in Int
    BY DEF Results, Error
  <2>7. Alive(d) /\ Dumping(d) => \E R \in Seq(Int) : Answers(d, R)'
    BY <1>4, <1>5, <2>5, <2>6, HeaderAnswer
  <2>8. out' \in Seq(Seq(Int)) /\ out' # <<>> /\ \A k \in 1 .. Len(out') : out'[k] # <<>>
    BY <1>4, <2>5, <2>6, HeaderOut
  <2>9. acquired' = acquired /\ Recorded
    BY <1>1, <1>9 DEF Noted, Recorded
  <2>10. kpool.init = 1 /\ kpool'.init = 1 => freeFailed'
    BY <1>1, <1>4, <1>9 DEF Noted
  <2>11. ASSUME Alive(d), Dumping(d), d \notin acquired'
         PROVE  upool'.init = 0
    <3>1. Past(d) /\ ~Closing
      BY <1>1, <1>5, <2>11 DEF Past, Closing
    <3>2. upool.init = 0
      BY <1>6, <2>9, <2>11, <3>1 DEF Dumping, Unpooled
    <3>3. QED
      BY <1>9, <3>2
  <2>12. ASSUME NEW c \in Clients
         PROVE  Known(c)'
    <3>1. /\ \A e \in Clients \ {d} : link'[e] = link[e]
          /\ link'[d] = link[d]
      BY <1>1
    <3>2. QED
      BY <1>1, <1>2, <1>6, <2>5, <2>7, <2>8, <2>9, <2>11, <3>1, AnswerGiven, Zenon
  <2>13. Types'
    BY <1>1, <1>2, <1>3, <1>7, <2>3, <2>8, HandlerTypes, Zenon
  <2>14. Geometry'
    BY <1>1, <1>3, <2>1, <2>2, <2>3 DEF Geometry
  <2>15. Fit'
    BY <1>3, <2>2, <2>3, <2>10 DEF Fit
  <2>16. CopiesFit'
    BY <1>1, <1>3, <2>9 DEF CopiesFit, Recorded
  <2>17. Holder'
    BY <2>4 DEF Holder
  <2>18. QED
    BY <2>12, <2>13, <2>14, <2>15, <2>16, <2>17 DEF Kept
<1>10. QED
  BY <1>8, <1>9 DEF handle_command_3

(* ... a sector is read, ...                                               *)
LEMMA SectorWordsOne ==
  ASSUME NEW n \in Nat
  PROVE  /\ SectorWord(Mode, n) \in Int
         /\ SectorWords(Mode, n, 1) = <<SectorWord(Mode, n)>>
<1>1. SectorWord(Mode, n) \in Int
  <2>1. PICK q \in Seq(Int) : q = DeviceData[Mode]
    BY DataAssumption, PartitionAssumption DEF Devices
  <2>2. \A k \in DOMAIN q : q[k] \in Int
    OBVIOUS
  <2>3. QED
    BY <2>1, <2>2 DEF SectorWord
<1>2. PICK v \in Int : v = SectorWord(Mode, n)
  BY <1>1
<1>3. PICK p : p = SectorWords(Mode, n, 1)
  OBVIOUS
<1>4. p = [k \in 1 .. 1 |-> SectorWord(Mode, n + k - 1)]
  BY <1>3 DEF SectorWords
<1>5. \A k \in 1 .. 1 : k = 1 /\ n + k - 1 = n
  OBVIOUS
<1>6. p \in [1 .. 1 -> Int] /\ p[1] = v
  BY <1>2, <1>4, <1>5
<1>7. p = <<p[1]>>
  BY <1>6
<1>8. p = <<v>>
  BY <1>6, <1>7, Zenon
<1>9. QED
  BY <1>1, <1>2, <1>3, <1>8, Zenon

(* The argument of a read is taken; requests that wait behind it stay.     *)
LEMMA ArgumentTaken ==
  ASSUME Inv, NEW d \in Clients, d = cli_sock, pc = "handle", cmd \in Reads,
         Whole(1), Link!SrvTake(cli_sock, 1)
  PROVE  /\ Head(Inbox) \in Nat
         /\ link'[d].c2s = <<>> \/ (Off(d) /\ Asked(link'[d].c2s, 0, Going(d)))
         /\ \E k \in Nat : k <= Len(link[d].c2s) /\ Link!SrvTake(cli_sock, k)
         /\ \A k : link[d].c2s = <<k>> => Head(Inbox) = k
<1>1. link \in Conns(Words) /\ Inbox = link[d].c2s
  BY DEF Inv, Types, Inbox
<1>2. PICK q \in Words : q = link[d].c2s
  BY <1>1 DEF Conns, Conn, Words
<1>3. 1 <= Len(q) /\ q # <<>> /\ Head(Inbox) = q[1] /\ Len(q) \in Nat
  <2>1. 1 <= Len(q) /\ Len(q) \in Nat
    BY <1>1, <1>2, LenProperties DEF Whole, Words
  <2>2. q # <<>>
    BY <2>1, EmptySeq DEF Words
  <2>3. QED
    BY <1>1, <1>2, <2>1, <2>2 DEF Words
<1>4. link'[d].c2s = SubSeq(q, 2, Len(q))
  <2>1. link'[d].c2s = SubSeq(q, 1 + 1, Len(q))
    BY <1>1, <1>2, <1>3, SrvTakeWords
  <2>2. QED
    BY <2>1
<1>5. \/ \E n \in Nat : q = <<n>>
      \/ Off(d) /\ Asked(q, 1, Going(d))
  BY <1>2, <1>3, Handled DEF Reads
<1>6. ASSUME NEW n \in Nat, q = <<n>>
      PROVE  q[1] \in Nat /\ link'[d].c2s = <<>>
  <2>1. n \in Int
    OBVIOUS
  <2>2. SubSeq(q, 2, Len(q)) = <<>> /\ q[1] = n
    BY <1>6, <2>1, Rests
  <2>3. QED
    BY <1>4, <2>2
<1>7. ASSUME Off(d), Asked(q, 1, Going(d))
      PROVE  q[1] \in Nat /\ Asked(link'[d].c2s, 0, Going(d))
  <2>1. Going(d) \in BOOLEAN
    BY DEF Going
  <2>2. QED
    BY <1>3, <1>4, <1>7, <2>1, AskedArgument
<1>8. \E k \in Nat : k <= Len(q) /\ Link!SrvTake(cli_sock, k)
  <2>1. 1 \in Nat
    OBVIOUS
  <2>2. QED
    BY <1>3, <2>1
<1>9. \A k : q = <<k>> => q[1] = k
  OBVIOUS
<1>10. QED
  BY <1>2, <1>3, <1>5, <1>6, <1>7, <1>8, <1>9

(* The handlers that read a sector keep the invariant, whether the         *)
(* receive or the read fails or not.                                       *)
LEMMA SectorReadKeeps ==
  ASSUME Inv, Noted, UNCHANGED cl,
         handle_command_4 \/ handle_command_8 \/ handle_command_12
  PROVE  Kept
<1>1. PICK dev \in Devices :
        /\ pc = "handle" /\ cmd = READ_SECTOR[dev]
        /\ \/ /\ Short(1)
              /\ Reply(<<Base(cmd, -1, 0) \o <<0>>>>, "close")
              /\ UNCHANGED <<link, faults>>
           \/ /\ Whole(1)
              /\ Link!SrvTake(cli_sock, 1)
              /\ \E r \in SectorRead(dev, Head(Inbox)) :
                 /\ Charge(r.ret)
                 /\ Reply(<<Base(cmd, 0, r.ret), IF r.ret = 0 THEN r.copied ELSE <<0>> >>, "recv")
        /\ UNCHANGED <<upool, ubuf, badCopy, handlerVars, dvars>>
  BY DEF handle_command_4, handle_command_8, handle_command_12, HandleReadSector, Handling,
         readSector, readSectorMs, readSectorGc, Devices
<1>2. pc' = "send" /\ UNCHANGED <<upool, ubuf, badCopy, cli_sock, kpool, ctx>>
  BY <1>1 DEF Reply, handlerVars, processVars, dvars
<1>3. PICK d \in Clients : d = cli_sock
  BY <1>1 DEF Inv, ServerInv, Sockets, Session
<1>4. /\ Types /\ ServerInv /\ Geometry /\ Fit /\ CopiesFit /\ link \in Conns(Words)
      /\ Inbox = link[d].c2s /\ badCopy \in BOOLEAN /\ ubuf \in Words
  BY <1>3 DEF Inv, Types, Inbox
<1>5. dev = Mode /\ cmd \in Int /\ cmd # DEINIT /\ cmd # INIT
  <2>1. cmd \in {4, 8, 12} /\ READ_CLUSTER[Mode] \in {5, 9, 13}
    BY <1>1, CommandNumbers, PartitionAssumption
  <2>2. cmd = READ_SECTOR[Mode]
    <3>1. cmd \in {0, 2, 3} \cup {READ_SECTOR[Mode], READ_CLUSTER[Mode]}
      BY <1>1, <1>3, Handled
    <3>2. QED
      BY <2>1, <3>1
  <2>3. dev = Mode
    BY <1>1, <2>2, PartitionAssumption DEF READ_SECTOR, Devices
  <2>4. QED
    BY <2>1, <2>3 DEF DEINIT, INIT
<1>6. Alive(d) /\ Dumping(d) => cl[d].op \in {"mbr", "sector"}
  BY <1>1, <1>3, <1>5, Handled
<1>7. /\ out' \in Seq(Seq(Int)) /\ out' # <<>> /\ after' \in {"recv", "close"}
      /\ \A k \in 1 .. Len(out') : out'[k] # <<>>
      /\ faults' = faults \/ Fault
      /\ \/ UNCHANGED link
         \/ \E n \in Nat : n <= Len(link[d].c2s) /\ Link!SrvTake(cli_sock, n)
      /\ after' = "recv" =>
           link'[d].c2s = <<>> \/ (Off(d) /\ Asked(link'[d].c2s, 0, Going(d)))
      /\ ~ShortRecv /\ Alive(d) => after' = "recv"
      /\ Alive(d) /\ Dumping(d) => \E R \in Seq(Int) : Answers(d, R)'
  <2>1. CASE /\ Short(1) /\ UNCHANGED <<link, faults>>
             /\ Reply(<<Base(cmd, -1, 0) \o <<0>>>>, "close")
    <3>1. PICK p, q, w : p = Base(cmd, -1, 0) /\ q = <<0>> /\ w = p \o q
      OBVIOUS
    <3>2. p \in Seq(Int) /\ q \in Seq(Int) /\ Len(p) = 3 /\ Len(q) = 1
      BY <1>5, <3>1, Tuples DEF Base
    <3>3. w \in Seq(Int) /\ Len(w) = Len(p) + Len(q) /\ w[3] = 0 /\ w[4] = 0
      <4>1. \A i \in 1 .. 3 + 1 : w[i] = IF i <= 3 THEN p[i] ELSE q[i - 3]
        <5>1. \A i \in 1 .. Len(p) + Len(q) : w[i] = IF i <= Len(p) THEN p[i] ELSE q[i - Len(p)]
          BY <3>1, <3>2, ConcatProperties, Zenon
        <5>2. QED
          BY <3>2, <5>1
      <4>2. p[3] = 0 /\ q[4 - 3] = 0
        BY <3>1 DEF Base
      <4>3. QED
        BY <3>1, <3>2, <4>1, <4>2, ConcatProperties
    <3>4. w # <<>>
      <4>1. Len(w) = 4 /\ Len(<<>>) = 0
        BY <3>2, <3>3
      <4>2. QED
        BY <4>1
    <3>5. out' = <<w>> /\ after' = "close"
      BY <2>1, <3>1 DEF Reply
    <3>6. /\ out' \in Seq(Seq(Int)) /\ out' # <<>> /\ Pieces(out', w, 0) /\ out'[1] = w
          /\ \A k \in 1 .. Len(out') : out'[k] # <<>>
      BY <3>3, <3>4, <3>5, OnePiece
    <3>7. ~ShortRecv => ~Alive(d)
      BY <1>3, <2>1, CutOffDead
    <3>8. ASSUME Alive(d), Dumping(d)
          PROVE  Answers(d, w)'
      <4>1. Len(w) = 4 /\ ShortRecv /\ cl'[d].op \in {"mbr", "sector"}
        BY <1>6, <3>2, <3>3, <3>7, <3>8
      <4>2. ResponseLen(cl'[d].op) = 4
        BY <4>1 DEF ResponseLen, BaseLen
      <4>3. Response(d, w)'
        BY <3>3, <4>1, <4>2 DEF Response
      <4>4. Told(d, w)'
        BY <1>2, <1>3, <3>5 DEF Told, Ending, Serves
      <4>5. Len(out'[1]) = 4
        BY <3>6, <4>1, Zenon
      <4>6. QED
        BY <3>6, <4>3, <4>4, <4>5 DEF Answers, BaseLen
    <3>9. QED
      BY <2>1, <3>3, <3>5, <3>6, <3>7, <3>8
  <2>2. ASSUME Whole(1), Link!SrvTake(cli_sock, 1), NEW r \in SectorRead(dev, Head(Inbox)),
               Charge(r.ret),
               Reply(<<Base(cmd, 0, r.ret), IF r.ret = 0 THEN r.copied ELSE << 0 >> >>, "recv")
        PROVE  /\ out' \in Seq(Seq(Int)) /\ out' # <<>> /\ after' = "recv"
               /\ \A k \in 1 .. Len(out') : out'[k] # <<>>
               /\ faults' = faults \/ Fault
               /\ \E n \in Nat : n <= Len(link[d].c2s) /\ Link!SrvTake(cli_sock, n)
               /\ link'[d].c2s = <<>> \/ (Off(d) /\ Asked(link'[d].c2s, 0, Going(d)))
               /\ Alive(d) /\ Dumping(d) => \E R \in Seq(Int) : Answers(d, R)'
    <3>1. PICK n \in Nat : Head(Inbox) = n
      BY <1>1, <1>3, <1>5, <2>2, ArgumentTaken DEF Reads
    <3>3. /\ link'[d].c2s = <<>> \/ (Off(d) /\ Asked(link'[d].c2s, 0, Going(d)))
          /\ \E k \in Nat : k <= Len(link[d].c2s) /\ Link!SrvTake(cli_sock, k)
          /\ \A k : link[d].c2s = <<k>> => n = k
      BY <1>1, <1>3, <1>5, <2>2, <3>1, ArgumentTaken DEF Reads
    <3>4. PICK v \in Int : /\ out' = <<Base(cmd, 0, r.ret), <<v>> >> /\ after' = "recv"
                           /\ r.ret = 0 => v = SectorWord(Mode, n)
      <4>1. r.ret = 0 => r.copied = <<SectorWord(Mode, n)>>
        <5>1. r \in {Failed(-1), Failed(Error), Read(SectorWords(Mode, n, 1))}
          BY <1>5, <3>1 DEF SectorRead
        <5>2. Failed(-1).ret = -1 /\ Failed(Error).ret = -9
          BY DEF Failed, Error
        <5>3. Read(SectorWords(Mode, n, 1)).copied = <<SectorWord(Mode, n)>>
          BY SectorWordsOne DEF Read
        <5>4. QED
          BY <5>1, <5>2, <5>3
      <4>2. CASE r.ret = 0
        <5>1. SectorWord(Mode, n) \in Int
          BY SectorWordsOne
        <5>2. out' = <<Base(cmd, 0, r.ret), <<SectorWord(Mode, n)>> >> /\ after' = "recv"
          BY <2>2, <4>1, <4>2 DEF Reply
        <5>3. QED
          BY <5>1, <5>2
      <4>3. CASE r.ret # 0
        <5>1. PICK z \in Int : z = 0
          OBVIOUS
        <5>2. out' = <<Base(cmd, 0, r.ret), <<z>> >> /\ after' = "recv"
          BY <2>2, <4>3, <5>1 DEF Reply
        <5>3. QED
          BY <4>3, <5>2
      <4>4. QED
        BY <4>2, <4>3
    <3>5. r.ret \in Int
      <4>1. r \in {Failed(-1), Failed(Error), Read(SectorWords(dev, Head(Inbox), 1))}
        BY DEF SectorRead
      <4>2. QED
        BY <4>1 DEF Failed, Read, Error
    <3>6. PICK e, z \in Int : e = r.ret /\ z = 0
      BY <3>5
    <3>7. PICK b \in Seq(Int) : b = Base(cmd, 0, r.ret) /\ b = <<cmd, z, e>>
      BY <1>5, <3>6, Tuples DEF Base
    <3>8. /\ out' \in Seq(Seq(Int)) /\ Len(out') = 1 + 1 /\ out'[1] = <<cmd, z, e>>
          /\ out'[2] = <<v>> /\ out' # <<>>
      <4>1. PICK u \in Seq(Int) : u = <<v>>
        BY Tuples
      <4>2. out' = <<b, u>>
        BY <3>4, <3>7, <4>1
      <4>3. out' \in Seq(Seq(Int)) /\ Len(out') = 2 /\ out'[1] = b /\ out'[2] = u
        BY <4>2
      <4>4. out' # <<>>
        <5>1. Len(out') # 0
          BY <4>3
        <5>2. QED
          BY <5>1, NotEmpty, Zenon
      <4>5. QED
        BY <3>7, <4>1, <4>3, <4>4
    <3>9. PICK m \in Nat : m = 1 /\ Len(out') = 1 + m
      BY <3>8
    <3>10. PICK f : /\ \A k \in 1 .. m : f[k] \in Int
                    /\ \A k \in 1 .. m : out'[1 + k] = <<f[k]>>
                    /\ f[1] = v
      <4>1. PICK f : f = [k \in 1 .. 1 |-> v]
        OBVIOUS
      <4>2. \A k \in 1 .. m : f[k] = v /\ k = 1
        BY <3>9, <4>1
      <4>3. f[1] = v /\ 1 + 1 = 2
        BY <4>1
      <4>4. QED
        BY <3>8, <4>2, <4>3
    <3>11. PICK R \in Seq(Int) : /\ Len(R) = 3 + m /\ R[3] = e
                                 /\ \A k \in 1 .. m : R[3 + k] = f[k]
                                 /\ Pieces(out', R, 0) /\ Len(out'[1]) = 3
                                 /\ \A k \in 1 .. Len(out') : out'[k] # <<>>
      <4>1. PICK o \in Seq(Seq(Int)) : /\ o = out' /\ Len(o) = 1 + m /\ o[1] = <<cmd, z, e>>
                                       /\ \A k \in 1 .. m : o[1 + k] = <<f[k]>>
        BY <3>8, <3>9, <3>10
      <4>2. HeaderAndWords(o, cmd, z, e, m, f)
        <5>1. Len(o) = 1 + m /\ Len(o) - 1 = m
          BY <4>1
        <5>2. QED
          BY <1>5, <3>10, <4>1, <5>1 DEF HeaderAndWords
      <4>3. PICK R \in Seq(Int) : AllWords(R, cmd, z, e, m, f) /\ Pieces(o, R, 0)
        BY <4>2, AnswerPieces
      <4>5. Len(o[1]) = 3 /\ \A k \in 1 .. Len(o) : o[k] # <<>>
        BY <4>2, AnswerPieces
      <4>4. QED
        BY <4>1, <4>3, <4>5 DEF AllWords
    <3>12. Len(R) = 4 /\ R[4] = v
      <4>1. 1 \in 1 .. m /\ 3 + 1 = 4
        BY <3>9
      <4>2. QED
        BY <3>9, <3>10, <3>11, <4>1
    <3>13. Alive(d) /\ Dumping(d) => Response(d, R)' /\ Told(d, R)'
      <4>1. ASSUME Alive(d), Dumping(d), cl[d].op = "sector"
            PROVE  n = C!TailSector(PartitionOffset, PartitionSize, cl[d].i)
        <5>1. link[d].c2s = <<C!TailSector(PartitionOffset, PartitionSize, cl[d].i)>>
          BY <1>1, <1>3, <4>1, Handled
        <5>2. QED
          BY <3>3, <5>1
      <4>2. R[3] = 0 => R[4] = SectorWord(Mode, n)
        BY <3>4, <3>6, <3>11, <3>12
      <4>3. cl[d].op \in {"mbr", "sector"} => ResponseLen(cl[d].op) = 4
        BY DEF ResponseLen, BaseLen
      <4>4. QED
        BY <1>6, <3>11, <3>12, <4>1, <4>2, <4>3 DEF Response, Told, TailWord
    <3>14. faults' = faults \/ Fault
      BY <2>2 DEF Charge
    <3>16. Alive(d) /\ Dumping(d) => Answers(d, R)'
      <4>1. 3 >= BaseLen
        BY DEF BaseLen
      <4>2. Len(out'[1]) >= BaseLen
        BY <3>11, <4>1, Zenon
      <4>3. QED
        BY <3>11, <3>13, <4>2 DEF Answers
    <3>15. QED
      BY <2>2, <3>3, <3>4, <3>8, <3>11, <3>14, <3>16
  <2>3. QED
    BY <1>1, <2>1, <2>2
<1>8. Types' /\ Holder' /\ \A c \in Clients : Known(c)'
  <2>1. upool'.init = upool.init /\ ubuf' \in Words /\ badCopy' \in BOOLEAN
        /\ (badCopy => badCopy') /\ UNCHANGED <<cl, cli_sock, ctx>>
        /\ ~(cmd = DEINIT /\ upool.init # 0)
        /\ (upool.init = 1 /\ cmd = INIT => after' = "close")
        /\ (~ShortRecv /\ Alive(d) /\ upool.init = 1 /\ cmd # INIT => after' = "recv")
    BY <1>2, <1>4, <1>5, <1>7
  <2>2. QED
    BY <1>1, <1>2, <1>3, <1>7, <2>1, HandlerKeeps, Zenon
<1>9. freeFailed' = freeFailed
  BY <1>2, <1>4, <1>5, NothingNoted
<1>10. Geometry' /\ Fit' /\ CopiesFit'
  BY <1>2, <1>4, <1>9, PoolsAlone
<1>11. QED
  BY <1>8, <1>10 DEF Kept

(* What the server says of its block: a pool that is set up has one, of a  *)
(* cluster's length, and so has every transfer.                            *)
LEMMA UserBlock ==
  ASSUME Inv
  PROVE  /\ upool.init = 1 => UserMapped
         /\ UserMapped => upool.ptr # 0 /\ Len(ubuf) = SectorsPerCluster
         /\ UPool!ClusterSize \in {0, SectorsPerCluster}
         /\ UPool!ClusterSize = 0 => ~UserMapped
         /\ kpool.init = 1 => KPool!ClusterSize = SectorsPerCluster /\ kpool.spc = SectorsPerCluster
<1>1. UserInv /\ PoolInv /\ Geometry
  BY DEF Inv, ServerInv
<1>2. PICK s \in Nat \ {0} : s = SectorsPerCluster
  BY PlanSizes
<1>3. /\ upool.bps \in {0, 1} /\ upool.spc \in Int /\ kpool.bps \in {0, 1} /\ kpool.spc \in Int
  BY <1>1 DEF UserInv, UPool!PoolType, PoolInv, KPool!PoolType, SectorSize
<1>4. upool.init = 1 => UserMapped
  BY <1>1, BlocksAssumption DEF UserInv, UPool!PoolBacked, UPool!Live, UserMapped
<1>5. UserMapped => upool.ptr # 0 /\ Len(ubuf) = SectorsPerCluster
  BY <1>1 DEF UserMapped, Geometry
<1>6. UPool!ClusterSize \in {0, SectorsPerCluster} /\ (UPool!ClusterSize = 0 => upool.bps = 0)
  <2>1. CASE upool.bps = 0
    <3>1. 0 * upool.spc = 0
      BY <1>3
    <3>2. QED
      BY <2>1, <3>1 DEF UPool!ClusterSize
  <2>2. CASE upool.bps # 0
    <3>1. upool.bps = 1 /\ upool.spc = s
      BY <1>1, <1>2, <1>3, <2>2 DEF Geometry
    <3>2. 1 * s = s /\ s # 0
      BY <1>2
    <3>3. QED
      BY <1>2, <3>1, <3>2 DEF UPool!ClusterSize
  <2>3. QED
    BY <2>1, <2>2
<1>7. UPool!ClusterSize = 0 => ~UserMapped
  BY <1>1, <1>6 DEF UserMapped, Geometry
<1>8. ASSUME kpool.init = 1
      PROVE  KPool!ClusterSize = SectorsPerCluster /\ kpool.spc = SectorsPerCluster
  <2>1. KPool!ClusterSize # 0
    BY <1>1, <1>8 DEF PoolInv, KPool!PoolBacked, KPool!Live
  <2>2. kpool.bps # 0
    <3>1. 0 * kpool.spc = 0
      BY <1>3
    <3>2. QED
      BY <2>1, <3>1 DEF KPool!ClusterSize
  <2>3. kpool.bps = 1 /\ kpool.spc = s
    BY <1>1, <1>2, <1>3, <2>2 DEF Geometry
  <2>4. 1 * s = s
    BY <1>2
  <2>5. QED
    BY <1>2, <2>3, <2>4 DEF KPool!ClusterSize
<1>9. QED
  BY <1>4, <1>5, <1>6, <1>7, <1>8

(* What is copied into a buffer replaces its beginning. *)
LEMMA OverlayWords ==
  ASSUME NEW new \in Seq(Int), NEW old \in Seq(Int)
  PROVE  /\ Overlay(new, old) \in Seq(Int) /\ Len(Overlay(new, old)) = Len(old)
         /\ \A k \in 1 .. Len(old) : k <= Len(new) => Overlay(new, old)[k] = new[k]
<1>1. PICK l, m \in Nat : l = Len(old) /\ m = Len(new) /\ DOMAIN old = 1 .. l
  BY LenProperties
<1>2. PICK p : p = Overlay(new, old)
  OBVIOUS
<1>3. p = [k \in 1 .. l |-> IF k <= m THEN new[k] ELSE old[k]]
  BY <1>1, <1>2 DEF Overlay
<1>4. \A k \in 1 .. l : (k <= m => new[k] \in Int) /\ old[k] \in Int
  BY <1>1, ElementOfSeq
<1>5. p \in [1 .. l -> Int]
  BY <1>3, <1>4
<1>6. p \in Seq(Int) /\ Len(p) = l
  BY <1>5
<1>7. \A k \in 1 .. l : k <= m => k \in 1 .. m
  BY <1>1
<1>8. QED
  BY <1>1, <1>2, <1>3, <1>6, <1>7

(* The words of a cluster. *)
LEMMA SectorWordsMany ==
  ASSUME NEW m \in Nat, NEW n \in Nat
  PROVE  /\ SectorWords(Mode, m, n) \in Seq(Int) /\ Len(SectorWords(Mode, m, n)) = n
         /\ \A k \in 1 .. n : SectorWords(Mode, m, n)[k] = SectorWord(Mode, m + k - 1)
<1>1. \A k \in 1 .. n : m + k - 1 \in Nat
  OBVIOUS
<1>2. \A k \in 1 .. n : SectorWord(Mode, m + k - 1) \in Int
  BY <1>1, SectorWordsOne
<1>3. PICK p : p = SectorWords(Mode, m, n)
  OBVIOUS
<1>4. p = [k \in 1 .. n |-> SectorWord(Mode, m + k - 1)]
  BY <1>3 DEF SectorWords
<1>5. p \in [1 .. n -> Int]
  BY <1>2, <1>4
<1>6. p \in Seq(Int) /\ Len(p) = n
  BY <1>5
<1>7. QED
  BY <1>2, <1>3, <1>4, <1>6

(* A cluster that is read and copied is the one that was asked for. *)
LEMMA ClusterResult ==
  ASSUME Inv, NEW n \in Nat, NEW r \in ClusterRead(Mode, n), NEW fails \in CopyFails(r),
         NEW copied, copied = IF fails THEN <<>> ELSE r.copied,
         NEW ret, ret = IF fails THEN Error ELSE r.ret
  PROVE  /\ ret \in Int /\ copied \in Seq(Int)
         /\ ret = 0 <=> copied # <<>>
         /\ ret = 0 => /\ kpool.init = 1 /\ upool.ptr # 0
                       /\ Len(copied) = SectorsPerCluster
                       /\ \A k \in 1 .. SectorsPerCluster :
                            copied[k] = SectorWord(Mode, SectorsPerCluster * n + k - 1)
<1>1. PICK s \in Nat \ {0} : s = SectorsPerCluster
  BY PlanSizes
<1>2. kpool.init \in {0, 1}
  BY DEF Inv, ServerInv, PoolInv, KPool!PoolType
<1>3. \/ r.ret \in {-1, -2, Error} /\ r.copied = <<>>
      \/ /\ r.ret = 0 /\ kpool.init = 1
         /\ r.copied = SectorWords(Mode, kpool.spc * n, KPool!ClusterSize)
  BY <1>2 DEF ClusterRead, Failed, Read
<1>4. fails = TRUE \/ (fails = FALSE /\ (r.copied = <<>> \/ upool.ptr # 0))
  BY DEF CopyFails, UserMapped
<1>5. CASE fails \/ (r.ret \in {-1, -2, Error} /\ r.copied = <<>>)
  <2>1. ret \in {-1, -2, Error} /\ copied = <<>>
    BY <1>5
  <2>2. ret \in Int /\ ret # 0
    BY <2>1 DEF Error
  <2>3. copied \in Seq(Int)
    <3>1. <<>> \in Seq(Int)
      BY EmptySeq, Zenon
    <3>2. QED
      BY <2>1, <3>1, Zenon
  <2>4. ret = 0 <=> copied # <<>>
    BY <2>1, <2>2
  <2>5. QED
    BY <2>2, <2>3, <2>4, Zenon
<1>7. CASE /\ r.ret = 0 /\ kpool.init = 1 /\ ~fails
           /\ r.copied = SectorWords(Mode, kpool.spc * n, KPool!ClusterSize)
  <2>1. ret = 0 /\ copied = SectorWords(Mode, s * n, s)
    <3>1. kpool.spc = s /\ KPool!ClusterSize = s
      BY <1>1, <1>7, UserBlock
    <3>2. ret = r.ret /\ copied = r.copied
      BY <1>7
    <3>3. r.copied = SectorWords(Mode, s * n, s)
      BY <1>7, <3>1, Zenon
    <3>4. QED
      BY <1>7, <3>2, <3>3
  <2>2. PICK m \in Nat : m = s * n
    BY <1>1
  <2>3. /\ copied \in Seq(Int) /\ Len(copied) = s
        /\ \A k \in 1 .. s : copied[k] = SectorWord(Mode, s * n + k - 1)
    <3>1. copied = SectorWords(Mode, m, s)
      BY <2>1, <2>2
    <3>2. /\ copied \in Seq(Int) /\ Len(copied) = s
          /\ \A k \in 1 .. s : copied[k] = SectorWord(Mode, m + k - 1)
      BY <3>1, SectorWordsMany
    <3>3. QED
      BY <2>2, <3>2
  <2>4. copied # <<>>
    <3>1. Len(copied) # 0
      BY <2>3
    <3>2. QED
      BY <3>1, NotEmpty, Zenon
  <2>5. upool.ptr # 0
    <3>1. r.copied # <<>>
      BY <1>7, <2>4
    <3>2. QED
      BY <1>4, <1>7, <3>1
  <2>6. 0 \in Int
    OBVIOUS
  <2>7. QED
    BY <1>1, <1>7, <2>1, <2>3, <2>4, <2>5, <2>6
<1>8. QED
  BY <1>3, <1>5, <1>7

(* What is sent from the server's block, one word after the header each. *)
Sent(buffer, k) == IF UserMapped /\ k <= Len(buffer) THEN buffer[k] ELSE Garbage

(* The first m words of it. *)
SentWords(buffer, m) == [k \in 1 .. m |-> Sent(buffer, k)]

(* The pieces o are the header, alone or with n words of the pool. *)
WithPool(o, header, buffer, n) == o = <<header>> \o PoolWords(buffer, n) \/ o = <<header>>

(* A cluster's answer is its header, alone or with the words of the pool. *)
LEMMA ClusterSends ==
  ASSUME NEW a \in Int, NEW b \in Int, NEW r \in Int, NEW buffer \in Seq(Int),
         NEW m \in Nat, NEW n \in {0, m}, NEW o,
         NEW f, f = SentWords(buffer, m),
         WithPool(o, Base(a, b, r), buffer, n)
  PROVE  \E k \in {0, m} : HeaderAndWords(o, a, b, r, k, f)
<1>1. n \in Nat /\ n <= m
  OBVIOUS
<1> USE DEF SentWords, WithPool
<1>2. \A k \in 1 .. m : Sent(buffer, k) \in Int
  <2>1. PICK l \in Nat : l = Len(buffer)
    BY LenProperties
  <2>2. \A k \in 1 .. m : k <= l => buffer[k] \in Int
    BY <2>1, ElementOfSeq
  <2>3. QED
    BY <2>1, <2>2 DEF Sent, Garbage
<1>3. PICK w \in Seq(Int) : w = <<a, b, r>>
  BY Tuples
<1>4. PICK p \in Seq(Seq(Int)) : p = <<Base(a, b, r)>> /\ Len(p) = 1 /\ p[1] = <<a, b, r>>
  <2>1. PICK p : p = <<w>>
    OBVIOUS
  <2>2. p \in Seq(Seq(Int)) /\ Len(p) = 1 /\ p[1] = w
    BY <2>1
  <2>3. QED
    BY <1>3, <2>1, <2>2 DEF Base
<1>5. PICK q \in Seq(Seq(Int)) : /\ q = PoolWords(buffer, n) /\ Len(q) = n
                                 /\ \A k \in 1 .. n : q[k] = <<f[k]>>
  <2>1. PICK q : q = PoolWords(buffer, n)
    OBVIOUS
  <2>2. q = [k \in 1 .. n |-> <<Sent(buffer, k)>>]
    BY <2>1 DEF PoolWords, Sent
  <2>3. \A k \in 1 .. n : k \in 1 .. m /\ <<Sent(buffer, k)>> \in Seq(Int)
    BY <1>1, <1>2, Tuples
  <2>4. q \in [1 .. n -> Seq(Int)]
    BY <2>2, <2>3
  <2>5. q \in Seq(Seq(Int)) /\ Len(q) = n
    BY <1>1, <2>4
  <2>6. \A k \in 1 .. n : q[k] = <<f[k]>>
    BY <2>2, <2>3
  <2>7. QED
    BY <2>1, <2>5, <2>6
<1>6. \A k \in 1 .. m : f[k] \in Int
  BY <1>2
<1>7. ASSUME o = p
      PROVE  \E k \in {0, m} : HeaderAndWords(o, a, b, r, k, f)
  <2>1. Len(o) = 1 + 0 /\ Len(o) - 1 = 0
    BY <1>4, <1>7
  <2>2. o \in Seq(Seq(Int)) /\ o[1] = <<a, b, r>> /\ 1 .. 0 = {}
    BY <1>4, <1>7
  <2>3. HeaderAndWords(o, a, b, r, 0, f)
    BY <1>6, <2>1, <2>2 DEF HeaderAndWords
  <2>4. QED
    BY <2>3
<1>8. ASSUME o = p \o q
      PROVE  \E k \in {0, m} : HeaderAndWords(o, a, b, r, k, f)
  <2>1. /\ o \in Seq(Seq(Int)) /\ Len(o) = Len(p) + Len(q)
        /\ \A k \in 1 .. Len(p) + Len(q) : o[k] = IF k <= Len(p) THEN p[k] ELSE q[k - Len(p)]
    BY <1>8, ConcatProperties
  <2>2. PICK l \in Nat : l = Len(o) /\ l = 1 + n
    BY <1>1, <1>4, <1>5, <2>1
  <2>3. o[1] = <<a, b, r>>
    BY <1>1, <1>4, <1>5, <2>1
  <2>4. \A k \in 1 .. n : o[1 + k] = <<f[k]>>
    <3>1. SUFFICES ASSUME NEW k \in 1 .. n
                   PROVE  o[1 + k] = q[k]
      BY <1>5
    <3>2. 1 + k \in 1 .. 1 + n /\ ~(1 + k <= 1) /\ 1 + k - 1 = k
      BY <1>1
    <3>3. QED
      BY <1>4, <1>5, <2>1, <3>2
  <2>5. l - 1 = n
    BY <1>1, <2>2
  <2>6. \A k \in 1 .. n : f[k] \in Int
    BY <1>1, <1>6
  <2>7. HeaderAndWords(o, a, b, r, n, f)
    BY <1>1, <2>1, <2>2, <2>3, <2>4, <2>5, <2>6 DEF HeaderAndWords
  <2>8. QED
    BY <2>7
<1>9. QED
  BY <1>4, <1>5, <1>7, <1>8

(* What a handler makes of the result r of the kernel. *)
Copies(r, fails, copied, ret) ==
    /\ copied = IF fails THEN <<>> ELSE r.copied
    /\ ret = IF fails THEN Error ELSE r.ret
    /\ ubuf' = IF UserMapped THEN Overlay(copied, ubuf) ELSE ubuf
    /\ badCopy' = (badCopy \/ (/\ copied # <<>>
                               /\ ~(UserMapped /\ Len(copied) <= Len(ubuf))))

(* The response of a cluster read has the words of the cluster that the    *)
(* client has asked for, if the copy went to its own block.                *)
LEMMA ClusterResponse ==
  ASSUME Inv, Noted, freeFailed' = freeFailed, acquired' = acquired, UNCHANGED cl,
         pc = "handle", NEW d \in Clients, d = cli_sock, Alive(d), Dumping(d), cl[d].op = "cluster",
         NEW n \in Nat, \A k : link[d].c2s = <<k>> => n = k,
         NEW r \in ClusterRead(Mode, n), NEW fails \in CopyFails(r),
         NEW copied, NEW ret, Copies(r, fails, copied, ret),
         NEW a, NEW b, NEW f, f = SentWords(ubuf', SectorsPerCluster),
         NEW l \in {0, SectorsPerCluster}, NEW R \in Seq(Int), AllWords(R, a, b, ret, l, f)
  PROVE  Response(d, R)'
<1> USE DEF SentWords, Copies
<1>1. PICK s \in Nat \ {0} : s = SectorsPerCluster
  BY PlanSizes
<1>2. /\ Types /\ Fit /\ ubuf \in Seq(Int) /\ cl[d].i \in Nat /\ cl'[d] = cl[d]
      /\ Unpooled(d) /\ link[d].srv = "open" /\ upool.init \in {0, 1}
  BY RunTypes DEF Inv, Types, Words, Dumping, ServerInv, Sockets, Session, UserInv, UPool!PoolType
<1>3. n = C!ClusterRequest(PartitionOffset, cl[d].i)
  <2>1. PICK m \in Int : m = C!ClusterRequest(PartitionOffset, cl[d].i)
    BY <1>2, ClientRequests
  <2>2. link[d].c2s = <<m>>
    BY <2>1, Handled
  <2>3. QED
    BY <2>1, <2>2
<1>4. C!ClusterFirstSector(PartitionOffset, cl[d].i) = s * n
  BY <1>1, <1>3 DEF C!ClusterFirstSector
<1>5. Len(R) = 3 + l /\ R[3] = ret /\ \A k \in 1 .. l : R[3 + k] = f[k]
  BY <1>1 DEF AllWords
<1>6. /\ Len(R) = ResponseLen(cl[d].op) \/ Len(R) = BaseLen
      /\ Len(R) # BaseLen => l = s
  BY <1>1, <1>5 DEF ResponseLen, BaseLen
<1>7. ASSUME ret = 0, l = s
      PROVE  /\ ~badCopy' => \A k \in 1 .. s : R[3 + k] = SectorWord(Mode, s * n + k - 1)
             /\ ~freeFailed' => d \in acquired'
  <2>1. /\ kpool.init = 1 /\ upool.ptr # 0 /\ copied # <<>> /\ copied \in Seq(Int)
        /\ Len(copied) = s /\ \A k \in 1 .. s : copied[k] = SectorWord(Mode, s * n + k - 1)
    BY <1>1, <1>7, ClusterResult
  <2>2. ASSUME ~badCopy', NEW k \in 1 .. s
        PROVE  R[3 + k] = SectorWord(Mode, s * n + k - 1)
    <3>1. UserMapped /\ Len(ubuf) = s
      BY <1>1, <2>1, <2>2, UserBlock
    <3>2. PICK x \in Seq(Int) : x = ubuf' /\ Len(x) = s /\ \A j \in 1 .. s : x[j] = copied[j]
      <4>1. ubuf' = Overlay(copied, ubuf)
        BY <3>1
      <4>2. PICK x : x = Overlay(copied, ubuf)
        OBVIOUS
      <4>3. /\ x \in Seq(Int) /\ Len(x) = Len(ubuf)
            /\ \A j \in 1 .. Len(ubuf) : j <= Len(copied) => x[j] = copied[j]
        <5>1. copied \in Seq(Int) /\ ubuf \in Seq(Int)
          BY <1>2, <2>1
        <5>2. /\ Overlay(copied, ubuf) \in Seq(Int) /\ Len(Overlay(copied, ubuf)) = Len(ubuf)
              /\ \A j \in 1 .. Len(ubuf) : j <= Len(copied) => Overlay(copied, ubuf)[j] = copied[j]
          BY <5>1, OverlayWords, Zenon
        <5>3. QED
          BY <4>2, <5>2
      <4>4. \A j \in 1 .. s : x[j] = copied[j]
        <5>1. \A j \in 1 .. s : j <= s
          BY <1>1
        <5>2. QED
          BY <2>1, <3>1, <4>3, <5>1, Zenon
      <4>5. QED
        BY <3>1, <4>1, <4>2, <4>3, <4>4
    <3>3. f[k] = x[k]
      BY <1>1, <3>1, <3>2 DEF Sent
    <3>4. QED
      BY <1>5, <1>7, <2>1, <3>2, <3>3
  <2>3. ASSUME ~freeFailed'
        PROVE  d \in acquired'
    <3>1. upool.init = 1
      BY <1>2, <2>1, <2>3 DEF Fit
    <3>2. ~Closing /\ Past(d)
      BY DEF Closing, Past
    <3>3. d \in acquired
      BY <1>2, <3>1, <3>2 DEF Unpooled
    <3>4. QED
      BY <3>3
  <2>4. QED
    BY <2>2, <2>3
<1>8. QED
  BY <1>1, <1>2, <1>4, <1>5, <1>6, <1>7 DEF Response

(* ... and a cluster read is answered. *)
LEMMA ClusterReadKeeps ==
  ASSUME Inv, Noted, UNCHANGED cl,
         handle_command_5 \/ handle_command_9 \/ handle_command_13
  PROVE  Kept
<1>1. PICK dev \in Devices :
        /\ pc = "handle" /\ cmd = READ_CLUSTER[dev]
        /\ \/ /\ Short(1)
              /\ Reply(<<Base(cmd, -1, 0)>>, "close")
              /\ UNCHANGED <<link, ubuf, badCopy, faults>>
           \/ /\ Whole(1)
              /\ Link!SrvTake(cli_sock, 1)
              /\ \E r \in ClusterRead(dev, Head(Inbox)) : \E copyFails \in CopyFails(r) :
                 LET copied == IF copyFails THEN <<>> ELSE r.copied
                     ret    == IF copyFails THEN Error ELSE r.ret
                     header == <<Base(cmd, 0, ret)>>
                     size   == UPool!ClusterSize
                 IN
                 /\ Charge(r.ret)
                 /\ ubuf' = IF UserMapped THEN Overlay(copied, ubuf) ELSE ubuf
                 /\ badCopy' = (badCopy \/ (/\ copied # <<>>
                                            /\ ~(UserMapped /\ Len(copied) <= Len(ubuf))))
                 /\ \/ /\ size = 0 \/ upool.ptr # 0
                       /\ Reply(header \o PoolWords(ubuf', size), "recv")
                    \/ /\ size # 0 /\ ~UserMapped
                       /\ Reply(header, "close")
        /\ UNCHANGED <<upool, handlerVars, dvars>>
  BY DEF handle_command_5, handle_command_9, handle_command_13, HandleReadCluster, Handling,
         readCluster, readClusterMs, readClusterGc, Devices
<1>2. pc' = "send" /\ UNCHANGED <<upool, cli_sock, kpool, ctx>>
  BY <1>1 DEF Reply, handlerVars, processVars, dvars
<1>3. PICK d \in Clients : d = cli_sock
  BY <1>1 DEF Inv, ServerInv, Sockets, Session
<1>4. /\ Types /\ ServerInv /\ Geometry /\ Fit /\ CopiesFit /\ link \in Conns(Words)
      /\ Inbox = link[d].c2s /\ badCopy \in BOOLEAN /\ ubuf \in Seq(Int)
      /\ upool.init \in {0, 1}
  BY <1>3 DEF Inv, Types, Inbox, Words, ServerInv, UserInv, UPool!PoolType
<1>5. dev = Mode /\ cmd \in Int /\ cmd # DEINIT /\ cmd # INIT
  <2>1. cmd \in {5, 9, 13} /\ READ_SECTOR[Mode] \in {4, 8, 12}
    BY <1>1, CommandNumbers, PartitionAssumption
  <2>2. cmd = READ_CLUSTER[Mode]
    <3>1. cmd \in {0, 2, 3} \cup {READ_SECTOR[Mode], READ_CLUSTER[Mode]}
      BY <1>1, <1>3, Handled
    <3>2. QED
      BY <2>1, <3>1
  <2>3. dev = Mode
    BY <1>1, <2>2, PartitionAssumption DEF READ_CLUSTER, Devices
  <2>4. QED
    BY <2>1, <2>3 DEF DEINIT, INIT
<1>6. Alive(d) /\ Dumping(d) => cl[d].op = "cluster"
  BY <1>1, <1>3, <1>5, Handled
<1>7. freeFailed' = freeFailed /\ acquired' = acquired
  BY <1>2, <1>4, <1>5, NothingNoted
<1>8. /\ out' \in Seq(Seq(Int)) /\ out' # <<>> /\ after' \in {"recv", "close"}
      /\ \A k \in 1 .. Len(out') : out'[k] # <<>>
      /\ ubuf' \in Seq(Int) /\ Len(ubuf') = Len(ubuf)
      /\ badCopy' \in BOOLEAN /\ (badCopy => badCopy') /\ (badCopy' => badCopy \/ freeFailed)
      /\ faults' = faults \/ Fault
      /\ \/ UNCHANGED link
         \/ \E n \in Nat : n <= Len(link[d].c2s) /\ Link!SrvTake(cli_sock, n)
      /\ after' = "recv" =>
           link'[d].c2s = <<>> \/ (Off(d) /\ Asked(link'[d].c2s, 0, Going(d)))
      /\ ~ShortRecv /\ Alive(d) /\ upool.init = 1 => after' = "recv"
      /\ Alive(d) /\ Dumping(d) => \E R \in Seq(Int) : Answers(d, R)'
  <2>1. CASE /\ Short(1) /\ UNCHANGED <<link, ubuf, badCopy, faults>>
             /\ Reply(<<Base(cmd, -1, 0)>>, "close")
    <3>1. PICK y, z \in Int : y = -1 /\ z = 0
      OBVIOUS
    <3>2. out' = <<Base(cmd, y, z)>> /\ after' = "close"
      BY <2>1, <3>1 DEF Reply
    <3>3. out' \in Seq(Seq(Int)) /\ out' # <<>> /\ \A k \in 1 .. Len(out') : out'[k] # <<>>
      BY <1>5, <3>2, HeaderOut
    <3>4. ~ShortRecv => ~Alive(d)
      BY <1>3, <2>1, CutOffDead
    <3>5. PICK w \in Seq(Int) : w = Base(cmd, y, z) /\ Len(w) = 3 /\ w # <<>>
      <4>1. PICK w : w = <<cmd, y, z>>
        OBVIOUS
      <4>2. w \in Seq(Int) /\ Len(w) = 3 /\ w # <<>>
        BY <1>5, <4>1, Tuples
      <4>3. QED
        BY <4>1, <4>2, Zenon DEF Base
    <3>6. Pieces(out', w, 0) /\ out'[1] = w
      BY <3>2, <3>5, OnePiece
    <3>7. ASSUME Alive(d), Dumping(d)
          PROVE  Answers(d, w)'
      <4>1. cl'[d].op = "cluster" /\ BaseLen = 3
        BY <1>6, <3>7 DEF BaseLen
      <4>2. Response(d, w)'
        BY <3>5, <4>1 DEF Response
      <4>3. Told(d, w)'
        BY <4>1 DEF Told
      <4>4. Len(out'[1]) = 3
        BY <3>5, <3>6, Zenon
      <4>5. 3 >= BaseLen
        BY DEF BaseLen
      <4>6. Len(out'[1]) >= BaseLen
        BY <4>4, <4>5, Zenon
      <4>7. QED
        BY <3>6, <4>2, <4>3, <4>6 DEF Answers
    <3>8. QED
      BY <1>4, <2>1, <3>2, <3>3, <3>4, <3>5, <3>7 DEF Geometry
  <2>2. ASSUME Whole(1), Link!SrvTake(cli_sock, 1), NEW r \in ClusterRead(dev, Head(Inbox)),
               NEW fails \in CopyFails(r),
               NEW copied, copied = IF fails THEN <<>> ELSE r.copied,
               NEW ret, ret = IF fails THEN Error ELSE r.ret,
               Charge(r.ret), ubuf' = IF UserMapped THEN Overlay(copied, ubuf) ELSE ubuf,
               badCopy' = (badCopy \/ (/\ copied # <<>>
                                       /\ ~(UserMapped /\ Len(copied) <= Len(ubuf)))),
               \/ /\ UPool!ClusterSize = 0 \/ upool.ptr # 0
                  /\ Reply(<<Base(cmd, 0, ret)>> \o PoolWords(ubuf', UPool!ClusterSize), "recv")
               \/ /\ UPool!ClusterSize # 0 /\ ~UserMapped
                  /\ Reply(<<Base(cmd, 0, ret)>>, "close")
        PROVE  /\ out' \in Seq(Seq(Int)) /\ out' # <<>> /\ after' \in {"recv", "close"}
               /\ \A k \in 1 .. Len(out') : out'[k] # <<>>
               /\ ubuf' \in Seq(Int) /\ Len(ubuf') = Len(ubuf)
               /\ badCopy' \in BOOLEAN /\ (badCopy => badCopy') /\ (badCopy' => badCopy \/ freeFailed)
               /\ faults' = faults \/ Fault
               /\ \E n \in Nat : n <= Len(link[d].c2s) /\ Link!SrvTake(cli_sock, n)
               /\ link'[d].c2s = <<>> \/ (Off(d) /\ Asked(link'[d].c2s, 0, Going(d)))
               /\ upool.init = 1 => after' = "recv"
               /\ Alive(d) /\ Dumping(d) => \E R \in Seq(Int) : Answers(d, R)'
    <3>1. PICK n \in Nat : Head(Inbox) = n
      BY <1>1, <1>3, <1>5, <2>2, ArgumentTaken DEF Reads
    <3>3. /\ link'[d].c2s = <<>> \/ (Off(d) /\ Asked(link'[d].c2s, 0, Going(d)))
          /\ \E k \in Nat : k <= Len(link[d].c2s) /\ Link!SrvTake(cli_sock, k)
          /\ \A k : link[d].c2s = <<k>> => n = k
      BY <1>1, <1>3, <1>5, <2>2, <3>1, ArgumentTaken DEF Reads
    <3>4. /\ r \in ClusterRead(Mode, n) /\ ret \in Int /\ copied \in Seq(Int)
          /\ ret = 0 <=> copied # <<>>
          /\ ret = 0 => kpool.init = 1 /\ upool.ptr # 0 /\ Len(copied) = SectorsPerCluster
      <4>1. r \in ClusterRead(Mode, n)
        BY <1>5, <2>2, <3>1
      <4>2. QED
        BY <2>2, <4>1, ClusterResult
    <3>5. ubuf' \in Seq(Int) /\ Len(ubuf') = Len(ubuf)
      <4>1. Overlay(copied, ubuf) \in Seq(Int) /\ Len(Overlay(copied, ubuf)) = Len(ubuf)
        BY <1>4, <3>4, OverlayWords, Zenon
      <4>2. QED
        BY <1>4, <2>2, <4>1, Zenon
    <3>6. badCopy' => badCopy \/ freeFailed
      <4>1. ASSUME badCopy', ~badCopy, ~freeFailed
            PROVE  FALSE
        <5>1. copied # <<>> /\ ~(UserMapped /\ Len(copied) <= Len(ubuf))
          BY <2>2, <4>1
        <5>2. kpool.init = 1 /\ upool.ptr # 0 /\ Len(copied) = SectorsPerCluster
          BY <3>4, <5>1
        <5>3. upool.init = 1
          BY <1>4, <4>1, <5>2 DEF Fit
        <5>4. UserMapped /\ Len(ubuf) = SectorsPerCluster
          BY <5>3, UserBlock
        <5>5. SectorsPerCluster <= SectorsPerCluster
          BY PlanSizes
        <5>6. QED
          BY <5>1, <5>2, <5>4, <5>5
      <4>2. QED
        BY <4>1
    <3>7. PICK o : o = out'
      OBVIOUS
    <3>8. PICK z \in Int : z = 0
      OBVIOUS
    <3>9. PICK u \in Seq(Int) : u = ubuf'
      BY <3>5
    <3>10. PICK m \in Nat : m = SectorsPerCluster
      BY PlanSizes
    <3>11. PICK f : f = SentWords(u, m)
      OBVIOUS
    <3>12. /\ \/ o = <<Base(cmd, z, ret)>> \o PoolWords(u, UPool!ClusterSize)
              \/ o = <<Base(cmd, z, ret)>>
           /\ UPool!ClusterSize \in {0, m} /\ after' \in {"recv", "close"}
           /\ upool.init = 1 => after' = "recv"
      BY <2>2, <3>7, <3>8, <3>9, <3>10, UserBlock DEF Reply
    <3>13. PICK l \in {0, m} : HeaderAndWords(o, cmd, z, ret, l, f)
      <4>1. PICK a, e \in Int : a = cmd /\ e = ret
        BY <1>5, <3>4
      <4>2. PICK n1 \in {0, m} : n1 = UPool!ClusterSize
        BY <3>12
      <4>3. WithPool(o, Base(a, z, e), u, n1)
        BY <3>12, <4>1, <4>2 DEF WithPool
      <4>6. \E l \in {0, m} : HeaderAndWords(o, a, z, e, l, f)
        BY <3>11, <4>3, ClusterSends
      <4>5. QED
        BY <4>1, <4>6
    <3>14. PICK R \in Seq(Int) : AllWords(R, cmd, z, ret, l, f) /\ Pieces(o, R, 0)
      BY <3>13, AnswerPieces
    <3>21. o # <<>> /\ Len(o[1]) = 3 /\ \A k \in 1 .. Len(o) : o[k] # <<>>
      BY <3>13, AnswerPieces
    <3>15. Alive(d) /\ Dumping(d) => Response(d, R)' /\ Told(d, R)'
      <4>1. /\ f = SentWords(ubuf', SectorsPerCluster)
            /\ l \in {0, SectorsPerCluster} /\ AllWords(R, cmd, z, ret, l, f)
        BY <3>9, <3>10, <3>11, <3>14
      <4>2. Alive(d) /\ Dumping(d) => cl[d].op = "cluster" /\ pc = "handle"
        BY <1>1, <1>6
      <4>3. ASSUME Alive(d), Dumping(d)
            PROVE  Response(d, R)'
        <5>1. Copies(r, fails, copied, ret)
          BY <2>2 DEF Copies
        <5>2. r \in ClusterRead(Mode, n) /\ pc = "handle" /\ cl[d].op = "cluster"
          BY <3>4, <4>2, <4>3
        <5>3. QED
          BY <1>3, <1>7, <3>3, <4>1, <4>3, <5>1, <5>2, ClusterResponse, Zenon
      <4>4. Alive(d) /\ Dumping(d) => Told(d, R)'
        BY <4>2 DEF Told
      <4>5. QED
        BY <4>3, <4>4
    <3>16. o \in Seq(Seq(Int)) /\ o # <<>> /\ Len(o[1]) >= BaseLen
      <4>1. 3 >= BaseLen
        BY DEF BaseLen
      <4>2. QED
        BY <3>13, <3>21, <4>1, Zenon DEF HeaderAndWords
    <3>17. faults' = faults \/ Fault
      BY <2>2 DEF Charge
    <3>18. badCopy' \in BOOLEAN /\ (badCopy => badCopy')
      BY <1>4, <2>2
    <3>19. QED
      BY <2>2, <3>3, <3>5, <3>6, <3>7, <3>12, <3>14, <3>15, <3>16, <3>17, <3>18,
         <3>21 DEF Answers
  <2>3. CASE ~(/\ Short(1) /\ UNCHANGED <<link, ubuf, badCopy, faults>>
               /\ Reply(<<Base(cmd, -1, 0)>>, "close"))
    <3>1. Whole(1) /\ Link!SrvTake(cli_sock, 1)
      BY <1>1, <2>3
    <3>2. PICK r \in ClusterRead(dev, Head(Inbox)) : \E fails \in CopyFails(r) :
            LET copied == IF fails THEN <<>> ELSE r.copied
                ret    == IF fails THEN Error ELSE r.ret
                header == <<Base(cmd, 0, ret)>>
                size   == UPool!ClusterSize
            IN
            /\ Charge(r.ret)
            /\ ubuf' = IF UserMapped THEN Overlay(copied, ubuf) ELSE ubuf
            /\ badCopy' = (badCopy \/ (/\ copied # <<>>
                                       /\ ~(UserMapped /\ Len(copied) <= Len(ubuf))))
            /\ \/ /\ size = 0 \/ upool.ptr # 0
                  /\ Reply(header \o PoolWords(ubuf', size), "recv")
               \/ /\ size # 0 /\ ~UserMapped
                  /\ Reply(header, "close")
      BY <1>1, <2>3
    <3>3. PICK fails \in CopyFails(r) : \E copied, ret :
            /\ copied = IF fails THEN <<>> ELSE r.copied
            /\ ret = IF fails THEN Error ELSE r.ret
            /\ Charge(r.ret) /\ ubuf' = IF UserMapped THEN Overlay(copied, ubuf) ELSE ubuf
            /\ badCopy' = (badCopy \/ (/\ copied # <<>>
                                       /\ ~(UserMapped /\ Len(copied) <= Len(ubuf))))
            /\ \/ /\ UPool!ClusterSize = 0 \/ upool.ptr # 0
                  /\ Reply(<<Base(cmd, 0, ret)>> \o PoolWords(ubuf', UPool!ClusterSize), "recv")
               \/ /\ UPool!ClusterSize # 0 /\ ~UserMapped
                  /\ Reply(<<Base(cmd, 0, ret)>>, "close")
      BY <3>2
    <3>4. QED
      BY <2>2, <3>1, <3>3, Zenon
  <2>4. QED
    BY <2>1, <2>3
<1>9. Types' /\ Holder' /\ \A c \in Clients : Known(c)'
  <2>1. upool'.init = upool.init /\ ubuf' \in Words /\ UNCHANGED <<cl, cli_sock, ctx>>
        /\ ~(cmd = DEINIT /\ upool.init # 0)
        /\ (upool.init = 1 /\ cmd = INIT => after' = "close")
        /\ (~ShortRecv /\ Alive(d) /\ upool.init = 1 /\ cmd # INIT => after' = "recv")
    BY <1>2, <1>4, <1>5, <1>8 DEF Words
  <2>2. QED
    BY <1>1, <1>2, <1>3, <1>8, <2>1, HandlerKeeps, Zenon
<1>10. Fit' /\ Geometry' /\ CopiesFit'
  BY <1>2, <1>4, <1>7, <1>8 DEF Fit, Geometry, CopiesFit
<1>11. QED
  BY <1>9, <1>10 DEF Kept

-----------------------------------------------------------------------------
(* The steps of the server, the driver and the network *)

(* The process starts, ends, accepts and closes connections, ...           *)
LEMMA ProcessLinks ==
  ASSUME Inv, UNCHANGED <<cl, badCopy, acquired, slipped, freeFailed>>,
         init_net \/ deinit_net \/ exit \/ kill \/ launch \/ close_client \/ accept
  PROVE  link' \in Conns(Words) /\ \A c \in Clients : Known(c)' /\ link'[c].cli = link[c].cli
<1>1. Recorded
  BY DEF Recorded
<1>2. ASSUME NEW c \in Clients
      PROVE  link' \in Conns(Words) /\ Known(c)' /\ link'[c].cli = link[c].cli
  <2>1. CASE accept
    BY <2>1, AcceptDumps
  <2>2. CASE init_net \/ deinit_net \/ exit \/ kill \/ launch \/ close_client
    BY <1>1, <2>2, ProcessDumps
  <2>3. QED
    BY <2>1, <2>2
<1>3. ASSUME Clients = {}
      PROVE  link' \in Conns(Words)
  <2>1. link \in Conns(Words)
    BY DEF Inv, Types
  <2>2. ~close_client
    BY <1>3 DEF Inv, ServerInv, Sockets, Session, close_client
  <2>3. \/ UNCHANGED link
        \/ Link!CloseListener
        \/ Link!CloseAll
    BY <1>3, <2>2 DEF init_net, deinit_net, exit, kill, ProcessEnds, launch, accept
  <2>4. Link!CloseListener => link' \in Conns(Words)
    BY <1>3 DEF Link!CloseListener, Conns
  <2>5. Link!CloseAll => link' \in Conns(Words)
    BY <1>3 DEF Link!CloseAll, Conns
  <2>6. QED
    BY <2>1, <2>3, <2>4, <2>5
<1>4. QED
  BY <1>2, <1>3

(* Steps of the server's process outside the handlers keep the invariant. *)
LEMMA ProcessKeeps ==
  ASSUME Inv, UNCHANGED <<cl, dvars, acquired, slipped, freeFailed>>,
         init_net \/ deinit_net \/ exit \/ kill \/ launch \/ close_client \/ accept
  PROVE  Kept
<1>1. Types /\ ServerInv /\ Geometry /\ Fit /\ CopiesFit /\ Holder
  BY DEF Inv
<1>2. UNCHANGED <<badCopy, kpool, ctx>>
  BY DEF init_net, deinit_net, exit, kill, ProcessEnds, launch, close_client, accept, dvars
<1>3. link' \in Conns(Words) /\ \A c \in Clients : Known(c)' /\ link'[c].cli = link[c].cli
  BY <1>2, ProcessLinks
<1>4. /\ ubuf' = ubuf \/ ubuf' = <<>>
      /\ out' = out \/ out' = <<>>
  BY DEF init_net, deinit_net, exit, kill, ProcessEnds, launch, close_client, accept
<1>5. Types'
  <2>1. <<>> \in Words /\ <<>> \in Seq(Seq(Int))
    BY EmptySeq DEF Words
  <2>2. QED
    BY <1>1, <1>2, <1>3, <1>4, <2>1 DEF Types, C!ClientType
<1>6. /\ Geometry' /\ Fit' /\ CopiesFit'
      /\ upool'.init = 1 => upool.init = 1
  <2>1. CASE exit \/ kill
    <3>1. upool'.bps = 0 /\ upool'.ptr = 0 /\ upool'.init = 0
      BY <2>1 DEF exit, kill, ProcessEnds, UPool!Blank
    <3>2. QED
      BY <1>1, <1>2, <3>1 DEF Geometry, Fit, CopiesFit
  <2>2. CASE init_net \/ deinit_net \/ launch \/ close_client \/ accept
    <3>1. UNCHANGED <<upool, ubuf>>
      BY <2>2 DEF init_net, deinit_net, launch, close_client, accept
    <3>2. QED
      BY <1>1, <1>2, <3>1, PoolsAlone
  <2>3. QED
    BY <2>1, <2>2
<1>7. Holder'
  <2>1. faults' = 0 => faults = 0 /\ ~kill
    <3>1. faults \in Nat /\ (kill => faults' = faults + 1)
      BY <1>1 DEF ServerInv, kill, Fault
    <3>2. ~kill => faults' = faults \/ faults' = faults + 1
      BY DEF Fault, init_net, deinit_net, exit, launch, close_client, accept
    <3>3. QED
      BY <3>1, <3>2
  <2>2. ~kill => pc \notin {"recv", "handle", "send"}
    BY DEF init_net, deinit_net, exit, launch, close_client, accept
  <2>3. ASSUME NEW d \in Clients, faults' = 0, Keeps(d), link[d].cli
        PROVE  FALSE
    BY <1>1, <2>1, <2>2, <2>3, HolderServed
  <2>4. QED
    BY <1>1, <1>3, <1>6, <2>1, <2>3, HolderKept
<1>8. QED
  BY <1>3, <1>5, <1>6, <1>7 DEF Kept

(* ... and the driver is loaded. *)
LEMMA LoadKeeps ==
  ASSUME Inv, module_start, UNCHANGED <<svars, cl, acquired, slipped, freeFailed>>
  PROVE  Kept
<1>1. UNCHANGED <<link, upool, ubuf, pc, cli_sock, cmd, out, after, badCopy, faults, kpool>>
  BY DEF svars, module_start
<1>2. ctx \in [Devices -> {0, 1}]
  BY DEF Inv, Types
<1>3. ctx' \in [Devices -> {0, 1}]
  <2>1. \A found, initialized \in BOOLEAN : MmcContext(found, initialized) \in {0, 1}
    BY DEF MmcContext
  <2>2. ctx["gc"] \in {0, 1}
    BY <1>2 DEF Devices
  <2>3. /\ initialize_emmc_globals \subseteq {0, 1} /\ initialize_ms_globals \subseteq {0, 1}
        /\ initialize_gc_mmc_device \subseteq {0, 1} /\ initialize_gc_sd_device \subseteq {0, 1}
    <3>1. initialize_emmc_globals \subseteq {0, 1}
      BY <2>1 DEF initialize_emmc_globals
    <3>2. initialize_gc_mmc_device \subseteq {0, 1}
      BY <2>1 DEF initialize_gc_mmc_device
    <3>3. initialize_gc_sd_device \subseteq {0, 1}
      BY <2>1 DEF initialize_gc_sd_device
    <3>4. initialize_ms_globals \subseteq {0, 1}
      BY DEF initialize_ms_globals
    <3>5. QED
      BY <3>1, <3>2, <3>3, <3>4
  <2>4. initialize_gc_globals \subseteq {0, 1}
    BY <2>2, <2>3 DEF initialize_gc_globals
  <2>5. ctx' \in [emmc : initialize_emmc_globals, gc : initialize_gc_globals,
                  ms : initialize_ms_globals]
    BY DEF module_start
  <2>6. QED
    BY <2>3, <2>4, <2>5 DEF Devices
<1>4. Types'
  BY <1>1, <1>3 DEF Inv, Types, C!ClientType
<1>5. \A c \in Clients : Known(c)'
  <2>1. slipped \subseteq slipped'
    OBVIOUS
  <2>2. QED
    BY <1>1, <2>1, OthersKnown DEF Inv
<1>6. Geometry' /\ Fit' /\ CopiesFit'
  BY <1>1, PoolsAlone DEF Inv
<1>7. Holder'
  BY <1>1 DEF Inv, Holder, Keeps, Closing, Past
<1>8. QED
  BY <1>4, <1>5, <1>6, <1>7 DEF Kept

(* The session reads a command, sends a piece of an answer or gives up.    *)
LEMMA SessionKeeps ==
  ASSUME Inv, Noted, UNCHANGED <<cl, dvars>>, receive_command \/ send
  PROVE  Kept
<1>1. Types /\ ServerInv /\ Geometry /\ Fit /\ CopiesFit /\ Holder /\ link \in Conns(Words)
  BY DEF Inv, Types
<1>2. /\ UNCHANGED <<upool, ubuf, after, badCopy, faults, cli_sock, kpool, ctx>>
      /\ pc \in {"recv", "send"}
  BY DEF receive_command, send, processVars, dvars
<1>3. PICK d \in Clients : d = cli_sock
  BY <1>1, <1>2 DEF ServerInv, Sockets, Session
<1>4. acquired' = acquired /\ freeFailed' = freeFailed /\ slipped' = slipped
  BY <1>1, <1>2, NothingNoted
<1>5. Recorded
  BY <1>2, <1>4 DEF Recorded
<1>6. Geometry' /\ Fit' /\ CopiesFit'
  BY <1>1, <1>2, <1>4, PoolsAlone
<1>7. /\ link' \in Conns(Words) /\ out' \in Seq(Seq(Int))
      /\ \A c \in Clients : Known(c)' /\ link'[c].cli = link[c].cli
      /\ \A c \in Clients : ~ShortRecv /\ Keeps(c) /\ link[c].cli => Keeps(c)'
  <2>1. CASE /\ pc = "recv" /\ pc' = "close" /\ UNCHANGED link /\ out' = out
             /\ Link!SrvAtEnd(cli_sock) \/ ShortRecv
    <3>1. \A c \in Clients : Known(c)'
      BY <1>2, <1>5, <2>1, GivenUp DEF Session
    <3>2. \A c \in Clients : ~(~ShortRecv /\ Keeps(c) /\ link[c].cli)
      BY <1>1, <2>1, HolderServed DEF Link!SrvAtEnd, Alive
    <3>3. QED
      BY <1>1, <2>1, <3>1, <3>2 DEF Types
  <2>2. CASE /\ pc = "recv" /\ pc' = "handle" /\ Inbox # <<>> /\ cmd' = Head(Inbox)
             /\ Link!SrvTake(cli_sock, 1) /\ out' = out
    <3>1. /\ link' \in Conns(Words) /\ \A c \in Clients : Known(c)' /\ link'[c].cli = link[c].cli
      BY <1>2, <1>3, <1>4, <2>2, TakenDumps
    <3>2. link'[d].srv = link[d].srv /\ link'[d].rst = link[d].rst
      BY <1>1, <1>3, <2>2 DEF Link!SrvTake, Conns, Conn
    <3>3. ASSUME ~ShortRecv, NEW c \in Clients, Keeps(c), link[c].cli
          PROVE  Keeps(c)'
      <4>1. c = d /\ link[c].c2s # <<>>
        BY <1>1, <1>3, <2>2, <3>3, HolderServed DEF Inbox
      <4>2. cl[d].op \in {"cluster", "sector", "deinit"}
        BY <3>3, <4>1 DEF Keeps, Past
      <4>3. QED
        BY <1>4, <2>2, <3>1, <3>2, <3>3, <4>1, <4>2 DEF Keeps, Closing
    <3>4. QED
      BY <1>1, <2>2, <3>1, <3>3 DEF Types
  <2>3. CASE /\ pc = "send" /\ out # <<>> /\ ~link[cli_sock].rst
             /\ Link!SrvSend(cli_sock, Head(out)) /\ out' = Tail(out)
             /\ IF Len(out) = 1 THEN pc' = after ELSE pc' = pc
    <3>1. /\ link' \in Conns(Words) /\ out' \in Seq(Seq(Int))
          /\ \A c \in Clients : Known(c)' /\ link'[c].cli = link[c].cli
      BY <1>2, <1>3, <1>4, <2>3, SentDumps
    <3>2. /\ link'[d].srv = link[d].srv /\ link'[d].rst = link[d].rst
          /\ link'[d].c2s = link[d].c2s
      BY <1>1, <1>3, <2>3 DEF Link!SrvSend, Conns, Conn
    <3>3. ASSUME ~ShortRecv, NEW c \in Clients, Keeps(c), link[c].cli
          PROVE  Keeps(c)'
      <4>1. c = d /\ after = "recv" /\ pc' \in {"send", "recv"}
        BY <1>1, <1>3, <2>3, <3>3, HolderServed
      <4>2. link[d].c2s = <<>>
        BY <1>1, <1>3, <2>3, <3>3, <4>1 DEF Inv, Known, Off, Dumping, Replies, Serves
      <4>3. QED
        BY <1>2, <1>4, <2>3, <3>1, <3>2, <3>3, <4>1, <4>2 DEF Keeps, Closing, Past
    <3>4. QED
      BY <3>1, <3>3
  <2>4. CASE /\ pc = "send" /\ Link!SrvSendFails(cli_sock) /\ out' = <<>> /\ pc' = "close"
             /\ UNCHANGED link
    <3>1. \A c \in Clients : Known(c)'
      BY <1>2, <1>5, <2>4, GivenUp DEF Session
    <3>2. \A c \in Clients : ~(Keeps(c) /\ link[c].cli)
      BY <1>1, <2>4, HolderServed DEF Link!SrvSendFails, Alive
    <3>3. <<>> \in Seq(Seq(Int))
      BY EmptySeq
    <3>4. QED
      BY <1>1, <2>4, <3>1, <3>2, <3>3
  <2>5. QED
    BY <2>1, <2>2, <2>3, <2>4 DEF receive_command, send
<1>8. Types'
  BY <1>1, <1>2, <1>4, <1>7 DEF Types, C!ClientType
<1>9. Holder'
  BY <1>1, <1>2, <1>4, <1>7, HolderKept
<1>10. QED
  BY <1>6, <1>7, <1>8, <1>9 DEF Kept

(* The network resets a connection. *)
LEMMA NetworkKeeps ==
  ASSUME Inv, NEW c \in Clients, UNCHANGED <<cl, acquired, slipped, freeFailed>>,
         ResetDue(c) \/ LinkLost(c)
  PROVE  Kept
<1>1. Types /\ ServerInv /\ Geometry /\ Fit /\ CopiesFit /\ Holder /\ link \in Conns(Words)
  BY DEF Inv, Types
<1>2. /\ UNCHANGED <<upool, ubuf, pc, cmd, out, after, badCopy, cli_sock, kpool, ctx>>
      /\ Link!Reset(c)
  BY DEF ResetDue, LinkLost, processVars, dvars
<1>3. /\ link' \in Conns(Words) /\ \A d \in Clients \ {c} : link'[d] = link[d]
      /\ Cut(link[c], link'[c]) /\ link'[c].rst
      /\ link'[c].cli = link[c].cli /\ link'[c].srv = link[c].srv
  BY <1>1, <1>2, ResetCut
<1>4. ASSUME NEW d \in Clients
      PROVE  Known(d)' /\ link'[d].cli = link[d].cli
  <2>1. Known(d)
    BY DEF Inv
  <2>2. CASE d = c
    BY <1>1, <1>2, <1>3, <2>1, <2>2, ResetKnown
  <2>3. CASE d # c
    BY <1>2, <1>3, <2>1, <2>3, OthersKnown
  <2>4. QED
    BY <2>2, <2>3
<1>5. Types'
  BY <1>1, <1>2, <1>3 DEF Types, C!ClientType
<1>6. Geometry' /\ Fit' /\ CopiesFit'
  BY <1>1, <1>2, PoolsAlone
<1>7. Holder'
  <2>1. faults' = 0 => faults = 0 /\ ResetDue(c)
    <3>1. faults \in Nat
      BY <1>1 DEF ServerInv
    <3>2. LinkLost(c) => faults' = faults + 1
      BY DEF LinkLost, Fault
    <3>3. ResetDue(c) => faults' = faults
      BY DEF ResetDue
    <3>4. QED
      BY <3>1, <3>2, <3>3
  <2>2. ASSUME NEW d \in Clients, faults' = 0, Keeps(d), link[d].cli
        PROVE  Keeps(d)'
    <3>1. d # c
      BY <2>1, <2>2 DEF Keeps, ResetDue, Link!MayReset
    <3>2. QED
      BY <1>2, <1>3, <2>2, <3>1 DEF Keeps, Closing, Past
  <2>3. QED
    BY <1>1, <1>2, <1>4, <2>1, <2>2, HolderKept
<1>8. QED
  BY <1>4, <1>5, <1>6, <1>7 DEF Kept

(* No request of a client writes. *)
LEMMA NoWrites ==
  ASSUME Inv, pc = "handle"
  PROVE  cmd \in {0, 2, 3, 4, 5, 8, 9, 12, 13} /\ SizeKnown
<1>1. PICK d \in Clients : d = cli_sock
  BY DEF Inv, ServerInv, Sockets, Session
<1>2. cmd \in {0, 2, 3} \cup {READ_SECTOR[Mode], READ_CLUSTER[Mode]}
  BY <1>1, Handled
<1>3. READ_SECTOR[Mode] \in {4, 8, 12} /\ READ_CLUSTER[Mode] \in {5, 9, 13}
  BY PartitionAssumption, CommandNumbers
<1>4. cmd \in {0, 2, 3, 4, 5, 8, 9, 12, 13}
  BY <1>2, <1>3
<1>5. ClusterWrites = {7, 11, 15}
  BY CommandNumbers
<1>6. QED
  BY <1>4, <1>5 DEF SizeKnown

(* Every step of the server keeps the invariant. *)
LEMMA ServerKeeps ==
  ASSUME Inv, ServerStep
  PROVE  Kept
<1>1. main /\ Noted /\ UNCHANGED cl
  BY DEF ServerStep, Noted
<1>2. CASE (init_net \/ deinit_net \/ exit \/ accept \/ close_client) /\ UNCHANGED dvars
  <2>1. pc # "handle" /\ upool'.init \in {0, upool.init}
    <3>1. pc # "handle"
      BY <1>2 DEF init_net, deinit_net, exit, accept, close_client
    <3>2. ASSUME exit
          PROVE  upool'.init = 0
      BY <3>2 DEF exit, ProcessEnds, UPool!Blank
    <3>3. ~exit => upool' = upool
      BY <1>2 DEF init_net, deinit_net, accept, close_client
    <3>4. QED
      BY <3>1, <3>2, <3>3
  <2>2. UNCHANGED <<acquired, slipped, freeFailed>>
    BY <1>1, <2>1, NothingNoted DEF Inv
  <2>3. QED
    BY <1>1, <1>2, <2>2, ProcessKeeps
<1>3. CASE (receive_command \/ send) /\ UNCHANGED dvars
  BY <1>1, <1>3, SessionKeeps
<1>4. CASE handle_command_0
  BY <1>1, <1>4, PingKeeps
<1>5. CASE handle_command_2
  BY <1>1, <1>5, InitKeeps
<1>6. CASE handle_command_3
  BY <1>1, <1>6, DeinitKeeps
<1>7. CASE handle_command_4 \/ handle_command_8 \/ handle_command_12
  BY <1>1, <1>7, SectorReadKeeps
<1>8. CASE handle_command_5 \/ handle_command_9 \/ handle_command_13
  BY <1>1, <1>8, ClusterReadKeeps
<1>9. CASE \/ handle_command_1 \/ handle_command_6 \/ handle_command_7 \/ handle_command_10
           \/ handle_command_11 \/ handle_command_14 \/ handle_command_15
  <2>1. pc = "handle" /\ cmd \in {TERM, WRITE_SECTOR["emmc"], WRITE_SECTOR["ms"],
                                  WRITE_SECTOR["gc"]} \cup ClusterWrites
    BY <1>9 DEF handle_command_1, handle_command_6, handle_command_7, handle_command_10,
                handle_command_11, handle_command_14, handle_command_15, HandleWriteSector,
                HandleWriteCluster, Handling, ClusterWrites
  <2>2. cmd \in {1, 6, 10, 14, 7, 11, 15}
    BY <2>1, CommandNumbers DEF TERM, WRITE_SECTOR
  <2>3. QED
    BY <2>1, <2>2, NoWrites
<1>10. CASE unknown_command
  <2>1. pc = "handle" /\ cmd \notin Commands
    BY <1>10 DEF unknown_command
  <2>2. QED
    BY <2>1, NoWrites DEF Commands
<1>11. QED
  BY <1>1, <1>2, <1>3, <1>4, <1>5, <1>6, <1>7, <1>8, <1>9, <1>10
     DEF main, accept_single_connection, receive_commands

(* Every step but those of the clients keeps the invariant. *)
LEMMA ServerSideKeeps ==
  ASSUME Inv,
         ServerStep \/ SystemStep \/ \E c \in Clients : ResetStep(c) \/ LossStep(c)
  PROVE  Inv'
<1>1. Kept
  <2>1. CASE ServerStep
    BY <2>1, ServerKeeps
  <2>2. CASE SystemStep
    <3>1. CASE module_start /\ UNCHANGED <<svars, cl, acquired, slipped, freeFailed>>
      BY <3>1, LoadKeeps
    <3>2. CASE (launch \/ kill) /\ UNCHANGED <<dvars, cl, acquired, slipped, freeFailed>>
      BY <3>2, ProcessKeeps
    <3>3. QED
      BY <2>2, <3>1, <3>2 DEF SystemStep, System
  <2>3. ASSUME NEW c \in Clients, ResetStep(c) \/ LossStep(c)
        PROVE  Kept
    BY <2>3, NetworkKeeps DEF ResetStep, LossStep
  <2>4. QED
    BY <2>1, <2>2, <2>3
<1>2. ServerInv'
  <2>1. SizeKnown
    BY NoWrites DEF SizeKnown
  <2>2. OwnStep
    BY DEF OwnStep, ServerStep, SystemStep, ResetStep, LossStep
  <2>3. QED
    BY <2>1, <2>2, ServerStepInv DEF Inv
<1>3. QED
  BY <1>1, <1>2 DEF Inv, Kept

-----------------------------------------------------------------------------
(* The steps of the clients *)

(* The client's connections are the server's. *)
LEMMA SameLink ==
  ASSUME NEW c \in Clients
  PROVE  /\ C!Link!CliClose(c) <=> Link!CliClose(c)
         /\ C!Link!Connect(c) <=> Link!Connect(c)
         /\ \A n : C!Link!CliTake(c, n) <=> Link!CliTake(c, n)
         /\ \A w : C!Link!CliSend(c, w) <=> Link!CliSend(c, w)
         /\ C!Link!CliError(c) <=> link[c].rst \/ ~link[c].cli
         /\ C!Link!CliAtEnd(c) <=> Alive(c) /\ link[c].s2c = <<>> /\ link[c].srv = "closed"
<1>1. C!Link!CliClose(c) <=> Link!CliClose(c)
  BY DEF C!Link!CliClose, Link!CliClose, C!Link!CliClosed, Link!CliClosed, C!Link!Settled,
         Link!Settled
<1>2. C!Link!Connect(c) <=> Link!Connect(c)
  BY DEF C!Link!Connect, Link!Connect, C!Link!NoConnection, Link!NoConnection
<1>3. /\ \A n : C!Link!CliTake(c, n) <=> Link!CliTake(c, n)
      /\ \A w : C!Link!CliSend(c, w) <=> Link!CliSend(c, w)
  BY DEF C!Link!CliTake, Link!CliTake, C!Link!CliSend, Link!CliSend, C!Link!Rest, Link!Rest
<1>4. /\ C!Link!CliError(c) <=> link[c].rst \/ ~link[c].cli
      /\ C!Link!CliAtEnd(c) <=> Alive(c) /\ link[c].s2c = <<>> /\ link[c].srv = "closed"
  BY DEF C!Link!CliError, C!Link!CliAtEnd, Alive
<1>5. QED
  BY <1>1, <1>2, <1>3, <1>4

(* What a receive returns is the beginning of what is there. *)
LEMMA ReceivedWords ==
  ASSUME NEW q \in Seq(Int), NEW n \in Nat, NEW w \in C!Link!Received(q, n)
  PROVE  \E k \in 1 .. Len(q) : k <= n /\ w = SubSeq(q, 1, k) /\ Len(w) = k /\ w \in Seq(Int)
<1>1. PICK l \in Nat : l = Len(q)
  BY LenProperties
<1>2. PICK m \in Nat : m = C!Link!Min({n, l}) /\ m <= n /\ m <= l
  <2>1. C!Link!Min({n, l}) = CHOOSE x \in {n, l} : \A y \in {n, l} : x <= y
    BY DEF C!Link!Min
  <2>2. \E x \in {n, l} : \A y \in {n, l} : x <= y
    BY <1>1
  <2>3. C!Link!Min({n, l}) \in {n, l} /\ \A y \in {n, l} : C!Link!Min({n, l}) <= y
    BY <2>1, <2>2
  <2>4. QED
    BY <1>1, <2>3
<1>3. PICK k \in 1 .. m : w = SubSeq(q, 1, k)
  BY <1>1, <1>2 DEF C!Link!Received
<1>4. k \in 0 .. Len(q) /\ k \in 1 .. Len(q) /\ k <= n
  BY <1>1, <1>2
<1>5. QED
  BY <1>3, <1>4, FirstWords

(* A run is replaced. *)
Ops == {"connect", "ping", "mbr", "init", "cluster", "sector", "deinit", "close", "exit"}

Run == [op : Ops, phase : {"send", "header", "loop"}, i : Nat, header : Seq(Int),
        got : Seq(Int), file : Seq(Int), ret : {"none", "ok", "failed"}]

(* A step of one client leaves the others alone. *)
LEMMA OneRun ==
  ASSUME Types, NEW c \in Clients, NEW r \in Run, cl' = [cl EXCEPT ![c] = r]
  PROVE  C!ClientType' /\ cl'[c] = r /\ \A d \in Clients \ {c} : cl'[d] = cl[d]
<1>1. cl \in [Clients -> Run]
  BY DEF Types, C!ClientType, Run, Ops
<1>2. cl' \in [Clients -> Run]
  BY <1>1
<1>3. QED
  BY <1>1, <1>2 DEF C!ClientType, Run, Ops

(* One update after the other. *)
LEMMA Updated ==
  ASSUME cl \in [Clients -> Run], NEW c \in Clients, NEW r, NEW g, g = [cl EXCEPT ![c] = r]
  PROVE  g[c] = r /\ \A s : [g EXCEPT ![c] = s] = [cl EXCEPT ![c] = s]
<1>1. g[c] = r
  OBVIOUS
<1>2. ASSUME NEW s
      PROVE  [g EXCEPT ![c] = s] = [cl EXCEPT ![c] = s]
  OBVIOUS
<1>3. QED
  BY <1>1, <1>2

(* The run of c goes to a request, and the others stay where they are. *)
Moves(c, op, i, file, ret) ==
    /\ C!ClientType' /\ \A d \in Clients \ {c} : cl'[d] = cl[d]
    /\ cl'[c].op = op /\ cl'[c].i = i /\ cl'[c].file = file /\ cl'[c].ret = ret
    /\ cl'[c].phase = "send" /\ cl'[c].header = <<>> /\ cl'[c].got = <<>>

(* The ways a client goes on: to another request, to the end, or to        *)
(* another request with words added to its file.                           *)
LEMMA MovesTo ==
  ASSUME Types, NEW c \in Clients
  PROVE  /\ \A op \in Ops : C!Goto(c, op) => Moves(c, op, cl[c].i, cl[c].file, cl[c].ret)
         /\ \A ret \in {"ok", "failed"} :
                C!Return(c, ret) => Moves(c, "close", cl[c].i, cl[c].file, ret)
         /\ \A words \in Seq(Int), i \in Nat, op \in Ops :
                C!Written(c, words, i, op) => Moves(c, op, i, cl[c].file \o words, cl[c].ret)
<1>1. cl \in [Clients -> Run] /\ cl[c] \in Run
  BY DEF Types, C!ClientType, Run, Ops
<1>2. <<>> \in Seq(Int)
  BY EmptySeq
<1>3. ASSUME NEW op \in Ops, NEW i \in Nat, NEW file \in Seq(Int), NEW ret \in {"none", "ok", "failed"},
             cl' = [cl EXCEPT ![c] = [op |-> op, phase |-> "send", i |-> i, header |-> <<>>,
                                      got |-> <<>>, file |-> file, ret |-> ret]]
      PROVE  Moves(c, op, i, file, ret)
  <2>1. PICK r : r = [op |-> op, phase |-> "send", i |-> i, header |-> <<>>,
                      got |-> <<>>, file |-> file, ret |-> ret]
    OBVIOUS
  <2>2. r \in Run /\ cl' = [cl EXCEPT ![c] = r]
    BY <1>2, <1>3, <2>1 DEF Run
  <2>3. C!ClientType' /\ cl'[c] = r /\ \A d \in Clients \ {c} : cl'[d] = cl[d]
    BY <2>2, OneRun
  <2>4. QED
    BY <2>1, <2>3 DEF Moves
<1>4. ASSUME NEW op \in Ops, C!Goto(c, op)
      PROVE  Moves(c, op, cl[c].i, cl[c].file, cl[c].ret)
  <2>1. PICK g1 : g1 = [cl EXCEPT ![c].op = op]
    OBVIOUS
  <2>2. PICK g2 : g2 = [g1 EXCEPT ![c].phase = "send"]
    OBVIOUS
  <2>3. PICK g3 : g3 = [g2 EXCEPT ![c].header = <<>>]
    OBVIOUS
  <2>4. PICK g4 : g4 = [g3 EXCEPT ![c].got = <<>>]
    OBVIOUS
  <2>5. cl' = g4
    BY <1>4, <2>1, <2>2, <2>3, <2>4 DEF C!Goto
  <2>6. PICK r1 : r1 = [cl[c] EXCEPT !.op = op]
    OBVIOUS
  <2>7. g1 = [cl EXCEPT ![c] = r1]
    BY <2>1, <2>6
  <2>8. PICK r2 : r2 = [r1 EXCEPT !.phase = "send"]
    OBVIOUS
  <2>9. g2 = [cl EXCEPT ![c] = r2]
    BY <1>1, <2>2, <2>8, <2>7, Updated
  <2>10. PICK r3 : r3 = [r2 EXCEPT !.header = <<>>]
    OBVIOUS
  <2>11. g3 = [cl EXCEPT ![c] = r3]
    BY <1>1, <2>3, <2>10, <2>9, Updated
  <2>12. PICK r4 : r4 = [r3 EXCEPT !.got = <<>>]
    OBVIOUS
  <2>13. g4 = [cl EXCEPT ![c] = r4]
    BY <1>1, <2>4, <2>12, <2>11, Updated
  <2>14. r4 = [op |-> op, phase |-> "send", i |-> cl[c].i, header |-> <<>>,
              got |-> <<>>, file |-> cl[c].file, ret |-> cl[c].ret]
    BY <1>1, <2>6, <2>8, <2>10, <2>12 DEF Run
  <2>15. cl' = [cl EXCEPT ![c] = r4]
    BY <2>5, <2>13
  <2>16. cl[c].i \in Nat /\ cl[c].file \in Seq(Int) /\ cl[c].ret \in {"none", "ok", "failed"}
    BY <1>1 DEF Run
  <2>17. QED
    BY <1>3, <2>14, <2>15, <2>16
<1>5. ASSUME NEW ret \in {"ok", "failed"}, C!Return(c, ret)
      PROVE  Moves(c, "close", cl[c].i, cl[c].file, ret)
  <2>1. PICK g1 : g1 = [cl EXCEPT ![c].op = "close"]
    OBVIOUS
  <2>2. PICK g2 : g2 = [g1 EXCEPT ![c].phase = "send"]
    OBVIOUS
  <2>3. PICK g3 : g3 = [g2 EXCEPT ![c].ret = ret]
    OBVIOUS
  <2>4. PICK g4 : g4 = [g3 EXCEPT ![c].header = <<>>]
    OBVIOUS
  <2>5. PICK g5 : g5 = [g4 EXCEPT ![c].got = <<>>]
    OBVIOUS
  <2>6. cl' = g5
    BY <1>5, <2>1, <2>2, <2>3, <2>4, <2>5 DEF C!Return
  <2>7. PICK r1 : r1 = [cl[c] EXCEPT !.op = "close"]
    OBVIOUS
  <2>8. g1 = [cl EXCEPT ![c] = r1]
    BY <2>1, <2>7
  <2>9. PICK r2 : r2 = [r1 EXCEPT !.phase = "send"]
    OBVIOUS
  <2>10. g2 = [cl EXCEPT ![c] = r2]
    BY <1>1, <2>2, <2>9, <2>8, Updated
  <2>11. PICK r3 : r3 = [r2 EXCEPT !.ret = ret]
    OBVIOUS
  <2>12. g3 = [cl EXCEPT ![c] = r3]
    BY <1>1, <2>3, <2>11, <2>10, Updated
  <2>13. PICK r4 : r4 = [r3 EXCEPT !.header = <<>>]
    OBVIOUS
  <2>14. g4 = [cl EXCEPT ![c] = r4]
    BY <1>1, <2>4, <2>13, <2>12, Updated
  <2>15. PICK r5 : r5 = [r4 EXCEPT !.got = <<>>]
    OBVIOUS
  <2>16. g5 = [cl EXCEPT ![c] = r5]
    BY <1>1, <2>5, <2>15, <2>14, Updated
  <2>17. r5 = [op |-> "close", phase |-> "send", i |-> cl[c].i, header |-> <<>>,
              got |-> <<>>, file |-> cl[c].file, ret |-> ret]
    BY <1>1, <2>7, <2>9, <2>11, <2>13, <2>15 DEF Run
  <2>18. cl' = [cl EXCEPT ![c] = r5]
    BY <2>6, <2>16
  <2>19. cl[c].i \in Nat /\ cl[c].file \in Seq(Int) /\ "close" \in Ops
    BY <1>1 DEF Run, Ops
  <2>20. ret \in {"none", "ok", "failed"}
    OBVIOUS
  <2>21. QED
    BY <1>3, <2>17, <2>18, <2>19, <2>20
<1>6. ASSUME NEW words \in Seq(Int), NEW i \in Nat, NEW op \in Ops, C!Written(c, words, i, op)
      PROVE  Moves(c, op, i, cl[c].file \o words, cl[c].ret)
  <2>1. PICK g1 : g1 = [cl EXCEPT ![c].file = @ \o words]
    OBVIOUS
  <2>2. PICK g2 : g2 = [g1 EXCEPT ![c].i = i]
    OBVIOUS
  <2>3. PICK g3 : g3 = [g2 EXCEPT ![c].op = op]
    OBVIOUS
  <2>4. PICK g4 : g4 = [g3 EXCEPT ![c].phase = "send"]
    OBVIOUS
  <2>5. PICK g5 : g5 = [g4 EXCEPT ![c].header = <<>>]
    OBVIOUS
  <2>6. PICK g6 : g6 = [g5 EXCEPT ![c].got = <<>>]
    OBVIOUS
  <2>7. cl' = g6
    BY <1>6, <2>1, <2>2, <2>3, <2>4, <2>5, <2>6 DEF C!Written
  <2>8. PICK r1 : r1 = [cl[c] EXCEPT !.file = cl[c].file \o words]
    OBVIOUS
  <2>9. g1 = [cl EXCEPT ![c] = r1]
    BY <2>1, <2>8
  <2>10. PICK r2 : r2 = [r1 EXCEPT !.i = i]
    OBVIOUS
  <2>11. g2 = [cl EXCEPT ![c] = r2]
    BY <1>1, <2>2, <2>10, <2>9, Updated
  <2>12. PICK r3 : r3 = [r2 EXCEPT !.op = op]
    OBVIOUS
  <2>13. g3 = [cl EXCEPT ![c] = r3]
    BY <1>1, <2>3, <2>12, <2>11, Updated
  <2>14. PICK r4 : r4 = [r3 EXCEPT !.phase = "send"]
    OBVIOUS
  <2>15. g4 = [cl EXCEPT ![c] = r4]
    BY <1>1, <2>4, <2>14, <2>13, Updated
  <2>16. PICK r5 : r5 = [r4 EXCEPT !.header = <<>>]
    OBVIOUS
  <2>17. g5 = [cl EXCEPT ![c] = r5]
    BY <1>1, <2>5, <2>16, <2>15, Updated
  <2>18. PICK r6 : r6 = [r5 EXCEPT !.got = <<>>]
    OBVIOUS
  <2>19. g6 = [cl EXCEPT ![c] = r6]
    BY <1>1, <2>6, <2>18, <2>17, Updated
  <2>20. r6 = [op |-> op, phase |-> "send", i |-> i, header |-> <<>>,
              got |-> <<>>, file |-> cl[c].file \o words, ret |-> cl[c].ret]
    BY <1>1, <2>8, <2>10, <2>12, <2>14, <2>16, <2>18 DEF Run
  <2>21. cl' = [cl EXCEPT ![c] = r6]
    BY <2>7, <2>19
  <2>22. cl[c].file \in Seq(Int) /\ cl[c].ret \in {"none", "ok", "failed"}
    BY <1>1 DEF Run
  <2>23. cl[c].file \o words \in Seq(Int)
    BY <2>22, ConcatProperties
  <2>24. QED
    BY <1>3, <2>20, <2>21, <2>22, <2>23
<1>7. QED
  BY <1>4, <1>5, <1>6

(* A step of a client keeps the invariant if it keeps the client's dump,   *)
(* and the pool's holder if that is the client.                            *)
LEMMA ClientKeeps ==
  ASSUME Inv, NEW c \in Clients, OnLink, faults' = faults \/ Fault, slipped \subseteq slipped',
         link' \in Conns(Words), C!ClientType',
         \A d \in Clients \ {c} : cl'[d] = cl[d] /\ link'[d] = link[d],
         link'[c].srv = "open" <=> link[c].srv = "open",
         Known(c)', ~ShortRecv /\ Keeps(c) => Keeps(c)'
  PROVE  Inv'
<1>1. Types /\ ServerInv /\ Geometry /\ Fit /\ CopiesFit /\ Holder
  BY DEF Inv
<1>2. /\ UNCHANGED <<upool, ubuf, kpool, ctx, pc, after, cli_sock, emmc_sock, listener, cmd, out>>
      /\ UNCHANGED <<badCopy, freeFailed, acquired>>
  BY DEF OnLink, dvars
<1>3. \A d \in Clients : Known(d)'
  <2>1. ASSUME NEW d \in Clients \ {c}
        PROVE  Known(d)'
    BY <1>2, <2>1, OthersKnown DEF Inv
  <2>2. QED
    BY <2>1
<1>4. ServerInv'
  <2>1. LinkShape'
    <3>1. <<>> \in Words
      BY EmptySeq DEF Words
    <3>2. QED
      BY <3>1 DEF LinkShape
  <2>2. \A d \in Clients : link'[d].srv = "open" <=> link[d].srv = "open"
    OBVIOUS
  <2>3. QED
    BY <1>1, <1>2, <2>1, <2>2, OutsideStepInv
<1>5. Types'
  BY <1>1, <1>2 DEF Types
<1>6. Geometry' /\ Fit' /\ CopiesFit'
  BY <1>1, <1>2, PoolsAlone
<1>7. Holder'
  <2>1. faults' = 0 => faults = 0
    BY <1>1 DEF ServerInv, Fault
  <2>2. \A d \in Clients : ~ShortRecv /\ Keeps(d) => Keeps(d)'
    <3>1. ASSUME NEW d \in Clients \ {c}, Keeps(d)
          PROVE  Keeps(d)'
      <4>1. cl'[d] = cl[d] /\ link'[d] = link[d]
        BY <3>1
      <4>2. QED
        BY <1>2, <3>1, <4>1 DEF Keeps, Closing, Past
    <3>2. QED
      BY <3>1
  <2>3. QED
    BY <1>1, <1>2, <2>1, <2>2 DEF Holder
<1>8. QED
  BY <1>3, <1>4, <1>5, <1>6, <1>7 DEF Inv

(* A client connects, or gives up when nobody listens.                     *)
LEMMA ConnectKeeps ==
  ASSUME Inv, NEW c \in Clients, OnLink, UNCHANGED faults, slipped \subseteq slipped',
         NEW listening,
         C!initialize_emmc_proxy_connection(c, listening)
  PROVE  Inv'
<1>1. Types /\ ServerInv /\ Dumping(c) /\ link \in Conns(Words)
  BY DEF Inv, Types, Known, Off, C!initialize_emmc_proxy_connection, C!At
<1>2. cl[c].op = "connect" /\ ~link[c].cli /\ link[c].srv = "none" /\ ~Keeps(c)
  BY <1>1 DEF C!initialize_emmc_proxy_connection, C!At, Dumping, Ends, Keeps
<1>3. cl[c].file = <<>> /\ cl[c].i = 0 /\ cl[c].ret = "none"
  BY <1>1, <1>2 DEF Dumping, Progress
<1>4. UNCHANGED <<pc, cli_sock, badCopy, freeFailed, acquired, upool, cmd, out, after>>
  BY DEF OnLink
<1>5. ~Serves(c, "recv") /\ ~Serves(c, "handle") /\ ~Serves(c, "send")
  BY <1>1, <1>2 DEF ServerInv, Sockets, Session, Serves
<1>6. PICK op \in {"ping", "exit"} :
        /\ C!Goto(c, op)
        /\ \/ op = "ping" /\ Link!Connect(c)
           \/ op = "exit" /\ UNCHANGED link
  BY SameLink DEF C!initialize_emmc_proxy_connection
<1>7. Moves(c, op, cl[c].i, cl[c].file, cl[c].ret)
  BY <1>1, <1>6, MovesTo DEF Ops
<1>8. /\ link' \in Conns(Words) /\ \A d \in Clients \ {c} : link'[d] = link[d]
      /\ ~link'[c].rst \/ link'[c] = link[c]
      /\ link'[c].srv \in {"none", "backlog"}
      /\ op = "ping" => link'[c].cli /\ link'[c].srv = "backlog"
                        /\ link'[c].c2s = <<>> /\ link'[c].s2c = <<>>
      /\ op = "exit" => link'[c] = link[c]
  <2>1. CASE op = "ping" /\ Link!Connect(c)
    BY <1>1, <2>1, ConnectWords
  <2>2. CASE op = "exit" /\ UNCHANGED link
    BY <1>1, <1>2, <2>2
  <2>3. QED
    BY <1>6, <2>1, <2>2
<1>9. ~Serves(c, "recv")' /\ ~Serves(c, "handle")' /\ ~Serves(c, "send")'
  BY <1>4, <1>5 DEF Serves
<1>10. Dumping(c)'
  <2>1. Queue(c)' /\ Hand(c)' /\ Replies(c)'
    BY <1>2, <1>6, <1>8, <1>9 DEF Queue, Hand, Replies
  <2>2. Ends(c)'
    BY <1>1, <1>2, <1>3, <1>6, <1>7, <1>8 DEF Ends, Moves, Dumping
  <2>3. Phases(c)'
    BY <1>2, <1>6, <1>7, <1>8 DEF Phases, Moves
  <2>4. Progress(c)'
    BY <1>3, <1>6, <1>7 DEF Progress, Moves
  <2>5. Content(c)'
    <3>1. 1 .. Len(<<>>) = {}
      OBVIOUS
    <3>2. QED
      BY <1>3, <1>7, <3>1 DEF Content, Moves
  <2>6. Unpooled(c)'
    BY <1>8 DEF Unpooled
  <2>7. Answer(c)' /\ Stuck(c)'
    BY <1>6, <1>7 DEF Answer, Moves, Stuck, Cheated
  <2>8. QED
    BY <2>1, <2>2, <2>3, <2>4, <2>5, <2>6, <2>7 DEF Dumping
<1>11. link'[c].srv = "open" <=> link[c].srv = "open"
  BY <1>2, <1>8
<1>12. QED
  BY <1>2, <1>7, <1>8, <1>10, <1>11, ClientKeeps DEF Moves, Known

(* The requests that wait stay read requests when none comes in.           *)
LEMMA WaitingKept ==
  ASSUME Types, NEW c \in Clients, Waiting(c), UNCHANGED <<pc, cli_sock, cmd, after>>,
         link'[c].c2s \in {link[c].c2s, <<>>},
         link'[c].c2s = <<>> => link[c].c2s = <<>> \/ ~Alive(c)',
         Going(c)' => Going(c), Alive(c)' => Alive(c)
  PROVE  Waiting(c)'
<1>1. \A place : Serves(c, place)' <=> Serves(c, place)
  BY DEF Serves
<1>2. PICK more, less \in BOOLEAN : more = Going(c) /\ less = Going(c)'
  <2>1. Going(c) \in BOOLEAN /\ Going(c)' \in BOOLEAN
    BY DEF Going
  <2>2. QED
    BY <2>1
<1>3. \A o : Asked(link[c].c2s, o, more) => Asked(link'[c].c2s, o, less)
  <2>1. ASSUME NEW o, Asked(link[c].c2s, o, more)
        PROVE  Asked(link'[c].c2s, o, less)
    <3>1. Asked(link[c].c2s, o, less)
      BY <1>2, <2>1, AskedLess
    <3>2. QED
      BY <3>1, NothingAsked
  <2>2. QED
    BY <2>1
<1>4. Serves(c, "recv")' \/ (Serves(c, "send")' /\ after' = "recv") =>
         Asked(link'[c].c2s, 0, Going(c)')
  BY <1>1, <1>2, <1>3 DEF Waiting
<1>5. ASSUME Serves(c, "handle")'
      PROVE  \/ /\ cmd' \in Reads
                /\ \/ link'[c].c2s = <<>> /\ ~Alive(c)'
                   \/ link'[c].c2s # <<>> /\ Asked(link'[c].c2s, 1, Going(c)')
             \/ cmd' = DEINIT /\ link'[c].c2s = <<>> /\ ~Going(c)'
  <2>1. CASE cmd = DEINIT /\ link[c].c2s = <<>> /\ ~Going(c)
    BY <2>1
  <2>2. CASE cmd \in Reads /\ link[c].c2s = <<>> /\ ~Alive(c)
    BY <2>2
  <2>3. CASE cmd \in Reads /\ link[c].c2s # <<>> /\ Asked(link[c].c2s, 1, Going(c))
    <3>1. Asked(link'[c].c2s, 1, Going(c)')
      BY <1>2, <1>3, <2>3
    <3>2. QED
      BY <2>3, <3>1
  <2>4. QED
    BY <1>1, <1>5, <2>1, <2>2, <2>3 DEF Waiting
<1>6. QED
  BY <1>4, <1>5 DEF Waiting, Reads

(* A client that leaves, or goes on without a connection, has its file.    *)
LEMMA LeavesKeeps ==
  ASSUME Inv, NEW c \in Clients, OnLink, faults' = faults \/ Fault, slipped \subseteq slipped',
         C!Link!CliClose(c),
         cl[c].op \notin {"connect", "exit"},
         NEW op, NEW ret, Moves(c, op, cl[c].i, cl[c].file, ret),
         \/ op = "init" /\ cl[c].op = "mbr" /\ ret = cl[c].ret
         \/ op \in {"close", "exit"} /\ ret \in {cl[c].ret, "failed"}
  PROVE  Inv'
<1>1. Types /\ ServerInv /\ Known(c) /\ link \in Conns(Words)
  BY DEF Inv, Types
<1>2. UNCHANGED <<pc, cli_sock, badCopy, freeFailed, acquired, upool, cmd, out, after>>
  BY DEF OnLink
<1>3. /\ link' \in Conns(Words) /\ \A d \in Clients \ {c} : link'[d] = link[d]
      /\ Cut(link[c], link'[c]) /\ link'[c].rst = link[c].rst
      /\ ~link'[c].cli /\ link'[c].srv = link[c].srv
  BY <1>1, SameLink, CliCloseCut
<1>4. /\ link'[c].c2s \in {link[c].c2s, <<>>}
      /\ link'[c].rst => link'[c].c2s = <<>> /\ link'[c].s2c = <<>>
  BY <1>3 DEF Cut
<1>5. ~link[c].rst /\ link[c].srv # "closed" => link'[c].c2s = link[c].c2s
  <2>1. PICK l : l = [link[c] EXCEPT !.cli = FALSE]
    OBVIOUS
  <2>2. link[c] \in Conn(Words)
    BY <1>1 DEF Conns
  <2>3. l.rst = link[c].rst /\ l.srv = link[c].srv /\ l.c2s = link[c].c2s
    BY <2>1, <2>2 DEF Conn
  <2>4. link'[c] = Link!Settled(l)
    BY <1>1, <2>1, SameLink DEF Link!CliClose, Link!CliClosed, Conns
  <2>5. QED
    BY <2>3, <2>4 DEF Link!Settled
<1>6. \A place : Serves(c, place)' <=> Serves(c, place)
  BY <1>2 DEF Serves
<1>7. /\ cl'[c].op = op /\ cl'[c].i = cl[c].i /\ cl'[c].file = cl[c].file /\ cl'[c].ret = ret
      /\ cl'[c].phase = "send" /\ cl'[c].header = <<>> /\ cl'[c].got = <<>>
  BY DEF Moves
<1>8. ASSUME Dumping(c)
      PROVE  Dumping(c)'
  <2>1. Queue(c)'
    BY <1>3, <1>4, <1>6, <1>8 DEF Queue, Dumping
  <2>2. Hand(c)'
    <3>1. SUFFICES ASSUME Serves(c, "handle")
                   PROVE  \E q \in Requests :
                            /\ cmd = q[1]
                            /\ ~link'[c].rst => link'[c].c2s = SubSeq(q, 2, Len(q))
      BY <1>2, <1>3, <1>6 DEF Hand, Alive
    <3>2. link[c].srv = "open"
      BY <1>1, <3>1 DEF ServerInv, Sockets, Session, Serves
    <3>3. PICK q \in Requests : cmd = q[1] /\ (~link[c].rst => link[c].c2s = SubSeq(q, 2, Len(q)))
      BY <1>8, <3>1 DEF Dumping, Hand
    <3>4. QED
      BY <1>3, <1>5, <3>2, <3>3
  <2>3. Replies(c)'
    BY <1>2, <1>3, <1>4, <1>6, <1>8 DEF Replies, Alive, Dumping
  <2>4. Ends(c)'
    BY <1>1, <1>3, <1>4, <1>6, <1>7, <1>8 DEF Ends, Dumping
  <2>5. Phases(c)'
    BY <1>3, <1>7 DEF Phases
  <2>6. Progress(c)'
    BY <1>7, <1>8 DEF Progress, Dumping
  <2>7. Content(c)'
    <3>1. CASE op = "init" /\ cl[c].op = "mbr"
      <4>1. cl'[c].file = <<>> /\ 1 .. Len(<<>>) = {}
        BY <1>7, <1>8, <3>1 DEF Dumping, Progress
      <4>2. QED
        BY <4>1 DEF Content
    <3>2. CASE op \in {"close", "exit"} /\ ret \in {cl[c].ret, "failed"}
      <4>1. \A k : RightWord(c, k) \/ LastZero(c, k) => RightWord(c, k)' \/ LastZero(c, k)'
        BY <1>7, <3>2 DEF RightWord, LastZero
      <4>2. QED
        BY <1>2, <1>7, <1>8, <4>1 DEF Content, Dumping
    <3>3. QED
      BY <3>1, <3>2
  <2>8. Unpooled(c)'
    BY <1>3 DEF Unpooled, Alive
  <2>9. Answer(c)' /\ Stuck(c)'
    BY <1>7 DEF Answer, Stuck, Cheated
  <2>10. QED
    BY <2>1, <2>2, <2>3, <2>4, <2>5, <2>6, <2>7, <2>8, <2>9 DEF Dumping
<1>9. ASSUME Off(c)
      PROVE  Off(c)'
  <2>1. /\ op \in {"close", "exit"} /\ ShortRecv /\ c \in slipped
        /\ link[c].srv \in {"open", "closed"}
    BY <1>9 DEF Off
  <2>2. Waiting(c)'
    <3>1. ~Going(c)' /\ ~Alive(c)'
      BY <1>3 DEF Going, Alive
    <3>2. QED
      BY <1>1, <1>2, <1>4, <1>9, <3>1, WaitingKept DEF Off
  <2>3. Serves(c, "send")' => out' # <<>>
    BY <1>2, <1>6, <1>9 DEF Off
  <2>4. QED
    BY <1>3, <1>4, <1>7, <2>1, <2>2, <2>3 DEF Off
<1>10. Keeps(c) => Keeps(c)'
  BY <1>2, <1>3, <1>7 DEF Keeps
<1>11. QED
  BY <1>1, <1>3, <1>8, <1>9, <1>10, ClientKeeps DEF Moves, Known

(* A client that gives up keeps the invariant, in every request. *)
LEMMA FailKeeps ==
  ASSUME Inv, NEW c \in Clients, OnLink, UNCHANGED faults, slipped \subseteq slipped',
         C!Fail(c),
         cl[c].op \in {"ping", "mbr", "init", "cluster", "sector", "deinit"}
  PROVE  Inv'
<1>1. Types
  BY DEF Inv
<1>2. C!Link!CliClose(c)
  BY DEF C!Fail
<1>3. \/ C!Goto(c, "close")
      \/ cl[c].op = "mbr" /\ C!Goto(c, "init")
      \/ C!Return(c, "failed")
  BY DEF C!Fail, C!AfterFailure
<1>4. PICK op, ret : /\ Moves(c, op, cl[c].i, cl[c].file, ret)
                     /\ \/ op = "init" /\ cl[c].op = "mbr" /\ ret = cl[c].ret
                        \/ op \in {"close", "exit"} /\ ret \in {cl[c].ret, "failed"}
  BY <1>1, <1>3, MovesTo DEF Ops
<1>5. QED
  BY <1>2, <1>4, LeavesKeeps

(* So does one that closes its socket or is killed. *)
LEMMA EndKeeps ==
  ASSUME Inv, NEW c \in Clients, OnLink, slipped \subseteq slipped',
         \/ C!deinitialize_emmc_proxy_connection(c) /\ UNCHANGED faults
         \/ C!ClientKilled(c) /\ Fault
  PROVE  Inv'
<1>1. Types
  BY DEF Inv
<1>2. C!Link!CliClose(c) /\ C!Goto(c, "exit") /\ cl[c].op \notin {"connect", "exit"}
  BY DEF C!deinitialize_emmc_proxy_connection, C!ClientKilled, C!At
<1>3. Moves(c, "exit", cl[c].i, cl[c].file, cl[c].ret)
  BY <1>1, <1>2, MovesTo DEF Ops
<1>4. QED
  BY <1>2, <1>3, LeavesKeeps

(* A request is sent when nothing of an earlier one is left.               *)
LEMMA RequestKeeps ==
  ASSUME Inv, NEW c \in Clients, OnLink, UNCHANGED faults, slipped \subseteq slipped',
         C!send_request(c)
  PROVE  Inv'
<1>1. Types /\ ServerInv /\ Known(c) /\ link \in Conns(Words)
  BY DEF Inv, Types
<1>2. /\ cl[c].phase = "send"
      /\ cl[c].op \in {"ping", "mbr", "init", "cluster", "sector", "deinit"}
  BY <1>1, RunTypes DEF C!send_request
<1>3. CASE C!Fail(c)
  BY <1>2, <1>3, FailKeeps
<1>4. CASE /\ ~C!Link!CliError(c)
           /\ C!Link!CliSend(c, C!Request(c))
           /\ cl' = [cl EXCEPT ![c].phase =
                       IF cl[c].op \in {"mbr", "sector"} THEN "loop" ELSE "header"]
  <2>1. PICK q \in Requests : q = C!Request(c)
    BY <1>1, <1>2, ClientRequests, RunTypes
  <2>2. q \in Words /\ q # <<>>
    <3>1. SectorsPerCluster \in Int /\ READ_SECTOR[Mode] \in Int /\ READ_CLUSTER[Mode] \in Int
      <4>1. READ_SECTOR[Mode] \in {4, 8, 12} /\ READ_CLUSTER[Mode] \in {5, 9, 13}
        BY PartitionAssumption, CommandNumbers
      <4>2. QED
        BY <4>1, PlanSizes
    <3>2. PICK a, b, d, n \in Int : a = PING /\ b = DEINIT /\ d = INIT /\ n = SectorSize
      BY DEF PING, DEINIT, INIT, SectorSize
    <3>3. /\ <<a>> \in Seq(Int) /\ <<a>> # <<>> /\ <<b>> \in Seq(Int) /\ <<b>> # <<>>
          /\ <<d, n, SectorsPerCluster>> \in Seq(Int) /\ <<d, n, SectorsPerCluster>> # <<>>
          /\ \A k \in Int : /\ <<READ_SECTOR[Mode], k>> \in Seq(Int)
                            /\ <<READ_SECTOR[Mode], k>> # <<>>
                            /\ <<READ_CLUSTER[Mode], k>> \in Seq(Int)
                            /\ <<READ_CLUSTER[Mode], k>> # <<>>
      BY <3>1, Tuples
    <3>4. q \in {<<a>>, <<b>>, <<d, n, SectorsPerCluster>>}
              \cup {<<READ_SECTOR[Mode], k>> : k \in Nat}
              \cup {<<READ_CLUSTER[Mode], k>> : k \in Nat}
      BY <3>2 DEF Requests
    <3>5. \A k \in Nat : k \in Int
      OBVIOUS
    <3>6. QED
      BY <3>3, <3>4, <3>5 DEF Words
  <2>3. Alive(c)
    BY <1>1, <1>4, SameLink, RunTypes DEF Alive
  <2>4. /\ link' \in Conns(Words) /\ \A d \in Clients \ {c} : link'[d] = link[d]
        /\ link'[c].srv = link[c].srv /\ link'[c].cli = link[c].cli /\ link'[c].rst = link[c].rst
        /\ link'[c].s2c = link[c].s2c
        /\ link[c].c2s = <<>> => link'[c].c2s = q
        /\ link'[c].c2s = link[c].c2s \o q
        /\ link'[c].c2s # <<>>
    BY <1>1, <1>4, <2>1, <2>2, SameLink, CliSendWords
  <2>5. PICK phase \in {"header", "loop"} :
          phase = IF cl[c].op \in {"mbr", "sector"} THEN "loop" ELSE "header"
    OBVIOUS
  <2>6. /\ C!ClientType' /\ \A d \in Clients \ {c} : cl'[d] = cl[d]
        /\ cl'[c] = [cl[c] EXCEPT !.phase = phase]
    <3>1. PICK r : r = [cl[c] EXCEPT !.phase = phase]
      OBVIOUS
    <3>2. cl[c] \in Run
      BY <1>1 DEF Types, C!ClientType, Run, Ops
    <3>3. r \in Run /\ cl' = [cl EXCEPT ![c] = r]
      BY <1>4, <2>5, <3>1, <3>2 DEF Run
    <3>4. QED
      BY <1>1, <3>1, <3>3, OneRun
  <2>7. /\ cl'[c].phase = phase /\ cl'[c].op = cl[c].op /\ cl'[c].i = cl[c].i
        /\ cl'[c].header = cl[c].header /\ cl'[c].got = cl[c].got
        /\ cl'[c].file = cl[c].file /\ cl'[c].ret = cl[c].ret
    <3>1. cl[c] \in Run
      BY <1>1 DEF Types, C!ClientType, Run, Ops
    <3>2. QED
      BY <2>6, <3>1 DEF Run
  <2>8. Dumping(c) => cl[c].header = <<>> /\ cl[c].got = <<>> /\ cl[c].ret = "none"
    BY <1>1, <1>2 DEF Dumping, Phases, Progress
  <2>9. Dumping(c) => /\ ~Serves(c, "handle") /\ ~Serves(c, "send") /\ link[c].s2c = <<>>
                      /\ link[c].srv = "backlog" \/ Serves(c, "recv") => link[c].c2s = <<>>
    BY <1>2, <2>3 DEF Dumping, Queue, Hand, Replies, Phases, Alive, Fresh
  <2>10. /\ UNCHANGED <<pc, cli_sock, badCopy, freeFailed, acquired, upool, cmd, out, after>>
         /\ \A place : Serves(c, place)' <=> Serves(c, place)
    BY DEF OnLink, Serves
  <2>11. C!Request(c)' = C!Request(c)
    BY <2>7 DEF C!Request
  <2>12. ASSUME Dumping(c)
         PROVE  Dumping(c)'
    <3> USE <2>12
    <3>1. Queue(c)'
      <4>1. Received(c)' = 0
        <5>1. Len(<<>>) = 0
          OBVIOUS
        <5>2. PICK z \in Nat : z = Len(<<>>) /\ z = 0
          BY <5>1
        <5>3. Received(c)' = z + z + z
          BY <2>4, <2>7, <2>8, <2>9, <5>2 DEF Received
        <5>4. QED
          BY <5>2, <5>3
      <4>2. QED
        BY <2>1, <2>4, <2>5, <2>7, <2>9, <2>10, <2>11, <4>1 DEF Queue, Fresh
    <3>2. Hand(c)' /\ Replies(c)'
      BY <2>9, <2>10 DEF Hand, Replies
    <3>3. Ends(c)'
      BY <1>2, <2>3, <2>4, <2>7, <2>8, <2>9 DEF Ends, Dumping, Alive
    <3>4. Phases(c)'
      BY <1>2, <2>3, <2>4, <2>5, <2>7, <2>8 DEF Phases, Alive
    <3>5. Progress(c)' /\ Content(c)'
      <4>1. Recorded
        BY <2>10 DEF Recorded
      <4>2. Progress(c)'
        BY <2>7 DEF Progress, Dumping
      <4>3. Content(c)'
        BY <2>7, <2>10 DEF Content, RightWord, LastZero, Dumping
      <4>4. QED
        BY <4>2, <4>3
    <3>6. Unpooled(c)'
      BY <1>1, <2>4, <2>7, <2>10 DEF Unpooled, Past, Alive, Closing, Dumping
    <3>9. Stuck(c)'
      BY <2>4, <2>7, <2>10 DEF Stuck, Cheated, RightWord, Over, Dumping
    <3>7. Answer(c)'
      <4>1. PICK n \in Nat \ {0, 1, 2} : n = ResponseLen(cl[c].op)
        <5>1. PICK s \in Nat \ {0} : s = SectorsPerCluster
          BY PlanSizes
        <5>2. ResponseLen(cl[c].op) \in {4, 3, 3 + s}
          BY <5>1 DEF ResponseLen, BaseLen
        <5>3. 4 \in Nat \ {0, 1, 2} /\ 3 \in Nat \ {0, 1, 2} /\ 3 + s \in Nat \ {0, 1, 2}
          BY <5>1
        <5>4. QED
          BY <5>2, <5>3
      <4>2. PICK R \in Seq(Int) :
              /\ Len(R) = n
              /\ \A k \in 1 .. n : R[k] = -1
        <5>1. PICK R : R = [k \in 1 .. n |-> -1]
          OBVIOUS
        <5>2. R \in [1 .. n -> Int]
          BY <5>1
        <5>3. R \in Seq(Int) /\ Len(R) = n
          BY <4>1, <5>2
        <5>4. QED
          BY <5>1, <5>3
      <4>3. R[3] # 0
        <5>1. 3 \in 1 .. n /\ -1 # 0
          BY <4>1
        <5>2. QED
          BY <4>2, <5>1
      <4>4. Response(c, R)'
        BY <2>7, <4>1, <4>2, <4>3 DEF Response
      <4>5. Matches(<<>>, R, 0) /\ Len(<<>>) = 0 /\ 0 + 0 = 0
        BY <4>1, <4>2, MatchesNone
      <4>6. Parts(c, R)'
        <5>1. Received(c)' = 0
          <6>1. PICK z \in Nat : z = Len(<<>>) /\ z = 0
            OBVIOUS
          <6>2. Received(c)' = z + z + z
            BY <2>4, <2>7, <2>8, <2>9, <6>1 DEF Received
          <6>3. QED
            BY <6>1, <6>2
        <5>2. /\ cl'[c].header = <<>> /\ cl'[c].got = <<>> /\ link'[c].s2c = <<>>
              /\ ~Serves(c, "send")'
          BY <2>4, <2>7, <2>8, <2>9, <2>10
        <5>3. QED
          BY <4>5, <5>1, <5>2 DEF Parts
      <4>7. Told(c, R)'
        BY <4>3 DEF Told
      <4>8. QED
        BY <4>4, <4>6, <4>7 DEF Answer
    <3>8. QED
      BY <3>1, <3>2, <3>3, <3>4, <3>5, <3>6, <3>7, <3>9 DEF Dumping
  <2>15. ASSUME Off(c)
         PROVE  Off(c)'
    <3>1. cl[c].op \in {"cluster", "sector", "deinit"} /\ link[c].cli
      BY <1>2, <2>15 DEF Off
    <3>2. PICK less \in BOOLEAN : less = Going(c)'
      <4>1. Going(c)' \in BOOLEAN
        BY DEF Going
      <4>2. QED
        BY <4>1
    <3>3. Going(c)
      BY <1>2, <3>1 DEF Going
    <3>4. \/ Len(q) = 2 /\ q[1] \in Reads /\ q[2] \in Nat
          \/ Len(q) = 1 /\ q[1] = DEINIT /\ ~less
      <4>1. CASE cl[c].op = "cluster"
        <5>1. PICK n \in Nat : q = <<READ_CLUSTER[Mode], n>>
          BY <1>1, <1>2, <2>1, <4>1, ClientRequests, RunTypes
        <5>2. QED
          BY <5>1 DEF Reads
      <4>2. CASE cl[c].op = "sector"
        <5>1. PICK n \in Nat : q = <<READ_SECTOR[Mode], n>>
          BY <1>1, <1>2, <2>1, <4>2, ClientRequests, RunTypes
        <5>2. QED
          BY <5>1 DEF Reads
      <4>3. CASE cl[c].op = "deinit"
        <5>1. q = <<DEINIT>>
          BY <1>1, <1>2, <2>1, <4>3, ClientRequests, RunTypes
        <5>2. ~less
          BY <2>5, <2>7, <3>2, <4>3 DEF Going
        <5>3. QED
          BY <5>1, <5>2
      <4>4. QED
        BY <3>1, <4>1, <4>2, <4>3
    <3>5. PICK p \in Words : p = link[c].c2s
      BY <1>1, RunTypes
    <3>6. ASSUME NEW o \in {0, 1}, o = 1 => p # <<>>, Asked(p, o, TRUE)
          PROVE  Asked(link'[c].c2s, o, Going(c)')
      <4>1. Asked(p \o q, o, less)
        BY <2>2, <3>4, <3>6, AskedMore
      <4>2. QED
        BY <2>4, <3>2, <3>5, <4>1
    <3>7. Serves(c, "recv") \/ (Serves(c, "send") /\ after = "recv") => Asked(p, 0, TRUE)
      BY <2>15, <3>3, <3>5 DEF Off, Waiting
    <3>8. Serves(c, "handle") => cmd \in Reads /\ p # <<>> /\ Asked(p, 1, TRUE)
      BY <2>3, <2>15, <3>3, <3>5 DEF Off, Waiting
    <3>9. Waiting(c)'
      <4>1. Serves(c, "recv")' \/ (Serves(c, "send")' /\ after' = "recv") =>
              Asked(link'[c].c2s, 0, Going(c)')
        <5>1. Asked(p, 0, TRUE) => Asked(link'[c].c2s, 0, Going(c)')
          BY <3>6
        <5>2. QED
          BY <2>10, <3>7, <5>1
      <4>2. Serves(c, "handle")' =>
              cmd' \in Reads /\ link'[c].c2s # <<>> /\ Asked(link'[c].c2s, 1, Going(c)')
        BY <2>4, <2>10, <3>6, <3>8
      <4>3. QED
        BY <4>1, <4>2 DEF Waiting, Reads
    <3>10. cl'[c].phase = "loop" => cl'[c].op \in {"cluster", "sector"}
      BY <2>5, <2>7, <3>1
    <3>11. link'[c].rst => link'[c].c2s = <<>> /\ link'[c].s2c = <<>>
      BY <2>3, <2>4 DEF Alive
    <3>12. QED
      BY <2>4, <2>7, <2>10, <2>15, <3>1, <3>9, <3>10, <3>11 DEF Off
  <2>13. Keeps(c) => Keeps(c)'
    BY <1>2, <2>4, <2>7, <2>10 DEF Keeps, Closing, Past
  <2>14. QED
    BY <1>1, <2>4, <2>6, <2>12, <2>13, <2>15, ClientKeeps DEF Known
<1>5. QED
  BY <1>3, <1>4 DEF C!send_request

(* What has arrived is taken into the run's variables. *)
LEMMA Shifted ==
  ASSUME Inv, NEW c \in Clients, Dumping(c), OnLink, Alive(c),
         cl[c].op \in {"mbr", "cluster", "sector"}, cl[c].phase # "send",
         cl'[c].phase # "send", cl'[c].op = cl[c].op, cl'[c].i = cl[c].i,
         cl'[c].file = cl[c].file, cl'[c].ret = cl[c].ret,
         link'[c].cli = link[c].cli, link'[c].srv = link[c].srv, link'[c].rst = link[c].rst,
         link'[c].c2s = link[c].c2s, link[c].s2c = <<>> => link'[c].s2c = <<>>,
         cl[c].op = "sector" => link[c].s2c # <<>>,
         Received(c)' = Received(c), Phases(c)',
         \A R \in Seq(Int) : Parts(c, R) =>
             /\ Matches(cl'[c].header, R, 0)
             /\ Matches(cl'[c].got, R, Len(cl'[c].header))
             /\ Matches(link'[c].s2c, R, Len(cl'[c].header) + Len(cl'[c].got))
  PROVE  Dumping(c)'
<1>1. Types /\ Dumping(c)
  BY DEF Inv
<1>2. /\ UNCHANGED <<pc, cli_sock, badCopy, freeFailed, acquired, upool, cmd, out, after>>
      /\ \A place : Serves(c, place)' <=> Serves(c, place)
  BY DEF OnLink, Serves
<1>3. C!Request(c)' = C!Request(c) /\ (Fresh(c)' <=> Fresh(c)) /\ (Alive(c)' <=> Alive(c))
  BY DEF C!Request, Fresh, Alive
<1>4. Queue(c)' /\ Hand(c)'
  BY <1>1, <1>2, <1>3 DEF Dumping, Queue, Hand
<1>5. Replies(c)'
  BY <1>1, <1>2, <1>3 DEF Dumping, Replies
<1>6. Ends(c)'
  BY <1>1, <1>2 DEF Dumping, Ends, Alive
<1>7. Progress(c)' /\ Content(c)'
  BY <1>1, <1>2 DEF Dumping, Progress, Content, RightWord, LastZero
<1>8. Unpooled(c)'
  BY <1>1, <1>2, <1>3 DEF Dumping, Unpooled, Past, Closing
<1>9. Answer(c)'
  <2>1. PICK R \in Seq(Int) : Response(c, R) /\ Parts(c, R) /\ Told(c, R)
    BY <1>1 DEF Dumping, Answer
  <2>2. Response(c, R)'
    BY <1>2, <2>1 DEF Response, TailWord
  <2>3. Parts(c, R)'
    BY <1>2, <2>1 DEF Parts, Over
  <2>4. Told(c, R)'
    BY <1>2, <2>1 DEF Told, TailWord, Ending, Over
  <2>5. QED
    BY <2>2, <2>3, <2>4 DEF Answer
<1>10. Stuck(c)'
  BY <1>1 DEF Dumping, Stuck, Cheated, RightWord
<1>11. QED
  BY <1>4, <1>5, <1>6, <1>7, <1>8, <1>9, <1>10 DEF Dumping

(* The lengths of the receive loops. *)
LEMMA LoopLengths ==
  /\ C!LoopLen("cluster") = SectorsPerCluster
  /\ C!LoopLen("mbr") = BaseLen + 1 /\ C!LoopLen("sector") = BaseLen + 1
<1>1. C!SectorSize = 1 /\ C!SectorResponseLen = 3 + 1 /\ BaseLen = 3
  BY DEF C!SectorSize, C!SectorResponseLen, C!BaseLen, BaseLen
<1>2. 1 * SectorsPerCluster = SectorsPerCluster
  BY PlanSizes
<1>3. QED
  BY <1>1, <1>2 DEF C!LoopLen

(* A receive in a loop. *)
LEMMA LoopKeeps ==
  ASSUME Inv, NEW c \in Clients, OnLink, UNCHANGED faults, slipped \subseteq slipped',
         C!receive_loop(c)
  PROVE  Inv'
<1>1. Types /\ ServerInv /\ Known(c) /\ link \in Conns(Words)
  BY DEF Inv, Types
<1>2. cl[c].phase = "loop" /\ cl[c].op \in {"mbr", "sector", "cluster"}
  BY <1>1 DEF C!receive_loop, Known, Off, Dumping, Phases
<1>3. CASE C!Fail(c)
  BY <1>2, <1>3, FailKeeps
<1>4. ASSUME NEW w \in C!Link!Received(link[c].s2c, C!LoopLen(cl[c].op) - Len(cl[c].got)),
             ~C!Link!CliError(c), C!Link!CliTake(c, Len(w)),
             cl' = [cl EXCEPT ![c].got = @ \o w]
      PROVE  Inv'
  <2>1. PICK h, g, s \in Seq(Int) : h = cl[c].header /\ g = cl[c].got /\ s = link[c].s2c
    BY <1>1, RunTypes DEF Words
  <2>2. PICK a, b, l \in Nat : a = Len(h) /\ b = Len(g) /\ l = Len(s)
    BY <2>1, LenProperties
  <2>3. PICK n \in Nat : n = C!LoopLen(cl[c].op) - Len(cl[c].got)
    <3>1. PICK m \in Nat : m = C!LoopLen(cl[c].op)
      BY <1>2, LoopLengths, PlanSizes DEF BaseLen
    <3>2. b < m
      BY <2>1, <2>2, <3>1 DEF C!receive_loop
    <3>3. m - b \in Nat
      BY <3>1, <3>2
    <3>4. QED
      BY <2>1, <2>2, <3>1, <3>3
  <2>4. PICK k \in 1 .. l : w = SubSeq(s, 1, k) /\ Len(w) = k /\ w \in Seq(Int)
    BY <1>4, <2>1, <2>2, <2>3, ReceivedWords
  <2>5. Alive(c)
    BY <1>1, <1>4, SameLink, RunTypes DEF Alive
  <2>6. /\ link' \in Conns(Words) /\ \A d \in Clients \ {c} : link'[d] = link[d]
        /\ link'[c].srv = link[c].srv /\ link'[c].cli = link[c].cli /\ link'[c].rst = link[c].rst
        /\ link'[c].c2s = link[c].c2s
        /\ link'[c].s2c = SubSeq(s, k + 1, l)
    <3>1. k \in Nat /\ k <= l
      BY <2>2
    <3>2. Link!CliTake(c, k)
      BY <1>4, <2>4, SameLink
    <3>3. QED
      BY <1>1, <2>1, <2>2, <3>1, <3>2, CliTakeWords
  <2>7. PICK r \in Seq(Int) : r = SubSeq(s, k + 1, l) /\ Len(r) = l - k
    <3>1. k \in Nat /\ k <= Len(s)
      BY <2>2
    <3>2. /\ SubSeq(s, k + 1, Len(s)) \in Seq(Int)
          /\ Len(SubSeq(s, k + 1, Len(s))) = Len(s) - k
      BY <3>1, RestProperties
    <3>3. QED
      BY <2>2, <3>2
  <2>8. PICK t \in Seq(Int) : t = g \o w /\ Len(t) = b + k
    <3>1. g \o w \in Seq(Int) /\ Len(g \o w) = Len(g) + Len(w)
      BY <2>1, <2>4, ConcatProperties
    <3>2. QED
      BY <2>2, <2>4, <3>1
  <2>9. /\ C!ClientType' /\ \A d \in Clients \ {c} : cl'[d] = cl[d]
        /\ cl'[c] = [cl[c] EXCEPT !.got = t]
    <3>1. PICK u : u = [cl[c] EXCEPT !.got = t]
      OBVIOUS
    <3>2. cl[c] \in Run
      BY <1>1 DEF Types, C!ClientType, Run, Ops
    <3>3. u \in Run /\ cl' = [cl EXCEPT ![c] = u]
      BY <1>4, <2>1, <2>8, <3>1, <3>2 DEF Run
    <3>4. QED
      BY <1>1, <3>1, <3>3, OneRun
  <2>10. /\ cl'[c].got = t /\ cl'[c].phase = "loop" /\ cl'[c].op = cl[c].op
         /\ cl'[c].i = cl[c].i /\ cl'[c].header = h
         /\ cl'[c].file = cl[c].file /\ cl'[c].ret = cl[c].ret
    <3>1. cl[c] \in Run
      BY <1>1 DEF Types, C!ClientType, Run, Ops
    <3>2. QED
      BY <1>2, <2>1, <2>9, <3>1 DEF Run
  <2>11. Received(c)' = Received(c)
    <3>1. a + (b + k) + (l - k) = a + b + l
      OBVIOUS
    <3>2. QED
      BY <2>1, <2>2, <2>6, <2>7, <2>8, <2>10, <3>1 DEF Received
  <2>12. s # <<>>
    <3>1. Len(<<>>) = 0 /\ l # 0
      BY <2>2
    <3>2. QED
      BY <2>2, <3>1
  <2>13. Dumping(c) => Phases(c)'
    BY <1>2, <2>1, <2>5, <2>6, <2>10, <2>12 DEF Dumping, Phases, Alive
  <2>14. ASSUME NEW R \in Seq(Int), Parts(c, R)
         PROVE  /\ Matches(cl'[c].header, R, 0)
                /\ Matches(cl'[c].got, R, Len(cl'[c].header))
                /\ Matches(link'[c].s2c, R, Len(cl'[c].header) + Len(cl'[c].got))
    <3>1. Matches(h, R, 0) /\ Matches(g, R, a) /\ Matches(s, R, a + b)
      BY <2>1, <2>2, <2>14 DEF Parts
    <3>2. /\ k \in 0 .. Len(s) /\ a + b \in Nat /\ a + Len(g) = a + b
          /\ a + b + k = a + (b + k)
      <4>1. k \in 0 .. l /\ a + b \in Nat /\ a + b + k = a + (b + k)
        OBVIOUS
      <4>2. QED
        BY <2>2, <4>1
    <3>3. Matches(w, R, a + b) /\ Matches(r, R, a + b + k)
      BY <2>2, <2>4, <2>7, <3>1, <3>2, MatchesSplit
    <3>4. Matches(t, R, a)
      BY <2>4, <2>8, <3>1, <3>2, <3>3, MatchesJoin
    <3>5. QED
      BY <2>1, <2>2, <2>6, <2>7, <2>8, <2>10, <3>1, <3>2, <3>3, <3>4
  <2>15. Dumping(c) => Dumping(c)'
    <3>1. cl[c].op \in {"mbr", "cluster", "sector"} /\ cl[c].phase # "send" /\ cl'[c].phase # "send"
      BY <1>2, <2>10
    <3>2. link[c].s2c = <<>> => link'[c].s2c = <<>>
      BY <2>1, <2>12
    <3>3. cl[c].op = "sector" => link[c].s2c # <<>>
      BY <2>1, <2>12
    <3>4. QED
      BY <2>5, <2>6, <2>10, <2>11, <2>13, <2>14, <3>1, <3>2, <3>3, Shifted
  <2>16. ASSUME Off(c)
         PROVE  Off(c)'
    <3>1. UNCHANGED <<pc, cli_sock, cmd, after, out>>
      BY DEF OnLink
    <3>2. (Going(c)' => Going(c)) /\ (Alive(c)' => Alive(c))
      BY <2>6, <2>10 DEF Going, Alive
    <3>3. Waiting(c)'
      BY <1>1, <2>6, <2>16, <3>1, <3>2, WaitingKept DEF Off
    <3>4. ~link'[c].rst /\ cl[c].op \in {"cluster", "sector"}
      BY <1>2, <2>5, <2>6, <2>16 DEF Alive, Off
    <3>5. QED
      BY <2>6, <2>10, <2>16, <3>1, <3>3, <3>4 DEF Off, Serves
  <2>17. Keeps(c) => Keeps(c)'
    BY <1>2, <2>6, <2>10 DEF Keeps, Closing, Past, OnLink
  <2>18. QED
    BY <1>1, <2>6, <2>9, <2>15, <2>16, <2>17, ClientKeeps DEF Known
<1>5. QED
  BY <1>3, <1>4 DEF C!receive_loop

(* What the receive of a header returns: all of it, or a part of it if     *)
(* receives may be short, or nothing at the end of the stream.             *)
LEMMA HeaderWords ==
  ASSUME Types, NEW c \in Clients, Alive(c), NEW w \in C!HeaderReceived(c)
  PROVE  /\ w \in Seq(Int) /\ Len(w) \in 0 .. Len(link[c].s2c)
         /\ w = SubSeq(link[c].s2c, 1, Len(w))
         /\ \/ w = <<>> /\ link[c].s2c = <<>> /\ link[c].srv = "closed"
            \/ Len(w) = IF cl[c].op = "ping" THEN BaseLen + 1 ELSE BaseLen
            \/ ShortRecv /\ Len(w) \in 1 .. IF cl[c].op = "ping" THEN BaseLen + 1 ELSE BaseLen
<1>1. PICK s \in Seq(Int) : s = link[c].s2c
  BY RunTypes DEF Words
<1>2. PICK n \in Nat : n = C!HeaderLen(cl[c].op)
                       /\ n = IF cl[c].op = "ping" THEN BaseLen + 1 ELSE BaseLen
  BY DEF C!HeaderLen, C!BaseLen, BaseLen
<1>3. CASE C!Link!CliAtEnd(c)
  <2>1. w = <<>> /\ s = <<>> /\ link[c].srv = "closed"
    BY <1>1, <1>3, SameLink DEF C!HeaderReceived
  <2>2. <<>> \in Seq(Int) /\ Len(<<>>) = 0
    BY EmptySeq
  <2>3. 0 \in 0 .. Len(s)
    BY <1>1, LenProperties
  <2>4. SubSeq(s, 1, 0) = <<>>
    BY <2>3, FirstWords
  <2>5. QED
    BY <1>1, <2>1, <2>2, <2>3, <2>4
<1>4. CASE ~C!Link!CliAtEnd(c)
  <2>1. w \in C!Link!Received(s, n) /\ (~ShortRecv => Len(w) = n)
    BY <1>1, <1>2, <1>4 DEF C!HeaderReceived
  <2>2. PICK k \in 1 .. Len(s) : k <= n /\ w = SubSeq(s, 1, k) /\ Len(w) = k /\ w \in Seq(Int)
    <3>1. w \in C!Link!Received(s, n)
      BY <2>1
    <3>2. QED
      BY <3>1, ReceivedWords
  <2>3. k \in 0 .. Len(s)
    OBVIOUS
  <2>4. Len(w) \in 1 .. n
    BY <2>2
  <2>5. QED
    BY <1>1, <1>2, <2>1, <2>2, <2>3, <2>4
<1>5. QED
  BY <1>3, <1>4

(* The server has at most to send the rest of its answer to the request    *)
(* that c was at.                                                          *)
Idle(c) ==
    /\ ~Serves(c, "handle") /\ link[c].srv # "backlog"
    /\ Serves(c, "recv") => link[c].c2s = <<>>

(* So it is when a part of the answer has arrived; there is no rest when   *)
(* all of it has arrived, or can no longer arrive.                         *)
LEMMA AnswerArrived ==
  ASSUME Inv, NEW c \in Clients, Dumping(c), Alive(c), cl[c].phase # "send"
  PROVE  /\ Received(c) <= ResponseLen(cl[c].op)
         /\ Received(c) # 0 => Received(c) >= BaseLen
         /\ link[c].srv = "closed" \/ Received(c) # 0 => Idle(c)
         /\ link[c].srv = "closed" \/ Received(c) = ResponseLen(cl[c].op)
              => Idle(c) /\ ~Serves(c, "send")
<1>1. Types /\ ServerInv /\ Dumping(c)
  BY DEF Inv
<1>2. PICK a, b, l \in Nat : a = Len(cl[c].header) /\ b = Len(cl[c].got) /\ l = Len(link[c].s2c)
  BY <1>1, RunTypes
<1>3. PICK n \in Nat : n = Received(c) /\ n = a + b + l
  <2>1. Received(c) = a + b + l
    BY <1>2 DEF Received
  <2>2. a + b + l \in Nat
    OBVIOUS
  <2>3. QED
    BY <2>1, <2>2
<1>4. PICK R \in Seq(Int) : Response(c, R) /\ Parts(c, R)
  BY <1>1 DEF Dumping, Answer
<1>5. PICK m, j \in Nat : m = Len(R) /\ j = ResponseLen(cl[c].op) /\ m <= j /\ j # 0
  <2>1. PICK s \in Nat \ {0} : s = SectorsPerCluster
    BY PlanSizes
  <2>2. ResponseLen(cl[c].op) \in {4, 3, 3 + s}
    BY <2>1 DEF ResponseLen, BaseLen
  <2>3. cl[c].op = "cluster" => ResponseLen(cl[c].op) = 3 + s
    BY <2>1 DEF ResponseLen, BaseLen
  <2>4. Len(R) = ResponseLen(cl[c].op) \/ (cl[c].op = "cluster" /\ Len(R) = 3)
    BY <1>4 DEF Response, BaseLen
  <2>5. PICK m, j \in Nat : m = Len(R) /\ j = ResponseLen(cl[c].op) /\ j # 0
    BY <2>1, <2>2, LenProperties
  <2>6. m <= j
    <3>1. m = j \/ (m = 3 /\ j = 3 + s)
      BY <2>3, <2>4, <2>5
    <3>2. QED
      BY <2>1, <3>1
  <2>7. QED
    BY <2>5, <2>6
<1>6. n <= m /\ (n # 0 => n >= BaseLen)
  BY <1>2, <1>3, <1>4, <1>5 DEF Parts, Matches, Alive
<1>7. CASE link[c].srv = "closed"
  <2>1. ~(cli_sock = c /\ pc \in Session)
    BY <1>1, <1>7 DEF ServerInv, Sockets
  <2>2. Idle(c) /\ ~Serves(c, "send")
    BY <1>7, <2>1 DEF Idle, Serves, Session
  <2>3. QED
    BY <1>3, <1>5, <1>6, <2>2
<1>8. CASE n # 0
  <2>2. ~Fresh(c)
    BY <1>3, <1>8 DEF Fresh
  <2>3. ~Serves(c, "handle")
    BY <1>1, <2>2 DEF Dumping, Hand
  <2>4. ASSUME n = m
        PROVE  ~Serves(c, "send")
    <3>1. SUFFICES ASSUME Pieces(out, R, n)
                   PROVE  FALSE
      BY <1>3, <1>4 DEF Parts, Alive
    <3>2. PICK o \in Seq(Seq(Int)) : o = out /\ o # <<>> /\ o[1] # <<>>
      BY <1>1, <3>1 DEF Types, Pieces
    <3>3. PICK e \in Nat \ {0} : e = Len(o)
      BY <3>2, EmptySeq
    <3>4. o[1] \in Seq(Int)
      BY <3>3, ElementOfSeq
    <3>5. PICK k \in Nat \ {0} : k = Len(o[1])
      BY <3>2, <3>4, EmptySeq
    <3>6. n + k + e - 1 = m
      BY <1>5, <3>1, <3>2, <3>3, <3>5 DEF Pieces
    <3>7. QED
      BY <2>4, <3>6
  <2>5. link[c].srv # "backlog"
    <3>1. SUFFICES ASSUME link[c].srv = "backlog"
                   PROVE  FALSE
      OBVIOUS
    <3>2. cl[c].op = "ping" /\ link[c].s2c = <<>>
      BY <1>1, <3>1 DEF Dumping, Ends, Alive
    <3>3. cl[c].phase \in {"header", "loop"}
      BY <1>1, RunTypes
    <3>4. cl[c].header = <<>> /\ cl[c].got = <<>>
      BY <1>1, <3>2, <3>3 DEF Dumping, Phases
    <3>5. Len(<<>>) = 0
      OBVIOUS
    <3>6. n = 0
      BY <1>2, <1>3, <3>2, <3>4, <3>5
    <3>7. QED
      BY <1>8, <3>6
  <2>6. Serves(c, "recv") => link[c].c2s = <<>>
    BY <1>1, <2>2 DEF Dumping, Queue, Alive
  <2>7. Idle(c)
    BY <2>3, <2>5, <2>6 DEF Idle
  <2>8. n = j => n = m
    BY <1>5, <1>6
  <2>9. QED
    BY <1>3, <1>5, <1>6, <1>7, <2>4, <2>7, <2>8
<1>9. CASE link[c].srv # "closed" /\ n = 0
  BY <1>3, <1>5, <1>6, <1>9
<1>10. QED
  BY <1>7, <1>8, <1>9

(* The history says which clients have lost their place. *)
Slips(c) == slipped' = IF C!HeaderCut(c) THEN slipped \cup {c} ELSE slipped

(* A client that goes on with a part of a header is off from then on.      *)
LEMMA SlipsAway ==
  ASSUME ShortRecv, Inv, NEW c \in Clients, Dumping(c), OnLink, Slips(c), Alive(c), Idle(c),
         cl[c].phase = "header", cl'[c].op \in {"cluster", "sector", "deinit"},
         cl'[c].phase = "loop" => cl'[c].op \in {"cluster", "sector"},
         link'[c].cli = link[c].cli, link'[c].srv = link[c].srv, link'[c].rst = link[c].rst,
         link'[c].c2s = link[c].c2s,
         Len(link[c].s2c) - Len(link'[c].s2c) \in 1 .. BaseLen - 1
  PROVE  Off(c)'
<1>1. c \in slipped'
  <2>1. C!BaseLen = BaseLen
    BY DEF C!BaseLen, BaseLen
  <2>2. C!HeaderCut(c)
    BY <2>1 DEF C!HeaderCut
  <2>3. QED
    BY <2>2 DEF Slips
<1>2. UNCHANGED <<pc, cli_sock, cmd, after, out>>
  BY DEF OnLink
<1>3. link[c].cli /\ ~link[c].rst /\ link[c].srv \in {"open", "closed"}
  <2>1. link[c].srv \in {"none", "backlog", "open", "closed"}
    BY RunTypes DEF Inv
  <2>2. QED
    BY <2>1 DEF Dumping, Ends, Alive, Idle
<1>4. Serves(c, "send") => out # <<>>
  BY DEF Dumping, Replies
<1>5. Waiting(c)'
  <2>1. ~Serves(c, "handle")'
    BY <1>2 DEF Idle, Serves
  <2>2. Serves(c, "recv")' \/ (Serves(c, "send")' /\ after' = "recv") => link'[c].c2s = <<>>
    BY <1>2 DEF Idle, Serves, Dumping, Replies
  <2>3. QED
    BY <2>1, <2>2, NothingAsked DEF Waiting
<1>6. QED
  BY <1>1, <1>2, <1>3, <1>4, <1>5 DEF Off, Serves

(* A client that is off goes on to other requests, or to the end.          *)
LEMMA OffMoves ==
  ASSUME Inv, NEW c \in Clients, Off(c), OnLink, UNCHANGED faults, slipped \subseteq slipped',
         link' \in Conns(Words), \A d \in Clients \ {c} : link'[d] = link[d],
         link'[c].cli = link[c].cli, link'[c].srv = link[c].srv, link'[c].rst = link[c].rst,
         link'[c].c2s = link[c].c2s, link[c].rst => link'[c].s2c = link[c].s2c,
         NEW op, NEW i, NEW file, NEW ret, Moves(c, op, i, file, ret),
         \/ op = "close"
         \/ op \in {"cluster", "sector", "deinit"} /\ cl[c].op \in {"cluster", "sector"}
  PROVE  Inv'
<1>1. Types
  BY DEF Inv
<1>2. UNCHANGED <<pc, cli_sock, cmd, after, out>>
  BY DEF OnLink
<1>3. cl'[c].op = op /\ cl'[c].phase = "send"
  BY DEF Moves
<1>4. (Going(c)' => Going(c)) /\ (Alive(c)' => Alive(c))
  BY <1>3 DEF Going, Alive
<1>5. Waiting(c)'
  BY <1>1, <1>2, <1>4, WaitingKept DEF Off
<1>6. Off(c)'
  BY <1>2, <1>3, <1>5 DEF Off, Serves
<1>7. ShortRecv /\ (link'[c].srv = "open" <=> link[c].srv = "open")
  BY DEF Off
<1>8. QED
  BY <1>6, <1>7, ClientKeeps DEF Moves, Known

(* The header of a cluster. *)
LEMMA ClusterHeaderKeeps ==
  ASSUME Inv, NEW c \in Clients, OnLink, UNCHANGED faults, Slips(c), Alive(c),
         C!At(c, "cluster", "header"), NEW w \in C!HeaderReceived(c), C!ClusterHeader(c, w)
  PROVE  Inv'
<1>1. Types /\ ServerInv /\ Known(c) /\ link \in Conns(Words)
  BY DEF Inv, Types
<1>2. cl[c].phase = "header" /\ cl[c].op = "cluster"
  BY DEF C!At
<1>3. Dumping(c) => cl[c].header = <<>> /\ cl[c].got = <<>>
  BY <1>1, <1>2 DEF Dumping, Phases
<1>4. PICK s \in Seq(Int) : s = link[c].s2c
  BY <1>1, RunTypes DEF Words
<1>5. PICK l \in Nat : l = Len(s)
  BY LenProperties
<1>6. PICK k \in 0 .. l :
        /\ k = Len(w) /\ w \in Seq(Int) /\ w = SubSeq(s, 1, k)
        /\ \/ w = <<>> /\ s = <<>> /\ link[c].srv = "closed"
           \/ Len(w) = BaseLen
           \/ ShortRecv /\ Len(w) \in 1 .. BaseLen
  BY <1>1, <1>2, <1>4, <1>5, HeaderWords
<1>7. k \in Nat /\ k <= l
  BY <1>5
<1>8. PICK r \in Seq(Int) : r = SubSeq(s, k + 1, l) /\ Len(r) = l - k
  <2>1. /\ SubSeq(s, k + 1, Len(s)) \in Seq(Int)
        /\ Len(SubSeq(s, k + 1, Len(s))) = Len(s) - k
    BY <1>5, <1>7, RestProperties
  <2>2. QED
    BY <1>5, <2>1
<1>9. /\ link' \in Conns(Words) /\ \A d \in Clients \ {c} : link'[d] = link[d]
      /\ link'[c].srv = link[c].srv /\ link'[c].cli = link[c].cli /\ link'[c].rst = link[c].rst
      /\ link'[c].c2s = link[c].c2s /\ link'[c].s2c = r
  <2>1. Link!CliTake(c, k)
    BY <1>6, SameLink DEF C!ClusterHeader, C!Took
  <2>2. QED
    BY <1>1, <1>4, <1>5, <1>7, <1>8, <2>1, CliTakeWords
<1>10. /\ C!ClientType' /\ \A d \in Clients \ {c} : cl'[d] = cl[d]
       /\ cl'[c].header = w /\ cl'[c].phase = "loop" /\ cl'[c].op = cl[c].op
       /\ cl'[c].i = cl[c].i /\ cl'[c].got = cl[c].got
       /\ cl'[c].file = cl[c].file /\ cl'[c].ret = cl[c].ret
  <2>1. PICK u : u = [cl[c] EXCEPT !.header = w]
    OBVIOUS
  <2>2. PICK v : v = [u EXCEPT !.phase = "loop"]
    OBVIOUS
  <2>3. PICK g1 : g1 = [cl EXCEPT ![c].header = w]
    OBVIOUS
  <2>4. PICK g2 : g2 = [g1 EXCEPT ![c].phase = "loop"]
    OBVIOUS
  <2>5. cl' = g2
    BY <2>3, <2>4 DEF C!ClusterHeader
  <2>6. cl \in [Clients -> Run] /\ cl[c] \in Run
    BY <1>1 DEF Types, C!ClientType, Run, Ops
  <2>7. g1 = [cl EXCEPT ![c] = u]
    BY <2>1, <2>3
  <2>8. g2 = [cl EXCEPT ![c] = v]
    BY <2>2, <2>4, <2>6, <2>7, Updated
  <2>9. /\ v \in Run /\ v.header = w /\ v.phase = "loop" /\ v.op = cl[c].op /\ v.i = cl[c].i
        /\ v.got = cl[c].got /\ v.file = cl[c].file /\ v.ret = cl[c].ret
    BY <1>6, <2>1, <2>2, <2>6 DEF Run
  <2>10. C!ClientType' /\ cl'[c] = v /\ \A d \in Clients \ {c} : cl'[d] = cl[d]
    BY <1>1, <2>5, <2>8, <2>9, OneRun
  <2>11. QED
    BY <2>9, <2>10
<1>11. Dumping(c) => Received(c)' = Received(c) /\ Received(c) = l
  <2> SUFFICES ASSUME Dumping(c)
               PROVE  Received(c)' = Received(c) /\ Received(c) = l
    OBVIOUS
  <2>1. PICK z \in Nat : z = Len(<<>>) /\ z = 0
    OBVIOUS
  <2>2. k + z + (l - k) = z + z + l
    BY <2>1
  <2>3. Received(c) = z + z + l
    BY <1>3, <1>4, <1>5, <2>1 DEF Received
  <2>4. Received(c)' = k + z + (l - k)
    BY <1>3, <1>6, <1>8, <1>9, <1>10, <2>1 DEF Received
  <2>5. z + z + l = l
    BY <2>1
  <2>6. QED
    BY <2>2, <2>3, <2>4, <2>5
<1>12. s = <<>> => r = <<>>
  <2>1. ASSUME s = <<>>
        PROVE  r = <<>>
    <3>1. Len(<<>>) = 0
      OBVIOUS
    <3>2. l = 0
      BY <1>5, <2>1, <3>1
    <3>3. Len(r) = 0
      BY <1>7, <1>8, <3>2
    <3>4. QED
      BY <3>3, EmptySeq
  <2>2. QED
    BY <2>1
<1>13. Dumping(c) /\ (w = <<>> \/ k = BaseLen) => Phases(c)'
  <2>1. ASSUME Dumping(c), w = <<>>
        PROVE  Phases(c)'
    <3>1. Len(<<>>) = 0 /\ 0 \notin 1 .. BaseLen /\ BaseLen # 0
      BY DEF BaseLen
    <3>2. s = <<>> /\ link[c].srv = "closed"
      BY <1>6, <2>1, <3>1
    <3>3. /\ cl'[c].header = <<>> /\ cl'[c].got = <<>> /\ link'[c].s2c = <<>>
          /\ link'[c].srv = "closed" /\ link'[c].cli
      BY <1>3, <1>9, <1>10, <1>12, <2>1, <3>2 DEF Alive
    <3>4. QED
      BY <1>2, <1>10, <3>3 DEF Phases
  <2>2. ASSUME k = BaseLen
        PROVE  Phases(c)'
    <3>1. Len(cl'[c].header) = BaseLen /\ link'[c].cli
      BY <1>6, <1>9, <1>10, <2>2 DEF Alive
    <3>2. QED
      BY <1>2, <1>10, <3>1 DEF Phases
  <2>3. QED
    BY <2>1, <2>2
<1>14. ASSUME Dumping(c), NEW R \in Seq(Int), Parts(c, R)
       PROVE  /\ Matches(cl'[c].header, R, 0)
              /\ Matches(cl'[c].got, R, Len(cl'[c].header))
              /\ Matches(link'[c].s2c, R, Len(cl'[c].header) + Len(cl'[c].got))
  <2>1. PICK z \in Nat : z = Len(<<>>) /\ z = 0
    OBVIOUS
  <2>2. Matches(s, R, z + z)
    BY <1>3, <1>4, <1>14, <2>1 DEF Parts
  <2>3. z + z = 0 /\ 0 \in Nat /\ k \in 0 .. Len(s) /\ 0 + k = k /\ k + z = k
    BY <1>5, <1>7, <2>1
  <2>4. Matches(w, R, 0) /\ Matches(r, R, k)
    BY <1>5, <1>6, <1>8, <2>2, <2>3, MatchesSplit
  <2>5. k <= Len(R)
    <3>1. PICK m \in Nat : m = Len(R)
      BY LenProperties
    <3>2. 0 + k <= m
      BY <1>6, <2>4, <3>1 DEF Matches
    <3>3. QED
      BY <1>7, <3>1, <3>2
  <2>6. Matches(<<>>, R, k)
    BY <1>7, <2>5, MatchesNone
  <2>7. QED
    BY <1>3, <1>6, <1>9, <1>10, <1>14, <2>1, <2>3, <2>4, <2>6
<1>15. k \in {1, 2} \/ w = <<>> \/ k = BaseLen
  <2>1. 1 .. BaseLen = {1, 2, 3} /\ BaseLen = 3
    BY DEF BaseLen
  <2>2. QED
    BY <1>6, <2>1
<1>16. ASSUME Dumping(c)
       PROVE  Known(c)'
  <2>1. CASE w = <<>> \/ k = BaseLen
    <3>1. cl[c].op \in {"mbr", "cluster", "sector"} /\ cl[c].phase # "send" /\ cl'[c].phase # "send"
      BY <1>2, <1>10
    <3>2. link[c].s2c = <<>> => link'[c].s2c = <<>>
      BY <1>4, <1>9, <1>12
    <3>3. cl[c].op = "sector" => link[c].s2c # <<>>
      BY <1>2
    <3>4. Dumping(c)'
      BY <1>9, <1>10, <1>11, <1>13, <1>14, <1>16, <2>1, <3>1, <3>2, <3>3, Shifted
    <3>5. QED
      BY <3>4 DEF Known
  <2>2. CASE k \in {1, 2} /\ w # <<>> /\ k # BaseLen
    <3>1. ShortRecv
      BY <1>6, <2>2
    <3>2. Idle(c)
      <4>1. Received(c) # 0 /\ cl[c].phase # "send"
        BY <1>2, <1>5, <1>11, <1>16, <2>2
      <4>2. QED
        BY <1>16, <4>1, AnswerArrived
    <3>3. Len(link[c].s2c) - Len(link'[c].s2c) \in 1 .. BaseLen - 1
      <4>1. l - (l - k) = k /\ k \in 1 .. 3 - 1
        BY <1>5, <2>2
      <4>2. QED
        BY <1>4, <1>5, <1>8, <1>9, <4>1 DEF BaseLen
    <3>4. cl'[c].op \in {"cluster", "sector", "deinit"} /\ (cl'[c].phase = "loop" => cl'[c].op \in {"cluster", "sector"})
      BY <1>2, <1>10
    <3>5. Off(c)'
      BY <1>2, <1>9, <1>16, <3>1, <3>2, <3>3, <3>4, SlipsAway
    <3>6. QED
      BY <3>5 DEF Known
  <2>3. QED
    BY <1>15, <2>1, <2>2
<1>17. ASSUME Off(c)
       PROVE  Off(c)'
  <2>1. UNCHANGED <<pc, cli_sock, cmd, after, out>> /\ slipped \subseteq slipped'
    BY DEF OnLink, Slips
  <2>2. (Going(c)' => Going(c)) /\ (Alive(c)' => Alive(c))
    BY <1>9, <1>10 DEF Going, Alive
  <2>3. Waiting(c)'
    BY <1>1, <1>9, <1>17, <2>1, <2>2, WaitingKept DEF Off
  <2>4. ~link'[c].rst
    BY <1>9 DEF Alive
  <2>5. QED
    BY <1>2, <1>9, <1>10, <1>17, <2>1, <2>3, <2>4 DEF Off, Serves
<1>18. Keeps(c) => Keeps(c)'
  BY <1>2, <1>9, <1>10 DEF Keeps, Closing, Past, OnLink
<1>19. slipped \subseteq slipped'
  BY DEF Slips
<1>20. QED
  BY <1>1, <1>9, <1>10, <1>16, <1>17, <1>18, <1>19, ClientKeeps DEF Known

(* A client that goes on after an answer. *)
LEMMA NextKeeps ==
  ASSUME Inv, NEW c \in Clients, Dumping(c), OnLink, UNCHANGED faults, Alive(c),
         slipped \subseteq slipped',
         cl[c].phase # "send", Idle(c),
         link' \in Conns(Words), \A d \in Clients \ {c} : link'[d] = link[d],
         link'[c].cli = link[c].cli, link'[c].srv = link[c].srv, link'[c].rst = link[c].rst,
         link'[c].c2s = link[c].c2s,
         NEW op, NEW i, NEW file, NEW ret, Moves(c, op, i, file, ret), op # "connect",
         Progress(c)', Content(c)', Stuck(c)',
         op \in {"cluster", "sector", "deinit"} => cl[c].op \in {"init", "cluster", "sector"},
         cl[c].op \in {"init", "cluster", "sector"} => op \in {"cluster", "sector", "deinit"},
         op # "close" => link'[c].s2c = <<>> /\ ~Serves(c, "send"),
         ret = cl[c].ret \/ (cl[c].op = "deinit" /\ ~Serves(c, "send"))
  PROVE  Inv'
<1>1. Types /\ ServerInv /\ Dumping(c)
  BY DEF Inv
<1>2. /\ UNCHANGED <<pc, cli_sock, badCopy, freeFailed, acquired, upool, cmd, out, after>>
      /\ \A place : Serves(c, place)' <=> Serves(c, place)
  BY DEF OnLink, Serves
<1>3. /\ cl'[c].op = op /\ cl'[c].i = i /\ cl'[c].file = file /\ cl'[c].ret = ret
      /\ cl'[c].phase = "send" /\ cl'[c].header = <<>> /\ cl'[c].got = <<>>
  BY DEF Moves
<1>4. /\ link[c].cli /\ ~link[c].rst
      /\ \/ link[c].srv = "closed"
         \/ cli_sock = c /\ pc \in {"recv", "close"}
         \/ cli_sock = c /\ pc = "send" /\ op = "close"
  <2>1. link[c].srv \in {"none", "backlog", "open", "closed"}
    BY <1>1, RunTypes
  <2>2. link[c].srv # "none" /\ link[c].srv # "backlog"
    BY <1>1 DEF Dumping, Ends, Alive, Idle
  <2>3. link[c].srv = "open" => cli_sock = c /\ pc \in Session
    BY <1>1 DEF ServerInv, Sockets
  <2>4. QED
    BY <2>1, <2>2, <2>3 DEF Session, Idle, Serves, Alive
<1>5. link[c].srv = "open" <=> cli_sock = c /\ pc \in Session
  BY <1>1 DEF ServerInv, Sockets
<1>6. Queue(c)' /\ Hand(c)' /\ Replies(c)'
  BY <1>1, <1>2, <1>3 DEF Queue, Hand, Replies, Idle, Dumping
<1>7. Ends(c)'
  <2>1. cl'[c].ret = "ok" => link'[c].srv = "closed" \/ Serves(c, "close")'
                              \/ (link'[c].c2s = <<>> /\ ~Serves(c, "handle")')
    BY <1>1, <1>2, <1>3, <1>4 DEF Serves, Idle, Dumping, Ends
  <2>2. QED
    BY <1>1, <1>2, <1>3, <1>4, <2>1 DEF Ends, Dumping, Idle
<1>8. Phases(c)'
  BY <1>3 DEF Phases
<1>9. cl[c].op = "init" /\ cli_sock = c /\ pc = "recv" => Past(c)
  <2>1. cl[c].phase \in {"header", "loop"}
    BY <1>1, RunTypes
  <2>2. QED
    BY <1>1, <2>1 DEF Past, Idle, Serves, Dumping, Phases
<1>10. Unpooled(c)'
  <2>1. SUFFICES ASSUME link[c].srv = "open", ~Closing, op \in {"cluster", "sector", "deinit"},
                        c \notin acquired
                 PROVE  upool.init = 0
    BY <1>2, <1>3 DEF Unpooled, Past, Closing
  <2>2. cli_sock = c /\ pc = "recv"
    BY <1>4, <1>5, <2>1 DEF Closing, Serves
  <2>3. Past(c)
    BY <1>9, <2>1, <2>2 DEF Past
  <2>4. QED
    BY <1>1, <2>1, <2>3 DEF Dumping, Unpooled
<1>11. Answer(c)'
  BY <1>3 DEF Answer
<1>12. Dumping(c)'
  BY <1>6, <1>7, <1>8, <1>10, <1>11 DEF Dumping
<1>13. Keeps(c) => Keeps(c)'
  <2>1. SUFFICES ASSUME Keeps(c)
                 PROVE  Keeps(c)'
    OBVIOUS
  <2>2. link[c].srv = "open" /\ ~Closing
    BY <1>4, <2>1 DEF Keeps
  <2>3. pc \in {"recv", "send"} /\ link[c].c2s = <<>>
    <3>1. after \in {"recv", "close"} /\ Replies(c)
      BY <1>1 DEF ServerInv, Sockets, Dumping
    <3>2. cli_sock = c /\ pc \in {"recv", "send"}
      BY <1>4, <1>5, <2>2 DEF Closing
    <3>3. pc = "send" => link[c].c2s = <<>>
      BY <1>4, <2>2, <3>1, <3>2 DEF Closing, Serves, Replies
    <3>4. QED
      BY <3>2, <3>3 DEF Idle, Serves
  <2>4. cl[c].op \in {"init", "cluster", "sector"}
    BY <1>4, <2>1, <2>3 DEF Keeps
  <2>5. c \in acquired /\ cl[c].ret # "ok"
    BY <2>1 DEF Keeps
  <2>6. ret = cl[c].ret /\ op \in {"cluster", "sector", "deinit"}
    BY <2>4
  <2>7. QED
    BY <1>2, <1>3, <1>4, <2>2, <2>5, <2>6 DEF Keeps, Closing
<1>14. link'[c].srv = "open" <=> link[c].srv = "open"
  OBVIOUS
<1>15. QED
  BY <1>12, <1>13, <1>14, ClientKeeps DEF Moves, Known

(* A header that is a whole answer leaves nothing behind; if something is  *)
(* left of the answer to an init, a part of its header was received.       *)
LEMMA HeaderTaken ==
  ASSUME Inv, NEW c \in Clients, Dumping(c), Alive(c), cl[c].phase = "header",
         cl[c].op \in {"ping", "init", "deinit"}, NEW w \in C!HeaderReceived(c), C!Took(c, w)
  PROVE  /\ Idle(c)
         /\ link' \in Conns(Words) /\ \A d \in Clients \ {c} : link'[d] = link[d]
         /\ link'[c].srv = link[c].srv /\ link'[c].cli = link[c].cli /\ link'[c].rst = link[c].rst
         /\ link'[c].c2s = link[c].c2s /\ (link[c].s2c = <<>> => link'[c].s2c = <<>>)
         /\ cl[c].op \in {"init", "deinit"} => ~Serves(c, "send")
         /\ Len(w) = BaseLen + 1 \/ ~ShortRecv => link'[c].s2c = <<>> /\ ~Serves(c, "send")
         /\ cl[c].op = "init" /\ link'[c].s2c # <<>> =>
              ShortRecv /\ Len(link[c].s2c) - Len(link'[c].s2c) \in 1 .. BaseLen - 1
<1>1. Types /\ link \in Conns(Words)
  BY DEF Inv, Types
<1>2. cl[c].header = <<>> /\ cl[c].got = <<>>
  BY DEF Dumping, Phases
<1>3. PICK s \in Seq(Int) : s = link[c].s2c
  BY <1>1, RunTypes DEF Words
<1>4. PICK l \in Nat : l = Len(s)
  BY LenProperties
<1>5. PICK n \in {BaseLen, BaseLen + 1} :
        n = ResponseLen(cl[c].op) /\ n = IF cl[c].op = "ping" THEN BaseLen + 1 ELSE BaseLen
  BY DEF ResponseLen
<1>6. PICK k \in 0 .. l :
        /\ k = Len(w) /\ w \in Seq(Int)
        /\ \/ s = <<>> /\ link[c].srv = "closed"
           \/ k = n
           \/ ShortRecv /\ k \in 1 .. n
  BY <1>1, <1>3, <1>4, <1>5, HeaderWords
<1>7. Received(c) = l
  <2>1. PICK z \in Nat : z = Len(<<>>) /\ z = 0
    OBVIOUS
  <2>2. Received(c) = z + z + l
    BY <1>2, <1>3, <1>4, <2>1 DEF Received
  <2>3. QED
    BY <2>1, <2>2
<1>8. /\ l <= n /\ (l # 0 => l >= BaseLen)
      /\ link[c].srv = "closed" \/ l # 0 => Idle(c)
      /\ link[c].srv = "closed" \/ l = n => Idle(c) /\ ~Serves(c, "send")
  BY <1>5, <1>7, AnswerArrived
<1>9. s = <<>> => l = 0
  <2>1. Len(<<>>) = 0
    OBVIOUS
  <2>2. QED
    BY <1>4, <2>1
<1>10. BaseLen = 3 /\ BaseLen + 1 = 4
  BY DEF BaseLen
<1>11. Idle(c)
  BY <1>5, <1>6, <1>8, <1>10
<1>12. cl[c].op \in {"init", "deinit"} => ~Serves(c, "send")
  <2>1. SUFFICES ASSUME cl[c].op \in {"init", "deinit"}, link[c].srv # "closed"
                 PROVE  ~Serves(c, "send")
    BY <1>8
  <2>2. n = 3
    BY <1>5, <1>10, <2>1
  <2>3. l # 0
    BY <1>6, <2>1, <2>2
  <2>4. l = n
    BY <1>8, <1>10, <2>2, <2>3
  <2>5. QED
    BY <1>8, <2>4
<1>13. /\ link' \in Conns(Words) /\ \A d \in Clients \ {c} : link'[d] = link[d]
       /\ link'[c].srv = link[c].srv /\ link'[c].cli = link[c].cli /\ link'[c].rst = link[c].rst
       /\ link'[c].c2s = link[c].c2s /\ link'[c].s2c = SubSeq(s, k + 1, l)
  <2>1. Link!CliTake(c, k)
    BY <1>6, SameLink DEF C!Took
  <2>2. k \in Nat /\ k <= Len(link[c].s2c)
    BY <1>3, <1>4
  <2>3. QED
    BY <1>1, <1>3, <1>4, <2>1, <2>2, CliTakeWords
<1>14. k = l => link'[c].s2c = <<>>
  <2>1. k \in Nat /\ k <= Len(s)
    BY <1>4
  <2>2. Len(s) = k => SubSeq(s, k + 1, Len(s)) = <<>>
    BY <2>1, RestProperties
  <2>3. QED
    BY <1>4, <1>13, <2>2
<1>15. Len(w) = BaseLen + 1 \/ ~ShortRecv => link'[c].s2c = <<>> /\ ~Serves(c, "send")
  <2>1. SUFFICES ASSUME k = BaseLen + 1 \/ ~ShortRecv
                 PROVE  link'[c].s2c = <<>> /\ ~Serves(c, "send")
    BY <1>6
  <2>2. CASE s = <<>> /\ link[c].srv = "closed"
    <3>1. k = l
      BY <1>6, <1>9, <2>2
    <3>2. QED
      BY <1>8, <1>14, <2>2, <3>1
  <2>3. CASE ~(s = <<>> /\ link[c].srv = "closed")
    <3>1. k = n
      BY <1>5, <1>6, <1>10, <2>1, <2>3
    <3>2. k = l
      BY <1>5, <1>6, <1>8, <1>10, <3>1
    <3>3. QED
      BY <1>8, <1>14, <3>1, <3>2
  <2>4. QED
    BY <2>2, <2>3
<1>16. ASSUME cl[c].op = "init", link'[c].s2c # <<>>
       PROVE  ShortRecv /\ Len(link[c].s2c) - Len(link'[c].s2c) \in 1 .. BaseLen - 1
  <2>1. k # l
    BY <1>14, <1>16
  <2>2. k \in {1, 2}
    <3>1. n = 3
      BY <1>5, <1>10, <1>16
    <3>2. l # 0
      BY <1>6, <2>1
    <3>3. k # 0
      BY <1>6, <1>9, <3>1, <3>2
    <3>4. QED
      BY <1>6, <1>8, <2>1, <3>1, <3>3
  <2>3. l = 3
    BY <1>5, <1>6, <1>8, <1>10, <1>16, <2>2
  <2>4. ShortRecv
    <3>1. n = 3 /\ l # 0
      BY <1>5, <1>10, <1>16, <2>3
    <3>2. s # <<>> /\ k # n
      BY <1>9, <2>2, <3>1
    <3>3. QED
      BY <1>6, <3>2
  <2>5. Len(link'[c].s2c) = l - k
    <3>1. k \in Nat /\ k <= Len(s)
      BY <1>4
    <3>2. QED
      BY <1>4, <1>13, <3>1, RestProperties
  <2>6. l - (l - k) = k /\ k \in 1 .. 3 - 1
    BY <2>2, <2>3
  <2>7. QED
    BY <1>3, <1>4, <1>10, <2>4, <2>5, <2>6
<1>17. link[c].s2c = <<>> => link'[c].s2c = <<>>
  <2>1. s = <<>> => k = l
    BY <1>6, <1>9
  <2>2. QED
    BY <1>3, <1>14, <2>1
<1>18. QED
  BY <1>11, <1>12, <1>13, <1>15, <1>16, <1>17

(* The program's first request after the pool is set up. *)
LEMMA FirstRequest ==
  /\ C!ClusterLoop(0) \in {"cluster", "sector", "deinit"}
  /\ C!ClusterLoop(0) = "cluster" => 0 < nClusters
  /\ C!ClusterLoop(0) = "sector" => 0 < nSectors /\ nClusters = 0
  /\ C!ClusterLoop(0) = "deinit" => PartitionSize = 0
<1>1. PICK a, b, s \in Nat : a = nClusters /\ b = nSectors /\ s = SectorsPerCluster
  BY PlanSizes
<1>2. PICK p \in Nat : p = a * s /\ p + b = PartitionSize
  BY <1>1, PlanSizes
<1>3. a = 0 => p = 0
  BY <1>1, <1>2
<1>4. C!ClusterLoop(0) = IF 0 < a THEN "cluster" ELSE IF b > 0 THEN "sector" ELSE "deinit"
  BY <1>1 DEF C!ClusterLoop, nClusters, nSectors
<1>5. QED
  BY <1>1, <1>2, <1>3, <1>4

(* The answers without data. *)
LEMMA PingAnswered ==
  ASSUME Inv, NEW c \in Clients, OnLink, UNCHANGED faults, slipped \subseteq slipped',
         Alive(c),
         Dumping(c), C!At(c, "ping", "header"), NEW w \in C!HeaderReceived(c), C!PingDone(c, w)
  PROVE  Inv'
<1>1. Types /\ cl[c].op = "ping" /\ cl[c].phase = "header"
  BY DEF Inv, C!At
<1>2. CASE C!Fail(c)
  BY <1>1, <1>2, FailKeeps
<1>3. ASSUME C!Took(c, w), NEW op \in {"mbr", "close"}, C!Goto(c, op),
             op # "close" => Len(w) = C!BaseLen + 1
      PROVE  Inv'
  <2>1. PICK i, file, ret : i = cl[c].i /\ file = cl[c].file /\ ret = cl[c].ret
    OBVIOUS
  <2>2. Moves(c, op, i, file, ret)
    BY <1>1, <1>3, <2>1, MovesTo DEF Ops
  <2>3. Progress(c)' /\ Content(c)' /\ Stuck(c)'
    BY <1>1, <2>1, <2>2
       DEF Dumping, Progress, Content, RightWord, LastZero, Stuck, Cheated, Moves, OnLink
  <2>4. /\ Idle(c)
        /\ link' \in Conns(Words) /\ \A d \in Clients \ {c} : link'[d] = link[d]
        /\ link'[c].srv = link[c].srv /\ link'[c].cli = link[c].cli
        /\ link'[c].rst = link[c].rst /\ link'[c].c2s = link[c].c2s
        /\ op # "close" => link'[c].s2c = <<>> /\ ~Serves(c, "send")
    BY <1>1, <1>3, HeaderTaken DEF C!BaseLen, BaseLen
  <2>5. QED
    BY <1>1, <2>1, <2>2, <2>3, <2>4, NextKeeps
<1>4. QED
  BY <1>2, <1>3 DEF C!PingDone

(* A client that has received the answer to its init has a pool of its     *)
(* own, or goes on to find none.                                           *)
LEMMA InitAnswered ==
  ASSUME Inv, NEW c \in Clients, OnLink, UNCHANGED faults, Slips(c), Alive(c),
         Dumping(c), C!At(c, "init", "header"), NEW w \in C!HeaderReceived(c), C!InitDone(c, w)
  PROVE  Inv'
<1>1. Types /\ cl[c].op = "init" /\ cl[c].phase = "header"
  BY DEF Inv, C!At
<1>5. slipped \subseteq slipped'
  BY DEF Slips
<1>2. CASE C!Fail(c)
  BY <1>1, <1>2, <1>5, FailKeeps
<1>3. CASE C!Took(c, w) /\ C!Goto(c, C!ClusterLoop(0))
  <2>1. PICK op : op = C!ClusterLoop(0)
    OBVIOUS
  <2>2. PICK i, file, ret : i = cl[c].i /\ file = cl[c].file /\ ret = cl[c].ret
    OBVIOUS
  <2>3. Moves(c, op, i, file, ret)
    BY <1>1, <1>3, <2>1, <2>2, MovesTo, FirstRequest DEF Ops
  <2>4. file = <<>> /\ i = 0 /\ ret = "none"
    BY <1>1, <2>2 DEF Dumping, Progress
  <2>5. Progress(c)'
    <3>1. /\ cl'[c].op = op /\ cl'[c].file = <<>> /\ cl'[c].i = 0 /\ cl'[c].ret = "none"
      BY <2>3, <2>4 DEF Moves
    <3>2. /\ op \in {"cluster", "sector", "deinit"}
          /\ op = "cluster" => 0 < nClusters
          /\ op = "sector" => 0 < nSectors /\ nClusters = 0
          /\ op = "deinit" => PartitionSize = 0
      BY <2>1, FirstRequest
    <3>3. Len(<<>>) = 0 /\ 0 * SectorsPerCluster = 0 /\ 0 + 0 = 0
      BY PlanSizes
    <3>4. QED
      BY <3>1, <3>2, <3>3 DEF Progress
  <2>6. Content(c)'
    <3>1. cl'[c].file = <<>>
      BY <2>3, <2>4 DEF Moves
    <3>2. Len(<<>>) = 0 /\ 1 .. 0 = {}
      OBVIOUS
    <3>3. QED
      BY <3>1, <3>2 DEF Content, RightWord, LastZero
  <2>7. op \in {"cluster", "sector", "deinit"}
    BY <2>1, FirstRequest
  <2>12. Stuck(c)'
    <3>1. cl'[c].i = 0
      BY <2>3, <2>4 DEF Moves
    <3>2. QED
      BY <3>1 DEF Stuck, Cheated
  <2>8. /\ Idle(c) /\ ~Serves(c, "send")
        /\ link' \in Conns(Words) /\ \A d \in Clients \ {c} : link'[d] = link[d]
        /\ link'[c].srv = link[c].srv /\ link'[c].cli = link[c].cli
        /\ link'[c].rst = link[c].rst /\ link'[c].c2s = link[c].c2s
        /\ link[c].s2c = <<>> => link'[c].s2c = <<>>
        /\ link'[c].s2c # <<>> =>
             ShortRecv /\ Len(link[c].s2c) - Len(link'[c].s2c) \in 1 .. BaseLen - 1
    BY <1>1, <1>3, HeaderTaken
  <2>9. CASE link'[c].s2c = <<>>
    BY <1>1, <1>5, <2>2, <2>3, <2>5, <2>6, <2>7, <2>8, <2>9, <2>12, NextKeeps
  <2>10. CASE link'[c].s2c # <<>>
    <3>1. /\ cl'[c].op \in {"cluster", "sector", "deinit"} /\ cl'[c].phase = "send"
          /\ C!ClientType' /\ \A d \in Clients \ {c} : cl'[d] = cl[d]
      BY <2>3, <2>7 DEF Moves
    <3>2. Off(c)'
      BY <1>1, <2>8, <2>10, <3>1, SlipsAway
    <3>3. ShortRecv /\ (link'[c].srv = "open" <=> link[c].srv = "open")
      BY <2>8, <2>10
    <3>4. QED
      BY <1>5, <2>8, <3>1, <3>2, <3>3, ClientKeeps DEF Known
  <2>11. QED
    BY <2>9, <2>10
<1>4. QED
  BY <1>2, <1>3 DEF C!InitDone

(* A client that has received the answer to its deinit has a complete      *)
(* file, and needs the pool no more.                                       *)
LEMMA DeinitAnswered ==
  ASSUME Inv, NEW c \in Clients, OnLink, UNCHANGED faults, slipped \subseteq slipped', Alive(c),
         Dumping(c), C!At(c, "deinit", "header"), NEW w \in C!HeaderReceived(c), C!DeinitDone(c, w)
  PROVE  Inv'
<1>1. Types /\ cl[c].op = "deinit" /\ cl[c].phase = "header"
  BY DEF Inv, C!At
<1>2. CASE C!Fail(c)
  BY <1>1, <1>2, FailKeeps
<1>3. CASE C!Took(c, w) /\ C!Return(c, "ok")
  <2>1. PICK i, file : i = cl[c].i /\ file = cl[c].file
    OBVIOUS
  <2>2. Moves(c, "close", i, file, "ok")
    BY <1>1, <1>3, <2>1, MovesTo
  <2>3. Progress(c)' /\ Content(c)' /\ Stuck(c)'
    BY <1>1, <2>1, <2>2
       DEF Dumping, Progress, Content, RightWord, LastZero, Stuck, Cheated, Moves, OnLink
  <2>4. /\ Idle(c) /\ ~Serves(c, "send")
        /\ link' \in Conns(Words) /\ \A d \in Clients \ {c} : link'[d] = link[d]
        /\ link'[c].srv = link[c].srv /\ link'[c].cli = link[c].cli
        /\ link'[c].rst = link[c].rst /\ link'[c].c2s = link[c].c2s
    BY <1>1, <1>3, HeaderTaken
  <2>5. QED
    BY <1>1, <2>2, <2>3, <2>4, NextKeeps
<1>4. QED
  BY <1>2, <1>3 DEF C!DeinitDone

(* One that has lost its place may take anything for that answer.          *)
LEMMA DeinitTaken ==
  ASSUME Inv, NEW c \in Clients, OnLink, UNCHANGED faults, slipped \subseteq slipped', Alive(c),
         Off(c), C!At(c, "deinit", "header"), NEW w \in C!HeaderReceived(c), C!DeinitDone(c, w)
  PROVE  Inv'
<1>1. Types /\ cl[c].op = "deinit" /\ link \in Conns(Words)
  BY DEF Inv, Types, C!At
<1>2. CASE C!Fail(c)
  BY <1>1, <1>2, FailKeeps
<1>3. CASE C!Took(c, w) /\ C!Return(c, "ok")
  <2>1. PICK i, file : i = cl[c].i /\ file = cl[c].file
    OBVIOUS
  <2>2. Moves(c, "close", i, file, "ok")
    BY <1>1, <1>3, <2>1, MovesTo
  <2>3. PICK k \in Nat : k = Len(w) /\ k <= Len(link[c].s2c)
    <3>1. Len(w) \in 0 .. Len(link[c].s2c) /\ Len(link[c].s2c) \in Nat
      BY <1>1, HeaderWords, RunTypes
    <3>2. QED
      BY <3>1
  <2>4. Link!CliTake(c, k)
    BY <1>3, <2>3, SameLink DEF C!Took
  <2>5. /\ link' \in Conns(Words) /\ \A d \in Clients \ {c} : link'[d] = link[d]
        /\ link'[c].srv = link[c].srv /\ link'[c].cli = link[c].cli
        /\ link'[c].rst = link[c].rst /\ link'[c].c2s = link[c].c2s
    BY <1>1, <2>3, <2>4, CliTakeWords
  <2>6. ~link[c].rst
    BY DEF Alive
  <2>7. QED
    BY <2>2, <2>5, <2>6, OffMoves
<1>4. QED
  BY <1>2, <1>3 DEF C!DeinitDone

(* A receive loop that has it all leaves nothing behind, and the response  *)
(* goes on after a reset, when nothing is left anyhow.                     *)
LEMMA LoopNext ==
  ASSUME Inv, NEW c \in Clients, Dumping(c), OnLink, UNCHANGED faults, UNCHANGED link,
         slipped \subseteq slipped',
         cl[c].op \in {"mbr", "cluster", "sector"}, C!LoopComplete(c, cl[c].op),
         cl[c].op = "cluster" => Len(cl[c].header) = BaseLen,
         NEW op, NEW i, NEW file, NEW ret, Moves(c, op, i, file, ret), op # "connect",
         Progress(c)', Content(c)', Stuck(c)', ret = cl[c].ret,
         op \in {"cluster", "sector", "deinit"} => cl[c].op \in {"cluster", "sector"},
         cl[c].op \in {"cluster", "sector"} => op \in {"cluster", "sector", "deinit"}
  PROVE  Inv'
<1>1. Types /\ Dumping(c) /\ link \in Conns(Words)
  BY DEF Inv, Types
<1>2. cl[c].phase = "loop" /\ Len(cl[c].got) = C!LoopLen(cl[c].op)
  BY DEF C!LoopComplete, C!At
<1>3. link[c].cli /\ cl[c].ret = "none"
  BY <1>1, <1>2 DEF Dumping, Phases, Progress
<1>4. CASE link[c].rst
  <2>1. /\ UNCHANGED <<pc, cli_sock, badCopy, freeFailed, acquired, upool, cmd, out, after>>
        /\ \A place : Serves(c, place)' <=> Serves(c, place)
    BY DEF OnLink, Serves
  <2>2. /\ cl'[c].op = op /\ cl'[c].i = i /\ cl'[c].file = file /\ cl'[c].ret = "none"
        /\ cl'[c].phase = "send" /\ cl'[c].header = <<>> /\ cl'[c].got = <<>>
    BY <1>3 DEF Moves
  <2>3. link[c].c2s = <<>> /\ link[c].s2c = <<>> /\ link[c].srv # "backlog"
    BY <1>1, <1>3, <1>4 DEF Dumping, Ends
  <2>4. Queue(c)'
    BY <2>1, <2>3 DEF Queue
  <2>5. Hand(c)' /\ Replies(c)'
    BY <1>1, <1>4, <2>1, <2>3 DEF Hand, Replies, Dumping, Alive
  <2>6. Ends(c)' /\ Phases(c)'
    BY <1>1, <2>1, <2>2, <2>3 DEF Ends, Phases, Dumping
  <2>7. Unpooled(c)' /\ Answer(c)'
    BY <1>4, <2>2 DEF Unpooled, Alive, Answer
  <2>8. Dumping(c)'
    BY <2>4, <2>5, <2>6, <2>7 DEF Dumping
  <2>9. ~Keeps(c)
    BY <1>3, <1>4 DEF Keeps
  <2>10. link' \in Conns(Words) /\ \A d \in Clients \ {c} : cl'[d] = cl[d] /\ link'[d] = link[d]
    BY <1>1 DEF Moves
  <2>11. link'[c].srv = "open" <=> link[c].srv = "open"
    OBVIOUS
  <2>12. QED
    BY <2>8, <2>9, <2>10, <2>11, ClientKeeps DEF Moves, Known
<1>5. CASE ~link[c].rst
  <2>1. PICK a, b, l \in Nat : a = Len(cl[c].header) /\ b = Len(cl[c].got) /\ l = Len(link[c].s2c)
    BY <1>1, RunTypes
  <2>2. PICK s \in Nat \ {0} : s = SectorsPerCluster
    BY PlanSizes
  <2>3. a + b = ResponseLen(cl[c].op)
    <3>1. CASE cl[c].op = "cluster"
      <4>1. b = s
        BY <1>2, <2>1, <2>2, <3>1, LoopLengths
      <4>3. a = BaseLen
        BY <2>1, <3>1
      <4>4. ResponseLen(cl[c].op) = BaseLen + s
        BY <2>2, <3>1 DEF ResponseLen
      <4>5. QED
        BY <4>1, <4>3, <4>4
    <3>2. CASE cl[c].op \in {"mbr", "sector"}
      <4>1. b = BaseLen + 1
        BY <1>2, <2>1, <3>2, LoopLengths
      <4>2. cl[c].header = <<>> /\ Len(<<>>) = 0
        BY <1>1, <1>2, <3>2 DEF Dumping, Phases
      <4>3. a = 0 /\ ResponseLen(cl[c].op) = BaseLen + 1
        BY <2>1, <3>2, <4>2 DEF ResponseLen
      <4>4. QED
        BY <4>1, <4>3 DEF BaseLen
    <3>3. QED
      BY <3>1, <3>2
  <2>4. PICK n \in Nat : n = Received(c) /\ n = a + b + l
    <3>1. Received(c) = a + b + l
      BY <2>1 DEF Received
    <3>2. a + b + l \in Nat
      OBVIOUS
    <3>3. QED
      BY <3>1, <3>2
  <2>5. Alive(c) /\ cl[c].phase # "send"
    BY <1>2, <1>3, <1>5 DEF Alive
  <2>6. Received(c) <= ResponseLen(cl[c].op)
    BY <2>5, AnswerArrived
  <2>7. l = 0 /\ Received(c) = ResponseLen(cl[c].op)
    BY <2>3, <2>4, <2>6
  <2>8. Idle(c) /\ ~Serves(c, "send")
    BY <2>5, <2>7, AnswerArrived
  <2>9. link[c].s2c = <<>>
    <3>1. link[c].s2c \in Seq(Int)
      BY <1>1, RunTypes DEF Words
    <3>2. QED
      BY <2>1, <2>7, <3>1, EmptySeq
  <2>10. /\ link' \in Conns(Words) /\ \A d \in Clients \ {c} : link'[d] = link[d]
         /\ link'[c] = link[c]
    BY <1>1
  <2>11. /\ op \in {"cluster", "sector", "deinit"} => cl[c].op \in {"init", "cluster", "sector"}
         /\ cl[c].op \in {"init", "cluster", "sector"} => op \in {"cluster", "sector", "deinit"}
    OBVIOUS
  <2>12. QED
    BY <2>5, <2>8, <2>9, <2>10, <2>11, NextKeeps
<1>6. QED
  BY <1>4, <1>5

(* The sector of the partition table. *)
LEMMA TableRead ==
  ASSUME Inv, NEW c \in Clients, OnLink, UNCHANGED faults, slipped \subseteq slipped',
         C!parse_sce_mbr(c)
  PROVE  Inv'
<1>1. Types /\ Dumping(c) /\ cl[c].op = "mbr" /\ C!LoopComplete(c, "mbr")
  BY DEF Inv, Known, Off, C!parse_sce_mbr, C!LoopComplete, C!At
<1>2. CASE C!Fail(c)
  BY <1>1, <1>2, FailKeeps
<1>3. ASSUME UNCHANGED link, NEW op \in {"init", "close"}, C!Goto(c, op)
      PROVE  Inv'
  <2>1. PICK i, file, ret : i = cl[c].i /\ file = cl[c].file /\ ret = cl[c].ret
    OBVIOUS
  <2>2. Moves(c, op, i, file, ret)
    BY <1>1, <1>3, <2>1, MovesTo DEF Ops
  <2>3. Progress(c)' /\ Content(c)' /\ Stuck(c)'
    BY <1>1, <2>1, <2>2
       DEF Dumping, Progress, Content, RightWord, LastZero, Stuck, Cheated, Moves, OnLink
  <2>4. QED
    BY <1>1, <1>3, <2>1, <2>2, <2>3, LoopNext
<1>4. QED
  BY <1>2, <1>3 DEF C!parse_sce_mbr

(* An accepted answer says that the driver read. *)
LEMMA ReadAccepted ==
  ASSUME NEW h \in Seq(Int), Len(h) >= 3, NEW command, TRUE \in C!ReadChecked(h, command)
  PROVE  h[3] = 0
<1>1. PICK a \in C!Word(h, 1, command), b \in C!Word(h, 3, 0) : TRUE = (a /\ b)
  <2>1. ASSUME NEW x \in C!ReadChecked(h, command)
        PROVE  \E a \in C!Word(h, 1, command), b \in C!Word(h, 3, 0) : x = (a /\ b)
    BY DEF C!ReadChecked
  <2>2. QED
    BY <2>1
<1>2. PICK l \in Nat : l = Len(h)
  BY LenProperties
<1>3. 3 <= Len(h)
  BY <1>2
<1>4. C!Word(h, 3, 0) = {h[3] = 0}
  BY <1>3 DEF C!Word
<1>5. b = (h[3] = 0)
  BY <1>1, <1>4
<1>6. b = TRUE \/ b = FALSE
  BY <1>5
<1>7. QED
  BY <1>1, <1>5, <1>6

(* The file grows by the words of its next sectors. *)
LEMMA FileGrows ==
  ASSUME NEW f \in Seq(Int), NEW w \in Seq(Int)
  PROVE  /\ f \o w \in Seq(Int) /\ Len(f \o w) = Len(f) + Len(w)
         /\ (/\ \A k \in 1 .. Len(f) : f[k] = SectorWord(Mode, Source(k - 1))
             /\ \A j \in 1 .. Len(w) : w[j] = SectorWord(Mode, Source(Len(f) + j - 1)))
            => \A k \in 1 .. Len(f \o w) : (f \o w)[k] = SectorWord(Mode, Source(k - 1))
<1>1. PICK m, n \in Nat : m = Len(f) /\ n = Len(w)
  BY LenProperties
<1>2. /\ f \o w \in Seq(Int) /\ Len(f \o w) = Len(f) + Len(w)
      /\ \A k \in 1 .. Len(f) + Len(w) :
            (f \o w)[k] = IF k <= Len(f) THEN f[k] ELSE w[k - Len(f)]
  BY ConcatProperties
<1>3. ASSUME /\ \A k \in 1 .. m : f[k] = SectorWord(Mode, Source(k - 1))
             /\ \A j \in 1 .. n : w[j] = SectorWord(Mode, Source(m + j - 1)),
             NEW k \in 1 .. m + n
      PROVE  (f \o w)[k] = SectorWord(Mode, Source(k - 1))
  <2>1. (f \o w)[k] = IF k <= m THEN f[k] ELSE w[k - m]
    BY <1>1, <1>2
  <2>2. CASE k <= m
    <3>1. k \in 1 .. m
      BY <2>2
    <3>2. QED
      BY <1>3, <2>1, <2>2, <3>1
  <2>3. CASE ~(k <= m)
    <3>1. k - m \in 1 .. n /\ m + (k - m) - 1 = k - 1
      BY <2>3
    <3>2. w[k - m] = SectorWord(Mode, Source(m + (k - m) - 1))
      BY <1>3, <3>1
    <3>3. QED
      BY <2>1, <2>3, <3>1, <3>2
  <2>4. QED
    BY <2>2, <2>3
<1>4. QED
  BY <1>1, <1>2, <1>3

(* The request after a cluster. *)
LEMMA RequestAfterCluster ==
  ASSUME NEW i \in Nat, i < nClusters
  PROVE  /\ C!ClusterLoop(i + 1) \in {"cluster", "sector", "deinit"}
         /\ C!ClusterLoop(i + 1) = "cluster" => i + 1 < nClusters
         /\ C!ClusterLoop(i + 1) # "cluster" =>
                i * SectorsPerCluster + SectorsPerCluster = nClusters * SectorsPerCluster
         /\ C!ClusterLoop(i + 1) = "sector" => 0 < nSectors
         /\ C!ClusterLoop(i + 1) = "deinit" => nClusters * SectorsPerCluster = PartitionSize
<1>1. PICK a, b, s \in Nat : a = nClusters /\ b = nSectors /\ s = SectorsPerCluster
  BY PlanSizes
<1>2. PICK p \in Nat : p = a * s /\ p + b = PartitionSize
  BY <1>1, PlanSizes
<1>3. C!ClusterLoop(i + 1) = IF i + 1 < a THEN "cluster" ELSE IF b > 0 THEN "sector" ELSE "deinit"
  BY <1>1 DEF C!ClusterLoop, nClusters, nSectors
<1>4. (i + 1) * s = i * s + s
  BY <1>1, ClusterPlace
<1>5. ~(i + 1 < a) => i + 1 = a
  BY <1>1
<1>6. QED
  BY <1>1, <1>2, <1>3, <1>4, <1>5

(* The data of a cluster goes to the file. *)
ClusterKept(c) ==
    /\ C!LoopComplete(c, "cluster") /\ UNCHANGED link
    /\ TRUE \in C!ReadChecked(cl[c].header, C!READ_CLUSTER[Mode])
    /\ C!Written(c, cl[c].got, IF C!ClusterLoop(cl[c].i + 1) = "cluster"
                               THEN cl[c].i + 1 ELSE 0, C!ClusterLoop(cl[c].i + 1))

(* Behind a whole header it is the cluster. *)
LEMMA ClusterWritten ==
  ASSUME Inv, NEW c \in Clients, Dumping(c), OnLink, UNCHANGED faults,
         slipped \subseteq slipped',
         ClusterKept(c), Len(cl[c].header) = BaseLen
  PROVE  Inv'
<1>1. Types /\ cl[c].op = "cluster" /\ cl[c].phase = "loop"
  BY DEF Inv, ClusterKept, C!LoopComplete, C!At
<1>2. PICK h, g, f \in Seq(Int) : h = cl[c].header /\ g = cl[c].got /\ f = cl[c].file
  BY <1>1, RunTypes DEF Words
<1>3. PICK i, s \in Nat : i = cl[c].i /\ s = SectorsPerCluster /\ s # 0
  BY <1>1, RunTypes, PlanSizes
<1>4. Len(g) = s
  BY <1>1, <1>2, <1>3, LoopLengths DEF ClusterKept, C!LoopComplete
<1>5. Len(h) = 3
  BY <1>2 DEF BaseLen
<1>6. i < nClusters /\ Len(f) = i * s /\ cl[c].ret = "none"
  BY <1>1, <1>2, <1>3 DEF Dumping, Progress
<1>7. PICK R \in Seq(Int) : Response(c, R) /\ Matches(h, R, 0) /\ Matches(g, R, 3)
  <2>1. PICK R \in Seq(Int) : Response(c, R) /\ Parts(c, R)
    BY <1>1 DEF Dumping, Answer
  <2>2. Matches(h, R, 0) /\ Matches(g, R, 3)
    BY <1>2, <1>5, <2>1 DEF Parts
  <2>3. QED
    BY <2>1, <2>2
<1>8. R[3] = 0
  <2>1. Len(h) >= 3
    BY <1>5
  <2>2. h[3] = 0
    BY <1>2, <2>1, ReadAccepted DEF ClusterKept
  <2>3. 3 \in 1 .. Len(h) /\ 0 + 3 = 3
    BY <1>5
  <2>4. h[3] = R[0 + 3]
    BY <1>7, <2>3 DEF Matches
  <2>5. QED
    BY <2>2, <2>3, <2>4
<1>9. /\ ~badCopy => \A k \in 1 .. s :
             R[3 + k] = SectorWord(Mode, C!ClusterFirstSector(PartitionOffset, i) + k - 1)
      /\ ~freeFailed => c \in acquired
  <2>1. 3 + Len(g) <= Len(R)
    BY <1>7 DEF Matches
  <2>2. PICK m \in Nat : m = Len(R)
    BY LenProperties
  <2>3. 3 + s <= m /\ s # 0
    BY <1>3, <1>4, <2>1, <2>2
  <2>4. m # 3
    BY <2>3
  <2>5. Len(R) # BaseLen
    BY <2>2, <2>4 DEF BaseLen
  <2>6. QED
    BY <1>1, <1>3, <1>7, <1>8, <2>5 DEF Response
<1>10. PICK next \in {"cluster", "sector", "deinit"} :
        /\ next = C!ClusterLoop(i + 1)
        /\ next = "cluster" => i + 1 < nClusters
        /\ next # "cluster" => i * s + s = nClusters * s
        /\ next = "sector" => 0 < nSectors
        /\ next = "deinit" => nClusters * s = PartitionSize
  BY <1>3, <1>6, RequestAfterCluster
<1>11. PICK j \in Nat : j = IF next = "cluster" THEN i + 1 ELSE 0
  OBVIOUS
<1>12. PICK file \in Seq(Int) : file = f \o g
  BY <1>2, FileGrows
<1>13. Moves(c, next, j, file, "none")
  <2>1. C!Written(c, g, j, next)
    BY <1>2, <1>3, <1>10, <1>11 DEF ClusterKept
  <2>2. next \in Ops
    BY DEF Ops
  <2>3. Moves(c, next, j, cl[c].file \o g, cl[c].ret)
    BY <1>1, <2>1, <2>2, MovesTo
  <2>4. QED
    BY <1>2, <1>6, <1>12, <2>3
<1>14. Len(file) = i * s + s
  BY <1>4, <1>6, <1>12, FileGrows
<1>15. Progress(c)'
  <2>1. cl'[c].op = next /\ cl'[c].i = j /\ cl'[c].file = file /\ cl'[c].ret = "none"
    BY <1>13 DEF Moves
  <2>2. next = "cluster" => j < nClusters /\ Len(file) = j * s
    <3>1. (i + 1) * s = i * s + s
      BY <1>3, <1>6, ClusterPlace
    <3>2. QED
      BY <1>10, <1>11, <1>14, <3>1
  <2>3. next = "sector" => j < nSectors /\ Len(file) = nClusters * s + j
    <3>1. nClusters * s \in Nat
      BY <1>3, PlanSizes
    <3>2. ASSUME next = "sector"
          PROVE  j < nSectors /\ Len(file) = nClusters * s + j
      <4>1. j = 0 /\ Len(file) = nClusters * s
        BY <1>10, <1>11, <1>14, <3>2
      <4>2. QED
        BY <1>10, <3>1, <3>2, <4>1
    <3>3. QED
      BY <3>2
  <2>4. next = "deinit" => Len(file) = PartitionSize
    BY <1>10, <1>14
  <2>5. QED
    BY <1>3, <2>1, <2>2, <2>3, <2>4 DEF Progress
<1>16. Content(c)'
  <2>1. cl'[c].file = file /\ badCopy' = badCopy /\ freeFailed' = freeFailed
        /\ acquired' = acquired
    BY <1>13 DEF Moves, OnLink
  <2>2. ASSUME ~badCopy
        PROVE  \A k \in 1 .. Len(file) : file[k] = SectorWord(Mode, Source(k - 1))
    <3>1. \A k \in 1 .. Len(f) : f[k] = SectorWord(Mode, Source(k - 1))
      BY <1>1, <1>2, <2>2 DEF Dumping, Content, RightWord, LastZero
    <3>2. ASSUME NEW k \in 1 .. s
          PROVE  g[k] = SectorWord(Mode, Source(i * s + k - 1))
      <4>1. g[k] = R[3 + k]
        BY <1>4, <1>7 DEF Matches
      <4>2. R[3 + k] = SectorWord(Mode, C!ClusterFirstSector(PartitionOffset, i) + k - 1)
        BY <1>9, <2>2
      <4>3. Source(i * s + k - 1) = C!ClusterFirstSector(PartitionOffset, i) + k - 1
        BY <1>3, <1>6, ClusterSource
      <4>4. QED
        BY <4>1, <4>2, <4>3
    <3>3. \A k \in 1 .. Len(g) : g[k] = SectorWord(Mode, Source(Len(f) + k - 1))
      <4>1. PICK p : p = Len(f) /\ p = i * s
        BY <1>6
      <4>2. \A k \in 1 .. s : g[k] = SectorWord(Mode, Source(p + k - 1))
        BY <3>2, <4>1
      <4>3. QED
        BY <1>4, <4>1, <4>2
    <3>4. QED
      BY <1>12, <3>1, <3>3, FileGrows
  <2>3. QED
    BY <1>9, <2>1, <2>2 DEF Content, RightWord
<1>17. Stuck(c)'
  <2>1. cl'[c].op = "sector" => cl'[c].i = 0
    BY <1>11, <1>13 DEF Moves
  <2>2. QED
    BY <2>1 DEF Stuck, Cheated
<1>18. QED
  BY <1>1, <1>6, <1>13, <1>15, <1>16, <1>17, LoopNext DEF ClusterKept

(* words are kept.                                                         *)
LEMMA ClusterDone ==
  ASSUME Inv, NEW c \in Clients, OnLink, UNCHANGED faults, slipped \subseteq slipped',
         C!emmc_read_cluster(c)
  PROVE  Inv'
<1>1. Types /\ Known(c) /\ cl[c].op = "cluster" /\ cl[c].phase = "loop"
      /\ C!LoopComplete(c, "cluster")
  BY DEF Inv, C!emmc_read_cluster, C!LoopComplete, C!At
<1>2. CASE C!Fail(c)
  BY <1>1, <1>2, FailKeeps
<1>3. CASE /\ TRUE \in C!ReadChecked(cl[c].header, C!READ_CLUSTER[Mode])
           /\ C!Written(c, cl[c].got, IF C!ClusterLoop(cl[c].i + 1) = "cluster"
                                      THEN cl[c].i + 1 ELSE 0, C!ClusterLoop(cl[c].i + 1))
           /\ UNCHANGED link
  <2>1. PICK h \in Seq(Int) : h = cl[c].header
    BY <1>1, RunTypes DEF Words
  <2>2. cl[c].got # <<>>
    <3>1. PICK s \in Nat \ {0} : s = SectorsPerCluster
      BY PlanSizes
    <3>2. Len(cl[c].got) # 0
      BY <1>1, <3>1, LoopLengths DEF C!LoopComplete
    <3>3. QED
      BY <3>2, NotEmpty
  <2>3. CASE Dumping(c)
    <3>1. Len(h) = BaseLen
      BY <1>1, <2>1, <2>2, <2>3 DEF Dumping, Phases
    <3>2. QED
      BY <1>1, <1>3, <2>1, <2>3, <3>1, ClusterWritten DEF ClusterKept
  <2>4. CASE Off(c)
    <3>1. PICK i, n \in Nat : i = cl[c].i /\ n = nClusters
      BY <1>1, RunTypes, PlanSizes
    <3>2. PICK next \in {"cluster", "sector", "deinit"} : next = C!ClusterLoop(i + 1)
      BY DEF C!ClusterLoop
    <3>3. PICK j \in Nat : j = IF next = "cluster" THEN i + 1 ELSE 0
      OBVIOUS
    <3>4. PICK g \in Seq(Int) : g = cl[c].got
      BY <1>1, RunTypes DEF Words
    <3>5. Moves(c, next, j, cl[c].file \o g, cl[c].ret)
      <4>1. C!Written(c, g, j, next)
        BY <1>3, <3>1, <3>2, <3>3, <3>4
      <4>2. next \in Ops
        BY DEF Ops
      <4>3. QED
        BY <1>1, <4>1, <4>2, MovesTo
    <3>6. link' = link /\ link \in Conns(Words)
      BY <1>1, <1>3 DEF Types
    <3>7. QED
      BY <1>1, <2>4, <3>5, <3>6, OffMoves
  <2>5. QED
    BY <1>1, <2>3, <2>4 DEF Known
<1>4. QED
  BY <1>2, <1>3 DEF C!emmc_read_cluster

(* So does a single sector. *)
LEMMA SectorDone ==
  ASSUME Inv, NEW c \in Clients, OnLink, UNCHANGED faults, slipped \subseteq slipped',
         C!emmc_read_sector(c)
  PROVE  Inv'
<1>1. Types /\ Known(c) /\ cl[c].op = "sector" /\ cl[c].phase = "loop"
      /\ C!LoopComplete(c, "sector")
  BY DEF Inv, C!emmc_read_sector, C!LoopComplete, C!At
<1>2. CASE C!Fail(c)
  BY <1>1, <1>2, FailKeeps
<1>3. PICK i, b \in Nat : i = cl[c].i /\ b = nSectors
  BY <1>1, RunTypes, PlanSizes
<1>4. PICK next \in {"sector", "deinit"} : next = IF i + 1 < b THEN "sector" ELSE "deinit"
  OBVIOUS
<1>5. PICK j \in Nat : j = IF next = "sector" THEN i + 1 ELSE 0
  OBVIOUS
<1>6. ASSUME TRUE \in C!ReadChecked(cl[c].got, C!READ_SECTOR[Mode]), Dumping(c),
             C!Written(c, C!Link!Rest(cl[c].got, C!BaseLen), j, next), UNCHANGED link
      PROVE  Inv'
  <2>1. PICK g, f \in Seq(Int) : g = cl[c].got /\ f = cl[c].file
    BY <1>1, RunTypes DEF Words
  <2>2. Len(g) = 4 /\ cl[c].header = <<>>
    <3>1. Len(g) = BaseLen + 1
      BY <1>1, <2>1, LoopLengths DEF C!LoopComplete
    <3>2. cl[c].header = <<>>
      BY <1>1, <1>6 DEF Dumping, Phases
    <3>3. BaseLen + 1 = 4
      BY DEF BaseLen
    <3>4. QED
      BY <3>1, <3>2, <3>3
  <2>3. PICK w \in Seq(Int) : w = C!Link!Rest(g, C!BaseLen) /\ Len(w) = 1 /\ w[1] = g[4]
    <3>1. 3 \in Nat /\ 3 <= Len(g) /\ Len(g) - 3 = 1 /\ 3 + 1 = 4 /\ 1 \in 1 .. 1
      BY <2>2
    <3>2. /\ SubSeq(g, 3 + 1, Len(g)) \in Seq(Int)
          /\ Len(SubSeq(g, 3 + 1, Len(g))) = Len(g) - 3
          /\ \A k \in 1 .. Len(g) - 3 : SubSeq(g, 3 + 1, Len(g))[k] = g[3 + k]
      BY <3>1, RestProperties
    <3>3. C!Link!Rest(g, C!BaseLen) = SubSeq(g, 3 + 1, Len(g))
      BY DEF C!Link!Rest, C!BaseLen
    <3>4. QED
      BY <3>1, <3>2, <3>3
  <2>4. PICK q \in Nat : q = nClusters * SectorsPerCluster
    BY PlanSizes
  <2>5. i < b /\ Len(f) = q + i /\ cl[c].ret = "none"
    BY <1>1, <1>3, <1>6, <2>1, <2>4 DEF Dumping, Progress
  <2>6. PICK R \in Seq(Int) : Response(c, R) /\ Matches(g, R, 0) /\ Told(c, R)
    <3>1. PICK R \in Seq(Int) : Response(c, R) /\ Parts(c, R) /\ Told(c, R)
      BY <1>1, <1>6 DEF Dumping, Answer
    <3>2. Len(<<>>) = 0
      OBVIOUS
    <3>3. Matches(g, R, 0)
      BY <2>1, <2>2, <3>1, <3>2 DEF Parts
    <3>4. QED
      BY <3>1, <3>3
  <2>7. w[1] = SectorWord(Mode, Source(q + i)) \/ (ShortRecv /\ w[1] = 0 /\ Ending(c))
    <3>1. Len(g) >= 3 /\ 3 \in 1 .. Len(g) /\ 4 \in 1 .. Len(g) /\ 0 + 3 = 3 /\ 0 + 4 = 4
      BY <2>2
    <3>2. g[3] = 0
      BY <1>6, <2>1, <3>1, ReadAccepted
    <3>3. g[3] = R[3] /\ g[4] = R[4]
      <4>1. g[3] = R[0 + 3] /\ g[4] = R[0 + 4]
        BY <2>6, <3>1 DEF Matches
      <4>2. QED
        BY <3>1, <4>1
    <3>4. R[4] = TailWord(c) \/ (ShortRecv /\ R[4] = 0 /\ Ending(c))
      BY <1>1, <2>6, <3>2, <3>3 DEF Response, Told
    <3>5. TailWord(c) = SectorWord(Mode, Source(q + i))
      BY <1>3, <2>4, SectorSource DEF TailWord
    <3>6. QED
      BY <2>3, <3>3, <3>4, <3>5
  <2>8. PICK file \in Seq(Int) : file = f \o w
    BY <2>1, <2>3, FileGrows
  <2>9. Moves(c, next, j, file, "none")
    <3>1. C!Written(c, w, j, next)
      BY <1>6, <2>1, <2>3
    <3>2. next \in Ops
      BY DEF Ops
    <3>3. Moves(c, next, j, cl[c].file \o w, cl[c].ret)
      BY <1>1, <2>3, <3>1, <3>2, MovesTo
    <3>4. QED
      BY <2>1, <2>5, <2>8, <3>3
  <2>10. Len(file) = q + i + 1
    <3>1. Len(file) = Len(f) + Len(w)
      BY <2>8, FileGrows
    <3>2. QED
      BY <2>3, <2>5, <3>1
  <2>11. Progress(c)'
    <3>1. cl'[c].op = next /\ cl'[c].i = j /\ cl'[c].file = file /\ cl'[c].ret = "none"
      BY <2>9 DEF Moves
    <3>2. next = "sector" => j < b /\ Len(file) = q + j
      <4>1. q + i + 1 = q + (i + 1)
        OBVIOUS
      <4>2. QED
        BY <1>4, <1>5, <2>10, <4>1
    <3>3. next = "deinit" => Len(file) = PartitionSize
      <4>1. PartitionSize = q + b
        BY <1>3, <2>4, PlanSizes
      <4>2. ~(i + 1 < b) => q + i + 1 = q + b
        BY <2>5
      <4>3. QED
        BY <1>4, <2>10, <4>1, <4>2
    <3>4. QED
      BY <1>3, <2>4, <3>1, <3>2, <3>3 DEF Progress
  <2>12. Content(c)'
    <3>1. /\ cl'[c].file = file /\ cl'[c].op = next
          /\ badCopy' = badCopy /\ freeFailed' = freeFailed /\ acquired' = acquired
      BY <2>9 DEF Moves, OnLink
    <3>2. ASSUME ~badCopy, NEW k \in 1 .. Len(file)
          PROVE  RightWord(c, k)' \/ LastZero(c, k)'
      <4>1. PICK m \in Nat : m = Len(f) /\ m = q + i
        BY <2>4, <2>5
      <4>2. Len(f) + Len(w) = m + 1
        BY <2>3, <4>1
      <4>3. file[k] = IF k <= m THEN f[k] ELSE w[k - m]
        <5>1. /\ Len(f \o w) = Len(f) + Len(w)
              /\ \A x \in 1 .. Len(f) + Len(w) :
                    (f \o w)[x] = IF x <= Len(f) THEN f[x] ELSE w[x - Len(f)]
          BY ConcatProperties
        <5>2. k \in 1 .. Len(f) + Len(w)
          BY <2>8, <3>2, <5>1
        <5>3. QED
          BY <2>8, <4>1, <5>1, <5>2
      <4>4. CASE k <= m
        <5>1. k \in 1 .. Len(f)
          BY <4>1, <4>4
        <5>2. f[k] = SectorWord(Mode, Source(k - 1))
          <6>1. RightWord(c, k) \/ LastZero(c, k)
            BY <1>6, <2>1, <3>2, <5>1 DEF Dumping, Content
          <6>2. LastZero(c, k) => RightWord(c, k)
            <7>1. cl[c].got # <<>>
              <8>1. Len(cl[c].got) # 0
                BY <2>1, <2>2
              <8>2. QED
                BY <8>1, NotEmpty
            <7>2. QED
              BY <1>1, <1>6, <7>1 DEF LastZero, Dumping, Stuck, Cheated
          <6>3. QED
            BY <2>1, <6>1, <6>2 DEF RightWord
        <5>3. QED
          BY <3>1, <4>3, <4>4, <5>2 DEF RightWord
      <4>5. CASE ~(k <= m)
        <5>1. k = m + 1 /\ k - m = 1 /\ k - 1 = q + i /\ k = Len(file)
          <6>1. Len(file) = m + 1
            BY <2>10, <4>1
          <6>2. QED
            BY <3>2, <4>1, <4>5, <6>1
        <5>2. file[k] = w[1]
          BY <4>3, <4>5, <5>1
        <5>3. QED
          <6>1. next = "sector" => cl'[c].i > 0
            BY <1>5, <2>9 DEF Moves
          <6>2. QED
            BY <2>7, <3>1, <5>1, <5>2, <6>1 DEF RightWord, LastZero
      <4>6. QED
        BY <4>4, <4>5
    <3>3. nClusters > 0 /\ ~freeFailed => c \in acquired
      <4>1. ASSUME nClusters > 0
            PROVE  f # <<>>
        <5>1. PICK n, s \in Nat \ {0} : n = nClusters /\ s = SectorsPerCluster
          BY <4>1, PlanSizes
        <5>2. 0 < nClusters
          BY <4>1, <5>1
        <5>3. (0 + 1) * s <= n * s /\ (0 + 1) * s = s
          BY <5>1, <5>2, ClusterPlace
        <5>4. q # 0
          BY <2>4, <5>1, <5>3
        <5>5. Len(f) # 0
          BY <2>4, <2>5, <5>4
        <5>6. QED
          BY <5>5, NotEmpty
      <4>2. QED
        BY <1>1, <1>6, <2>1, <4>1 DEF Dumping, Content
    <3>4. QED
      BY <3>1, <3>2, <3>3 DEF Content
  <2>13. ASSUME Cheated(c)'
         PROVE  ShortRecv /\ Ending(c)
    <3>1. cl'[c].file = file
      BY <2>9 DEF Moves
    <3>2. PICK m \in Nat : m = Len(f) /\ m = q + i /\ Len(file) = m + 1
      BY <2>4, <2>5, <2>10
    <3>3. file[m + 1] = w[1]
      <4>1. /\ \A x \in 1 .. Len(f) + Len(w) :
                  (f \o w)[x] = IF x <= Len(f) THEN f[x] ELSE w[x - Len(f)]
        BY ConcatProperties
      <4>2. PICK x \in 1 .. m + 1 : x = m + 1 /\ ~(x <= m) /\ x - m = 1
        OBVIOUS
      <4>3. Len(f) + Len(w) = m + 1
        BY <2>3, <3>2
      <4>4. (f \o w)[x] = IF x <= m THEN f[x] ELSE w[x - m]
        BY <3>2, <4>1, <4>3
      <4>5. (f \o w)[x] = w[1]
        BY <4>2, <4>4
      <4>6. QED
        BY <2>3, <2>8, <4>2, <4>5
    <3>4. RightWord(c, Len(file))' <=> w[1] = SectorWord(Mode, Source(q + i))
      <4>1. m + 1 - 1 = q + i
        BY <3>2
      <4>2. QED
        BY <3>1, <3>2, <3>3, <4>1 DEF RightWord
    <3>5. QED
      BY <2>7, <2>13, <3>1, <3>4 DEF Cheated
  <2>14. ASSUME Cheated(c)'
         PROVE  link[c].s2c = <<>> /\ (link[c].rst \/ Over(c))
    <3>1. link[c].cli /\ link \in Conns(Words)
      BY <1>1, <1>6 DEF Dumping, Phases, Types
    <3>2. PICK l \in Nat : l = Len(link[c].s2c)
      BY <1>1, RunTypes
    <3>3. Received(c) = 4 + l
      <4>1. PICK z \in Nat : z = Len(<<>>) /\ z = 0
        OBVIOUS
      <4>2. Received(c) = z + 4 + l
        BY <2>1, <2>2, <3>2, <4>1 DEF Received
      <4>3. QED
        BY <4>1, <4>2
    <3>4. ResponseLen(cl[c].op) = 4
      BY <1>1 DEF ResponseLen, BaseLen
    <3>5. Alive(c) => Idle(c) /\ link[c].s2c = <<>> /\ ~Serves(c, "send")
      <4>1. SUFFICES ASSUME Alive(c)
                     PROVE  Idle(c) /\ link[c].s2c = <<>> /\ ~Serves(c, "send")
        OBVIOUS
      <4>2. Received(c) <= 4 /\ (Received(c) = 4 => Idle(c) /\ ~Serves(c, "send"))
        BY <1>1, <1>6, <3>4, <4>1, AnswerArrived
      <4>3. l = 0
        BY <3>3, <4>2
      <4>4. 4 + l = 4
        BY <4>3
      <4>5. link[c].s2c = <<>>
        <5>1. link[c].s2c \in Seq(Int)
          BY <1>1, RunTypes DEF Words
        <5>2. QED
          BY <3>2, <4>3, <5>1, EmptySeq
      <4>6. QED
        BY <3>3, <4>2, <4>4, <4>5
    <3>6. ~link[c].rst => link[c].s2c = <<>> /\ Over(c)
      BY <2>13, <2>14, <3>1, <3>5 DEF Alive, Ending
    <3>7. link[c].rst => link[c].s2c = <<>>
      BY <1>6 DEF Dumping, Ends
    <3>8. QED
      BY <3>6, <3>7
  <2>15. Stuck(c)'
    <3>1. cl'[c].got = <<>> /\ link' = link /\ (Over(c)' <=> Over(c))
      BY <1>6, <2>9 DEF Moves, Over, Serves, OnLink
    <3>2. QED
      BY <2>14, <3>1 DEF Stuck
  <2>16. QED
    BY <1>1, <1>6, <2>5, <2>9, <2>11, <2>12, <2>15, LoopNext
<1>7. ASSUME Off(c), C!Written(c, C!Link!Rest(cl[c].got, C!BaseLen), j, next), UNCHANGED link
      PROVE  Inv'
  <2>1. PICK w \in Seq(Int) : w = C!Link!Rest(cl[c].got, C!BaseLen)
    <3>1. PICK g \in Seq(Int) : g = cl[c].got
      BY <1>1, RunTypes DEF Words
    <3>2. 3 \in Nat /\ 3 <= Len(g)
      <4>1. Len(g) = BaseLen + 1
        BY <1>1, <3>1, LoopLengths DEF C!LoopComplete
      <4>2. QED
        BY <4>1 DEF BaseLen
    <3>3. SubSeq(g, 3 + 1, Len(g)) \in Seq(Int)
      BY <3>2, RestProperties
    <3>4. QED
      BY <3>1, <3>3 DEF C!Link!Rest, C!BaseLen
  <2>2. Moves(c, next, j, cl[c].file \o w, cl[c].ret)
    <3>1. next \in Ops
      BY DEF Ops
    <3>2. QED
      BY <1>1, <1>7, <2>1, <3>1, MovesTo
  <2>3. link' = link /\ link \in Conns(Words)
    BY <1>1, <1>7 DEF Types
  <2>4. QED
    BY <1>1, <1>7, <2>2, <2>3, OffMoves
<1>8. QED
  BY <1>1, <1>2, <1>3, <1>4, <1>5, <1>6, <1>7 DEF C!emmc_read_sector, nSectors, Known

-----------------------------------------------------------------------------
(* The whole system *)

(* Every step of a client keeps the invariant. *)
LEMMA ClientSideKeeps ==
  ASSUME Inv, NEW c \in Clients, ClientStep(c) \/ KillStep(c)
  PROVE  Inv'
<1>1. CASE KillStep(c)
  BY <1>1, EndKeeps DEF KillStep
<1>2. CASE ClientStep(c)
  <2>1. OnLink /\ UNCHANGED faults /\ Slips(c) /\ slipped \subseteq slipped'
    BY <1>2 DEF ClientStep, Slips
  <2>2. Types
    BY DEF Inv
  <2>3. CASE C!initialize_emmc_proxy_connection(c, Listening)
    BY <2>1, <2>3, ConnectKeeps
  <2>4. CASE C!deinitialize_emmc_proxy_connection(c)
    BY <2>1, <2>4, EndKeeps
  <2>5. CASE C!send_request(c)
    BY <2>1, <2>5, RequestKeeps
  <2>6. CASE C!receive_loop(c)
    BY <2>1, <2>6, LoopKeeps
  <2>7. ~C!Link!CliError(c) => Alive(c)
    BY <2>2, SameLink, RunTypes DEF Alive
  <2>8. ASSUME NEW op \in {"ping", "init", "cluster", "deinit"}, C!At(c, op, "header"), C!Fail(c)
        PROVE  Inv'
    BY <2>1, <2>8, FailKeeps DEF C!At
  <2>9. CASE C!emmc_ping(c)
    BY <2>1, <2>7, <2>8, <2>9, PingAnswered DEF Inv, Known, Off, C!At, C!emmc_ping, C!receive_header
  <2>10. CASE C!emmc_init(c)
    BY <2>1, <2>7, <2>8, <2>10, InitAnswered DEF Inv, Known, Off, C!At, C!emmc_init, C!receive_header
  <2>11. CASE C!emmc_deinit(c)
    BY <2>1, <2>7, <2>8, <2>11, DeinitAnswered, DeinitTaken
       DEF Inv, Known, C!emmc_deinit, C!receive_header
  <2>12. CASE C!emmc_read_cluster_header(c)
    BY <2>1, <2>7, <2>8, <2>12, ClusterHeaderKeeps DEF C!emmc_read_cluster_header, C!receive_header
  <2>13. CASE C!parse_sce_mbr(c)
    BY <2>1, <2>13, TableRead
  <2>14. CASE C!emmc_read_cluster(c)
    BY <2>1, <2>14, ClusterDone
  <2>15. CASE C!emmc_read_sector(c)
    BY <2>1, <2>15, SectorDone
  <2>16. QED
    BY <1>2, <2>3, <2>4, <2>5, <2>6, <2>9, <2>10, <2>11, <2>12, <2>13, <2>14, <2>15
       DEF ClientStep, C!ClientMain, C!dump_device
<1>3. QED
  BY <1>1, <1>2

(* The invariant holds when nothing has been started, ... *)
LEMMA InitInv == Init => Inv
<1> SUFFICES ASSUME Init
             PROVE  Inv
  OBVIOUS
<1>1. ServerInv
  BY ServerInitInv DEF Init
<1>2. <<>> \in Seq(Int) /\ <<>> \in Seq(Seq(Int)) /\ Len(<<>>) = 0
  BY EmptySeq
<1>3. /\ upool.init = 0 /\ upool.bps = 0 /\ upool.ptr = 0
      /\ kpool.init = 0 /\ kpool.bps = 0
  BY DEF Init, DriverInit, ServerInit, UPool!PoolInit, UPool!Blank, KPool!PoolInit, KPool!Blank
<1>4. /\ \A c \in Clients : link[c] = Link!NoConnection
      /\ link \in Conns(Words)
  BY <1>2 DEF Init, ServerInit, Link!LinkInit, Link!NoConnection, Conns, Conn, Words
<1>5. /\ \A c \in Clients : cl[c] = C!Start
      /\ C!ClientType
  BY <1>2 DEF Init, C!ClientInit, C!Start, C!ClientType
<1>6. /\ ubuf = <<>> /\ out = <<>> /\ badCopy = FALSE /\ freeFailed = FALSE /\ acquired = {}
      /\ cli_sock = 0 /\ pc = "exited" /\ ctx \in [Devices -> {0, 1}]
  BY DEF Init, DriverInit, ServerInit
<1>7. Types
  BY <1>2, <1>4, <1>5, <1>6 DEF Types, Words
<1>8. Geometry /\ Fit /\ CopiesFit /\ Holder
  BY <1>3, <1>6 DEF Geometry, Fit, CopiesFit, Holder
<1>9. ASSUME NEW c \in Clients
      PROVE  Dumping(c)
  <2>1. /\ ~link[c].cli /\ link[c].srv = "none" /\ ~link[c].rst
        /\ link[c].c2s = <<>> /\ link[c].s2c = <<>>
    BY <1>4 DEF Link!NoConnection
  <2>2. /\ cl[c].op = "connect" /\ cl[c].phase = "send" /\ cl[c].i = 0 /\ cl[c].header = <<>>
        /\ cl[c].got = <<>> /\ cl[c].file = <<>> /\ cl[c].ret = "none"
    BY <1>5 DEF C!Start
  <2>3. \A place \in {"recv", "handle", "send", "close"} : ~Serves(c, place)
    BY <1>6 DEF Serves
  <2>4. Queue(c) /\ Hand(c) /\ Replies(c)
    BY <2>1, <2>3 DEF Queue, Hand, Replies
  <2>5. Ends(c) /\ Phases(c)
    BY <2>1, <2>2, <2>3 DEF Ends, Phases
  <2>6. Progress(c)
    BY <2>2 DEF Progress
  <2>7. Content(c)
    <3>1. 1 .. 0 = {}
      OBVIOUS
    <3>2. QED
      BY <1>2, <2>2, <3>1 DEF Content, RightWord, LastZero
  <2>8. Unpooled(c) /\ Answer(c) /\ Stuck(c)
    BY <2>1, <2>2 DEF Unpooled, Answer, Stuck, Cheated
  <2>9. QED
    BY <2>4, <2>5, <2>6, <2>7, <2>8 DEF Dumping
<1>10. QED
  BY <1>1, <1>7, <1>8, <1>9 DEF Inv, Known

(* A step that changes nothing keeps the invariant. *)
LEMMA StutterKeeps ==
  ASSUME Inv, UNCHANGED vars
  PROVE  Inv'
<1>1. UNCHANGED <<kpool, ctx, link, upool, ubuf, pc, emmc_sock, cli_sock, listener, cmd, out, after,
                  badCopy, faults, cl, acquired, slipped, freeFailed>>
  BY DEF vars, dvars, svars
<1>2. \A c \in Clients : Known(c)'
  <2>1. ASSUME NEW c \in Clients
        PROVE  Known(c)'
    BY <1>1, <2>1, OthersKnown DEF Inv
  <2>2. QED
    BY <2>1
<1>3. ServerInv'
  <2>1. \A c \in Clients : link'[c].srv = "open" <=> link[c].srv = "open"
    BY <1>1
  <2>2. LinkShape'
    BY <1>1 DEF Inv, ServerInv, LinkShape
  <2>3. QED
    BY <1>1, <2>1, <2>2, OutsideStepInv DEF Inv
<1>4. Types' /\ Geometry' /\ Fit' /\ CopiesFit'
  BY <1>1, PoolsAlone DEF Inv, Types, C!ClientType
<1>5. Holder'
  BY <1>1 DEF Inv, Holder, Keeps, Closing, Past
<1>6. QED
  BY <1>2, <1>3, <1>4, <1>5 DEF Inv

(* ... every step keeps it, ...                                            *)
LEMMA NextInv ==
  ASSUME Inv, [Next]_vars
  PROVE  Inv'
<1>1. CASE ServerStep \/ SystemStep \/ \E c \in Clients : ResetStep(c) \/ LossStep(c)
  BY <1>1, ServerSideKeeps
<1>2. ASSUME NEW c \in Clients, ClientStep(c) \/ KillStep(c)
      PROVE  Inv'
  BY <1>2, ClientSideKeeps
<1>3. CASE UNCHANGED vars
  BY <1>3, StutterKeeps
<1>4. QED
  BY <1>1, <1>2, <1>3 DEF Next

(* ... and so it holds in every state. *)
LEMMA Invariance == Spec => []Inv
<1>1. Init => Inv
  BY InitInv
<1>2. Inv /\ [Next]_vars => Inv'
  BY NextInv
<1>3. QED
  BY <1>1, <1>2, PTL DEF Spec

-----------------------------------------------------------------------------
(* What the system promises *)

(* For a partition that begins with a cluster, the sources are its sectors. *)
LEMMA PartitionPlaces ==
  ASSUME C!Aligned(PartitionOffset)
  PROVE  /\ C!PartitionWords \in Seq(Int) /\ Len(C!PartitionWords) = PartitionSize
         /\ \A k \in 1 .. PartitionSize : C!PartitionWords[k] = SectorWord(Mode, Source(k - 1))
<1>1. PICK n, o \in Nat : n = PartitionSize /\ o = PartitionOffset
  BY PartitionAssumption
<1>2. C!PartitionWords = SectorWords(Mode, o, n)
  <2>1. \A s : C!SectorWord(Mode, s) = SectorWord(Mode, s)
    BY DEF C!SectorWord, SectorWord
  <2>2. QED
    BY <1>1, <2>1 DEF C!PartitionWords, C!SectorWords, SectorWords
<1>3. PICK p \in Seq(Int) : /\ p = C!PartitionWords /\ Len(p) = n
                            /\ \A k \in 1 .. n : p[k] = SectorWord(Mode, o + k - 1)
  <2>1. o \in Int
    OBVIOUS
  <2>2. QED
    BY <1>1, <1>2, <2>1, SectorWordsMany
<1>4. ASSUME NEW k \in 1 .. n
      PROVE  p[k] = SectorWord(Mode, Source(k - 1))
  <2>1. k - 1 \in Nat /\ k - 1 < n /\ o + (k - 1) = o + k - 1
    OBVIOUS
  <2>2. Source(k - 1) = o + (k - 1)
    BY <1>1, <2>1, AlignedSource
  <2>3. QED
    BY <1>3, <2>1, <2>2
<1>5. QED
  BY <1>1, <1>3, <1>4

(* A file of right sectors has the partition's, from its first on. *)
LEMMA PartitionPrefix ==
  ASSUME C!Aligned(PartitionOffset), NEW f \in Seq(Int),
         \A k \in 1 .. Len(f) : f[k] = SectorWord(Mode, Source(k - 1))
  PROVE  \A k \in 1 .. Len(f) : k <= PartitionSize => f[k] = C!PartitionWords[k]
<1>1. PICK n, l \in Nat : n = PartitionSize /\ l = Len(f)
  BY PartitionAssumption, LenProperties
<1>2. ASSUME NEW k \in 1 .. l, k <= n
      PROVE  f[k] = C!PartitionWords[k]
  <2>1. k \in 1 .. n
    BY <1>2
  <2>2. QED
    BY <1>1, <2>1, PartitionPlaces
<1>3. QED
  BY <1>1, <1>2

(* The file of a dump that is at its end is the partition. *)
LEMMA CompleteFile ==
  ASSUME ~ShortRecv, Inv, C!Aligned(PartitionOffset), ~badCopy, NEW c \in Clients,
         Len(cl[c].file) = PartitionSize
  PROVE  cl[c].file = C!PartitionWords
<1>1. PICK f \in Seq(Int) : f = cl[c].file
  BY RunTypes DEF Inv, Words
<1>2. \A k \in 1 .. Len(f) : f[k] = SectorWord(Mode, Source(k - 1))
  BY <1>1 DEF Inv, Known, Off, Dumping, Content, RightWord, LastZero
<1>3. PICK p \in Seq(Int) :
        /\ p = C!PartitionWords /\ Len(p) = PartitionSize
        /\ \A k \in 1 .. Len(f) : k <= PartitionSize => f[k] = p[k]
  BY <1>2, PartitionPlaces, PartitionPrefix
<1>4. PICK n \in Nat : n = PartitionSize
  BY PartitionAssumption
<1>5. Len(f) = Len(p) /\ \A k \in 1 .. Len(f) : f[k] = p[k]
  BY <1>1, <1>3, <1>4
<1>6. QED
  BY <1>1, <1>3, <1>5, SeqEqual

(* A dump that runs to its end is one to one, for every partition that     *)
(* begins with a cluster, whatever failed on the way, unless the kernel    *)
(* has written outside the server's block.                                 *)
THEOREM DumpsFaithful ==
  ~ShortRecv /\ C!Aligned(PartitionOffset) => (Spec => []DumpFaithful)
<1>1. SUFFICES ASSUME ~ShortRecv, C!Aligned(PartitionOffset)
               PROVE  Spec => []DumpFaithful
  OBVIOUS
<1>2. Inv => DumpFaithful
  <2>1. SUFFICES ASSUME Inv, NEW c \in Clients, cl[c].ret = "ok", ~badCopy
                 PROVE  cl[c].file = C!PartitionWords
    BY DEF DumpFaithful
  <2>2. QED
    BY <1>1, <2>1, CompleteFile DEF Inv, Known, Off, Dumping, Progress
<1>3. Spec => []Inv
  BY Invariance
<1>4. QED
  BY <1>2, <1>3, PTL

(* A dump that runs to its end has no other words in its file than the     *)
(* partition's, but for a zero in place of the last, of a client that has  *)
(* never gone on with a part of a header: receives that return parts of    *)
(* the other messages, on either end, make no other difference, whatever   *)
(* is on the device.                                                       *)
THEOREM LastSectorOnly == C!Aligned(PartitionOffset) => (Spec => []OnlyLastSectorLost)
<1>1. SUFFICES ASSUME C!Aligned(PartitionOffset)
               PROVE  Spec => []OnlyLastSectorLost
  OBVIOUS
<1>2. Inv => OnlyLastSectorLost
  <2>1. SUFFICES ASSUME Inv, NEW c \in Clients, cl[c].ret = "ok", ~badCopy, c \notin slipped
                 PROVE  /\ Len(cl[c].file) = PartitionSize
                        /\ \A k \in 1 .. PartitionSize :
                              \/ cl[c].file[k] = C!PartitionWords[k]
                              \/ k = PartitionSize /\ cl[c].file[k] = 0
    BY DEF OnlyLastSectorLost
  <2>2. Dumping(c)
    BY <2>1 DEF Inv, Known, Off
  <2>3. Len(cl[c].file) = PartitionSize
    BY <2>1, <2>2 DEF Dumping, Progress
  <2>4. ASSUME NEW k \in 1 .. PartitionSize
        PROVE  \/ cl[c].file[k] = C!PartitionWords[k]
               \/ k = PartitionSize /\ cl[c].file[k] = 0
    <3>1. RightWord(c, k) \/ LastZero(c, k)
      BY <2>1, <2>2, <2>3 DEF Dumping, Content
    <3>2. C!PartitionWords[k] = SectorWord(Mode, Source(k - 1))
      BY <1>1, PartitionPlaces
    <3>3. QED
      BY <2>3, <3>1, <3>2 DEF RightWord, LastZero
  <2>5. QED
    BY <2>3, <2>4
<1>3. Spec => []Inv
  BY Invariance
<1>4. QED
  BY <1>2, <1>3, PTL

(* A dump through the cluster pool went through a pool of its own: one     *)
(* that it finds set up by another client makes its init or its reads fail *)
(* before a word is in the file.                                           *)
THEOREM PoolsAreOwn == Spec => []OwnPool
<1>1. Inv => OwnPool
  <2>1. SUFFICES ASSUME Inv, NEW c \in Clients, cl[c].ret = "ok", ~freeFailed, c \notin slipped,
                        C!nClustersToRead(PartitionSize) > 0
                 PROVE  c \in acquired
    BY DEF OwnPool
  <2>2. PICK n, s \in Nat \ {0} : n = nClusters /\ s = SectorsPerCluster
    BY <2>1, PlanSizes DEF nClusters
  <2>3. (0 + 1) * s <= n * s /\ (0 + 1) * s = s
    <3>1. 0 \in Nat /\ 0 < nClusters
      BY <2>2
    <3>2. QED
      BY <2>2, <3>1, ClusterPlace
  <2>4. PICK q, b \in Nat : q = n * s /\ b = nSectors /\ q + b = PartitionSize
    BY <2>2, PlanSizes
  <2>5. Dumping(c)
    BY <2>1 DEF Inv, Known, Off
  <2>6. Len(cl[c].file) = q + b /\ q # 0
    BY <2>1, <2>2, <2>3, <2>4, <2>5 DEF Dumping, Progress
  <2>7. Len(cl[c].file) # 0
    BY <2>4, <2>6
  <2>8. cl[c].file # <<>>
    BY <2>7, NotEmpty
  <2>9. QED
    BY <2>1, <2>5, <2>8 DEF Dumping, Content, nClusters
<1>2. Spec => []Inv
  BY Invariance
<1>3. QED
  BY <1>1, <1>2, PTL

(* Every copy of the kernel fits the server's block until a release of the *)
(* kernel's pool fails: the two pools, each with a flag of its own, never  *)
(* differ in size.                                                         *)
THEOREM CopiesAlwaysFit == Spec => []CopiesFit
<1>1. Inv => CopiesFit
  BY DEF Inv
<1>2. Spec => []Inv
  BY Invariance
<1>3. QED
  BY <1>1, <1>2, PTL

(* When every dump has run to its end without a fault, both pools are      *)
(* released: one that is set up has a holder that is not done.             *)
THEOREM SuccessIsClean == ~ShortRecv => (Spec => []CleanAfterSuccess)
<1>1. SUFFICES ASSUME ~ShortRecv
               PROVE  Spec => []CleanAfterSuccess
  OBVIOUS
<1>2. Inv => CleanAfterSuccess
  <2>1. SUFFICES ASSUME Inv, faults = 0, \A c \in Clients : cl[c].ret = "ok"
                 PROVE  upool.init = 0 /\ kpool.init = 0
    BY DEF CleanAfterSuccess
  <2>2. ~\E d \in Clients : Keeps(d)
    BY <2>1 DEF Keeps
  <2>3. upool.init # 1
    BY <1>1, <2>1, <2>2 DEF Inv, Holder
  <2>4. upool.init \in {0, 1}
    BY <2>1 DEF Inv, ServerInv, UserInv, UPool!PoolType
  <2>5. kpool.init = upool.init
    BY <2>1 DEF Inv, ServerInv, InStep
  <2>6. QED
    BY <2>3, <2>4, <2>5
<1>3. Spec => []Inv
  BY Invariance
<1>4. QED
  BY <1>2, <1>3, PTL

-----------------------------------------------------------------------------
(* The system implements the abstract dump *)

(* What a step of client c does to its output: nothing, or its end, or the *)
(* words of an answer are added while the dump is running.                 *)
Quiet(c) == cl'[c].file = cl[c].file /\ cl'[c].ret = cl[c].ret
Fails(c) == cl'[c].file = cl[c].file /\ cl[c].ret = "none" /\ cl'[c].ret = "failed"
Completes(c) == /\ cl'[c].file = cl[c].file /\ cl[c].ret = "none" /\ cl'[c].ret = "ok"
                /\ Len(cl[c].file) = PartitionSize
Adds(c) == /\ cl[c].ret = "none" /\ cl'[c].ret = "none"
           /\ cl'[c].op \in {"cluster", "sector", "deinit"}
           /\ \E w \in Seq(Int) : w # <<>> /\ cl'[c].file = cl[c].file \o w

Outcome(c) == Quiet(c) \/ Fails(c) \/ Completes(c) \/ Adds(c)

(* A step of a client leaves its result alone, ends it or adds words to    *)
(* its file.                                                               *)
LEMMA Outcomes ==
  ASSUME ~ShortRecv, Inv, NEW c \in Clients, ClientStep(c) \/ KillStep(c)
  PROVE  Outcome(c) /\ \A d \in Clients \ {c} : cl'[d] = cl[d]
<1>1. Types /\ Dumping(c) /\ cl \in [Clients -> Run] /\ cl[c] \in Run
  BY DEF Inv, Known, Off, Types, C!ClientType, Run, Ops
<1>2. ASSUME NEW op \in Ops, C!Goto(c, op)
      PROVE  Quiet(c) /\ \A d \in Clients \ {c} : cl'[d] = cl[d]
  BY <1>1, <1>2, MovesTo DEF Moves, Quiet
<1>3. ASSUME C!Fail(c), cl[c].op \in {"ping", "mbr", "init", "cluster", "sector", "deinit"}
      PROVE  Outcome(c) /\ \A d \in Clients \ {c} : cl'[d] = cl[d]
  <2>1. \/ C!Goto(c, "close") \/ C!Goto(c, "init")
        \/ C!Return(c, "failed")
    BY <1>3 DEF C!Fail, C!AfterFailure
  <2>2. CASE C!Return(c, "failed")
    <3>1. Moves(c, "close", cl[c].i, cl[c].file, "failed")
      BY <1>1, <2>2, MovesTo
    <3>2. cl[c].ret = "none"
      BY <1>1, <1>3 DEF Dumping, Progress
    <3>3. QED
      BY <3>1, <3>2 DEF Moves, Fails, Outcome
  <2>3. "close" \in Ops /\ "init" \in Ops
    BY DEF Ops
  <2>4. QED
    BY <1>2, <2>1, <2>2, <2>3 DEF Outcome
<1>4. ASSUME NEW op, C!At(c, op, "header"), op \in {"ping", "init", "cluster", "deinit"}, C!Fail(c)
      PROVE  Outcome(c) /\ \A d \in Clients \ {c} : cl'[d] = cl[d]
  BY <1>3, <1>4 DEF C!At
<1>5. CASE C!initialize_emmc_proxy_connection(c, Listening)
           \/ C!deinitialize_emmc_proxy_connection(c) \/ C!ClientKilled(c)
  <2>1. C!Goto(c, "ping") \/ C!Goto(c, "exit")
    BY <1>5 DEF C!initialize_emmc_proxy_connection, C!deinitialize_emmc_proxy_connection,
                C!ClientKilled
  <2>2. "ping" \in Ops /\ "exit" \in Ops
    BY DEF Ops
  <2>3. QED
    BY <1>2, <2>1, <2>2 DEF Outcome
<1>6. CASE C!send_request(c)
  <2>1. cl[c].op \in {"ping", "mbr", "init", "cluster", "sector", "deinit"}
    BY <1>1, <1>6, RunTypes DEF C!send_request
  <2>2. CASE cl' = [cl EXCEPT ![c].phase = IF cl[c].op \in {"mbr", "sector"} THEN "loop" ELSE "header"]
    BY <1>1, <2>2 DEF Run, Quiet, Outcome
  <2>3. QED
    BY <1>3, <1>6, <2>1, <2>2 DEF C!send_request
<1>7. CASE C!receive_loop(c)
  <2>1. cl[c].op \in {"mbr", "sector", "cluster"}
    BY <1>1, <1>7 DEF C!receive_loop, Dumping, Phases
  <2>2. ASSUME NEW w, cl' = [cl EXCEPT ![c].got = @ \o w]
        PROVE  Outcome(c) /\ \A d \in Clients \ {c} : cl'[d] = cl[d]
    BY <1>1, <2>2 DEF Run, Quiet, Outcome
  <2>3. QED
    BY <1>3, <1>7, <2>1, <2>2 DEF C!receive_loop
<1>8. CASE C!emmc_ping(c)
  <2>1. CASE C!Fail(c)
    BY <1>4, <1>8, <2>1 DEF C!emmc_ping, C!receive_header
  <2>2. CASE C!Goto(c, "mbr") \/ C!Goto(c, "close")
    BY <1>2, <2>2 DEF Ops, Outcome
  <2>3. QED
    BY <1>8, <2>1, <2>2 DEF C!emmc_ping, C!receive_header, C!PingDone
<1>9. CASE C!emmc_init(c)
  <2>1. CASE C!Fail(c)
    BY <1>4, <1>9, <2>1 DEF C!emmc_init, C!receive_header
  <2>2. CASE C!Goto(c, C!ClusterLoop(0))
    BY <1>2, <2>2, FirstRequest DEF Ops, Outcome
  <2>3. QED
    BY <1>9, <2>1, <2>2 DEF C!emmc_init, C!receive_header, C!InitDone
<1>10. CASE C!emmc_deinit(c)
  <2>1. CASE C!Fail(c)
    BY <1>4, <1>10, <2>1 DEF C!emmc_deinit, C!receive_header
  <2>2. CASE C!Return(c, "ok")
    <3>1. Moves(c, "close", cl[c].i, cl[c].file, "ok")
      BY <1>1, <2>2, MovesTo
    <3>2. cl[c].op = "deinit"
      BY <1>10 DEF C!emmc_deinit, C!receive_header, C!At
    <3>3. cl[c].ret = "none" /\ Len(cl[c].file) = PartitionSize
      BY <1>1, <3>2 DEF Dumping, Progress
    <3>4. QED
      BY <3>1, <3>3 DEF Moves, Completes, Outcome
  <2>3. QED
    BY <1>10, <2>1, <2>2 DEF C!emmc_deinit, C!receive_header, C!DeinitDone
<1>11. CASE C!emmc_read_cluster_header(c)
  <2>1. CASE C!Fail(c)
    BY <1>4, <1>11, <2>1 DEF C!emmc_read_cluster_header, C!receive_header
  <2>2. ASSUME NEW w, cl' = [cl EXCEPT ![c].header = w, ![c].phase = "loop"]
        PROVE  Outcome(c) /\ \A d \in Clients \ {c} : cl'[d] = cl[d]
    BY <1>1, <2>2 DEF Run, Quiet, Outcome
  <2>3. QED
    BY <1>11, <2>1, <2>2 DEF C!emmc_read_cluster_header, C!receive_header, C!ClusterHeader
<1>12. CASE C!parse_sce_mbr(c)
  <2>1. CASE C!Fail(c)
    BY <1>3, <1>12, <2>1 DEF C!parse_sce_mbr, C!LoopComplete, C!At
  <2>2. CASE C!Goto(c, "init") \/ C!Goto(c, "close")
    BY <1>2, <2>2 DEF Ops, Outcome
  <2>3. QED
    BY <1>12, <2>1, <2>2 DEF C!parse_sce_mbr
<1>13. CASE C!emmc_read_cluster(c)
  <2>1. C!LoopComplete(c, "cluster") /\ cl[c].op = "cluster"
    BY <1>13 DEF C!emmc_read_cluster, C!LoopComplete, C!At
  <2>2. CASE C!Fail(c)
    BY <1>3, <2>1, <2>2
  <2>3. PICK i, s \in Nat : i = cl[c].i /\ s = SectorsPerCluster /\ s # 0
    BY <1>1, RunTypes, PlanSizes
  <2>4. PICK next \in {"cluster", "sector", "deinit"} : next = C!ClusterLoop(i + 1)
    BY <1>1, <2>1, <2>3, RequestAfterCluster DEF Dumping, Progress
  <2>5. PICK j \in Nat : j = IF next = "cluster" THEN i + 1 ELSE 0
    OBVIOUS
  <2>6. PICK w \in Seq(Int) : w = cl[c].got /\ w # <<>>
    <3>1. Len(cl[c].got) # 0
      BY <2>1, <2>3, LoopLengths DEF C!LoopComplete
    <3>2. cl[c].got # <<>>
      BY <3>1, NotEmpty
    <3>3. cl[c].got \in Seq(Int)
      BY <1>1, RunTypes DEF Words
    <3>4. QED
      BY <3>2, <3>3
  <2>7. CASE C!Written(c, w, j, next)
    <3>1. next \in Ops
      BY DEF Ops
    <3>2. Moves(c, next, j, cl[c].file \o w, cl[c].ret)
      BY <1>1, <2>7, <3>1, MovesTo
    <3>3. cl[c].ret = "none"
      BY <1>1, <2>1 DEF Dumping, Progress
    <3>4. QED
      BY <2>6, <3>2, <3>3 DEF Moves, Adds, Outcome
  <2>8. QED
    BY <1>13, <2>2, <2>3, <2>4, <2>5, <2>6, <2>7 DEF C!emmc_read_cluster
<1>14. CASE C!emmc_read_sector(c)
  <2>1. C!LoopComplete(c, "sector") /\ cl[c].op = "sector"
    BY <1>14 DEF C!emmc_read_sector, C!LoopComplete, C!At
  <2>2. CASE C!Fail(c)
    BY <1>3, <2>1, <2>2
  <2>3. PICK i \in Nat : i = cl[c].i
    BY <1>1, RunTypes
  <2>4. PICK next \in {"sector", "deinit"} :
          next = IF i + 1 < C!nSectorsToRead(PartitionSize) THEN "sector" ELSE "deinit"
    OBVIOUS
  <2>5. PICK j \in Nat : j = IF next = "sector" THEN i + 1 ELSE 0
    OBVIOUS
  <2>6. PICK w \in Seq(Int) : w = C!Link!Rest(cl[c].got, C!BaseLen) /\ w # <<>>
    <3>1. PICK g \in Seq(Int) : g = cl[c].got
      BY <1>1, RunTypes DEF Words
    <3>2. Len(g) = BaseLen + 1
      BY <2>1, <3>1, LoopLengths DEF C!LoopComplete
    <3>3. 3 \in Nat /\ 3 <= Len(g) /\ Len(g) - 3 = 1
      BY <3>2 DEF BaseLen
    <3>4. /\ SubSeq(g, 3 + 1, Len(g)) \in Seq(Int)
          /\ Len(SubSeq(g, 3 + 1, Len(g))) = Len(g) - 3
      BY <3>1, <3>3, RestProperties
    <3>5. C!Link!Rest(g, C!BaseLen) = SubSeq(g, 3 + 1, Len(g))
      BY DEF C!Link!Rest, C!BaseLen
    <3>6. PICK r \in Seq(Int) : r = SubSeq(g, 3 + 1, Len(g)) /\ Len(r) = Len(g) - 3
      BY <3>4
    <3>7. Len(r) # 0
      <4>1. Len(r) = Len(g) - 3 /\ Len(g) - 3 = 1
        BY <3>3, <3>6
      <4>2. Len(r) = 1
        BY <4>1
      <4>3. QED
        BY <4>2
    <3>8. r # <<>>
      BY <3>7, NotEmpty
    <3>9. QED
      BY <3>1, <3>5, <3>6, <3>8
  <2>7. CASE C!Written(c, w, j, next)
    <3>1. next \in Ops
      BY DEF Ops
    <3>2. Moves(c, next, j, cl[c].file \o w, cl[c].ret)
      BY <1>1, <2>7, <3>1, MovesTo
    <3>3. cl[c].ret = "none"
      BY <1>1, <2>1 DEF Dumping, Progress
    <3>4. QED
      BY <2>6, <3>2, <3>3 DEF Moves, Adds, Outcome
  <2>8. QED
    BY <1>14, <2>2, <2>3, <2>4, <2>5, <2>6, <2>7 DEF C!emmc_read_sector
<1>15. QED
  BY <1>5, <1>6, <1>7, <1>8, <1>9, <1>10, <1>11, <1>12, <1>13, <1>14
     DEF ClientStep, KillStep, C!ClientMain, C!dump_device

(* A file with words of an answer added to it is a longer beginning of the *)
(* partition: no request of the plan goes beyond the partition's end.      *)
LEMMA AddedWords ==
  ASSUME ~ShortRecv, Inv', C!Aligned(PartitionOffset), ~badCopy', NEW c \in Clients,
         NEW f \in Seq(Int), NEW w \in Seq(Int), w # <<>>, cl'[c].file = f \o w,
         cl'[c].op \in {"cluster", "sector", "deinit"}
  PROVE  \E n \in Len(f) + 1 .. Len(C!PartitionWords) :
            cl'[c].file = SubSeq(C!PartitionWords, 1, n)
<1>1. PICK g \in Seq(Int) : g = cl'[c].file /\ Len(g) = Len(f) + Len(w)
  <2>1. f \o w \in Seq(Int) /\ Len(f \o w) = Len(f) + Len(w)
    BY ConcatProperties
  <2>2. QED
    BY <2>1
<1>2. PICK l, m, n \in Nat : l = Len(f) /\ m = Len(w) /\ n = Len(g) /\ n = l + m /\ m # 0
  <2>1. Len(f) \in Nat /\ Len(w) \in Nat /\ Len(g) \in Nat
    BY LenProperties
  <2>2. Len(w) # 0
    BY EmptySeq
  <2>3. PICK l, m, n \in Nat : l = Len(f) /\ m = Len(w) /\ n = Len(g)
    BY <2>1
  <2>4. n = l + m /\ m # 0
    BY <1>1, <2>2, <2>3
  <2>5. QED
    BY <2>3, <2>4
<1>3. \A k \in 1 .. Len(g) : g[k] = SectorWord(Mode, Source(k - 1))
  BY <1>1 DEF Inv, Known, Off, Dumping, Content, RightWord, LastZero
<1>4. PICK p \in Seq(Int) :
        /\ p = C!PartitionWords /\ Len(p) = PartitionSize
        /\ \A k \in 1 .. Len(g) : k <= PartitionSize => g[k] = p[k]
  BY <1>3, PartitionPlaces, PartitionPrefix
<1>5. n <= PartitionSize
  <2>1. Progress(c)' /\ Types'
    BY DEF Inv, Known, Off, Dumping
  <2>2. PICK i, a, b, s, q \in Nat :
          /\ i = cl'[c].i /\ a = nClusters /\ b = nSectors /\ s = SectorsPerCluster
          /\ q = a * s /\ q + b = PartitionSize
    <3>1. PICK i \in Nat : i = cl'[c].i
      BY <2>1 DEF Types, C!ClientType
    <3>2. PICK a, b, s, q \in Nat : /\ a = nClusters /\ b = nSectors /\ s = SectorsPerCluster
                                    /\ q = nClusters * SectorsPerCluster
                                    /\ nClusters * SectorsPerCluster + nSectors = PartitionSize
      BY PlanSizes
    <3>3. q = a * s /\ q + b = PartitionSize
      BY <3>2
    <3>4. QED
      BY <3>1, <3>2, <3>3
  <2>3. CASE cl'[c].op = "cluster"
    <3>1. i < a /\ n = i * s
      BY <1>1, <1>2, <2>1, <2>2, <2>3 DEF Progress
    <3>2. i * s + s <= q /\ i * s \in Nat
      BY <2>2, <3>1, ClusterPlace
    <3>3. n + s <= q
      BY <3>1, <3>2
    <3>4. QED
      BY <2>2, <3>3
  <2>4. CASE cl'[c].op = "sector"
    <3>1. i < b /\ n = q + i
      BY <1>1, <1>2, <2>1, <2>2, <2>4 DEF Progress
    <3>2. QED
      BY <2>2, <3>1
  <2>5. CASE cl'[c].op = "deinit"
    <3>1. n = PartitionSize
      BY <1>1, <1>2, <2>1, <2>5 DEF Progress
    <3>2. QED
      BY <2>2, <3>1
  <2>6. QED
    BY <2>3, <2>4, <2>5
<1>6. PICK r \in Seq(Int) : r = SubSeq(p, 1, n) /\ Len(r) = n /\ \A k \in 1 .. n : r[k] = p[k]
  <2>1. n \in 0 .. Len(p)
    BY <1>4, <1>5, PartitionAssumption
  <2>2. QED
    BY <2>1, FirstWords
<1>7. g = r
  <2>1. \A k \in 1 .. Len(g) : g[k] = r[k]
    <3>1. ASSUME NEW k \in 1 .. n
          PROVE  g[k] = r[k]
      <4>1. k <= PartitionSize
        BY <1>5, PartitionAssumption
      <4>2. QED
        BY <1>2, <1>4, <1>6, <4>1
    <3>2. QED
      BY <1>2, <3>1
  <2>2. Len(g) = Len(r)
    BY <1>2, <1>6
  <2>3. QED
    BY <2>1, <2>2, SeqEqual
<1>8. n \in Len(f) + 1 .. Len(p)
  BY <1>2, <1>4, <1>5, PartitionAssumption
<1>9. QED
  BY <1>1, <1>4, <1>6, <1>7, <1>8

(* The output of the dumps, and what one entry of it becomes. *)
Files == [c \in Clients |-> cl[c].file]
Rets  == [c \in Clients |-> cl[c].ret]

(* Only that client's file and result change for the abstract dump. *)
LEMMA OneOutput ==
  ASSUME NEW c \in Clients, \A d \in Clients \ {c} : cl'[d] = cl[d]
  PROVE  /\ Files[c] = cl[c].file /\ Rets[c] = cl[c].ret
         /\ Files' = [Files EXCEPT ![c] = cl'[c].file]
         /\ Rets' = [Rets EXCEPT ![c] = cl'[c].ret]
         /\ cl'[c].file = cl[c].file => Files' = Files
         /\ cl'[c].ret = cl[c].ret => Rets' = Rets
  BY DEF Files, Rets

(* Every step of the system is a step of the abstract dump, or none of it. *)
LEMMA StepImplements ==
  ASSUME ~ShortRecv, C!Aligned(PartitionOffset), Inv, Inv', ~badCopy, ~badCopy', [Next]_vars
  PROVE  [Dump!DumpNext]_<<Files, Rets>>
<1>1. CASE UNCHANGED cl
  BY <1>1 DEF Files, Rets
<1>2. ASSUME NEW c \in Clients, ClientStep(c) \/ KillStep(c)
      PROVE  Dump!DumpNext \/ UNCHANGED <<Files, Rets>>
  <2>1. Outcome(c) /\ \A d \in Clients \ {c} : cl'[d] = cl[d]
    BY <1>2, Outcomes
  <2>2. /\ Files[c] = cl[c].file /\ Rets[c] = cl[c].ret
        /\ Files' = [Files EXCEPT ![c] = cl'[c].file]
        /\ Rets' = [Rets EXCEPT ![c] = cl'[c].ret]
        /\ cl'[c].file = cl[c].file => Files' = Files
        /\ cl'[c].ret = cl[c].ret => Rets' = Rets
    BY <2>1, OneOutput
  <2>3. CASE Quiet(c)
    BY <2>2, <2>3 DEF Quiet
  <2>4. CASE Fails(c)
    <3>1. Rets[c] = "none" /\ Rets' = [Rets EXCEPT ![c] = "failed"] /\ Files' = Files
      BY <2>2, <2>4 DEF Fails
    <3>2. Dump!GiveUp(c)
      BY <3>1 DEF Dump!GiveUp, Files, Rets
    <3>3. QED
      BY <3>2 DEF Dump!DumpNext
  <2>5. CASE Completes(c)
    <3>1. Files[c] = C!PartitionWords
      BY <2>2, <2>5, CompleteFile DEF Completes
    <3>2. Rets[c] = "none" /\ Rets' = [Rets EXCEPT ![c] = "ok"] /\ Files' = Files
      BY <2>2, <2>5 DEF Completes
    <3>3. Dump!Succeed(c)
      BY <3>1, <3>2 DEF Dump!Succeed, Files, Rets
    <3>4. QED
      BY <3>3 DEF Dump!DumpNext
  <2>6. CASE Adds(c)
    <3>1. PICK w \in Seq(Int) : w # <<>> /\ cl'[c].file = cl[c].file \o w
      BY <2>6 DEF Adds
    <3>2. PICK f \in Seq(Int) : f = cl[c].file
      BY RunTypes DEF Inv, Words
    <3>3. PICK n \in Len(f) + 1 .. Len(C!PartitionWords) :
            cl'[c].file = SubSeq(C!PartitionWords, 1, n)
      BY <2>6, <3>1, <3>2, AddedWords DEF Adds
    <3>4. /\ Rets[c] = "none" /\ Rets' = Rets /\ Files[c] = f
          /\ Files' = [Files EXCEPT ![c] = SubSeq(C!PartitionWords, 1, n)]
      BY <2>2, <2>6, <3>2, <3>3 DEF Adds
    <3>5. Dump!Copy(c)
      BY <3>3, <3>4 DEF Dump!Copy, Files, Rets
    <3>6. QED
      BY <3>5 DEF Dump!DumpNext
  <2>7. QED
    BY <2>1, <2>3, <2>4, <2>5, <2>6 DEF Outcome
<1>3. QED
  BY <1>1, <1>2 DEF Next, ServerStep, SystemStep, ResetStep, LossStep, vars

(* As long as the kernel writes into the server's block, no file ever      *)
(* holds a word that is not the partition's next sector, not even while    *)
(* the dump is running: the system implements the abstract dump.           *)
THEOREM SystemImplementsDump ==
  ~ShortRecv /\ C!Aligned(PartitionOffset) => (Spec /\ []~badCopy => Implements)
<1>1. SUFFICES ASSUME ~ShortRecv, C!Aligned(PartitionOffset)
               PROVE  Spec /\ []~badCopy => Implements
  OBVIOUS
<1>2. Init => Dump!DumpInit
  BY DEF Init, C!ClientInit, C!Start, Dump!DumpInit
<1>3. Inv /\ Inv' /\ ~badCopy /\ (~badCopy)' /\ [Next]_vars => [Dump!DumpNext]_<<Files, Rets>>
  BY <1>1, StepImplements
<1>4. Spec => []Inv
  BY Invariance
<1>5. QED
  BY <1>2, <1>3, <1>4, PTL DEF Spec, Implements, Dump!DumpSafety, Files, Rets
=============================================================================

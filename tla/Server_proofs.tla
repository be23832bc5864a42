---------------------------- MODULE Server_proofs ----------------------------
(***************************************************************************)
(* Proofs about the driver under any calls, and about the server: what its *)
(* own steps keep, whatever its clients send.  For every set of memory     *)
(* blocks, every geometry the callers pass and every set of clients.       *)
(***************************************************************************)
EXTENDS Server, SequenceTheorems, TLAPS

(* What the three invariants of the pool need of each other: the type, the *)
(* backing of a set pool and the accounting of all blocks.                 *)
PoolInv == KPool!PoolType /\ KPool!PoolBacked /\ KPool!PoolAccounted

(* The inductive invariant of the driver.  StoppedHoldsNothing follows     *)
(* from the accounting only if a stopped module has no set pool.           *)
DriverInv == DriverType /\ PoolInv /\ (~loaded => kpool.init = 0)

(* The code of a failed call is not the uid of a block. *)
LEMMA ErrorIsNoBlock == Error \in Int /\ Error # 0 /\ Error \notin Blocks
  BY BlocksAssumption DEF Error

(* A call of psvemmcInitialize keeps the pool's invariant, whether it       *)
(* succeeds, is refused or fails at either system call.                    *)
LEMMA InitializeKeepsPoolInv ==
  ASSUME PoolInv, NEW bps, NEW spc \in Int, NEW ret,
         KPool!initializePool(bps, spc, ret)
  PROVE  PoolInv'
<1> USE DEF PoolInv, KPool!PoolType, KPool!PoolBacked, KPool!PoolAccounted,
            KPool!Live, KPool!ClusterSize
<1>1. CASE UNCHANGED kpool
  BY <1>1
<1>2. CASE /\ kpool.init = 0
           /\ bps = SectorSize
           /\ kpool' = [kpool EXCEPT !.bps = bps, !.spc = spc, !.uid = Error]
  <2>1. /\ kpool'.init = 0 /\ kpool'.blocks = kpool.blocks /\ kpool'.lost = kpool.lost
        /\ KPool!PoolType'
    BY <1>2, ErrorIsNoBlock
  <2>2. QED
    BY <1>2, <2>1
<1>3. ASSUME NEW b \in KPool!Allocatable(bps * spc),
             kpool.init = 0,
             bps = SectorSize,
             kpool' = [kpool EXCEPT !.bps = bps, !.spc = spc, !.uid = b,
                                    !.blocks[b] = bps * spc, !.lost = @ \cup {b}]
      PROVE  PoolInv'
  <2>1. b \in Blocks /\ bps * spc \in Nat \ {0} /\ kpool.blocks[b] = 0
    BY <1>3 DEF KPool!Allocatable, SectorSize
  <2>2. KPool!PoolType'
    BY <1>3, <2>1
  <2>3. KPool!PoolBacked'
    BY <1>3, <2>1
  <2>4. KPool!PoolAccounted'
    BY <1>3, <2>1
  <2>5. QED
    BY <2>2, <2>3, <2>4
<1>4. ASSUME NEW b \in KPool!Allocatable(bps * spc),
             kpool.init = 0,
             bps = SectorSize,
             kpool' = [kpool EXCEPT !.bps = bps, !.spc = spc, !.uid = b,
                                    !.blocks[b] = bps * spc, !.ptr = b, !.init = 1]
      PROVE  PoolInv'
  <2>1. b \in Blocks /\ bps * spc \in Nat \ {0} /\ kpool.blocks[b] = 0
    BY <1>4 DEF KPool!Allocatable, SectorSize
  <2>2. KPool!PoolType'
    BY <1>4, <2>1
  <2>3. KPool!PoolBacked'
    BY <1>4, <2>1
  <2>4. KPool!PoolAccounted'
    BY <1>4, <2>1
  <2>5. QED
    BY <2>2, <2>3, <2>4
<1>5. QED
  BY <1>1, <1>2, <1>3, <1>4 DEF KPool!initializePool

(* So does a call of psvemmcDeinitialize. *)
LEMMA DeinitializeKeepsPoolInv ==
  ASSUME PoolInv, NEW ret, KPool!deinitializePool(ret)
  PROVE  PoolInv'
<1> USE DEF PoolInv, KPool!PoolType, KPool!PoolBacked, KPool!PoolAccounted,
            KPool!Live, KPool!ClusterSize
<1>1. CASE UNCHANGED kpool
  BY <1>1
<1>2. CASE /\ kpool.init # 0
           /\ kpool' = [kpool EXCEPT !.blocks[kpool.uid] = 0, !.init = 0]
  BY <1>2
<1>3. QED
  BY <1>1, <1>2 DEF KPool!deinitializePool

(* The inductive invariant holds when the module's globals are fresh. *)
LEMMA InitDriverInv == DriverInit => DriverInv
<1> SUFFICES ASSUME DriverInit
             PROVE  DriverInv
  OBVIOUS
<1>1. /\ kpool.init = 0 /\ kpool.lost = {} /\ kpool.blocks = [b \in Blocks |-> 0]
      /\ KPool!PoolType
  BY DEF DriverInit, KPool!PoolInit, KPool!Blank, KPool!PoolType
<1>2. KPool!PoolBacked
  BY <1>1 DEF KPool!PoolBacked
<1>3. KPool!PoolAccounted
  BY <1>1 DEF KPool!PoolAccounted, KPool!Live
<1>4. ctx \in [Devices -> {0, 1}] /\ loaded = FALSE
  BY DEF DriverInit
<1>5. QED
  BY <1>1, <1>2, <1>3, <1>4 DEF DriverInv, DriverType, PoolInv

(* Every step of the driver keeps the inductive invariant. *)
LEMMA NextDriverInv == DriverInv /\ [DriverNext]_dvars => DriverInv'
<1> SUFFICES ASSUME DriverInv, [DriverNext]_dvars
             PROVE  DriverInv'
  OBVIOUS
<1> USE DEF DriverInv, DriverType
<1>1. CASE module_start
  <2>1. ctx' \in [Devices -> {0, 1}]
    BY <1>1 DEF module_start, initialize_emmc_globals, initialize_gc_globals,
                initialize_gc_mmc_device, initialize_gc_sd_device,
                initialize_ms_globals, MmcContext, Devices
  <2>2. UNCHANGED kpool /\ loaded' = TRUE
    BY <1>1 DEF module_start
  <2>3. QED
    BY <2>1, <2>2 DEF PoolInv, KPool!PoolType, KPool!PoolBacked, KPool!PoolAccounted,
                      KPool!Live, KPool!ClusterSize
<1>2. CASE module_stop
  <2>1. ctx' \in [Devices -> {0, 1}] /\ loaded' = FALSE /\ kpool'.init = 0
    BY <1>2 DEF module_stop, KPool!Blank
  <2>2. PoolInv'
    BY <1>2 DEF module_stop, PoolInv, KPool!Blank, KPool!PoolType, KPool!PoolBacked,
                KPool!PoolAccounted, KPool!Live
  <2>3. QED
    BY <2>1, <2>2 DEF PoolInv
<1>3. ASSUME NEW bps \in {0, SectorSize}, NEW spc \in Geometries, NEW ret \in Results,
             loaded /\ psvemmcInitialize(bps, spc, ret)
      PROVE  DriverInv'
  <2>1. PoolInv'
    BY <1>3, InitializeKeepsPoolInv, GeometriesAssumption DEF psvemmcInitialize
  <2>2. QED
    BY <1>3, <2>1 DEF psvemmcInitialize, PoolInv
<1>4. ASSUME NEW ret \in Results, loaded /\ psvemmcDeinitialize(ret)
      PROVE  DriverInv'
  <2>1. PoolInv'
    BY <1>4, DeinitializeKeepsPoolInv DEF psvemmcDeinitialize
  <2>2. QED
    BY <1>4, <2>1 DEF psvemmcDeinitialize, PoolInv
<1>5. CASE UNCHANGED dvars
  BY <1>5 DEF dvars, PoolInv, KPool!PoolType, KPool!PoolBacked, KPool!PoolAccounted,
              KPool!Live, KPool!ClusterSize
<1>6. QED
  BY <1>1, <1>2, <1>3, <1>4, <1>5 DEF DriverNext

(* The inductive invariant holds in every state of the driver. *)
LEMMA DriverInvariance == DriverSpec => []DriverInv
  BY InitDriverInv, NextDriverInv, PTL DEF DriverSpec

(* Type correctness of the driver's globals. *)
THEOREM DriverTypeCorrect == DriverSpec => []DriverType
<1>1. DriverInv => DriverType
  BY DEF DriverInv
<1>2. QED
  BY <1>1, DriverInvariance, PTL

(* A kernel pool marked as set up owns a block exactly as long as the      *)
(* transfers of readCluster, whatever calls failed before.                 *)
THEOREM KernelPoolAlwaysBacked == DriverSpec => []KernelPoolBacked
<1>1. DriverInv => KernelPoolBacked
  BY DEF DriverInv, PoolInv, KernelPoolBacked
<1>2. QED
  BY <1>1, DriverInvariance, PTL

(* Kernel memory is only ever lost by a failed memory-manager call.        *)
THEOREM KernelPoolAlwaysAccounted == DriverSpec => []KernelPoolAccounted
<1>1. DriverInv => KernelPoolAccounted
  BY DEF DriverInv, PoolInv, KernelPoolAccounted
<1>2. QED
  BY <1>1, DriverInvariance, PTL

(* A stopped module has returned its pool.                                 *)
THEOREM StoppedAlwaysHoldsNothing == DriverSpec => []StoppedHoldsNothing
<1>1. DriverInv => StoppedHoldsNothing
  BY DEF DriverInv, PoolInv, StoppedHoldsNothing, KPool!PoolAccounted
<1>2. QED
  BY <1>1, DriverInvariance, PTL

-----------------------------------------------------------------------------
(* Sequences *)

(* The rest of a sequence after its first n elements, and after its first. *)
LEMMA RestProperties ==
  ASSUME NEW r \in Seq(Int), NEW n \in Nat, n <= Len(r)
  PROVE  /\ SubSeq(r, n + 1, Len(r)) \in Seq(Int)
         /\ Len(SubSeq(r, n + 1, Len(r))) = Len(r) - n
         /\ \A k \in 1 .. Len(r) - n : SubSeq(r, n + 1, Len(r))[k] = r[n + k]
         /\ Len(r) = n => SubSeq(r, n + 1, Len(r)) = <<>>
<1>1. PICK l \in Nat : l = Len(r)
  BY LenProperties
<1>2. \A i \in n + 1 .. l : r[i] \in Int
  BY <1>1, ElementOfSeq
<1>3. n + 1 \in Int /\ l \in Int
  BY <1>1
<1>4. PICK m \in Int : m = n + 1
  BY <1>3
<1>5. /\ SubSeq(r, m, l) \in Seq(Int)
      /\ Len(SubSeq(r, m, l)) = IF m <= l THEN l - m + 1 ELSE 0
      /\ \A i \in 1 .. l - m + 1 : SubSeq(r, m, l)[i] = r[m + i - 1]
  BY <1>2, <1>3, <1>4, SubSeqProperties
<1>6. \A k \in 1 .. l - n : SubSeq(r, m, l)[k] = r[n + k]
  BY <1>4, <1>5
<1>7. l = n => SubSeq(r, m, l) = <<>>
  BY <1>1, <1>4, SubSeqEmpty
<1>8. Len(SubSeq(r, m, l)) = l - n
  BY <1>1, <1>4, <1>5
<1>9. QED
  BY <1>1, <1>4, <1>5, <1>6, <1>7, <1>8

(* Short tuples of integers as sequences. *)
LEMMA Tuples ==
  ASSUME NEW a \in Int, NEW b \in Int, NEW c \in Int
  PROVE  /\ <<a>> # <<>> /\ <<a, b>> # <<>> /\ <<a, b, c>> # <<>>
         /\ <<a>> \in Seq(Int) /\ Len(<<a>>) = 1 /\ <<a>>[1] = a
         /\ <<a, b>> \in Seq(Int) /\ Len(<<a, b>>) = 2 /\ <<a, b>>[1] = a
         /\ <<a, b, c>> \in Seq(Int) /\ Len(<<a, b, c>>) = 3
         /\ <<a, b, c>>[1] = a /\ <<a, b, c>>[2] = b /\ <<a, b, c>>[3] = c
  OBVIOUS

-----------------------------------------------------------------------------
(* The connections *)

(* A connection whose words to the client are of any set that has the      *)
(* empty sequence: what the server sends matters only to a client that     *)
(* looks at it.                                                            *)
Conn(S) == [cli : BOOLEAN, srv : {"none", "backlog", "open", "closed"},
            rst : BOOLEAN, c2s : Seq(Int), s2c : S]

Conns(S) == [Clients -> Conn(S)]

LinkShape == \E S : <<>> \in S /\ link \in Conns(S)

(* Settling a connection at most empties it, and empties a reset one. *)
LEMMA SettledConn ==
  ASSUME NEW S, <<>> \in S, NEW l \in Conn(S)
  PROVE  /\ Link!Settled(l) \in Conn(S)
         /\ Link!Settled(l).cli = l.cli /\ Link!Settled(l).srv = l.srv
         /\ Link!Settled(l).rst = l.rst
         /\ Link!Settled(l).c2s \in {l.c2s, <<>>}
         /\ l.rst => Link!Settled(l).c2s = <<>>
<1>1. PICK m : m = [l EXCEPT !.c2s = <<>>, !.s2c = <<>>]
  OBVIOUS
<1>2. <<>> \in Seq(Int)
  OBVIOUS
<1>3. /\ m \in Conn(S) /\ m.cli = l.cli /\ m.srv = l.srv /\ m.rst = l.rst
      /\ m.c2s = <<>>
  BY <1>1, <1>2 DEF Conn
<1>4. Link!Settled(l) = IF l.rst \/ (~l.cli /\ l.srv = "closed") THEN m ELSE l
  BY <1>1 DEF Link!Settled
<1>5. CASE l.rst \/ (~l.cli /\ l.srv = "closed")
  BY <1>3, <1>4, <1>5
<1>6. CASE ~(l.rst \/ (~l.cli /\ l.srv = "closed"))
  BY <1>4, <1>6
<1>7. QED
  BY <1>5, <1>6

(* A reset empties the connection and leaves its ends as they are. *)
LEMMA ResetLink ==
  ASSUME NEW S, <<>> \in S, link \in Conns(S), NEW c \in Clients, Link!Reset(c)
  PROVE  /\ link' \in Conns(S)
         /\ \A d \in Clients \ {c} : link'[d] = link[d]
         /\ link'[c].cli = link[c].cli /\ link'[c].srv = link[c].srv
         /\ link'[c].rst /\ link'[c].c2s = <<>>
<1> DEFINE l == [link[c] EXCEPT !.rst = TRUE]
<1>1. l \in Conn(S) /\ l.cli = link[c].cli /\ l.srv = link[c].srv /\ l.rst
  BY DEF Conn, Conns
<1>2. link' = [link EXCEPT ![c] = Link!Settled(l)]
  BY DEF Link!Reset
<1> HIDE DEF l
<1>3. QED
  BY <1>1, <1>2, SettledConn DEF Conns

(* An end that closes leaves the other end and at most empties the rest. *)
LEMMA CliCloseLink ==
  ASSUME NEW S, <<>> \in S, link \in Conns(S), NEW c \in Clients, Link!CliClose(c)
  PROVE  /\ link' \in Conns(S)
         /\ \A d \in Clients \ {c} : link'[d] = link[d]
         /\ ~link'[c].cli /\ link'[c].srv = link[c].srv /\ link'[c].rst = link[c].rst
         /\ link'[c].c2s \in {link[c].c2s, <<>>}
<1> DEFINE l == [link[c] EXCEPT !.cli = FALSE]
<1>1. /\ l \in Conn(S) /\ ~l.cli /\ l.srv = link[c].srv /\ l.rst = link[c].rst
      /\ l.c2s = link[c].c2s
  BY DEF Conn, Conns
<1>2. link' = [link EXCEPT ![c] = Link!Settled(l)]
  BY DEF Link!CliClose, Link!CliClosed
<1> HIDE DEF l
<1>3. QED
  BY <1>1, <1>2, SettledConn DEF Conns

(* What each operation on a connection leaves of its shape: close, ...     *)
LEMMA SrvCloseLink ==
  ASSUME NEW S, <<>> \in S, link \in Conns(S), NEW c \in Clients, Link!SrvClose(c)
  PROVE  /\ link' \in Conns(S)
         /\ \A d \in Clients \ {c} : link'[d] = link[d]
         /\ link'[c].srv = "closed" /\ link'[c].cli = link[c].cli /\ link'[c].rst = link[c].rst
         /\ link'[c].c2s \in {link[c].c2s, <<>>}
<1> DEFINE l == [link[c] EXCEPT !.srv = "closed"]
<1>1. /\ l \in Conn(S) /\ l.srv = "closed" /\ l.cli = link[c].cli /\ l.rst = link[c].rst
      /\ l.c2s = link[c].c2s
  BY DEF Conn, Conns
<1>2. link' = [link EXCEPT ![c] = Link!Settled(l)]
  BY DEF Link!SrvClose, Link!SrvClosed
<1> HIDE DEF l
<1>3. QED
  BY <1>1, <1>2, SettledConn DEF Conns

(* The end of the process leaves no connection that the server could use. *)
LEMMA CloseAllLink ==
  ASSUME NEW S, <<>> \in S, link \in Conns(S), Link!CloseAll
  PROVE  /\ link' \in Conns(S)
         /\ \A d \in Clients :
               /\ link'[d].srv \in {"none", "closed"}
               /\ link'[d].c2s \in {link[d].c2s, <<>>}
               /\ link'[d].srv = "none" => link'[d] = link[d]
               /\ link[d].srv \in {"none", "closed"} => link'[d] = link[d]
               /\ link'[d].rst => link[d].rst \/ link'[d].c2s = <<>>
<1> SUFFICES ASSUME NEW d \in Clients
             PROVE  /\ link'[d] \in Conn(S) /\ link'[d].srv \in {"none", "closed"}
                    /\ link'[d].c2s \in {link[d].c2s, <<>>}
                    /\ link'[d].srv = "none" => link'[d] = link[d]
                    /\ link[d].srv \in {"none", "closed"} => link'[d] = link[d]
                    /\ link'[d].rst => link[d].rst \/ link'[d].c2s = <<>>
  BY DEF Link!CloseAll, Conns
<1>1. PICK l : l = link[d]
  OBVIOUS
<1>2. l \in Conn(S)
  BY <1>1 DEF Conns
<1>3. PICK m : m = [l EXCEPT !.srv = "closed"]
  OBVIOUS
<1>4. PICK n : n = [l EXCEPT !.srv = "closed", !.rst = TRUE]
  OBVIOUS
<1>5. /\ m \in Conn(S) /\ n \in Conn(S) /\ m.srv = "closed" /\ n.srv = "closed"
      /\ m.c2s = l.c2s /\ n.c2s = l.c2s /\ m.rst = l.rst /\ n.rst
  BY <1>2, <1>3, <1>4 DEF Conn
<1>6. link'[d] = IF l.srv = "open" THEN Link!Settled(m)
                 ELSE IF l.srv = "backlog" THEN Link!Settled(n) ELSE l
  BY <1>1, <1>3, <1>4 DEF Link!CloseAll, Link!SrvClosed, Link!ListenerClosed
<1>7. l.srv \in {"none", "backlog", "open", "closed"}
  BY <1>2 DEF Conn
<1>8. QED
  BY <1>1, <1>2, <1>5, <1>6, <1>7, SettledConn

(* The end of the listening socket takes the connections of the backlog. *)
LEMMA CloseListenerLink ==
  ASSUME NEW S, <<>> \in S, link \in Conns(S), Link!CloseListener
  PROVE  /\ link' \in Conns(S)
         /\ \A d \in Clients :
               \/ link'[d] = link[d] /\ link[d].srv # "backlog"
               \/ /\ link[d].srv = "backlog" /\ link'[d].srv = "closed"
                  /\ link'[d].rst /\ link'[d].c2s = <<>>
<1> SUFFICES ASSUME NEW d \in Clients
             PROVE  /\ link'[d] \in Conn(S)
                    /\ \/ link'[d] = link[d] /\ link[d].srv # "backlog"
                       \/ /\ link[d].srv = "backlog" /\ link'[d].srv = "closed"
                          /\ link'[d].rst /\ link'[d].c2s = <<>>
  BY DEF Link!CloseListener, Conns
<1>1. PICK l : l = link[d]
  OBVIOUS
<1>2. l \in Conn(S)
  BY <1>1 DEF Conns
<1>3. PICK n : n = [l EXCEPT !.srv = "closed", !.rst = TRUE]
  OBVIOUS
<1>4. n \in Conn(S) /\ n.srv = "closed" /\ n.rst
  BY <1>2, <1>3 DEF Conn
<1>5. link'[d] = IF l.srv = "backlog" THEN Link!Settled(n) ELSE l
  BY <1>1, <1>3 DEF Link!CloseListener, Link!ListenerClosed
<1>6. QED
  BY <1>1, <1>2, <1>4, <1>5, SettledConn

(* A connection request, an accept, and the transfers. *)
LEMMA ConnectLink ==
  ASSUME NEW S, <<>> \in S, link \in Conns(S), NEW c \in Clients, Link!Connect(c)
  PROVE  /\ link' \in Conns(S)
         /\ \A d \in Clients \ {c} : link'[d] = link[d]
         /\ link'[c].srv = "backlog" /\ ~link'[c].rst /\ link'[c].c2s = <<>>
<1>1. PICK l : l = [Link!NoConnection EXCEPT !.cli = TRUE, !.srv = "backlog"]
  OBVIOUS
<1>2. link' = [link EXCEPT ![c] = l]
  BY <1>1 DEF Link!Connect
<1>3. <<>> \in Seq(Int)
  OBVIOUS
<1>4. l \in Conn(S) /\ l.srv = "backlog" /\ ~l.rst /\ l.c2s = <<>>
  BY <1>1, <1>3 DEF Conn, Link!NoConnection
<1>5. QED
  BY <1>2, <1>4 DEF Conns

(* ... accept, ...                                                         *)
LEMMA AcceptLink ==
  ASSUME NEW S, link \in Conns(S), NEW c \in Clients, Link!Accept(c)
  PROVE  /\ link' \in Conns(S)
         /\ \A d \in Clients \ {c} : link'[d] = link[d]
         /\ link'[c].srv = "open" /\ link'[c].rst = link[c].rst /\ link'[c].c2s = link[c].c2s
  BY DEF Conn, Conns, Link!Accept

(* ... a receive of the server, ...                                        *)
LEMMA SrvTakeLink ==
  ASSUME NEW S, link \in Conns(S), NEW c \in Clients, NEW n \in Nat,
         n <= Len(link[c].c2s), Link!SrvTake(c, n)
  PROVE  /\ link' \in Conns(S)
         /\ \A d \in Clients \ {c} : link'[d] = link[d]
         /\ link'[c].srv = link[c].srv /\ link'[c].rst = link[c].rst
         /\ link'[c].c2s = SubSeq(link[c].c2s, n + 1, Len(link[c].c2s))
<1>1. link[c].c2s \in Seq(Int)
  BY DEF Conns, Conn
<1>2. SubSeq(link[c].c2s, n + 1, Len(link[c].c2s)) \in Seq(Int)
  BY <1>1, SubSeqProperties
<1>3. QED
  BY <1>2 DEF Conn, Conns, Link!SrvTake, Link!Rest

(* ... a send of the server, ...                                           *)
LEMMA SrvSendLink ==
  ASSUME NEW S, link \in Conns(S), NEW c \in Clients, NEW w, Link!SrvSend(c, w)
  PROVE  /\ link' \in Conns(S \cup {link[c].s2c \o w})
         /\ \A d \in Clients : /\ link'[d].srv = link[d].srv /\ link'[d].rst = link[d].rst
                               /\ link'[d].c2s = link[d].c2s
  BY DEF Conn, Conns, Link!SrvSend

(* ... a receive of the client, ...                                        *)
LEMMA CliTakeLink ==
  ASSUME NEW S, link \in Conns(S), NEW c \in Clients, NEW n, Link!CliTake(c, n)
  PROVE  /\ link' \in Conns(S \cup {Link!Rest(link[c].s2c, n)})
         /\ \A d \in Clients : /\ link'[d].srv = link[d].srv /\ link'[d].rst = link[d].rst
                               /\ link'[d].c2s = link[d].c2s
  BY DEF Conn, Conns, Link!CliTake

(* ... and a send of the client.                                           *)
LEMMA CliSendLink ==
  ASSUME NEW S, link \in Conns(S), NEW c \in Clients, NEW w \in Seq(Int), Link!CliSend(c, w)
  PROVE  /\ link' \in Conns(S)
         /\ \A d \in Clients \ {c} : link'[d] = link[d]
         /\ link'[c].srv = link[c].srv /\ link'[c].rst = link[c].rst
         /\ link'[c].c2s = link[c].c2s \o w
<1>1. link[c].c2s \o w \in Seq(Int)
  BY ConcatProperties DEF Conns, Conn
<1>2. QED
  BY <1>1 DEF Conn, Conns, Link!CliSend

-----------------------------------------------------------------------------
(* The user's pool *)

UserInv == UPool!PoolType /\ UPool!PoolBacked /\ UPool!PoolAccounted

(* initializePool and deinitializePool, the server's copies of the two     *)
(* functions, keep the same invariant of the user's pool.                  *)
LEMMA UserInitializeKeepsInv ==
  ASSUME UserInv, NEW bps, NEW spc \in Int, NEW ret,
         initializePool(bps, spc, ret)
  PROVE  UserInv'
<1> USE DEF UserInv, UPool!PoolType, UPool!PoolBacked, UPool!PoolAccounted,
            UPool!Live, UPool!ClusterSize
<1>1. CASE UNCHANGED upool
  BY <1>1
<1>2. CASE /\ upool.init = 0
           /\ bps = SectorSize
           /\ upool' = [upool EXCEPT !.bps = bps, !.spc = spc, !.uid = Error]
  <2>1. /\ upool'.init = 0 /\ upool'.blocks = upool.blocks /\ upool'.lost = upool.lost
        /\ UPool!PoolType'
    BY <1>2, ErrorIsNoBlock
  <2>2. QED
    BY <1>2, <2>1
<1>3. ASSUME NEW b \in UPool!Allocatable(bps * spc),
             upool.init = 0,
             bps = SectorSize,
             upool' = [upool EXCEPT !.bps = bps, !.spc = spc, !.uid = b,
                                    !.blocks[b] = bps * spc, !.lost = @ \cup {b}]
      PROVE  UserInv'
  <2>1. b \in Blocks /\ bps * spc \in Nat \ {0} /\ upool.blocks[b] = 0
    BY <1>3 DEF UPool!Allocatable, SectorSize
  <2>2. UPool!PoolType'
    BY <1>3, <2>1
  <2>3. UPool!PoolBacked'
    BY <1>3, <2>1
  <2>4. UPool!PoolAccounted'
    BY <1>3, <2>1
  <2>5. QED
    BY <2>2, <2>3, <2>4
<1>4. ASSUME NEW b \in UPool!Allocatable(bps * spc),
             upool.init = 0,
             bps = SectorSize,
             upool' = [upool EXCEPT !.bps = bps, !.spc = spc, !.uid = b,
                                    !.blocks[b] = bps * spc, !.ptr = b, !.init = 1]
      PROVE  UserInv'
  <2>1. b \in Blocks /\ bps * spc \in Nat \ {0} /\ upool.blocks[b] = 0
    BY <1>4 DEF UPool!Allocatable, SectorSize
  <2>2. UPool!PoolType'
    BY <1>4, <2>1
  <2>3. UPool!PoolBacked'
    BY <1>4, <2>1
  <2>4. UPool!PoolAccounted'
    BY <1>4, <2>1
  <2>5. QED
    BY <2>2, <2>3, <2>4
<1>5. QED
  BY <1>1, <1>2, <1>3, <1>4 DEF initializePool, UPool!initializePool

(* The release of the server's pool keeps it backed and accounted.         *)
LEMMA UserDeinitializeKeepsInv ==
  ASSUME UserInv, NEW ret, deinitializePool(ret)
  PROVE  UserInv'
<1> USE DEF UserInv, UPool!PoolType, UPool!PoolBacked, UPool!PoolAccounted,
            UPool!Live, UPool!ClusterSize
<1>1. CASE UNCHANGED upool
  BY <1>1
<1>2. CASE /\ upool.init # 0
           /\ upool' = [upool EXCEPT !.blocks[upool.uid] = 0, !.init = 0]
  BY <1>2
<1>3. QED
  BY <1>1, <1>2 DEF deinitializePool, UPool!deinitializePool

(* What the result of a call says of the pool after it. *)
LEMMA UserInitializeEffect ==
  ASSUME UserInv, NEW bps, NEW spc \in Int, NEW ret, initializePool(bps, spc, ret)
  PROVE  /\ ret = 0 => /\ bps = SectorSize /\ bps * spc \in Nat \ {0}
                       /\ upool'.init = 1 /\ upool'.bps = bps /\ upool'.spc = spc
         /\ ret = Error => /\ bps = SectorSize /\ upool'.init = upool.init
                           /\ upool'.bps = bps /\ upool'.spc = spc
         /\ ret \notin {0, Error} => /\ upool' = upool
                                     /\ upool.init = 0 => bps # SectorSize
<1> USE DEF UserInv, UPool!PoolType
<1>1. CASE upool.init # 0 /\ ret = -1 /\ UNCHANGED upool
  BY <1>1 DEF Error
<1>2. CASE upool.init = 0 /\ bps # SectorSize /\ ret = -2 /\ UNCHANGED upool
  BY <1>2 DEF Error
<1>3. CASE /\ bps = SectorSize /\ ret = Error
           /\ upool' = [upool EXCEPT !.bps = bps, !.spc = spc, !.uid = Error]
  <2>1. upool'.init = upool.init /\ upool'.bps = bps /\ upool'.spc = spc
    BY <1>3
  <2>2. QED
    BY <1>3, <2>1 DEF Error
<1>4. ASSUME NEW b \in UPool!Allocatable(bps * spc), bps = SectorSize, ret = Error,
             upool' = [upool EXCEPT !.bps = bps, !.spc = spc, !.uid = b,
                                    !.blocks[b] = bps * spc, !.lost = @ \cup {b}]
      PROVE  ret = Error /\ upool'.init = upool.init /\ upool'.bps = bps /\ upool'.spc = spc
  BY <1>4
<1>5. ASSUME NEW b \in UPool!Allocatable(bps * spc), bps = SectorSize, ret = 0,
             upool' = [upool EXCEPT !.bps = bps, !.spc = spc, !.uid = b,
                                    !.blocks[b] = bps * spc, !.ptr = b, !.init = 1]
      PROVE  /\ ret = 0 /\ bps * spc \in Nat \ {0}
             /\ upool'.init = 1 /\ upool'.bps = bps /\ upool'.spc = spc
  <2>1. bps * spc \in Nat \ {0}
    BY <1>5 DEF UPool!Allocatable, SectorSize
  <2>2. upool'.init = 1 /\ upool'.bps = bps /\ upool'.spc = spc
    BY <1>5
  <2>3. QED
    BY <1>5, <2>1, <2>2
<1>6. \/ upool.init # 0 /\ ret = -1 /\ UNCHANGED upool
      \/ upool.init = 0 /\ bps # SectorSize /\ ret = -2 /\ UNCHANGED upool
      \/ /\ bps = SectorSize /\ ret = Error
         /\ upool' = [upool EXCEPT !.bps = bps, !.spc = spc, !.uid = Error]
      \/ /\ bps = SectorSize /\ ret = Error
         /\ upool'.init = upool.init /\ upool'.bps = bps /\ upool'.spc = spc
      \/ /\ bps = SectorSize /\ ret = 0 /\ bps * spc \in Nat \ {0}
         /\ upool'.init = 1 /\ upool'.bps = bps /\ upool'.spc = spc
  BY <1>4, <1>5, Zenon DEF initializePool, UPool!initializePool
<1>7. QED
  BY <1>1, <1>2, <1>3, <1>6 DEF Error

(* What a release of the server's pool and the two system calls for the    *)
(* driver's pool do to flag and geometry, by their results.                *)
LEMMA UserDeinitializeEffect ==
  ASSUME UserInv, NEW ret, deinitializePool(ret)
  PROVE  /\ upool'.bps = upool.bps /\ upool'.spc = upool.spc
         /\ upool'.init = IF ret = 0 THEN 0 ELSE upool.init
         /\ ret \notin {0, Error} => upool.init = 0
<1>1. CASE UNCHANGED upool /\ ret \in {-1, Error} /\ (ret # Error => upool.init = 0)
  BY <1>1 DEF Error
<1>2. CASE ret = 0 /\ upool' = [upool EXCEPT !.blocks[upool.uid] = 0, !.init = 0]
  BY <1>2 DEF UserInv, UPool!PoolType
<1>3. QED
  BY <1>1, <1>2 DEF deinitializePool, UPool!deinitializePool

(* What a result of psvemmcInitialize says about the kernel's pool, ... *)
LEMMA KernelInitializeEffect ==
  ASSUME PoolInv, NEW bps, NEW spc \in Int, NEW ret, psvemmcInitialize(bps, spc, ret)
  PROVE  /\ ret = 0 => /\ bps = SectorSize /\ bps * spc \in Nat \ {0}
                       /\ kpool'.init = 1 /\ kpool'.bps = bps /\ kpool'.spc = spc
         /\ ret = Error => /\ bps = SectorSize /\ kpool'.init = kpool.init
                           /\ kpool'.bps = bps /\ kpool'.spc = spc
         /\ ret \notin {0, Error} => /\ kpool' = kpool
                                     /\ kpool.init = 0 => bps # SectorSize
<1> USE DEF PoolInv, KPool!PoolType
<1>1. CASE kpool.init # 0 /\ ret = -1 /\ UNCHANGED kpool
  BY <1>1 DEF Error
<1>2. CASE kpool.init = 0 /\ bps # SectorSize /\ ret = -2 /\ UNCHANGED kpool
  BY <1>2 DEF Error
<1>3. CASE /\ bps = SectorSize /\ ret = Error
           /\ kpool' = [kpool EXCEPT !.bps = bps, !.spc = spc, !.uid = Error]
  <2>1. kpool'.init = kpool.init /\ kpool'.bps = bps /\ kpool'.spc = spc
    BY <1>3
  <2>2. QED
    BY <1>3, <2>1 DEF Error
<1>4. ASSUME NEW b \in KPool!Allocatable(bps * spc), bps = SectorSize, ret = Error,
             kpool' = [kpool EXCEPT !.bps = bps, !.spc = spc, !.uid = b,
                                    !.blocks[b] = bps * spc, !.lost = @ \cup {b}]
      PROVE  ret = Error /\ kpool'.init = kpool.init /\ kpool'.bps = bps /\ kpool'.spc = spc
  BY <1>4
<1>5. ASSUME NEW b \in KPool!Allocatable(bps * spc), bps = SectorSize, ret = 0,
             kpool' = [kpool EXCEPT !.bps = bps, !.spc = spc, !.uid = b,
                                    !.blocks[b] = bps * spc, !.ptr = b, !.init = 1]
      PROVE  /\ ret = 0 /\ bps * spc \in Nat \ {0}
             /\ kpool'.init = 1 /\ kpool'.bps = bps /\ kpool'.spc = spc
  <2>1. bps * spc \in Nat \ {0}
    BY <1>5 DEF KPool!Allocatable, SectorSize
  <2>2. kpool'.init = 1 /\ kpool'.bps = bps /\ kpool'.spc = spc
    BY <1>5
  <2>3. QED
    BY <1>5, <2>1, <2>2
<1>6. \/ kpool.init # 0 /\ ret = -1 /\ UNCHANGED kpool
      \/ kpool.init = 0 /\ bps # SectorSize /\ ret = -2 /\ UNCHANGED kpool
      \/ /\ bps = SectorSize /\ ret = Error
         /\ kpool' = [kpool EXCEPT !.bps = bps, !.spc = spc, !.uid = Error]
      \/ /\ bps = SectorSize /\ ret = Error
         /\ kpool'.init = kpool.init /\ kpool'.bps = bps /\ kpool'.spc = spc
      \/ /\ bps = SectorSize /\ ret = 0 /\ bps * spc \in Nat \ {0}
         /\ kpool'.init = 1 /\ kpool'.bps = bps /\ kpool'.spc = spc
  BY <1>4, <1>5, Zenon DEF psvemmcInitialize, KPool!initializePool
<1>7. QED
  BY <1>1, <1>2, <1>3, <1>6 DEF Error

(* ... and a result of psvemmcDeinitialize. *)
LEMMA KernelDeinitializeEffect ==
  ASSUME PoolInv, NEW ret, psvemmcDeinitialize(ret)
  PROVE  /\ kpool'.bps = kpool.bps /\ kpool'.spc = kpool.spc
         /\ kpool'.init = IF ret = 0 THEN 0 ELSE kpool.init
         /\ ret \notin {0, Error} => kpool.init = 0
<1>1. CASE UNCHANGED kpool /\ ret \in {-1, Error} /\ (ret # Error => kpool.init = 0)
  BY <1>1 DEF Error
<1>2. CASE ret = 0 /\ kpool' = [kpool EXCEPT !.blocks[kpool.uid] = 0, !.init = 0]
  BY <1>2 DEF PoolInv, KPool!PoolType
<1>3. QED
  BY <1>1, <1>2 DEF psvemmcDeinitialize, KPool!deinitializePool

-----------------------------------------------------------------------------
(* The handlers of the device families *)

SectorReads   == {READ_SECTOR["emmc"], READ_SECTOR["ms"], READ_SECTOR["gc"]}
ClusterReads  == {READ_CLUSTER["emmc"], READ_CLUSTER["ms"], READ_CLUSTER["gc"]}
SectorWrites  == {WRITE_SECTOR["emmc"], WRITE_SECTOR["ms"], WRITE_SECTOR["gc"]}
ClusterWrites == {WRITE_CLUSTER["emmc"], WRITE_CLUSTER["ms"], WRITE_CLUSTER["gc"]}
ClusterCommands == ClusterReads \cup ClusterWrites

(* The numbers of the commands. *)
LEMMA CommandNumbers ==
  /\ SectorReads = {4, 8, 12} /\ ClusterReads = {5, 9, 13}
  /\ SectorWrites = {6, 10, 14} /\ ClusterWrites = {7, 11, 15}
  /\ ClusterCommands = {5, 9, 13, 7, 11, 15}
  /\ \A d \in Devices : /\ READ_SECTOR[d] \in SectorReads /\ READ_CLUSTER[d] \in ClusterReads
                        /\ WRITE_SECTOR[d] \in SectorWrites /\ WRITE_CLUSTER[d] \in ClusterWrites
<1>1. /\ SectorReads = {4, 8, 12} /\ ClusterReads = {5, 9, 13}
      /\ SectorWrites = {6, 10, 14} /\ ClusterWrites = {7, 11, 15}
  BY DEF SectorReads, ClusterReads, SectorWrites, ClusterWrites, READ_SECTOR, READ_CLUSTER,
         WRITE_SECTOR, WRITE_CLUSTER
<1>2. ClusterCommands = {5, 9, 13, 7, 11, 15}
  BY <1>1 DEF ClusterCommands
<1>3. ASSUME NEW d \in Devices
      PROVE  /\ READ_SECTOR[d] \in SectorReads /\ READ_CLUSTER[d] \in ClusterReads
             /\ WRITE_SECTOR[d] \in SectorWrites /\ WRITE_CLUSTER[d] \in ClusterWrites
  BY DEF Devices, SectorReads, ClusterReads, SectorWrites, ClusterWrites
<1>4. QED
  BY <1>1, <1>2, <1>3

(* How many words follow a command, with clusters of that size. *)
Args(command, size) ==
    IF command = INIT THEN 2
    ELSE IF command \in SectorReads \cup ClusterReads THEN 1
    ELSE IF command \in SectorWrites THEN 1 + SectorSize
    ELSE IF command \in ClusterWrites THEN 1 + size
    ELSE 0

DeviceHandler ==
    \/ handle_command_4  \/ handle_command_5  \/ handle_command_6  \/ handle_command_7
    \/ handle_command_8  \/ handle_command_9  \/ handle_command_10 \/ handle_command_11
    \/ handle_command_12 \/ handle_command_13 \/ handle_command_14 \/ handle_command_15

(* A handler that answers after it has taken n words, or refuses. *)
Answered(n) ==
    /\ pc = "handle" /\ pc' = "send"
    /\ \/ after' = "close" /\ UNCHANGED link
       \/ after' \in {"recv", "close"} /\ Whole(n) /\ Link!SrvTake(cli_sock, n)
    /\ faults' = faults \/ Fault
    /\ UNCHANGED <<upool, dvars, cmd, emmc_sock, cli_sock, listener, launches>>

(* The reads and writes of sectors touch no pool. *)
LEMMA SectorHandlers ==
  /\ handle_command_4 \/ handle_command_8 \/ handle_command_12
       => cmd \in SectorReads /\ Answered(1) /\ UNCHANGED <<ubuf, badCopy>>
  /\ handle_command_6 \/ handle_command_10 \/ handle_command_14
       => cmd \in SectorWrites /\ Answered(1 + SectorSize) /\ UNCHANGED <<ubuf, badCopy>>
<1> USE DEF HandleReadSector, HandleWriteSector, Handling, Reply, Charge, handlerVars,
            processVars, Answered, SectorReads, SectorWrites
<1>1. handle_command_4 => cmd \in SectorReads /\ Answered(1) /\ UNCHANGED <<ubuf, badCopy>>
  BY DEF handle_command_4
<1>2. handle_command_8 => cmd \in SectorReads /\ Answered(1) /\ UNCHANGED <<ubuf, badCopy>>
  BY DEF handle_command_8
<1>3. handle_command_12 => cmd \in SectorReads /\ Answered(1) /\ UNCHANGED <<ubuf, badCopy>>
  BY DEF handle_command_12
<1>4. handle_command_6
        => cmd \in SectorWrites /\ Answered(1 + SectorSize) /\ UNCHANGED <<ubuf, badCopy>>
  BY DEF handle_command_6
<1>5. handle_command_10
        => cmd \in SectorWrites /\ Answered(1 + SectorSize) /\ UNCHANGED <<ubuf, badCopy>>
  BY DEF handle_command_10
<1>6. handle_command_14
        => cmd \in SectorWrites /\ Answered(1 + SectorSize) /\ UNCHANGED <<ubuf, badCopy>>
  BY DEF handle_command_14
<1>7. QED
  BY <1>1, <1>2, <1>3, <1>4, <1>5, <1>6

(* The buffer keeps its length whatever is copied into it. *)
BufferKept == \/ UNCHANGED ubuf
              \/ \E new : ubuf' = Overlay(new, ubuf)

(* The handlers of clusters answer a part of the size that the pool has,   *)
(* and keep its buffer that long.                                          *)
LEMMA ClusterHandlers ==
  /\ handle_command_5 \/ handle_command_9 \/ handle_command_13
       => cmd \in ClusterReads /\ Answered(1) /\ BufferKept
  /\ handle_command_7 \/ handle_command_11 \/ handle_command_15
       => cmd \in ClusterWrites /\ Answered(1 + UPool!ClusterSize) /\ BufferKept
<1> USE DEF HandleReadCluster, HandleWriteCluster, Handling, Reply, Charge, handlerVars,
            processVars, Answered, ClusterReads, ClusterWrites, BufferKept
<1>1. handle_command_5 => cmd \in ClusterReads /\ Answered(1) /\ BufferKept
  BY DEF handle_command_5
<1>2. handle_command_9 => cmd \in ClusterReads /\ Answered(1) /\ BufferKept
  BY DEF handle_command_9
<1>3. handle_command_13 => cmd \in ClusterReads /\ Answered(1) /\ BufferKept
  BY DEF handle_command_13
<1>4. handle_command_7
        => cmd \in ClusterWrites /\ Answered(1 + UPool!ClusterSize) /\ BufferKept
  BY DEF handle_command_7
<1>5. handle_command_11
        => cmd \in ClusterWrites /\ Answered(1 + UPool!ClusterSize) /\ BufferKept
  BY DEF handle_command_11
<1>6. handle_command_15
        => cmd \in ClusterWrites /\ Answered(1 + UPool!ClusterSize) /\ BufferKept
  BY DEF handle_command_15
<1>7. QED
  BY <1>1, <1>2, <1>3, <1>4, <1>5, <1>6

(* Copies into the user's block leave its length. *)
LEMMA BufferKeptLen ==
  ASSUME BufferKept, NEW S, ubuf \in Seq(S)
  PROVE  (\E T : ubuf' \in Seq(T)) /\ Len(ubuf') = Len(ubuf)
<1>1. ASSUME NEW new, ubuf' = Overlay(new, ubuf)
      PROVE  (\E T : ubuf' \in Seq(T)) /\ Len(ubuf') = Len(ubuf)
  <2>1. PICK n \in Nat : n = Len(ubuf) /\ DOMAIN ubuf = 1 .. n
    BY LenProperties
  <2>2. PICK T : T = {ubuf'[k] : k \in 1 .. n}
    OBVIOUS
  <2>3. ubuf' \in [1 .. n -> T]
    BY <1>1, <2>1, <2>2 DEF Overlay
  <2>4. ubuf' \in Seq(T) /\ Len(ubuf') = n
    BY <2>3
  <2>5. QED
    BY <2>1, <2>4
<1>2. QED
  BY <1>1 DEF BufferKept

(* Every handler of a device takes as many words as its command has. *)
LEMMA DeviceHandlers ==
  ASSUME DeviceHandler
  PROVE  /\ cmd \in SectorReads \cup SectorWrites \cup ClusterCommands
         /\ Answered(Args(cmd, UPool!ClusterSize)) /\ BufferKept
<1> USE DEF SectorReads, SectorWrites, ClusterReads, ClusterWrites, ClusterCommands, Args,
            READ_SECTOR, READ_CLUSTER, WRITE_SECTOR, WRITE_CLUSTER, INIT
<1>1. CASE handle_command_4 \/ handle_command_8 \/ handle_command_12
  <2>1. cmd \in SectorReads /\ Answered(1) /\ BufferKept
    BY <1>1, SectorHandlers DEF BufferKept
  <2>2. Args(cmd, UPool!ClusterSize) = 1
    BY <2>1
  <2>3. QED
    BY <2>1, <2>2
<1>2. CASE handle_command_6 \/ handle_command_10 \/ handle_command_14
  <2>1. cmd \in SectorWrites /\ Answered(1 + SectorSize) /\ BufferKept
    BY <1>2, SectorHandlers DEF BufferKept
  <2>2. Args(cmd, UPool!ClusterSize) = 1 + SectorSize
    BY <2>1
  <2>3. QED
    BY <2>1, <2>2
<1>3. CASE handle_command_5 \/ handle_command_9 \/ handle_command_13
  <2>1. cmd \in ClusterReads /\ Answered(1) /\ BufferKept
    BY <1>3, ClusterHandlers
  <2>2. Args(cmd, UPool!ClusterSize) = 1
    BY <2>1
  <2>3. QED
    BY <2>1, <2>2
<1>4. CASE handle_command_7 \/ handle_command_11 \/ handle_command_15
  <2>1. cmd \in ClusterWrites /\ Answered(1 + UPool!ClusterSize) /\ BufferKept
    BY <1>4, ClusterHandlers
  <2>2. Args(cmd, UPool!ClusterSize) = 1 + UPool!ClusterSize
    BY <2>1
  <2>3. QED
    BY <2>1, <2>2
<1>5. QED
  BY <1>1, <1>2, <1>3, <1>4 DEF DeviceHandler

-----------------------------------------------------------------------------
(* What the server and the driver keep, whatever the clients send *)

Session == {"recv", "handle", "send", "close"}

(* The accepted connection is the one of the session, and the listening    *)
(* socket is the one emmc_sock names.                                      *)
Sockets ==
    /\ \A c \in Clients : link[c].srv = "open" <=> cli_sock = c /\ pc \in Session
    /\ pc \in Session => cli_sock \in Clients
    /\ after \in {"recv", "close"}
    /\ listener => emmc_sock = 1 /\ pc \notin {"exited", "init", "stopped"}

BufferInv ==
    /\ \E S : ubuf \in Seq(S)
    /\ upool.init = 1 => Len(ubuf) = UPool!ClusterSize

(* Without a fault the server never gets to its end, where its own pool    *)
(* would go and the driver's stay.                                         *)
InStep ==
    faults = 0 => /\ pc \notin {"deinit", "stopped"}
                  /\ upool.init = kpool.init
                  /\ upool.init = 1 => upool.spc = kpool.spc /\ upool.bps = kpool.bps

ServerInv ==
    LinkShape /\ faults \in Nat /\ UserInv /\ BufferInv /\ PoolInv /\ Sockets /\ InStep

OwnStep == main \/ System \/ \E c \in Clients : ResetDue(c) \/ LinkLost(c)

(* A step that leaves the pools alone keeps all that is said of them. *)
LEMMA PoolsUntouched ==
  ASSUME ServerInv, UNCHANGED <<upool, ubuf, kpool>>,
         faults' = faults \/ Fault,
         faults' = 0 => pc' \notin {"deinit", "stopped"}
  PROVE  faults' \in Nat /\ UserInv' /\ BufferInv' /\ PoolInv' /\ InStep'
<1>1. faults' \in Nat /\ (faults' = 0 => faults = 0)
  BY DEF ServerInv, Fault
<1>2. UserInv' /\ PoolInv'
  BY DEF ServerInv, UserInv, UPool!PoolType, UPool!PoolBacked, UPool!PoolAccounted, UPool!Live,
         UPool!ClusterSize, PoolInv, KPool!PoolType, KPool!PoolBacked, KPool!PoolAccounted,
         KPool!Live, KPool!ClusterSize
<1>3. BufferInv'
  BY DEF ServerInv, BufferInv, UPool!ClusterSize
<1>4. InStep'
  BY <1>1 DEF ServerInv, InStep
<1>5. QED
  BY <1>1, <1>2, <1>3, <1>4

(* The end of the process gives its pool back, and needs a fault. *)
LEMMA EndKeepsPools ==
  ASSUME ServerInv, (exit \/ kill) /\ UNCHANGED dvars
  PROVE  faults' \in Nat /\ UserInv' /\ BufferInv' /\ PoolInv' /\ InStep'
<1>1. faults' \in Nat /\ faults' # 0
  BY DEF ServerInv, InStep, exit, kill, Fault
<1>2. upool' = UPool!Blank([b \in Blocks |-> 0], {}) /\ ubuf' = <<>> /\ UNCHANGED kpool
  BY DEF exit, kill, ProcessEnds, dvars
<1>3. PoolInv'
  BY <1>2 DEF ServerInv, PoolInv, KPool!PoolType, KPool!PoolBacked, KPool!PoolAccounted,
              KPool!Live, KPool!ClusterSize
<1>4. /\ upool'.init = 0 /\ upool'.lost = {} /\ upool'.blocks = [b \in Blocks |-> 0]
      /\ UPool!PoolType'
  BY <1>2 DEF UPool!Blank, UPool!PoolType
<1>5. UserInv'
  BY <1>4 DEF UserInv, UPool!PoolBacked, UPool!PoolAccounted, UPool!Live
<1>6. BufferInv'
  <2>1. ubuf' \in Seq({})
    BY <1>2
  <2>2. QED
    BY <1>4, <2>1 DEF BufferInv
<1>7. QED
  BY <1>1, <1>3, <1>5, <1>6 DEF InStep

(* Of a request all of which is there, any word is an integer. *)
LEMMA InboxWords ==
  ASSUME ServerInv, pc = "handle"
  PROVE  /\ cli_sock \in Clients /\ Inbox \in Seq(Int)
         /\ \A n \in Nat : Whole(n) => \A k \in 1 .. n : Inbox[k] \in Int
<1>1. cli_sock \in Clients
  BY DEF ServerInv, Sockets, Session
<1>2. Inbox \in Seq(Int)
  BY <1>1 DEF ServerInv, LinkShape, Conns, Conn, Inbox
<1>3. QED
  BY <1>1, <1>2, ElementOfSeq DEF Whole

(* An init that sets up both pools sets up both with one geometry; one     *)
(* that fails is a fault.                                                  *)
LEMMA InitKeepsPools ==
  ASSUME ServerInv, handle_command_2
  PROVE  faults' \in Nat /\ UserInv' /\ BufferInv' /\ PoolInv' /\ InStep'
<1>1. pc = "handle" /\ pc' = "send"
  BY DEF handle_command_2, Handling, Reply
<1>2. CASE UNCHANGED <<link, upool, ubuf, faults, dvars>>
  BY <1>1, <1>2, PoolsUntouched DEF dvars
<1>3. ASSUME NEW vita \in Results \ {0}, upool.init = 0, Whole(2),
             initializePool(Inbox[1], Inbox[2], vita), Charge(vita), UNCHANGED <<ubuf, dvars>>
      PROVE  faults' \in Nat /\ UserInv' /\ BufferInv' /\ PoolInv' /\ InStep'
  <2>1. PICK bps, spc \in Int : bps = Inbox[1] /\ spc = Inbox[2]
    BY <1>1, <1>3, InboxWords
  <2>2. UserInv'
    BY <1>3, <2>1, UserInitializeKeepsInv DEF ServerInv
  <2>3. upool'.init = 0 /\ (vita # Error => upool' = upool)
    BY <1>3, <2>1, UserInitializeEffect DEF ServerInv
  <2>4. BufferInv'
    BY <1>3, <2>3 DEF ServerInv, BufferInv
  <2>5. PoolInv'
    BY <1>3 DEF ServerInv, dvars, PoolInv, KPool!PoolType, KPool!PoolBacked, KPool!PoolAccounted,
                KPool!Live, KPool!ClusterSize
  <2>6. faults' \in Nat /\ (faults' = 0 => faults = 0 /\ vita # Error)
    BY <1>3 DEF ServerInv, Charge, Fault
  <2>7. InStep'
    BY <1>1, <1>3, <2>3, <2>6 DEF ServerInv, InStep, dvars
  <2>8. QED
    BY <2>2, <2>4, <2>5, <2>6, <2>7
<1>4. ASSUME NEW proxy \in Results, upool.init = 0, Whole(2),
             initializePool(Inbox[1], Inbox[2], 0),
             ubuf' = FreshBuffer(Inbox[1] * Inbox[2]),
             psvemmcInitialize(Inbox[1], Inbox[2], proxy), Charge(proxy)
      PROVE  faults' \in Nat /\ UserInv' /\ BufferInv' /\ PoolInv' /\ InStep'
  <2>1. PICK bps, spc \in Int : bps = Inbox[1] /\ spc = Inbox[2]
    BY <1>1, <1>4, InboxWords
  <2>2. UserInv'
    BY <1>4, <2>1, UserInitializeKeepsInv DEF ServerInv
  <2>3. PICK size \in Nat \ {0} : size = bps * spc
    BY <1>4, <2>1, UserInitializeEffect DEF ServerInv
  <2>4. upool'.init = 1 /\ upool'.bps = bps /\ upool'.spc = spc /\ bps = SectorSize
    BY <1>4, <2>1, UserInitializeEffect DEF ServerInv
  <2>5. BufferInv'
    <3>1. ubuf' \in [1 .. size -> {Garbage}]
      BY <1>4, <2>1, <2>3 DEF FreshBuffer
    <3>2. ubuf' \in Seq({Garbage}) /\ Len(ubuf') = size
      BY <3>1
    <3>3. QED
      BY <2>3, <2>4, <3>2 DEF BufferInv, UPool!ClusterSize
  <2>6. PoolInv'
    BY <1>4, <2>1, InitializeKeepsPoolInv DEF ServerInv, psvemmcInitialize
  <2>7. faults' \in Nat /\ (faults' = 0 => faults = 0 /\ proxy # Error)
    BY <1>4 DEF ServerInv, Charge, Fault
  <2>8. /\ proxy = 0 => kpool'.init = 1 /\ kpool'.bps = bps /\ kpool'.spc = spc
        /\ proxy \notin {0, Error} => kpool.init # 0
    BY <1>4, <2>1, <2>4, KernelInitializeEffect DEF ServerInv
  <2>9. InStep'
    BY <1>1, <1>4, <2>4, <2>7, <2>8 DEF ServerInv, InStep
  <2>10. QED
    BY <2>2, <2>5, <2>6, <2>7, <2>9
<1>5. QED
  BY <1>2, <1>3, <1>4 DEF handle_command_2

(* A deinit releases both pools, or is a fault. *)
LEMMA DeinitKeepsPools ==
  ASSUME ServerInv, handle_command_3
  PROVE  faults' \in Nat /\ UserInv' /\ BufferInv' /\ PoolInv' /\ InStep'
<1>1. pc' = "send" /\ UNCHANGED ubuf
  BY DEF handle_command_3, Reply
<1>2. CASE UNCHANGED <<upool, faults, dvars>>
  BY <1>1, <1>2, PoolsUntouched DEF dvars
<1>3. ASSUME NEW proxy \in Results, NEW vita \in Results, upool.init # 0,
             psvemmcDeinitialize(proxy), deinitializePool(vita),
             IF proxy = Error /\ vita = Error
             THEN faults + 2 <= MaxFaults /\ faults' = faults + 2
             ELSE Charge(IF proxy = Error THEN proxy ELSE vita)
      PROVE  faults' \in Nat /\ UserInv' /\ BufferInv' /\ PoolInv' /\ InStep'
  <2>1. UserInv'
    BY <1>3, UserDeinitializeKeepsInv DEF ServerInv
  <2>2. PoolInv'
    BY <1>3, DeinitializeKeepsPoolInv DEF ServerInv, psvemmcDeinitialize
  <2>3. /\ upool'.bps = upool.bps /\ upool'.spc = upool.spc
        /\ upool'.init = IF vita = 0 THEN 0 ELSE upool.init
        /\ vita \in {0, Error}
    BY <1>3, UserDeinitializeEffect DEF ServerInv
  <2>4. /\ kpool'.init = IF proxy = 0 THEN 0 ELSE kpool.init
        /\ proxy \notin {0, Error} => kpool.init = 0
    BY <1>3, KernelDeinitializeEffect DEF ServerInv
  <2>5. faults' \in Nat /\ (faults' = 0 => faults = 0 /\ proxy # Error /\ vita # Error)
    BY <1>3 DEF ServerInv, Charge, Fault
  <2>6. BufferInv'
    BY <1>1, <2>3 DEF ServerInv, BufferInv, UPool!ClusterSize
  <2>7. InStep'
    BY <1>1, <1>3, <2>3, <2>4, <2>5 DEF ServerInv, InStep
  <2>8. QED
    BY <2>1, <2>2, <2>5, <2>6, <2>7
<1>4. QED
  BY <1>2, <1>3 DEF handle_command_3

(* A handler of a device leaves the pools, and its copies fit. *)
LEMMA DeviceKeepsPools ==
  ASSUME ServerInv, DeviceHandler
  PROVE  faults' \in Nat /\ UserInv' /\ BufferInv' /\ PoolInv' /\ InStep'
<1>1. /\ pc' = "send" /\ UNCHANGED <<upool, kpool>> /\ (faults' = faults \/ Fault)
      /\ BufferKept
  BY DeviceHandlers DEF Answered, dvars
<1>2. (\E T : ubuf' \in Seq(T)) /\ Len(ubuf') = Len(ubuf)
  BY <1>1, BufferKeptLen DEF ServerInv, BufferInv
<1>3. faults' \in Nat /\ (faults' = 0 => faults = 0)
  BY <1>1 DEF ServerInv, Fault
<1>4. UserInv' /\ PoolInv'
  BY <1>1 DEF ServerInv, UserInv, UPool!PoolType, UPool!PoolBacked, UPool!PoolAccounted,
              UPool!Live, UPool!ClusterSize, PoolInv, KPool!PoolType, KPool!PoolBacked,
              KPool!PoolAccounted, KPool!Live, KPool!ClusterSize
<1>5. BufferInv'
  BY <1>1, <1>2 DEF ServerInv, BufferInv, UPool!ClusterSize
<1>6. InStep'
  BY <1>1, <1>3 DEF ServerInv, InStep
<1>7. QED
  BY <1>2, <1>3, <1>4, <1>5, <1>6

(* A cluster write is handled with a geometry that has a size. *)
SizeKnown == pc = "handle" /\ cmd \in ClusterWrites => UPool!ClusterSize \in Nat

(* The words that follow a command are a number of words. *)
LEMMA ArgsNat ==
  ASSUME SizeKnown, pc = "handle"
  PROVE  Args(cmd, UPool!ClusterSize) \in Nat
  BY DEF SizeKnown, Args, SectorSize

(* A step within the session, or outside of any, that neither opens nor    *)
(* closes a connection keeps the sockets.                                  *)
LEMMA SocketsUntouched ==
  ASSUME ServerInv, UNCHANGED <<cli_sock, emmc_sock, listener>>,
         after' \in {"recv", "close"},
         \A d \in Clients : link'[d].srv = "open" <=> link[d].srv = "open",
         pc' = pc \/ (pc \in Session /\ pc' \in Session)
  PROVE  Sockets'
  BY DEF ServerInv, Sockets, Session

(* The connections and the sockets over a step of the process. *)
LEMMA ProcessKeepsSockets ==
  ASSUME ServerInv, init_net \/ deinit_net \/ exit \/ kill \/ launch \/ accept \/ close_client
  PROVE  LinkShape' /\ Sockets'
<1>1. PICK S : <<>> \in S /\ link \in Conns(S)
  BY DEF ServerInv, LinkShape
<1> USE DEF ServerInv, Sockets, Session
<1>2. CASE init_net
  BY <1>2 DEF init_net, LinkShape
<1>3. CASE launch
  BY <1>3 DEF launch, LinkShape
<1>4. CASE deinit_net
  <2>1. /\ link' \in Conns(S)
        /\ \A d \in Clients : link[d].srv # "open" => link'[d].srv # "open"
    BY <1>1, <1>4, CloseListenerLink DEF deinit_net
  <2>2. Sockets'
    BY <1>4, <2>1 DEF deinit_net
  <2>3. QED
    BY <1>1, <2>1, <2>2 DEF LinkShape
<1>5. CASE exit \/ kill
  <2>1. link' \in Conns(S) /\ \A d \in Clients : link'[d].srv # "open"
    BY <1>1, <1>5, CloseAllLink DEF exit, kill, ProcessEnds
  <2>2. Sockets'
    BY <1>5, <2>1 DEF exit, kill, ProcessEnds
  <2>3. QED
    BY <1>1, <2>1, <2>2 DEF LinkShape
<1>6. CASE accept
  <2>1. ASSUME NEW c \in Clients, Link!Accept(c), cli_sock' = c, pc' = "recv"
        PROVE  LinkShape' /\ Sockets'
    <3>1. /\ link' \in Conns(S) /\ link'[c].srv = "open"
          /\ \A d \in Clients \ {c} : link'[d].srv # "open"
      BY <1>1, <1>6, <2>1, AcceptLink DEF accept
    <3>2. Sockets'
      BY <1>6, <2>1, <3>1 DEF accept
    <3>3. QED
      BY <1>1, <3>1, <3>2 DEF LinkShape
  <2>2. CASE cli_sock' = -1 /\ pc' = "deinit" /\ UNCHANGED link
    BY <1>6, <2>2 DEF accept, LinkShape
  <2>3. QED
    BY <1>6, <2>1, <2>2 DEF accept
<1>7. CASE close_client
  <2>1. PICK c \in Clients : c = cli_sock
    BY <1>7 DEF close_client
  <2>2. /\ link' \in Conns(S)
        /\ \A d \in Clients : link'[d].srv # "open"
    BY <1>1, <1>7, <2>1, SrvCloseLink DEF close_client
  <2>3. Sockets'
    BY <1>7, <2>2 DEF close_client
  <2>4. QED
    BY <1>1, <2>2, <2>3 DEF LinkShape
<1>8. QED
  BY <1>2, <1>3, <1>4, <1>5, <1>6, <1>7

(* A receive or a send of the session moves words. *)
LEMMA TransferKeepsSockets ==
  ASSUME ServerInv, receive_command \/ send
  PROVE  LinkShape' /\ Sockets'
<1>1. PICK S : <<>> \in S /\ link \in Conns(S)
  BY DEF ServerInv, LinkShape
<1>2. PICK c \in Clients : c = cli_sock
  BY DEF ServerInv, Sockets, Session, receive_command, send
<1>3. /\ pc \in Session /\ pc' \in Session
      /\ UNCHANGED <<cli_sock, emmc_sock, listener, after>> /\ after \in {"recv", "close"}
  BY DEF ServerInv, Sockets, Session, receive_command, send, processVars
<1>4. CASE UNCHANGED link
  BY <1>3, <1>4, SocketsUntouched DEF ServerInv, LinkShape
<1>5. CASE Inbox # <<>> /\ Link!SrvTake(cli_sock, 1)
  <2>1. 1 <= Len(link[c].c2s)
    BY <1>1, <1>2, <1>5 DEF Conns, Conn, Inbox
  <2>2. link' \in Conns(S) /\ \A d \in Clients : link'[d].srv = link[d].srv
    BY <1>1, <1>2, <1>5, <2>1, SrvTakeLink
  <2>3. QED
    BY <1>1, <1>3, <2>2, SocketsUntouched DEF LinkShape
<1>6. ASSUME NEW w, Link!SrvSend(cli_sock, w)
      PROVE  LinkShape' /\ Sockets'
  <2>1. PICK T : T = S \cup {link[c].s2c \o w}
    OBVIOUS
  <2>2. link' \in Conns(T) /\ \A d \in Clients : link'[d].srv = link[d].srv
    BY <1>1, <1>2, <1>6, <2>1, SrvSendLink
  <2>3. QED
    BY <1>1, <1>3, <2>1, <2>2, SocketsUntouched DEF LinkShape
<1>7. QED
  BY <1>4, <1>5, <1>6 DEF receive_command, send

(* A handler takes words, or none. *)
LEMMA HandlerKeepsSockets ==
  ASSUME ServerInv, SizeKnown,
         \/ handle_command_0 \/ handle_command_1 \/ handle_command_2 \/ handle_command_3
         \/ DeviceHandler \/ unknown_command
  PROVE  LinkShape' /\ Sockets'
<1>1. PICK S : <<>> \in S /\ link \in Conns(S)
  BY DEF ServerInv, LinkShape
<1>2. /\ pc = "handle" /\ pc' \in Session
      /\ UNCHANGED <<cli_sock, emmc_sock, listener>> /\ after' \in {"recv", "close"}
  <2>1. CASE DeviceHandler
    BY <2>1, DeviceHandlers DEF Answered, Session
  <2>2. CASE unknown_command
    BY <2>2 DEF ServerInv, Sockets, Session, unknown_command, handlerVars, processVars
  <2>3. CASE handle_command_0 \/ handle_command_1
    BY <2>3 DEF handle_command_0, handle_command_1, Handling, Reply, Session, handlerVars,
                processVars
  <2>4. CASE handle_command_2
    BY <2>4 DEF handle_command_2, Handling, Reply, Session, handlerVars, processVars
  <2>5. CASE handle_command_3
    BY <2>5 DEF handle_command_3, Handling, Reply, Session, handlerVars, processVars
  <2>6. QED
    BY <2>1, <2>2, <2>3, <2>4, <2>5
<1>3. \/ UNCHANGED link
      \/ \E n \in Nat : Whole(n) /\ Link!SrvTake(cli_sock, n)
  <2>1. CASE DeviceHandler
    BY <1>2, <2>1, DeviceHandlers, ArgsNat DEF Answered
  <2>2. CASE handle_command_2
    BY <2>2 DEF handle_command_2
  <2>3. QED
    BY <2>1, <2>2 DEF handle_command_0, handle_command_1, handle_command_3, unknown_command
<1>4. CASE UNCHANGED link
  BY <1>2, <1>4, SocketsUntouched DEF ServerInv, LinkShape, Session
<1>5. ASSUME NEW n \in Nat, Whole(n), Link!SrvTake(cli_sock, n)
      PROVE  LinkShape' /\ Sockets'
  <2>1. PICK c \in Clients : c = cli_sock
    BY <1>2, InboxWords
  <2>2. n <= Len(link[c].c2s)
    BY <1>1, <1>5, <2>1 DEF Conns, Conn, Inbox, Whole
  <2>3. link' \in Conns(S) /\ \A d \in Clients : link'[d].srv = link[d].srv
    BY <1>1, <1>5, <2>1, <2>2, SrvTakeLink
  <2>4. QED
    BY <1>1, <1>2, <2>3, SocketsUntouched DEF LinkShape, Session
<1>6. QED
  BY <1>3, <1>4, <1>5

(* Every step of the server, the driver and the network keeps what is said *)
(* of them.                                                                *)
LEMMA ServerStepInv ==
  ASSUME ServerInv, SizeKnown, OwnStep
  PROVE  ServerInv'
<1>1. CASE (exit \/ kill) /\ UNCHANGED dvars
  BY <1>1, EndKeepsPools, ProcessKeepsSockets DEF ServerInv
<1>2. CASE (init_net \/ deinit_net \/ launch \/ accept \/ close_client) /\ UNCHANGED dvars
  <2>1. /\ UNCHANGED <<upool, ubuf, kpool>> /\ (faults' = faults \/ Fault)
    BY <1>2 DEF dvars, init_net, deinit_net, launch, accept, close_client
  <2>2. faults' = 0 => pc' \notin {"deinit", "stopped"}
    <3>1. faults \in Nat /\ (faults = 0 => pc # "deinit")
      BY DEF ServerInv, InStep
    <3>2. CASE init_net
      BY <3>1, <3>2 DEF init_net, Fault
    <3>3. CASE deinit_net
      BY <3>1, <3>3 DEF deinit_net
    <3>4. CASE launch \/ close_client
      BY <3>4 DEF launch, close_client
    <3>5. CASE accept
      BY <3>1, <3>5 DEF accept, Fault
    <3>6. QED
      BY <1>2, <3>2, <3>3, <3>4, <3>5
  <2>3. QED
    BY <1>2, <2>1, <2>2, PoolsUntouched, ProcessKeepsSockets DEF ServerInv
<1>3. CASE (receive_command \/ send) /\ UNCHANGED dvars
  <2>1. UNCHANGED <<upool, ubuf, kpool, faults>>
    BY <1>3 DEF dvars, receive_command, send
  <2>2. pc' \notin {"deinit", "stopped"}
    BY <1>3 DEF ServerInv, Sockets, receive_command, send
  <2>3. QED
    BY <1>3, <2>1, <2>2, PoolsUntouched, TransferKeepsSockets DEF ServerInv
<1>4. CASE handle_command_2
  BY <1>4, InitKeepsPools, HandlerKeepsSockets DEF ServerInv
<1>5. CASE handle_command_3
  BY <1>5, DeinitKeepsPools, HandlerKeepsSockets DEF ServerInv
<1>6. CASE DeviceHandler
  BY <1>6, DeviceKeepsPools, HandlerKeepsSockets DEF ServerInv
<1>7. CASE handle_command_0 \/ handle_command_1 \/ unknown_command
  <2>1. UNCHANGED <<upool, ubuf, kpool, faults>> /\ pc' \notin {"deinit", "stopped"}
    BY <1>7 DEF handle_command_0, handle_command_1, unknown_command, Reply, dvars
  <2>2. QED
    BY <1>7, <2>1, PoolsUntouched, HandlerKeepsSockets DEF ServerInv
<1>8. CASE module_start /\ UNCHANGED svars
  <2>1. /\ UNCHANGED <<link, upool, ubuf, kpool, faults, pc, after, cli_sock, emmc_sock, listener>>
    BY <1>8 DEF module_start, svars
  <2>2. faults' \in Nat /\ UserInv' /\ BufferInv' /\ PoolInv' /\ InStep'
    BY <2>1, PoolsUntouched DEF ServerInv, InStep
  <2>3. LinkShape' /\ Sockets'
    BY <2>1 DEF ServerInv, LinkShape, Sockets
  <2>4. QED
    BY <2>2, <2>3 DEF ServerInv
<1>9. ASSUME NEW c \in Clients, ResetDue(c) \/ LinkLost(c)
      PROVE  ServerInv'
  <2>1. PICK S : <<>> \in S /\ link \in Conns(S)
    BY DEF ServerInv, LinkShape
  <2>2. /\ UNCHANGED <<upool, ubuf, kpool, pc, after, cli_sock, emmc_sock, listener>>
        /\ (faults' = faults \/ Fault) /\ Link!Reset(c)
    BY <1>9 DEF ResetDue, LinkLost, processVars, dvars
  <2>3. link' \in Conns(S) /\ \A d \in Clients : link'[d].srv = link[d].srv
    BY <2>1, <2>2, ResetLink
  <2>4. faults' = 0 => faults = 0
    BY <2>2 DEF ServerInv, Fault
  <2>5. faults' \in Nat /\ UserInv' /\ BufferInv' /\ PoolInv' /\ InStep'
    BY <2>2, <2>4, PoolsUntouched DEF ServerInv, InStep
  <2>6. LinkShape' /\ Sockets'
    BY <2>1, <2>2, <2>3, SocketsUntouched DEF ServerInv, Sockets, LinkShape
  <2>7. QED
    BY <2>5, <2>6 DEF ServerInv
<1>10. QED
  BY <1>1, <1>2, <1>3, <1>4, <1>5, <1>6, <1>7, <1>8, <1>9
  DEF OwnStep, main, System, accept_single_connection, receive_commands, DeviceHandler

(* So does a step outside of the server that leaves its ends open. *)
LEMMA OutsideStepInv ==
  ASSUME ServerInv, LinkShape',
         UNCHANGED <<upool, ubuf, kpool, pc, after, cli_sock, emmc_sock, listener>>,
         faults' = faults \/ Fault,
         \A d \in Clients : link'[d].srv = "open" <=> link[d].srv = "open"
  PROVE  ServerInv'
<1>1. faults' = 0 => faults = 0
  BY DEF ServerInv, Fault
<1>2. faults' \in Nat /\ UserInv' /\ BufferInv' /\ PoolInv' /\ InStep'
  BY <1>1, PoolsUntouched DEF ServerInv, InStep
<1>3. Sockets'
  BY SocketsUntouched DEF ServerInv, Sockets
<1>4. QED
  BY <1>2, <1>3 DEF ServerInv

(* And it holds before the server is started. *)
LEMMA ServerInitInv ==
  ASSUME DriverInit, ServerInit
  PROVE  ServerInv
<1>1. PoolInv
  BY InitDriverInv DEF DriverInv
<1>2. kpool.init = 0
  BY DEF DriverInit, KPool!PoolInit, KPool!Blank
<1>3. /\ upool.init = 0 /\ upool.lost = {} /\ upool.blocks = [b \in Blocks |-> 0]
      /\ UPool!PoolType
  BY DEF ServerInit, UPool!PoolInit, UPool!Blank, UPool!PoolType
<1>4. UserInv
  BY <1>3 DEF UserInv, UPool!PoolBacked, UPool!PoolAccounted, UPool!Live
<1>5. ubuf \in Seq({})
  BY DEF ServerInit
<1>6. BufferInv
  BY <1>3, <1>5 DEF BufferInv
<1>7. link \in Conns({<<>>}) /\ \A c \in Clients : link[c].srv = "none"
  <2>1. <<>> \in Seq(Int)
    OBVIOUS
  <2>2. QED
    BY <2>1 DEF ServerInit, Link!LinkInit, Link!NoConnection, Conns, Conn
<1>8. LinkShape
  BY <1>7 DEF LinkShape
<1>9. Sockets /\ InStep /\ faults \in Nat
  BY <1>2, <1>3, <1>7 DEF ServerInit, Sockets, Session, InStep
<1>10. QED
  BY <1>1, <1>4, <1>6, <1>8, <1>9 DEF ServerInv

=============================================================================

---------------------------- MODULE ClusterPool -----------------------------
(***************************************************************************)
(* The pool of one cluster that the driver (psvemmcInitialize,             *)
(* psvemmcDeinitialize) and the server (initializePool, deinitializePool)  *)
(* keep, each its own copy of the same code.  A component that other       *)
(* modules instantiate: its operations are actions on the variable pool,   *)
(* with the value the C function returns as their last parameter.          *)
(*                                                                         *)
(*   bps, spc  g_bytesPerSector, g_sectorsPerCluster                       *)
(*   init      g_clusterPoolInitialized                                    *)
(*   uid       g_clusterPool: 0, a block or the error of the last call     *)
(*   ptr       g_clusterPoolPtr: 0 or the base of a block (the block)      *)
(*   blocks    the memory manager's view: size of a block, 0 when free     *)
(*   lost      blocks that are allocated and that no code will free again  *)
(***************************************************************************)
EXTENDS Integers

CONSTANTS
    Blocks,      \* the memory blocks that can be handed out (> 0)
    SectorSize,  \* SD_DEFAULT_SECTOR_SIZE
    Error        \* what a failing system call returns (< 0)

VARIABLE pool

(* The globals as the loader leaves them. *)
Blank(blocks, lost) ==
    [bps |-> 0, spc |-> 0, init |-> 0, uid |-> 0, ptr |-> 0,
     blocks |-> blocks, lost |-> lost]

PoolInit == pool = Blank([b \in Blocks |-> 0], {})

Live == {b \in Blocks : pool.blocks[b] # 0}

(* The memory manager: a block of size > 0 is a block that was free. *)
Allocatable(size) == {b \in Blocks \ Live : size > 0}

(* Mutant: the flag is set before the base of the block is asked for. *)
Bug_FlagBeforeBase(bps, spc, ret) ==
    \E b \in Allocatable(bps * spc) :
       /\ pool.init = 0 /\ bps = SectorSize /\ ret \in {0, Error}
       /\ pool' = [pool EXCEPT !.bps = bps, !.spc = spc, !.uid = b, !.init = 1,
                               !.blocks[b] = bps * spc,
                               !.ptr = IF ret = 0 THEN b ELSE @]

(* The geometry is stored before the allocation is tried, and stays stored *)
(* when it fails; when the base of the new block cannot be obtained the    *)
(* function returns with the block allocated and the flag still 0.         *)
initializePool(bps, spc, ret) ==
    \/ /\ pool.init # 0
       /\ ret = -1
       /\ UNCHANGED pool
    \/ /\ pool.init = 0
       /\ bps # SectorSize
       /\ ret = -2
       /\ UNCHANGED pool
    \/ /\ pool.init = 0
       /\ bps = SectorSize
       /\ ret = Error
       /\ pool' = [pool EXCEPT !.bps = bps, !.spc = spc, !.uid = Error]
    \/ \E b \in Allocatable(bps * spc) :
       /\ pool.init = 0
       /\ bps = SectorSize
       /\ ret = Error
       /\ pool' = [pool EXCEPT !.bps = bps, !.spc = spc, !.uid = b,
                               !.blocks[b] = bps * spc, !.lost = @ \cup {b}]
    \/ \E b \in Allocatable(bps * spc) :
       /\ pool.init = 0
       /\ bps = SectorSize
       /\ ret = 0
       /\ pool' = [pool EXCEPT !.bps = bps, !.spc = spc, !.uid = b,
                               !.blocks[b] = bps * spc, !.ptr = b, !.init = 1]

(* Mutant: the flag is cleared although the block could not be freed. *)
Bug_ClearFlagOnFailedFree(ret) ==
    /\ pool.init # 0
    /\ ret \in {0, Error}
    /\ pool' = [pool EXCEPT !.init = 0,
                            !.blocks[pool.uid] = IF ret = 0 THEN 0 ELSE @]

(* The pointer and the geometry keep their values when the block is freed. *)
deinitializePool(ret) ==
    \/ /\ pool.init = 0
       /\ ret = -1
       /\ UNCHANGED pool
    \/ /\ pool.init # 0
       /\ ret = Error
       /\ UNCHANGED pool
    \/ /\ pool.init # 0
       /\ pool.uid \in Live
       /\ ret = 0
       /\ pool' = [pool EXCEPT !.blocks[pool.uid] = 0, !.init = 0]

(* Words that a transfer through the pool moves. *)
ClusterSize == pool.bps * pool.spc

-----------------------------------------------------------------------------

PoolType ==
    pool \in [bps : {0, SectorSize}, spc : Int, init : {0, 1},
              uid : Blocks \cup {0, Error}, ptr : Blocks \cup {0},
              blocks : [Blocks -> Nat], lost : SUBSET Blocks]

(* A pool whose flag is set has its block: the uid it will free is        *)
(* allocated, the pointer it hands out is that block's base, and the block *)
(* is exactly as long as the transfers that go through it.                *)
PoolBacked ==
    pool.init = 1 =>
        /\ pool.uid \in Live
        /\ pool.ptr = pool.uid
        /\ pool.blocks[pool.uid] = ClusterSize
        /\ pool.uid \notin pool.lost

(* Every allocated block is the block of a set pool or one of the blocks   *)
(* given up by a failed call: no other path forgets memory.                *)
PoolAccounted ==
    Live = pool.lost \cup (IF pool.init = 1 THEN {pool.uid} ELSE {})
=============================================================================

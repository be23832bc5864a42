------------------------------- MODULE Driver -------------------------------
(***************************************************************************)
(* driver/psvemmc.c: the kernel module.  module_start finds out which      *)
(* block devices can be read; the exported calls read sectors and clusters *)
(* of them, a cluster through one pool that psvemmcInitialize sets up;     *)
(* module_stop gives the pool back.  An exported call is one step: its     *)
(* only caller is the server's single thread.                              *)
(***************************************************************************)
EXTENDS Protocol

CONSTANTS Blocks,      \* kernel memory blocks
          Geometries   \* the sectorsPerCluster values callers pass

ASSUME BlocksAssumption == Blocks \subseteq Nat \ {0}
ASSUME GeometriesAssumption == Geometries \subseteq Int

VARIABLES
    kpool,   \* the driver's pool, see ClusterPool
    ctx,     \* g_emmcCtxInitialized, g_gcCtxInitialized, g_msCtxInitialized
    loaded   \* between module_start and module_stop

dvars == <<kpool, ctx, loaded>>

KPool == INSTANCE ClusterPool WITH pool <- kpool

DriverInit ==
    /\ KPool!PoolInit
    /\ ctx = [d \in Devices |-> 0]
    /\ loaded = FALSE

-----------------------------------------------------------------------------
(* Start and stop *)

(* Mutant: the result of the initialization is stored as the flag. *)
Bug_ResultAsFlag(found, initialized) ==
    IF found THEN 1 ELSE IF initialized THEN 0 ELSE Error

(* The flag after a context lookup that finds one or not, and, if not, an  *)
(* initialization that succeeds or not.  The initialize_ operators are the *)
(* sets of flags that those functions may leave.                           *)
MmcContext(found, initialized) == IF found \/ initialized THEN 1 ELSE 0

initialize_emmc_globals ==
    {MmcContext(found, initialized) : found, initialized \in BOOLEAN}

initialize_gc_mmc_device ==
    {MmcContext(found, initialized) : found, initialized \in BOOLEAN}

(* No way to initialize an sd context is known: only a lookup. *)
initialize_gc_sd_device == {MmcContext(found, FALSE) : found \in BOOLEAN}

(* Device type 1 is mmc, 2 is sd; any other leaves the flag as it was. *)
initialize_gc_globals ==
    UNION {CASE dev_type_idx = 1 -> initialize_gc_mmc_device
             [] dev_type_idx = 2 -> initialize_gc_sd_device
             [] OTHER            -> {ctx["gc"]} : dev_type_idx \in 0 .. 2}

initialize_ms_globals == {1}

module_start ==
    /\ ~loaded
    /\ loaded' = TRUE
    /\ ctx' \in [emmc : initialize_emmc_globals,
                 gc   : initialize_gc_globals,
                 ms   : initialize_ms_globals]
    /\ UNCHANGED kpool

(* Mutant: the pool is not released when the module stops. *)
Bug_StopKeepsPool ==
    /\ loaded
    /\ loaded' = FALSE
    /\ ctx' = [d \in Devices |-> 0]
    /\ UNCHANGED kpool

(* The module goes with its globals; a block it could not free stays. *)
module_stop ==
    /\ loaded
    /\ loaded' = FALSE
    /\ ctx' = [d \in Devices |-> 0]
    /\ \/ /\ kpool.init = 0
          /\ kpool' = KPool!Blank(kpool.blocks, kpool.lost)
       \/ /\ kpool.init # 0
          /\ kpool.uid \in KPool!Live
          /\ kpool' = KPool!Blank([kpool.blocks EXCEPT ![kpool.uid] = 0], kpool.lost)
       \/ /\ kpool.init # 0
          /\ kpool' = KPool!Blank(kpool.blocks, kpool.lost \cup {kpool.uid})

-----------------------------------------------------------------------------
(* Exported calls.  The two that change the pool are actions; a read or a  *)
(* write is the set of its possible results: the value it returns and the  *)
(* words it copies to the caller's buffer.                                 *)

psvemmcInitialize(bps, spc, ret) ==
    /\ KPool!initializePool(bps, spc, ret)
    /\ UNCHANGED <<ctx, loaded>>

psvemmcDeinitialize(ret) ==
    /\ KPool!deinitializePool(ret)
    /\ UNCHANGED <<ctx, loaded>>

Failed(ret) == [ret |-> ret, copied |-> <<>>]
Read(words) == [ret |-> 0, copied |-> words]

(* Reading the device or the copy to the caller may fail. *)
SectorRead(dev, sector) ==
    IF ctx[dev] = 0 THEN {Failed(-1)}
    ELSE {Failed(Error), Read(SectorWords(dev, sector, 1))}

readSector(sector)   == SectorRead("emmc", sector)
readSectorGc(sector) == SectorRead("gc", sector)
readSectorMs(sector) == SectorRead("ms", sector)

(* The device is read into the pool, the pool is copied to the caller. *)
ClusterRead(dev, cluster) ==
    IF ctx[dev] = 0 THEN {Failed(-1)}
    ELSE IF kpool.init = 0 THEN {Failed(-2)}
    ELSE {Failed(Error),
          Read(SectorWords(dev, kpool.spc * cluster, KPool!ClusterSize))}

readCluster(cluster)   == ClusterRead("emmc", cluster)
readClusterGc(cluster) == ClusterRead("gc", cluster)
readClusterMs(cluster) == ClusterRead("ms", cluster)

(* Writing is not implemented. *)
SectorWrite(dev) == IF ctx[dev] = 0 THEN -1 ELSE -2

writeSector   == SectorWrite("emmc")
writeSectorGc == SectorWrite("gc")
writeSectorMs == SectorWrite("ms")

ClusterWrite(dev) ==
    IF ctx[dev] = 0 THEN -1 ELSE IF kpool.init = 0 THEN -2 ELSE -3

writeCluster   == ClusterWrite("emmc")
writeClusterGc == ClusterWrite("gc")
writeClusterMs == ClusterWrite("ms")

-----------------------------------------------------------------------------
(* The driver under any sequence of calls.  Reads and writes leave its     *)
(* state alone: they are exercised where their results go, in Server.      *)

DriverNext ==
    \/ module_start
    \/ module_stop
    \/ \E bps \in {0, SectorSize}, spc \in Geometries, ret \in Results :
        loaded /\ psvemmcInitialize(bps, spc, ret)
    \/ \E ret \in Results : loaded /\ psvemmcDeinitialize(ret)

DriverSpec == DriverInit /\ [][DriverNext]_dvars

(* Type invariant. *)
DriverType ==
    /\ KPool!PoolType
    /\ ctx \in [Devices -> {0, 1}]
    /\ loaded \in BOOLEAN

(* The kernel pool is backed by its own block whenever it is marked as set *)
(* up, so readCluster never transfers into memory the driver does not own *)
(* or past its end, whatever calls failed before.                         *)
KernelPoolBacked == KPool!PoolBacked

(* Kernel memory is held by a set-up pool or was given up by a failed call *)
(* of the memory manager, never forgotten on another path.                *)
KernelPoolAccounted == KPool!PoolAccounted

(* Once the module is stopped all its memory is back, but for blocks that  *)
(* failed calls have lost: module_stop frees the pool a client left behind. *)
StoppedHoldsNothing == ~loaded => KPool!Live = kpool.lost
=============================================================================

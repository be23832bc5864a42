----------------------------- MODULE DeviceRings ------------------------------
(***************************************************************************)
(* driver/hooks_misc.c: the arrays that keep the last initialisations of   *)
(* MMC and SD devices (init_mmc_hook, init_sd_hook) and the last mounts    *)
(* that got a new node (iofilemgr_sceVfsGetNewNode_hook).  A hook calls    *)
(* the original, stores an entry at the index, increments the index and    *)
(* compares it with the size of the array: four steps on globals that no   *)
(* lock protects.                                                          *)
(***************************************************************************)
EXTENDS Naturals, Sequences

CONSTANTS
    RingThread,         \* threads that initialise devices
    DEVICE_INFO_SIZE,   \* size of last_mmc_inits and last_sd_inits
    MOUNT_COPYS_SIZE,   \* size of g_mount_copys
    MaxRingCalls        \* bound: calls of each hook

ASSUME RingAssumption == DEVICE_INFO_SIZE \in Nat \ {0} /\ MOUNT_COPYS_SIZE \in Nat \ {0}

Rings == {"mmc", "sd", "mount"}
RingSize(r) == IF r = "mount" THEN MOUNT_COPYS_SIZE ELSE DEVICE_INFO_SIZE

VARIABLES
    ring,       \* the ring the threads of this behaviour work on
    index,      \* last_mmc_index, last_sd_index or g_mount_copys_cnt
    entries,    \* [0 .. RingSize - 1 -> entry]: the array
    doing,      \* [RingThread -> step of the hook]
    begun,      \* calls begun; a call is known by its number (history)
    stored,     \* the calls that stored their entry, in that order (history)
    overran,    \* an entry was stored outside the array (history)
    crossed     \* two calls were between their store and their wrap (history)

ringVars == <<ring, index, entries, doing, begun, stored, overran, crossed>>

\* The arrays start as zeros: no call's number.
EmptyRing(r) == [i \in 0 .. RingSize(r) - 1 |-> 0]

Idle == [at |-> "idle", call |-> 0]

RingInit ==
    /\ ring \in Rings
    /\ index = 0
    /\ entries = EmptyRing(ring)
    /\ doing = [t \in RingThread |-> Idle]
    /\ begun = 0
    /\ stored = <<>>
    /\ overran = FALSE
    /\ crossed = FALSE

\* The hook is called, and calls the original.
Begin(t) ==
    /\ doing[t] = Idle
    /\ begun < MaxRingCalls
    /\ begun' = begun + 1
    /\ doing' = [doing EXCEPT ![t] = [at |-> "original", call |-> begun']]
    /\ UNCHANGED <<ring, index, entries, stored, overran, crossed>>

(***************************************************************************)
(* The original returns and its arguments are stored at the index.  Past   *)
(* the end of the array lies other memory of the module, so an index that  *)
(* is too large is no error the hook notices.                              *)
(***************************************************************************)
Store(t) ==
    /\ doing[t].at = "original"
    /\ entries' = IF index \in DOMAIN entries
                  THEN [entries EXCEPT ![index] = doing[t].call] ELSE entries
    /\ overran' = (overran \/ index \notin DOMAIN entries)
    /\ stored' = Append(stored, doing[t].call)
    /\ crossed' = (crossed \/ \E u \in RingThread : doing[u].at \in {"next", "wrap"})
    /\ doing' = [doing EXCEPT ![t].at = "next"]
    /\ UNCHANGED <<ring, index, begun>>

\* last_mmc_index++
NextIndex(t) ==
    /\ doing[t].at = "next"
    /\ index' = index + 1
    /\ doing' = [doing EXCEPT ![t].at = "wrap"]
    /\ UNCHANGED <<ring, entries, begun, stored, overran, crossed>>

\* Defect: the index wraps one entry too early.
Bug_WrapsEarly(t) ==
    /\ doing[t].at = "wrap"
    /\ index' = IF index = RingSize(ring) - 1 THEN 0 ELSE index
    /\ doing' = [doing EXCEPT ![t] = Idle]
    /\ UNCHANGED <<ring, entries, begun, stored, overran, crossed>>

\* if(last_mmc_index == DEVICE_INFO_SIZE) last_mmc_index = 0, and the hook returns.
Wrap(t) ==
    /\ doing[t].at = "wrap"
    /\ index' = IF index = RingSize(ring) THEN 0 ELSE index
    /\ doing' = [doing EXCEPT ![t] = Idle]
    /\ UNCHANGED <<ring, entries, begun, stored, overran, crossed>>

RingNext == \E t \in RingThread : Begin(t) \/ Store(t) \/ NextIndex(t) \/ Wrap(t)

RingSpec == RingInit /\ [][RingNext]_ringVars

-----------------------------------------------------------------------------
\* The last n elements of a sequence, or all of it when it is shorter.
LastOf(s, n) == SubSeq(s, IF Len(s) > n THEN Len(s) - n + 1 ELSE 1, Len(s))

(***************************************************************************)
(* As long as no two calls overlapped between their store and their wrap,  *)
(* however their originals did, no entry leaves the array (which           *)
(* print_device_info_arrays is there to print), and it holds the calls     *)
(* that stored last, each one once, as many as it has room for.  (Two that *)
(* overlap can both increment the index before either compares it; it then *)
(* misses the size and leaves the array for good.)                         *)
(***************************************************************************)
KeepsLast ==
    ~crossed =>
        LET last == LastOf(stored, RingSize(ring))
            held == {entries[i] : i \in DOMAIN entries} \ {0}
        IN  ~overran /\ held = {last[i] : i \in DOMAIN last}
=============================================================================

------------------------------- MODULE MCHooks --------------------------------
(***************************************************************************)
(* Three groups of hooks that share no state.  Since a property of one     *)
(* depends on its own variables only, a behaviour takes steps of one of    *)
(* them, and the others stay in an initial state of theirs.                *)
(***************************************************************************)
EXTENDS VfsHooks, IoHooks, DeviceRings, TLC

VARIABLE part

AnyInstall == CHOOSE i \in IoInstalls : TRUE

MCInit ==
    /\ VfsInit /\ IoInit /\ RingInit
    /\ \/ part = "vfs"  /\ installed = AnyInstall /\ ring = "mmc"
       \/ part = "io"   /\ ring = "mmc"
       \/ part = "ring" /\ installed = AnyInstall

MCNext ==
    /\ UNCHANGED part
    /\ \/ part = "vfs"  /\ VfsNext  /\ UNCHANGED <<ioVars, ringVars>>
       \/ part = "io"   /\ IoNext   /\ UNCHANGED <<vfsVars, ringVars>>
       \/ part = "ring" /\ RingNext /\ UNCHANGED <<vfsVars, ioVars>>

MCSpec == MCInit /\ [][MCNext]_<<vfsVars, ioVars, ringVars, part>>

\* One hook of each family with each hook that opens its gate.
MCInstalls ==
    {{"app_mgr_23EF934", h} : h \in {"iofilemgr_BF83A0", "iofilemgr_BF89EC",
                                     "iofilemgr_BF66E4"}}
    \cup {{"app_mgr_23EF934", "app_mgr_75c96d25", "iofilemgr_BE8444"},
          {"app_mgr_23EF934", "iofilemgr_BFB794"},
          {"app_mgr_23EF934", "iofilemgr_BFB628"},
          {"iofilemgr_BF3474", "iofilemgr_sceVfsMount"},
          {"iofilemgr_sceVfsMount", "iofilemgr_BE62E8", "iofilemgr_BEBB84", "gen_read"}}

\* The threads are interchangeable.
MCSymmetry == Permutations(IoThread)

MCVfsWatched == {"vfs_func1", "vfs_node_func7", "vfs_node_func5", "sceVfsMount"}
=============================================================================

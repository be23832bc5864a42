------------------------------ MODULE HookTable ------------------------------
(***************************************************************************)
(* initialize_all_hooks and deinitialize_all_hooks of driver/debug.c (in a *)
(* build with ENABLE_REVERSING) and of error_logger.c: long lists that set *)
(* the hooks and injections of each kernel module that is loaded, report   *)
(* each one in the log and release each one.  The lists are kept by hand.  *)
(* One hook of either program is followed from the start of the program to *)
(* its stop; "sdstor_dev_fs_f" is any but the first of sdstor_dev_fs_ids.  *)
(* A hook that a build option leaves out is one whose module is not loaded.*)
(***************************************************************************)
EXTENDS Integers

(* The hooks set, by the module that has to be loaded. *)

Set_PfsMgr ==
    {"pfs_mgr_2d48aea2", "pfs_mgr_2190AEC", "iofilemgr_feee44a9", "iofilemgr_d220539d",
     "pfs_mgr_219105C", "pfs_mgr_2193624", "pfs_mgr_2198928", "pfs_219DE44_check_patch1",
     "pfs_219DE44_check_patch2", "pfs_mgr_2193B44", "pfs_219DE44_check_patch3",
     "pfs_219DE44_check_patch4", "pfs_mgr_219112C", "pfs_mgr_2192190",
     "pfs_219DE44_check_patch5", "iofilemgr_0b54f9e0", "pfs_facade_219C9E8",
     "pfs_facade_21A179C", "pfs_facade_21A19A8", "pfs_facade_219BB70", "pfs_facade_219BDD4",
     "pfs_facade_219BD88", "pfs_facade_c1dd4317", "pfs_facade_219BEA0", "pfs_facade_15c17487",
     "pfs_facade_0219C1F0_crypto_patch4"}

Set_AppMgr ==
    {"appmgr_23D642C", "sceAppMgrGameDataMountForDriver", "appmgr_23D9B50",
     "sceAppMgrGameDataVfsMountForDriver", "proc_read_sealedkey_23D6EA0", "sbl_acmgr_0b6e6cd7",
     "proc_generate_random_path_23D4FBC", "proc_get_clearsign_stat_23D9A4C", "pfs_mgr_a772209c",
     "app_mgr_23D5028", "app_mgr_23EF934", "app_mgr_75c96d25", "app_mgr_75192972",
     "app_mgr_e17efc03"}

Set_GcAuthMgr ==
    {"gc_22fd5d23"}

Set_Sdstor ==
    {"gc", "gen_init_0", "gen_init_1", "gen_init_2", "load_mbr", "mnt_pnt_chk", "mbr_table_init",
     "sdstor_dev_fs_0", "sdstor_dev_fs_f", "gen_read", "sd_read", "init_partition_table",
     "create_device_handle", "gen_init_2_patch", "mbr_init_zero_patch1", "mbr_init_zero_patch2",
     "gen_init_1_patch"}

Set_Sdif ==
    {"init_mmc", "init_sd", "patch_0", "patch_1", "patch_2", "cmd55_41", "send_command",
     "hs_dis_patch1", "hs_dis_patch2", "bus_size_patch"}

Set_Sysmem ==
    {"sysroot_zero"}

Set_Iofilemgr1 ==
    {"iofilemgr_BF3474", "iofilemgr_sceVfsMount", "iofilemgr_sceVfsGetNewNode",
     "iofilemgr_BE5B30", "iofilemgr_BF18CC", "iofilemgr_BEDEB0", "iofilemgr_BE6788",
     "iofilemgr_BE59BC", "iofilemgr_BEBB84", "iofilemgr_BEC7C0"}

Set_Iofilemgr2 ==
    {"iofilemgr_BE61C4", "iofilemgr_BE8444", "iofilemgr_BE5CC4", "iofilemgr_a5a6a55c",
     "iofilemgr_BEA704", "iofilemgr_BE7AEC", "iofilemgr_BF57F8", "iofilemgr_BF66E4",
     "iofilemgr_BF6B6C", "iofilemgr_BF651C", "iofilemgr_BF89EC", "iofilemgr_BF8BD4",
     "iofilemgr_BF7C00", "iofilemgr_BF8BB0", "iofilemgr_BF7288", "iofilemgr_BFB5F0",
     "iofilemgr_BF88C4", "iofilemgr_BFB794", "iofilemgr_BF7268", "iofilemgr_BF83A0",
     "iofilemgr_BFB628", "iofilemgr_BF7228", "iofilemgr_BF83F8", "iofilemgr_BFB748",
     "iofilemgr_BE7F4C", "iofilemgr_BFB2A8", "pfs_facade_4238d2d2"}

Set_Error ==
    {"sceErrorHistoryPostError", "sceErrorHistoryUpdateSequenceInfo",
     "sceErrorGetExternalString_kernel", "sceErrorHistoryGetError"}

(* Mutant: a hook was added here and nowhere else. *)
Bug_NewHook == {"vshSblAuthMgrVerifySpsfo", "vshSblNewHook"}

Set_Vsh ==
    {"vshSblAuthMgrVerifySpsfo"}

Driver_Set ==
    Set_PfsMgr \cup Set_AppMgr \cup Set_GcAuthMgr \cup Set_Sdstor \cup Set_Sdif \cup Set_Sysmem \cup Set_Iofilemgr1 \cup Set_Iofilemgr2 \cup Set_Error \cup Set_Vsh

(* The hooks reported. *)

Report_1 ==
    {"gc", "init_mmc", "init_sd", "cmd55_41", "gen_init_0", "gen_init_1", "gen_init_2",
     "sysroot_zero", "load_mbr", "mnt_pnt_chk", "mbr_table_init", "sdstor_dev_fs_0",
     "sdstor_dev_fs_f", "sceVfsMount", "sceVfsAddVfs"}

Report_2 ==
    {"sceVfsUnmount", "sceVfsDeleteVfs", "sceVfsGetNewNode", "gen_init_2_patch",
     "gen_init_1_patch", "gen_read", "sd_read", "hs_dis_patch1", "hs_dis_patch2",
     "bus_size_patch", "mbr_init_zero_patch1", "mbr_init_zero_patch2", "init_partition_table",
     "create_device_handle"}

Report_3 ==
    {"send_command", "sceErrorHistoryPostError", "sceErrorHistoryUpdateSequenceInfo",
     "sceErrorGetExternalString_kernel", "sceErrorHistoryGetError", "ksceKernelCreateThread",
     "sceKernelCreateThreadForUser", "sceIoOpenForDriver", "ksceKernelWaitSema",
     "ksceKernelSignalSema", "vshSblAuthMgrVerifySpsfo", "debug_printf_callback_invoke",
     "gc_22fd5d23", "appmgr_23D642C"}

Report_4 ==
    {"sceAppMgrGameDataMountForDriver", "appmgr_23D9B50", "sceAppMgrGameDataVfsMountForDriver",
     "sceFiosKernelOverlayRemoveForProcessForDriver", "proc_read_sealedkey_23D6EA0",
     "sbl_acmgr_0b6e6cd7", "proc_generate_random_path_23D4FBC",
     "proc_get_clearsign_stat_23D9A4C", "pfs_mgr_a772209c", "pfs_mgr_2d48aea2",
     "pfs_mgr_2190AEC", "iofilemgr_feee44a9", "iofilemgr_d220539d", "iofilemgr_BF3848"}

Report_5 ==
    {"iofilemgr_BF3474", "iofilemgr_sceVfsMount", "iofilemgr_sceVfsGetNewNode",
     "iofilemgr_BF1AF0", "iofilemgr_BE5B30", "iofilemgr_BF18CC", "iofilemgr_BEDEB0",
     "iofilemgr_BE62E8", "iofilemgr_BE5F10", "iofilemgr_BE6788", "iofilemgr_BEE3C8",
     "iofilemgr_BEBAC0", "iofilemgr_BE61C4", "iofilemgr_BE59BC"}

Report_6 ==
    {"iofilemgr_BEE364", "iofilemgr_BEE2D4", "iofilemgr_BEE2C4", "iofilemgr_BEDF5C",
     "iofilemgr_BECE80", "iofilemgr_BEC808", "iofilemgr_BEC620", "iofilemgr_BEC578",
     "iofilemgr_BEC56C", "iofilemgr_BEC530", "iofilemgr_BEC010", "iofilemgr_BE5A38",
     "iofilemgr_BE5814", "iofilemgr_BEBB84"}

Report_7 ==
    {"iofilemgr_BEC7C0", "iofilemgr_BECE0C", "iofilemgr_exp_aa45010b", "iofilemgr_exp_21d57633",
     "iofilemgr_exp_dc2d8bce", "iofilemgr_exp_6b3ca9f7", "pfs_mgr_219105C", "pfs_mgr_2193624",
     "pfs_mgr_2198928", "pfs_mgr_2199064", "pfs_mgr_219DE44", "pfs_mgr_219DE7C",
     "pfs_mgr_2199144", "pfs_219DE44_check_patch1"}

Report_8 ==
    {"pfs_219DE44_check_patch2", "app_mgr_23D5028", "app_mgr_23EF934", "app_mgr_75c96d25",
     "iofilemgr_BE8444", "iofilemgr_50a63acf", "iofilemgr_BE584C", "iofilemgr_BE5CC4",
     "iofilemgr_f7dac0f5", "iofilemgr_a5a6a55c", "pfs_mgr_21910F4", "pfs_mgr_2193B44",
     "pfs_219DE44_check_patch3", "pfs_219DE44_check_patch4"}

Report_9 ==
    {"app_mgr_75192972", "iofilemgr_BEA704", "iofilemgr_9e347c7d", "iofilemgr_76b79bec",
     "pfs_mgr_219112C", "pfs_mgr_2192190", "pfs_219DE44_check_patch5",
     "pfs_219DE44_check_patch6", "pfs_219DE44_check_patch7", "app_mgr_e17efc03",
     "pfs_80140f02_test_patch1", "pfs_80140f02_test_patch2", "pfs_mgr_219BF20",
     "iofilemgr_BE7AEC"}

Report_10 ==
    {"iofilemgr_BF57F8", "iofilemgr_BF66E4", "iofilemgr_BF6B6C", "iofilemgr_BF69B4",
     "iofilemgr_BF651C", "iofilemgr_BF89EC", "iofilemgr_BF8BD4", "iofilemgr_BF7C00",
     "iofilemgr_BF8BB0", "iofilemgr_BF7288", "iofilemgr_BFB5F0", "iofilemgr_BF88C4",
     "iofilemgr_BFB794", "iofilemgr_BF7268"}

Report_11 ==
    {"iofilemgr_BF83A0", "iofilemgr_BFB628", "iofilemgr_BF7228", "iofilemgr_BF83F8",
     "iofilemgr_BFB748", "iofilemgr_BE7F4C", "iofilemgr_BFB2A8", "pfs_facade_4238d2d2",
     "iofilemgr_0b54f9e0", "pfs_facade_219C9E8", "pfs_facade_21A179C", "pfs_facade_21A19A8",
     "pfs_facade_219BB70", "pfs_facade_219BDD4", "pfs_facade_219BD88", "pfs_facade_c1dd4317",
     "pfs_facade_219BEA0", "pfs_facade_15c17487", "pfs_facade_0219C328_crypto_patch1",
     "pfs_facade_0219C486_crypto_patch2", "pfs_facade_0219C3F4_crypto_patch3",
     "pfs_facade_0219C1F0_crypto_patch4"}

Driver_Report ==
    Report_1 \cup Report_2 \cup Report_3 \cup Report_4 \cup Report_5 \cup Report_6 \cup Report_7 \cup Report_8 \cup Report_9 \cup Report_10 \cup Report_11

(* The hooks released. *)

Release_1 ==
    {"gc", "init_mmc", "init_sd", "patch_0", "patch_1", "patch_2", "cmd55_41", "gen_init_0",
     "gen_init_1", "gen_init_2", "load_mbr", "mnt_pnt_chk", "mbr_table_init", "sysroot_zero",
     "sdstor_dev_fs_0", "sdstor_dev_fs_f", "sceVfsMount", "sceVfsAddVfs", "sceVfsUnmount",
     "sceVfsDeleteVfs", "sceVfsGetNewNode", "gen_init_2_patch", "gen_init_1_patch", "gen_read",
     "sd_read", "hs_dis_patch1", "hs_dis_patch2", "bus_size_patch", "mbr_init_zero_patch1",
     "mbr_init_zero_patch2", "init_partition_table", "create_device_handle", "send_command",
     "sceErrorHistoryPostError", "sceErrorHistoryUpdateSequenceInfo",
     "sceErrorGetExternalString_kernel", "sceErrorHistoryGetError", "ksceKernelCreateThread",
     "sceKernelCreateThreadForUser", "sceIoOpenForDriver", "ksceKernelWaitSema",
     "ksceKernelSignalSema", "vshSblAuthMgrVerifySpsfo", "debug_printf_callback_invoke",
     "gc_22fd5d23", "appmgr_23D642C", "sceAppMgrGameDataMountForDriver", "appmgr_23D9B50",
     "sceAppMgrGameDataVfsMountForDriver", "sceFiosKernelOverlayRemoveForProcessForDriver",
     "proc_read_sealedkey_23D6EA0", "sbl_acmgr_0b6e6cd7", "proc_generate_random_path_23D4FBC",
     "proc_get_clearsign_stat_23D9A4C", "pfs_mgr_a772209c", "pfs_mgr_2d48aea2",
     "pfs_mgr_2190AEC", "iofilemgr_feee44a9", "iofilemgr_d220539d", "iofilemgr_BF3848",
     "iofilemgr_BF3474", "iofilemgr_sceVfsMount", "iofilemgr_sceVfsGetNewNode",
     "iofilemgr_BF1AF0", "iofilemgr_BE5B30", "iofilemgr_BF18CC", "iofilemgr_BEDEB0",
     "iofilemgr_BE62E8", "iofilemgr_BE5F10", "iofilemgr_BE6788", "iofilemgr_BEE3C8",
     "iofilemgr_BEBAC0", "iofilemgr_BE61C4", "iofilemgr_BE59BC", "iofilemgr_BEE364",
     "iofilemgr_BEE2D4", "iofilemgr_BEE2C4", "iofilemgr_BEDF5C", "iofilemgr_BECE80",
     "iofilemgr_BEC808", "iofilemgr_BEC620", "iofilemgr_BEC578", "iofilemgr_BEC56C",
     "iofilemgr_BEC530", "iofilemgr_BEC010", "iofilemgr_BE5A38", "iofilemgr_BE5814",
     "iofilemgr_BEBB84", "iofilemgr_BEC7C0", "iofilemgr_BECE0C", "iofilemgr_exp_aa45010b",
     "iofilemgr_exp_21d57633", "iofilemgr_exp_dc2d8bce", "iofilemgr_exp_6b3ca9f7"}

Release_2 ==
    {"pfs_mgr_219105C", "pfs_mgr_2193624", "pfs_mgr_2198928", "pfs_mgr_2199064",
     "pfs_mgr_219DE44", "pfs_mgr_219DE7C", "pfs_mgr_2199144", "pfs_219DE44_check_patch1",
     "pfs_219DE44_check_patch2", "app_mgr_23D5028", "app_mgr_23EF934", "app_mgr_75c96d25",
     "iofilemgr_BE8444", "iofilemgr_50a63acf", "iofilemgr_BE584C", "iofilemgr_BE5CC4",
     "iofilemgr_f7dac0f5", "iofilemgr_a5a6a55c", "pfs_mgr_21910F4", "pfs_mgr_2193B44",
     "pfs_219DE44_check_patch3", "pfs_219DE44_check_patch4", "app_mgr_75192972",
     "iofilemgr_BEA704", "iofilemgr_9e347c7d", "iofilemgr_76b79bec", "pfs_mgr_219112C",
     "pfs_mgr_2192190", "pfs_219DE44_check_patch5", "pfs_219DE44_check_patch6",
     "pfs_219DE44_check_patch7", "app_mgr_e17efc03", "pfs_80140f02_test_patch1",
     "pfs_80140f02_test_patch2", "pfs_mgr_219BF20", "iofilemgr_BE7AEC", "iofilemgr_BF57F8",
     "iofilemgr_BF66E4", "iofilemgr_BF6B6C", "iofilemgr_BF69B4", "iofilemgr_BF651C",
     "iofilemgr_BF89EC", "iofilemgr_BF8BD4", "iofilemgr_BF7C00", "iofilemgr_BF8BB0",
     "iofilemgr_BF7288", "iofilemgr_BFB5F0", "iofilemgr_BF88C4", "iofilemgr_BFB794",
     "iofilemgr_BF7268", "iofilemgr_BF83A0", "iofilemgr_BFB628", "iofilemgr_BF7228",
     "iofilemgr_BF83F8", "iofilemgr_BFB748", "iofilemgr_BE7F4C", "iofilemgr_BFB2A8",
     "pfs_facade_4238d2d2", "iofilemgr_0b54f9e0", "pfs_facade_219C9E8", "pfs_facade_21A179C",
     "pfs_facade_21A19A8", "pfs_facade_219BB70", "pfs_facade_219BDD4", "pfs_facade_219BD88",
     "pfs_facade_c1dd4317", "pfs_facade_219BEA0", "pfs_facade_15c17487",
     "pfs_facade_0219C328_crypto_patch1", "pfs_facade_0219C486_crypto_patch2",
     "pfs_facade_0219C3F4_crypto_patch3", "pfs_facade_0219C1F0_crypto_patch4"}

(* The same of error_logger. *)

Logger_Set ==
    {"param_sfo_verifySpsfo_shell", "proc_gc_param_sfo_83F2CEA0", "proc_gc_param_sfo_83F6B554",
     "proc_gc_param_sfo_83F74B30", "proc_83F258F8", "proc_83F24534", "sceAppMgrGameDataMount",
     "scePafGraphics_b976a154", "scePafGraphics_b228a257", "param_sfo_verifySpsfo"}

Logger_Report_1 ==
    {"sceErrorGetExternalString", "sceKernelCreateThread", "param_sfo_verifySpsfo",
     "sceKernelLoadModule", "sceKernelLoadStartModule", "param_sfo_verifySpsfo_shell",
     "proc_gc_param_sfo_83F2CEA0", "proc_gc_param_sfo_83F6B554", "proc_gc_param_sfo_83F74B30",
     "proc_83F258F8", "proc_83F27424", "proc_83F2407A"}

Logger_Report_2 ==
    {"proc_83F25592", "proc_83F24534", "proc_83F24D96", "proc_8430F028",
     "queue_worker_entry2_834DED94", "scePafAllocateMem", "proc_83F20D36",
     "scePafGraphics_b976a154", "scePafGraphics_b2eca849", "scePafGraphics_7c8b2a63",
     "scePafGraphics_a97584eb", "scePafGraphics_c84832a2"}

Logger_Report_3 ==
    {"scePafGraphics_b228a257", "scePafMisc_b9fb9bd6", "proc_83F23D5C", "proc_83F275CC",
     "proc_83F10C5A", "sceAppMgrGameDataMount"}

Logger_Release ==
    {"sceErrorGetExternalString", "sceKernelCreateThread", "param_sfo_verifySpsfo",
     "sceKernelLoadModule", "sceKernelLoadStartModule", "param_sfo_verifySpsfo_shell",
     "proc_gc_param_sfo_83F2CEA0", "proc_gc_param_sfo_83F6B554", "proc_gc_param_sfo_83F74B30",
     "proc_83F258F8", "proc_83F27424", "proc_83F2407A", "proc_83F25592", "proc_83F24D96",
     "proc_83F24534", "proc_8430F028", "queue_worker_entry2_834DED94", "scePafAllocateMem",
     "proc_83F20D36", "scePafGraphics_b976a154", "scePafGraphics_b2eca849",
     "scePafGraphics_7c8b2a63", "scePafGraphics_a97584eb", "scePafGraphics_c84832a2",
     "scePafGraphics_b228a257", "scePafMisc_b9fb9bd6", "proc_83F23D5C", "proc_83F275CC",
     "proc_83F10C5A", "sceAppMgrGameDataMount"}

Set     == [driver |-> Driver_Set, error_logger |-> Logger_Set]
Report  == [driver |-> Driver_Report, error_logger |-> Logger_Report_1 \cup Logger_Report_2 \cup Logger_Report_3]
Release == [driver |-> Release_1 \cup Release_2, error_logger |-> Logger_Release]

(* The identifiers that C initialises to 0: the arrays without an          *)
(* initialiser, and all but the first element of the one that has {-1}.    *)
ZeroIds == {"patch_0", "patch_1", "patch_2", "gen_init_0", "gen_init_1", "gen_init_2"}
ZeroFsIds == {"sdstor_dev_fs_f"}
StartsAtZero == ZeroIds \cup ZeroFsIds

-----------------------------------------------------------------------------

VARIABLES
    table,      \* the program and the name of the hook that is followed
    hookPc,     \* where its program is
    hookId,     \* its identifier
    isSet,      \* taiHEN's view: the hook is set
    reported,   \* what the log says of it
    released    \* history: taiHookRelease was called with its identifier

hookVars == <<table, hookPc, hookId, isSet, reported, released>>

HookName    == table.name
Program == table.program

Followed ==
    [program : {"driver"}, name : Driver_Set \cup Release["driver"]] \cup
    [program : {"error_logger"}, name : Logger_Set \cup Logger_Release]

Init_id(name) == IF name \in StartsAtZero THEN 0 ELSE -1

HookInit ==
    /\ table \in Followed
    /\ hookPc = "set" /\ hookId = Init_id(table.name) /\ isSet = FALSE
    /\ reported = "nothing" /\ released = FALSE

(* The call that sets it returns an identifier or an error. *)
SetHook ==
    /\ hookPc = "set" /\ hookPc' = "report"
    /\ HookName \in Set[Program]
    /\ \/ hookId' = 1 /\ isSet' = TRUE
       \/ hookId' = -2 /\ UNCHANGED isSet
    /\ UNCHANGED <<table, reported, released>>

(* Its module is not loaded, or the list does not have it. *)
ModuleMissing ==
    /\ hookPc = "set" /\ hookPc' = "report"
    /\ UNCHANGED <<table, hookId, isSet, reported, released>>

PRINT_HOOK ==
    /\ hookPc = "report" /\ hookPc' = "running"
    /\ reported' = IF HookName \notin Report[Program] THEN "nothing"
                   ELSE IF hookId >= 0 THEN "set" ELSE "failed"
    /\ UNCHANGED <<table, hookId, isSet, released>>

RELEASE_HOOK ==
    /\ hookPc = "running" /\ hookPc' = "stopped"
    /\ IF HookName \in Release[Program] /\ hookId >= 0
       THEN isSet' = FALSE /\ released' = TRUE
       ELSE UNCHANGED <<isSet, released>>
    /\ UNCHANGED <<table, hookId, reported>>

HookNext == SetHook \/ ModuleMissing \/ PRINT_HOOK \/ RELEASE_HOOK

-----------------------------------------------------------------------------

(* The three lists agree, whichever modules were loaded and whichever     *)
(* calls failed: a hook that was set is reported as set, but for the three *)
(* injections into SceSdif, and is gone when its program has stopped; one  *)
(* that was not set is neither reported as set nor released, but for those *)
(* whose identifier is 0 because their module was not loaded.              *)
ListsAgree ==
    LET zero == hookId = 0 /\ HookName \in StartsAtZero
    IN  /\ hookPc = "running" /\ isSet =>
              reported = "set" \/ HookName \in {"patch_0", "patch_1", "patch_2"}
        /\ hookPc = "stopped" => ~isSet
        /\ reported = "set" \/ released => hookId = 1 \/ zero
=============================================================================

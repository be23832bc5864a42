------------------------------- MODULE IoHooks --------------------------------
(***************************************************************************)
(* driver/hooks_misc.c: the hooks that follow an error through the I/O     *)
(* stack.  A hook of an outer operation opens a gate (a global) for the    *)
(* time of its call; a hook of an inner operation, when its original has   *)
(* returned an error and the gate is open, keeps the error in a global of  *)
(* its own, which the hooks of the calls in between print.  The gates are  *)
(* shared by all threads, and the log is itself a file, so that writing a  *)
(* report calls the hooks again.                                           *)
(*                                                                         *)
(* An error is one value here: which code it is never decides anything but *)
(* itself.  The counters of calls (cnt) and the other copies (ops1, ops2,  *)
(* nodeStr) decide nothing and are left out.                               *)
(***************************************************************************)
EXTENDS Naturals, Sequences, FiniteSets

CONSTANTS
    IoThread,       \* threads that do I/O
    IoInstalls,     \* sets of hooks: in a behaviour, one of them is called
    MaxIoDepth,     \* bound: calls of hooks nested in one thread
    MaxIoCalls      \* bound: calls of hooks under way in all threads

-----------------------------------------------------------------------------
\* Hooks that call the original and write a line to the log.
\* Initialisation of the devices and of their partition tables:
Logged_Device == {"gen_init_1", "gen_init_2", "gen_init_3", "sysroot_zero",
    "load_mbr", "mnt_pnt_chk", "mbr_table_init"}
\* the game card's authentication, whose data get_5018_data prints:
Logged_Gc == {"gc_patch"}
\* reads of sectors, partitions and device handles:
Logged_Read == {"gen_read", "sd_read", "init_partition_table",
    "create_device_handle"}
\* commands to the card (logged for the game card only) and the error history:
Logged_Command == {"send_command", "sceErrorHistoryPostError",
    "sceErrorHistoryUpdateSequenceInfo", "sceErrorGetExternalString_kernel",
    "sceErrorHistoryGetError"}
\* signatures and param.sfo:
Logged_Spsfo == {"vshSblAuthMgrVerifySpsfo"}
Logged_ParamSfo == {"app_mgr_23D5028"}
\* mounts of applications:
Logged_App == {"appmgr_23D642C", "sceAppMgrGameDataMountForDriver",
    "appmgr_23D9B50", "sceAppMgrGameDataVfsMountForDriver",
    "sceFiosKernelOverlayRemoveForProcessForDriver",
    "proc_read_sealedkey_23D6EA0", "sbl_acmgr_0b6e6cd7",
    "proc_generate_random_path_23D4FBC", "proc_get_clearsign_stat_23D9A4C"}
\* the protected file system, and the work items of SceIofilemgr:
Logged_Pfs == {"pfs_mgr_a772209c", "pfs_mgr_2d48aea2", "pfs_mgr_2190AEC",
    "iofilemgr_feee44a9", "iofilemgr_d220539d", "iofilemgr_BF3848"}
Logged == Logged_Device \cup Logged_Gc \cup Logged_Read \cup Logged_Command
            \cup Logged_Spsfo \cup Logged_ParamSfo \cup Logged_App \cup Logged_Pfs

\* Hooks of SceIofilemgr and ScePfsMgr that keep the error their original
\* returned, whatever the gates ("if(1)").
Counted_1 == {"iofilemgr_BE62E8", "iofilemgr_BE5F10", "iofilemgr_BE6788",
    "iofilemgr_BEE3C8", "iofilemgr_BEBAC0"}
Counted_2 == {"iofilemgr_BE61C4", "iofilemgr_BEDEB0", "iofilemgr_BE59BC",
    "iofilemgr_BE5B30", "iofilemgr_BF18CC", "iofilemgr_BF1AF0"}
\* (this one also stores the mount in the ring of DeviceRings)
Counted_New == {"iofilemgr_sceVfsGetNewNode"}
Counted_3 == {"iofilemgr_BEE364", "iofilemgr_BEE2D4", "iofilemgr_BEE2C4",
    "iofilemgr_BEDF5C", "iofilemgr_BECE80"}
Counted_4 == {"iofilemgr_BEC808", "iofilemgr_BEC620", "iofilemgr_BEC578",
    "iofilemgr_BEC56C", "iofilemgr_BEC530"}
Counted_5 == {"iofilemgr_BEC010", "iofilemgr_BE5A38", "iofilemgr_BE5814"}
Counted_6 == {"iofilemgr_BECE0C", "iofilemgr_exp_aa45010b",
    "iofilemgr_exp_21d57633", "iofilemgr_exp_dc2d8bce",
    "iofilemgr_exp_6b3ca9f7"}
Counted_7 == {"pfs_mgr_219105C", "pfs_mgr_2193624", "pfs_mgr_2198928",
    "pfs_mgr_2199064"}
\* Of these the second looks only at files that start like sao_files_db_start.
Counted_8 == {"pfs_mgr_219DE44", "pfs_mgr_219DE7C", "pfs_mgr_2199144"}
\* Two write a report first.
CountedLogged == {"iofilemgr_BEBB84", "iofilemgr_BEC7C0"}
Counted == Counted_1 \cup Counted_New \cup Counted_2 \cup Counted_3 \cup Counted_4
            \cup Counted_5 \cup Counted_6 \cup Counted_7 \cup Counted_8 \cup CountedLogged

\* Hooks that keep the error their original returned, if the gate of
\* app_mgr_23EF934 is open: below ksceIoGetstat,
Gated_Stat1 == {"iofilemgr_BE8444", "iofilemgr_50a63acf", "iofilemgr_BE584C",
    "iofilemgr_BE5CC4"}
Gated_Stat2 == {"iofilemgr_f7dac0f5", "iofilemgr_a5a6a55c",
    "pfs_mgr_21910F4", "pfs_mgr_2193B44"}
\* below ksceIoOpen,
Gated_Open == {"iofilemgr_BEA704", "iofilemgr_9e347c7d",
    "iofilemgr_76b79bec", "pfs_mgr_219112C", "pfs_mgr_2192190"}
\* and below ksceIoRead.
Gated_Read == {"pfs_mgr_219BF20", "iofilemgr_BE7AEC", "iofilemgr_BF57F8"}
Gated_Request == {"iofilemgr_BF6B6C", "iofilemgr_BF69B4"}
Gated_Facade1 == {"iofilemgr_BE7F4C", "iofilemgr_BFB2A8",
    "pfs_facade_4238d2d2", "iofilemgr_0b54f9e0", "pfs_facade_219C9E8"}
Gated_Facade2 == {"pfs_facade_21A179C", "pfs_facade_21A19A8",
    "pfs_facade_219BB70", "pfs_facade_219BDD4", "pfs_facade_219BD88",
    "pfs_facade_c1dd4317"}
Gated_Facade3 == {"pfs_facade_15c17487"}
\* Four look also at what the original left in the caller's structure.
GatedBoth_1 == {"iofilemgr_BF66E4"}
GatedBoth_2 == {"iofilemgr_BF651C"}
GatedBoth_3 == {"iofilemgr_BF7C00"}
GatedBoth_4 == {"pfs_facade_219BEA0"}
Gated == Gated_Stat1 \cup Gated_Stat2 \cup Gated_Open \cup Gated_Read
            \cup Gated_Request \cup Gated_Facade1 \cup Gated_Facade2 \cup Gated_Facade3
GatedBoth == GatedBoth_1 \cup GatedBoth_2 \cup GatedBoth_3 \cup GatedBoth_4

\* Hooks that keep the op_result of the I/O request, if the gate is open.
GatedOp_1 == {"iofilemgr_BF89EC", "iofilemgr_BF8BD4"}
GatedOp_2 == {"iofilemgr_BF8BB0", "iofilemgr_BF7288", "iofilemgr_BFB5F0",
    "iofilemgr_BF88C4"}
GatedOp_3 == {"iofilemgr_BF7268"}
GatedOp_4 == {"iofilemgr_BF83F8"}
GatedOp == GatedOp_1 \cup GatedOp_2 \cup GatedOp_3 \cup GatedOp_4

\* Hooks that keep it only if it was 0 before their call ("check first time set").
First_1 == {"iofilemgr_BF83A0"}
First_2 == {"iofilemgr_BFB748"}
First_3 == {"iofilemgr_BF7228"}
\* One keeps the returned error as well, one the error it was given as an argument.
FirstBoth == {"iofilemgr_BFB794"}
FirstArg == {"iofilemgr_BFB628"}
First == First_1 \cup First_2 \cup First_3 \cup FirstBoth \cup FirstArg

\* Hooks that print what the others kept, if the gate is open.
Printer_Stat == {"app_mgr_75c96d25"}
Printer_Open == {"app_mgr_75192972"}
Printer_Read == {"app_mgr_e17efc03"}
Printers == Printer_Stat \cup Printer_Open \cup Printer_Read

\* Hooks that open a gate while their original runs.
Opener == [app |-> "app_mgr_23EF934", pfs |-> "iofilemgr_BF3474",
           mount |-> "iofilemgr_sceVfsMount"]
Gate == DOMAIN Opener

Result == {"ok", "error"}

VARIABLES
    installed,  \* the hooks of this behaviour
    gate,       \* [Gate -> 0 or 1]: log_iofilemgr_in_app_mgr, g_pfs_mount_enable_log,
                \*   g_iofilemgr_sceVfsMount_enable_log
    kept,       \* hooks whose error global is set; nothing clears one
    calls,      \* [IoThread -> Seq of frames]: the calls of hooks, outermost first
    op_result,  \* [IoThread -> Result]: in the request the thread works on
    overlapped,   \* two calls that open the same gate overlapped (history)
    blamed,     \* hooks that kept an error older than their call (history)
    missed      \* a call made inside its opener had an error nobody kept (history)

ioVars == <<installed, gate, kept, calls, op_result, overlapped, blamed, missed>>

IoInit ==
    /\ installed \in IoInstalls
    /\ gate = [g \in Gate |-> 0]
    /\ kept = {}
    /\ calls = [t \in IoThread |-> <<>>]
    /\ op_result = [t \in IoThread |-> "ok"]
    /\ overlapped = FALSE
    /\ blamed = {}
    /\ missed = FALSE

(***************************************************************************)
(* A frame: the hook, where it is ("in" the original, or writing its       *)
(* "log"), what it noted before the call and op_result then (as history,   *)
(* or to come back to when the log is written).  The note of a hook that   *)
(* looks at a request is "none" when it has no request (a null pointer),   *)
(* of an opener when the call is not of the kind that opens the gate.      *)
(***************************************************************************)
Inner(t)  == calls[t][Len(calls[t])]
At(t, p)  == calls[t] # <<>> /\ Inner(t).at = p
Leave(t)  == calls' = [calls EXCEPT ![t] = SubSeq(@, 1, Len(@) - 1)]

\* The log is a file too, written with requests of its own.
StartLog(t) ==
    /\ calls' = [calls EXCEPT ![t][Len(calls[t])] = [@ EXCEPT !.at = "log", !.was = op_result[t]]]
    /\ op_result' = [op_result EXCEPT ![t] = "ok"]

EndLog(t) ==
    /\ op_result' = [op_result EXCEPT ![t] = Inner(t).was]
    /\ Leave(t)

\* A hook runs when its thread calls it from outside, or from inside a hook
\* whose original, or whose log, does I/O.
MayCall(t) ==
    /\ Len(calls[t]) < MaxIoDepth
    /\ Cardinality(UNION {{u} \X DOMAIN calls[u] : u \in IoThread}) < MaxIoCalls

Enter(t, h, note) ==
    calls' = [calls EXCEPT ![t] = Append(@,
                [hook |-> h, at |-> "in", note |-> note, was |-> op_result'[t]])]

\* Somebody looks at the result of a request.
RequestSeen == installed \cap (GatedOp \cup GatedBoth \cup First) # {}

\* The request is the caller's: a call from outside may come with one that failed.
Request(t) ==
    IF calls[t] = <<>> /\ RequestSeen
    THEN \E r \in Result : op_result' = [op_result EXCEPT ![t] = r]
    ELSE UNCHANGED op_result

\* Some call that opens gate g has not closed it yet.
Open(g) ==
    \E t \in IoThread : \E i \in DOMAIN calls[t] :
        LET f == calls[t][i]
        IN  f.hook = Opener[g] /\ f.note = "opens" /\ (g = "app" => f.at = "in")

\* The outer operation is called: the gate is opened for the kind of call that is followed.
OpenGate(t) ==
    \E g \in Gate :
        /\ MayCall(t)
        /\ Opener[g] \in installed
        /\ Request(t)
        /\ \E note \in (IF g = "app" THEN {"opens"} ELSE {"opens", "none"}) :
            /\ gate' = IF note = "opens" THEN [gate EXCEPT ![g] = 1] ELSE gate
            /\ overlapped' = (overlapped \/ (note = "opens" /\ Open(g)))
            /\ Enter(t, Opener[g], note)
        /\ UNCHANGED <<installed, kept, blamed, missed>>

\* A hook that notes nothing before its call.
EnterPlain(t) ==
    \E h \in installed \cap (Logged \cup Counted \cup Gated \cup Printers) :
        /\ MayCall(t)
        /\ Request(t)
        /\ Enter(t, h, "none")
        /\ UNCHANGED <<installed, gate, kept, overlapped, blamed, missed>>

\* A hook that is given a request, perhaps a null pointer.
EnterRequest(t) ==
    \E h \in installed \cap (GatedOp \cup GatedBoth) :
        /\ MayCall(t)
        /\ Request(t)
        /\ \E note \in {"none", "request"} : Enter(t, h, note)
        /\ UNCHANGED <<installed, gate, kept, overlapped, blamed, missed>>

\* Defect: prev_err starts as 0.
Bug_StartsClean(t, request) ==
    IF ~request THEN "none"
    ELSE IF gate.app = 1 THEN op_result'[t] ELSE "ok"

\* prev_err is -1, or op_result when the gate is open.
PrevErr(t, request) ==
    IF ~request THEN "none"
    ELSE IF gate.app = 1 THEN op_result'[t] ELSE "unread"

EnterFirst(t) ==
    \E h \in installed \cap First :
        /\ MayCall(t)
        /\ Request(t)
        /\ \E request \in BOOLEAN : Enter(t, h, PrevErr(t, request))
        /\ UNCHANGED <<installed, gate, kept, overlapped, blamed, missed>>

\* The original of the innermost hook (or what its log calls) fails the request.
Fail(t) ==
    /\ At(t, "in") /\ RequestSeen
    /\ op_result[t] = "ok"
    /\ op_result' = [op_result EXCEPT ![t] = "error"]
    /\ UNCHANGED <<installed, gate, kept, calls, overlapped, blamed, missed>>

-----------------------------------------------------------------------------
\* What the globals of the hooks become when errors (of "res", "op" and "arg") are seen.
Keep(t, errors) ==
    /\ kept' = IF errors = {} THEN kept ELSE kept \cup {Inner(t).hook}
    /\ blamed' = IF "op" \in errors /\ Inner(t).was = "error"
                 THEN blamed \cup {Inner(t).hook} ELSE blamed

\* The thread is inside a call that opens gate g.
Inside(t, g) ==
    \E i \in 1 .. Len(calls[t]) - 1 :
        calls[t][i].hook = Opener[g] /\ calls[t][i].note = "opens" /\ calls[t][i].at = "in"

\* A call with errors returned: they are kept if the gate is open.
KeepGated(t, errors) ==
    /\ Keep(t, IF gate.app = 1 THEN errors ELSE {})
    /\ missed' = (missed \/ (gate.app = 0 /\ errors # {} /\ Inside(t, "app")))

\* A hook that only logs.
ReturnLogged(t) ==
    /\ At(t, "in")
    /\ Inner(t).hook \in Logged
    /\ \/ StartLog(t)
       \/ /\ Inner(t).hook \in {"gen_read", "send_command"}   \* another device
          /\ Leave(t) /\ UNCHANGED op_result
    /\ UNCHANGED <<installed, gate, kept, overlapped, blamed, missed>>

\* g_iofilemgr_BE62E8_hook_error = res, if res < 0.
ReturnCounted(t) ==
    /\ At(t, IF Inner(t).hook \in CountedLogged THEN "log" ELSE "in")
    /\ Inner(t).hook \in Counted
    /\ \E errors \in SUBSET {"res"} : Keep(t, errors)
    /\ IF At(t, "log") THEN EndLog(t) ELSE Leave(t) /\ UNCHANGED op_result
    /\ UNCHANGED <<installed, gate, overlapped, missed>>

\* iofilemgr_BEBB84 writes its report before it keeps the error.
LogCounted(t) ==
    /\ At(t, "in")
    /\ Inner(t).hook \in CountedLogged
    /\ StartLog(t)
    /\ UNCHANGED <<installed, gate, kept, overlapped, blamed, missed>>

\* if(log_iofilemgr_in_app_mgr > 0) ... = res, if res < 0.
ReturnGated(t) ==
    /\ At(t, "in")
    /\ Inner(t).hook \in Gated
    /\ \E errors \in SUBSET {"res"} : KeepGated(t, errors)
    /\ Leave(t)
    /\ UNCHANGED <<installed, gate, op_result, overlapped>>

\* The error in the request, when there is one.
OpError(t) == IF op_result[t] = "error" /\ Inner(t).note # "none" THEN {"op"} ELSE {}

ReturnOp(t) ==
    /\ At(t, "in")
    /\ Inner(t).hook \in GatedOp
    /\ KeepGated(t, OpError(t))
    /\ Leave(t)
    /\ UNCHANGED <<installed, gate, op_result, overlapped>>

ReturnBoth(t) ==
    /\ At(t, "in")
    /\ Inner(t).hook \in GatedBoth
    /\ \E errors \in SUBSET {"res"} : KeepGated(t, errors \cup OpError(t))
    /\ Leave(t)
    /\ UNCHANGED <<installed, gate, op_result, overlapped>>

\* op_result is kept only if prev_err is 0; iofilemgr_BFB794 also keeps res,
\* iofilemgr_BFB628 its argument.
ReturnFirst(t) ==
    /\ At(t, "in")
    /\ Inner(t).hook \in First
    /\ LET first == Inner(t).note = "ok"
           other == IF Inner(t).hook \in FirstBoth THEN {"res"}
                    ELSE IF Inner(t).hook \in FirstArg /\ first THEN {"arg"} ELSE {}
       IN  \E errors \in SUBSET other :
               KeepGated(t, errors \cup IF first THEN OpError(t) ELSE {})
    /\ Leave(t)
    /\ UNCHANGED <<installed, gate, op_result, overlapped>>

\* app_mgr_75c96d25 and the others print the globals, with the gate open.
ReturnPrinter(t) ==
    /\ At(t, "in")
    /\ Inner(t).hook \in Printers
    /\ IF gate.app = 1 THEN StartLog(t) ELSE Leave(t) /\ UNCHANGED op_result
    /\ UNCHANGED <<installed, gate, kept, overlapped, blamed, missed>>

-----------------------------------------------------------------------------
\* Defect: the gate stays open.
Bug_StaysOpen(t) ==
    /\ At(t, "in")
    /\ Inner(t).hook = Opener.app
    /\ StartLog(t)
    /\ UNCHANGED <<installed, gate, kept, overlapped, blamed, missed>>

\* app_mgr_23EF934 closes its gate before it logs,
CloseApp(t) ==
    /\ At(t, "in")
    /\ Inner(t).hook = Opener.app
    /\ gate' = [gate EXCEPT !.app = 0]
    /\ StartLog(t)
    /\ UNCHANGED <<installed, kept, overlapped, blamed, missed>>

\* Defect: a hook that ends closes the other gates with its own.
Bug_ShutsAll(t, g) ==
    gate' = IF Inner(t).note = "opens" THEN [o \in Gate |-> 0] ELSE gate

\* A call closes the gate it opened.
Shut(t, g) ==
    gate' = IF Inner(t).note = "opens" THEN [gate EXCEPT ![g] = 0] ELSE gate

\* iofilemgr_BF3474 after (LeaveLog),
LogPfs(t) ==
    /\ At(t, "in")
    /\ Inner(t).hook = Opener.pfs
    /\ StartLog(t)
    /\ UNCHANGED <<installed, gate, kept, overlapped, blamed, missed>>

\* and iofilemgr_sceVfsMount reports what the hooks kept if both gates are open.
ReturnMount(t) ==
    /\ At(t, "in")
    /\ Inner(t).hook = Opener.mount
    /\ IF gate.pfs = 1 /\ gate.mount = 1
       THEN StartLog(t) /\ UNCHANGED <<gate, missed>>
       ELSE /\ Shut(t, "mount")
            /\ missed' = (missed \/ (Inner(t).note = "opens" /\ Inside(t, "pfs")))
            /\ Leave(t) /\ UNCHANGED op_result
    /\ UNCHANGED <<installed, kept, overlapped, blamed>>

\* The report is written.
LeaveLog(t) ==
    /\ At(t, "log")
    /\ Inner(t).hook \notin CountedLogged
    /\ IF Inner(t).hook = Opener.pfs THEN Shut(t, "pfs")
       ELSE IF Inner(t).hook = Opener.mount THEN Shut(t, "mount")
       ELSE UNCHANGED gate
    /\ EndLog(t)
    /\ UNCHANGED <<installed, kept, overlapped, blamed, missed>>

IoNext ==
    \E t \in IoThread :
        \/ OpenGate(t) \/ EnterPlain(t) \/ EnterRequest(t) \/ EnterFirst(t) \/ Fail(t)
        \/ ReturnLogged(t) \/ ReturnCounted(t) \/ LogCounted(t) \/ ReturnGated(t)
        \/ ReturnOp(t) \/ ReturnBoth(t) \/ ReturnFirst(t) \/ ReturnPrinter(t)
        \/ CloseApp(t) \/ LogPfs(t) \/ ReturnMount(t) \/ LeaveLog(t)

IoSpec == IoInit /\ [][IoNext]_ioVars

-----------------------------------------------------------------------------
(***************************************************************************)
(* A gate that is open belongs to a call that will close it: however the   *)
(* calls of several threads overlap, no gate is left open, which would     *)
(* make every later error of any thread count as one of the operation that *)
(* is followed.                                                            *)
(***************************************************************************)
GateHeld == \A g \in Gate : gate[g] = 1 => Open(g)

(***************************************************************************)
(* An error made inside the operation that is followed, by the thread that *)
(* does it, is kept, and a mount made inside a mount operation is          *)
(* reported, unless two calls that open the same gate overlapped: the      *)
(* first to return closes the gate for both.                               *)
(***************************************************************************)
NothingMissed == missed => overlapped

(***************************************************************************)
(* A hook that checks "first time set" never keeps an error that was in    *)
(* the request before its call, even if the gate was opened by another     *)
(* thread during the call: the chain of hooks that kept the error leads to *)
(* the place where it arose.                                               *)
(***************************************************************************)
BlamesOwnCall == blamed \cap First = {}
=============================================================================

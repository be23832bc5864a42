------------------------------- MODULE VfsHooks -------------------------------
(***************************************************************************)
(* driver/hooks_vfs_ops.c and hooks_vfs_funcs.c: the hooks on the file     *)
(* system operations of SceSdstor.  A hook logs each call to a file of the *)
(* file system it watches, so a write of the log comes back as calls of    *)
(* the hooks, from inside the hook.  Eleven hooks stop that with a flag    *)
(* that refuses calls while they log, two only count, and five do nothing  *)
(* but call the original.                                                  *)
(*                                                                         *)
(* The flag is one global for all threads.  It is tested before the        *)
(* original is called and set after, and the last lines of a call's report *)
(* are written with the flag cleared.                                      *)
(***************************************************************************)
EXTENDS Naturals, Sequences, FiniteSets

CONSTANTS
    VfsThread,      \* threads that use the file system
    VfsWatched,     \* the hooks that are called
    MaxVfsDepth,    \* bound: calls of hooks nested in one thread
    MaxVfsCalls     \* bound: calls of hooks under way in all threads

VARIABLES
    entered,    \* [VfsGuarded -> 0 or 1]: vfs_func1_entered and the others
    stack,      \* [VfsThread -> Seq of frames]: the calls of hooks, outermost first
    met         \* hooks two calls of which wrote their reports together (history)

vfsVars == <<entered, stack, met>>

\* vfs_func1 ... vfs_func13, called for the file system as a whole.
FsHooks == {"vfs_func1", "vfs_func3", "vfs_func12", "vfs_func13"}

\* vfs_node_func1 ... 4, called for a node.
NodeHooks1 == {"vfs_node_func1", "vfs_node_func3", "vfs_node_func4"}

\* vfs_node_func7 ... 20.
NodeHooks2 == {"vfs_node_func7", "vfs_node_func9", "vfs_node_func19", "vfs_node_func20"}

\* vfs_node_func5 and 6 (reads and writes), whose log is commented out.
CountHooks == {"vfs_node_func5", "vfs_node_func6"}

\* hooks_vfs_funcs.c, whose messages are commented out.
ForwardHooks == {"sceVfsMount", "sceVfsAddVfs", "sceVfsUnmount",
                 "sceVfsDeleteVfs", "sceVfsGetNewNode"}

VfsGuarded == VfsWatched \cap (FsHooks \cup NodeHooks1 \cup NodeHooks2)

\* A frame is at one of these points of its hook.
Points == {"test", "original", "log", "tail"}

Top(t)      == stack[t][Len(stack[t])]
Running(t, p) == stack[t] # <<>> /\ Top(t).at = p
Goto(t, p)  == stack' = [stack EXCEPT ![t][Len(stack[t])].at = p]
Return(t)   == stack' = [stack EXCEPT ![t] = SubSeq(@, 1, Len(@) - 1)]

\* A call that is at point p of hook h, other than the topmost call of t.
OthersAt(t, h, p) ==
    \E u \in VfsThread : \E i \in DOMAIN stack[u] :
        /\ <<u, i>> # <<t, Len(stack[t])>>
        /\ stack[u][i] = [hook |-> h, at |-> p]

VfsInit ==
    /\ entered = [h \in VfsGuarded |-> 0]
    /\ stack = [t \in VfsThread |-> <<>>]
    /\ met = {}

(***************************************************************************)
(* A thread calls a hooked operation: from outside, because a hook of its  *)
(* own is writing to the log file, or because the original that a hook has *)
(* called uses another operation (or the same one) on the way.             *)
(***************************************************************************)
VfsCall(t) ==
    /\ stack[t] = <<>> \/ Running(t, "original") \/ Running(t, "log") \/ Running(t, "tail")
    /\ Len(stack[t]) < MaxVfsDepth
    /\ Cardinality(UNION {{u} \X DOMAIN stack[u] : u \in VfsThread}) < MaxVfsCalls
    /\ \E h \in VfsWatched :
        stack' = [stack EXCEPT ![t] = Append(@,
                       [hook |-> h, at |-> IF h \in VfsGuarded THEN "test" ELSE "original"])]
    /\ UNCHANGED <<entered, met>>

\* Defect: the test is left out.
Bug_NoTest(t) ==
    /\ Running(t, "test")
    /\ Goto(t, "original")
    /\ UNCHANGED <<entered, met>>

\* if(vfs_func1_entered == 1) return -1: the operation fails without being run.
TestEntered(t) ==
    /\ Running(t, "test")
    /\ IF entered[Top(t).hook] = 1 THEN Return(t) ELSE Goto(t, "original")
    /\ UNCHANGED <<entered, met>>

\* The original returned: vfs_func1_entered = 1.
SetEntered(t) ==
    /\ Running(t, "original")
    /\ Top(t).hook \in VfsGuarded
    /\ met' = IF OthersAt(t, Top(t).hook, "log") THEN met \cup {Top(t).hook} ELSE met
    /\ entered' = [entered EXCEPT ![Top(t).hook] = 1]
    /\ Goto(t, "log")

\* Defect: the flag stays set.
Bug_StaysSet(t) ==
    /\ Running(t, "log")
    /\ Goto(t, "tail")
    /\ UNCHANGED <<entered, met>>

\* The report is written: vfs_func1_entered = 0.
ClearEntered(t) ==
    /\ Running(t, "log")
    /\ entered' = [entered EXCEPT ![Top(t).hook] = 0]
    /\ Goto(t, "tail")
    /\ UNCHANGED met

\* print_vfs_node, print_sd_stor_dev_name_by_address and the empty line are written.
print_vfs_node(t) ==
    /\ Running(t, "tail")
    /\ Return(t)
    /\ UNCHANGED <<entered, met>>

\* The other hooks return what the original did.  The counters of vfs_node_func5
\* and 6 are only printed.
Forward(t) ==
    /\ Running(t, "original")
    /\ Top(t).hook \in CountHooks \cup ForwardHooks
    /\ Return(t)
    /\ UNCHANGED <<entered, met>>

VfsNext ==
    \E t \in VfsThread :
        \/ VfsCall(t) \/ TestEntered(t) \/ SetEntered(t) \/ ClearEntered(t)
        \/ print_vfs_node(t) \/ Forward(t)

VfsSpec == VfsInit /\ [][VfsNext]_vfsVars

-----------------------------------------------------------------------------
(***************************************************************************)
(* A hook refuses calls only while a call of it is writing its report: no  *)
(* order of tests, sets and clears by several threads leaves a flag set    *)
(* behind, which would make the file system fail for ever (the `entered`   *)
(* flags of hooks_vfs_ops.c).                                              *)
(***************************************************************************)
GuardNotStuck ==
    \A h \in VfsGuarded :
        entered[h] = 1 =>
            \E t \in VfsThread : \E i \in DOMAIN stack[t] :
                stack[t][i].hook = h /\ stack[t][i].at = "log"

(***************************************************************************)
(* The flag does what it is there for: while no two calls of a hook wrote  *)
(* their reports together, a call nested in a report of the same hook does *)
(* not get past the test.  (Two threads defeat it: the first to clear the  *)
(* flag lets the calls nested in the other's report through.)              *)
(***************************************************************************)
NoRecursion ==
    \A t \in VfsThread : \A i, j \in DOMAIN stack[t] :
        (i < j /\ stack[t][i].hook = stack[t][j].hook /\ stack[t][i].at = "log"
               /\ stack[t][i].hook \notin met)
            => stack[t][j].at = "test"
=============================================================================

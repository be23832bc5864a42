------------------------------ MODULE GlobalLog ------------------------------
(***************************************************************************)
(* driver/glog.c (and sdstor_log.c, its copy): the log file that the hooks *)
(* share, opened by the first and closed by the last of the users that     *)
(* have it open, under a mutex whose lock and unlock results nobody looks  *)
(* at.  A user is one open ... close pair; a thread that opens the log     *)
(* while it has it open already is two users.  A step is what a call does  *)
(* between two system calls or accesses to the shared variables.           *)
(***************************************************************************)
EXTENDS Integers, FiniteSets

CONSTANT Users

ASSUME UsersAssumption == IsFiniteSet(Users)

VARIABLES
    fd,         \* global_log_fd: -1, an error code, or a descriptor
    ref,        \* global_ref_ctx
    mutex,      \* "none", "created", "failed" (no mutex) or "deleted"
    owner,      \* the set of the user that holds the mutex
    pc,         \* where each user is
    files,      \* the system's view: how often the file is open
    unguarded   \* history: a call went in without the mutex

vars == <<fd, ref, mutex, owner, pc, files, unguarded>>

(* ksceIoOpen returns a descriptor, or an error code that is not -1. *)
Descriptor == 1
OpenError  == -2

Init ==
    /\ fd = -1 /\ ref = 0
    /\ mutex = "none" /\ owner = {}
    /\ pc = [u \in Users |-> "idle"]
    /\ files = 0
    /\ unguarded = FALSE

Go(u, from, to) == pc[u] = from /\ pc' = [pc EXCEPT ![u] = to]

(* module_start creates the mutex before the hooks are there. *)
init_global_log ==
    /\ mutex = "none"
    /\ mutex' \in {"created", "failed"}
    /\ UNCHANGED <<fd, ref, owner, pc, files, unguarded>>

(* module_stop deletes it, when hooks may still be running. *)
deinit_global_log ==
    /\ mutex \in {"created", "failed"}
    /\ mutex' = "deleted" /\ owner' = {}
    /\ UNCHANGED <<fd, ref, pc, files, unguarded>>

(* A call locks the mutex, or fails to and goes on. *)
Lock(u, from, to) ==
    /\ Go(u, from, to)
    /\ \/ mutex = "created" /\ owner = {} /\ owner' = {u} /\ UNCHANGED unguarded
       \/ mutex # "created" /\ unguarded' = TRUE /\ UNCHANGED owner
    /\ UNCHANGED <<fd, ref, mutex, files>>

(* Mutant: the mutex is not unlocked. *)
Bug_NeverUnlocked(u, from, to) ==
    /\ Go(u, from, to)
    /\ UNCHANGED <<fd, ref, mutex, owner, files, unguarded>>

Unlock(u, from, to) ==
    /\ Go(u, from, to)
    /\ owner' = owner \ {u}
    /\ UNCHANGED <<fd, ref, mutex, files, unguarded>>

Call(u, from, to) ==
    /\ Go(u, from, to)
    /\ UNCHANGED <<fd, ref, mutex, owner, files, unguarded>>

(* A hook is entered while the hooks are installed.  This is also the bound *)
(* on ref and files: nothing is claimed of a log whose mutex was missing    *)
(* when it was used, and nobody else opens it then.                         *)
MayOpen == mutex \in {"created", "failed"} /\ ~unguarded

open_test(u) ==
    /\ Go(u, "open_test", IF fd = -1 /\ ref = 0 THEN "open_file" ELSE "open_count")
    /\ UNCHANGED <<fd, ref, mutex, owner, files, unguarded>>

open_file(u) ==
    /\ Go(u, "open_file", "open_count")
    /\ \/ fd' = Descriptor /\ files' = files + 1
       \/ fd' = OpenError /\ UNCHANGED files
    /\ UNCHANGED <<ref, mutex, owner, unguarded>>

open_count(u) ==
    /\ Go(u, "open_count", "open_done")
    /\ ref' = ref + 1
    /\ UNCHANGED <<fd, mutex, owner, files, unguarded>>

open_global_log(u) ==
    \/ MayOpen /\ Call(u, "idle", "open")
    \/ Lock(u, "open", "open_test")
    \/ open_test(u) \/ open_file(u) \/ open_count(u)
    \/ Unlock(u, "open_done", "held")

(* The write itself leaves the variables alone. *)
FILE_GLOBAL_WRITE_LEN(u) ==
    \/ Call(u, "held", "write")
    \/ Lock(u, "write", "write_in")
    \/ Unlock(u, "write_in", "held")

close_count(u) ==
    /\ Go(u, "close_count", "close_test")
    /\ ref' = ref - 1
    /\ UNCHANGED <<fd, mutex, owner, files, unguarded>>

(* Mutant: the first user to close closes the file. *)
Bug_CloseIgnoresCount(u) ==
    /\ Go(u, "close_test", IF fd >= 0 THEN "close_file" ELSE "close_done")
    /\ UNCHANGED <<fd, ref, mutex, owner, files, unguarded>>

close_test(u) ==
    /\ Go(u, "close_test", IF fd >= 0 /\ ref = 0 THEN "close_file" ELSE "close_done")
    /\ UNCHANGED <<fd, ref, mutex, owner, files, unguarded>>

(* Mutant: the closed descriptor stays in the variable. *)
Bug_DescriptorKept(u) ==
    /\ Go(u, "close_file", "close_done")
    /\ files' = files - 1
    /\ UNCHANGED <<fd, ref, mutex, owner, unguarded>>

close_file(u) ==
    /\ Go(u, "close_file", "close_done")
    /\ files' = files - 1 /\ fd' = -1
    /\ UNCHANGED <<ref, mutex, owner, unguarded>>

close_global_log(u) ==
    \/ Call(u, "held", "close")
    \/ Lock(u, "close", "close_count")
    \/ close_count(u) \/ close_test(u) \/ close_file(u)
    \/ Unlock(u, "close_done", "idle")

User(u) == open_global_log(u) \/ FILE_GLOBAL_WRITE_LEN(u) \/ close_global_log(u)

Next == init_global_log \/ deinit_global_log \/ \E u \in Users : User(u)

Spec == Init /\ [][Next]_vars

(* A thread that has called the log goes on; one that waits for the mutex  *)
(* gets it if it is free again and again (its waiters are served in turn). *)
Running(u) == User(u) /\ pc[u] \notin {"idle", "held"}
FairSpec == Spec /\ \A u \in Users : SF_vars(Running(u))

-----------------------------------------------------------------------------

Places == {"idle", "open", "open_test", "open_file", "open_count", "open_done", "held",
           "write", "write_in", "close", "close_count", "close_test", "close_file",
           "close_done"}

(* Type invariant. *)
TypeOK ==
    /\ fd \in {-1, OpenError, Descriptor}
    /\ ref \in Int /\ files \in Int
    /\ mutex \in {"none", "created", "failed", "deleted"}
    /\ owner \in SUBSET Users
    /\ pc \in [Users -> Places]
    /\ unguarded \in BOOLEAN

(* Between its return from open and its call of close a user finds the     *)
(* file open, whatever the others open and close, or an open has failed.   *)
Using == {"held", "write", "write_in", "close"}
OpenWhileUsed ==
    ~unguarded => \A u \in Users : pc[u] \in Using => fd # -1

(* A descriptor in the variable is a file that is open, once, and when     *)
(* everyone has closed the log it is closed and nothing is counted.        *)
NothingLeftOpen ==
    ~unguarded =>
        /\ fd = Descriptor <=> files = 1
        /\ files \in {0, 1}
        /\ (\A u \in Users : pc[u] = "idle") => files = 0 /\ ref = 0

(* Every call of the log returns: nobody waits for the mutex for ever,     *)
(* also when it is deleted while someone waits.                            *)
CallsReturn == \A u \in Users : pc[u] \in {"open", "write", "close"} ~> pc[u] \in {"held", "idle"}
=============================================================================

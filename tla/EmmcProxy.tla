------------------------------ MODULE EmmcProxy ------------------------------
(***************************************************************************)
(* The whole dumping system: runs of the client program, the server and    *)
(* the driver, with failing system calls, lost connections, killed clients *)
(* and a server that is killed and started again.                          *)
(***************************************************************************)
EXTENDS Server

CONSTANTS
    SectorsPerCluster, Mode, PartitionOffset, PartitionSize, PartitionTypes

ASSUME PartitionAssumption ==
    /\ SectorsPerCluster \in Nat \ {0}
    /\ Mode \in Devices
    /\ PartitionOffset \in Nat /\ PartitionSize \in Nat
    /\ PartitionTypes \subseteq {"raw", "empty"}

VARIABLES
    cl,          \* the runs of the client, see Client
    acquired,    \* history: clients whose init has set up the user pool
    slipped,     \* history: clients that have lost their place in the stream
    freeFailed   \* history: a release of the kernel pool has failed

vars == <<dvars, svars, cl, acquired, slipped, freeFailed>>

C == INSTANCE Client

Init ==
    /\ DriverInit /\ ServerInit
    /\ C!ClientInit
    /\ acquired = {} /\ slipped = {}
    /\ freeFailed = FALSE

Listening == listener /\ pc \in Serving

ServerStep ==
    /\ main
    /\ acquired' = IF upool.init = 0 /\ upool'.init = 1
                   THEN acquired \cup {cli_sock} ELSE acquired
    /\ freeFailed' = (freeFailed \/ (/\ pc = "handle" /\ cmd = DEINIT /\ upool.init # 0
                                    /\ kpool.init = 1 /\ kpool'.init = 1))
    /\ UNCHANGED <<cl, slipped>>

SystemStep == System /\ UNCHANGED <<cl, acquired, slipped, freeFailed>>

ResetStep(c) == ResetDue(c) /\ UNCHANGED <<cl, acquired, slipped, freeFailed>>
LossStep(c) == LinkLost(c) /\ UNCHANGED <<cl, acquired, slipped, freeFailed>>

OnLink == UNCHANGED <<dvars, upool, ubuf, pc, emmc_sock, cli_sock, listener, cmd, out,
                      after, badCopy, launches, acquired, freeFailed>>

(* The program is run when the server has been started. *)
ClientStep(c) ==
    /\ launches > 0
    /\ C!ClientMain(c, Listening)
    /\ slipped' = IF C!HeaderCut(c) THEN slipped \cup {c} ELSE slipped
    /\ OnLink /\ UNCHANGED faults

KillStep(c) == C!ClientKilled(c) /\ Fault /\ OnLink /\ UNCHANGED slipped

Next ==
    \/ ServerStep \/ SystemStep
    \/ \E c \in Clients :
        ClientStep(c) \/ KillStep(c) \/ ResetStep(c) \/ LossStep(c)

Spec == Init /\ [][Next]_vars

(* The driver is loaded and the server started; processes run when they    *)
(* can, and TCP delivers the resets it owes.  Nothing makes a fault happen. *)
Fairness ==
    /\ WF_vars(SystemStep /\ UNCHANGED faults)
    /\ WF_vars(ServerStep /\ UNCHANGED faults)
    /\ \A c \in Clients : WF_vars(ClientStep(c)) /\ WF_vars(ResetStep(c))

FairSpec == Spec /\ Fairness

-----------------------------------------------------------------------------

(* Type invariant. *)
TypeOK == DriverType /\ ServerType /\ C!ClientType

(* A dump that runs to its end is one to one: the file is the partition,   *)
(* sector by sector, whatever calls failed, connections were lost or       *)
(* processes restarted on the way.                                         *)
DumpFaithful ==
    \A c \in Clients : cl[c].ret = "ok" /\ ~badCopy => cl[c].file = C!PartitionWords

(* With receives that return a part of a message the server may take a     *)
(* request for a broken one, answer zeros and end the session; a dump that *)
(* runs to its end can then be wrong in its last sector only.  Of a client *)
(* that has itself gone on with a part of a header nothing is said: what   *)
(* is on the device may look like the answers it expects.                  *)
OnlyLastSectorLost ==
    \A c \in Clients : cl[c].ret = "ok" /\ ~badCopy /\ c \notin slipped =>
        /\ Len(cl[c].file) = PartitionSize
        /\ \A k \in 1 .. PartitionSize :
              \/ cl[c].file[k] = C!PartitionWords[k]
              \/ k = PartitionSize /\ cl[c].file[k] = 0

(* A dump that went through the cluster pool went through a pool that its  *)
(* own init had set up, never through one that another client left behind, *)
(* although a refused or failed init is not noticed by the client.  Only a *)
(* kernel pool that could not be released can serve another client, or     *)
(* the client takes something else for the answers.                        *)
OwnPool ==
    \A c \in Clients :
        (/\ cl[c].ret = "ok" /\ C!nClustersToRead(PartitionSize) > 0
         /\ ~freeFailed /\ c \notin slipped)
            => c \in acquired

(* The kernel copies a cluster outside the user's block only if a release  *)
(* of the kernel's pool failed before: two pools with their own flags stay *)
(* of one size, across refused and failed inits, dead clients and restarts *)
(* of the server that leave the kernel's pool set up.                      *)
CopiesFit == badCopy => freeFailed

(* Two dumps that ran to their end and met no fault leave nothing behind.  *)
CleanAfterSuccess ==
    faults = 0 /\ (\A c \in Clients : cl[c].ret = "ok") => upool.init = 0 /\ kpool.init = 0

(* Without faults every run of the client that gets a connection ends with *)
(* a complete dump, also when it has to wait for another one to finish.     *)
DumpsSucceed ==
    \A c \in Clients :
        cl[c].op = "ping" ~> (cl[c].op = "exit" /\ cl[c].ret = "ok") \/ faults > 0

(* The client is in a receive loop at the end of the stream: it asks again *)
(* and again, and no reset will come.                                      *)
Spinning(c) == /\ cl[c].phase = "loop"
               /\ C!Link!CliAtEnd(c) /\ link[c].c2s = <<>>

(* With faults a run of the client ends, or it spins on a connection that  *)
(* the server has closed; it is never stuck while the server is there, nor *)
(* are client and server waiting for each other.                           *)
EndsOrSpins == \A c \in Clients : <>[](cl[c].op = "exit" \/ Spinning(c))

(* The system implements the abstract dump: no file ever holds a word that *)
(* is not the partition's next sector, not even while the dump is running. *)
Dump == INSTANCE DumpSpec
          WITH Partition <- C!PartitionWords,
               file <- [c \in Clients |-> cl[c].file], ret <- [c \in Clients |-> cl[c].ret]
Implements == Dump!DumpSafety
=============================================================================

------------------------------- MODULE Server -------------------------------
(***************************************************************************)
(* server/src/main.c: the user process on the Vita.  One thread accepts    *)
(* one connection at a time and serves its commands by calling the driver. *)
(* A step ends where the process touches a socket, so that clients, resets *)
(* and the end of the process come between any two network calls.          *)
(***************************************************************************)
EXTENDS Driver

CONSTANTS
    Clients,      \* the client programs that connect, one connection each
    ShortRecv,    \* may one receive return less than the request it asks for
    MaxFaults,    \* bound on failing system calls, kills and lost connections
    MaxLaunches   \* bound on starts of the server process

ASSUME ServerAssumption ==
    /\ ShortRecv \in BOOLEAN
    /\ MaxFaults \in Nat
    /\ MaxLaunches \in Nat

VARIABLES
    link,       \* the connections, see TcpLink
    upool,      \* the server's own pool, see ClusterPool
    ubuf,       \* content of the user block the pool points to
    pc,         \* where the thread is
    emmc_sock,  \* _emmc_sock: 0, -1 after a failed call, 1 for a socket
    cli_sock,   \* _cli_sock: 0, -1 or a client's connection
    listener,   \* the system's view: the listening socket exists
    cmd,        \* command being handled
    out,        \* what the handler still has to send, one item per send
    after,      \* where the thread goes when it is sent
    badCopy,    \* history: data went to memory that is not the user's block
    faults, launches

svars == <<link, upool, ubuf, pc, emmc_sock, cli_sock, listener, cmd, out, after,
           badCopy, faults, launches>>

UPool == INSTANCE ClusterPool WITH pool <- upool
Link == INSTANCE TcpLink

Serving == {"accept", "recv", "handle", "send", "close"}

ServerInit ==
    /\ Link!LinkInit
    /\ UPool!PoolInit
    /\ ubuf = <<>>
    /\ pc = "exited"
    /\ emmc_sock = 0
    /\ cli_sock = 0
    /\ listener = FALSE
    /\ cmd = -1 /\ out = <<>> /\ after = "recv"
    /\ badCopy = FALSE
    /\ faults = 0 /\ launches = 0

Fault == faults < MaxFaults /\ faults' = faults + 1
Charge(ret) == IF ret = Error THEN Fault ELSE UNCHANGED faults

processVars == <<emmc_sock, cli_sock, listener, launches>>

-----------------------------------------------------------------------------
(* The process: start, sockets, end *)

launch ==
    /\ pc = "exited" /\ loaded
    /\ launches < MaxLaunches
    /\ launches' = launches + 1
    /\ pc' = "init"
    /\ UNCHANGED <<link, upool, ubuf, emmc_sock, cli_sock, listener, cmd, out, after,
                   badCopy, faults>>

(* Netctl fails before a socket is asked for; no socket; a socket that     *)
(* cannot be bound or listened on; or a listening socket.                  *)
init_net ==
    /\ pc = "init"
    /\ \/ Fault /\ emmc_sock' = 0 /\ listener' = FALSE /\ pc' = "deinit"
       \/ Fault /\ emmc_sock' = -1 /\ listener' = FALSE /\ pc' = "deinit"
       \/ Fault /\ emmc_sock' = 1 /\ listener' = TRUE /\ pc' = "deinit"
       \/ UNCHANGED faults /\ emmc_sock' = 1 /\ listener' = TRUE /\ pc' = "accept"
    /\ UNCHANGED <<link, upool, ubuf, cli_sock, cmd, out, after, badCopy, launches>>

(* Mutant: the listening socket is left to the end of the process. *)
Bug_KeepListener ==
    /\ pc = "deinit"
    /\ pc' = "stopped"
    /\ emmc_sock' = 0 /\ cli_sock' = 0
    /\ UNCHANGED <<link, upool, ubuf, listener, cmd, out, after, badCopy, faults, launches>>

(* Both sockets are closed if their variable is not 0; closing the -1 that *)
(* a failed call left does nothing.                                        *)
deinit_net ==
    /\ pc = "deinit"
    /\ pc' = "stopped"
    /\ emmc_sock' = 0 /\ cli_sock' = 0
    /\ listener' = IF emmc_sock = 1 THEN FALSE ELSE listener
    /\ Link!CloseListener
    /\ UNCHANGED <<upool, ubuf, cmd, out, after, badCopy, faults, launches>>

(* The system takes back what an ended process held; the driver's state    *)
(* stays as it is.                                                         *)
ProcessEnds ==
    /\ pc' = "exited"
    /\ emmc_sock' = 0 /\ cli_sock' = 0 /\ listener' = FALSE
    /\ cmd' = -1 /\ out' = <<>> /\ after' = "recv"
    /\ upool' = UPool!Blank([b \in Blocks |-> 0], {})
    /\ ubuf' = <<>>
    /\ Link!CloseAll
    /\ UNCHANGED <<badCopy, launches>>

exit == pc = "stopped" /\ ProcessEnds /\ UNCHANGED faults
kill == pc # "exited" /\ ProcessEnds /\ Fault

accept ==
    /\ pc = "accept"
    /\ \/ \E c \in Clients :
            /\ link[c].srv = "backlog"
            /\ Link!Accept(c)
            /\ cli_sock' = c /\ pc' = "recv"
            /\ UNCHANGED faults
       \/ Fault /\ cli_sock' = -1 /\ pc' = "deinit" /\ UNCHANGED link
    /\ UNCHANGED <<upool, ubuf, emmc_sock, listener, cmd, out, after, badCopy, launches>>

(* Mutant: a session that ends keeps its socket. *)
Bug_SocketKept ==
    /\ pc = "close"
    /\ cli_sock' = 0 /\ pc' = "accept"
    /\ cmd' = -1 /\ after' = "recv"
    /\ UNCHANGED <<link, upool, ubuf, emmc_sock, listener, out, badCopy, faults, launches>>

(* The end of receive_commands: the client's socket is closed. *)
close_client ==
    /\ pc = "close"
    /\ Link!SrvClose(cli_sock)
    /\ cli_sock' = 0 /\ pc' = "accept"
    /\ cmd' = -1 /\ after' = "recv"
    /\ UNCHANGED <<upool, ubuf, emmc_sock, listener, out, badCopy, faults, launches>>

-----------------------------------------------------------------------------
(* Receiving and sending *)

Inbox == link[cli_sock].c2s

(* Mutant: only an error ends the session, not the end of the stream. *)
Bug_EndOfStreamIgnored ==
    /\ pc = "recv"
    /\ \/ /\ link[cli_sock].rst
          /\ pc' = "close" /\ UNCHANGED <<link, cmd>>
       \/ /\ Inbox # <<>>
          /\ cmd' = Head(Inbox) /\ Link!SrvTake(cli_sock, 1) /\ pc' = "handle"
    /\ UNCHANGED <<upool, ubuf, out, after, badCopy, faults>>
    /\ UNCHANGED processVars

(* A command word, a part of one (which is no command), or no more words. *)
receive_command ==
    /\ pc = "recv"
    /\ \/ /\ Link!SrvAtEnd(cli_sock) \/ (ShortRecv /\ Inbox # <<>>)
          /\ pc' = "close" /\ UNCHANGED <<link, cmd>>
       \/ /\ Inbox # <<>>
          /\ cmd' = Head(Inbox) /\ Link!SrvTake(cli_sock, 1) /\ pc' = "handle"
    /\ UNCHANGED <<upool, ubuf, out, after, badCopy, faults>>
    /\ UNCHANGED processVars

(* One send after the other; a failing one ends the session. *)
send ==
    /\ pc = "send"
    /\ \/ /\ out # <<>> /\ ~link[cli_sock].rst
          /\ Link!SrvSend(cli_sock, Head(out))
          /\ out' = Tail(out)
          /\ IF Len(out) = 1 THEN pc' = after /\ cmd' = -1 ELSE UNCHANGED <<pc, cmd>>
       \/ /\ Link!SrvSendFails(cli_sock)
          /\ out' = <<>> /\ pc' = "close" /\ cmd' = -1 /\ UNCHANGED link
    /\ UNCHANGED <<upool, ubuf, after, badCopy, faults>>
    /\ UNCHANGED processVars

Handling(command) == pc = "handle" /\ cmd = command

Reply(sends, next) == out' = sends /\ after' = next /\ pc' = "send"

(* All n words of the rest of a request are there. *)
Whole(n) == Len(Inbox) >= n

(* A receive loop for n words meets the end of the stream. *)
CutOff(n) == ~Whole(n) /\ (link[cli_sock].rst \/ ~link[cli_sock].cli)

(* The single receive for n words returns something else. *)
Short(n) == CutOff(n) \/ (ShortRecv /\ Inbox # <<>>)

handlerVars == <<cmd, processVars>>
-----------------------------------------------------------------------------
(* The user pool *)

initializePool(bps, spc, ret) == UPool!initializePool(bps, spc, ret)
deinitializePool(ret) == UPool!deinitializePool(ret)

(* The user memory behind g_clusterPoolPtr is the process's own. *)
UserMapped == upool.ptr # 0 /\ upool.blocks[upool.ptr] # 0

FreshBuffer(n) == [k \in 1 .. n |-> Garbage]
Overlay(new, old) == [k \in DOMAIN old |-> IF k <= Len(new) THEN new[k] ELSE old[k]]

(* What sending n words from g_clusterPoolPtr sends. *)
PoolWords(buffer, n) ==
    [k \in 1 .. n |-> <<IF UserMapped /\ k <= Len(buffer) THEN buffer[k] ELSE Garbage>>]

-----------------------------------------------------------------------------
(* Handlers of the commands without a family *)

PingReply(command) == <<Base(command, 0, 0) \o <<Name>>>>

handle_command_0 ==
    /\ Handling(PING)
    /\ Reply(PingReply(PING), "recv")
    /\ UNCHANGED <<link, upool, ubuf, badCopy, faults, handlerVars, dvars>>

(* Terminate: the handler answers, and nothing else happens. *)
handle_command_1 ==
    /\ Handling(TERM)
    /\ Reply(PingReply(TERM), "recv")
    /\ UNCHANGED <<link, upool, ubuf, badCopy, faults, handlerVars, dvars>>

(* Mutant: a refused init leaves the connection open. *)
Bug_RefusedInitGoesOn ==
    /\ Handling(INIT)
    /\ IF upool.init # 0
       THEN /\ Reply(<<Base(INIT, -2, 0)>>, "recv")
            /\ UNCHANGED <<link, upool, ubuf, faults, dvars>>
       ELSE /\ Whole(2)
            /\ Link!SrvTake(cli_sock, 2)
            /\ initializePool(Inbox[1], Inbox[2], 0)
            /\ ubuf' = FreshBuffer(Inbox[2])
            /\ psvemmcInitialize(Inbox[1], Inbox[2], 0)
            /\ Reply(<<Base(INIT, 0, 0)>>, "recv")
            /\ UNCHANGED faults
    /\ UNCHANGED <<badCopy, handlerVars>>

(* Mutant: an init that finds the pool set up is refused but goes on. *)
Bug_PoolShared ==
    /\ Handling(INIT)
    /\ Whole(2)
    /\ Link!SrvTake(cli_sock, 2)
    /\ IF upool.init # 0
       THEN /\ Reply(<<Base(INIT, -2, 0)>>, "recv")
            /\ UNCHANGED <<upool, ubuf, dvars>>
       ELSE \E proxy \in {0, -1} :
            /\ initializePool(Inbox[1], Inbox[2], 0)
            /\ ubuf' = FreshBuffer(Inbox[1] * Inbox[2])
            /\ psvemmcInitialize(Inbox[1], Inbox[2], proxy)
            /\ Reply(<<Base(INIT, 0, proxy)>>, "recv")
    /\ UNCHANGED <<badCopy, faults, handlerVars>>

(* Mutant: the kernel's pool is set up although the user's could not be. *)
Bug_KernelPoolAnyway ==
    /\ Handling(INIT)
    /\ upool.init = 0
    /\ Whole(2)
    /\ Link!SrvTake(cli_sock, 2)
    /\ \E vita \in {0, Error}, proxy \in {0, -1} :
        /\ initializePool(Inbox[1], Inbox[2], vita)
        /\ psvemmcInitialize(Inbox[1], Inbox[2], proxy)
        /\ Charge(vita)
        /\ Reply(<<Base(INIT, vita, proxy)>>, "recv")
    /\ ubuf' = FreshBuffer(Inbox[1] * Inbox[2])
    /\ UNCHANGED <<badCopy, handlerVars>>

(* Init: refused, with its rest unread, while the pool is set up; else the *)
(* user pool and then the kernel's, both results in the answer.            *)
handle_command_2 ==
    /\ Handling(INIT)
    /\ \/ /\ upool.init # 0
          /\ Reply(<<Base(INIT, -2, 0)>>, "close")
          /\ UNCHANGED <<link, upool, ubuf, faults, dvars>>
       \/ /\ upool.init = 0
          /\ Short(2)
          /\ Reply(<<Base(INIT, -1, 0)>>, "close")
          /\ UNCHANGED <<link, upool, ubuf, faults, dvars>>
       \/ \E vita \in Results \ {0} :
          /\ upool.init = 0
          /\ Whole(2)
          /\ Link!SrvTake(cli_sock, 2)
          /\ initializePool(Inbox[1], Inbox[2], vita)
          /\ Charge(vita)
          /\ Reply(<<Base(INIT, vita, 0)>>, "recv")
          /\ UNCHANGED <<ubuf, dvars>>
       \/ \E proxy \in Results :
          /\ upool.init = 0
          /\ Whole(2)
          /\ Link!SrvTake(cli_sock, 2)
          /\ initializePool(Inbox[1], Inbox[2], 0)
          /\ ubuf' = FreshBuffer(Inbox[1] * Inbox[2])
          /\ psvemmcInitialize(Inbox[1], Inbox[2], proxy)
          /\ Charge(proxy)
          /\ Reply(<<Base(INIT, 0, proxy)>>, "recv")
    /\ UNCHANGED <<badCopy, handlerVars>>

(* Mutant: the user pool is kept when the kernel pool cannot be released. *)
Bug_DeinitStopsAtKernel ==
    /\ Handling(DEINIT)
    /\ \E proxy \in Results :
        /\ psvemmcDeinitialize(proxy)
        /\ Charge(proxy)
        /\ Reply(<<Base(DEINIT, 0, proxy)>>, "recv")
    /\ UNCHANGED <<link, upool, ubuf, badCopy, handlerVars>>

(* Mutant: only the server's own pool is released. *)
Bug_KernelPoolForgotten ==
    /\ Handling(DEINIT)
    /\ upool.init # 0
    /\ deinitializePool(0)
    /\ Reply(<<Base(DEINIT, 0, 0)>>, "recv")
    /\ UNCHANGED <<link, ubuf, badCopy, faults, handlerVars, dvars>>

(* Deinit: the kernel's pool and then, whatever came of it, the user's. *)
handle_command_3 ==
    /\ Handling(DEINIT)
    /\ \/ /\ upool.init = 0
          /\ Reply(<<Base(DEINIT, -2, 0)>>, "close")
          /\ UNCHANGED <<upool, faults, dvars>>
       \/ \E proxy, vita \in Results :
          /\ upool.init # 0
          /\ psvemmcDeinitialize(proxy)
          /\ deinitializePool(vita)
          /\ IF proxy = Error /\ vita = Error
             THEN faults + 2 <= MaxFaults /\ faults' = faults + 2
             ELSE Charge(IF proxy = Error THEN proxy ELSE vita)
          /\ Reply(<<Base(DEINIT, vita, proxy)>>, "recv")
    /\ UNCHANGED <<link, ubuf, badCopy, handlerVars>>

-----------------------------------------------------------------------------
(* The four handlers of a device family, and their twelve instances *)

(* The answer has its data even when the driver failed (then zeros). *)
HandleReadSector(command, DriverRead(_)) ==
    /\ Handling(command)
    /\ \/ /\ Short(1)
          /\ Reply(<<Base(command, -1, 0) \o <<0>>>>, "close")
          /\ UNCHANGED <<link, faults>>
       \/ /\ Whole(1)
          /\ Link!SrvTake(cli_sock, 1)
          /\ \E r \in DriverRead(Head(Inbox)) :
             /\ Charge(r.ret)
             /\ Reply(<<Base(command, 0, r.ret), IF r.ret = 0 THEN r.copied ELSE <<0>> >>,
                      "recv")
    /\ UNCHANGED <<upool, ubuf, badCopy, handlerVars, dvars>>

(* The copy of r into the user pool fails: always at address 0, perhaps at *)
(* an address the process has freed.                                       *)
CopyFails(r) == IF r.copied = <<>> \/ UserMapped THEN {FALSE}
                ELSE IF upool.ptr = 0 THEN {TRUE} ELSE BOOLEAN

(* The header is sent, then as many words as the server's geometry says,   *)
(* whatever the driver returned and whether or not there is a pool; a send *)
(* from memory the process does not have fails, or sends what is there.    *)
HandleReadCluster(command, DriverRead(_)) ==
    /\ Handling(command)
    /\ \/ /\ Short(1)
          /\ Reply(<<Base(command, -1, 0)>>, "close")
          /\ UNCHANGED <<link, ubuf, badCopy, faults>>
       \/ /\ Whole(1)
          /\ Link!SrvTake(cli_sock, 1)
          /\ \E r \in DriverRead(Head(Inbox)) : \E copyFails \in CopyFails(r) :
             LET copied == IF copyFails THEN <<>> ELSE r.copied
                 ret    == IF copyFails THEN Error ELSE r.ret
                 header == <<Base(command, 0, ret)>>
                 size   == UPool!ClusterSize
             IN
             /\ Charge(r.ret)
             /\ ubuf' = IF UserMapped THEN Overlay(copied, ubuf) ELSE ubuf
             /\ badCopy' = (badCopy \/ (/\ copied # <<>>
                                        /\ ~(UserMapped /\ Len(copied) <= Len(ubuf))))
             /\ \/ /\ size = 0 \/ upool.ptr # 0
                   /\ Reply(header \o PoolWords(ubuf', size), "recv")
                \/ /\ size # 0 /\ ~UserMapped
                   /\ Reply(header, "close")
    /\ UNCHANGED <<upool, handlerVars, dvars>>

HandleWriteSector(command, ret) ==
    /\ Handling(command)
    /\ \/ /\ CutOff(1 + SectorSize)
          /\ Reply(<<Base(command, -1, 0)>>, "close")
          /\ UNCHANGED link
       \/ /\ Whole(1 + SectorSize)
          /\ Link!SrvTake(cli_sock, 1 + SectorSize)
          /\ Reply(<<Base(command, 0, ret)>>, "recv")
    /\ UNCHANGED <<upool, ubuf, badCopy, faults, handlerVars, dvars>>

(* The data is received into the pool before anything is checked; into     *)
(* memory the process does not have the receive fails, or overwrites it.   *)
HandleWriteCluster(command, ret) ==
    LET size == UPool!ClusterSize
    IN /\ Handling(command)
       /\ \/ /\ Short(1) \/ CutOff(1 + size) \/ (Whole(1) /\ size # 0 /\ ~UserMapped)
             /\ Reply(<<Base(command, -1, 0)>>, "close")
             /\ UNCHANGED <<link, ubuf, badCopy>>
          \/ /\ Whole(1 + size)
             /\ size = 0 \/ upool.ptr # 0
             /\ Link!SrvTake(cli_sock, 1 + size)
             /\ ubuf' = IF UserMapped THEN Overlay(SubSeq(Inbox, 2, 1 + size), ubuf) ELSE ubuf
             /\ badCopy' = (badCopy \/ (size # 0 /\ ~UserMapped))
             /\ Reply(<<Base(command, 0, ret)>>, "recv")
       /\ UNCHANGED <<upool, faults, handlerVars, dvars>>

(* Mutant: a request that could not be received whole is skipped. *)
Bug_ShortRequestSkipped ==
    /\ Handling(READ_SECTOR["emmc"])
    /\ Whole(1)
    /\ Link!SrvTake(cli_sock, 1)
    /\ \/ ShortRecv /\ Reply(<<Base(cmd, -1, 0) \o <<0>>>>, "recv")
       \/ \E r \in readSector(Head(Inbox)) :
            r.ret = 0 /\ Reply(<<Base(cmd, 0, 0), r.copied>>, "recv")
    /\ UNCHANGED <<upool, ubuf, badCopy, faults, handlerVars, dvars>>

handle_command_4  == HandleReadSector(READ_SECTOR["emmc"], readSector)
handle_command_5  == HandleReadCluster(READ_CLUSTER["emmc"], readCluster)
handle_command_6  == HandleWriteSector(WRITE_SECTOR["emmc"], writeSector)
handle_command_7  == HandleWriteCluster(WRITE_CLUSTER["emmc"], writeCluster)
handle_command_8  == HandleReadSector(READ_SECTOR["ms"], readSectorMs)
handle_command_9  == HandleReadCluster(READ_CLUSTER["ms"], readClusterMs)
handle_command_10 == HandleWriteSector(WRITE_SECTOR["ms"], writeSectorMs)
handle_command_11 == HandleWriteCluster(WRITE_CLUSTER["ms"], writeClusterMs)
handle_command_12 == HandleReadSector(READ_SECTOR["gc"], readSectorGc)
handle_command_13 == HandleReadCluster(READ_CLUSTER["gc"], readClusterGc)
handle_command_14 == HandleWriteSector(WRITE_SECTOR["gc"], writeSectorGc)
handle_command_15 == HandleWriteCluster(WRITE_CLUSTER["gc"], writeClusterGc)

unknown_command ==
    /\ pc = "handle" /\ cmd \notin Commands
    /\ pc' = "close"
    /\ UNCHANGED <<link, upool, ubuf, out, after, badCopy, faults, handlerVars, dvars>>

-----------------------------------------------------------------------------
(* The server's steps *)

receive_commands ==
    \/ (receive_command \/ send) /\ UNCHANGED dvars
    \/ handle_command_0  \/ handle_command_1  \/ handle_command_2
    \/ handle_command_3  \/ handle_command_4  \/ handle_command_5
    \/ handle_command_6  \/ handle_command_7  \/ handle_command_8
    \/ handle_command_9  \/ handle_command_10 \/ handle_command_11
    \/ handle_command_12 \/ handle_command_13 \/ handle_command_14
    \/ handle_command_15 \/ unknown_command

accept_single_connection ==
    \/ (accept \/ close_client) /\ UNCHANGED dvars
    \/ receive_commands

(* What the process does by itself once it is started. *)
main == \/ (init_net \/ deinit_net \/ exit) /\ UNCHANGED dvars
        \/ accept_single_connection

(* The system around it: the driver is loaded, the process is started, it  *)
(* may be killed, a connection may be reset.                               *)
System ==
    \/ module_start /\ UNCHANGED svars
    \/ (launch \/ kill) /\ UNCHANGED dvars

(* A reset that the state of the ends calls for, and one from the network. *)
ResetDue(c) ==
    /\ Link!MayReset(c) /\ Link!Reset(c)
    /\ UNCHANGED <<upool, ubuf, pc, cmd, out, after, badCopy, faults, processVars, dvars>>
LinkLost(c) ==
    /\ link[c].srv \in {"backlog", "open"} /\ link[c].cli /\ ~link[c].rst
    /\ Fault /\ Link!Reset(c)
    /\ UNCHANGED <<upool, ubuf, pc, cmd, out, after, badCopy, processVars, dvars>>

ServerType ==
    /\ Link!LinkType
    /\ UPool!PoolType
    /\ ubuf \in Seq(Int)
    /\ pc \in Serving \cup {"exited", "init", "deinit", "stopped"}
    /\ emmc_sock \in {-1, 0, 1}
    /\ cli_sock \in Clients \cup {-1, 0}
    /\ listener \in BOOLEAN
    /\ cmd \in Int
    /\ out \in Seq(Seq(Int))
    /\ after \in {"recv", "close"}
    /\ badCopy \in BOOLEAN
    /\ faults \in 0 .. MaxFaults
    /\ launches \in 0 .. MaxLaunches
=============================================================================

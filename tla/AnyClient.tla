------------------------------ MODULE AnyClient ------------------------------
(***************************************************************************)
(* The server and the driver with clients that may send any request of the *)
(* protocol in any order.  A client sends whole requests, one at a time,   *)
(* and a cluster command only on a connection on which it has sent an init *)
(* with the sector size the server knows, with as much data as that init   *)
(* said; it may close or vanish at any time, and connect again.            *)
(***************************************************************************)
EXTENDS Server

CONSTANTS
    Families,    \* the devices whose commands the clients send
    MaxRequests  \* bound on the requests of one client

ASSUME AnyClientAssumption == Families \subseteq Devices /\ MaxRequests \in Nat

VARIABLES
    geometry,  \* sectorsPerCluster of the client's last init, 0 before one
    request,   \* the client's last request
    sent       \* how many requests the client has sent

cvars == <<geometry, request, sent>>
vars == <<dvars, svars, cvars>>

(* A sector or cluster number that is not a command number. *)
Arg == 20

UnknownCommand == 16

SmallRequests ==
    {<<PING>>, <<TERM>>, <<DEINIT>>, <<UnknownCommand>>}
        \cup {<<READ_SECTOR[d], Arg>> : d \in Families}
        \cup {<<WRITE_SECTOR[d], Arg, Payload>> : d \in Families}

InitRequests == {<<INIT, bps, spc>> : bps \in {0, SectorSize}, spc \in Geometries}

ClusterRequests(spc) ==
    {<<READ_CLUSTER[d], Arg>> : d \in Families}
        \cup {<<WRITE_CLUSTER[d], Arg>> \o [k \in 1 .. spc |-> Payload] : d \in Families}

Init ==
    /\ DriverInit /\ ServerInit
    /\ geometry = [c \in Clients |-> 0]
    /\ request = [c \in Clients |-> <<>>]
    /\ sent = [c \in Clients |-> 0]

OnLink == UNCHANGED <<dvars, upool, ubuf, pc, emmc_sock, cli_sock, listener, cmd, out,
                      after, badCopy, faults, launches>>

Connect(c) ==
    /\ ~link[c].cli /\ link[c].srv \in {"none", "closed"}
    /\ listener /\ pc \in Serving
    /\ sent[c] < MaxRequests
    /\ Link!Connect(c)
    /\ geometry' = [geometry EXCEPT ![c] = 0]
    /\ request' = [request EXCEPT ![c] = <<>>]
    /\ OnLink /\ UNCHANGED sent

(* A cluster command may follow an init that the server has answered in    *)
(* whatever way: the client program does not look at the result.           *)
Send(c) ==
    /\ link[c].cli /\ ~link[c].rst /\ link[c].srv # "closed"
    /\ link[c].c2s = <<>> /\ link[c].s2c = <<>>
    /\ sent[c] < MaxRequests
    /\ \E r \in SmallRequests \cup InitRequests \cup
                (IF geometry[c] > 0 THEN ClusterRequests(geometry[c]) ELSE {}) :
        /\ Link!CliSend(c, r)
        /\ request' = [request EXCEPT ![c] = r]
        /\ geometry' = [geometry EXCEPT ![c] =
                          IF r[1] = INIT /\ r[2] = SectorSize THEN r[3] ELSE @]
        /\ sent' = [sent EXCEPT ![c] = @ + 1]
    /\ OnLink

Receive(c) ==
    /\ link[c].cli /\ link[c].s2c # <<>>
    /\ Link!CliTake(c, Len(link[c].s2c))
    /\ OnLink /\ UNCHANGED cvars

Close(c) ==
    /\ link[c].cli
    /\ Link!CliClose(c)
    /\ OnLink /\ UNCHANGED cvars

Client(c) == Connect(c) \/ Send(c) \/ Receive(c) \/ Close(c)

Next ==
    \/ (main \/ System) /\ UNCHANGED cvars
    \/ \E c \in Clients : (ResetDue(c) \/ LinkLost(c)) /\ UNCHANGED cvars
    \/ \E c \in Clients : Client(c)

(* The thread runs whenever it can, without having to meet a fault; nothing *)
(* is asked of the clients.                                                 *)
Fairness == WF_vars(main /\ UNCHANGED <<cvars, faults>>)

Spec == Init /\ [][Next]_vars
FairSpec == Spec /\ Fairness

-----------------------------------------------------------------------------

(* Type invariant. *)
TypeOK == DriverType /\ ServerType

(* The server's pool is backed by its block whenever it is marked as set   *)
(* up: handlers that go through g_clusterPoolPtr with the flag set use     *)
(* memory the process owns, of the size that their loops transfer.         *)
UserPoolBacked == UPool!PoolBacked /\ (upool.init = 1 => Len(ubuf) = UPool!ClusterSize)

(* The server's pool and the driver's, each with its own flag, stay in step *)
(* under every sequence of requests and every way clients leave: between    *)
(* two handlers both are set up with one geometry or neither is, until a    *)
(* system call fails or the server is killed.                               *)
PoolsInStep ==
    faults = 0 => /\ upool.init = kpool.init
                  /\ upool.init = 1 => upool.spc = kpool.spc /\ upool.bps = kpool.bps

(* No socket outlives its use: while the server waits in accept every      *)
(* accepted connection is closed, and a stopped server has closed the      *)
(* listening socket, whichever call of init_net failed.                    *)
SocketsClosed ==
    /\ pc \in {"accept", "stopped"} => \A c \in Clients : link[c].srv # "open"
    /\ pc = "stopped" => ~listener

(* The server never takes a part of a request for a command: when it reads *)
(* the next command, what is in the stream is a whole request.  Every      *)
(* handler must have read or refused all of the request it answered.       *)
CommandsInStep ==
    \A c \in Clients :
        pc = "recv" /\ cli_sock = c /\ link[c].c2s # <<>> => link[c].c2s = request[c]

(* A client that goes away releases the server: it does not keep serving   *)
(* or waiting for a connection that has ended.                             *)
ServerLetsGo ==
    \A c \in Clients : (cli_sock = c /\ ~link[c].cli) ~> cli_sock # c
=============================================================================

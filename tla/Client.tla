------------------------------- MODULE Client -------------------------------
(***************************************************************************)
(* client/psvemmc/psvemmc.cpp: a run of the client program, which connects *)
(* to the server, reads the partition table and dumps one partition.       *)
(* A step is one socket call with what the program does with its result.   *)
(*                                                                         *)
(*   op     the request the program is at, "connect" before, "close" when  *)
(*          it leaves, "exit" when it is gone                              *)
(*   phase  "send", "header" (one receive), "loop" (receives in a loop)    *)
(*   i      index of the current loop of dump_partition                    *)
(*   header words of the response's header that one receive returned       *)
(*   got    words that the receive loop has collected                      *)
(*   file   the output file                                                *)
(*   ret    how dump_partition ended: "none" (not yet), "ok" (it ran to    *)
(*          its end) or "failed" (it returned -1)                          *)
(***************************************************************************)
EXTENDS Protocol, DumpGeometry

CONSTANTS
    Clients,
    ShortRecv,        \* may a single receive return a part of a response
    Mode,             \* dumpMode: the device
    PartitionOffset, PartitionSize,   \* the partition, in sectors
    PartitionTypes    \* the types its table entry may have: "raw", "empty"

VARIABLES link, cl

Link == INSTANCE TcpLink

Start == [op |-> "connect", phase |-> "send", i |-> 0, header |-> <<>>,
          got |-> <<>>, file |-> <<>>, ret |-> "none"]

ClientInit == cl = [c \in Clients |-> Start]

At(c, op, phase) == cl[c].op = op /\ cl[c].phase = phase

Goto(c, op) == cl' = [cl EXCEPT ![c].op = op, ![c].phase = "send",
                                ![c].header = <<>>, ![c].got = <<>>]

(* dump_partition returns; dump_device and main go on to close. *)
Return(c, ret) == cl' = [cl EXCEPT ![c].op = "close", ![c].phase = "send", ![c].ret = ret,
                                   ![c].header = <<>>, ![c].got = <<>>]

(* What follows request op when its function returns an error: a failed    *)
(* parse_sce_mbr is not looked at, so the entry of a table that was never  *)
(* filled decides; the other failures lead out.                            *)
AfterFailure(c, op) ==
    CASE op = "ping" -> Goto(c, "close")
      [] op = "mbr"  -> \/ Goto(c, "init")
                        \/ Goto(c, "close")
      [] OTHER       -> Return(c, "failed")

(* Most errors close the socket before the function returns. *)
Fail(c) == AfterFailure(c, cl[c].op) /\ Link!CliClose(c)

-----------------------------------------------------------------------------
(* Connection *)

initialize_emmc_proxy_connection(c, listening) ==
    /\ At(c, "connect", "send")
    /\ \/ listening /\ Link!Connect(c) /\ Goto(c, "ping")
       \/ ~listening /\ Goto(c, "exit") /\ UNCHANGED link

deinitialize_emmc_proxy_connection(c) ==
    /\ At(c, "close", "send")
    /\ Link!CliClose(c)
    /\ Goto(c, "exit")

-----------------------------------------------------------------------------
(* Requests *)

Request(c) ==
    CASE cl[c].op = "ping"    -> <<PING>>
      [] cl[c].op = "mbr"     -> <<READ_SECTOR[Mode], 0>>
      [] cl[c].op = "init"    -> <<INIT, SectorSize, SectorsPerCluster>>
      [] cl[c].op = "cluster" -> <<READ_CLUSTER[Mode], ClusterRequest(PartitionOffset, cl[c].i)>>
      [] cl[c].op = "sector"  -> <<READ_SECTOR[Mode],
                                   TailSector(PartitionOffset, PartitionSize, cl[c].i)>>
      [] cl[c].op = "deinit"  -> <<DEINIT>>

(* A sector response is received in a loop, the others begin with a single *)
(* receive.                                                                *)
send_request(c) ==
    /\ cl[c].phase = "send" /\ cl[c].op \notin {"connect", "close", "exit"}
    /\ \/ /\ ~Link!CliError(c)
          /\ Link!CliSend(c, Request(c))
          /\ cl' = [cl EXCEPT ![c].phase =
                      IF cl[c].op \in {"mbr", "sector"} THEN "loop" ELSE "header"]
       \/ Link!CliError(c) /\ Fail(c)

HeaderLen(op) == IF op = "ping" THEN BaseLen + 1 ELSE BaseLen

(* What the single receive of a header returns: as much as there is of it, *)
(* or, when receives may be short, any part; nothing at the end of stream.  *)
HeaderReceived(c) ==
    LET all == Link!Received(link[c].s2c, HeaderLen(cl[c].op))
    IN IF Link!CliAtEnd(c) THEN {<<>>}
       ELSE IF ShortRecv THEN all
       ELSE {w \in all : Len(w) = HeaderLen(cl[c].op)}

LoopLen(op) == IF op = "cluster" THEN SectorSize * SectorsPerCluster ELSE SectorResponseLen

(* The loops add what a receive returns until they have it all; a receive  *)
(* at the end of the stream returns 0, which is not taken for an error.    *)
receive_loop(c) ==
    /\ cl[c].phase = "loop" /\ Len(cl[c].got) < LoopLen(cl[c].op)
    /\ \/ \E w \in Link!Received(link[c].s2c, LoopLen(cl[c].op) - Len(cl[c].got)) :
            /\ ~Link!CliError(c)
            /\ Link!CliTake(c, Len(w))
            /\ cl' = [cl EXCEPT ![c].got = @ \o w]
       \/ Link!CliError(c) /\ Fail(c)

(* The value of word k of a header: what was received, or whatever was in  *)
(* the response variable before if it was not (so it may be as expected).  *)
Word(header, k, expected) ==
    IF k <= Len(header) THEN {header[k] = expected} ELSE BOOLEAN

(* The fields are unsigned on the client: "vita_err < 0" and "proxy_err <  *)
(* 0" are never true, and only the command of these answers is checked.    *)
CommandChecked(header, command) == Word(header, 1, command)

(* The answers to reads are checked with "proxy_err != 0". *)
ReadChecked(header, command) ==
    {a /\ b : a \in Word(header, 1, command), b \in Word(header, 3, 0)}

receive_header(c, op, Done(_, _)) ==
    /\ At(c, op, "header")
    /\ \/ \E w \in HeaderReceived(c) :
            /\ ~Link!CliError(c)
            /\ Done(c, w)
       \/ Link!CliError(c) /\ Fail(c)

Took(c, w) == Link!CliTake(c, Len(w))

-----------------------------------------------------------------------------
(* The six kinds of requests *)

(* A wrong text is an error that leaves the socket open. *)
PingDone(c, w) ==
    \/ FALSE \in CommandChecked(w, PING) /\ Fail(c)
    \/ /\ TRUE \in CommandChecked(w, PING)
       /\ Took(c, w)
       /\ \/ Len(w) = BaseLen + 1 /\ w[BaseLen + 1] = Name /\ Goto(c, "mbr")
          \/ ~(Len(w) = BaseLen + 1 /\ w[BaseLen + 1] = Name) /\ Goto(c, "close")

emmc_ping(c) == receive_header(c, "ping", PingDone)

ClusterLoop(i) ==
    IF i < nClustersToRead(PartitionSize) THEN "cluster"
    ELSE IF nSectorsToRead(PartitionSize) > 0 THEN "sector" ELSE "deinit"

InitDone(c, w) ==
    \/ FALSE \in CommandChecked(w, INIT) /\ Fail(c)
    \/ /\ TRUE \in CommandChecked(w, INIT)
       /\ Took(c, w)
       /\ Goto(c, ClusterLoop(0))

emmc_init(c) == receive_header(c, "init", InitDone)

DeinitDone(c, w) ==
    \/ FALSE \in CommandChecked(w, DEINIT) /\ Fail(c)
    \/ /\ TRUE \in CommandChecked(w, DEINIT)
       /\ Took(c, w)
       /\ Return(c, "ok")

emmc_deinit(c) == receive_header(c, "deinit", DeinitDone)

(* The header of a cluster is kept; it is checked after the data. *)
ClusterHeader(c, w) ==
    /\ Took(c, w)
    /\ cl' = [cl EXCEPT ![c].header = w, ![c].phase = "loop"]

emmc_read_cluster_header(c) == receive_header(c, "cluster", ClusterHeader)

LoopComplete(c, op) == At(c, op, "loop") /\ Len(cl[c].got) = LoopLen(op)

(* The data of an accepted read goes to the file, and the next request     *)
(* follows: another cluster, the first or another sector, or deinit.       *)
Written(c, words, i, next) ==
    cl' = [cl EXCEPT ![c].file = @ \o words, ![c].i = i, ![c].op = next,
                     ![c].phase = "send", ![c].header = <<>>, ![c].got = <<>>]

(* Mutant: the result of the driver is not checked. *)
Bug_ProxyErrIgnored(c) ==
    /\ LoopComplete(c, "cluster")
    /\ LET next == ClusterLoop(cl[c].i + 1)
       IN \/ /\ FALSE \in CommandChecked(cl[c].header, READ_CLUSTER[Mode])
             /\ Fail(c)
          \/ /\ TRUE \in CommandChecked(cl[c].header, READ_CLUSTER[Mode])
             /\ Written(c, cl[c].got, IF next = "cluster" THEN cl[c].i + 1 ELSE 0, next)
             /\ UNCHANGED link

emmc_read_cluster(c) ==
    /\ LoopComplete(c, "cluster")
    /\ LET ok   == ReadChecked(cl[c].header, READ_CLUSTER[Mode])
           next == ClusterLoop(cl[c].i + 1)
       IN \/ FALSE \in ok /\ Fail(c)
          \/ /\ TRUE \in ok
             /\ Written(c, cl[c].got, IF next = "cluster" THEN cl[c].i + 1 ELSE 0, next)
             /\ UNCHANGED link

emmc_read_sector(c) ==
    /\ LoopComplete(c, "sector")
    /\ LET ok   == ReadChecked(cl[c].got, READ_SECTOR[Mode])
           next == IF cl[c].i + 1 < nSectorsToRead(PartitionSize) THEN "sector" ELSE "deinit"
       IN \/ FALSE \in ok /\ Fail(c)
          \/ /\ TRUE \in ok
             /\ Written(c, Link!Rest(cl[c].got, BaseLen),
                        IF next = "sector" THEN cl[c].i + 1 ELSE 0, next)
             /\ UNCHANGED link

(* The sector of the partition table, and the test of the entry's type. *)
parse_sce_mbr(c) ==
    /\ LoopComplete(c, "mbr")
    /\ LET ok == ReadChecked(cl[c].got, READ_SECTOR[Mode])
       IN \/ FALSE \in ok /\ Fail(c)
          \/ /\ TRUE \in ok
             /\ \E type \in PartitionTypes :
                   Goto(c, IF type = "empty" THEN "close" ELSE "init")
             /\ UNCHANGED link

-----------------------------------------------------------------------------

(* A receive has returned a part of a response's header and the program    *)
(* goes on with it: what is left of the header will be taken for data or   *)
(* for the next header, and the client has lost its place in the stream.   *)
HeaderCut(c) ==
    /\ cl[c].phase = "header" /\ cl'[c].op \in {"cluster", "sector", "deinit"}
    /\ Len(link[c].s2c) - Len(link'[c].s2c) \in 1 .. BaseLen - 1

dump_device(c) ==
    \/ send_request(c) \/ receive_loop(c)
    \/ emmc_ping(c) \/ parse_sce_mbr(c) \/ emmc_init(c)
    \/ emmc_read_cluster_header(c) \/ emmc_read_cluster(c)
    \/ emmc_read_sector(c) \/ emmc_deinit(c)

ClientMain(c, listening) ==
    \/ initialize_emmc_proxy_connection(c, listening)
    \/ dump_device(c)
    \/ deinitialize_emmc_proxy_connection(c)

(* The program is ended from outside. *)
ClientKilled(c) ==
    /\ cl[c].op \notin {"connect", "exit"}
    /\ Goto(c, "exit")
    /\ Link!CliClose(c)

ClientType ==
    cl \in [Clients -> [op : {"connect", "ping", "mbr", "init", "cluster", "sector",
                              "deinit", "close", "exit"},
                        phase : {"send", "header", "loop"}, i : Nat,
                        header : Seq(Int), got : Seq(Int), file : Seq(Int),
                        ret : {"none", "ok", "failed"}]]

(* The sectors a one to one dump of the partition has. *)
PartitionWords == SectorWords(Mode, PartitionOffset, PartitionSize)
=============================================================================

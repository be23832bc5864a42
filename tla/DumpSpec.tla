------------------------------ MODULE DumpSpec -------------------------------
(***************************************************************************)
(* What dumps promise their users, without server, driver or network: each *)
(* file grows by the partition's own sectors in their order, and a dump    *)
(* runs to its end only when its file is complete.                         *)
(***************************************************************************)
EXTENDS Integers, Sequences

CONSTANTS Clients, Partition   \* the sectors of the partition, in order

VARIABLES file, ret

DumpInit == /\ file = [c \in Clients |-> <<>>]
            /\ ret = [c \in Clients |-> "none"]

Copy(c) ==
    /\ ret[c] = "none"
    /\ \E n \in Len(file[c]) + 1 .. Len(Partition) :
            file' = [file EXCEPT ![c] = SubSeq(Partition, 1, n)]
    /\ UNCHANGED ret

Succeed(c) == /\ ret[c] = "none" /\ file[c] = Partition
              /\ ret' = [ret EXCEPT ![c] = "ok"] /\ UNCHANGED file
GiveUp(c)  == /\ ret[c] = "none"
              /\ ret' = [ret EXCEPT ![c] = "failed"] /\ UNCHANGED file

DumpNext == \E c \in Clients : Copy(c) \/ Succeed(c) \/ GiveUp(c)

DumpSafety == DumpInit /\ [][DumpNext]_<<file, ret>>
=============================================================================

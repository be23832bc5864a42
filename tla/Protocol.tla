------------------------------ MODULE Protocol ------------------------------
(***************************************************************************)
(* The request and response layouts that the server (main.c) and the      *)
(* client (EmmcClient.h) declare, cut into WORDS.  A word stands for one  *)
(* int of a header, for one data sector, or for the ten bytes of the ping *)
(* text; a stream is a sequence of words.  Words are integers, so that    *)
(* words of every kind can be compared: a receiver that has lost its      *)
(* place in the stream compares a data word with a command.               *)
(***************************************************************************)
EXTENDS Integers, Sequences

CONSTANT DeviceData   \* what the devices hold: for each the words of its first sectors

(* The sixteen commands. *)
PING            == 0
TERM            == 1
INIT            == 2
DEINIT          == 3
READ_SECTOR     == [emmc |-> 4, ms |-> 8,  gc |-> 12]
READ_CLUSTER    == [emmc |-> 5, ms |-> 9,  gc |-> 13]
WRITE_SECTOR    == [emmc |-> 6, ms |-> 10, gc |-> 14]
WRITE_CLUSTER   == [emmc |-> 7, ms |-> 11, gc |-> 15]

Commands == 0 .. 15

(* The block devices behind the three families of commands. *)
Devices == {"emmc", "ms", "gc"}

(* The data may be any, also words that look like a command or a result. *)
ASSUME DataAssumption == DeviceData \in [Devices -> Seq(Int)]

(* SD_DEFAULT_SECTOR_SIZE, in words. *)
SectorSize == 1

(* The text "emmcproxy" that a ping response carries. *)
Name == 50

(* The content of memory nobody has written. *)
Garbage == 99

(* A word of the payload of a write request. *)
Payload == 77

(* What sector s of a device holds: zeros behind the data. *)
SectorWord(dev, s) == IF s + 1 \in DOMAIN DeviceData[dev] THEN DeviceData[dev][s + 1] ELSE 0

(* Consecutive sectors of a device. *)
SectorWords(dev, first, n) == [k \in 1 .. n |-> SectorWord(dev, first + k - 1)]

(* command_response_base: every response starts with these three words. *)
Base(command, vita_err, proxy_err) == <<command, vita_err, proxy_err>>

(* Words of a response header, and of a whole read-sector response. *)
BaseLen == 3
SectorResponseLen == BaseLen + SectorSize

(* Results.  A failing system call returns Error, the module's own early   *)
(* returns are -1, -2 and -3.                                              *)
Error == -9
Results == {0, -1, -2, -3, Error}
=============================================================================

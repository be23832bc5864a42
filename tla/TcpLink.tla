------------------------------ MODULE TcpLink -------------------------------
(***************************************************************************)
(* The TCP connections between client programs and the server, as the code *)
(* under src/ uses them (external: sceNet on the Vita, Winsock on the      *)
(* client).  One connection per client program.                            *)
(*                                                                         *)
(*   cli   the client's end is open                                        *)
(*   srv   "none", "backlog" (not yet accepted), "open" or "closed"        *)
(*   rst   the connection was reset: both ends get errors                  *)
(*   c2s, s2c  words sent and not yet received, in order                   *)
(***************************************************************************)
EXTENDS Integers, Sequences, FiniteSetsExt

CONSTANT Clients

VARIABLE link

NoConnection ==
    [cli |-> FALSE, srv |-> "none", rst |-> FALSE, c2s |-> <<>>, s2c |-> <<>>]

LinkInit == link = [c \in Clients |-> NoConnection]

(* Nobody can receive any more from a dead connection. *)
Settled(l) == IF l.rst \/ (~l.cli /\ l.srv = "closed")
              THEN [l EXCEPT !.c2s = <<>>, !.s2c = <<>>] ELSE l

Connect(c) == link' = [link EXCEPT ![c] = [NoConnection EXCEPT !.cli = TRUE, !.srv = "backlog"]]
Accept(c)  == link' = [link EXCEPT ![c].srv = "open"]

CliClosed(l) == Settled([l EXCEPT !.cli = FALSE])
SrvClosed(l) == Settled([l EXCEPT !.srv = "closed"])

CliClose(c) == link' = [link EXCEPT ![c] = CliClosed(@)]
SrvClose(c) == link' = [link EXCEPT ![c] = SrvClosed(@)]

(* A listening socket that goes takes the connections not accepted yet and *)
(* resets them; a process that ends closes the accepted ones too.          *)
ListenerClosed(l) == IF l.srv = "backlog"
                     THEN Settled([l EXCEPT !.srv = "closed", !.rst = TRUE]) ELSE l
CloseListener == link' = [c \in Clients |-> ListenerClosed(link[c])]
CloseAll ==
    link' = [c \in Clients |-> IF link[c].srv = "open" THEN SrvClosed(link[c])
                               ELSE ListenerClosed(link[c])]

(* A reset: the peer closed with data unread, or sent to a closed end. *)
MayReset(c) == /\ ~link[c].rst
               /\ \/ link[c].srv = "closed" /\ link[c].c2s # <<>>
                  \/ ~link[c].cli /\ link[c].srv # "none" /\ link[c].s2c # <<>>
Reset(c) == link' = [link EXCEPT ![c] = Settled([@ EXCEPT !.rst = TRUE])]

(* What a receive of at most n words can return: a part of what was sent.  *)
Received(q, n) == {SubSeq(q, 1, k) : k \in 1 .. Min({n, Len(q)})}
Rest(q, n) == SubSeq(q, n + 1, Len(q))

(* The server's receive returns 0 or an error. *)
SrvAtEnd(c) == link[c].rst \/ (link[c].c2s = <<>> /\ ~link[c].cli)
SrvTake(c, n) == link' = [link EXCEPT ![c].c2s = Rest(@, n)]

(* The server's send: words go out, also to an end that has just closed; it *)
(* can fail once the client is gone.                                        *)
SrvSend(c, words) ==
    link' = [link EXCEPT ![c].s2c = IF link[c].cli THEN @ \o words ELSE @]
SrvSendFails(c) == link[c].rst \/ ~link[c].cli

(* The client's receive: an error, an end of stream (0), or words. *)
CliError(c) == link[c].rst \/ ~link[c].cli
CliAtEnd(c) == ~CliError(c) /\ link[c].s2c = <<>> /\ link[c].srv = "closed"
CliTake(c, n) == link' = [link EXCEPT ![c].s2c = Rest(@, n)]

(* The client's send succeeds as long as no error has come back. *)
CliSend(c, words) == link' = [link EXCEPT ![c].c2s = @ \o words]

LinkType ==
    link \in [Clients -> [cli : BOOLEAN, srv : {"none", "backlog", "open", "closed"},
                          rst : BOOLEAN, c2s : Seq(Int), s2c : Seq(Int)]]
=============================================================================

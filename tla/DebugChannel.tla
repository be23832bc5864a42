----------------------------- MODULE DebugChannel -----------------------------
(***************************************************************************)
(* driver/net.c: the hooks send fixed size messages to a debug client that *)
(* a listener thread accepts.  The connection flag and the one message     *)
(* buffer are shared; lock_listen_mutex waits with a timeout of 0, so it   *)
(* fails at once when the mutex is held, and nobody looks at its result.   *)
(* A step is what a thread does between two system calls or accesses to    *)
(* the shared variables.  A message has two halves, so that a send can be  *)
(* partial; its contents are the name of the thread that sends it.         *)
(***************************************************************************)
EXTENDS Integers, Sequences, FiniteSets

CONSTANTS
    Hooks,      \* the threads whose hooks send messages
    Listener    \* the listener thread

ASSUME ListenerAssumption == Listener \notin Hooks

Threads == Hooks \cup {Listener}

VARIABLES
    mod,            \* where module_start and module_stop are
    pc,             \* where each thread is
    mutex,          \* g_connInitMutexId: "none", "created", "failed", "deleted"
    owner,          \* the set of the thread that holds the mutex
    thread,         \* g_connListenThid: "none", "failed" or "created"
    connInitialized,\* g_connInitialized
    serverSock,     \* _server_sock: 0, an error code or a descriptor
    clientSock,     \* _client_sock
    buffer,         \* message_buffer: whose message, or zeros
    open,           \* the system's view: the open sockets
    link,           \* the connection of the accepted client
    wire,           \* the last two halves of messages that were sent to the client
    torn,           \* history: a send failed between the halves of a message
    unguarded       \* history: a message was sent without the mutex

vars == <<mod, pc, mutex, owner, thread, connInitialized, serverSock, clientSock,
          buffer, open, link, wire, torn, unguarded>>

module == <<mod, mutex, thread>>
network == <<serverSock, clientSock, open>>
sending == <<buffer, link, wire, torn, unguarded>>

ServerSocket  == 1
ClientSockets == {2, 3}
SocketError   == -1
Zeros         == "zeros"

Init ==
    /\ mod = "init_mutex"
    /\ pc = [t \in Threads |-> IF t = Listener THEN "created" ELSE "idle"]
    /\ mutex = "none" /\ owner = {} /\ thread = "none"
    /\ connInitialized = 0 /\ serverSock = 0 /\ clientSock = 0
    /\ buffer = Zeros /\ open = {} /\ link = "none" /\ wire = <<>>
    /\ torn = FALSE /\ unguarded = FALSE

Go(t, from, to) == pc[t] = from /\ pc' = [pc EXCEPT ![t] = to]

(* The mutex is free and there, or the call fails and the caller goes on. *)
lock_listen_mutex(t) ==
    owner' = IF mutex = "created" /\ owner = {} THEN {t} ELSE owner

(* Mutant: any thread can unlock, as with a semaphore. *)
Bug_UnlockedByAnyone(t) == owner' = {}

(* Unlocking fails for a thread that does not hold the mutex. *)
unlock_listen_mutex(t) == owner' = owner \ {t}

Lock(t, from, to) ==
    /\ Go(t, from, to) /\ lock_listen_mutex(t)
    /\ UNCHANGED <<module, connInitialized, network, sending>>

Unlock(t, from, to) ==
    /\ Go(t, from, to) /\ unlock_listen_mutex(t)
    /\ UNCHANGED <<module, connInitialized, network, sending>>

-----------------------------------------------------------------------------
(* Sending, by any thread. *)

Call(t, from, to) ==
    /\ Go(t, from, to)
    /\ UNCHANGED <<module, owner, connInitialized, network, sending>>

(* Where a thread goes on after send_message_to_client. *)
Back(t) == IF t = Listener THEN "poll" ELSE "idle"

(* A message longer than MSG_SIZE is refused before anything else. *)
size_test(t) == Call(t, "size", "send") \/ (t # Listener /\ Call(t, "size", Back(t)))

send_test(t) ==
    /\ Go(t, "send_test", IF connInitialized = 1 THEN "clear" ELSE "send_unlock")
    /\ unguarded' = (unguarded \/ (connInitialized = 1 /\ t \notin owner))
    /\ UNCHANGED <<module, owner, connInitialized, network, buffer, link, wire, torn>>

(* send_message clears the buffer and copies the message into it. *)
Fill(t, from, to, content) ==
    /\ Go(t, from, to)
    /\ buffer' = content
    /\ UNCHANGED <<module, owner, connInitialized, network, link, wire, torn, unguarded>>

(* A half that follows on the wire, and both halves of a message. *)
Half(i) == <<buffer, i>>
Sent == wire' = IF wire = <<>> THEN <<Half(1)>> ELSE <<wire[Len(wire)], Half(1)>>
RestSent == wire' = IF wire = <<>> THEN <<Half(2)>> ELSE <<wire[Len(wire)], Half(2)>>
AllSent == wire' = <<Half(1), Half(2)>>

(* ksceNetSend sends what is left or a part of it, or fails: when the      *)
(* client is gone, and "by unknown reason" with the connection up, too.    *)
ksceNetSend(t) ==
    /\ UNCHANGED <<module, owner, connInitialized, network, buffer, link, unguarded>>
    /\ \/ /\ link = "up" /\ clientSock \in open
          /\ \/ Go(t, "send_1", "send_2") /\ Sent
             \/ Go(t, "send_1", "send_unlock") /\ AllSent
             \/ Go(t, "send_2", "send_unlock") /\ RestSent
          /\ UNCHANGED torn
       \/ Go(t, "send_1", "failed") /\ UNCHANGED <<wire, torn>>
       \/ Go(t, "send_2", "failed") /\ torn' = TRUE /\ UNCHANGED wire

(* Mutant: the result the comment asks for, return -1. *)
Bug_FailureResult == -1

(* What send_message returns when a send has failed. *)
SendFailureResult == 0

(* close_client_sock *)
close_client_sock ==
    /\ open' = open \ {clientSock}
    /\ clientSock' = 0

(* send_message_to_client when send_message has returned. *)
send_failed(t) ==
    /\ Go(t, "failed", "send_unlock")
    /\ IF SendFailureResult < 0
       THEN connInitialized' = 0 /\ close_client_sock /\ UNCHANGED serverSock
       ELSE UNCHANGED <<connInitialized, network>>
    /\ UNCHANGED <<module, owner, sending>>

send_message(t) ==
    \/ Fill(t, "clear", "copy", Zeros)
    \/ Fill(t, "copy", "send_1", t)
    \/ ksceNetSend(t)

send_message_to_client(t) ==
    \/ size_test(t)
    \/ Lock(t, "send", "send_test")
    \/ send_test(t)
    \/ send_message(t)
    \/ send_failed(t)
    \/ Unlock(t, "send_unlock", Back(t))

-----------------------------------------------------------------------------
(* The listener thread. *)

(* init_net_internal: socket, bind, listen; each may fail. *)
init_net_internal ==
    /\ UNCHANGED <<module, owner, connInitialized, clientSock, sending>>
    /\ \/ Go(Listener, "setup", "ended") /\ serverSock' = SocketError /\ UNCHANGED open
       \/ Go(Listener, "setup", "bind") /\ serverSock' = ServerSocket /\ open' = open \cup {ServerSocket}
       \/ (Go(Listener, "bind", "poll") \/ Go(Listener, "bind", "ended")) /\ UNCHANGED <<serverSock, open>>

(* Mutant: the flag is not looked at before the next accept. *)
Bug_AcceptsAgain ==
    /\ Go(Listener, "poll_test", "poll_unlock")
    /\ UNCHANGED <<module, owner, connInitialized, network, sending>>

(* While there is a client the listener delays with the mutex held. *)
poll_test ==
    /\ Go(Listener, "poll_test", IF connInitialized = 1 THEN "delay" ELSE "poll_unlock")
    /\ UNCHANGED <<module, owner, connInitialized, network, sending>>

(* ksceNetAccept fails, or returns a new socket, which is stored. *)
accept ==
    /\ UNCHANGED <<module, owner, connInitialized, serverSock, buffer, unguarded>>
    /\ \/ Go(Listener, "accept", "ended") /\ UNCHANGED <<clientSock, open, link, wire, torn>>
       \/ /\ serverSock \in open
          /\ Go(Listener, "accept", "accepted")
          /\ \E s \in ClientSockets \ open : clientSock' = s /\ open' = open \cup {s}
          /\ link' = "up" /\ wire' = <<>> /\ torn' = FALSE

set_initialized ==
    /\ Go(Listener, "set", "set_unlock")
    /\ connInitialized' = 1
    /\ UNCHANGED <<module, owner, network, sending>>

accept_single_connection ==
    \/ Lock(Listener, "poll", "poll_test")
    \/ poll_test
    \/ Unlock(Listener, "delay", "poll")
    \/ Unlock(Listener, "poll_unlock", "accept")
    \/ accept
    \/ Lock(Listener, "accepted", "set")
    \/ set_initialized
    \/ Unlock(Listener, "set_unlock", "size")

ConnListenThread == init_net_internal \/ accept_single_connection \/ send_message_to_client(Listener)

-----------------------------------------------------------------------------
(* The module: module_start calls init_net, module_stop deinit_net. *)

Module(from, to) == mod = from /\ mod' = to

init_listen_mutex ==
    /\ \/ Module("init_mutex", "init_thread") /\ mutex' = "created"
       \/ Module("init_mutex", "started") /\ mutex' = "failed"
    /\ UNCHANGED <<pc, owner, thread, connInitialized, network, sending>>

init_listen_thread ==
    /\ \/ Module("init_thread", "start_thread") /\ thread' = "created"
       \/ Module("init_thread", "started") /\ thread' = "failed"
    /\ UNCHANGED <<pc, mutex, owner, connInitialized, network, sending>>

(* The result of ksceKernelStartThread is not looked at. *)
start_listen_thread ==
    /\ Module("start_thread", "started")
    /\ Go(Listener, "created", "setup") \/ UNCHANGED pc
    /\ UNCHANGED <<mutex, owner, thread, connInitialized, network, sending>>

init_net == init_listen_mutex \/ init_listen_thread \/ start_listen_thread

(* The mutex is deleted while threads may hold it. *)
deinit_listen_mutex ==
    /\ Module("started", "join")
    /\ mutex' = "deleted" /\ owner' = {}
    /\ UNCHANGED <<pc, thread, connInitialized, network, sending>>

(* ksceKernelWaitThreadEnd without a timeout; it returns at once when      *)
(* there is no thread, or one that was never started.                      *)
deinit_listen_thread ==
    /\ Module("join", "close_client")
    /\ thread = "created" => pc[Listener] \in {"created", "ended"}
    /\ UNCHANGED <<pc, mutex, owner, thread, connInitialized, network, sending>>

deinit_client_sock ==
    /\ Module("close_client", "close_server")
    /\ close_client_sock
    /\ UNCHANGED <<pc, mutex, owner, thread, connInitialized, serverSock, sending>>

close_server_sock ==
    /\ Module("close_server", "stopped")
    /\ open' = open \ {serverSock}
    /\ serverSock' = 0
    /\ UNCHANGED <<pc, mutex, owner, thread, connInitialized, clientSock, sending>>

deinit_net ==
    \/ deinit_listen_mutex \/ deinit_listen_thread
    \/ deinit_client_sock \/ close_server_sock

-----------------------------------------------------------------------------

(* A hook may send at any time: the hooks are installed before init_net    *)
(* and removed after deinit_net.                                           *)
HookSends(t) == Call(t, "idle", "size")

(* The client goes away. *)
Disconnect ==
    /\ link = "up" /\ link' = "down"
    /\ UNCHANGED <<module, pc, owner, connInitialized, network, buffer, wire, torn, unguarded>>

Next ==
    \/ init_net \/ deinit_net
    \/ ConnListenThread
    \/ \E t \in Hooks : HookSends(t) \/ send_message_to_client(t)
    \/ Disconnect

Spec == Init /\ [][Next]_vars

(* Threads run; a wait for a client and a call of module_stop may last for *)
(* ever, what module_stop does once it is called may not.                  *)
Fairness ==
    /\ WF_vars(init_net)
    /\ WF_vars(ConnListenThread /\ pc[Listener] # "accept")
    /\ \A t \in Hooks : WF_vars(send_message_to_client(t))
    /\ WF_vars(deinit_net /\ mod # "started")

FairSpec == Spec /\ Fairness

-----------------------------------------------------------------------------

SendPlaces == {"size", "send", "send_test", "clear", "copy", "send_1", "send_2", "failed", "send_unlock"}
HookPlaces == SendPlaces \cup {"idle"}
ListenerPlaces == SendPlaces \cup {"created", "setup", "bind", "poll", "poll_test", "delay",
                                   "poll_unlock", "accept", "accepted", "set", "set_unlock", "ended"}

(* Type invariant. *)
TypeOK ==
    /\ mod \in {"init_mutex", "init_thread", "start_thread", "started", "join",
                "close_client", "close_server", "stopped"}
    /\ pc \in [Threads -> HookPlaces \cup ListenerPlaces]
    /\ \A t \in Hooks : pc[t] \in HookPlaces
    /\ pc[Listener] \in ListenerPlaces
    /\ mutex \in {"none", "created", "failed", "deleted"}
    /\ owner \in SUBSET Threads
    /\ thread \in {"none", "created", "failed"}
    /\ connInitialized \in {0, 1}
    /\ serverSock \in {0, SocketError, ServerSocket}
    /\ clientSock \in {0} \cup ClientSockets
    /\ buffer \in Threads \cup {Zeros}
    /\ open \in SUBSET ({ServerSocket} \cup ClientSockets)
    /\ link \in {"none", "up", "down"}
    /\ wire \in Seq((Threads \cup {Zeros}) \X {1, 2}) /\ Len(wire) <= 2
    /\ torn \in BOOLEAN /\ unguarded \in BOOLEAN

(* Between the test of the connection flag and the last send there is an   *)
(* accepted socket, open, that deinit_net does not close under the sender, *)
(* although the sender may hold no mutex.                                  *)
Sending == {"clear", "copy", "send_1", "send_2"}
SendsOnAccepted ==
    \A t \in Threads : pc[t] \in Sending => clientSock # 0 /\ clientSock \in open

(* No accepted socket is forgotten while it is open, and nothing is left   *)
(* open by a module_stop that returns, whichever step of init_net failed.  *)
NoSocketLost ==
    /\ open \subseteq {serverSock, clientSock}
    /\ mod = "stopped" => open = {}

(* A second half is sent right behind the first half of its message, and a *)
(* first half right behind a whole message, unless a send has failed half  *)
(* way.  The client cuts the stream into messages of MSG_SIZE bytes, so it *)
(* is off from that failure on.                                            *)
Whole(m) == \E t \in Threads : m = <<<<t, 1>>, <<t, 2>>>>
MessagesWhole ==
    Len(wire) = 2 => Whole(wire) \/ (wire[2][2] = 1 /\ (wire[1][2] = 2 \/ torn))

(* As long as every thread that finds a client connected has the mutex     *)
(* while it sends, no message gets into another, whichever sends fail; and *)
(* while none fails half way the client receives whole messages.           *)
GuardedMessagesWhole == ~unguarded => MessagesWhole

(* net.c says of message_buffer: "message send is locked with mutex so     *)
(* this buffer should be safe".                                            *)
BufferSafe == MessagesWhole

(* Once a client was accepted module_stop never returns, not even when the *)
(* client has gone and sends fail: deinit_net joins the listener first,    *)
(* which polls a flag that nothing clears.                                 *)
ClientKeepsModule == [](connInitialized = 1 => [](mod # "stopped"))

(* Without a client module_stop returns when the listener has ended, and   *)
(* only then.                                                              *)
StopNeedsNoClient ==
    /\ ClientKeepsModule
    /\ (mod = "join" /\ pc[Listener] = "ended") ~> mod = "stopped"
=============================================================================

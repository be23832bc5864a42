------------------------- MODULE DebugChannel_proofs -------------------------
(***************************************************************************)
(* Proofs about DebugChannel, for any set of hook threads.                 *)
(***************************************************************************)
EXTENDS DebugChannel, SequenceTheorems, TLAPS

(* Where the listener can be once a client was accepted and announced. *)
Announced == SendPlaces \cup {"poll", "poll_test", "delay", "set_unlock"}

(* The connection flag, the sockets, the place of the listener and how far *)
(* the module is belong together.                                          *)
Connection ==
    /\ \A t \in Threads : pc[t] \in Sending => connInitialized = 1
    /\ connInitialized = 1 => pc[Listener] \in Announced
    /\ connInitialized = 1 \/ pc[Listener] \in {"accepted", "set"}
         => clientSock \in ClientSockets /\ clientSock \in open
    /\ connInitialized = 0 /\ pc[Listener] \notin {"accepted", "set"} => clientSock = 0
    /\ pc[Listener] \in {"created", "setup"} => serverSock = 0
    /\ open \subseteq {serverSock, clientSock}

(* The listener runs only when it was created and started, and deinit_net  *)
(* touches the sockets only when it does not run.                          *)
Lifecycle ==
    /\ pc[Listener] # "created" => thread = "created"
    /\ mod \in {"init_mutex", "init_thread", "start_thread"} => pc[Listener] = "created"
    /\ mod = "init_mutex" => mutex = "none"
    /\ mod = "start_thread" => thread = "created"
    /\ mod \in {"close_client", "close_server", "stopped"} => pc[Listener] \in {"created", "ended"}
    /\ mod = "stopped" => serverSock = 0

ChannelInv == TypeOK /\ Connection /\ Lifecycle

(* The threads between the test of the flag and the last send. *)
Busy == {t \in Threads : pc[t] \in Sending}

(* While nobody sent without the mutex one thread at a time is busy: the   *)
(* mutex's owner, as long as there is a mutex.                             *)
OneSender ==
    /\ \A t, u \in owner : t = u
    /\ mutex # "created" => owner = {}
    /\ \A t, u \in Busy : t = u
    /\ mutex = "created" => Busy \subseteq owner

(* The buffer is the sender's, and half a message is the last of the wire  *)
(* only while its sender is about to send the rest or its send has failed. *)
Stream ==
    /\ \A t \in Threads : pc[t] \in {"send_1", "send_2"} => buffer = t
    /\ \A t \in Threads : pc[t] = "send_2" => wire # <<>> /\ wire[Len(wire)] = <<t, 1>>
    /\ torn \/ wire = <<>> \/ wire[Len(wire)][2] = 2 \/ \E t \in Threads : pc[t] = "send_2"
    /\ MessagesWhole

MessageInv == ~unguarded => OneSender /\ Stream

-----------------------------------------------------------------------------

(* The places of a hook thread and of the listener. *)
Places(t) == IF t = Listener THEN ListenerPlaces ELSE HookPlaces

(* A move of one thread to a place of its kind keeps the type of pc. *)
LEMMA MoveType ==
  ASSUME TypeOK, NEW t \in Threads, NEW from, NEW to \in Places(t), Go(t, from, to)
  PROVE  /\ pc' \in [Threads -> HookPlaces \cup ListenerPlaces]
         /\ \A u \in Hooks : pc'[u] \in HookPlaces
         /\ pc'[Listener] \in ListenerPlaces
         /\ pc[t] = from /\ pc'[t] = to
         /\ \A u \in Threads : u # t => pc'[u] = pc[u]
  BY ListenerAssumption DEF TypeOK, Go, Places, Threads

(* The end of the wire keeps its type when a part of a message follows.    *)
LEMMA WireType ==
  ASSUME TypeOK, Sent \/ RestSent \/ AllSent
  PROVE  wire' \in Seq((Threads \cup {Zeros}) \X {1, 2}) /\ Len(wire') <= 2
<1> DEFINE H == (Threads \cup {Zeros}) \X {1, 2}
<1>1. buffer \in Threads \cup {Zeros} /\ wire \in Seq(H)
  BY DEF TypeOK
<1>2. Half(1) \in H /\ Half(2) \in H
  BY <1>1 DEF Half
<1> HIDE DEF H
<1>3. wire # <<>> => wire[Len(wire)] \in H
  BY <1>1
<1>4. \/ \E h \in H : wire' = <<h>>
      \/ \E g, h \in H : wire' = <<g, h>>
  BY <1>2, <1>3 DEF Sent, RestSent, AllSent
<1>5. wire' \in Seq(H) /\ Len(wire') <= 2
  <2>1. CASE \E h \in H : wire' = <<h>>
    BY <2>1
  <2>2. CASE \E g, h \in H : wire' = <<g, h>>
    BY <2>2
  <2>3. QED
    BY <1>4, <2>1, <2>2
<1>6. QED
  BY <1>5 DEF H

(* Sending keeps the types. *)
LEMMA SendTypeOK ==
  ASSUME TypeOK, NEW t \in Threads, send_message_to_client(t)
  PROVE  TypeOK'
<1> USE DEF Places, HookPlaces, ListenerPlaces, SendPlaces, Back
<1>1. CASE size_test(t)
  BY <1>1, MoveType DEF size_test, Call, module, network, sending, TypeOK
<1>2. CASE Lock(t, "send", "send_test") \/ Unlock(t, "send_unlock", Back(t))
  BY <1>2, MoveType DEF Lock, Unlock, lock_listen_mutex, unlock_listen_mutex, module,
     network, sending, TypeOK
<1>3. CASE send_test(t)
  <2>1. unguarded' \in BOOLEAN
    BY <1>3 DEF send_test
  <2>2. Go(t, "send_test", IF connInitialized = 1 THEN "clear" ELSE "send_unlock")
    BY <1>3 DEF send_test
  <2>3. QED
    BY <1>3, <2>1, <2>2, MoveType DEF send_test, module, network, TypeOK
<1>4. CASE Fill(t, "clear", "copy", Zeros) \/ Fill(t, "copy", "send_1", t)
  BY <1>4, MoveType DEF Fill, module, network, TypeOK
<1>5. CASE ksceNetSend(t)
  <2>1. /\ UNCHANGED <<module, owner, connInitialized, network, buffer, link, unguarded>>
        /\ \E from, to \in SendPlaces : Go(t, from, to)
        /\ torn' \in BOOLEAN
    BY <1>5 DEF ksceNetSend, TypeOK
  <2>2. wire' \in Seq((Threads \cup {Zeros}) \X {1, 2}) /\ Len(wire') <= 2
    BY <1>5, WireType DEF ksceNetSend, TypeOK
  <2>3. QED
    BY <2>1, <2>2, MoveType DEF module, network, TypeOK
<1>6. CASE send_failed(t)
  BY <1>6, MoveType DEF send_failed, SendFailureResult, module, network, sending, TypeOK
<1>7. QED
  BY <1>1, <1>2, <1>3, <1>4, <1>5, <1>6 DEF send_message_to_client, send_message

(* Every step keeps the type invariant. *)
LEMMA NextTypeOK ==
  ASSUME TypeOK, [Next]_vars
  PROVE  TypeOK'
<1> USE DEF Places, HookPlaces, ListenerPlaces, SendPlaces
<1>0. Listener \in Threads
  BY DEF Threads
<1>1. CASE UNCHANGED vars
  BY <1>1 DEF vars, TypeOK
<1>2. CASE init_net
  BY <1>0, <1>2, MoveType DEF init_net, init_listen_mutex, init_listen_thread, start_listen_thread,
     Module, network, sending, TypeOK
<1>3. CASE deinit_net
  BY <1>3 DEF deinit_net, deinit_listen_mutex, deinit_listen_thread, deinit_client_sock,
     close_client_sock, close_server_sock, Module, network, sending, TypeOK
<1>4. CASE init_net_internal
  <2>1. PICK from, to \in {"setup", "bind", "poll", "ended"} : Go(Listener, from, to)
    BY <1>4 DEF init_net_internal
  <2>2. /\ pc' \in [Threads -> HookPlaces \cup ListenerPlaces]
        /\ \A u \in Hooks : pc'[u] \in HookPlaces
        /\ pc'[Listener] \in ListenerPlaces
    BY <1>0, <2>1, MoveType
  <2>3. serverSock' \in {0, SocketError, ServerSocket} /\ open' \in SUBSET ({ServerSocket} \cup ClientSockets)
    BY <1>4 DEF init_net_internal, TypeOK
  <2>4. QED
    BY <1>4, <2>2, <2>3 DEF init_net_internal, module, sending, TypeOK
<1>5. CASE poll_test \/ accept \/ set_initialized
  <2>1. CASE poll_test
    BY <1>0, <2>1, MoveType DEF poll_test, module, network, sending, TypeOK
  <2>2. CASE accept
    <3>1. PICK to \in {"accepted", "ended"} : Go(Listener, "accept", to)
      BY <2>2 DEF accept
    <3>2. /\ pc' \in [Threads -> HookPlaces \cup ListenerPlaces]
          /\ \A u \in Hooks : pc'[u] \in HookPlaces
          /\ pc'[Listener] \in ListenerPlaces
      BY <1>0, <3>1, MoveType
    <3>3. /\ clientSock' \in {0} \cup ClientSockets
          /\ open' \in SUBSET ({ServerSocket} \cup ClientSockets)
          /\ link' \in {"none", "up", "down"} /\ torn' \in BOOLEAN
      BY <2>2 DEF accept, TypeOK
    <3>4. wire' \in Seq((Threads \cup {Zeros}) \X {1, 2}) /\ Len(wire') <= 2
      <4>1. wire' = wire \/ wire' = <<>>
        BY <2>2 DEF accept
      <4>2. CASE wire' = wire
        BY <4>2 DEF TypeOK
      <4>3. CASE wire' = <<>>
        BY <4>3
      <4>4. QED
        BY <4>1, <4>2, <4>3
    <3>5. QED
      BY <2>2, <3>2, <3>3, <3>4 DEF accept, module, TypeOK
  <2>3. CASE set_initialized
    BY <1>0, <2>3, MoveType DEF set_initialized, module, network, sending, TypeOK
  <2>4. QED
    BY <1>5, <2>1, <2>2, <2>3
<1>6. CASE \/ Lock(Listener, "poll", "poll_test") \/ Unlock(Listener, "delay", "poll")
           \/ Unlock(Listener, "poll_unlock", "accept") \/ Lock(Listener, "accepted", "set")
           \/ Unlock(Listener, "set_unlock", "size")
  BY <1>0, <1>6, MoveType DEF Lock, Unlock, lock_listen_mutex, unlock_listen_mutex, module,
     network, sending, TypeOK
<1>7. ASSUME NEW t \in Hooks, HookSends(t)
      PROVE  TypeOK'
  <2>1. t \in Threads /\ t # Listener
    BY ListenerAssumption DEF Threads
  <2>2. QED
    BY <1>7, <2>1, MoveType DEF HookSends, Call, module, network, sending, TypeOK
<1>8. CASE Disconnect
  BY <1>8 DEF Disconnect, module, network, TypeOK
<1>9. QED
  BY <1>0, <1>1, <1>2, <1>3, <1>4, <1>5, <1>6, <1>7, <1>8, SendTypeOK
     DEF Next, ConnListenThread, accept_single_connection, Threads

-----------------------------------------------------------------------------

(* A move of one thread that leaves the flag, the sockets and the module   *)
(* alone keeps the connection's invariant when it goes to a place that     *)
(* the flag allows.                                                        *)
LEMMA MoveKeepsChannel ==
  ASSUME ChannelInv, NEW t \in Threads, NEW from \in Places(t), NEW to \in Places(t), Go(t, from, to),
         UNCHANGED <<mod, mutex, thread, connInitialized, serverSock, clientSock, open>>,
         to \in Sending => connInitialized = 1,
         t = Listener => /\ from \in Announced => to \in Announced \cup {"poll_unlock"}
                         /\ to = "poll_unlock" => connInitialized = 0
                         /\ from \in {"accepted", "set"} <=> to \in {"accepted", "set"}
                         /\ to \notin {"created", "setup"} /\ from \notin {"created", "ended"}
  PROVE  Connection' /\ Lifecycle'
<1>1. /\ pc[t] = from /\ pc'[t] = to
      /\ \A u \in Threads : u # t => pc'[u] = pc[u]
  BY MoveType DEF ChannelInv
<1>2. Connection /\ Lifecycle /\ connInitialized \in {0, 1}
  BY DEF ChannelInv, TypeOK
<1>3. Listener \in Threads
  BY DEF Threads
<1>4. connInitialized = 1 => pc'[Listener] \in Announced
  BY <1>1, <1>2, <1>3 DEF Connection
<1>5. pc'[Listener] \in {"accepted", "set"} <=> pc[Listener] \in {"accepted", "set"}
  BY <1>1, <1>3
<1>6. pc'[Listener] \in {"created", "setup"} => pc[Listener] = pc'[Listener]
  BY <1>1, <1>3
<1>7. pc[Listener] \in {"created", "ended"} => pc'[Listener] = pc[Listener]
  BY <1>1, <1>3
<1>8. Connection'
  BY <1>1, <1>2, <1>4, <1>5, <1>6 DEF Connection
<1>9. pc'[Listener] # "created" => pc[Listener] # "created"
  BY <1>7
<1>10. Lifecycle'
  BY <1>2, <1>7, <1>9 DEF Lifecycle
<1>11. QED
  BY <1>8, <1>10

(* Sending keeps the connection's invariant: it goes on only with the flag *)
(* set, and nothing clears the flag.                                       *)
LEMMA SendKeepsChannel ==
  ASSUME ChannelInv, NEW t \in Threads, send_message_to_client(t)
  PROVE  Connection' /\ Lifecycle'
<1>1. ChannelInv /\ t \in Threads
  OBVIOUS
<1>2. UNCHANGED <<mod, mutex, thread, connInitialized, serverSock, clientSock, open>>
  BY DEF send_message_to_client, send_message, size_test, Lock, Unlock, Call, send_test, Fill,
     ksceNetSend, send_failed, SendFailureResult, module, network
<1>3. PICK from \in SendPlaces, to \in SendPlaces \cup {Back(t)} :
        Go(t, from, to) /\ (to \in Sending => connInitialized = 1 \/ from \in Sending)
  <2> USE DEF SendPlaces, Sending
  <2>1. CASE size_test(t)
    BY <2>1 DEF size_test, Call, Back
  <2>2. CASE Lock(t, "send", "send_test") \/ Unlock(t, "send_unlock", Back(t))
    BY <2>2 DEF Lock, Unlock, Back
  <2>3. CASE send_test(t)
    BY <2>3 DEF send_test
  <2>4. CASE Fill(t, "clear", "copy", Zeros) \/ Fill(t, "copy", "send_1", t)
    BY <2>4 DEF Fill
  <2>5. CASE ksceNetSend(t)
    BY <2>5 DEF ksceNetSend
  <2>6. CASE send_failed(t)
    BY <2>6 DEF send_failed
  <2>7. QED
    BY <2>1, <2>2, <2>3, <2>4, <2>5, <2>6 DEF send_message_to_client, send_message
<1>4. to \in Sending => connInitialized = 1
  BY <1>1, <1>3 DEF ChannelInv, Connection, Go
<1>5. from \in Places(t) /\ to \in Places(t)
  BY <1>3 DEF Places, HookPlaces, ListenerPlaces, Back
<1>6. t = Listener => /\ to \in Announced /\ to \notin {"poll_unlock", "accepted", "set", "created", "setup"}
                      /\ from \notin {"accepted", "set", "created", "ended"}
  BY <1>3 DEF Announced, SendPlaces, Back
<1>7. QED
  BY <1>2, <1>3, <1>4, <1>5, <1>6, MoveKeepsChannel

(* The listener keeps it: it accepts only while the flag is not set, and   *)
(* sets the flag with the socket it has just accepted.                     *)
LEMMA ListenerKeepsChannel ==
  ASSUME ChannelInv, init_net_internal \/ accept_single_connection
  PROVE  Connection' /\ Lifecycle'
<1> USE DEF Places, ListenerPlaces, SendPlaces, Announced, Sending
<1>1. Listener \in Threads /\ ChannelInv
  BY DEF Threads
<1>2. ASSUME NEW from, NEW to \in ListenerPlaces, Go(Listener, from, to)
      PROVE  /\ pc[Listener] = from /\ pc'[Listener] = to
             /\ \A u \in Threads : u # Listener => pc'[u] = pc[u]
  BY <1>1, <1>2, MoveType DEF ChannelInv
<1>3. CASE init_net_internal
  <2>1. CASE Go(Listener, "setup", "ended") \/ Go(Listener, "setup", "bind")
    <3>1. connInitialized = 0 /\ clientSock = 0 /\ serverSock = 0 /\ thread = "created"
      BY <1>1, <2>1, <1>2 DEF ChannelInv, Connection, Lifecycle, TypeOK
    <3>2. mod \notin {"init_mutex", "init_thread", "start_thread", "close_client", "close_server", "stopped"}
      BY <2>1, <1>2 DEF ChannelInv, Lifecycle
    <3>3. UNCHANGED <<mod, mutex, thread, connInitialized, clientSock>> /\ open' \subseteq open \cup {serverSock'}
      BY <1>3 DEF init_net_internal, module
    <3>4. pc'[Listener] \in {"ended", "bind"} /\ \A u \in Threads : u # Listener => pc'[u] = pc[u]
      BY <1>2, <2>1
    <3>5. 0 \notin open
      BY DEF ChannelInv, TypeOK, ServerSocket, ClientSockets
    <3>6. Connection'
      BY <1>1, <3>1, <3>3, <3>4, <3>5 DEF ChannelInv, Connection
    <3>7. Lifecycle'
      BY <3>1, <3>2, <3>3, <3>4 DEF Lifecycle
    <3>8. QED
      BY <3>6, <3>7
  <2>2. CASE ~(Go(Listener, "setup", "ended") \/ Go(Listener, "setup", "bind"))
    <3>1. /\ Go(Listener, "bind", "poll") \/ Go(Listener, "bind", "ended")
          /\ UNCHANGED <<mod, mutex, thread, connInitialized, serverSock, clientSock, open>>
      BY <1>3, <2>2 DEF init_net_internal, module
    <3>2. QED
      BY <1>1, <3>1, MoveKeepsChannel
  <2>3. QED
    BY <2>1, <2>2
<1>4. CASE poll_test
  <2>1. CASE connInitialized = 1
    BY <1>1, <1>4, <2>1, MoveKeepsChannel DEF poll_test, module, network
  <2>2. CASE connInitialized = 0
    BY <1>1, <1>4, <2>2, MoveKeepsChannel DEF poll_test, module, network
  <2>3. QED
    BY <2>1, <2>2 DEF ChannelInv, TypeOK
<1>5. CASE Lock(Listener, "poll", "poll_test") \/ Lock(Listener, "accepted", "set")
  BY <1>1, <1>5, MoveKeepsChannel DEF Lock, module, network
<1>6. CASE Unlock(Listener, "delay", "poll") \/ Unlock(Listener, "set_unlock", "size")
  BY <1>1, <1>6, MoveKeepsChannel DEF Unlock, module, network
<1>7. CASE Unlock(Listener, "poll_unlock", "accept")
  BY <1>1, <1>7, MoveKeepsChannel DEF Unlock, module, network
<1>8. CASE accept
  <2>1. CASE Go(Listener, "accept", "ended")
    <3>1. UNCHANGED <<mod, mutex, thread, connInitialized, serverSock, clientSock, open>>
      BY <1>2, <1>8, <2>1 DEF accept, module
    <3>2. QED
      BY <1>1, <2>1, <3>1, MoveKeepsChannel
  <2>2. CASE ~Go(Listener, "accept", "ended")
    <3>1. PICK s \in ClientSockets : clientSock' = s /\ open' = open \cup {s}
      BY <1>8, <2>2 DEF accept
    <3>2. Go(Listener, "accept", "accepted") /\ UNCHANGED <<mod, mutex, thread, connInitialized, serverSock>>
      BY <1>8, <2>2 DEF accept, module
    <3>3. /\ pc[Listener] = "accept" /\ pc'[Listener] = "accepted"
          /\ \A u \in Threads : u # Listener => pc'[u] = pc[u]
      BY <1>2, <3>2
    <3>4. connInitialized = 0 /\ clientSock = 0 /\ 0 \notin open
      BY <3>3 DEF ChannelInv, Connection, TypeOK, ServerSocket, ClientSockets
    <3>5. Connection'
      BY <1>1, <3>1, <3>2, <3>3, <3>4 DEF ChannelInv, Connection
    <3>6. Lifecycle'
      BY <3>2, <3>3 DEF ChannelInv, Lifecycle
    <3>7. QED
      BY <3>5, <3>6
  <2>3. QED
    BY <2>1, <2>2
<1>9. CASE set_initialized
  <2>1. /\ pc[Listener] = "set" /\ pc'[Listener] = "set_unlock"
        /\ \A u \in Threads : u # Listener => pc'[u] = pc[u]
    BY <1>2, <1>9 DEF set_initialized
  <2>2. connInitialized' = 1 /\ UNCHANGED <<mod, mutex, thread, serverSock, clientSock, open>>
    BY <1>9 DEF set_initialized, module, network
  <2>3. Connection'
    BY <1>1, <2>1, <2>2 DEF ChannelInv, Connection
  <2>4. Lifecycle'
    BY <2>1, <2>2 DEF ChannelInv, Lifecycle
  <2>5. QED
    BY <2>3, <2>4
<1>10. QED
  BY <1>3, <1>4, <1>5, <1>6, <1>7, <1>8, <1>9 DEF accept_single_connection

(* init_net and deinit_net keep it: deinit_net closes sockets only when    *)
(* the listener does not run, so that there is no client then.             *)
LEMMA ModuleKeepsChannel ==
  ASSUME ChannelInv, init_net \/ deinit_net
  PROVE  Connection' /\ Lifecycle'
<1>1. Listener \in Threads /\ ChannelInv
  BY DEF Threads
<1>2. CASE init_listen_mutex \/ init_listen_thread \/ deinit_listen_mutex \/ deinit_listen_thread
  <2>1. /\ UNCHANGED <<pc, connInitialized, serverSock, clientSock, open>>
        /\ pc[Listener] # "created" => thread' = "created"
    BY <1>2 DEF ChannelInv, Lifecycle, init_listen_mutex, init_listen_thread,
       deinit_listen_mutex, deinit_listen_thread, Module, network
  <2>2. Connection'
    BY <2>1 DEF ChannelInv, Connection
  <2>3. Lifecycle'
    BY <1>2, <2>1 DEF ChannelInv, Lifecycle, init_listen_mutex, init_listen_thread,
       deinit_listen_mutex, deinit_listen_thread, Module
  <2>4. QED
    BY <2>2, <2>3
<1>3. CASE start_listen_thread /\ pc' # pc
  <2>1. /\ pc[Listener] = "created" /\ pc'[Listener] = "setup"
        /\ \A u \in Threads : u # Listener => pc'[u] = pc[u]
    BY <1>1, <1>3, MoveType DEF start_listen_thread, ChannelInv, Places, ListenerPlaces
  <2>2. mod = "start_thread" /\ mod' = "started" /\ UNCHANGED <<thread, connInitialized, serverSock, clientSock, open>>
    BY <1>3 DEF start_listen_thread, Module, network
  <2>3. connInitialized = 0
    BY <2>1 DEF ChannelInv, Connection, TypeOK, Announced, SendPlaces
  <2>4. QED
    BY <1>1, <2>1, <2>2, <2>3 DEF ChannelInv, Connection, Lifecycle, Sending
<1>4. CASE deinit_client_sock \/ close_server_sock
  <2>1. /\ mod \in {"close_client", "close_server"} /\ mod' \in {"close_server", "stopped"}
        /\ UNCHANGED <<pc, thread, connInitialized>>
    BY <1>4 DEF deinit_client_sock, close_server_sock, Module
  <2>2. pc[Listener] \in {"created", "ended"}
    BY <2>1 DEF ChannelInv, Lifecycle
  <2>3. connInitialized = 0 /\ clientSock = 0 /\ 0 \notin open
    BY <2>2 DEF ChannelInv, Connection, TypeOK, Announced, SendPlaces, ServerSocket, ClientSockets
  <2>4. /\ clientSock' = 0 /\ serverSock' \in {0, serverSock}
        /\ open' \subseteq {serverSock'} 
        /\ mod' = "stopped" => serverSock' = 0
    BY <1>4, <2>3 DEF deinit_client_sock, close_server_sock, close_client_sock, Module, ChannelInv, Connection
  <2>5. Connection'
    BY <2>1, <2>2, <2>3, <2>4 DEF ChannelInv, Connection
  <2>6. Lifecycle'
    BY <2>1, <2>2, <2>4 DEF ChannelInv, Lifecycle
  <2>7. QED
    BY <2>5, <2>6
<1>5. CASE start_listen_thread /\ pc' = pc
  <2>1. /\ UNCHANGED <<pc, mutex, thread, connInitialized, serverSock, clientSock, open>>
        /\ mod = "start_thread" /\ mod' = "started"
    BY <1>5 DEF start_listen_thread, Module, network
  <2>2. QED
    BY <2>1 DEF ChannelInv, Connection, Lifecycle
<1>6. QED
  BY <1>2, <1>3, <1>4, <1>5 DEF init_net, deinit_net

(* The connection's invariant is inductive. *)
LEMMA ChannelInvariant == Spec => []ChannelInv
<1>1. Init => ChannelInv
  <2>1. SUFFICES ASSUME Init PROVE ChannelInv
    OBVIOUS
  <2> USE DEF Init
  <2>2. Listener \in Threads /\ Listener \notin Hooks
    BY ListenerAssumption DEF Threads
  <2>3. unguarded \in BOOLEAN /\ torn \in BOOLEAN
    BY <2>1, Zenon
  <2>4. TypeOK
    BY <2>1, <2>2, <2>3 DEF TypeOK, HookPlaces, ListenerPlaces, Threads
  <2>5. Connection /\ Lifecycle
    BY <2>1, <2>2 DEF Connection, Lifecycle, Sending
  <2>6. QED
    BY <2>4, <2>5 DEF ChannelInv
<1>2. ChannelInv /\ [Next]_vars => ChannelInv'
  <2>1. SUFFICES ASSUME ChannelInv, [Next]_vars PROVE ChannelInv'
    OBVIOUS
  <2>2. TypeOK'
    BY <2>1, NextTypeOK DEF ChannelInv
  <2>3. CASE UNCHANGED vars \/ Disconnect
    <3>1. UNCHANGED <<mod, pc, mutex, thread, connInitialized, serverSock, clientSock, open>>
      BY <2>3 DEF vars, Disconnect, module, network
    <3>2. QED
      BY <2>1, <2>2, <3>1 DEF ChannelInv, Connection, Lifecycle
  <2>4. CASE init_net \/ deinit_net \/ init_net_internal \/ accept_single_connection
    BY <2>1, <2>2, <2>4, ModuleKeepsChannel, ListenerKeepsChannel DEF ChannelInv
  <2>5. ASSUME NEW t \in Threads, send_message_to_client(t)
        PROVE  ChannelInv'
    BY <2>1, <2>2, <2>5, SendKeepsChannel DEF ChannelInv
  <2>6. ASSUME NEW t \in Hooks, HookSends(t)
        PROVE  ChannelInv'
    <3>1. t \in Threads /\ t # Listener
      BY ListenerAssumption DEF Threads
    <3>2. Connection' /\ Lifecycle'
      BY <2>1, <2>6, <3>1, MoveKeepsChannel
         DEF HookSends, Call, module, network, Places, HookPlaces, SendPlaces, Sending
    <3>3. QED
      BY <2>2, <3>2 DEF ChannelInv
  <2>7. QED
    BY <2>1, <2>3, <2>4, <2>5, <2>6 DEF Next, ConnListenThread, Threads
<1>3. QED
  BY <1>1, <1>2, PTL DEF Spec

(* The variables of net.c and the model's view of the network keep their   *)
(* types.                                                                  *)
THEOREM ChannelTypes == Spec => []TypeOK
<1>1. ChannelInv => TypeOK
  BY DEF ChannelInv
<1>2. QED
  BY <1>1, ChannelInvariant, PTL

(* Every sender has an accepted socket that is open, from its test of the  *)
(* flag to its last send (net.c, send_message_to_client against            *)
(* deinit_net), for any number of hook threads.                            *)
THEOREM ChannelSendsOnAccepted == Spec => []SendsOnAccepted
<1>1. ChannelInv => SendsOnAccepted
  BY DEF ChannelInv, Connection, SendsOnAccepted, ClientSockets
<1>2. QED
  BY <1>1, ChannelInvariant, PTL

(* No open socket is forgotten by the two variables, and module_stop       *)
(* leaves none open (net.c, accept_single_connection and deinit_net).      *)
THEOREM ChannelNoSocketLost == Spec => []NoSocketLost
<1>1. ChannelInv => NoSocketLost
  <2>1. SUFFICES ASSUME ChannelInv
                 PROVE  open \subseteq {serverSock, clientSock} /\ (mod = "stopped" => open = {})
    BY DEF NoSocketLost
  <2>2. open \subseteq {serverSock, clientSock} /\ 0 \notin open
    BY <2>1 DEF ChannelInv, Connection, TypeOK, ServerSocket, ClientSockets
  <2>3. mod = "stopped" => serverSock = 0 /\ clientSock = 0
    BY <2>1 DEF ChannelInv, Connection, Lifecycle, TypeOK, Announced, SendPlaces
  <2>4. QED
    BY <2>2, <2>3
<1>2. QED
  BY <1>1, ChannelInvariant, PTL

-----------------------------------------------------------------------------

(* A move between two places where nothing is being sent, with or without  *)
(* a call on the mutex, keeps the senders apart.                           *)
LEMMA QuietMove ==
  ASSUME TypeOK, OneSender, Stream, NEW t \in Threads, NEW from, NEW to \in Places(t), Go(t, from, to),
         from \notin Sending, to \notin Sending,
         owner' = owner \/ lock_listen_mutex(t) \/ unlock_listen_mutex(t),
         UNCHANGED <<mutex, buffer, wire, torn>>
  PROVE  OneSender' /\ Stream'
<1>1. /\ pc[t] = from /\ pc'[t] = to
      /\ \A u \in Threads : u # t => pc'[u] = pc[u]
  BY MoveType
<1>2. Busy' = Busy /\ t \notin Busy
  BY <1>1 DEF Busy
<1>3. OneSender'
  BY <1>2 DEF OneSender, lock_listen_mutex, unlock_listen_mutex
<1>4. \A u \in Threads : pc'[u] \in {"send_1", "send_2"} => pc[u] = pc'[u]
  BY <1>1 DEF Sending
<1>5. \A u \in Threads : pc[u] = "send_2" => pc'[u] = "send_2"
  BY <1>1 DEF Sending
<1>6. Stream'
  <2>1. \A u \in Threads : pc'[u] \in {"send_1", "send_2"} => buffer' = u
    BY <1>4 DEF Stream
  <2>2. \A u \in Threads : pc'[u] = "send_2" => wire' # <<>> /\ wire'[Len(wire')] = <<u, 1>>
    BY <1>4 DEF Stream
  <2>3. torn' \/ wire' = <<>> \/ wire'[Len(wire')][2] = 2 \/ \E u \in Threads : pc'[u] = "send_2"
    BY <1>5 DEF Stream
  <2>4. QED
    BY <2>1, <2>2, <2>3 DEF Stream, MessagesWhole, Whole
<1>7. QED
  BY <1>3, <1>6

(* A thread that is busy is the only one, before and after its own step.   *)
LEMMA BusyMove ==
  ASSUME TypeOK, OneSender, NEW t \in Threads, NEW from \in Sending, NEW to \in Places(t),
         Go(t, from, to), UNCHANGED <<mutex, owner>>
  PROVE  /\ OneSender'
         /\ pc[t] = from /\ pc'[t] = to
         /\ \A u \in Threads : u # t => pc[u] \notin Sending /\ pc'[u] \notin Sending
<1>1. /\ pc[t] = from /\ pc'[t] = to
      /\ \A u \in Threads : u # t => pc'[u] = pc[u]
  BY MoveType
<1>2. t \in Busy /\ Busy' \subseteq Busy
  BY <1>1 DEF Busy
<1>3. \A u \in Threads : u # t => pc[u] \notin Sending
  BY <1>2 DEF OneSender, Busy
<1>4. OneSender'
  BY <1>2 DEF OneSender
<1>5. QED
  BY <1>1, <1>3, <1>4

(* One more send by the only sender goes behind a whole message or behind  *)
(* the first half of its own.                                              *)
LEMMA SendKeepsStream ==
  ASSUME ChannelInv, OneSender, Stream, NEW t \in Threads, ksceNetSend(t)
  PROVE  OneSender' /\ Stream'
<1> USE DEF Places, HookPlaces, ListenerPlaces, SendPlaces, Sending
<1>1. UNCHANGED <<mutex, owner, buffer>>
  BY DEF ksceNetSend, module
<1>2. PICK from \in {"send_1", "send_2"}, to \in {"send_2", "send_unlock", "failed"} : Go(t, from, to)
  BY DEF ksceNetSend
<1>3. /\ OneSender'
      /\ pc[t] = from /\ pc'[t] = to
      /\ \A u \in Threads : u # t => pc[u] \notin Sending /\ pc'[u] \notin Sending
  BY <1>1, <1>2, BusyMove DEF ChannelInv
<1>4. buffer = t
  BY <1>2, <1>3 DEF Stream
<1>5. \/ from = "send_1" /\ to = "send_2" /\ Sent /\ UNCHANGED torn
      \/ from = "send_1" /\ to = "send_unlock" /\ AllSent /\ UNCHANGED torn
      \/ from = "send_2" /\ to = "send_unlock" /\ RestSent /\ UNCHANGED torn
      \/ from = "send_1" /\ to = "failed" /\ UNCHANGED <<wire, torn>>
      \/ from = "send_2" /\ to = "failed" /\ UNCHANGED wire /\ torn' = TRUE
  <2>1. ASSUME NEW f, NEW g, Go(t, f, g) PROVE f = from /\ g = to
    BY <1>3, <2>1 DEF Go, ChannelInv, TypeOK
  <2>2. QED
    BY <2>1 DEF ksceNetSend
<1> DEFINE a == <<t, 1>>
           b == <<t, 2>>
           last == wire[Len(wire)]
<1>6. Half(1) = a /\ Half(2) = b
  BY <1>4 DEF Half
<1>7. \A u \in Threads : u # t => pc'[u] \notin {"send_1", "send_2"} /\ pc[u] # "send_2"
  BY <1>3
<1>8. \A u \in Threads : pc'[u] \in {"send_1", "send_2"} => buffer' = u
  BY <1>1, <1>4, <1>7
<1>9. CASE from = "send_1" /\ to = "send_2" /\ Sent /\ UNCHANGED torn
  <2>0. \A u \in Threads : pc[u] # "send_2"
    BY <1>3, <1>9
  <2>1. wire = <<>> \/ torn \/ wire[Len(wire)][2] = 2
    BY <2>0, Zenon DEF Stream
  <2>2. wire' = <<a>> \/ (wire # <<>> /\ wire' = <<last, a>>)
    BY <1>6, <1>9 DEF Sent
  <2>3. wire' # <<>> /\ wire'[Len(wire')] = a
    <3>1. CASE wire' = <<a>>
      BY <3>1
    <3>2. CASE wire' = <<last, a>>
      BY <3>2
    <3>3. QED
      BY <2>2, <3>1, <3>2
  <2>4. MessagesWhole'
    BY <1>9, <2>1, <2>2 DEF MessagesWhole
  <2>5. QED
    BY <1>3, <1>7, <1>8, <1>9, <2>3, <2>4 DEF Stream
<1>10. CASE to = "send_unlock" /\ UNCHANGED torn /\ (AllSent \/ (from = "send_2" /\ RestSent))
  <2>1. wire' = <<a, b>>
    BY <1>3, <1>6, <1>10 DEF AllSent, RestSent, Stream
  <2>2. MessagesWhole'
    BY <2>1 DEF MessagesWhole, Whole
  <2>3. wire'[Len(wire')][2] = 2
    BY <2>1
  <2>4. QED
    BY <1>3, <1>7, <1>8, <1>10, <2>2, <2>3 DEF Stream
<1>11. CASE to = "failed" /\ UNCHANGED wire /\ ((from = "send_1" /\ UNCHANGED torn) \/ torn' = TRUE)
  <2>1. MessagesWhole'
    BY <1>11 DEF Stream, MessagesWhole, Whole
  <2>2. torn' \/ wire' = <<>> \/ wire'[Len(wire')][2] = 2
    <3>1. CASE from = "send_1" /\ UNCHANGED torn
      <4>1. \A u \in Threads : pc[u] # "send_2"
        BY <1>3, <3>1
      <4>2. QED
        BY <1>11, <3>1, <4>1 DEF Stream
    <3>2. QED
      BY <1>11, <3>1
  <2>3. \A u \in Threads : pc'[u] \notin {"send_1", "send_2"}
    BY <1>3, <1>11
  <2>4. QED
    BY <1>3, <2>1, <2>2, <2>3 DEF Stream
<1>12. QED
  BY <1>3, <1>5, <1>9, <1>10, <1>11

(* send_message_to_client keeps the senders apart and the stream in order. *)
LEMMA SendKeepsMessages ==
  ASSUME ChannelInv, OneSender, Stream, NEW t \in Threads, send_message_to_client(t), ~unguarded'
  PROVE  OneSender' /\ Stream'
<1> USE DEF Places, HookPlaces, ListenerPlaces, SendPlaces, Sending, Back
<1>0. TypeOK
  BY DEF ChannelInv
<1>1. CASE size_test(t)
  BY <1>0, <1>1, QuietMove DEF size_test, Call, module, sending
<1>2. CASE Lock(t, "send", "send_test")
  BY <1>0, <1>2, QuietMove DEF Lock, module, sending
<1>3. CASE Unlock(t, "send_unlock", Back(t))
  BY <1>0, <1>3, QuietMove DEF Unlock, module, sending
<1>4. CASE send_test(t) /\ connInitialized # 1
  BY <1>0, <1>4, QuietMove DEF send_test, module
<1>5. CASE send_test(t) /\ connInitialized = 1
  <2>1. Go(t, "send_test", "clear") /\ UNCHANGED <<mutex, owner, buffer, wire, torn>>
    BY <1>5 DEF send_test, module
  <2>2. t \in owner
    BY <1>5 DEF send_test
  <2>3. /\ pc[t] = "send_test" /\ pc'[t] = "clear"
        /\ \A u \in Threads : u # t => pc'[u] = pc[u]
    BY <1>0, <2>1, MoveType
  <2>4. Busy \subseteq {t} /\ Busy' \subseteq {t}
    BY <2>2, <2>3 DEF OneSender, Busy
  <2>5. OneSender'
    BY <2>1, <2>2, <2>4 DEF OneSender
  <2>6. \A u \in Threads : pc'[u] \in {"send_1", "send_2"} => pc[u] = pc'[u]
    BY <2>3
  <2>7. \A u \in Threads : pc[u] = "send_2" => pc'[u] = "send_2"
    BY <2>3
  <2>8. Stream'
    BY <2>1, <2>6, <2>7 DEF Stream, MessagesWhole, Whole
  <2>9. QED
    BY <2>5, <2>8
<1>6. CASE Fill(t, "clear", "copy", Zeros) \/ Fill(t, "copy", "send_1", t)
  <2>1. PICK from \in {"clear", "copy"}, to \in {"copy", "send_1"} :
          /\ Go(t, from, to) /\ UNCHANGED <<mutex, owner, wire, torn>>
          /\ to = "send_1" => buffer' = t
    BY <1>6 DEF Fill, module
  <2>2. /\ OneSender'
        /\ pc[t] = from /\ pc'[t] = to
        /\ \A u \in Threads : u # t => pc[u] \notin Sending /\ pc'[u] \notin Sending
    BY <1>0, <2>1, BusyMove
  <2>3. Stream'
    BY <2>1, <2>2 DEF Stream, MessagesWhole, Whole
  <2>4. QED
    BY <2>2, <2>3
<1>7. CASE ksceNetSend(t)
  BY <1>7, SendKeepsStream
<1>8. CASE send_failed(t)
  BY <1>0, <1>8, QuietMove DEF send_failed, module, sending
<1>9. QED
  BY <1>1, <1>2, <1>3, <1>4, <1>5, <1>6, <1>7, <1>8 DEF send_message_to_client, send_message

(* The listener's own steps keep them: it accepts a client only while      *)
(* nobody can be sending.                                                  *)
LEMMA ListenerKeepsMessages ==
  ASSUME ChannelInv, OneSender, Stream, init_net_internal \/ accept_single_connection
  PROVE  OneSender' /\ Stream'
<1> USE DEF Places, ListenerPlaces, SendPlaces, Sending
<1>0. TypeOK /\ Listener \in Threads
  BY DEF ChannelInv, Threads
<1>1. CASE init_net_internal
  BY <1>0, <1>1, QuietMove DEF init_net_internal, module, sending
<1>2. CASE poll_test
  BY <1>0, <1>2, QuietMove DEF poll_test, module, sending
<1>3. CASE Lock(Listener, "poll", "poll_test") \/ Lock(Listener, "accepted", "set")
  BY <1>0, <1>3, QuietMove DEF Lock, module, sending
<1>4. CASE \/ Unlock(Listener, "delay", "poll") \/ Unlock(Listener, "set_unlock", "size")
           \/ Unlock(Listener, "poll_unlock", "accept")
  BY <1>0, <1>4, QuietMove DEF Unlock, module, sending
<1>5. CASE set_initialized
  BY <1>0, <1>5, QuietMove DEF set_initialized, module, sending
<1>6. CASE accept
  <2>1. PICK to \in {"ended", "accepted"} : Go(Listener, "accept", to)
    BY <1>6 DEF accept
  <2>2. UNCHANGED <<mutex, owner, buffer>> /\ (UNCHANGED <<wire, torn>> \/ wire' = <<>>)
    BY <1>6 DEF accept, module
  <2>3. /\ pc[Listener] = "accept" /\ pc'[Listener] = to
        /\ \A u \in Threads : u # Listener => pc'[u] = pc[u]
    BY <1>0, <2>1, MoveType
  <2>4. \A u \in Threads : pc[u] \notin Sending
    BY <1>0, <2>3 DEF ChannelInv, Connection, Announced
  <2>5. \A u \in Threads : pc'[u] \notin Sending
    BY <2>3, <2>4
  <2>6. Busy' = {}
    BY <2>5 DEF Busy
  <2>7. OneSender'
    BY <2>2, <2>6 DEF OneSender
  <2>8. Stream'
    BY <2>2, <2>4, <2>5 DEF Stream, MessagesWhole, Whole
  <2>9. QED
    BY <2>7, <2>8
<1>7. QED
  BY <1>1, <1>2, <1>3, <1>4, <1>5, <1>6 DEF accept_single_connection

(* So do init_net and deinit_net: the mutex is created before anybody can  *)
(* be sending, and once it is deleted nobody can start to send guarded.    *)
LEMMA ModuleKeepsMessages ==
  ASSUME ChannelInv, OneSender, Stream, init_net \/ deinit_net
  PROVE  OneSender' /\ Stream'
<1> USE DEF Places, ListenerPlaces, SendPlaces, Sending
<1>0. TypeOK /\ Listener \in Threads
  BY DEF ChannelInv, Threads
<1>1. CASE start_listen_thread /\ pc' # pc
  BY <1>0, <1>1, QuietMove DEF start_listen_thread, sending
<1>2. CASE init_listen_mutex \/ init_listen_thread \/ deinit_net \/ (start_listen_thread /\ pc' = pc)
  <2>1. UNCHANGED <<pc, buffer, wire, torn>>
    BY <1>2 DEF start_listen_thread, init_listen_mutex, init_listen_thread, deinit_net, deinit_listen_mutex,
       deinit_listen_thread, deinit_client_sock, close_server_sock, sending
  <2>2. Busy' = Busy /\ Stream'
    BY <2>1 DEF Busy, Stream, MessagesWhole, Whole
  <2>3. CASE init_listen_mutex
    <3>1. \A u \in Threads : pc[u] \notin Sending
      BY <1>0, <2>3 DEF init_listen_mutex, Module, ChannelInv, Connection, Lifecycle, Announced
    <3>2. Busy = {}
      BY <3>1 DEF Busy
    <3>3. mutex' \in {"created", "failed"} /\ UNCHANGED owner /\ mod = "init_mutex"
      BY <2>3 DEF init_listen_mutex, Module
    <3>4. owner = {}
      BY <3>3 DEF ChannelInv, Lifecycle, OneSender
    <3>5. QED
      BY <2>2, <3>2, <3>3, <3>4 DEF OneSender
  <2>4. CASE deinit_listen_mutex
    BY <2>2, <2>4 DEF deinit_listen_mutex, OneSender
  <2>5. CASE ~init_listen_mutex /\ ~deinit_listen_mutex
    <3>1. UNCHANGED <<mutex, owner>>
      BY <1>2, <2>5 DEF start_listen_thread, init_listen_thread, deinit_net, deinit_listen_thread,
         deinit_client_sock, close_server_sock
    <3>2. QED
      BY <2>2, <3>1 DEF OneSender
  <2>6. QED
    BY <2>3, <2>4, <2>5
<1>3. QED
  BY <1>1, <1>2 DEF init_net

(* The messages' invariant holds as long as every sender had the mutex. *)
LEMMA MessageInvariant == Spec => []MessageInv
<1>1. Init => MessageInv
  <2>1. SUFFICES ASSUME Init PROVE OneSender /\ Stream
    BY DEF MessageInv
  <2>2. \A t \in Threads : pc[t] \notin Sending
    BY <2>1 DEF Init, Sending
  <2>3. Busy = {}
    BY <2>2 DEF Busy
  <2>4. OneSender
    BY <2>1, <2>3 DEF Init, OneSender
  <2>5. Stream
    BY <2>1, <2>2 DEF Init, Stream, MessagesWhole, Sending
  <2>6. QED
    BY <2>4, <2>5
<1>2. ChannelInv /\ MessageInv /\ [Next]_vars => MessageInv'
  <2>1. SUFFICES ASSUME ChannelInv, MessageInv, [Next]_vars, ~unguarded'
                 PROVE  OneSender' /\ Stream'
    BY DEF MessageInv
  <2>2. ~unguarded
    BY <2>1 DEF Next, vars, ConnListenThread, accept_single_connection, send_message_to_client,
       send_message, size_test, Lock, Unlock, Call, send_test, Fill, ksceNetSend, send_failed,
       init_net_internal, poll_test, accept, set_initialized, HookSends, Disconnect, init_net,
       init_listen_mutex, init_listen_thread, start_listen_thread, deinit_net, deinit_listen_mutex,
       deinit_listen_thread, deinit_client_sock, close_server_sock, sending
  <2>3. OneSender /\ Stream /\ TypeOK
    BY <2>1, <2>2 DEF MessageInv, ChannelInv
  <2>4. CASE UNCHANGED vars \/ Disconnect
    <3>1. UNCHANGED <<pc, mutex, owner, buffer, wire, torn>>
      BY <2>4 DEF vars, Disconnect, module
    <3>2. Busy' = Busy
      BY <3>1 DEF Busy
    <3>3. OneSender'
      BY <2>3, <3>1, <3>2 DEF OneSender
    <3>4. Stream'
      BY <2>3, <3>1 DEF Stream, MessagesWhole, Whole
    <3>5. QED
      BY <3>3, <3>4
  <2>5. CASE init_net \/ deinit_net
    BY <2>1, <2>3, <2>5, ModuleKeepsMessages
  <2>6. CASE init_net_internal \/ accept_single_connection
    BY <2>1, <2>3, <2>6, ListenerKeepsMessages
  <2>7. ASSUME NEW t \in Threads, send_message_to_client(t)
        PROVE  OneSender' /\ Stream'
    BY <2>1, <2>3, <2>7, SendKeepsMessages
  <2>8. ASSUME NEW t \in Hooks, HookSends(t)
        PROVE  OneSender' /\ Stream'
    <3>1. t \in Threads /\ t # Listener
      BY ListenerAssumption DEF Threads
    <3>2. QED
      BY <2>3, <2>8, <3>1, QuietMove
         DEF HookSends, Call, module, sending, Places, HookPlaces, SendPlaces, Sending
  <2>9. QED
    BY <2>1, <2>4, <2>5, <2>6, <2>7, <2>8 DEF Next, ConnListenThread, Threads
<1>3. QED
  BY <1>1, <1>2, ChannelInvariant, PTL DEF Spec

(* No message gets into another as long as every thread that found a       *)
(* client connected had the mutex (net.c, send_message), whatever is       *)
(* deleted, accepted or lost and whichever sends fail in between, for any  *)
(* number of hook threads: what follows half a message that is not its     *)
(* rest is the next message, after a send that failed half way.            *)
THEOREM ChannelMessagesWhole == Spec => []GuardedMessagesWhole
<1>1. MessageInv => GuardedMessagesWhole
  BY DEF MessageInv, Stream, GuardedMessagesWhole
<1>2. QED
  BY <1>1, MessageInvariant, PTL

(* The connection flag is never cleared: the only assignment that would    *)
(* clear it is behind a result that send_message does not return.          *)
LEMMA FlagStays ==
  ASSUME ChannelInv, connInitialized = 1, [Next]_vars
  PROVE  connInitialized' = 1
  BY DEF Next, vars, ConnListenThread, accept_single_connection, send_message_to_client,
     send_message, size_test, Lock, Unlock, Call, send_test, Fill, ksceNetSend, send_failed,
     SendFailureResult, init_net_internal, poll_test, accept, set_initialized, HookSends,
     Disconnect, init_net, init_listen_mutex, init_listen_thread, start_listen_thread, deinit_net,
     deinit_listen_mutex, deinit_listen_thread, deinit_client_sock, close_server_sock

(* module_stop does not return once a client was accepted: deinit_net      *)
(* joins a listener that has no way to its end any more.                   *)
THEOREM ChannelClientKeepsModule == Spec => ClientKeepsModule
<1> DEFINE Connected == connInitialized = 1
           Running == mod # "stopped"
<1>1. ChannelInv /\ Connected => Running
  BY DEF ChannelInv, Connection, Lifecycle, Announced, SendPlaces
<1>2. ChannelInv /\ Connected /\ [Next]_vars => Connected'
  BY FlagStays
<1>3. ClientKeepsModule <=> [](Connected => []Running)
  BY DEF ClientKeepsModule
<1> HIDE DEF Connected, Running
<1>4. QED
  BY <1>1, <1>2, <1>3, ChannelInvariant, PTL DEF Spec
=============================================================================

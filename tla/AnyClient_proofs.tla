--------------------------- MODULE AnyClient_proofs ---------------------------
(* Proofs about the server and the driver under clients that send any      *)
(* requests in any order, for every set of clients, of memory blocks and   *)
(* of geometries, every number of requests, faults and starts.             *)
EXTENDS AnyClient, Server_proofs

-----------------------------------------------------------------------------
(* The inductive invariant *)

(* A whole request of a client whose last init has asked for g sectors. *)
WholeRequest(r, g) ==
    /\ r \in Seq(Int) /\ Len(r) = 1 + Args(r[1], g)
    /\ r[1] = INIT /\ r[2] = SectorSize => r[3] = g
    /\ r[1] \in ClusterCommands => g > 0

(* What follows the command of a request. *)
Body(r) == SubSeq(r, 2, Len(r))

(* The session ends before another command is read. *)
Closing == pc = "close" \/ (pc = "send" /\ after = "close")

(* An init that the server will take or refuse has not been taken yet. *)
Pending(c) == link[c].c2s # <<>> /\ request[c][1] = INIT /\ request[c][2] = SectorSize

Asked(c) == request[c] = <<>> \/ WholeRequest(request[c], geometry[c])

(* The stream to the server holds a whole request or nothing, but while a  *)
(* command is handled and once the session has been given up.              *)
Queue(c) == \/ link[c].c2s \in {<<>>, request[c]}
            \/ link[c].srv = "open" /\ (pc = "handle" \/ Closing)
            \/ link[c].srv = "closed"

(* The command being handled is the last request's, the rest of which is   *)
(* in the stream; after a command without a rest the client may already    *)
(* have sent another one.                                                  *)
Hand(c) ==
    link[c].srv = "open" /\ pc = "handle" =>
        /\ \/ Args(cmd, 1) = 0 /\ link[c].c2s \in {<<>>, request[c]}
           \/ /\ Args(cmd, 1) # 0
              /\ request[c] # <<>> /\ request[c][1] = cmd /\ link[c].c2s = Body(request[c])
           \/ link[c].rst
        /\ cmd \in ClusterCommands => upool.bps = SectorSize /\ upool.spc > 0

(* The server has the geometry that the client counts with. *)
Agreed(c) ==
    link[c].srv = "open" /\ ~link[c].rst /\ geometry[c] > 0 /\ ~Closing /\ ~Pending(c)
        => upool.bps = SectorSize /\ upool.spc = geometry[c]

Waiting(c) == link[c].srv = "backlog" /\ ~link[c].rst /\ geometry[c] > 0 => Pending(c)

Emptied(c) == link[c].rst => link[c].c2s = <<>>

Stream(c) == Asked(c) /\ Queue(c) /\ Hand(c) /\ Agreed(c) /\ Waiting(c) /\ Emptied(c)

ClientType == geometry \in [Clients -> Int] /\ request \in [Clients -> Seq(Int)]

Inv == ServerInv /\ ClientType /\ \A c \in Clients : Stream(c)

-----------------------------------------------------------------------------
(* Requests *)

(* How many words follow a command, by numbers. *)
LEMMA ArgsByNumber ==
  ASSUME NEW n \in Int, NEW size \in Int
  PROVE  Args(n, size) = IF n = 2 THEN 2
                         ELSE IF n \in {4, 5, 8, 9, 12, 13} THEN 1
                         ELSE IF n \in {6, 10, 14} THEN 2
                         ELSE IF n \in {7, 11, 15} THEN 1 + size ELSE 0
<1>1. n \in SectorReads \cup ClusterReads <=> n \in {4, 5, 8, 9, 12, 13}
  BY CommandNumbers
<1>2. QED
  BY <1>1, CommandNumbers DEF Args, INIT, SectorSize

(* A command has a rest, whatever the geometry, or has none. *)
LEMMA ArgsNone ==
  ASSUME NEW n \in Int, NEW g \in Int, Args(n, 1) = 0
  PROVE  Args(n, g) = 0 /\ n # INIT
<1>1. n \notin {2, 4, 5, 8, 9, 12, 13, 6, 10, 14, 7, 11, 15}
  BY ArgsByNumber
<1>2. QED
  BY <1>1, ArgsByNumber DEF INIT

(* The words of a request after its command.                               *)
LEMMA BodyProperties ==
  ASSUME NEW r \in Seq(Int), r # <<>>
  PROVE  /\ Len(r) \in Nat \ {0} /\ Len(Body(r)) = Len(r) - 1
         /\ \A k \in 1 .. Len(r) - 1 : Body(r)[k] = r[k + 1]
         /\ Len(r) = 1 => Body(r) = <<>>
<1>1. Len(r) \in Nat \ {0}
  BY EmptySeq
<1>2. PICK n \in Nat : n = 1 /\ n <= Len(r)
  BY <1>1
<1>3. /\ Len(SubSeq(r, n + 1, Len(r))) = Len(r) - n
      /\ \A k \in 1 .. Len(r) - n : SubSeq(r, n + 1, Len(r))[k] = r[n + k]
      /\ Len(r) = n => SubSeq(r, n + 1, Len(r)) = <<>>
  BY <1>2, RestProperties, Zenon
<1>4. QED
  BY <1>1, <1>2, <1>3 DEF Body

(* The geometry of a client whose geometry was g once it has sent r. *)
GeometryAfter(r, g) == IF r[1] = INIT /\ r[2] = SectorSize THEN r[3] ELSE g

(* A request of another command than init is whole if it has its words. *)
LEMMA RequestByNumber ==
  ASSUME NEW g \in Int, NEW r \in Seq(Int), NEW n \in Int, n # INIT, r[1] = n,
         Len(r) = 1 + Args(n, g), n \in ClusterCommands => g > 0
  PROVE  WholeRequest(r, GeometryAfter(r, g))
  BY DEF WholeRequest, GeometryAfter

(* Each of the three sets a client picks its requests from has whole       *)
(* requests only, whatever geometry its last init asked for.               *)
LEMMA ShortRequestsWhole ==
  ASSUME NEW g \in Int, NEW r \in SmallRequests
  PROVE  r # <<>> /\ r \in Seq(Int) /\ WholeRequest(r, GeometryAfter(r, g))
<1>1. ASSUME NEW n \in {0, 1, 3, 16}, r = <<n>>
      PROVE  r \in Seq(Int) /\ r # <<>> /\ WholeRequest(r, GeometryAfter(r, g))
  <2>1. n \in Int /\ n # INIT /\ n \notin ClusterCommands
    BY CommandNumbers DEF INIT
  <2>2. Args(n, g) = 0
    BY <2>1, ArgsByNumber
  <2>3. r \in Seq(Int) /\ Len(r) = 1 /\ r[1] = n /\ r # <<>>
    BY <1>1, <2>1, Tuples
  <2>4. Len(r) = 1 + Args(n, g)
    BY <2>2, <2>3
  <2>5. QED
    BY <2>1, <2>3, <2>4, RequestByNumber, Zenon
<1>2. ASSUME NEW n \in {4, 8, 12}, r = <<n, Arg>>
      PROVE  r \in Seq(Int) /\ r # <<>> /\ WholeRequest(r, GeometryAfter(r, g))
  <2>1. n \in Int /\ n # INIT /\ n \notin ClusterCommands
    BY CommandNumbers DEF INIT
  <2>2. Args(n, g) = 1
    BY <2>1, ArgsByNumber
  <2>3. r \in Seq(Int) /\ Len(r) = 2 /\ r[1] = n /\ r # <<>>
    BY <1>2, <2>1, Tuples DEF Arg
  <2>4. Len(r) = 1 + Args(n, g)
    BY <2>2, <2>3
  <2>5. QED
    BY <2>1, <2>3, <2>4, RequestByNumber, Zenon
<1>3. ASSUME NEW n \in {6, 10, 14}, r = <<n, Arg, Payload>>
      PROVE  r \in Seq(Int) /\ r # <<>> /\ WholeRequest(r, GeometryAfter(r, g))
  <2>1. n \in Int /\ n # INIT /\ n \notin ClusterCommands
    BY CommandNumbers DEF INIT
  <2>2. Args(n, g) = 2
    BY <2>1, ArgsByNumber
  <2>3. r \in Seq(Int) /\ Len(r) = 3 /\ r[1] = n /\ r # <<>>
    BY <1>3, <2>1, Tuples DEF Arg, Payload
  <2>4. Len(r) = 1 + Args(n, g)
    BY <2>2, <2>3
  <2>5. QED
    BY <2>1, <2>3, <2>4, RequestByNumber, Zenon
<1>4. ASSUME NEW d \in Families
      PROVE  READ_SECTOR[d] \in {4, 8, 12} /\ WRITE_SECTOR[d] \in {6, 10, 14}
  BY AnyClientAssumption, CommandNumbers
<1>5. \/ \E n \in {0, 1, 3, 16} : r = <<n>>
      \/ \E d \in Families : r = <<READ_SECTOR[d], Arg>>
      \/ \E d \in Families : r = <<WRITE_SECTOR[d], Arg, Payload>>
  BY DEF SmallRequests, PING, TERM, DEINIT, UnknownCommand
<1>6. QED
  BY <1>1, <1>2, <1>3, <1>4, <1>5

(* The init requests are whole, whatever geometry they ask for, ... *)
LEMMA InitRequestsWhole ==
  ASSUME NEW g \in Int, NEW r \in InitRequests
  PROVE  r # <<>> /\ r \in Seq(Int) /\ WholeRequest(r, GeometryAfter(r, g))
<1>1. PICK bps \in {0, SectorSize}, spc \in Geometries : r = <<INIT, bps, spc>>
  BY DEF InitRequests
<1>2. bps \in Int /\ spc \in Int /\ INIT \in Int
  BY GeometriesAssumption DEF SectorSize, INIT
<1>3. r \in Seq(Int) /\ Len(r) = 3 /\ r[1] = INIT /\ r[2] = bps /\ r[3] = spc
  BY <1>1, <1>2, Tuples
<1>4. \A size : Args(INIT, size) = 2
  BY DEF Args
<1>5. INIT \notin ClusterCommands
  BY CommandNumbers DEF INIT
<1>6. WholeRequest(r, GeometryAfter(r, g))
  BY <1>3, <1>4, <1>5 DEF WholeRequest, GeometryAfter
<1>7. QED
  BY <1>3, <1>6

(* ... and so are those for clusters, in the geometry they count with. *)
LEMMA ClusterRequestsWhole ==
  ASSUME NEW g \in Int, g > 0, NEW r \in ClusterRequests(g)
  PROVE  r # <<>> /\ r \in Seq(Int) /\ WholeRequest(r, GeometryAfter(r, g))
<1>1. ASSUME NEW n \in {5, 9, 13}, r = <<n, Arg>>
      PROVE  r \in Seq(Int) /\ r # <<>> /\ WholeRequest(r, GeometryAfter(r, g))
  <2>1. n \in Int /\ n # INIT
    BY DEF INIT
  <2>2. Args(n, g) = 1
    BY <2>1, ArgsByNumber
  <2>3. r \in Seq(Int) /\ Len(r) = 2 /\ r[1] = n /\ r # <<>>
    BY <1>1, <2>1, Tuples DEF Arg
  <2>4. Len(r) = 1 + Args(n, g)
    BY <2>2, <2>3
  <2>5. QED
    BY <2>1, <2>3, <2>4, RequestByNumber, Zenon
<1>2. ASSUME NEW n \in {7, 11, 15}, r = <<n, Arg>> \o [k \in 1 .. g |-> Payload]
      PROVE  r \in Seq(Int) /\ r # <<>> /\ WholeRequest(r, GeometryAfter(r, g))
  <2>1. n \in Int /\ n # INIT
    BY DEF INIT
  <2>2. Args(n, g) = 1 + g
    BY <2>1, ArgsByNumber
  <2>3. PICK h : h = <<n, Arg>>
    OBVIOUS
  <2>4. h \in Seq(Int) /\ Len(h) = 2 /\ h[1] = n
    BY <2>1, <2>3, Tuples DEF Arg
  <2>5. PICK t : t = [k \in 1 .. g |-> Payload]
    OBVIOUS
  <2>6. t \in [1 .. g -> Int]
    BY <2>5 DEF Payload
  <2>7. t \in Seq(Int) /\ Len(t) = g
    BY <2>6
  <2>8. r = h \o t
    BY <1>2, <2>3, <2>5
  <2>9. /\ r \in Seq(Int) /\ Len(r) = Len(h) + Len(t)
        /\ \A i \in 1 .. Len(h) + Len(t) : r[i] = IF i <= Len(h) THEN h[i] ELSE t[i - Len(h)]
    BY <2>4, <2>7, <2>8, ConcatProperties, Zenon
  <2>10. Len(r) = 1 + Args(n, g) /\ r[1] = n /\ r # <<>>
    BY <2>2, <2>4, <2>7, <2>9
  <2>11. QED
    BY <2>1, <2>9, <2>10, RequestByNumber, Zenon
<1>3. ASSUME NEW d \in Families
      PROVE  READ_CLUSTER[d] \in {5, 9, 13} /\ WRITE_CLUSTER[d] \in {7, 11, 15}
  BY AnyClientAssumption, CommandNumbers
<1>4. \/ \E d \in Families : r = <<READ_CLUSTER[d], Arg>>
      \/ \E d \in Families : r = <<WRITE_CLUSTER[d], Arg>> \o [k \in 1 .. g |-> Payload]
  BY DEF ClusterRequests
<1>5. QED
  BY <1>1, <1>2, <1>3, <1>4

-----------------------------------------------------------------------------
(* Steps *)

(* Whatever the session does, a connection outside of it that is left      *)
(* alone keeps its stream.                                                 *)
LEMMA IdleStream ==
  ASSUME NEW c \in Clients, Stream(c), UNCHANGED cvars, link[c].srv # "open",
         link'[c].srv = link[c].srv, link'[c].rst = link[c].rst, link'[c].c2s = link[c].c2s
  PROVE  Stream(c)'
  BY DEF cvars, Stream, Asked, Queue, Hand, Agreed, Waiting, Emptied, Pending

(* The size of a cluster write is known when it is handled. *)
LEMMA InvSizeKnown ==
  ASSUME Inv
  PROVE  SizeKnown
<1> SUFFICES ASSUME pc = "handle", cmd \in ClusterWrites
             PROVE  UPool!ClusterSize \in Nat
  BY DEF SizeKnown
<1>1. PICK c \in Clients : link[c].srv = "open"
  BY DEF Inv, ServerInv, Sockets, Session
<1>2. upool.bps = SectorSize /\ upool.spc > 0
  BY <1>1 DEF Inv, Stream, Hand, ClusterCommands
<1>3. upool.spc \in Int
  BY DEF Inv, ServerInv, UserInv, UPool!PoolType
<1>4. QED
  BY <1>2, <1>3 DEF UPool!ClusterSize, SectorSize

(* Starting, ending, accepting and closing a session. *)
LEMMA ProcessStream ==
  ASSUME Inv, UNCHANGED cvars,
         init_net \/ deinit_net \/ exit \/ kill \/ launch \/ accept \/ close_client,
         NEW c \in Clients
  PROVE  Stream(c)'
<1>1. PICK S : <<>> \in S /\ link \in Conns(S)
  BY DEF Inv, ServerInv, LinkShape
<1>2. Stream(c)
  BY DEF Inv
<1>3. ASSUME link[c].srv # "open", link'[c] = link[c]
      PROVE  Stream(c)'
  BY <1>2, <1>3, IdleStream
<1>4. pc \notin Session => link[c].srv # "open"
  BY DEF Inv, ServerInv, Sockets
<1>5. CASE init_net \/ launch
  BY <1>3, <1>4, <1>5 DEF init_net, launch, Session
<1>6. ASSUME link'[c].srv = "closed", link'[c].rst => link'[c].c2s = <<>>
      PROVE  Stream(c)'
  BY <1>2, <1>6 DEF cvars, Stream, Asked, Queue, Hand, Agreed, Waiting, Emptied
<1>7. CASE deinit_net
  <2>1. \/ link'[c] = link[c]
        \/ link'[c].srv = "closed" /\ link'[c].rst /\ link'[c].c2s = <<>>
    BY <1>1, <1>7, CloseListenerLink DEF deinit_net
  <2>2. link[c].srv # "open"
    BY <1>4, <1>7 DEF deinit_net, Session
  <2>3. QED
    BY <1>3, <1>6, <2>1, <2>2
<1>8. CASE exit \/ kill
  <2>1. /\ link'[c].srv \in {"none", "closed"} /\ link'[c].c2s \in {link[c].c2s, <<>>}
        /\ link'[c].srv = "none" => link'[c] = link[c]
        /\ link'[c].rst => link[c].rst \/ link'[c].c2s = <<>>
    BY <1>1, <1>8, CloseAllLink DEF exit, kill, ProcessEnds
  <2>2. CASE link'[c].srv = "none"
    <3>1. link'[c] = link[c] /\ link[c].srv # "open"
      BY <2>1, <2>2
    <3>2. QED
      BY <1>3, <3>1
  <2>3. CASE link'[c].srv = "closed"
    BY <1>2, <1>6, <2>1, <2>3 DEF Stream, Emptied
  <2>4. QED
    BY <2>1, <2>2, <2>3
<1>9. CASE accept
  <2>1. link[c].srv # "open"
    BY <1>4, <1>9 DEF accept, Session
  <2>2. CASE UNCHANGED link
    BY <1>3, <2>1, <2>2
  <2>3. ASSUME NEW d \in Clients, link[d].srv = "backlog", Link!Accept(d), pc' = "recv"
        PROVE  Stream(c)'
    <3>1. CASE c # d
      <4>1. link'[c] = link[c]
        BY <1>1, <2>3, <3>1, AcceptLink
      <4>2. QED
        BY <1>3, <2>1, <4>1
    <3>2. CASE c = d
      <4>1. link'[c].srv = "open" /\ link'[c].rst = link[c].rst /\ link'[c].c2s = link[c].c2s
        BY <1>1, <2>3, <3>2, AcceptLink
      <4>2. link[c].srv = "backlog"
        BY <2>3, <3>2
      <4>3. Pending(c)' = Pending(c)
        BY <4>1 DEF Pending, cvars
      <4>4. Queue(c)' /\ Hand(c)' /\ Waiting(c)'
        BY <1>2, <2>3, <4>1, <4>2 DEF Stream, Queue, Hand, Waiting, cvars
      <4>5. Agreed(c)'
        BY <1>2, <4>1, <4>2, <4>3 DEF Stream, Agreed, Waiting, cvars
      <4>6. Asked(c)' /\ Emptied(c)'
        BY <1>2, <4>1 DEF Stream, Asked, Emptied, cvars
      <4>7. QED
        BY <4>4, <4>5, <4>6 DEF Stream
    <3>3. QED
      BY <3>1, <3>2
  <2>4. QED
    BY <1>9, <2>2, <2>3 DEF accept
<1>10. CASE close_client
  <2>1. PICK d \in Clients : d = cli_sock /\ \A e \in Clients \ {d} : link[e].srv # "open"
    BY <1>10 DEF close_client, Inv, ServerInv, Sockets, Session
  <2>2. Link!SrvClose(d)
    BY <1>10, <2>1 DEF close_client
  <2>3. CASE c # d
    <3>1. link'[c] = link[c]
      BY <1>1, <2>2, <2>3, SrvCloseLink
    <3>2. QED
      BY <1>3, <2>1, <2>3, <3>1
  <2>4. CASE c = d
    <3>1. /\ link'[c].srv = "closed" /\ link'[c].rst = link[c].rst
          /\ link'[c].c2s \in {link[c].c2s, <<>>}
      BY <1>1, <2>2, <2>4, SrvCloseLink
    <3>2. QED
      BY <1>2, <1>6, <3>1 DEF Stream, Emptied
  <2>5. QED
    BY <2>3, <2>4
<1>11. QED
  BY <1>5, <1>7, <1>8, <1>9, <1>10

(* While a session is served the other connections are not open. *)
LEMMA OneSession ==
  ASSUME Inv, pc \in Session
  PROVE  /\ cli_sock \in Clients /\ link[cli_sock].srv = "open"
         /\ \A e \in Clients \ {cli_sock} : link[e].srv # "open"
  BY DEF Inv, ServerInv, Sockets

(* Sending leaves the stream to the server; a step that gives the session  *)
(* up leaves it to be dropped.                                             *)
LEMMA SendStream ==
  ASSUME Inv, UNCHANGED cvars, send, NEW c \in Clients
  PROVE  Stream(c)'
<1>1. PICK S : <<>> \in S /\ link \in Conns(S)
  BY DEF Inv, ServerInv, LinkShape
<1>2. Stream(c)
  BY DEF Inv
<1>3. PICK d \in Clients : d = cli_sock
  BY OneSession DEF send, Session
<1>4. /\ pc = "send" /\ pc' \in {"send", "close", after} /\ UNCHANGED <<after, upool>>
      /\ after \in {"recv", "close"}
  BY DEF send, Inv, ServerInv, Sockets
<1>5. link'[c].srv = link[c].srv /\ link'[c].rst = link[c].rst /\ link'[c].c2s = link[c].c2s
  <2>1. CASE UNCHANGED link
    BY <2>1
  <2>2. ASSUME NEW w, Link!SrvSend(d, w)
        PROVE  link'[c].srv = link[c].srv /\ link'[c].rst = link[c].rst /\ link'[c].c2s = link[c].c2s
    BY <1>1, <2>2, SrvSendLink
  <2>3. QED
    BY <1>3, <2>1, <2>2 DEF send
<1>6. Closing => Closing'
  BY <1>4 DEF Closing
<1>7. Pending(c)' = Pending(c)
  BY <1>5 DEF Pending, cvars
<1>8. Queue(c)' /\ Hand(c)'
  BY <1>2, <1>4, <1>5, <1>6 DEF Stream, Queue, Hand, cvars
<1>9. Agreed(c)' /\ Waiting(c)' /\ Asked(c)' /\ Emptied(c)'
  BY <1>2, <1>4, <1>5, <1>6, <1>7 DEF Stream, Agreed, Waiting, Asked, Emptied, cvars
<1>10. QED
  BY <1>8, <1>9 DEF Stream

(* A handler that gives up, or a read that fails, closes the session: no   *)
(* more is said of what is left in its stream.                             *)
LEMMA GivenUpStream ==
  ASSUME Inv, UNCHANGED <<cvars, link>>, pc \in Session, Closing', pc' # "handle",
         NEW c \in Clients
  PROVE  Stream(c)'
<1>1. Stream(c)
  BY DEF Inv
<1>2. CASE link[c].srv # "open"
  BY <1>1, <1>2, IdleStream
<1>3. CASE link[c].srv = "open"
  BY <1>1, <1>3 DEF Stream, Asked, Queue, Hand, Agreed, Waiting, Emptied, cvars
<1>4. QED
  BY <1>2, <1>3

(* The command word is the first of a whole request. *)
LEMMA ReceiveStream ==
  ASSUME Inv, UNCHANGED cvars, receive_command, NEW c \in Clients
  PROVE  Stream(c)'
<1>1. PICK S : <<>> \in S /\ link \in Conns(S)
  BY DEF Inv, ServerInv, LinkShape
<1>2. Stream(c)
  BY DEF Inv
<1>3. pc = "recv" /\ UNCHANGED upool
  BY DEF receive_command
<1>4. PICK d \in Clients : /\ d = cli_sock /\ link[d].srv = "open"
                           /\ \A e \in Clients \ {d} : link[e].srv # "open"
  BY <1>3, OneSession DEF Session
<1>5. CASE pc' = "close" /\ UNCHANGED link
  BY <1>3, <1>5, GivenUpStream DEF Closing, Session
<1>6. CASE Inbox # <<>> /\ cmd' = Head(Inbox) /\ Link!SrvTake(cli_sock, 1) /\ pc' = "handle"
  <2>1. PICK q \in Seq(Int) : q = link[d].c2s /\ q # <<>>
    BY <1>1, <1>4, <1>6 DEF Inbox, Conns, Conn
  <2>2. Len(q) \in Nat \ {0}
    BY <2>1, EmptySeq
  <2>3. /\ link' \in Conns(S)
        /\ \A e \in Clients \ {d} : link'[e] = link[e]
        /\ link'[d].srv = link[d].srv /\ link'[d].rst = link[d].rst
        /\ link'[d].c2s = SubSeq(q, 2, Len(q))
    BY <1>1, <1>4, <1>6, <2>1, <2>2, SrvTakeLink
  <2>4. CASE c # d
    BY <1>2, <1>4, <2>3, <2>4, IdleStream
  <2>5. CASE c = d
    <3>1. q = request[c] /\ ~link[c].rst
      BY <1>2, <1>3, <1>4, <2>1, <2>5 DEF Stream, Queue, Emptied, Closing
    <3>2. WholeRequest(q, geometry[c]) /\ geometry[c] \in Int
      BY <1>2, <2>1, <3>1 DEF Stream, Asked, Inv, ClientType
    <3>3. PICK n \in Int : n = q[1] /\ n = cmd'
      BY <1>4, <1>6, <2>1, <2>2, ElementOfSeq DEF Inbox
    <3>4. n \in ClusterCommands => upool.bps = SectorSize /\ upool.spc > 0
      <4>1. n \in ClusterCommands => n # INIT
        BY CommandNumbers DEF INIT
      <4>2. n \in ClusterCommands => ~Pending(c) /\ geometry[c] > 0
        BY <3>1, <3>2, <3>3, <4>1 DEF Pending, WholeRequest
      <4>3. QED
        BY <1>2, <1>3, <1>4, <2>5, <3>1, <3>2, <4>2 DEF Stream, Agreed, Closing
    <3>5. CASE Args(n, 1) = 0
      <4>1. Args(n, geometry[c]) = 0
        BY <3>2, <3>5, ArgsNone
      <4>2. Len(q) = 1
        BY <3>2, <3>3, <4>1 DEF WholeRequest
      <4>3. link'[c].c2s = <<>>
        BY <2>1, <2>3, <2>5, <4>2, BodyProperties DEF Body
      <4>4. Queue(c)' /\ Waiting(c)' /\ Asked(c)' /\ Emptied(c)'
        BY <1>2, <1>4, <2>3, <2>5, <4>3 DEF Stream, Queue, Waiting, Asked, Emptied, cvars
      <4>5. Hand(c)'
        BY <1>3, <3>3, <3>4, <3>5, <4>3 DEF Hand
      <4>6. ~Pending(c)
        <5>1. q[1] # INIT
          BY <3>3, <4>1 DEF Args
        <5>2. QED
          BY <3>1, <5>1 DEF Pending
      <4>7. Agreed(c)'
        BY <1>2, <1>3, <1>4, <2>3, <2>5, <3>1, <4>6 DEF Stream, Agreed, Closing, cvars
      <4>8. QED
        BY <4>4, <4>5, <4>7 DEF Stream
    <3>6. CASE Args(n, 1) # 0
      <4>1. link'[c].c2s = Body(request[c])
        BY <2>3, <2>5, <3>1 DEF Body
      <4>2. Queue(c)' /\ Waiting(c)' /\ Asked(c)' /\ Emptied(c)'
        BY <1>2, <1>4, <1>6, <2>3, <2>5, <3>1
        DEF Stream, Queue, Waiting, Asked, Emptied, cvars
      <4>3. Hand(c)'
        BY <1>3, <2>1, <3>1, <3>3, <3>4, <3>6, <4>1 DEF Hand, cvars
      <4>4. Pending(c) => Pending(c)'
        <5>1. Pending(c) => Args(n, geometry[c]) = 2
          BY <3>1, <3>3 DEF Pending, Args
        <5>2. Pending(c) => Len(q) = 3
          BY <3>2, <3>3, <5>1 DEF WholeRequest
        <5>3. Len(q) = 3 => Len(SubSeq(q, 2, Len(q))) = 2
          BY <2>1, SubSeqProperties, ElementOfSeq
        <5>4. Len(q) = 3 => link'[c].c2s # <<>>
          BY <2>3, <2>5, <5>3, EmptySeq
        <5>5. QED
          BY <5>2, <5>4 DEF Pending, cvars
      <4>5. Agreed(c)'
        BY <1>2, <1>3, <1>4, <2>3, <2>5, <4>4 DEF Stream, Agreed, Closing, cvars
      <4>6. QED
        BY <4>2, <4>3, <4>5 DEF Stream
    <3>7. QED
      BY <3>5, <3>6
  <2>6. QED
    BY <2>4, <2>5
<1>7. QED
  BY <1>5, <1>6 DEF receive_command

(* A handler of a command without a rest leaves the stream. *)
LEMMA PlainStream ==
  ASSUME Inv, UNCHANGED <<cvars, link>>, pc = "handle", pc' = "send", Args(cmd, 1) = 0,
         upool'.bps = upool.bps, upool'.spc = upool.spc, NEW c \in Clients
  PROVE  Stream(c)'
<1>1. Stream(c)
  BY DEF Inv
<1>2. CASE link[c].srv # "open"
  BY <1>1, <1>2, IdleStream
<1>3. CASE link[c].srv = "open"
  <2>1. link[c].c2s \in {<<>>, request[c]}
    BY <1>1, <1>3 DEF Stream, Hand, Emptied
  <2>2. Queue(c)' /\ Hand(c)' /\ Waiting(c)' /\ Asked(c)' /\ Emptied(c)'
    BY <1>1, <1>3, <2>1 DEF Stream, Queue, Hand, Waiting, Asked, Emptied, cvars
  <2>3. Agreed(c)'
    BY <1>1 DEF Stream, Agreed, Closing, Pending, cvars
  <2>4. QED
    BY <2>2, <2>3 DEF Stream
<1>4. QED
  BY <1>2, <1>3

(* In the hands of a handler that can read n words more, n > 0, the stream *)
(* has the rest of the request that the command belongs to.                *)
LEMMA InHand ==
  ASSUME Inv, pc = "handle", NEW n \in Nat \ {0}, Whole(n), Args(cmd, 1) # 0,
         NEW c \in Clients, c = cli_sock
  PROVE  /\ link[c].srv = "open" /\ ~link[c].rst
         /\ request[c] # <<>> /\ request[c][1] = cmd
         /\ link[c].c2s = Body(request[c])
         /\ WholeRequest(request[c], geometry[c])
         /\ Len(link[c].c2s) = Args(cmd, geometry[c])
         /\ \A k \in 1 .. Len(link[c].c2s) : link[c].c2s[k] = request[c][k + 1]
<1>1. Stream(c) /\ link[c].srv = "open"
  BY OneSession DEF Inv, Session
<1>2. link[c].c2s # <<>>
  BY EmptySeq DEF Whole, Inbox
<1>3. ~link[c].rst
  BY <1>1, <1>2 DEF Stream, Emptied
<1>4. /\ request[c] # <<>> /\ request[c][1] = cmd /\ link[c].c2s = Body(request[c])
  BY <1>1, <1>3 DEF Stream, Hand
<1>5. WholeRequest(request[c], geometry[c])
  BY <1>1, <1>4 DEF Stream, Asked
<1>6. PICK r \in Seq(Int) : r = request[c]
  BY DEF Inv, ClientType
<1>7. /\ Len(r) \in Nat \ {0} /\ Len(Body(r)) = Len(r) - 1
      /\ \A k \in 1 .. Len(r) - 1 : Body(r)[k] = r[k + 1]
  BY <1>4, <1>6, BodyProperties
<1>8. Len(r) - 1 = Args(cmd, geometry[c])
  <2>1. cmd \in Int /\ geometry[c] \in Int
    BY <1>4, <1>6, <1>7, ElementOfSeq DEF Inv, ClientType
  <2>2. Args(cmd, geometry[c]) \in Int
    BY <2>1, ArgsByNumber
  <2>3. QED
    BY <1>4, <1>5, <1>6, <1>7, <2>2 DEF WholeRequest
<1>9. QED
  BY <1>1, <1>3, <1>4, <1>5, <1>6, <1>7, <1>8

(* A handler that has taken the whole rest of a request leaves the session *)
(* at the beginning of the next one, if there is one.                      *)
LEMMA TakenStream ==
  ASSUME Inv, UNCHANGED cvars, pc = "handle", pc' = "send",
         NEW n \in Nat \ {0}, Whole(n), Args(cmd, 1) # 0, Link!SrvTake(cli_sock, n),
         n = Args(cmd, geometry[cli_sock]),
         \/ /\ ~Pending(cli_sock)
            /\ upool'.bps = upool.bps /\ upool'.spc = upool.spc
         \/ upool'.bps = SectorSize /\ upool'.spc = geometry[cli_sock],
         NEW c \in Clients
  PROVE  Stream(c)'
<1>1. PICK S : <<>> \in S /\ link \in Conns(S)
  BY DEF Inv, ServerInv, LinkShape
<1>2. Stream(c)
  BY DEF Inv
<1>3. PICK d \in Clients : /\ d = cli_sock /\ link[d].srv = "open"
                           /\ \A e \in Clients \ {d} : link[e].srv # "open"
  BY OneSession DEF Session
<1>4. PICK q \in Seq(Int) : q = link[d].c2s
  BY <1>1, <1>3 DEF Conns, Conn
<1>5. ~link[d].rst /\ Len(q) = n
  BY <1>3, <1>4, InHand
<1>6. /\ \A e \in Clients \ {d} : link'[e] = link[e]
      /\ link'[d].srv = link[d].srv /\ link'[d].rst = link[d].rst
      /\ link'[d].c2s = SubSeq(q, n + 1, Len(q))
  BY <1>1, <1>3, <1>4, <1>5, SrvTakeLink
<1>7. link'[d].c2s = <<>>
  BY <1>4, <1>5, <1>6, RestProperties
<1>8. CASE c # d
  BY <1>2, <1>3, <1>6, <1>8, IdleStream
<1>9. CASE c = d
  <2>1. Queue(c)' /\ Hand(c)' /\ Waiting(c)' /\ Asked(c)' /\ Emptied(c)'
    BY <1>2, <1>3, <1>6, <1>7, <1>9 DEF Stream, Queue, Hand, Waiting, Asked, Emptied, cvars
  <2>2. Agreed(c)'
    BY <1>2, <1>3, <1>6, <1>9 DEF Stream, Agreed, Closing, cvars
  <2>3. QED
    BY <2>1, <2>2 DEF Stream
<1>10. QED
  BY <1>8, <1>9

(* The handlers of the devices take the rest of their request. *)
LEMMA DeviceStream ==
  ASSUME Inv, UNCHANGED cvars, DeviceHandler, NEW c \in Clients
  PROVE  Stream(c)'
<1>1. /\ cmd \in SectorReads \cup SectorWrites \cup ClusterCommands
      /\ Answered(Args(cmd, UPool!ClusterSize))
  BY DeviceHandlers
<1>2. pc = "handle" /\ pc' = "send" /\ UNCHANGED upool
  BY <1>1 DEF Answered
<1>3. CASE after' = "close" /\ UNCHANGED link
  BY <1>2, <1>3, GivenUpStream DEF Closing, Session
<1>4. CASE Whole(Args(cmd, UPool!ClusterSize)) /\ Link!SrvTake(cli_sock, Args(cmd, UPool!ClusterSize))
  <2>1. PICK d \in Clients : d = cli_sock /\ link[d].srv = "open" /\ Stream(d)
    BY <1>2, OneSession DEF Inv, Session
  <2>2. cmd \in {4, 8, 12, 6, 10, 14, 5, 9, 13, 7, 11, 15}
    BY <1>1, CommandNumbers
  <2>3. upool.spc \in Int /\ upool.bps \in Int /\ geometry[d] \in Int
    BY DEF Inv, ServerInv, UserInv, UPool!PoolType, SectorSize, ClientType
  <2>4. UPool!ClusterSize \in Int
    BY <2>3 DEF UPool!ClusterSize
  <2>5. cmd \in ClusterCommands => upool.bps = SectorSize /\ upool.spc > 0
    BY <1>2, <2>1 DEF Stream, Hand
  <2>6. cmd \in {7, 11, 15} => UPool!ClusterSize = upool.spc /\ upool.spc > 0
    BY <2>3, <2>5, CommandNumbers DEF UPool!ClusterSize, SectorSize
  <2>7. PICK n : n = Args(cmd, UPool!ClusterSize)
    OBVIOUS
  <2>8. n \in Nat \ {0} /\ Args(cmd, 1) # 0 /\ cmd # INIT
    BY <2>2, <2>3, <2>4, <2>6, <2>7, ArgsByNumber DEF INIT
  <2>9. /\ ~link[d].rst /\ request[d][1] = cmd
        /\ WholeRequest(request[d], geometry[d])
    BY <1>2, <1>4, <2>1, <2>7, <2>8, InHand
  <2>10. ~Pending(d)
    BY <2>8, <2>9 DEF Pending
  <2>11. cmd \in {7, 11, 15} => upool.spc = geometry[d]
    <3>1. cmd \in {7, 11, 15} => geometry[d] > 0
      BY <2>9, CommandNumbers DEF WholeRequest
    <3>2. QED
      BY <1>2, <2>1, <2>9, <2>10, <3>1 DEF Stream, Agreed, Closing
  <2>12. n = Args(cmd, geometry[d])
    BY <2>2, <2>3, <2>4, <2>6, <2>7, <2>11, ArgsByNumber
  <2>13. QED
    BY <1>2, <1>4, <2>1, <2>7, <2>8, <2>10, <2>12, TakenStream
<1>5. QED
  BY <1>1, <1>3, <1>4 DEF Answered

(* An init that is taken sets the geometry the client has asked for. *)
LEMMA InitStream ==
  ASSUME Inv, UNCHANGED cvars, handle_command_2, NEW c \in Clients
  PROVE  Stream(c)'
<1>1. pc = "handle" /\ pc' = "send" /\ cmd = INIT
  BY DEF handle_command_2, Handling, Reply
<1>2. CASE after' = "close" /\ UNCHANGED link
  BY <1>1, <1>2, GivenUpStream DEF Closing, Session
<1>3. ASSUME NEW vita, upool.init = 0, Whole(2), Link!SrvTake(cli_sock, 2),
             initializePool(Inbox[1], Inbox[2], vita)
      PROVE  Stream(c)'
  <2>1. PICK d \in Clients : d = cli_sock /\ link[d].srv = "open" /\ Stream(d)
    BY <1>1, OneSession DEF Inv, Session
  <2>2. PICK bps, spc \in Int : bps = Inbox[1] /\ spc = Inbox[2]
    BY <1>1, <1>3, InboxWords DEF Inv
  <2>3. Args(cmd, 1) # 0 /\ Args(cmd, geometry[d]) = 2
    BY <1>1 DEF Args
  <2>4. PICK n \in Nat \ {0} : n = 2
    OBVIOUS
  <2>5. /\ ~link[d].rst /\ request[d][1] = INIT
        /\ WholeRequest(request[d], geometry[d])
        /\ Len(link[d].c2s) = 2
        /\ \A k \in 1 .. 2 : link[d].c2s[k] = request[d][k + 1]
    <3>1. Whole(n)
      BY <1>3, <2>4
    <3>2. /\ ~link[d].rst /\ request[d][1] = cmd
          /\ WholeRequest(request[d], geometry[d])
          /\ Len(link[d].c2s) = Args(cmd, geometry[d])
          /\ \A k \in 1 .. Len(link[d].c2s) : link[d].c2s[k] = request[d][k + 1]
      BY <1>1, <2>1, <2>3, <3>1, InHand, Zenon
    <3>3. QED
      BY <1>1, <2>3, <3>2
  <2>6. bps = request[d][2] /\ spc = request[d][3]
    BY <2>1, <2>2, <2>5 DEF Inbox
  <2>7. UserInv
    BY DEF Inv, ServerInv
  <2>8. \/ upool'.bps = SectorSize /\ upool'.spc = spc /\ bps = SectorSize
        \/ upool' = upool /\ bps # SectorSize
    BY <1>3, <2>2, <2>7, UserInitializeEffect
  <2>9. bps = SectorSize => spc = geometry[d]
    BY <2>5, <2>6 DEF WholeRequest
  <2>10. bps # SectorSize => ~Pending(d)
    BY <2>6 DEF Pending
  <2>11. QED
    BY <1>1, <1>3, <2>1, <2>3, <2>4, <2>8, <2>9, <2>10, TakenStream
<1>4. QED
  BY <1>2, <1>3 DEF handle_command_2, Reply

(* The other handlers leave the stream. *)
LEMMA OtherStream ==
  ASSUME Inv, UNCHANGED cvars,
         handle_command_0 \/ handle_command_1 \/ handle_command_3 \/ unknown_command,
         NEW c \in Clients
  PROVE  Stream(c)'
<1>1. CASE unknown_command
  BY <1>1, GivenUpStream DEF unknown_command, Closing, Session
<1>2. CASE handle_command_0 \/ handle_command_1 \/ handle_command_3
  <2>1. pc = "handle" /\ pc' = "send" /\ cmd \in {0, 1, 3} /\ UNCHANGED link
    BY <1>2 DEF handle_command_0, handle_command_1, handle_command_3, Handling, Reply, PING,
                TERM, DEINIT
  <2>2. Args(cmd, 1) = 0
    BY <2>1, ArgsByNumber
  <2>3. upool'.bps = upool.bps /\ upool'.spc = upool.spc
    BY <1>2, UserDeinitializeEffect
    DEF Inv, ServerInv, handle_command_0, handle_command_1, handle_command_3
  <2>4. QED
    BY <2>1, <2>2, <2>3, PlainStream
<1>3. QED
  BY <1>1, <1>2

(* A reset empties the stream and frees it of every promise. *)
LEMMA ResetStream ==
  ASSUME Inv, UNCHANGED <<cvars, upool, pc, cmd, after>>, NEW d \in Clients, Link!Reset(d),
         NEW c \in Clients
  PROVE  Stream(c)'
<1>1. PICK S : <<>> \in S /\ link \in Conns(S)
  BY DEF Inv, ServerInv, LinkShape
<1>2. Stream(c)
  BY DEF Inv
<1>3. /\ \A e \in Clients \ {d} : link'[e] = link[e]
      /\ link'[d].srv = link[d].srv /\ link'[d].rst /\ link'[d].c2s = <<>>
  BY <1>1, ResetLink
<1>4. CASE c # d
  BY <1>2, <1>3, <1>4
  DEF Stream, Asked, Queue, Hand, Agreed, Waiting, Emptied, Pending, Closing, cvars
<1>5. CASE c = d
  BY <1>2, <1>3, <1>5 DEF Stream, Asked, Queue, Hand, Agreed, Waiting, Emptied, cvars
<1>6. QED
  BY <1>4, <1>5

(* The clients' steps *)

(* A client that receives leaves its stream to the server, one that closes *)
(* at most empties it.                                                     *)
LEMMA ReceiveCloseStream ==
  ASSUME Inv, NEW d \in Clients, Receive(d) \/ Close(d), NEW c \in Clients
  PROVE  LinkShape' /\ link'[c].srv = link[c].srv /\ Stream(c)'
<1>1. PICK S : <<>> \in S /\ link \in Conns(S)
  BY DEF Inv, ServerInv, LinkShape
<1>2. Stream(c)
  BY DEF Inv
<1>3. UNCHANGED <<cvars, upool, pc, cmd, after>>
  BY DEF Receive, Close, OnLink
<1>4. CASE Receive(d)
  <2>1. PICK n : Link!CliTake(d, n)
    BY <1>4 DEF Receive
  <2>2. PICK T : T = S \cup {Link!Rest(link[d].s2c, n)}
    OBVIOUS
  <2>3. /\ link' \in Conns(T)
        /\ link'[c].srv = link[c].srv /\ link'[c].rst = link[c].rst /\ link'[c].c2s = link[c].c2s
    BY <1>1, <2>1, <2>2, CliTakeLink
  <2>4. Stream(c)'
    BY <1>2, <1>3, <2>3
    DEF Stream, Asked, Queue, Hand, Agreed, Waiting, Emptied, Pending, Closing, cvars
  <2>5. QED
    BY <1>1, <2>2, <2>3, <2>4 DEF LinkShape
<1>5. CASE Close(d)
  <2>1. /\ link' \in Conns(S)
        /\ \A e \in Clients \ {d} : link'[e] = link[e]
        /\ link'[d].srv = link[d].srv /\ link'[d].rst = link[d].rst
        /\ link'[d].c2s \in {link[d].c2s, <<>>}
    BY <1>1, <1>5, CliCloseLink DEF Close
  <2>2. link'[c].c2s = link[c].c2s \/ link[c].srv = "closed"
    <3>1. PICK l : l = [link[d] EXCEPT !.cli = FALSE]
      OBVIOUS
    <3>2. l.srv = link[d].srv /\ l.rst = link[d].rst /\ l.c2s = link[d].c2s /\ l \in Conn(S)
      BY <1>1, <3>1 DEF Conns, Conn
    <3>3. link'[d] = Link!Settled(l)
      BY <1>1, <1>5, <3>1 DEF Close, Link!CliClose, Link!CliClosed, Conns
    <3>4. ~l.rst /\ l.srv # "closed" => Link!Settled(l) = l
      BY DEF Link!Settled
    <3>5. link[d].rst => link[d].c2s = <<>>
      BY DEF Inv, Stream, Emptied
    <3>6. link'[d].c2s = link[d].c2s \/ link[d].srv = "closed"
      BY <2>1, <3>2, <3>3, <3>4, <3>5
    <3>7. QED
      BY <2>1, <3>6
  <2>3. /\ link'[c].srv = link[c].srv /\ link'[c].rst = link[c].rst
        /\ link'[c].c2s \in {link[c].c2s, <<>>}
    BY <2>1
  <2>4. CASE link'[c].c2s = link[c].c2s
    <3>1. Pending(c)' = Pending(c) /\ Closing' = Closing
      BY <1>3, <2>4 DEF Pending, Closing, cvars
    <3>2. Asked(c)' /\ Queue(c)' /\ Hand(c)'
      BY <1>2, <1>3, <2>3, <2>4, <3>1 DEF Stream, Asked, Queue, Hand, cvars
    <3>3. Agreed(c)' /\ Waiting(c)' /\ Emptied(c)'
      BY <1>2, <1>3, <2>3, <2>4, <3>1 DEF Stream, Agreed, Waiting, Emptied, cvars
    <3>4. Stream(c)'
      BY <3>2, <3>3 DEF Stream
    <3>5. QED
      BY <1>1, <2>1, <2>3, <3>4 DEF LinkShape
  <2>5. CASE link[c].srv = "closed"
    <3>1. Asked(c)' /\ Emptied(c)'
      BY <1>2, <1>3, <2>3 DEF Stream, Asked, Emptied, cvars
    <3>2. Queue(c)' /\ Hand(c)' /\ Agreed(c)' /\ Waiting(c)'
      BY <2>3, <2>5 DEF Queue, Hand, Agreed, Waiting
    <3>3. Stream(c)'
      BY <3>1, <3>2 DEF Stream
    <3>4. QED
      BY <1>1, <2>1, <2>3, <3>3 DEF LinkShape
  <2>6. QED
    BY <2>2, <2>4, <2>5
<1>6. QED
  BY <1>4, <1>5

(* A new connection starts with nothing asked for. *)
LEMMA ConnectStream ==
  ASSUME Inv, NEW d \in Clients, Connect(d), NEW c \in Clients
  PROVE  /\ LinkShape' /\ (link'[c].srv = "open" <=> link[c].srv = "open")
         /\ Stream(c)' /\ ClientType'
<1>1. PICK S : <<>> \in S /\ link \in Conns(S)
  BY DEF Inv, ServerInv, LinkShape
<1>2. Stream(c) /\ ClientType
  BY DEF Inv
<1>3. UNCHANGED <<upool, pc, cmd, after>> /\ link[d].srv # "open"
  BY DEF Connect, OnLink
<1>4. /\ link' \in Conns(S)
      /\ \A e \in Clients \ {d} : link'[e] = link[e]
      /\ link'[d].srv = "backlog" /\ ~link'[d].rst /\ link'[d].c2s = <<>>
  BY <1>1, ConnectLink DEF Connect
<1>5. /\ geometry' = [geometry EXCEPT ![d] = 0]
      /\ request' = [request EXCEPT ![d] = <<>>]
  BY DEF Connect
<1>6. ClientType'
  BY <1>2, <1>5, EmptySeq DEF ClientType
<1>7. CASE c # d
  <2>1. geometry'[c] = geometry[c] /\ request'[c] = request[c] /\ link'[c] = link[c]
    BY <1>2, <1>4, <1>5, <1>7 DEF ClientType
  <2>2. Stream(c)'
    BY <1>2, <1>3, <2>1
    DEF Stream, Asked, Queue, Hand, Agreed, Waiting, Emptied, Pending, Closing
  <2>3. QED
    BY <1>1, <1>4, <1>6, <2>1, <2>2 DEF LinkShape
<1>8. CASE c = d
  <2>1. geometry'[c] = 0 /\ request'[c] = <<>>
    BY <1>2, <1>5, <1>8 DEF ClientType
  <2>2. Stream(c)'
    BY <1>4, <1>8, <2>1 DEF Stream, Asked, Queue, Hand, Agreed, Waiting, Emptied
  <2>3. QED
    BY <1>1, <1>3, <1>4, <1>6, <1>8, <2>2 DEF LinkShape
<1>9. QED
  BY <1>7, <1>8

(* A client sends a whole request into an empty stream. *)
LEMMA ClientSendStream ==
  ASSUME Inv, NEW d \in Clients, Send(d), NEW c \in Clients
  PROVE  LinkShape' /\ link'[c].srv = link[c].srv /\ Stream(c)' /\ ClientType'
<1>1. PICK S : <<>> \in S /\ link \in Conns(S)
  BY DEF Inv, ServerInv, LinkShape
<1>2. Stream(c) /\ ClientType
  BY DEF Inv
<1>3. /\ UNCHANGED <<upool, pc, cmd, after>>
      /\ ~link[d].rst /\ link[d].srv # "closed" /\ link[d].c2s = <<>>
  BY DEF Send, OnLink
<1>4. PICK r \in SmallRequests \cup InitRequests \cup
                 (IF geometry[d] > 0 THEN ClusterRequests(geometry[d]) ELSE {}) :
        /\ Link!CliSend(d, r)
        /\ request' = [request EXCEPT ![d] = r]
        /\ geometry' = [geometry EXCEPT ![d] =
                          IF r[1] = INIT /\ r[2] = SectorSize THEN r[3] ELSE @]
  BY DEF Send
<1>5. PICK g \in Int : g = geometry[d]
  BY <1>2 DEF ClientType
<1>6. r \in SmallRequests \/ r \in InitRequests \/ (g > 0 /\ r \in ClusterRequests(g))
  BY <1>4, <1>5
<1>7. r # <<>> /\ r \in Seq(Int) /\ WholeRequest(r, GeometryAfter(r, g))
  BY <1>6, ShortRequestsWhole, InitRequestsWhole, ClusterRequestsWhole
<1>8. /\ link' \in Conns(S)
      /\ \A e \in Clients \ {d} : link'[e] = link[e]
      /\ link'[d].srv = link[d].srv /\ link'[d].rst = link[d].rst
      /\ link'[d].c2s = <<>> \o r
  BY <1>1, <1>3, <1>4, <1>7, CliSendLink
<1>9. link'[d].c2s = r
  BY <1>7, <1>8, ConcatEmptySeq
<1>10. request'[d] = r /\ geometry'[d] = GeometryAfter(r, g)
  BY <1>2, <1>4, <1>5 DEF ClientType, GeometryAfter
<1>11. GeometryAfter(r, g) \in Int
  <2>1. ASSUME r[1] = INIT
        PROVE  r[3] \in Int
    <3>1. Len(r) = 3
      BY <1>7, <2>1 DEF WholeRequest, Args
    <3>2. 3 \in 1 .. Len(r)
      BY <3>1
    <3>3. QED
      BY <1>7, <3>2, ElementOfSeq, Zenon
  <2>2. QED
    BY <2>1 DEF GeometryAfter
<1>12. ClientType'
  <2>1. geometry' = [geometry EXCEPT ![d] = GeometryAfter(r, g)]
    BY <1>4, <1>5 DEF GeometryAfter
  <2>2. QED
    BY <1>2, <1>4, <1>7, <1>11, <2>1 DEF ClientType
<1>13. CASE c # d
  <2>1. geometry'[c] = geometry[c] /\ request'[c] = request[c] /\ link'[c] = link[c]
    BY <1>2, <1>4, <1>8, <1>13 DEF ClientType
  <2>2. Stream(c)'
    BY <1>2, <1>3, <2>1
    DEF Stream, Asked, Queue, Hand, Agreed, Waiting, Emptied, Pending, Closing
  <2>3. QED
    BY <1>1, <1>8, <1>12, <2>1, <2>2 DEF LinkShape
<1>14. CASE c = d
  <2>1. Asked(c)' /\ Queue(c)' /\ Emptied(c)'
    BY <1>3, <1>7, <1>8, <1>9, <1>10, <1>14 DEF Asked, Queue, Emptied
  <2>2. Hand(c)'
    <3>1. ASSUME link[c].srv = "open", pc = "handle"
          PROVE  Args(cmd, 1) = 0
      <4>1. ASSUME Args(cmd, 1) # 0, request[c] # <<>>, request[c][1] = cmd,
                   Body(request[c]) = <<>>
            PROVE  FALSE
        <5>1. PICK p \in Seq(Int) : p = request[c]
          BY <1>2 DEF ClientType
        <5>2. Len(p) = 1
          <6>1. Len(Body(p)) = 0
            BY <4>1, <5>1
          <6>2. Len(p) \in Nat /\ Len(Body(p)) = Len(p) - 1
            BY <4>1, <5>1, BodyProperties
          <6>3. QED
            BY <6>1, <6>2
        <5>3. Args(cmd, g) \in Int /\ cmd \in Int
          <6>1. cmd \in Int
            BY <4>1, <5>1, <5>2, ElementOfSeq
          <6>2. QED
            BY <6>1, ArgsByNumber
        <5>4. Args(cmd, g) = 0
          BY <1>2, <1>5, <1>14, <4>1, <5>1, <5>2, <5>3 DEF Stream, Asked, WholeRequest
        <5>5. cmd \in ClusterCommands => g > 0
          BY <1>2, <1>5, <1>14, <4>1 DEF Stream, Asked, WholeRequest
        <5>6. cmd \notin {2, 4, 5, 8, 9, 12, 13, 6, 10, 14}
          BY <5>3, <5>4, ArgsByNumber
        <5>7. cmd \in {7, 11, 15}
          BY <4>1, <5>3, <5>6, ArgsByNumber
        <5>8. Args(cmd, g) = 1 + g
          BY <5>3, <5>7, ArgsByNumber
        <5>9. QED
          BY <5>4, <5>5, <5>7, <5>8, CommandNumbers
      <4>2. QED
        BY <1>2, <1>3, <1>14, <3>1, <4>1 DEF Stream, Hand
    <3>2. QED
      BY <1>2, <1>3, <1>8, <1>9, <1>10, <1>14, <3>1 DEF Stream, Hand
  <2>3. ~(r[1] = INIT /\ r[2] = SectorSize) => GeometryAfter(r, g) = g
    BY DEF GeometryAfter
  <2>4. r[1] = INIT /\ r[2] = SectorSize => Pending(c)'
    BY <1>7, <1>9, <1>10, <1>14 DEF Pending
  <2>5. ~Pending(c)
    BY <1>3, <1>14 DEF Pending
  <2>6. Agreed(c)'
    BY <1>2, <1>3, <1>5, <1>8, <1>10, <1>14, <2>3, <2>4, <2>5 DEF Stream, Agreed, Closing
  <2>7. Waiting(c)'
    BY <1>2, <1>3, <1>5, <1>8, <1>10, <1>14, <2>3, <2>4, <2>5 DEF Stream, Waiting
  <2>8. QED
    BY <1>1, <1>8, <1>12, <1>14, <2>1, <2>2, <2>6, <2>7 DEF Stream, LinkShape
<1>15. QED
  BY <1>13, <1>14

-----------------------------------------------------------------------------
(* The theorems *)

(* The invariant holds initially, and every step keeps it.                 *)
LEMMA InitInv == Init => Inv
<1> SUFFICES ASSUME Init
             PROVE  Inv
  OBVIOUS
<1>1. ServerInv
  BY ServerInitInv DEF Init
<1>2. ClientType
  BY EmptySeq DEF Init, ClientType
<1>3. ASSUME NEW c \in Clients
      PROVE  Stream(c)
  <2>1. link[c].srv = "none" /\ ~link[c].rst /\ link[c].c2s = <<>> /\ request[c] = <<>>
    BY DEF Init, ServerInit, Link!LinkInit, Link!NoConnection
  <2>2. QED
    BY <2>1 DEF Stream, Asked, Queue, Hand, Agreed, Waiting, Emptied
<1>4. QED
  BY <1>1, <1>2, <1>3 DEF Inv

(* Every step of a client keeps the invariant. *)
LEMMA ClientInv ==
  ASSUME Inv, NEW d \in Clients, Client(d)
  PROVE  Inv'
<1>1. /\ UNCHANGED <<upool, ubuf, kpool, pc, after, cli_sock, emmc_sock, listener, faults>>
  BY DEF Client, Connect, Send, Receive, Close, OnLink, dvars
<1>2. ClientType
  BY DEF Inv
<1>3. /\ LinkShape' /\ ClientType'
      /\ \A c \in Clients : (link'[c].srv = "open" <=> link[c].srv = "open") /\ Stream(c)'
  <2>1. CASE Connect(d)
    BY <2>1, ConnectStream
  <2>2. CASE Send(d)
    BY <2>2, ClientSendStream
  <2>3. CASE Receive(d) \/ Close(d)
    <3>1. ClientType'
      BY <1>2, <2>3 DEF Receive, Close, cvars, ClientType
    <3>2. QED
      BY <2>3, <3>1, ReceiveCloseStream
  <2>4. QED
    BY <2>1, <2>2, <2>3 DEF Client
<1>4. ServerInv'
  BY <1>1, <1>3, OutsideStepInv DEF Inv
<1>5. QED
  BY <1>3, <1>4 DEF Inv

(* Every step keeps the invariant. *)
LEMMA NextInv == Inv /\ [Next]_vars => Inv'
<1> SUFFICES ASSUME Inv, [Next]_vars
             PROVE  Inv'
  OBVIOUS
<1>1. CASE OwnStep /\ UNCHANGED cvars
  <2>1. ServerInv'
    BY <1>1, InvSizeKnown, ServerStepInv DEF Inv
  <2>2. ClientType'
    BY <1>1 DEF Inv, ClientType, cvars
  <2>3. ASSUME NEW c \in Clients
        PROVE  Stream(c)'
    <3>1. CASE init_net \/ deinit_net \/ exit \/ kill \/ launch \/ accept \/ close_client
      BY <1>1, <3>1, ProcessStream
    <3>2. CASE send
      BY <1>1, <3>2, SendStream
    <3>3. CASE receive_command
      BY <1>1, <3>3, ReceiveStream
    <3>4. CASE DeviceHandler
      BY <1>1, <3>4, DeviceStream
    <3>5. CASE handle_command_2
      BY <1>1, <3>5, InitStream
    <3>6. CASE handle_command_0 \/ handle_command_1 \/ handle_command_3 \/ unknown_command
      BY <1>1, <3>6, OtherStream
    <3>7. ASSUME NEW d \in Clients, ResetDue(d) \/ LinkLost(d)
          PROVE  Stream(c)'
      BY <1>1, <3>7, ResetStream DEF ResetDue, LinkLost
    <3>8. CASE module_start /\ UNCHANGED svars
      <4>1. UNCHANGED <<link, upool, pc, cmd, after, geometry, request>> /\ Stream(c)
        BY <1>1, <3>8 DEF svars, cvars, Inv
      <4>2. QED
        BY <4>1
        DEF Stream, Asked, Queue, Hand, Agreed, Waiting, Emptied, Pending, Closing
    <3>9. QED
      BY <1>1, <3>1, <3>2, <3>3, <3>4, <3>5, <3>6, <3>7, <3>8
      DEF OwnStep, main, System, accept_single_connection, receive_commands, DeviceHandler
  <2>4. QED
    BY <2>1, <2>2, <2>3 DEF Inv
<1>2. ASSUME NEW d \in Clients, Client(d)
      PROVE  Inv'
  BY <1>2, ClientInv
<1>3. CASE UNCHANGED vars
  <2>1. /\ UNCHANGED <<upool, ubuf, kpool, pc, after, cli_sock, emmc_sock, listener, faults>>
        /\ UNCHANGED <<link, cmd, geometry, request>>
    BY <1>3 DEF vars, svars, dvars, cvars
  <2>2. ServerInv'
    BY <2>1, OutsideStepInv DEF Inv, ServerInv, LinkShape
  <2>3. ClientType'
    BY <2>1 DEF Inv, ClientType
  <2>4. ASSUME NEW c \in Clients
        PROVE  Stream(c)'
    BY <2>1 DEF Inv, Stream, Asked, Queue, Hand, Agreed, Waiting, Emptied, Pending, Closing
  <2>5. QED
    BY <2>2, <2>3, <2>4 DEF Inv
<1>4. QED
  BY <1>1, <1>2, <1>3 DEF Next, OwnStep

(* The invariant holds in every state. *)
LEMMA Invariance == Spec => []Inv
  BY InitInv, NextInv, PTL DEF Spec

(* The user pool that handlers transfer through is the process's own block *)
(* and as long as their loops, whatever the clients ask for and whatever   *)
(* fails.                                                                  *)
THEOREM ServerUserPoolBacked == Spec => []UserPoolBacked
<1>1. Inv => UserPoolBacked
  BY DEF Inv, ServerInv, UserInv, BufferInv, UserPoolBacked
<1>2. QED
  BY <1>1, Invariance, PTL

(* As long as nothing fails the pools of the server and of the driver are  *)
(* set up together, with one geometry, or not at all.                      *)
THEOREM ServerPoolsInStep == Spec => []PoolsInStep
<1>1. Inv => PoolsInStep
  BY DEF Inv, ServerInv, InStep, PoolsInStep
<1>2. QED
  BY <1>1, Invariance, PTL

(* No accepted connection outlives its session and no listening socket the *)
(* server, on every path through init_net and accept.                      *)
THEOREM ServerSocketsClosed == Spec => []SocketsClosed
<1>1. Inv => SocketsClosed
  BY DEF Inv, ServerInv, Sockets, Session, SocketsClosed
<1>2. QED
  BY <1>1, Invariance, PTL

(* The server only ever takes the first word of a whole request for a      *)
(* command: every handler reads all of its request or ends the session.    *)
THEOREM ServerCommandsInStep == Spec => []CommandsInStep
<1>1. Inv => CommandsInStep
  <2> SUFFICES ASSUME Inv, NEW c \in Clients, pc = "recv", cli_sock = c, link[c].c2s # <<>>
               PROVE  link[c].c2s = request[c]
    BY DEF CommandsInStep
  <2>1. Stream(c) /\ link[c].srv = "open"
    BY DEF Inv, ServerInv, Sockets, Session
  <2>2. QED
    BY <2>1 DEF Stream, Queue, Closing
<1>2. QED
  BY <1>1, Invariance, PTL
=============================================================================

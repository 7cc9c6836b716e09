----------------------------- MODULE RpcProofs ------------------------------
(***************************************************************************)
(* Proofs about the RPC server and its clients, for any number of clients, *)
(* streams and requests and any sizes of the queues.                       *)
(***************************************************************************)
EXTENDS RpcSystem, FiniteSetTheorems, SequenceTheorems, WellFoundedInduction, TLAPS

-----------------------------------------------------------------------------
(* The inductive invariant *)

Requests == [client : Nat, n : Nat, kind : RequestKinds]
Parts == [req : Requests, part : {1, 2}]
Answers == [req : Requests, ok : BOOLEAN]
Sockets == [up : Seq(Parts), down : Seq(Answers), peer : {"open", "fin", "rst"},
            open : BOOLEAN, edge : BOOLEAN, full : BOOLEAN]
Connections == [s : Nat, state : {"Reading", "Processing", "Writing"}, recv_buf : Seq(Parts),
                send_buf : Seq(Answers), send_pos : {0, 1}, pending : Requests,
                should_close : BOOLEAN]
InProgress == [req : Requests, token : Nat]
Results == [req : Requests, token : Nat, ok : BOOLEAN]

TypeInv ==
  /\ sock \in [Streams -> Sockets] /\ backlog \in Seq(Streams)
  /\ conns \in Seq(Connections) /\ free \in Seq(Nat)
  /\ npc \in {"loop", "send", "join", "done", "failed"}
  /\ reqQ \in Seq(InProgress) /\ batch \in Seq(InProgress) /\ respQ \in Seq(Results)
  /\ wpc \in {"top", "drain", "process", "done"}
  /\ cpc \in [Clients -> {"off", "idle", "half", "wait"}]
  /\ cstream \in [Clients -> Nat] /\ request \in [Clients -> Requests]
  /\ late \in [Clients -> BOOLEAN] /\ used \in 0..MaxStreams

(* A stream is in the backlog, or one connection has it, or neither; then  *)
(* it is not used yet or the server has closed it.                         *)
StreamInv ==
  /\ \A j \in DOMAIN backlog : backlog[j] \in 1..used /\ sock[backlog[j]].open
  /\ \A j, l \in DOMAIN backlog : backlog[j] = backlog[l] => j = l
  /\ \A i \in Used : conns[i].s \in 1..used /\ sock[conns[i].s].open
  /\ \A i, k \in Used : conns[i].s = conns[k].s => i = k
  /\ \A i \in Used, j \in DOMAIN backlog : conns[i].s # backlog[j]
  /\ \A s \in (used + 1)..MaxStreams : sock[s] = Sock

(* Every client has a stream of its own, which it has not closed. *)
ClientInv ==
  \A c \in Clients :
    /\ request[c].client = c
    /\ cpc[c] # "off" =>
         /\ cstream[c] \in 1..used /\ sock[cstream[c]].peer = "open"
         /\ \A d \in Clients : cpc[d] # "off" /\ cstream[d] = cstream[c] => d = c

(* What the state of a connection says of its fields. *)
ConnOk(k) ==
  /\ (k.state = "Processing") <=> (k.pending # NoReq)
  /\ (k.state = "Writing") <=> (k.send_buf # <<>>)

PoolInv ==
  /\ \A i \in Used : ConnOk(conns[i])
  /\ \A i \in DOMAIN conns : i \notin Used <=> \E j \in DOMAIN free : free[j] = i
  /\ \A j \in DOMAIN free : free[j] \in DOMAIN conns
  /\ \A j, l \in DOMAIN free : free[j] = free[l] => j = l

(* The request that is being sent to the worker is still that of its       *)
(* connection.                                                             *)
HeldInv ==
  npc = "send" =>
    /\ held.i \in Used /\ conns[held.i].state = "Reading"
    /\ IsRequestComplete(conns[held.i].recv_buf)
    /\ WellFormed(Parsed(conns[held.i].recv_buf))

(* A connection that waits has one request between the threads. *)
FlightInv ==
  /\ \A j \in DOMAIN InFlight : Matches(InFlight[j]) /\ WellFormed(InFlight[j].req)
  /\ \A j, l \in DOMAIN InFlight : InFlight[j].token = InFlight[l].token => j = l
  /\ \A i \in Used : conns[i].pending # NoReq => \E j \in DOMAIN InFlight : InFlight[j].token = i
  /\ \A j \in DOMAIN respQ : respQ[j].ok => respQ[j].req.kind \in {"ok", "close"}
  /\ (wpc \in {"top", "done"}) <=> (batch = <<>>)

(* The server has the headers of request r on stream s, or works on r for  *)
(* it.                                                                     *)
HasHeaders(buf, r) == \E j \in DOMAIN buf : buf[j] = [req |-> r, part |-> 1]
Carries(k, r) == HasHeaders(k.recv_buf, r) \/ (k.pending = r /\ r # NoReq)
On(s, r) ==
  HasHeaders(sock[s].up, r) \/ \E i \in Used : conns[i].s = s /\ Carries(conns[i], r)

(* A request is on one stream, and was sent by its client. *)
OneStreamInv ==
  \A s \in Streams, r \in Requests :
    On(s, r) => /\ r.client \in Clients /\ r.n <= request[r.client].n
                /\ \A t \in Streams : On(t, r) => t = s

(* What a client that is at pc has sent of request r *)
Outgoing(pc, r) ==
  CASE pc = "half" -> SubSeq(BuildRequest(r), 1, 1)
    [] pc = "wait" -> BuildRequest(r)
    [] OTHER -> <<>>

OwnAnswer(r, buf) ==
  \E ok \in BOOLEAN : /\ buf = <<[req |-> r, ok |-> ok]>>
                      /\ ok => r.kind \in {"ok", "close"}

(* Connection k serves a client at pc with request r on socket q: it has   *)
(* not read everything, or the request is in progress, or its answer is    *)
(* being written or has been.                                              *)
Unread(pc, r, k, q) ==
  k.state = "Reading" /\ k.recv_buf \o q.up = Outgoing(pc, r) /\ q.down = <<>>
Answering(pc, r, k, q) ==
  /\ pc = "wait" /\ q.up = <<>>
  /\ \/ k.state = "Processing" /\ k.pending = r /\ q.down = <<>>
     \/ k.state = "Writing" /\ OwnAnswer(r, k.send_buf) /\ q.down = <<>>
     \/ k.state = "Reading" /\ k.recv_buf = <<>> /\ OwnAnswer(r, q.down)
Serves(pc, r, k, q) == Unread(pc, r, k, q) \/ Answering(pc, r, k, q)

(* Nothing but the request in hand and its answer is on the stream of a    *)
(* client that has given up none there.                                    *)
InTime(c) == cpc[c] # "off" /\ ~late[c]
OwnInv ==
  \A c \in Clients : InTime(c) =>
    LET q == sock[cstream[c]] IN
    /\ q.down = <<>> \/ (cpc[c] = "wait" /\ OwnAnswer(request[c], q.down))
    /\ (\E j \in DOMAIN backlog : backlog[j] = cstream[c]) =>
         q.up = Outgoing(cpc[c], request[c]) /\ q.down = <<>>
    /\ \A i \in Used : conns[i].s = cstream[c] => Serves(cpc[c], request[c], conns[i], q)

Inv ==
  /\ TypeInv /\ StreamInv /\ ClientInv /\ PoolInv /\ HeldInv /\ FlightInv /\ OneStreamInv
  /\ OwnInv

-----------------------------------------------------------------------------
(* What happens to a connection *)

(* Connection i becomes k, and its stream q. *)
Stays(i, k, q) ==
  /\ i \in Used /\ k \in Connections /\ k.s = conns[i].s
  /\ q \in Sockets /\ q.open = sock[k.s].open /\ (sock[k.s].peer = "open" => q.peer = "open")
  /\ conns' = [conns EXCEPT ![i] = k] /\ sock' = [sock EXCEPT ![k.s] = q] /\ free' = free

(* Connection i is removed, and its stream becomes q. *)
Leaves(i, q) ==
  /\ i \in Used /\ q \in Sockets /\ (sock[conns[i].s].peer = "open" => q.peer = "open")
  /\ conns' = [conns EXCEPT ![i] = NoConn] /\ sock' = [sock EXCEPT ![conns[i].s] = q]
  /\ free' = Append(free, i)

(* The values that connections start from *)
LEMMA NoReqType == NoReq \in Requests
BY DEF NoReq, Requests, RequestKinds

LEMMA ConnectionType ==
  ASSUME NEW s \in Nat
  PROVE  /\ Connection(s) \in Connections /\ Connection(s).s = s /\ ConnOk(Connection(s))
         /\ Connection(s).recv_buf = <<>> /\ Connection(s).pending = NoReq
         /\ Connection(s).state = "Reading"
BY NoReqType DEF Connection, Connections, ConnOk

(* Used connections have streams. *)
LEMMA UsedIs ==
  ASSUME TypeInv, StreamInv
  PROVE  /\ Used \subseteq DOMAIN conns
         /\ \A i \in Used : /\ conns[i] \in Connections /\ conns[i].s \in Streams
                            /\ conns[i].s # 0 /\ sock[conns[i].s] \in Sockets
BY StreamAssumption DEF TypeInv, StreamInv, Used, Streams

(* What becomes of the other connections and streams *)
LEMMA StaysUsed ==
  ASSUME TypeInv, StreamInv, NEW i, NEW k, NEW q, Stays(i, k, q)
  PROVE  /\ Used' = Used /\ conns' \in Seq(Connections) /\ sock' \in [Streams -> Sockets]
         /\ conns'[i] = k /\ sock'[k.s] = q
         /\ \A l \in Used \ {i} : conns'[l] = conns[l] /\ sock'[conns[l].s] = sock[conns[l].s]
         /\ \A s \in Streams \ {k.s} : sock'[s] = sock[s]
<1>1. /\ i \in DOMAIN conns /\ k.s \in Streams /\ k.s # 0 /\ k # NoConn
      /\ \A l \in Used \ {i} : conns[l].s # k.s
  BY UsedIs, ConnectionType DEF Stays, NoConn, StreamInv
<1>2. conns' \in Seq(Connections) /\ DOMAIN conns' = DOMAIN conns /\ conns'[i] = k
      /\ \A l \in DOMAIN conns \ {i} : conns'[l] = conns[l]
  BY <1>1 DEF Stays, TypeInv
<1>3. /\ sock' \in [Streams -> Sockets] /\ sock'[k.s] = q
      /\ \A s \in Streams \ {k.s} : sock'[s] = sock[s]
  BY <1>1 DEF Stays, TypeInv
<1>4. Used' = Used
  BY <1>1, <1>2 DEF Stays, Used
<1>5. QED
  BY <1>1, <1>2, <1>3, <1>4, UsedIs

LEMMA LeavesUsed ==
  ASSUME TypeInv, StreamInv, NEW i, NEW q, Leaves(i, q)
  PROVE  /\ Used' = Used \ {i} /\ conns' \in Seq(Connections) /\ sock' \in [Streams -> Sockets]
         /\ DOMAIN conns' = DOMAIN conns /\ free' \in Seq(Nat)
         /\ sock'[conns[i].s] = q
         /\ \A l \in Used' : conns'[l] = conns[l] /\ sock'[conns[l].s] = sock[conns[l].s]
         /\ \A s \in Streams \ {conns[i].s} : sock'[s] = sock[s]
<1>1. /\ i \in DOMAIN conns /\ conns[i].s \in Streams /\ NoConn \in Connections
      /\ \A l \in Used \ {i} : conns[l].s # conns[i].s
  BY UsedIs, ConnectionType DEF Leaves, NoConn, StreamInv
<1>2. conns' \in Seq(Connections) /\ DOMAIN conns' = DOMAIN conns /\ conns'[i] = NoConn
      /\ \A l \in DOMAIN conns \ {i} : conns'[l] = conns[l]
  BY <1>1 DEF Leaves, TypeInv
<1>3. /\ sock' \in [Streams -> Sockets] /\ sock'[conns[i].s] = q
      /\ \A s \in Streams \ {conns[i].s} : sock'[s] = sock[s]
  BY <1>1 DEF Leaves, TypeInv
<1>4. Used' = Used \ {i}
  BY <1>1, <1>2 DEF Used
<1>5. free' \in Seq(Nat)
  BY <1>1 DEF Leaves, TypeInv
<1>6. QED
  BY <1>1, <1>2, <1>3, <1>4, <1>5, UsedIs

(* A change of one connection keeps the pool in order. *)
LEMMA StaysPool ==
  ASSUME TypeInv, StreamInv, ClientInv, PoolInv, UNCHANGED <<backlog, clients>>,
         NEW i, NEW k, NEW q, Stays(i, k, q), ConnOk(k)
  PROVE  StreamInv' /\ ClientInv' /\ PoolInv'
<1>1. /\ Used' = Used /\ conns' \in Seq(Connections)
      /\ conns'[i] = k /\ sock'[k.s] = q /\ i \in Used /\ k.s = conns[i].s
      /\ \A l \in Used \ {i} : conns'[l] = conns[l] /\ sock'[conns[l].s] = sock[conns[l].s]
      /\ \A s \in Streams \ {k.s} : sock'[s] = sock[s]
      /\ q.open = sock[k.s].open /\ (sock[k.s].peer = "open" => q.peer = "open")
      /\ DOMAIN conns' = DOMAIN conns /\ free' = free
  <2>1. /\ i \in Used /\ k.s = conns[i].s /\ free' = free
        /\ q.open = sock[k.s].open /\ (sock[k.s].peer = "open" => q.peer = "open")
        /\ DOMAIN conns' = DOMAIN conns
    BY DEF Stays, TypeInv
  <2>2. QED
    BY <2>1, StaysUsed
<1>2. k.s \in 1..used /\ sock[k.s].open /\ used \in Nat /\ 1..used \subseteq Streams
  BY <1>1, StreamAssumption DEF StreamInv, TypeInv, Streams
<1>3. StreamInv'
  <2>1. \A j \in DOMAIN backlog : sock'[backlog[j]] = sock[backlog[j]]
    BY <1>1, <1>2 DEF StreamInv
  <2>2. \A l \in Used : conns'[l].s = conns[l].s /\ sock'[conns[l].s].open
    BY <1>1, <1>2 DEF StreamInv
  <2>3. \A s \in (used + 1)..MaxStreams : sock'[s] = sock[s]
    BY <1>1, <1>2, StreamAssumption DEF Streams
  <2>4. UNCHANGED <<used, backlog>>
    BY DEF clients
  <2>5. QED
    BY <1>1, <2>1, <2>2, <2>3, <2>4 DEF StreamInv
<1>4. ClientInv'
  <2>1. \A s \in Streams : sock[s].peer = "open" => sock'[s].peer = "open"
    BY <1>1
  <2>2. \A c \in Clients : cpc[c] # "off" => cstream[c] \in Streams
    BY <1>2 DEF ClientInv
  <2>3. QED
    BY <2>1, <2>2 DEF ClientInv, clients
<1>5. PoolInv'
  <2>1. \A l \in Used : ConnOk(conns'[l])
    BY <1>1 DEF PoolInv
  <2>2. QED
    BY <1>1, <2>1 DEF PoolInv, ConnOk
<1>6. QED
  BY <1>3, <1>4, <1>5

(* So does its removal. *)
LEMMA LeavesPool ==
  ASSUME TypeInv, StreamInv, ClientInv, PoolInv, UNCHANGED <<backlog, clients>>,
         NEW i, NEW q, Leaves(i, q)
  PROVE  StreamInv' /\ ClientInv' /\ PoolInv'
<1>1. /\ Used' = Used \ {i} /\ DOMAIN conns' = DOMAIN conns /\ sock'[conns[i].s] = q /\ i \in Used
      /\ \A l \in Used' : conns'[l] = conns[l] /\ sock'[conns[l].s] = sock[conns[l].s]
      /\ \A s \in Streams \ {conns[i].s} : sock'[s] = sock[s]
      /\ (sock[conns[i].s].peer = "open" => q.peer = "open")
      /\ free' = Append(free, i)
  BY LeavesUsed DEF Leaves
<1>2. conns[i].s \in 1..used /\ used \in Nat /\ 1..used \subseteq Streams
  BY <1>1, StreamAssumption DEF StreamInv, TypeInv, Streams
<1>3. StreamInv'
  <2>1. \A j \in DOMAIN backlog : sock'[backlog[j]] = sock[backlog[j]]
    BY <1>1, <1>2 DEF StreamInv
  <2>2. \A s \in (used + 1)..MaxStreams : sock'[s] = sock[s]
    BY <1>1, <1>2, StreamAssumption DEF Streams
  <2>3. UNCHANGED <<used, backlog>>
    BY DEF clients
  <2>4. QED
    BY <1>1, <2>1, <2>2, <2>3 DEF StreamInv
<1>4. ClientInv'
  <2>1. \A s \in Streams : sock[s].peer = "open" => sock'[s].peer = "open"
    BY <1>1
  <2>2. \A c \in Clients : cpc[c] # "off" => cstream[c] \in Streams
    BY <1>2 DEF ClientInv
  <2>3. QED
    BY <2>1, <2>2 DEF ClientInv, clients
<1>5. PoolInv'
  <2>1. \A l \in Used' : ConnOk(conns'[l])
    BY <1>1 DEF PoolInv
  <2>2. i \in DOMAIN conns /\ \A j \in DOMAIN free : free[j] # i
    BY <1>1, UsedIs DEF PoolInv
  <2>3. /\ free \in Seq(Nat) /\ Len(free') = Len(free) + 1 /\ free'[Len(free) + 1] = i
        /\ DOMAIN free = 1..Len(free) /\ DOMAIN free' = 1..(Len(free) + 1) /\ Len(free) \in Nat
        /\ \A j \in DOMAIN free : free'[j] = free[j]
    BY <1>1, <2>2 DEF TypeInv
  <2>4. \A j \in DOMAIN free' : /\ free'[j] \in DOMAIN conns
                                /\ j \in DOMAIN free \/ j = Len(free) + 1
    BY <2>2, <2>3 DEF PoolInv
  <2>5. \A l \in DOMAIN conns : l \notin Used' <=> \E j \in DOMAIN free' : free'[j] = l
    <3> TAKE l \in DOMAIN conns
    <3>1. CASE l = i
      BY <1>1, <2>3, <3>1
    <3>2. CASE l # i
      BY <1>1, <2>3, <2>4, <3>2 DEF PoolInv
    <3>3. QED
      BY <3>1, <3>2
  <2>6. \A j, l \in DOMAIN free' : free'[j] = free'[l] => j = l
    BY <2>2, <2>3, <2>4 DEF PoolInv
  <2>7. /\ \A l \in DOMAIN conns' : l \notin Used' <=> \E j \in DOMAIN free' : free'[j] = l
        /\ \A j \in DOMAIN free' : free'[j] \in DOMAIN conns'
    BY <1>1, <2>4, <2>5
  <2>8. QED
    BY <2>1, <2>6, <2>7 DEF PoolInv, ConnOk
<1>6. QED
  BY <1>3, <1>4, <1>5

(* A step that puts no headers of a request anywhere else keeps requests   *)
(* on their streams.                                                       *)
LEMMA OneStreamKept ==
  ASSUME OneStreamInv, UNCHANGED request,
         \A s \in Streams, r \in Requests : On(s, r)' => On(s, r)
  PROVE  OneStreamInv'
BY DEF OneStreamInv

(* The same for a change of one connection, and for its removal *)
LEMMA StaysOneStream ==
  ASSUME TypeInv, StreamInv, OneStreamInv, UNCHANGED request,
         NEW i, NEW k, NEW q, Stays(i, k, q),
         \A r \in Requests : HasHeaders(q.up, r) \/ Carries(k, r) =>
                               HasHeaders(sock[k.s].up, r) \/ Carries(conns[i], r)
  PROVE  OneStreamInv'
<1>1. /\ Used' = Used /\ i \in Used /\ k.s = conns[i].s
      /\ conns'[i] = k /\ sock'[k.s] = q
      /\ \A l \in Used \ {i} : conns'[l] = conns[l]
      /\ \A s \in Streams \ {k.s} : sock'[s] = sock[s]
  <2>1. i \in Used /\ k.s = conns[i].s
    BY DEF Stays
  <2>2. QED
    BY <2>1, StaysUsed
<1>2. SUFFICES ASSUME NEW s \in Streams, NEW r \in Requests, On(s, r)' PROVE On(s, r)
  BY OneStreamKept
<1>3. \/ HasHeaders(sock'[s].up, r)
      \/ \E l \in Used : conns'[l].s = s /\ Carries(conns'[l], r)
  BY <1>1, <1>2 DEF On, Carries, HasHeaders
<1>4. CASE s = k.s
  <2>1. \/ HasHeaders(q.up, r) \/ Carries(k, r)
        \/ \E l \in Used \ {i} : conns[l].s = s /\ Carries(conns[l], r)
    BY <1>1, <1>3, <1>4
  <2>2. QED
    BY <1>1, <1>4, <2>1 DEF On
<1>5. CASE s # k.s
  BY <1>1, <1>3, <1>5 DEF On
<1>6. QED
  BY <1>4, <1>5

LEMMA LeavesOneStream ==
  ASSUME TypeInv, StreamInv, OneStreamInv, UNCHANGED request,
         NEW i, NEW q, Leaves(i, q), q.up = <<>>
  PROVE  OneStreamInv'
<1>1. /\ Used' = Used \ {i} /\ sock'[conns[i].s] = q
      /\ \A l \in Used' : conns'[l] = conns[l]
      /\ \A s \in Streams \ {conns[i].s} : sock'[s] = sock[s]
  BY LeavesUsed
<1>2. SUFFICES ASSUME NEW s \in Streams, NEW r \in Requests, On(s, r)' PROVE On(s, r)
  BY OneStreamKept
<1>3. \/ HasHeaders(sock'[s].up, r)
      \/ \E l \in Used' : conns'[l].s = s /\ Carries(conns'[l], r)
  BY <1>1, <1>2 DEF On, Carries, HasHeaders
<1>4. ~HasHeaders(q.up, r)
  BY DEF HasHeaders
<1>5. QED
  BY <1>1, <1>3, <1>4 DEF On

(* A connection that serves its client has sent nothing else. *)
LEMMA ServesDown ==
  ASSUME NEW pc, NEW r, NEW k, NEW q, Serves(pc, r, k, q)
  PROVE  q.down = <<>> \/ (pc = "wait" /\ OwnAnswer(r, q.down))
BY DEF Serves, Unread, Answering

(* A connection that goes on to serve its client keeps the clients'        *)
(* streams clean.                                                          *)
LEMMA StaysOwn ==
  ASSUME TypeInv, StreamInv, ClientInv, OwnInv, UNCHANGED <<backlog, clients>>,
         NEW i, NEW k, NEW q, Stays(i, k, q),
         \A c \in Clients : InTime(c) /\ cstream[c] = conns[i].s => Serves(cpc[c], request[c], k, q)
  PROVE  OwnInv'
<1>1. /\ Used' = Used /\ i \in Used /\ k.s = conns[i].s
      /\ conns'[i] = k /\ sock'[k.s] = q
      /\ \A l \in Used \ {i} : conns'[l] = conns[l] /\ conns[l].s # k.s
      /\ \A s \in Streams \ {k.s} : sock'[s] = sock[s]
  <2>1. i \in Used /\ k.s = conns[i].s
    BY DEF Stays
  <2>2. QED
    BY <2>1, StaysUsed DEF StreamInv
<1>2. UNCHANGED <<backlog, cpc, cstream, request, late>>
  BY DEF clients
<1>3. SUFFICES ASSUME NEW c \in Clients, InTime(c)
               PROVE  LET p == sock'[cstream[c]] IN
                      /\ p.down = <<>> \/ (cpc[c] = "wait" /\ OwnAnswer(request[c], p.down))
                      /\ (\E j \in DOMAIN backlog : backlog[j] = cstream[c]) =>
                           p.up = Outgoing(cpc[c], request[c]) /\ p.down = <<>>
                      /\ \A l \in Used : conns'[l].s = cstream[c] =>
                           Serves(cpc[c], request[c], conns'[l], p)
  BY <1>1, <1>2 DEF OwnInv, InTime
<1>4. CASE cstream[c] = k.s
  <2>1. Serves(cpc[c], request[c], k, q) /\ sock'[cstream[c]] = q
    BY <1>1, <1>3, <1>4
  <2>2. ~ \E j \in DOMAIN backlog : backlog[j] = cstream[c]
    BY <1>1, <1>4 DEF StreamInv
  <2>3. \A l \in Used : conns'[l].s = cstream[c] => conns'[l] = k
    BY <1>1, <1>4
  <2>4. QED
    BY <2>1, <2>2, <2>3, ServesDown
<1>5. CASE cstream[c] # k.s
  <2>1. cstream[c] \in Streams
    BY <1>3, StreamAssumption DEF ClientInv, InTime, TypeInv, Streams
  <2>2. sock'[cstream[c]] = sock[cstream[c]]
        /\ \A l \in Used : conns'[l].s = cstream[c] => conns'[l] = conns[l]
    BY <1>1, <1>5, <2>1
  <2>3. QED
    BY <1>3, <2>2 DEF OwnInv
<1>6. QED
  BY <1>4, <1>5

(* So does one that is removed. *)
LEMMA LeavesOwn ==
  ASSUME TypeInv, StreamInv, ClientInv, OwnInv, UNCHANGED <<backlog, clients>>,
         NEW i, NEW q, Leaves(i, q),
         \A c \in Clients : InTime(c) /\ cstream[c] = conns[i].s =>
           q.down = <<>> \/ (cpc[c] = "wait" /\ OwnAnswer(request[c], q.down))
  PROVE  OwnInv'
<1>1. /\ Used' = Used \ {i} /\ i \in Used /\ sock'[conns[i].s] = q
      /\ \A l \in Used' : conns'[l] = conns[l] /\ conns[l].s # conns[i].s
      /\ \A s \in Streams \ {conns[i].s} : sock'[s] = sock[s]
  <2>1. i \in Used
    BY DEF Leaves
  <2>2. QED
    BY <2>1, LeavesUsed DEF StreamInv
<1>2. UNCHANGED <<backlog, cpc, cstream, request, late>>
  BY DEF clients
<1>3. SUFFICES ASSUME NEW c \in Clients, InTime(c)
               PROVE  LET p == sock'[cstream[c]] IN
                      /\ p.down = <<>> \/ (cpc[c] = "wait" /\ OwnAnswer(request[c], p.down))
                      /\ (\E j \in DOMAIN backlog : backlog[j] = cstream[c]) =>
                           p.up = Outgoing(cpc[c], request[c]) /\ p.down = <<>>
                      /\ \A l \in Used' : conns'[l].s = cstream[c] =>
                           Serves(cpc[c], request[c], conns'[l], p)
  BY <1>1, <1>2 DEF OwnInv, InTime
<1>4. CASE cstream[c] = conns[i].s
  <2>1. ~ \E j \in DOMAIN backlog : backlog[j] = cstream[c]
    BY <1>1, <1>4 DEF StreamInv
  <2>2. \A l \in Used' : conns'[l].s # cstream[c]
    BY <1>1, <1>4
  <2>3. QED
    BY <1>1, <1>3, <1>4, <2>1, <2>2
<1>5. CASE cstream[c] # conns[i].s
  <2>1. cstream[c] \in Streams
    BY <1>3, StreamAssumption DEF ClientInv, InTime, TypeInv, Streams
  <2>2. sock'[cstream[c]] = sock[cstream[c]]
    BY <1>1, <1>5, <2>1
  <2>3. QED
    BY <1>1, <1>3, <2>2 DEF OwnInv
<1>6. QED
  BY <1>4, <1>5

(* The worker gets no request that could not be parsed. *)
LEMMA WellFormedReq ==
  ASSUME NEW r, WellFormed(r) PROVE r # NoReq
BY DEF WellFormed, NoReq

(* A step that leaves the queues and the pending requests alone keeps them *)
(* matched.                                                                *)
LEMMA FlightKept ==
  ASSUME FlightInv, UNCHANGED <<reqQ, batch, respQ, wpc>>,
         \A i \in Used : conns[i].pending # NoReq =>
           i \in Used' /\ conns'[i].pending = conns[i].pending,
         \A i \in Used' : conns'[i].pending # NoReq =>
           i \in Used /\ conns'[i].pending = conns[i].pending
  PROVE  FlightInv'
<1>1. InFlight' = InFlight
  BY DEF InFlight
<1>2. \A j \in DOMAIN InFlight : Matches(InFlight[j])'
  BY <1>1, WellFormedReq DEF FlightInv, Matches
<1>3. \A i \in Used' : conns'[i].pending # NoReq =>
        \E j \in DOMAIN InFlight : InFlight[j].token = i
  BY DEF FlightInv
<1>4. QED
  BY <1>1, <1>2, <1>3 DEF FlightInv, Matches

(* What closing makes of a socket *)
LEMMA ShutType ==
  ASSUME NEW q \in Sockets
  PROVE  /\ Shut(q) \in Sockets /\ Shut(q).up = <<>> /\ Shut(q).down = q.down
         /\ q.peer = "open" => Shut(q).peer = "open"
<1> DEFINE p == IF q.peer = "rst" THEN "fin" ELSE q.peer
           empty == <<>>
<1>1. p \in {"open", "fin", "rst"} /\ (q.peer = "open" => p = "open") /\ empty \in Seq(Parts)
  BY DEF Sockets
<1>2. Shut(q) = [q EXCEPT !.open = FALSE, !.edge = FALSE, !.full = FALSE, !.up = empty, !.peer = p]
  BY DEF Shut, Sockets
<1> HIDE DEF p, empty
<1>3. Shut(q) \in Sockets /\ Shut(q).up = empty /\ Shut(q).down = q.down /\ Shut(q).peer = p
  BY <1>1, <1>2 DEF Sockets
<1>4. QED
  BY <1>1, <1>3 DEF empty

(* try_write of a whole answer, of a part of it, or in vain *)
LEMMA Written ==
  ASSUME TypeInv, StreamInv, NEW i \in Used, NEW c \in Connections, c.s = conns[i].s,
         c.state = "Writing", c.pending = NoReq, c.send_buf # <<>>, TryWrite(i, c)
  PROVE  \E q \in Sockets :
           \/ \E k \in Connections :
                /\ Stays(i, k, q) /\ ConnOk(k) /\ k.pending = NoReq /\ q.up = sock[c.s].up
                /\ \/ /\ k.state = "Writing" /\ k.send_buf = c.send_buf
                      /\ k.recv_buf = c.recv_buf /\ q.down = sock[c.s].down
                   \/ /\ k.state = "Reading" /\ k.recv_buf = <<>>
                      /\ sock[c.s].peer = "open" => q.down = sock[c.s].down \o c.send_buf
           \/ /\ Leaves(i, q) /\ q.up = <<>>
              /\ sock[c.s].peer = "open" => q.down = sock[c.s].down \o c.send_buf
<1> DEFINE k0 == sock[c.s]
           sent == [k0 EXCEPT !.down = IF k0.peer = "open" THEN @ \o c.send_buf ELSE @,
                              !.peer = IF @ = "open" THEN @ ELSE "rst",
                              !.edge = @ \/ k0.peer # "open"]
           part == [c EXCEPT !.send_pos = 1]
           full == [k0 EXCEPT !.full = TRUE]
<1>1. c.s \in Streams /\ k0 \in Sockets /\ sock \in [Streams -> Sockets]
  BY UsedIs DEF TypeInv
<1>2. /\ sent \in Sockets /\ sent.up = k0.up /\ sent.open = k0.open
      /\ k0.peer = "open" => sent.peer = "open" /\ sent.down = k0.down \o c.send_buf
  <2>1. c.send_buf \in Seq(Answers) /\ k0.down \o c.send_buf \in Seq(Answers)
    BY <1>1 DEF Connections, Sockets
  <2>2. (k0.edge \/ k0.peer # "open") \in BOOLEAN
    BY <1>1, Zenon DEF Sockets
  <2>3. QED
    BY <1>1, <2>1, <2>2 DEF Sockets
<1>3. /\ Reset(c) \in Connections /\ ConnOk(Reset(c)) /\ Reset(c).s = c.s
      /\ Reset(c).pending = NoReq /\ Reset(c).state = "Reading" /\ Reset(c).recv_buf = <<>>
  <2>1. /\ Reset(c) \in Connections /\ Reset(c).s = c.s /\ Reset(c).send_buf = <<>>
        /\ Reset(c).pending = NoReq /\ Reset(c).state = "Reading" /\ Reset(c).recv_buf = <<>>
    <3> DEFINE empty == <<>>
    <3>1. empty \in Seq(Parts) /\ empty \in Seq(Answers)
      OBVIOUS
    <3>2. Reset(c) = [c EXCEPT !.recv_buf = empty, !.send_buf = empty, !.send_pos = 0,
                               !.pending = NoReq, !.state = "Reading"]
      BY DEF Reset
    <3> HIDE DEF empty
    <3>3. /\ Reset(c) \in Connections /\ Reset(c).s = c.s /\ Reset(c).send_buf = empty
          /\ Reset(c).pending = NoReq /\ Reset(c).state = "Reading" /\ Reset(c).recv_buf = empty
      <4>1. PICK m : m = Reset(c)
        OBVIOUS
      <4>2. m = [c EXCEPT !.recv_buf = empty, !.send_buf = empty, !.send_pos = 0,
                          !.pending = NoReq, !.state = "Reading"]
        BY <3>2, <4>1
      <4>3. m \in Connections
        BY <3>1, <4>2, NoReqType DEF Connections
      <4>4. /\ m.s = c.s /\ m.send_buf = empty /\ m.pending = NoReq /\ m.state = "Reading"
            /\ m.recv_buf = empty
        BY <4>2 DEF Connections
      <4>5. QED
        BY <4>1, <4>3, <4>4
    <3>4. QED
      BY <3>3 DEF empty
  <2>2. QED
    BY <2>1 DEF ConnOk
<1>4. /\ part \in Connections /\ ConnOk(part) /\ part.s = c.s
      /\ part.pending = NoReq /\ part.state = "Writing" /\ part.recv_buf = c.recv_buf
      /\ part.send_buf = c.send_buf
  BY DEF Connections, ConnOk
<1>5. /\ full \in Sockets /\ full.up = k0.up /\ full.open = k0.open /\ full.peer = k0.peer
      /\ full.down = k0.down
  BY <1>1 DEF Sockets
<1>6. \/ /\ k0.peer # "rst" /\ ~c.should_close
         /\ conns' = [conns EXCEPT ![i] = Reset(c)]
         /\ sock' = [sock EXCEPT ![c.s] = sent]
         /\ free' = free
      \/ /\ k0.peer # "rst" /\ c.should_close
         /\ conns' = [conns EXCEPT ![i] = NoConn]
         /\ free' = Append(free, i)
         /\ sock' = [sock EXCEPT ![c.s] = Shut(sent)]
      \/ /\ k0.peer = "open"
         /\ conns' = [conns EXCEPT ![i] = part]
         /\ sock' = [sock EXCEPT ![c.s] = full]
         /\ free' = free
      \/ /\ k0.peer = "rst"
         /\ conns' = [conns EXCEPT ![i] = NoConn]
         /\ free' = Append(free, i)
         /\ sock' = [sock EXCEPT ![c.s] = Shut(k0)]
  BY <1>1 DEF TryWrite, Remove
<1> HIDE DEF sent, part, full
<1>7. CASE /\ conns' = [conns EXCEPT ![i] = Reset(c)]
           /\ sock' = [sock EXCEPT ![c.s] = sent] /\ free' = free
  <2>1. Stays(i, Reset(c), sent)
    BY <1>2, <1>3, <1>7 DEF Stays
  <2>2. QED
    BY <1>2, <1>3, <2>1
<1>8. CASE /\ conns' = [conns EXCEPT ![i] = NoConn] /\ free' = Append(free, i)
           /\ sock' = [sock EXCEPT ![c.s] = Shut(sent)]
  <2>1. PICK p : p = Shut(sent)
    OBVIOUS
  <2>2. /\ p \in Sockets /\ p.up = <<>> /\ p.down = sent.down
        /\ sent.peer = "open" => p.peer = "open"
    BY <1>2, <2>1, ShutType
  <2>3. Leaves(i, p)
    BY <1>2, <1>8, <2>1, <2>2 DEF Leaves
  <2>4. QED
    BY <1>2, <2>2, <2>3
<1>9. CASE /\ conns' = [conns EXCEPT ![i] = part]
           /\ sock' = [sock EXCEPT ![c.s] = full] /\ free' = free
  <2>1. Stays(i, part, full)
    BY <1>4, <1>5, <1>9 DEF Stays
  <2>2. QED
    BY <1>4, <1>5, <2>1
<1>10. CASE /\ k0.peer = "rst" /\ conns' = [conns EXCEPT ![i] = NoConn]
            /\ free' = Append(free, i) /\ sock' = [sock EXCEPT ![c.s] = Shut(k0)]
  <2>1. PICK p : p = Shut(k0)
    OBVIOUS
  <2>2. p \in Sockets /\ p.up = <<>> /\ (k0.peer = "open" => p.peer = "open")
    BY <1>1, <2>1, ShutType
  <2>3. Leaves(i, p)
    BY <1>1, <1>10, <2>1, <2>2 DEF Leaves
  <2>4. QED
    BY <1>10, <2>2, <2>3
<1>11. QED
  BY <1>6, <1>7, <1>8, <1>9, <1>10

(* The steps of a connection in the event loop, put together *)
LEMMA StaysInv ==
  ASSUME Inv, UNCHANGED <<backlog, clients, queues, worker>>, npc' \in {"loop", "send"}, HeldInv',
         NEW i, NEW k, NEW q, Stays(i, k, q), ConnOk(k), k.pending = conns[i].pending,
         \A r \in Requests : HasHeaders(q.up, r) \/ Carries(k, r) =>
                               HasHeaders(sock[k.s].up, r) \/ Carries(conns[i], r),
         \A c \in Clients : InTime(c) /\ cstream[c] = conns[i].s => Serves(cpc[c], request[c], k, q)
  PROVE  Inv'
<1>1. /\ Used' = Used /\ conns' \in Seq(Connections) /\ sock' \in [Streams -> Sockets]
      /\ free' = free /\ conns'[i] = k /\ \A l \in Used \ {i} : conns'[l] = conns[l]
  <2>1. free' = free
    BY DEF Stays
  <2>2. QED
    BY <2>1, StaysUsed DEF Inv
<1>2. TypeInv'
  BY <1>1 DEF Inv, TypeInv, clients, queues, worker
<1>3. StreamInv' /\ ClientInv' /\ PoolInv'
  BY StaysPool DEF Inv
<1>4. FlightInv'
  BY <1>1, FlightKept DEF Inv, queues, worker
<1>5. OneStreamInv'
  BY StaysOneStream DEF Inv, clients
<1>6. OwnInv'
  BY StaysOwn DEF Inv
<1>7. QED
  BY <1>2, <1>3, <1>4, <1>5, <1>6 DEF Inv

LEMMA LeavesInv ==
  ASSUME Inv, UNCHANGED <<backlog, clients, queues, worker>>, npc' \in {"loop", "send"}, HeldInv',
         NEW i, NEW q, Leaves(i, q), conns[i].pending = NoReq, q.up = <<>>,
         \A c \in Clients : InTime(c) /\ cstream[c] = conns[i].s =>
           q.down = <<>> \/ (cpc[c] = "wait" /\ OwnAnswer(request[c], q.down))
  PROVE  Inv'
<1>1. /\ Used' = Used \ {i} /\ conns' \in Seq(Connections) /\ sock' \in [Streams -> Sockets]
      /\ free' \in Seq(Nat) /\ \A l \in Used' : conns'[l] = conns[l]
  BY LeavesUsed DEF Inv
<1>2. TypeInv'
  BY <1>1 DEF Inv, TypeInv, clients, queues, worker
<1>3. StreamInv' /\ ClientInv' /\ PoolInv'
  BY LeavesPool DEF Inv
<1>4. FlightInv'
  BY <1>1, FlightKept DEF Inv, queues, worker
<1>5. OneStreamInv'
  BY LeavesOneStream DEF Inv, clients
<1>6. OwnInv'
  BY LeavesOwn DEF Inv
<1>7. QED
  BY <1>2, <1>3, <1>4, <1>5, <1>6 DEF Inv

-----------------------------------------------------------------------------
(* Steps that leave the connections alone *)

(* Edges, and sockets that become writable, change nothing that the        *)
(* invariant speaks of.                                                    *)
LEMMA SameStreams ==
  ASSUME Inv, UNCHANGED <<backlog, pool, queues, worker, clients>>,
         npc' \in {"loop", "send", "join", "done", "failed"},
         npc' = "send" => npc = "send" /\ held' = held,
         sock' \in [Streams -> Sockets],
         \A s \in Streams : /\ sock'[s].up = sock[s].up /\ sock'[s].down = sock[s].down
                            /\ sock'[s].peer = sock[s].peer /\ sock'[s].open = sock[s].open,
         \A s \in (used + 1)..MaxStreams : sock'[s] = sock[s]
  PROVE  Inv'
<1>1. Used' = Used /\ UNCHANGED <<conns, free, backlog, reqQ, respQ, batch, wpc>>
      /\ UNCHANGED <<cpc, cstream, request, late, used>>
  BY DEF Used, pool, queues, worker, clients
<1>2. TypeInv'
  BY <1>1 DEF Inv, TypeInv
<1>3. /\ \A j \in DOMAIN backlog : backlog[j] \in Streams
      /\ \A i \in Used : conns[i].s \in Streams
      /\ \A c \in Clients : cpc[c] # "off" => cstream[c] \in Streams
  BY UsedIs, StreamAssumption DEF Inv, TypeInv, StreamInv, ClientInv, Streams
<1>4. StreamInv'
  BY <1>1, <1>3 DEF Inv, StreamInv
<1>5. ClientInv'
  BY <1>1, <1>3 DEF Inv, ClientInv
<1>6. PoolInv' /\ HeldInv'
  BY <1>1 DEF Inv, PoolInv, HeldInv, ConnOk
<1>7. FlightInv'
  BY <1>1, FlightKept DEF Inv
<1>8. OneStreamInv'
  <2>1. \A s \in Streams, r \in Requests : On(s, r)' => On(s, r)
    BY <1>1 DEF On, Carries, HasHeaders
  <2>2. QED
    BY <1>1, <2>1, OneStreamKept DEF Inv
<1>9. OwnInv'
  <2>1. ASSUME NEW c \in Clients, InTime(c), NEW i \in Used, conns[i].s = cstream[c]
        PROVE  Serves(cpc[c], request[c], conns[i], sock'[cstream[c]])
    <3>1. Serves(cpc[c], request[c], conns[i], sock[cstream[c]]) /\ cstream[c] \in Streams
      BY <1>3, <2>1 DEF Inv, OwnInv, InTime
    <3>2. QED
      BY <3>1 DEF Serves, Unread, Answering
  <2>2. QED
    BY <1>1, <1>3, <2>1 DEF Inv, OwnInv, InTime
<1>10. QED
  BY <1>2, <1>4, <1>5, <1>6, <1>7, <1>8, <1>9 DEF Inv

(* mio::Poll::poll *)
LEMMA PollInv == ASSUME Inv, Poll, UNCHANGED clients PROVE Inv'
<1>1. sock' = [s \in Streams |-> IF \E i \in Polled : conns[i].s = s
                                 THEN [sock[s] EXCEPT !.edge = FALSE] ELSE sock[s]]
      /\ UNCHANGED <<backlog, pool, npc, held, worker, queues>> /\ sock \in [Streams -> Sockets]
      /\ npc \in {"loop", "send", "join", "done", "failed"}
  BY DEF Poll, Inv, TypeInv
<1>2. ASSUME NEW s \in Streams
      PROVE  /\ sock'[s] \in Sockets /\ sock'[s].up = sock[s].up /\ sock'[s].down = sock[s].down
             /\ sock'[s].peer = sock[s].peer /\ sock'[s].open = sock[s].open
  <2>1. sock'[s] = [sock[s] EXCEPT !.edge = FALSE] \/ sock'[s] = sock[s]
    BY <1>1
  <2>2. sock[s] \in Sockets
    BY <1>1
  <2>3. QED
    BY <2>1, <2>2 DEF Sockets
<1>3. ASSUME NEW s \in (used + 1)..MaxStreams PROVE sock'[s] = sock[s]
  <2>1. s \in Streams /\ \A i \in Polled : conns[i].s # s
    BY StreamAssumption DEF Inv, StreamInv, Polled, Streams, TypeInv
  <2>2. QED
    BY <1>1, <2>1
<1>4. sock' \in [Streams -> Sockets]
  BY <1>1, <1>2
<1>5. QED
  BY <1>1, <1>2, <1>3, <1>4, SameStreams

LEMMA WritableInv ==
  ASSUME Inv, NEW s \in Streams, Writable(s), UNCHANGED clients
  PROVE  Inv'
<1> DEFINE q == [sock[s] EXCEPT !.full = FALSE, !.edge = sock[s].open]
<1>1. /\ sock' = [sock EXCEPT ![s] = q] /\ UNCHANGED <<backlog, pool, npc, held, worker, queues>>
      /\ sock \in [Streams -> Sockets] /\ npc \in {"loop", "send", "join", "done", "failed"}
      /\ sock[s].full
  BY DEF Writable, network, round, Inv, TypeInv
<1>2. /\ q \in Sockets /\ q.up = sock[s].up /\ q.down = sock[s].down
      /\ q.peer = sock[s].peer /\ q.open = sock[s].open
  BY <1>1 DEF Sockets
<1>3. s \notin (used + 1)..MaxStreams
  BY <1>1 DEF Inv, StreamInv, Sock
<1> HIDE DEF q
<1>4. sock' \in [Streams -> Sockets] /\ \A t \in Streams : sock'[t] = IF t = s THEN q ELSE sock[t]
  BY <1>1, <1>2
<1>5. \A t \in (used + 1)..MaxStreams : t \in Streams
  BY StreamAssumption DEF Inv, TypeInv, Streams
<1>6. QED
  BY <1>1, <1>2, <1>3, <1>4, <1>5, SameStreams

(* Steps that change the program counters only *)
LEMMA IdleInv ==
  ASSUME Inv, UNCHANGED clients,
         AcceptBreaks \/ RunFails \/ (\E e \in todo : IgnoreEvent(e)) \/ LeaveLoop \/ Join \/ Shutdown
  PROVE  Inv'
<1>1. /\ UNCHANGED <<sock, backlog, pool, worker, queues>>
      /\ npc' \in {"loop", "send", "join", "done", "failed"}
      /\ npc' = "send" => npc = "send" /\ held' = held
  BY DEF AcceptBreaks, RunFails, IgnoreEvent, LeaveLoop, Join, Shutdown, streams, network, round,
         Inv, TypeInv
<1>2. sock' \in [Streams -> Sockets] /\ \A s \in (used + 1)..MaxStreams : sock'[s] = sock[s]
  BY <1>1 DEF Inv, TypeInv
<1>3. QED
  BY <1>1, <1>2, SameStreams

-----------------------------------------------------------------------------
(* The worker hands requests on in order. *)

Messages == InProgress \cup Results

LEMMA Messaging ==
  ASSUME TypeInv
  PROVE  reqQ \in Seq(Messages) /\ batch \in Seq(Messages) /\ respQ \in Seq(Messages)
BY DEF TypeInv, Messages

(* A queue without its head *)
LEMMA TailIs ==
  ASSUME NEW S, NEW s \in Seq(S), s # <<>>
  PROVE  /\ Len(s) \in Nat \ {0} /\ Tail(s) \in Seq(S) /\ Len(Tail(s)) = Len(s) - 1
         /\ \A j \in 1..(Len(s) - 1) : Tail(s)[j] = s[j + 1]
         /\ Head(s) = s[1] /\ s[1] \in S
<1>1. Len(s) \in Nat \ {0}
  BY EmptySeq
<1>2. QED
  BY <1>1

(* The head of queue c becomes y and moves to the end of queue b. *)
LEMMA HeadMoves ==
  ASSUME NEW S, NEW b \in Seq(S), NEW c \in Seq(S), c # <<>>, NEW y \in S
  PROVE  \A f, g : f = Append(b, y) \o Tail(c) /\ g = b \o c =>
         /\ f \in Seq(S) /\ g \in Seq(S) /\ Len(f) = Len(g)
         /\ Len(b) + 1 \in 1..Len(g) /\ g[Len(b) + 1] = Head(c) /\ f[Len(b) + 1] = y
         /\ \A j \in 1..Len(g) : j # Len(b) + 1 => f[j] = g[j]
<1> SUFFICES ASSUME NEW f, f = Append(b, y) \o Tail(c), NEW g, g = b \o c
             PROVE  /\ f \in Seq(S) /\ g \in Seq(S) /\ Len(f) = Len(g)
                    /\ Len(b) + 1 \in 1..Len(g) /\ g[Len(b) + 1] = Head(c) /\ f[Len(b) + 1] = y
                    /\ \A j \in 1..Len(g) : j # Len(b) + 1 => f[j] = g[j]
  OBVIOUS
<1> DEFINE d == Tail(c)
           a == Append(b, y)
<1>1. /\ Len(c) \in Nat \ {0} /\ d \in Seq(S) /\ Len(d) = Len(c) - 1
      /\ \A j \in 1..(Len(c) - 1) : d[j] = c[j + 1]
      /\ Head(c) = c[1]
  BY TailIs
<1>2. /\ a \in Seq(S) /\ Len(a) = Len(b) + 1 /\ a[Len(b) + 1] = y /\ Len(b) \in Nat
      /\ \A j \in 1..Len(b) : a[j] = b[j]
  BY AppendProperties, LenProperties
<1> HIDE DEF d, a
<1>3. f = a \o d
  BY DEF a, d
<1>4. /\ f \in Seq(S) /\ Len(f) = Len(a) + Len(d)
      /\ \A j \in 1..(Len(a) + Len(d)) : f[j] = IF j <= Len(a) THEN a[j] ELSE d[j - Len(a)]
  <2>1. /\ a \o d \in Seq(S) /\ Len(a \o d) = Len(a) + Len(d)
        /\ \A j \in 1..(Len(a) + Len(d)) : (a \o d)[j] = IF j <= Len(a) THEN a[j] ELSE d[j - Len(a)]
    <3>1. a \in Seq(S) /\ d \in Seq(S)
      BY <1>1, <1>2
    <3>2. QED
      BY <3>1, ConcatProperties
  <2>2. QED
    BY <1>3, <2>1, Zenon
<1>5. /\ g \in Seq(S) /\ Len(g) = Len(b) + Len(c)
      /\ \A j \in 1..(Len(b) + Len(c)) : g[j] = IF j <= Len(b) THEN b[j] ELSE c[j - Len(b)]
  BY ConcatProperties
<1>6. Len(f) = Len(g) /\ Len(b) + 1 \in 1..Len(g)
  BY <1>1, <1>2, <1>4, <1>5
<1>7. g[Len(b) + 1] = Head(c) /\ f[Len(b) + 1] = y
  BY <1>1, <1>2, <1>4, <1>5
<1>8. ASSUME NEW j \in 1..Len(g), j # Len(b) + 1 PROVE f[j] = g[j]
  <2>1. CASE j <= Len(b)
    BY <1>1, <1>2, <1>4, <1>5, <1>6, <2>1
  <2>2. CASE j > Len(b) + 1
    <3>1. f[j] = d[j - Len(a)] /\ g[j] = c[j - Len(b)]
      BY <1>1, <1>2, <1>4, <1>5, <1>6, <2>2
    <3>2. j - Len(a) \in 1..(Len(c) - 1) /\ (j - Len(a)) + 1 = j - Len(b)
      BY <1>1, <1>2, <1>5, <2>2
    <3>3. QED
      BY <1>1, <3>1, <3>2
  <2>3. QED
    BY <1>2, <1>8, <2>1, <2>2
<1>9. QED
  BY <1>4, <1>5, <1>6, <1>7, <1>8

(* The worker's steps change no message but for its result. *)
LEMMA FlightMoved ==
  ASSUME FlightInv, UNCHANGED conns, DOMAIN InFlight' = DOMAIN InFlight,
         \A j \in DOMAIN InFlight : /\ InFlight'[j].req = InFlight[j].req
                                    /\ InFlight'[j].token = InFlight[j].token,
         \A j \in DOMAIN respQ' : respQ'[j].ok => respQ'[j].req.kind \in {"ok", "close"},
         (wpc' \in {"top", "done"}) <=> (batch' = <<>>)
  PROVE  FlightInv'
<1>1. Used' = Used
  BY DEF Used
<1>2. QED
  BY <1>1 DEF FlightInv, Matches, WellFormed

(* The worker touches no connection. *)
LEMMA WorkerKeeps ==
  ASSUME Inv, UNCHANGED <<streams, network, clients>>, FlightInv',
         reqQ' \in Seq(InProgress), batch' \in Seq(InProgress), respQ' \in Seq(Results),
         wpc' \in {"top", "drain", "process", "done"}
  PROVE  Inv'
<1>1. Used' = Used /\ UNCHANGED <<sock, backlog, conns, free, npc, held>>
      /\ UNCHANGED <<cpc, cstream, request, late, used>>
  BY DEF Used, streams, network, pool, round, clients
<1>2. TypeInv' /\ StreamInv'
  BY <1>1 DEF Inv, TypeInv, StreamInv
<1>3. ClientInv' /\ PoolInv' /\ HeldInv'
  BY <1>1 DEF Inv, ClientInv, PoolInv, HeldInv, ConnOk
<1>4. OneStreamInv'
  <2>1. \A s \in Streams, r \in Requests : On(s, r)' => On(s, r)
    BY <1>1 DEF On, Carries, HasHeaders
  <2>2. QED
    BY <1>1, <2>1, OneStreamKept DEF Inv
<1>5. OwnInv'
  BY <1>1 DEF Inv, OwnInv, InTime
<1>6. QED
  BY <1>2, <1>3, <1>4, <1>5 DEF Inv

LEMMA WorkerTakeInv ==
  ASSUME Inv, WorkerRound \/ WorkerTake, UNCHANGED clients
  PROVE  Inv'
<1>1. /\ reqQ \in Seq(InProgress) /\ batch \in Seq(InProgress) /\ reqQ # <<>>
      /\ batch' = Append(batch, Head(reqQ)) /\ reqQ' = Tail(reqQ) /\ respQ' = respQ
      /\ wpc' = "drain" /\ respQ \in Seq(Results)
      /\ UNCHANGED <<streams, network>>
  <2>1. wpc = "top" => batch = <<>>
    BY DEF Inv, FlightInv
  <2>2. \A x : Append(<<>>, x) = <<x>>
    OBVIOUS
  <2>3. QED
    BY <2>1, <2>2 DEF WorkerRound, WorkerTake, Inv, TypeInv
<1>2. /\ reqQ' \in Seq(InProgress) /\ batch' \in Seq(InProgress) /\ batch' # <<>>
      /\ Head(reqQ) \in InProgress
  BY <1>1, TailIs, AppendProperties
<1>3. InFlight' = InFlight
  <2> DEFINE b == respQ \o batch
             y == Head(reqQ)
  <2>1. /\ respQ \in Seq(Messages) /\ batch \in Seq(Messages) /\ reqQ \in Seq(Messages)
        /\ b \in Seq(Messages) /\ y \in Messages
    BY <1>1, <1>2, Messaging, ConcatProperties DEF Inv, Messages
  <2>2. InFlight = b \o reqQ
    BY DEF InFlight
  <2>3. InFlight' = Append(b, y) \o Tail(reqQ)
    <3>1. respQ \o Append(batch, y) = Append(respQ \o batch, y)
      BY <2>1
    <3>2. QED
      BY <1>1, <3>1 DEF InFlight
  <2> HIDE DEF b, y
  <2>4. /\ InFlight' \in Seq(Messages) /\ InFlight \in Seq(Messages)
        /\ Len(InFlight') = Len(InFlight) /\ InFlight[Len(b) + 1] = y
        /\ InFlight'[Len(b) + 1] = y
        /\ \A j \in 1..Len(InFlight) : j # Len(b) + 1 => InFlight'[j] = InFlight[j]
    <3>1. \A f, g : f = Append(b, y) \o Tail(reqQ) /\ g = b \o reqQ =>
            /\ f \in Seq(Messages) /\ g \in Seq(Messages) /\ Len(f) = Len(g)
            /\ Len(b) + 1 \in 1..Len(g) /\ g[Len(b) + 1] = Head(reqQ) /\ f[Len(b) + 1] = y
            /\ \A j \in 1..Len(g) : j # Len(b) + 1 => f[j] = g[j]
      <4>1. reqQ # <<>> /\ b \in Seq(Messages) /\ reqQ \in Seq(Messages) /\ y \in Messages
        BY <1>1, <2>1
      <4>2. QED
        BY <4>1, HeadMoves
    <3>2. QED
      BY <2>2, <2>3, <3>1, Zenon DEF y
  <2>5. QED
    BY <2>4, SeqEqual
<1>4. FlightInv'
  <2>1. UNCHANGED conns
    BY <1>1 DEF network, pool
  <2>2. QED
    BY <1>1, <1>2, <1>3, <2>1, FlightMoved DEF Inv, FlightInv
<1>5. QED
  BY <1>1, <1>2, <1>4, WorkerKeeps

LEMMA ProcessRequestInv ==
  ASSUME Inv, ProcessRequest, UNCHANGED clients
  PROVE  Inv'
<1> DEFINE y == Answer(Head(batch))
<1>1. /\ batch \in Seq(InProgress) /\ respQ \in Seq(Results) /\ reqQ \in Seq(InProgress)
      /\ batch # <<>> /\ batch' = Tail(batch) /\ respQ' = Append(respQ, y) /\ reqQ' = reqQ
      /\ wpc' = IF Len(batch) = 1 THEN "top" ELSE "process"
      /\ UNCHANGED <<streams, network>>
  BY DEF ProcessRequest, Processing, Inv, TypeInv, FlightInv
<1>2. /\ Head(batch) \in InProgress /\ batch' \in Seq(InProgress)
      /\ Len(batch') = Len(batch) - 1 /\ Len(batch) \in Nat
  BY <1>1, TailIs
<1>3. /\ y \in Results /\ y.req = Head(batch).req /\ y.token = Head(batch).token
      /\ y.ok => Head(batch).req.kind # "empty"
  <2>1. (Transaction(Head(batch).req) # <<>>) \in BOOLEAN
    OBVIOUS
  <2>2. QED
    BY <1>2, <2>1 DEF Answer, InProgress, Results, Transaction
<1>4. respQ' \in Seq(Results)
  BY <1>1, <1>3, AppendProperties
<1> HIDE DEF y
<1>5. /\ DOMAIN InFlight' = DOMAIN InFlight
      /\ \A j \in DOMAIN InFlight : /\ InFlight'[j].req = InFlight[j].req
                                    /\ InFlight'[j].token = InFlight[j].token
      /\ Len(respQ) + 1 \in DOMAIN InFlight /\ InFlight[Len(respQ) + 1] = Head(batch)
  <2> DEFINE f == Append(respQ, y) \o Tail(batch)
             g == respQ \o batch
  <2>1. /\ respQ \in Seq(Messages) /\ batch \in Seq(Messages) /\ reqQ \in Seq(Messages)
        /\ y \in Messages
    BY <1>1, <1>3, Messaging DEF Inv, Messages
  <2>2. /\ f \in Seq(Messages) /\ g \in Seq(Messages) /\ Len(f) = Len(g)
        /\ Len(respQ) + 1 \in 1..Len(g) /\ g[Len(respQ) + 1] = Head(batch) /\ f[Len(respQ) + 1] = y
        /\ \A j \in 1..Len(g) : j # Len(respQ) + 1 => f[j] = g[j]
    BY <1>1, <2>1, HeadMoves
  <2>3. InFlight = g \o reqQ /\ InFlight' = f \o reqQ
    BY <1>1 DEF InFlight
  <2> HIDE DEF f, g
  <2>4. /\ Len(g) \in Nat /\ Len(reqQ) \in Nat
        /\ DOMAIN InFlight = 1..(Len(g) + Len(reqQ)) /\ DOMAIN InFlight' = 1..(Len(g) + Len(reqQ))
        /\ \A j \in 1..(Len(g) + Len(reqQ)) :
             /\ InFlight[j] = IF j <= Len(g) THEN g[j] ELSE reqQ[j - Len(g)]
             /\ InFlight'[j] = IF j <= Len(g) THEN f[j] ELSE reqQ[j - Len(g)]
    <3>1. /\ Len(g) \in Nat /\ Len(reqQ) \in Nat
          /\ DOMAIN (g \o reqQ) = 1..(Len(g) + Len(reqQ))
          /\ \A j \in 1..(Len(g) + Len(reqQ)) :
               (g \o reqQ)[j] = IF j <= Len(g) THEN g[j] ELSE reqQ[j - Len(g)]
      BY <2>1, <2>2
    <3>2. /\ DOMAIN (f \o reqQ) = 1..(Len(f) + Len(reqQ))
          /\ \A j \in 1..(Len(f) + Len(reqQ)) :
               (f \o reqQ)[j] = IF j <= Len(f) THEN f[j] ELSE reqQ[j - Len(f)]
      <4>1. f \in Seq(Messages) /\ reqQ \in Seq(Messages)
        BY <2>1, <2>2
      <4>2. QED
        BY <4>1, ConcatProperties, LenProperties
    <3>3. QED
      BY <2>2, <2>3, <3>1, <3>2, Zenon
  <2>5. ASSUME NEW j \in DOMAIN InFlight
        PROVE  InFlight'[j] = InFlight[j] \/ (InFlight'[j] = y /\ InFlight[j] = Head(batch))
    BY <2>2, <2>4
  <2>6. Len(respQ) + 1 \in DOMAIN InFlight /\ InFlight[Len(respQ) + 1] = Head(batch)
    BY <2>2, <2>4
  <2>7. QED
    BY <1>3, <2>4, <2>5, <2>6
<1>6. Head(batch).req.kind \in {"ok", "close", "empty"}
  BY <1>5 DEF Inv, FlightInv, WellFormed
<1>7. \A j \in DOMAIN respQ' : respQ'[j].ok => respQ'[j].req.kind \in {"ok", "close"}
  <2>1. \A j \in DOMAIN respQ' : respQ'[j] = y \/ (j \in DOMAIN respQ /\ respQ'[j] = respQ[j])
    BY <1>1, <1>3
  <2>2. QED
    BY <1>3, <1>6, <2>1 DEF Inv, FlightInv
<1>8. (wpc' \in {"top", "done"}) <=> (batch' = <<>>)
  <2>1. batch' = <<>> <=> Len(batch') = 0
    BY <1>2, EmptySeq
  <2>2. QED
    BY <1>1, <1>2, <2>1
<1>9. FlightInv'
  <2>1. UNCHANGED conns
    BY <1>1 DEF network, pool
  <2>2. QED
    BY <1>5, <1>7, <1>8, <2>1, FlightMoved DEF Inv
<1>10. QED
  BY <1>1, <1>2, <1>4, <1>9, WorkerKeeps

LEMMA WorkerExitInv ==
  ASSUME Inv, WorkerExit, UNCHANGED clients
  PROVE  Inv'
<1>1. /\ UNCHANGED <<streams, network, batch, reqQ, respQ>> /\ wpc = "top" /\ wpc' = "done"
      /\ UNCHANGED conns
  BY DEF WorkerExit, queues, network, pool
<1>2. FlightInv'
  <2>1. InFlight' = InFlight
    BY <1>1 DEF InFlight
  <2>2. QED
    BY <1>1, <2>1, FlightMoved DEF Inv, FlightInv
<1>3. QED
  BY <1>1, <1>2, WorkerKeeps DEF Inv, TypeInv

-----------------------------------------------------------------------------
(* Reading *)

(* find_headers_end finds the least place. *)
LEMMA FirstIs ==
  ASSUME NEW S \in SUBSET Nat, S # {}
  PROVE  First(S) \in S /\ \A l \in S : First(S) <= l
<1>1. PICK x \in S : \A y \in S : ~(<<y, x>> \in OpToRel(<, Nat))
  BY NatLessThanWellFounded, WFMin
<1>2. \A y \in S : x <= y
  <2>1. \A a, b \in Nat : a < b => <<a, b>> \in OpToRel(<, Nat)
    BY DEF OpToRel
  <2>2. \A y \in S : ~(y < x)
    BY <1>1, <2>1, Zenon
  <2>3. QED
    BY <2>2
<1>3. QED
  BY <1>2 DEF First

(* What is parsed is one of the requests whose headers are in the buffer,  *)
(* unless it is spoilt.                                                    *)
LEMMA ParsedIs ==
  ASSUME NEW buf \in Seq(Parts), IsRequestComplete(buf)
  PROVE  /\ buf # <<>> /\ Parsed(buf) \in Requests
         /\ WellFormed(Parsed(buf)) => HasHeaders(buf, Parsed(buf))
<1>1. DOMAIN buf = 1..Len(buf) /\ Len(buf) \in Nat /\ HeadersAt(buf) \in SUBSET Nat
      /\ HeadersAt(buf) # {}
  BY DEF IsRequestComplete, HeadersAt
<1>2. First(HeadersAt(buf)) \in HeadersAt(buf)
  BY <1>1, FirstIs
<1>3. 1 \in DOMAIN buf /\ buf[1] \in Parts /\ buf[1].req \in Requests /\ buf # <<>>
  <2>1. First(HeadersAt(buf)) \in 1..Len(buf)
    BY <1>1, <1>2 DEF HeadersAt
  <2>2. 1 \in DOMAIN buf /\ Len(buf) # 0
    BY <1>1, <2>1
  <2>3. buf[1] \in Parts
    BY <1>1, <2>2, ElementOfSeq
  <2>4. QED
    BY <2>2, <2>3, EmptySeq DEF Parts
<1>4. Parsed(buf) \in Requests
  BY <1>3, NoReqType DEF Parsed
<1>5. ASSUME WellFormed(Parsed(buf)) PROVE HasHeaders(buf, Parsed(buf))
  <2>1. Parsed(buf) = buf[1].req /\ First(HeadersAt(buf)) = 1
    BY <1>5, WellFormedReq DEF Parsed
  <2>2. buf[1].part = 1
    BY <1>2, <2>1 DEF HeadersAt
  <2>3. buf[1] = [req |-> buf[1].req, part |-> 1]
    BY <1>3, <2>2 DEF Parts
  <2>4. QED
    BY <1>3, <2>1, <2>3 DEF HasHeaders
<1>6. QED
  BY <1>3, <1>4, <1>5

(* When all that a client has sent is its request in hand, that is what is *)
(* parsed, and the client waits for the answer.                            *)
LEMMA CompleteOutgoing ==
  ASSUME NEW pc, NEW r \in Requests, NEW buf \in Seq(Parts), NEW u \in Seq(Parts),
         buf \o u = Outgoing(pc, r), IsRequestComplete(buf)
  PROVE  pc = "wait" /\ u = <<>> /\ Parsed(buf) = r
<1>1. DOMAIN buf = 1..Len(buf) /\ Len(buf) \in Nat /\ HeadersAt(buf) \in SUBSET Nat
      /\ HeadersAt(buf) # {} /\ First(HeadersAt(buf)) < Len(buf)
  BY DEF IsRequestComplete, IsBodyComplete, HeadersAt
<1>2. /\ First(HeadersAt(buf)) \in HeadersAt(buf)
      /\ \A l \in HeadersAt(buf) : First(HeadersAt(buf)) <= l
  BY <1>1, FirstIs
<1>3. First(HeadersAt(buf)) \in 1..Len(buf)
  BY <1>1, <1>2 DEF HeadersAt
<1>4. Len(buf) >= 2
  BY <1>1, <1>3
<1>5. Len(buf \o u) = Len(buf) + Len(u) /\ Len(u) \in Nat
  BY ConcatProperties, LenProperties
<1>6. pc = "wait" /\ Outgoing(pc, r) = BuildRequest(r)
  <2>1. CASE pc = "half"
    <3>1. Len(Outgoing(pc, r)) = 1
      BY <2>1 DEF Outgoing, BuildRequest
    <3>2. Len(buf) + Len(u) = 1
      BY <1>5, <3>1, Zenon
    <3>3. QED
      BY <1>1, <1>4, <1>5, <3>2
  <2>2. CASE pc \notin {"half", "wait"}
    <3>1. Len(Outgoing(pc, r)) = 0
      BY <2>2 DEF Outgoing
    <3>2. Len(buf) + Len(u) = 0
      BY <1>5, <3>1, Zenon
    <3>3. QED
      BY <1>1, <1>4, <1>5, <3>2
  <2>3. CASE pc = "wait"
    BY <2>3 DEF Outgoing
  <2>4. QED
    BY <2>1, <2>2, <2>3
<1>7. Len(BuildRequest(r)) = 2 /\ BuildRequest(r)[1] = [req |-> r, part |-> 1]
  BY DEF BuildRequest
<1>8. Len(buf) = 2 /\ Len(u) = 0
  BY <1>1, <1>4, <1>5, <1>6, <1>7
<1>9. buf[1] = [req |-> r, part |-> 1]
  <2>1. (buf \o u)[1] = buf[1]
    BY <1>8
  <2>2. QED
    BY <1>6, <1>7, <2>1
<1>10. 1 \in HeadersAt(buf)
  BY <1>1, <1>8, <1>9 DEF HeadersAt
<1>11. First(HeadersAt(buf)) = 1
  BY <1>1, <1>2, <1>3, <1>10
<1>12. Parsed(buf) = r
  BY <1>9, <1>11 DEF Parsed
<1>13. QED
  BY <1>6, <1>8, <1>12, EmptySeq

(* The same when nothing is left on the stream *)
LEMMA CompleteAll ==
  ASSUME NEW pc, NEW r \in Requests, NEW buf \in Seq(Parts),
         buf = Outgoing(pc, r), IsRequestComplete(buf)
  PROVE  pc = "wait" /\ Parsed(buf) = r
<1>1. PICK u \in Seq(Parts) : u = <<>>
  BY EmptySeq
<1>2. buf \o u = Outgoing(pc, r)
  BY <1>1, ConcatEmptySeq
<1>3. QED
  BY <1>2, CompleteOutgoing

(* Headers in what is received are in one of its two pieces. *)
LEMMA HeadersOfConcat ==
  ASSUME NEW a \in Seq(Parts), NEW b \in Seq(Parts), NEW r, HasHeaders(a \o b, r)
  PROVE  HasHeaders(a, r) \/ HasHeaders(b, r)
<1>1. PICK j \in DOMAIN (a \o b) : (a \o b)[j] = [req |-> r, part |-> 1]
  BY DEF HasHeaders
<1>2. PICK n \in Nat : n = Len(a)
  BY LenProperties
<1>3. /\ DOMAIN (a \o b) = 1..(n + Len(b)) /\ DOMAIN a = 1..n
      /\ DOMAIN b = 1..Len(b) /\ Len(b) \in Nat
      /\ (a \o b)[j] = IF j <= n THEN a[j] ELSE b[j - n]
  BY <1>2, ConcatProperties, LenProperties
<1>4. CASE j <= n
  <2>1. j \in DOMAIN a /\ a[j] = [req |-> r, part |-> 1]
    BY <1>1, <1>3, <1>4
  <2>2. QED
    BY <2>1 DEF HasHeaders
<1>5. CASE j > n
  <2>1. j - n \in DOMAIN b /\ b[j - n] = [req |-> r, part |-> 1]
    BY <1>1, <1>3, <1>5
  <2>2. QED
    BY <2>1 DEF HasHeaders
<1>6. QED
  BY <1>3, <1>4, <1>5

(* try_read of a connection that waits for a request: what its buffer and  *)
(* its socket then hold.                                                   *)
AfterRead(e, k, q) ==
  /\ e.i \in Used /\ conns[e.i].pending = NoReq
  /\ k \in Connections /\ k.s = conns[e.i].s /\ k.recv_buf = Received(e)
  /\ k.state = "Reading" /\ k.pending = NoReq /\ k.send_buf = <<>> /\ ConnOk(k)
  /\ q \in Sockets /\ q.up = <<>> /\ q.down = sock[k.s].down
  /\ q.open = sock[k.s].open /\ q.peer = sock[k.s].peer
  /\ Received(e) \in Seq(Parts) /\ Drained(e) = [sock EXCEPT ![k.s] = q]
  /\ \A r \in Requests : HasHeaders(Received(e), r) =>
       HasHeaders(sock[k.s].up, r) \/ Carries(conns[e.i], r)
  /\ \A c \in Clients : InTime(c) /\ cstream[c] = conns[e.i].s =>
       \/ Received(e) = Outgoing(cpc[c], request[c]) /\ q.down = <<>>
       \/ cpc[c] = "wait" /\ Received(e) = <<>> /\ OwnAnswer(request[c], q.down)

LEMMA ReadEffect ==
  ASSUME Inv, NEW e, Reads(e),
         NEW k, k = [conns[e.i] EXCEPT !.recv_buf = Received(e)],
         NEW q, q = [sock[conns[e.i].s] EXCEPT !.up = <<>>]
  PROVE  AfterRead(e, k, q)
<1> DEFINE old == conns[e.i]
           s == sock[old.s]
           buf == old.recv_buf \o s.up
<1>1. /\ e.i \in Used /\ old \in Connections /\ old.s \in Streams /\ s \in Sockets
      /\ old.state = "Reading" /\ ConnOk(old) /\ Received(e) = buf
      /\ sock \in [Streams -> Sockets]
  BY UsedIs DEF Reads, Inv, PoolInv, Received, TypeInv
<1>2. /\ old.recv_buf \in Seq(Parts) /\ s.up \in Seq(Parts) /\ buf \in Seq(Parts)
  <2> HIDE DEF old, s
  <2>1. old.recv_buf \in Seq(Parts)
    BY <1>1 DEF Connections
  <2>2. s.up \in Seq(Parts)
    BY <1>1 DEF Sockets
  <2>3. QED
    BY <2>1, <2>2, ConcatProperties
<1>3. old.pending = NoReq /\ old.send_buf = <<>>
  BY <1>1 DEF ConnOk
<1>4. /\ k \in Connections /\ k.s = old.s /\ k.recv_buf = Received(e) /\ k.state = "Reading"
      /\ k.pending = NoReq /\ k.send_buf = <<>>
  <2> HIDE DEF buf, old
  <2>1. k = [old EXCEPT !.recv_buf = buf]
    BY <1>1 DEF old
  <2>2. QED
    BY <1>1, <1>2, <1>3, <2>1 DEF Connections
<1>5. ConnOk(k)
  BY <1>4 DEF ConnOk
<1>6. /\ q \in Sockets /\ q.up = <<>> /\ q.down = s.down /\ q.open = s.open /\ q.peer = s.peer
  <2> DEFINE empty == <<>>
  <2>1. empty \in Seq(Parts) /\ q = [s EXCEPT !.up = empty]
    OBVIOUS
  <2> HIDE DEF empty, s
  <2>2. q \in Sockets /\ q.up = empty /\ q.down = s.down /\ q.open = s.open /\ q.peer = s.peer
    BY <1>1, <2>1 DEF Sockets
  <2>3. QED
    BY <2>2 DEF empty
<1>7. Drained(e) = [sock EXCEPT ![k.s] = q]
  BY <1>1, <1>4 DEF Drained
<1>8. ASSUME NEW r \in Requests, HasHeaders(buf, r)
      PROVE  HasHeaders(s.up, r) \/ HasHeaders(old.recv_buf, r)
  <2> HIDE DEF old, s
  <2>1. QED
    BY <1>2, <1>8, HeadersOfConcat
<1>9. ASSUME NEW c \in Clients, InTime(c), cstream[c] = old.s
      PROVE  \/ buf = Outgoing(cpc[c], request[c]) /\ q.down = <<>>
             \/ cpc[c] = "wait" /\ buf = <<>> /\ OwnAnswer(request[c], q.down)
  <2>1. Serves(cpc[c], request[c], old, s)
    BY <1>1, <1>9 DEF Inv, OwnInv
  <2>2. CASE Unread(cpc[c], request[c], old, s)
    BY <1>6, <2>2 DEF Unread
  <2>3. CASE Answering(cpc[c], request[c], old, s)
    <3>1. cpc[c] = "wait" /\ s.up = <<>> /\ old.recv_buf = <<>> /\ OwnAnswer(request[c], s.down)
      BY <1>1, <2>3 DEF Answering
    <3>2. QED
      BY <1>6, <3>1
  <2>4. QED
    BY <2>1, <2>2, <2>3 DEF Serves
<1>10. QED
  BY <1>1, <1>2, <1>3, <1>4, <1>5, <1>6, <1>7, <1>8, <1>9 DEF Carries, AfterRead

(* The connection goes on to serve its client after the read. *)
LEMMA ReadServes ==
  ASSUME NEW pc, NEW r, NEW k, NEW q, NEW buf \in Seq(Parts),
         k.state = "Reading", k.recv_buf = buf, q.up = <<>>,
         \/ buf = Outgoing(pc, r) /\ q.down = <<>>
         \/ pc = "wait" /\ buf = <<>> /\ OwnAnswer(r, q.down)
  PROVE  Serves(pc, r, k, q)
<1>1. buf \o <<>> = buf
  BY ConcatEmptySeq
<1>2. QED
  BY <1>1 DEF Serves, Unread, Answering

LEMMA NoHeaders == \A r : ~HasHeaders(<<>>, r)
BY DEF HasHeaders

(* A read after which the connection goes on *)
LEMMA ReadStays ==
  ASSUME Inv, NEW e, Reads(e), UNCHANGED <<backlog, free, clients, queues, worker>>,
         npc' \in {"loop", "send"}, HeldInv', sock' = Drained(e),
         conns' = [conns EXCEPT ![e.i].recv_buf = Received(e)]
  PROVE  Inv'
<1>1. PICK k : k = [conns[e.i] EXCEPT !.recv_buf = Received(e)]
  OBVIOUS
<1>2. PICK q : q = [sock[conns[e.i].s] EXCEPT !.up = <<>>]
  OBVIOUS
<1>3. AfterRead(e, k, q)
  BY <1>1, <1>2, ReadEffect
<1>4. /\ e.i \in Used /\ conns[e.i].pending = NoReq
      /\ k \in Connections /\ k.s = conns[e.i].s /\ k.recv_buf = Received(e)
      /\ k.state = "Reading" /\ k.pending = NoReq /\ ConnOk(k)
      /\ q \in Sockets /\ q.up = <<>>
      /\ q.open = sock[k.s].open /\ q.peer = sock[k.s].peer
      /\ Received(e) \in Seq(Parts) /\ Drained(e) = [sock EXCEPT ![k.s] = q]
  BY <1>3 DEF AfterRead
<1>5. \A r \in Requests : HasHeaders(Received(e), r) =>
        HasHeaders(sock[k.s].up, r) \/ Carries(conns[e.i], r)
  BY <1>3 DEF AfterRead
<1>6. ASSUME NEW c \in Clients, InTime(c), cstream[c] = conns[e.i].s
      PROVE  Serves(cpc[c], request[c], k, q)
  <2>1. \/ Received(e) = Outgoing(cpc[c], request[c]) /\ q.down = <<>>
        \/ cpc[c] = "wait" /\ Received(e) = <<>> /\ OwnAnswer(request[c], q.down)
    BY <1>3, <1>6 DEF AfterRead
  <2>2. QED
    BY <1>4, <2>1, ReadServes
<1>7. conns' = [conns EXCEPT ![e.i] = k]
  BY <1>1
<1>8. Stays(e.i, k, q)
  BY <1>4, <1>7 DEF Stays
<1>9. \A r \in Requests : HasHeaders(q.up, r) \/ Carries(k, r) =>
        HasHeaders(sock[k.s].up, r) \/ Carries(conns[e.i], r)
  BY <1>4, <1>5, NoHeaders, Zenon DEF Carries
<1>10. QED
  BY <1>4, <1>6, <1>8, <1>9, StaysInv

LEMMA ReadPartInv ==
  ASSUME Inv, NEW e \in todo, ReadPart(e), UNCHANGED clients
  PROVE  Inv'
<1>1. /\ Reads(e) /\ UNCHANGED <<backlog, free, queues, worker>> /\ npc' = "loop"
      /\ sock' = Drained(e) /\ conns' = [conns EXCEPT ![e.i].recv_buf = Received(e)]
  BY DEF ReadPart, ReadOk, Reads
<1>2. HeldInv'
  BY <1>1 DEF HeldInv
<1>3. QED
  BY <1>1, <1>2, ReadStays

LEMMA BeginSendInv ==
  ASSUME Inv, NEW e \in todo, BeginSend(e), UNCHANGED clients
  PROVE  Inv'
<1>1. /\ Reads(e) /\ UNCHANGED <<backlog, free, queues, worker>> /\ npc' = "send"
      /\ sock' = Drained(e) /\ conns' = [conns EXCEPT ![e.i].recv_buf = Received(e)]
      /\ held' = e /\ IsRequestComplete(Received(e)) /\ WellFormed(Parsed(Received(e)))
  BY DEF BeginSend, ReadOk
<1>2. HeldInv'
  <2>1. e.i \in DOMAIN conns /\ conns[e.i] \in Connections /\ conns[e.i].state = "Reading"
        /\ conns[e.i].s # 0 /\ conns \in Seq(Connections)
    BY <1>1, UsedIs DEF Reads, Inv, TypeInv
  <2>2. /\ conns'[e.i].recv_buf = Received(e) /\ conns'[e.i].state = "Reading"
        /\ conns'[e.i].s = conns[e.i].s /\ e.i \in DOMAIN conns'
    BY <1>1, <2>1 DEF Connections
  <2>3. e.i \in Used'
    BY <2>1, <2>2, ConnectionType DEF Used, NoConn
  <2>4. QED
    BY <1>1, <2>2, <2>3 DEF HeldInv
<1>3. QED
  BY <1>1, <1>2, ReadStays

LEMMA ReadFailsInv ==
  ASSUME Inv, NEW e \in todo, ReadFails(e), UNCHANGED clients
  PROVE  Inv'
<1>1. PICK q : q = Shut(sock[conns[e.i].s])
  OBVIOUS
<1>2. /\ e.i \in Used /\ conns[e.i].state = "Reading" /\ ConnOk(conns[e.i])
      /\ sock[conns[e.i].s] \in Sockets
      /\ conns' = [conns EXCEPT ![e.i] = NoConn] /\ free' = Append(free, e.i)
      /\ sock' = [sock EXCEPT ![conns[e.i].s] = q]
      /\ UNCHANGED <<backlog, queues, worker>> /\ npc' = "loop"
  BY <1>1, UsedIs DEF ReadFails, Reads, Remove, Inv, PoolInv
<1>3. /\ q \in Sockets /\ q.up = <<>> /\ q.down = sock[conns[e.i].s].down
      /\ sock[conns[e.i].s].peer = "open" => q.peer = "open"
  BY <1>1, <1>2, ShutType
<1>4. Leaves(e.i, q)
  BY <1>2, <1>3 DEF Leaves
<1>5. conns[e.i].pending = NoReq /\ HeldInv'
  BY <1>2 DEF ConnOk, HeldInv
<1>6. \A c \in Clients : InTime(c) /\ cstream[c] = conns[e.i].s =>
        q.down = <<>> \/ (cpc[c] = "wait" /\ OwnAnswer(request[c], q.down))
  BY <1>3 DEF Inv, OwnInv
<1>7. QED
  BY <1>2, <1>3, <1>4, <1>5, <1>6, LeavesInv

(* queue_response of a refusal *)
LEMMA Refused ==
  ASSUME NEW k \in Connections, k.pending = NoReq, NEW r \in Requests,
         NEW m, m = QueueResponse(k, ErrorResponse(r))
  PROVE  /\ m \in Connections /\ m.s = k.s /\ m.pending = NoReq /\ m.recv_buf = k.recv_buf
         /\ m.state = "Writing" /\ OwnAnswer(r, m.send_buf) /\ ConnOk(m)
<1> DEFINE a == [req |-> r, ok |-> FALSE]
           b == <<a>>
<1>1. a \in Answers /\ b \in Seq(Answers) /\ b # <<>>
  BY DEF Answers
<1>2. OwnAnswer(r, b)
  BY DEF OwnAnswer
<1>3. m = [k EXCEPT !.send_buf = b, !.send_pos = 0, !.state = "Writing"]
  BY DEF QueueResponse, ErrorResponse, HttpResponse
<1> HIDE DEF b
<1>4. /\ m \in Connections /\ m.s = k.s /\ m.pending = k.pending /\ m.recv_buf = k.recv_buf
      /\ m.state = "Writing" /\ m.send_buf = b
  BY <1>1, <1>3 DEF Connections
<1>5. QED
  BY <1>1, <1>2, <1>4 DEF ConnOk

LEMMA RejectRequestInv ==
  ASSUME Inv, NEW e \in todo, RejectRequest(e), UNCHANGED clients
  PROVE  Inv'
<1>1. PICK k : k = [conns[e.i] EXCEPT !.recv_buf = Received(e)]
  OBVIOUS
<1>2. PICK q : q = [sock[conns[e.i].s] EXCEPT !.up = <<>>]
  OBVIOUS
<1>3. PICK m : m = QueueResponse(k, ErrorResponse(Parsed(Received(e))))
  OBVIOUS
<1>4. /\ Reads(e) /\ IsRequestComplete(Received(e)) /\ sock' = Drained(e)
      /\ conns' = [conns EXCEPT ![e.i] = m] /\ npc' = "loop"
      /\ UNCHANGED <<backlog, free, queues, worker>>
  BY <1>1, <1>3 DEF RejectRequest, ReadOk, Reads
<1>5. AfterRead(e, k, q)
  BY <1>1, <1>2, <1>4, ReadEffect
<1>6. /\ e.i \in Used /\ conns[e.i].pending = NoReq
      /\ k \in Connections /\ k.s = conns[e.i].s /\ k.recv_buf = Received(e)
      /\ k.pending = NoReq
      /\ q \in Sockets /\ q.up = <<>>
      /\ q.open = sock[k.s].open /\ q.peer = sock[k.s].peer
      /\ Received(e) \in Seq(Parts) /\ Drained(e) = [sock EXCEPT ![k.s] = q]
  BY <1>5 DEF AfterRead
<1>7. Parsed(Received(e)) \in Requests /\ Received(e) # <<>>
  BY <1>4, <1>6, ParsedIs
<1>8. /\ m \in Connections /\ m.s = k.s /\ m.pending = NoReq /\ m.recv_buf = k.recv_buf
      /\ m.state = "Writing" /\ OwnAnswer(Parsed(Received(e)), m.send_buf) /\ ConnOk(m)
  BY <1>3, <1>6, <1>7, Refused
<1>9. Stays(e.i, m, q)
  BY <1>4, <1>6, <1>8 DEF Stays
<1>10. \A r \in Requests : HasHeaders(q.up, r) \/ Carries(m, r) =>
        HasHeaders(sock[m.s].up, r) \/ Carries(conns[e.i], r)
  <2>1. \A r \in Requests : HasHeaders(Received(e), r) =>
          HasHeaders(sock[k.s].up, r) \/ Carries(conns[e.i], r)
    BY <1>5 DEF AfterRead
  <2>2. QED
    BY <1>6, <1>8, <2>1, NoHeaders, Zenon DEF Carries
<1>11. ASSUME NEW c \in Clients, InTime(c), cstream[c] = conns[e.i].s
       PROVE  Serves(cpc[c], request[c], m, q)
  <2>1. Received(e) = Outgoing(cpc[c], request[c]) /\ q.down = <<>>
    BY <1>5, <1>7, <1>11 DEF AfterRead
  <2>2. request[c] \in Requests
    BY DEF Inv, TypeInv
  <2>3. cpc[c] = "wait" /\ Parsed(Received(e)) = request[c]
    BY <1>4, <1>6, <2>1, <2>2, CompleteAll
  <2>4. QED
    BY <1>6, <1>8, <2>1, <2>3 DEF Serves, Answering
<1>12. HeldInv'
  BY <1>4 DEF HeldInv
<1>13. QED
  BY <1>4, <1>6, <1>8, <1>9, <1>10, <1>11, <1>12, StaysInv

-----------------------------------------------------------------------------
(* Answers *)

(* try_write of an answer to the request that the client of the stream has *)
(* in hand, if it has given up none.                                       *)
LEMMA AnswerWritten ==
  ASSUME Inv, UNCHANGED <<backlog, clients>>, NEW i \in Used,
         NEW c \in Connections, c.s = conns[i].s, c.recv_buf = conns[i].recv_buf,
         c.state = "Writing", c.pending = NoReq, c.send_buf # <<>>, TryWrite(i, c),
         \A d \in Clients : InTime(d) /\ cstream[d] = c.s =>
           /\ cpc[d] = "wait" /\ sock[c.s].up = <<>> /\ sock[c.s].down = <<>>
           /\ OwnAnswer(request[d], c.send_buf)
  PROVE  /\ conns' \in Seq(Connections) /\ sock' \in [Streams -> Sockets] /\ free' \in Seq(Nat)
         /\ StreamInv' /\ ClientInv' /\ PoolInv' /\ OneStreamInv' /\ OwnInv'
         /\ \A l \in Used \ {i} : l \in Used' /\ conns'[l] = conns[l]
         /\ \A l \in Used' : l \in Used /\ (l = i => conns'[i].pending = NoReq)
<1>1. TypeInv /\ StreamInv /\ ClientInv /\ PoolInv /\ OneStreamInv /\ OwnInv
      /\ UNCHANGED request /\ free \in Seq(Nat)
  BY DEF Inv, clients, TypeInv
<1>2. PICK q \in Sockets :
        \/ \E k \in Connections :
             /\ Stays(i, k, q) /\ ConnOk(k) /\ k.pending = NoReq /\ q.up = sock[c.s].up
             /\ \/ /\ k.state = "Writing" /\ k.send_buf = c.send_buf
                   /\ k.recv_buf = c.recv_buf /\ q.down = sock[c.s].down
                \/ /\ k.state = "Reading" /\ k.recv_buf = <<>>
                   /\ sock[c.s].peer = "open" => q.down = sock[c.s].down \o c.send_buf
        \/ /\ Leaves(i, q) /\ q.up = <<>>
           /\ sock[c.s].peer = "open" => q.down = sock[c.s].down \o c.send_buf
  BY <1>1, Written
<1>3. c.send_buf \in Seq(Answers) /\ <<>> \o c.send_buf = c.send_buf
  BY ConcatEmptySeq DEF Connections
<1>4. \A d \in Clients : InTime(d) /\ cstream[d] = c.s => sock[c.s].peer = "open"
  BY <1>1 DEF ClientInv, InTime
<1>5. CASE Leaves(i, q) /\ q.up = <<>>
           /\ (sock[c.s].peer = "open" => q.down = sock[c.s].down \o c.send_buf)
  <2>1. \A d \in Clients : InTime(d) /\ cstream[d] = conns[i].s =>
          q.down = <<>> \/ (cpc[d] = "wait" /\ OwnAnswer(request[d], q.down))
    BY <1>3, <1>4, <1>5
  <2>2. OwnInv'
    BY <1>1, <1>5, <2>1, LeavesOwn
  <2>3. StreamInv' /\ ClientInv' /\ PoolInv'
    BY <1>1, <1>5, LeavesPool
  <2>4. OneStreamInv'
    BY <1>1, <1>5, LeavesOneStream
  <2>5. /\ Used' = Used \ {i} /\ conns' \in Seq(Connections) /\ sock' \in [Streams -> Sockets]
        /\ free' \in Seq(Nat) /\ \A l \in Used' : conns'[l] = conns[l]
    BY <1>1, <1>5, LeavesUsed
  <2>6. QED
    BY <2>2, <2>3, <2>4, <2>5
<1>6. ASSUME NEW k \in Connections,
             Stays(i, k, q), ConnOk(k), k.pending = NoReq, q.up = sock[c.s].up,
             \/ /\ k.state = "Writing" /\ k.send_buf = c.send_buf
                /\ k.recv_buf = c.recv_buf /\ q.down = sock[c.s].down
             \/ /\ k.state = "Reading" /\ k.recv_buf = <<>>
                /\ sock[c.s].peer = "open" => q.down = sock[c.s].down \o c.send_buf
      PROVE  /\ conns' \in Seq(Connections) /\ sock' \in [Streams -> Sockets] /\ free' \in Seq(Nat)
             /\ StreamInv' /\ ClientInv' /\ PoolInv' /\ OneStreamInv' /\ OwnInv'
             /\ \A l \in Used \ {i} : l \in Used' /\ conns'[l] = conns[l]
             /\ \A l \in Used' : l \in Used /\ (l = i => conns'[i].pending = NoReq)
  <2>1. k.s = c.s /\ free' = free
    BY <1>6 DEF Stays
  <2>2. ASSUME NEW d \in Clients, InTime(d), cstream[d] = conns[i].s
        PROVE  Serves(cpc[d], request[d], k, q)
    <3>1. /\ cpc[d] = "wait" /\ q.up = <<>> /\ sock[c.s].down = <<>>
          /\ OwnAnswer(request[d], c.send_buf) /\ sock[c.s].peer = "open"
      BY <1>4, <1>6, <2>2
    <3>2. \/ k.state = "Writing" /\ k.send_buf = c.send_buf /\ q.down = <<>>
          \/ k.state = "Reading" /\ k.recv_buf = <<>> /\ q.down = c.send_buf
      BY <1>3, <1>6, <3>1
    <3>3. QED
      BY <3>1, <3>2 DEF Serves, Answering
  <2>3. OwnInv'
    BY <1>1, <1>6, <2>2, StaysOwn
  <2>4. StreamInv' /\ ClientInv' /\ PoolInv'
    BY <1>1, <1>6, StaysPool
  <2>5. OneStreamInv'
    <3>1. \A r \in Requests : HasHeaders(q.up, r) \/ Carries(k, r) =>
            HasHeaders(sock[k.s].up, r) \/ Carries(conns[i], r)
      BY <1>6, <2>1, NoHeaders, Zenon DEF Carries
    <3>2. QED
      BY <1>1, <1>6, <3>1, StaysOneStream
  <2>6. /\ Used' = Used /\ conns' \in Seq(Connections) /\ sock' \in [Streams -> Sockets]
        /\ conns'[i] = k /\ \A l \in Used \ {i} : conns'[l] = conns[l]
    <3>1. TypeInv /\ StreamInv /\ Stays(i, k, q)
      BY <1>1, <1>6
    <3>2. QED
      BY <3>1, StaysUsed
  <2>7. QED
    BY <1>1, <1>6, <2>1, <2>3, <2>4, <2>5, <2>6
<1>7. QED
  BY <1>2, <1>5, <1>6

LEMMA WriteEventInv ==
  ASSUME Inv, NEW e \in todo, WriteEvent(e), UNCHANGED clients
  PROVE  Inv'
<1>1. PICK i : i = e.i
  OBVIOUS
<1>2. PICK c : c = conns[i]
  OBVIOUS
<1>3. /\ i \in Used /\ c \in Connections /\ ConnOk(c) /\ c.send_buf # <<>> /\ TryWrite(i, c)
      /\ npc' = "loop" /\ UNCHANGED <<backlog, queues, worker>>
  BY <1>1, <1>2, UsedIs DEF WriteEvent, Inv, PoolInv
<1>4. c.state = "Writing" /\ c.pending = NoReq
  BY <1>3 DEF ConnOk
<1>5. \A d \in Clients : InTime(d) /\ cstream[d] = c.s =>
        /\ cpc[d] = "wait" /\ sock[c.s].up = <<>> /\ sock[c.s].down = <<>>
        /\ OwnAnswer(request[d], c.send_buf)
  BY <1>2, <1>3, <1>4 DEF Inv, OwnInv, Serves, Unread, Answering
<1>6. /\ conns' \in Seq(Connections) /\ sock' \in [Streams -> Sockets] /\ free' \in Seq(Nat)
      /\ StreamInv' /\ ClientInv' /\ PoolInv' /\ OneStreamInv' /\ OwnInv'
      /\ \A l \in Used \ {i} : l \in Used' /\ conns'[l] = conns[l]
      /\ \A l \in Used' : l \in Used /\ (l = i => conns'[i].pending = NoReq)
  BY <1>2, <1>3, <1>4, <1>5, AnswerWritten
<1>7. TypeInv' /\ HeldInv'
  BY <1>3, <1>6 DEF Inv, TypeInv, HeldInv, clients, queues, worker
<1>8. FlightInv'
  BY <1>2, <1>3, <1>4, <1>6, FlightKept DEF Inv, queues, worker
<1>9. QED
  BY <1>6, <1>7, <1>8 DEF Inv

(* A complete request that the server has read is the one its client       *)
(* waits for.                                                              *)
LEMMA ReadIsOwn ==
  ASSUME Inv, NEW i \in Used, conns[i].state = "Reading", IsRequestComplete(conns[i].recv_buf),
         NEW c \in Clients, InTime(c), cstream[c] = conns[i].s
  PROVE  /\ cpc[c] = "wait" /\ sock[conns[i].s].up = <<>> /\ sock[conns[i].s].down = <<>>
         /\ Parsed(conns[i].recv_buf) = request[c]
<1>1. PICK pc : pc = cpc[c]
  OBVIOUS
<1>2. PICK buf : buf = conns[i].recv_buf
  OBVIOUS
<1>3. PICK u : u = sock[conns[i].s].up
  OBVIOUS
<1>4. conns[i] \in Connections /\ sock[conns[i].s] \in Sockets
  BY UsedIs DEF Inv
<1>5. buf \in Seq(Parts) /\ u \in Seq(Parts) /\ IsRequestComplete(buf) /\ request[c] \in Requests
  BY <1>2, <1>3, <1>4 DEF Connections, Sockets, Inv, TypeInv
<1>6. buf # <<>>
  BY <1>5, ParsedIs
<1>7. buf \o u = Outgoing(pc, request[c]) /\ sock[conns[i].s].down = <<>>
  BY <1>1, <1>2, <1>3, <1>6 DEF Inv, OwnInv, Serves, Unread, Answering
<1>8. pc = "wait" /\ u = <<>> /\ Parsed(buf) = request[c]
  BY <1>5, <1>7, CompleteOutgoing
<1>9. QED
  BY <1>1, <1>2, <1>3, <1>7, <1>8, Zenon

LEMMA EnqueueFailsInv ==
  ASSUME Inv, EnqueueFails, UNCHANGED clients
  PROVE  Inv'
<1>1. PICK i : i = held.i
  OBVIOUS
<1>2. PICK k : k = conns[i]
  OBVIOUS
<1>3. PICK q : q = sock[k.s]
  OBVIOUS
<1>4. PICK m : m = QueueResponse(k, ErrorResponse(Parsed(k.recv_buf)))
  OBVIOUS
<1>5. /\ i \in Used /\ k \in Connections /\ k.s \in Streams /\ q \in Sockets
      /\ ConnOk(k) /\ k.state = "Reading" /\ IsRequestComplete(k.recv_buf)
      /\ conns' = [conns EXCEPT ![i] = m] /\ sock' = sock /\ free' = free
      /\ npc' = "loop" /\ UNCHANGED <<backlog, queues, worker>>
      /\ sock \in [Streams -> Sockets]
  BY <1>1, <1>2, <1>3, <1>4, UsedIs DEF EnqueueFails, Inv, PoolInv, HeldInv, streams, TypeInv
<1>6. k.pending = NoReq /\ k.recv_buf \in Seq(Parts) /\ q.up \in Seq(Parts)
  BY <1>5 DEF ConnOk, Connections, Sockets
<1>7. Parsed(k.recv_buf) \in Requests /\ k.recv_buf # <<>>
  BY <1>5, <1>6, ParsedIs
<1>8. /\ m \in Connections /\ m.s = k.s /\ m.pending = NoReq /\ m.recv_buf = k.recv_buf
      /\ m.state = "Writing" /\ OwnAnswer(Parsed(k.recv_buf), m.send_buf) /\ ConnOk(m)
  BY <1>4, <1>5, <1>6, <1>7, Refused
<1>9. Stays(i, m, q)
  BY <1>2, <1>3, <1>5, <1>8 DEF Stays
<1>10. \A r \in Requests : HasHeaders(q.up, r) \/ Carries(m, r) =>
         HasHeaders(sock[m.s].up, r) \/ Carries(conns[i], r)
  BY <1>2, <1>3, <1>8, Zenon DEF Carries
<1>11. ASSUME NEW c \in Clients, InTime(c), cstream[c] = conns[i].s
       PROVE  Serves(cpc[c], request[c], m, q)
  <2>1. /\ cpc[c] = "wait" /\ q.up = <<>> /\ q.down = <<>>
        /\ Parsed(k.recv_buf) = request[c]
    BY <1>2, <1>3, <1>5, <1>11, ReadIsOwn
  <2>2. QED
    BY <1>8, <2>1 DEF Serves, Answering
<1>12. HeldInv'
  BY <1>5 DEF HeldInv
<1>13. QED
  BY <1>2, <1>5, <1>6, <1>8, <1>9, <1>10, <1>11, <1>12, StaysInv


(* A request joins those between the threads. *)
LEMMA FlightIs ==
  ASSUME TypeInv
  PROVE  InFlight \in Seq(Messages) /\ DOMAIN InFlight = 1..Len(InFlight) /\ Len(InFlight) \in Nat
<1>1. respQ \o batch \in Seq(Messages) /\ reqQ \in Seq(Messages)
  BY Messaging, ConcatProperties
<1>2. InFlight \in Seq(Messages)
  BY <1>1, ConcatProperties DEF InFlight
<1>3. QED
  BY <1>2, LenProperties

(* It is the only one of its connection. *)
LEMMA FlightAdded ==
  ASSUME Inv, UNCHANGED <<respQ, batch, wpc>>, NEW m \in InProgress, reqQ' = Append(reqQ, m),
         WellFormed(m.req), NEW i \in Used, m.token = i, conns[i].pending = NoReq,
         Used' = Used, conns'[i].pending = m.req, \A l \in Used \ {i} : conns'[l] = conns[l]
  PROVE  FlightInv'
<1>1. /\ InFlight \in Seq(Messages) /\ DOMAIN InFlight = 1..Len(InFlight) /\ Len(InFlight) \in Nat
      /\ reqQ \in Seq(Messages) /\ batch \in Seq(Messages) /\ respQ \in Seq(Messages)
      /\ m \in Messages /\ reqQ \in Seq(InProgress)
  BY FlightIs, Messaging DEF Inv, Messages, TypeInv
<1>2. InFlight' = Append(InFlight, m)
  <2>1. PICK b : b = respQ \o batch
    OBVIOUS
  <2>2. b \in Seq(Messages)
    BY <1>1, <2>1, ConcatProperties
  <2>3. b \o Append(reqQ, m) = Append(b \o reqQ, m)
    BY <1>1, <2>2
  <2>4. InFlight = b \o reqQ /\ InFlight' = b \o Append(reqQ, m)
    BY <2>1 DEF InFlight
  <2>5. QED
    BY <2>3, <2>4, Zenon
<1>3. /\ DOMAIN InFlight' = 1..(Len(InFlight) + 1) /\ InFlight'[Len(InFlight) + 1] = m
      /\ \A j \in DOMAIN InFlight : InFlight'[j] = InFlight[j]
  BY <1>1, <1>2, AppendProperties, LenProperties
<1>4. \A j \in DOMAIN InFlight' : (j \in DOMAIN InFlight /\ InFlight'[j] = InFlight[j])
                                  \/ (j = Len(InFlight) + 1 /\ InFlight'[j] = m)
  BY <1>1, <1>3
<1>5. \A j \in DOMAIN InFlight : /\ Matches(InFlight[j]) /\ WellFormed(InFlight[j].req)
                                 /\ InFlight[j].token # i
  BY WellFormedReq DEF Inv, FlightInv, Matches
<1>6. \A j \in DOMAIN InFlight' : /\ InFlight'[j].token \in Used'
                                  /\ conns'[InFlight'[j].token].pending = InFlight'[j].req
                                  /\ WellFormed(InFlight'[j].req)
  BY <1>4, <1>5 DEF Matches
<1>7. \A j, l \in DOMAIN InFlight' : InFlight'[j].token = InFlight'[l].token => j = l
  BY <1>4, <1>5 DEF Inv, FlightInv
<1>8. \A l \in Used : conns'[l].pending # NoReq =>
        \E j \in DOMAIN InFlight' : InFlight'[j].token = l
  <2> SUFFICES ASSUME NEW l \in Used, conns'[l].pending # NoReq
               PROVE  \E j \in DOMAIN InFlight' : InFlight'[j].token = l
    OBVIOUS
  <2>1. CASE l = i
    <3>1. Len(InFlight) + 1 \in DOMAIN InFlight'
      BY <1>1, <1>3
    <3>2. QED
      BY <1>3, <2>1, <3>1
  <2>2. CASE l # i
    <3>1. PICK j \in DOMAIN InFlight : InFlight[j].token = l
      BY <2>2 DEF Inv, FlightInv
    <3>2. j \in DOMAIN InFlight'
      BY <1>1, <1>3
    <3>3. QED
      BY <1>3, <3>1, <3>2
  <2>3. QED
    BY <2>1, <2>2
<1>9. QED
  BY <1>6, <1>7, <1>8 DEF Inv, FlightInv, Matches, WellFormed

LEMMA EnqueueRequestInv ==
  ASSUME Inv, EnqueueRequest, UNCHANGED clients
  PROVE  Inv'
<1>1. PICK i : i = held.i
  OBVIOUS
<1>2. PICK k : k = conns[i]
  OBVIOUS
<1>3. PICK q : q = sock[k.s]
  OBVIOUS
<1>4. PICK r : r = Parsed(k.recv_buf)
  OBVIOUS
<1>5. PICK m : m = [k EXCEPT !.pending = r, !.should_close = (r.kind = "close"),
                             !.state = "Processing", !.recv_buf = <<>>]
  OBVIOUS
<1>6. /\ i \in Used /\ k \in Connections /\ k.s \in Streams /\ q \in Sockets
      /\ ConnOk(k) /\ k.state = "Reading" /\ IsRequestComplete(k.recv_buf) /\ WellFormed(r)
      /\ sock' = sock /\ free' = free /\ npc' = "loop" /\ UNCHANGED <<backlog, respQ, worker>>
      /\ sock \in [Streams -> Sockets] /\ reqQ \in Seq(InProgress) /\ DOMAIN conns \subseteq Nat
  BY <1>1, <1>2, <1>3, <1>4, UsedIs
     DEF EnqueueRequest, Inv, PoolInv, HeldInv, streams, TypeInv
<1>7. conns' = [conns EXCEPT ![i] = m] /\ reqQ' = Append(reqQ, Queued(r, i))
  BY <1>1, <1>2, <1>4, <1>5 DEF EnqueueRequest
<1>8. k.pending = NoReq /\ k.send_buf = <<>> /\ k.recv_buf \in Seq(Parts) /\ i \in Nat
  BY <1>6, UsedIs DEF ConnOk, Connections, Inv
<1>9. r \in Requests /\ HasHeaders(k.recv_buf, r) /\ r # NoReq
  BY <1>4, <1>6, <1>8, ParsedIs, WellFormedReq
<1>10. /\ m \in Connections /\ m.s = k.s /\ m.pending = r /\ m.state = "Processing"
       /\ m.recv_buf = <<>> /\ m.send_buf = k.send_buf
  <2> DEFINE empty == <<>>
             close == r.kind = "close"
  <2>1. empty \in Seq(Parts) /\ close \in BOOLEAN
    OBVIOUS
  <2>2. m = [k EXCEPT !.pending = r, !.should_close = close, !.state = "Processing",
                      !.recv_buf = empty]
    BY <1>5
  <2> HIDE DEF empty, close
  <2>3. /\ m \in Connections /\ m.s = k.s /\ m.pending = r /\ m.state = "Processing"
        /\ m.recv_buf = empty /\ m.send_buf = k.send_buf
    BY <1>6, <1>9, <2>1, <2>2 DEF Connections
  <2>4. QED
    BY <2>3 DEF empty
<1>11. ConnOk(m)
  BY <1>8, <1>9, <1>10 DEF ConnOk
<1>12. Stays(i, m, q)
  BY <1>2, <1>3, <1>6, <1>7, <1>10 DEF Stays
<1>13. TypeInv /\ StreamInv /\ ClientInv /\ PoolInv /\ OneStreamInv /\ OwnInv
       /\ UNCHANGED request
  BY DEF Inv, clients
<1>14. /\ Used' = Used /\ conns' \in Seq(Connections) /\ sock' \in [Streams -> Sockets]
       /\ conns'[i] = m /\ \A l \in Used \ {i} : conns'[l] = conns[l]
  BY <1>12, <1>13, StaysUsed
<1>15. Queued(r, i) \in InProgress /\ Queued(r, i).req = r /\ Queued(r, i).token = i
  BY <1>8, <1>9 DEF Queued, InProgress
<1>16. TypeInv'
  <2>1. reqQ' \in Seq(InProgress)
    BY <1>6, <1>7, <1>15, AppendProperties
  <2>2. QED
    BY <1>6, <1>13, <1>14, <2>1 DEF TypeInv, clients, worker
<1>17. StreamInv' /\ ClientInv' /\ PoolInv'
  BY <1>6, <1>11, <1>12, <1>13, StaysPool
<1>18. HeldInv'
  BY <1>6 DEF HeldInv
<1>19. FlightInv'
  <2>1. PICK x : x = Queued(r, i)
    OBVIOUS
  <2>2. /\ x \in InProgress /\ reqQ' = Append(reqQ, x) /\ x.req = r /\ x.token = i
        /\ UNCHANGED <<respQ, batch, wpc>>
    BY <1>6, <1>7, <1>15, <2>1 DEF worker
  <2>3. QED
    BY <1>2, <1>6, <1>8, <1>10, <1>14, <2>2, FlightAdded
<1>20. OneStreamInv'
  <2>1. \A s \in Requests : HasHeaders(q.up, s) \/ Carries(m, s) =>
          HasHeaders(sock[m.s].up, s) \/ Carries(conns[i], s)
    BY <1>2, <1>3, <1>9, <1>10, NoHeaders, Zenon DEF Carries
  <2>2. QED
    BY <1>12, <1>13, <2>1, StaysOneStream
<1>21. OwnInv'
  <2>1. ASSUME NEW c \in Clients, InTime(c), cstream[c] = conns[i].s
        PROVE  Serves(cpc[c], request[c], m, q)
    <3>1. /\ cpc[c] = "wait" /\ q.up = <<>> /\ q.down = <<>> /\ r = request[c]
      BY <1>2, <1>3, <1>4, <1>6, <2>1, ReadIsOwn
    <3>2. QED
      BY <1>10, <3>1 DEF Serves, Answering
  <2>2. QED
    BY <1>6, <1>12, <1>13, <2>1, StaysOwn
<1>22. QED
  BY <1>16, <1>17, <1>18, <1>19, <1>20, <1>21 DEF Inv


(* The first of two queues without its head *)
LEMMA TailOfConcat ==
  ASSUME NEW S, NEW a \in Seq(S), NEW b \in Seq(S), a # <<>>
  PROVE  \A f, g : f = Tail(a) \o b /\ g = a \o b =>
           /\ f \in Seq(S) /\ g \in Seq(S) /\ Len(g) = Len(f) + 1 /\ g[1] = Head(a)
           /\ \A j \in 1..Len(f) : f[j] = g[j + 1]
<1> SUFFICES ASSUME NEW f, f = Tail(a) \o b, NEW g, g = a \o b
             PROVE  /\ f \in Seq(S) /\ g \in Seq(S) /\ Len(g) = Len(f) + 1 /\ g[1] = Head(a)
                    /\ \A j \in 1..Len(f) : f[j] = g[j + 1]
  OBVIOUS
<1>1. PICK d : d = Tail(a)
  OBVIOUS
<1>2. /\ Len(a) \in Nat \ {0} /\ d \in Seq(S) /\ Len(d) = Len(a) - 1
      /\ \A j \in 1..(Len(a) - 1) : d[j] = a[j + 1]
      /\ Head(a) = a[1] /\ Len(b) \in Nat
  BY <1>1, TailIs, LenProperties
<1>3. /\ f \in Seq(S) /\ Len(f) = Len(d) + Len(b)
      /\ \A j \in 1..(Len(d) + Len(b)) : f[j] = IF j <= Len(d) THEN d[j] ELSE b[j - Len(d)]
  <2>1. f = d \o b
    BY <1>1
  <2>2. /\ d \o b \in Seq(S) /\ Len(d \o b) = Len(d) + Len(b)
        /\ \A j \in 1..(Len(d) + Len(b)) : (d \o b)[j] = IF j <= Len(d) THEN d[j] ELSE b[j - Len(d)]
    BY <1>2, ConcatProperties
  <2>3. QED
    BY <2>1, <2>2, Zenon
<1>4. /\ g \in Seq(S) /\ Len(g) = Len(a) + Len(b)
      /\ \A j \in 1..(Len(a) + Len(b)) : g[j] = IF j <= Len(a) THEN a[j] ELSE b[j - Len(a)]
  BY ConcatProperties
<1>5. Len(g) = Len(f) + 1 /\ g[1] = Head(a)
  BY <1>2, <1>3, <1>4
<1>6. ASSUME NEW j \in 1..Len(f) PROVE f[j] = g[j + 1]
  <2>1. j + 1 \in 1..(Len(a) + Len(b)) /\ j \in 1..(Len(d) + Len(b))
    BY <1>2, <1>3, <1>4
  <2>2. CASE j <= Len(d)
    <3>1. f[j] = d[j] /\ g[j + 1] = a[j + 1] /\ j \in 1..(Len(a) - 1)
      BY <1>2, <1>3, <1>4, <2>1, <2>2
    <3>2. QED
      BY <1>2, <3>1
  <2>3. CASE j > Len(d)
    <3>1. f[j] = b[j - Len(d)] /\ g[j + 1] = b[(j + 1) - Len(a)] /\ (j + 1) - Len(a) = j - Len(d)
      BY <1>2, <1>3, <1>4, <2>1, <2>3
    <3>2. QED
      BY <3>1
  <2>4. QED
    BY <1>2, <2>1, <2>2, <2>3
<1>7. QED
  BY <1>3, <1>4, <1>5, <1>6

(* The oldest message leaves. *)
LEMMA FirstLeaves ==
  ASSUME TypeInv, respQ # <<>>, respQ' = Tail(respQ), UNCHANGED <<batch, reqQ>>
  PROVE  /\ Len(InFlight) \in Nat \ {0} /\ DOMAIN InFlight = 1..Len(InFlight)
         /\ DOMAIN InFlight' = 1..(Len(InFlight) - 1) /\ InFlight[1] = Head(respQ)
         /\ \A j \in 1..(Len(InFlight) - 1) : InFlight'[j] = InFlight[j + 1]
<1>1. PICK a : a = respQ
  OBVIOUS
<1>2. a \in Seq(Messages) /\ batch \in Seq(Messages) /\ reqQ \in Seq(Messages) /\ a # <<>>
  BY <1>1, Messaging
<1>3. PICK g : g = a \o batch
  OBVIOUS
<1>4. PICK f : f = Tail(a) \o batch
  OBVIOUS
<1>5. /\ f \in Seq(Messages) /\ g \in Seq(Messages) /\ Len(g) = Len(f) + 1 /\ g[1] = Head(a)
      /\ \A j \in 1..Len(f) : f[j] = g[j + 1]
  BY <1>2, <1>3, <1>4, TailOfConcat
<1>6. g # <<>> /\ Len(f) \in Nat
  BY <1>5, LenProperties, EmptySeq
<1>7. f = Tail(g) /\ Head(g) = Head(a)
  <2>1. PICK t : t = Tail(g)
    OBVIOUS
  <2>2. /\ t \in Seq(Messages) /\ Len(t) = Len(g) - 1
        /\ \A j \in 1..(Len(g) - 1) : t[j] = g[j + 1]
        /\ Head(g) = g[1]
    BY <1>5, <1>6, <2>1, TailIs
  <2>3. Len(f) = Len(t) /\ \A j \in 1..Len(f) : f[j] = t[j]
    BY <1>5, <1>6, <2>2
  <2>4. f = t
    BY <1>5, <2>2, <2>3, SeqEqual
  <2>5. QED
    BY <1>5, <2>1, <2>2, <2>4
<1>8. InFlight = g \o reqQ /\ InFlight' = f \o reqQ
  BY <1>1, <1>3, <1>4 DEF InFlight
<1>9. PICK x : x = InFlight
  OBVIOUS
<1>10. PICK y : y = InFlight'
  OBVIOUS
<1>11. /\ x \in Seq(Messages) /\ y \in Seq(Messages) /\ Len(x) = Len(y) + 1 /\ x[1] = Head(a)
       /\ \A j \in 1..Len(y) : y[j] = x[j + 1]
  <2>1. x = g \o reqQ /\ y = Tail(g) \o reqQ
    BY <1>7, <1>8, <1>9, <1>10, Zenon
  <2>2. /\ x \in Seq(Messages) /\ y \in Seq(Messages) /\ Len(x) = Len(y) + 1 /\ x[1] = Head(g)
        /\ \A j \in 1..Len(y) : y[j] = x[j + 1]
    <3>1. \A u, v : u = Tail(g) \o reqQ /\ v = g \o reqQ =>
            /\ u \in Seq(Messages) /\ v \in Seq(Messages) /\ Len(v) = Len(u) + 1 /\ v[1] = Head(g)
            /\ \A j \in 1..Len(u) : u[j] = v[j + 1]
      <4>1. g \in Seq(Messages) /\ reqQ \in Seq(Messages) /\ g # <<>>
        BY <1>2, <1>5, <1>6
      <4>2. QED
        BY <4>1, TailOfConcat
    <3>2. QED
      BY <2>1, <3>1, Zenon
  <2>3. QED
    BY <1>7, <2>2
<1>12. /\ Len(x) \in Nat \ {0} /\ DOMAIN x = 1..Len(x) /\ DOMAIN y = 1..(Len(x) - 1)
       /\ x[1] = Head(a) /\ \A j \in 1..(Len(x) - 1) : y[j] = x[j + 1]
  <2>1. Len(y) \in Nat /\ DOMAIN x = 1..Len(x) /\ DOMAIN y = 1..Len(y)
    BY <1>11, LenProperties
  <2>2. Len(y) = Len(x) - 1 /\ Len(x) \in Nat \ {0}
    BY <1>11, <2>1
  <2>3. QED
    BY <1>11, <2>1, <2>2
<1>13. QED
  BY <1>1, <1>9, <1>10, <1>12, Zenon

(* The connections that wait still match those that are left. *)
LEMMA FlightTaken ==
  ASSUME Inv, respQ # <<>>, respQ' = Tail(respQ), UNCHANGED <<batch, reqQ, wpc>>,
         NEW i, i = Head(respQ).token,
         \A l \in Used \ {i} : l \in Used' /\ conns'[l] = conns[l],
         \A l \in Used' : l \in Used /\ (l = i => conns'[i].pending = NoReq)
  PROVE  FlightInv'
<1> DEFINE n == Len(InFlight)
<1>1. /\ n \in Nat \ {0} /\ DOMAIN InFlight = 1..n
      /\ DOMAIN InFlight' = 1..(n - 1) /\ InFlight[1].token = i
      /\ \A j \in 1..(n - 1) : InFlight'[j] = InFlight[j + 1]
  BY FirstLeaves DEF Inv
<1> HIDE DEF n
<1>2. \A j \in 1..(n - 1) : j + 1 \in 1..n /\ j + 1 # 1
  BY <1>1
<1>3. \A j \in 1..(n - 1) : /\ Matches(InFlight[j + 1]) /\ WellFormed(InFlight[j + 1].req)
                            /\ InFlight[j + 1].token # i
  <2> SUFFICES ASSUME NEW j \in 1..(n - 1)
               PROVE  /\ Matches(InFlight[j + 1]) /\ WellFormed(InFlight[j + 1].req)
                      /\ InFlight[j + 1].token # i
    OBVIOUS
  <2>1. j + 1 \in DOMAIN InFlight /\ 1 \in DOMAIN InFlight /\ j + 1 # 1
    BY <1>1, <1>2
  <2>2. PICK m : m = j + 1
    OBVIOUS
  <2>3. Matches(InFlight[m]) /\ WellFormed(InFlight[m].req)
    BY <2>1, <2>2 DEF Inv, FlightInv
  <2>4. InFlight[m].token # i
    BY <1>1, <2>1, <2>2 DEF Inv, FlightInv
  <2>5. QED
    BY <2>2, <2>3, <2>4
<1>4. \A j \in DOMAIN InFlight' : /\ InFlight'[j].token \in Used'
                                  /\ conns'[InFlight'[j].token].pending = InFlight'[j].req
                                  /\ WellFormed(InFlight'[j].req)
  <2> SUFFICES ASSUME NEW j \in 1..(n - 1)
               PROVE  /\ InFlight'[j].token \in Used'
                      /\ conns'[InFlight'[j].token].pending = InFlight'[j].req
                      /\ WellFormed(InFlight'[j].req)
    BY <1>1
  <2>1. PICK x : x = InFlight[j + 1]
    OBVIOUS
  <2>2. x.token \in Used /\ conns[x.token].pending = x.req /\ WellFormed(x.req) /\ x.token # i
    BY <1>3, <2>1 DEF Matches
  <2>3. InFlight'[j] = x
    BY <1>1, <2>1
  <2>4. QED
    BY <2>2, <2>3
<1>5. \A j, l \in DOMAIN InFlight' : InFlight'[j].token = InFlight'[l].token => j = l
  <2> SUFFICES ASSUME NEW j \in 1..(n - 1), NEW l \in 1..(n - 1),
                      InFlight[j + 1].token = InFlight[l + 1].token
               PROVE  j = l
    BY <1>1
  <2>1. j + 1 = l + 1
    BY <1>1, <1>2 DEF Inv, FlightInv
  <2>2. QED
    BY <1>1, <2>1
<1>6. ASSUME NEW l \in Used', conns'[l].pending # NoReq
      PROVE  \E j \in DOMAIN InFlight' : InFlight'[j].token = l
  <2>1. l # i /\ l \in Used /\ conns'[l] = conns[l]
    BY <1>6
  <2>2. PICK j \in DOMAIN InFlight : InFlight[j].token = l
    BY <1>6, <2>1 DEF Inv, FlightInv
  <2>3. j - 1 \in 1..(n - 1) /\ (j - 1) + 1 = j
    <3>1. j # 1 /\ j \in 1..n
      BY <1>1, <2>1, <2>2
    <3>2. QED
      BY <1>1, <3>1
  <2>4. QED
    BY <1>1, <2>2, <2>3
<1>7. \A j \in DOMAIN respQ' : respQ'[j].ok => respQ'[j].req.kind \in {"ok", "close"}
  <2>1. PICK a : a = respQ
    OBVIOUS
  <2>2. /\ Len(a) \in Nat \ {0} /\ DOMAIN a = 1..Len(a) /\ respQ' \in Seq(Results)
        /\ Len(respQ') = Len(a) - 1 /\ \A j \in 1..(Len(a) - 1) : respQ'[j] = a[j + 1]
    <3>1. a \in Seq(Results) /\ a # <<>> /\ respQ' = Tail(a)
      BY <2>1 DEF Inv, TypeInv
    <3>2. PICK b : b = Tail(a)
      OBVIOUS
    <3>3. /\ Len(a) \in Nat \ {0} /\ b \in Seq(Results)
          /\ Len(b) = Len(a) - 1 /\ \A j \in 1..(Len(a) - 1) : b[j] = a[j + 1]
      BY <3>1, <3>2, TailIs
    <3>4. DOMAIN a = 1..Len(a)
      BY <3>1, LenProperties
    <3>5. QED
      BY <3>1, <3>2, <3>3, <3>4
  <2>3. \A j \in 1..Len(a) : a[j].ok => a[j].req.kind \in {"ok", "close"}
    BY <2>1, <2>2 DEF Inv, FlightInv
  <2>4. DOMAIN respQ' = 1..(Len(a) - 1) /\ \A j \in 1..(Len(a) - 1) : j + 1 \in 1..Len(a)
    BY <2>2, LenProperties
  <2>5. QED
    BY <2>2, <2>3, <2>4
<1>8. QED
  BY <1>4, <1>5, <1>6, <1>7 DEF Inv, FlightInv, Matches, WellFormed

(* The answer that is taken first is for the request its connection waits  *)
(* for.                                                                    *)
LEMMA RespondInv ==
  ASSUME Inv, Respond, UNCHANGED clients
  PROVE  Inv'
<1>1. PICK a : a = Head(respQ)
  OBVIOUS
<1>2. PICK i : i = a.token
  OBVIOUS
<1>3. PICK k : k = conns[i]
  OBVIOUS
<1>4. PICK c : c = [QueueResponse(k, CreateResponse(a)) EXCEPT !.pending = NoReq]
  OBVIOUS
<1>5. /\ respQ # <<>> /\ respQ \in Seq(Results) /\ npc' = "loop" /\ respQ' = Tail(respQ)
      /\ UNCHANGED <<backlog, reqQ, batch, wpc>>
      /\ a \in Results /\ respQ' \in Seq(Results) /\ a = respQ[1] /\ 1 \in DOMAIN respQ
  <2>1. respQ # <<>> /\ respQ \in Seq(Results)
    BY DEF Respond, TakeResponse, Inv, TypeInv
  <2>2. a \in Results /\ Tail(respQ) \in Seq(Results) /\ a = respQ[1] /\ 1 \in DOMAIN respQ
    BY <1>1, <2>1, TailIs
  <2>3. QED
    BY <2>1, <2>2 DEF Respond, TakeResponse, worker
<1>6. Matches(a) /\ WellFormed(a.req)
  <2>1. 1 \in DOMAIN InFlight /\ InFlight[1] = a
    BY <1>1, <1>5, FirstLeaves DEF Inv
  <2>2. QED
    BY <2>1 DEF Inv, FlightInv
<1>7. /\ i \in Used /\ k \in Connections /\ k.pending = a.req /\ k.pending # NoReq /\ ConnOk(k)
      /\ TryWrite(i, c)
  <2>1. i \in Used /\ k.pending = a.req
    BY <1>2, <1>3, <1>6 DEF Matches
  <2>2. TryWrite(i, c)
    BY <1>1, <1>2, <1>3, <1>4, <1>6 DEF Respond
  <2>3. QED
    BY <1>3, <1>6, <2>1, <2>2, UsedIs, WellFormedReq DEF Inv, PoolInv
<1>8. k.state = "Processing"
  BY <1>7 DEF ConnOk
<1>9. /\ c \in Connections /\ c.s = k.s /\ c.recv_buf = k.recv_buf /\ c.state = "Writing"
      /\ c.pending = NoReq /\ c.send_buf = <<[req |-> a.req, ok |-> a.ok]>>
  <2> DEFINE b == <<[req |-> a.req, ok |-> a.ok]>>
  <2>1. b \in Seq(Answers)
    BY <1>5 DEF Answers, Results
  <2>2. c = [[k EXCEPT !.send_buf = b, !.send_pos = 0, !.state = "Writing"]
               EXCEPT !.pending = NoReq]
    BY <1>4 DEF QueueResponse, CreateResponse, HttpResponse
  <2> HIDE DEF b
  <2>3. /\ c \in Connections /\ c.s = k.s /\ c.recv_buf = k.recv_buf /\ c.state = "Writing"
        /\ c.pending = NoReq /\ c.send_buf = b
    BY <1>7, <2>1, <2>2, NoReqType DEF Connections
  <2>4. QED
    BY <2>3 DEF b
<1>10. c.send_buf # <<>>
  BY <1>9
<1>11. \A d \in Clients : InTime(d) /\ cstream[d] = c.s =>
         /\ cpc[d] = "wait" /\ sock[c.s].up = <<>> /\ sock[c.s].down = <<>>
         /\ OwnAnswer(request[d], c.send_buf)
  <2> SUFFICES ASSUME NEW d \in Clients, InTime(d), cstream[d] = c.s
               PROVE  /\ cpc[d] = "wait" /\ sock[c.s].up = <<>> /\ sock[c.s].down = <<>>
                      /\ OwnAnswer(request[d], c.send_buf)
    OBVIOUS
  <2>1. Serves(cpc[d], request[d], k, sock[c.s])
    BY <1>3, <1>7, <1>9 DEF Inv, OwnInv
  <2>2. /\ cpc[d] = "wait" /\ sock[c.s].up = <<>> /\ sock[c.s].down = <<>>
        /\ k.pending = request[d]
    BY <1>8, <2>1 DEF Serves, Unread, Answering
  <2>3. a.ok \in BOOLEAN /\ (a.ok => a.req.kind \in {"ok", "close"})
    BY <1>5 DEF Results, Inv, FlightInv
  <2>4. OwnAnswer(request[d], c.send_buf)
    BY <1>7, <1>9, <2>2, <2>3 DEF OwnAnswer
  <2>5. QED
    BY <2>2, <2>4
<1>12. /\ conns' \in Seq(Connections) /\ sock' \in [Streams -> Sockets] /\ free' \in Seq(Nat)
       /\ StreamInv' /\ ClientInv' /\ PoolInv' /\ OneStreamInv' /\ OwnInv'
       /\ \A l \in Used \ {i} : l \in Used' /\ conns'[l] = conns[l]
       /\ \A l \in Used' : l \in Used /\ (l = i => conns'[i].pending = NoReq)
  <2>1. c.s = conns[i].s /\ c.recv_buf = conns[i].recv_buf
    BY <1>3, <1>9
  <2>2. QED
    BY <1>5, <1>7, <1>9, <1>10, <1>11, <2>1, AnswerWritten
<1>13. TypeInv' /\ HeldInv'
  BY <1>5, <1>12 DEF Inv, TypeInv, HeldInv, clients
<1>14. FlightInv'
  BY <1>1, <1>2, <1>5, <1>12, FlightTaken
<1>15. QED
  BY <1>12, <1>13, <1>14 DEF Inv


-----------------------------------------------------------------------------
(* The listener *)

(* A new connection gets a slot that was not used, and the pool stays in   *)
(* order.                                                                  *)
LEMMA Occupied ==
  ASSUME TypeInv, StreamInv, PoolInv, NEW s \in Streams, Occupy(Connection(s))
  PROVE  /\ \E i \in Nat : /\ i \notin Used /\ Used' = Used \cup {i} /\ conns'[i] = Connection(s)
                           /\ \A l \in Used : conns'[l] = conns[l]
         /\ conns' \in Seq(Connections) /\ free' \in Seq(Nat) /\ PoolInv'
<1>1. PICK k : k = Connection(s)
  OBVIOUS
<1>2. k \in Connections /\ k.s = s /\ ConnOk(k) /\ k # NoConn
  <2>1. s \in Nat \ {0}
    BY StreamAssumption DEF Streams
  <2>2. QED
    BY <1>1, <2>1, ConnectionType DEF NoConn
<1>3. conns \in Seq(Connections) /\ free \in Seq(Nat) /\ DOMAIN conns = 1..Len(conns)
      /\ Len(conns) \in Nat /\ DOMAIN free = 1..Len(free) /\ Len(free) \in Nat
      /\ Used \subseteq DOMAIN conns
  BY DEF TypeInv, Used
<1>4. CASE free # <<>> /\ conns' = [conns EXCEPT ![free[Len(free)]] = k]
           /\ free' = SubSeq(free, 1, Len(free) - 1)
  <2>1. PICK n : n = Len(free)
    OBVIOUS
  <2>2. n \in Nat \ {0} /\ DOMAIN free = 1..n
    BY <1>3, <1>4, <2>1, EmptySeq
  <2>3. PICK i : i = free[n]
    OBVIOUS
  <2>4. n \in DOMAIN free
    BY <2>2
  <2>5. i \in DOMAIN conns /\ i \notin Used
    BY <2>3, <2>4 DEF PoolInv
  <2>6. /\ conns' \in Seq(Connections) /\ DOMAIN conns' = DOMAIN conns /\ conns'[i] = k
        /\ \A l \in DOMAIN conns \ {i} : conns'[l] = conns[l]
    BY <1>2, <1>3, <1>4, <2>1, <2>3, <2>5
  <2>7. Used' = Used \cup {i}
    BY <1>2, <2>5, <2>6 DEF Used
  <2>8. /\ free' \in Seq(Nat) /\ DOMAIN free' = 1..(n - 1)
        /\ \A j \in 1..(n - 1) : free'[j] = free[j] /\ j \in DOMAIN free /\ j # n
    <3>1. \A j \in 1..(n - 1) : j \in DOMAIN free /\ j # n /\ free[j] \in Nat
      BY <1>3, <2>2
    <3>2. PICK f : f = SubSeq(free, 1, n - 1)
      OBVIOUS
    <3>3. f = [j \in 1..(n - 1) |-> free[j]]
      BY <1>3, <2>1, <2>2, <3>2
    <3>4. f \in Seq(Nat)
      BY <2>2, <3>1, <3>3
    <3>5. QED
      BY <1>4, <2>1, <3>1, <3>2, <3>3, <3>4
  <2>9. PoolInv'
    <3>1. \A l \in Used' : ConnOk(conns'[l])
      BY <1>2, <1>3, <2>5, <2>6, <2>7 DEF PoolInv
    <3>2. \A j \in DOMAIN free' : free'[j] \in DOMAIN conns'
      BY <2>6, <2>8 DEF PoolInv
    <3>3. \A j, l \in DOMAIN free' : free'[j] = free'[l] => j = l
      BY <2>8 DEF PoolInv
    <3>4. ASSUME NEW l \in DOMAIN conns
          PROVE  l \notin Used' <=> \E j \in DOMAIN free' : free'[j] = l
      <4>1. ASSUME l \notin Used' PROVE \E j \in DOMAIN free' : free'[j] = l
        <5>1. l \notin Used /\ l # i
          BY <2>7, <4>1
        <5>2. PICK j \in DOMAIN free : free[j] = l
          BY <5>1 DEF PoolInv
        <5>3. j # n /\ j \in 1..n
          BY <2>2, <2>3, <5>1, <5>2
        <5>4. j \in 1..(n - 1)
          BY <2>2, <5>3
        <5>5. QED
          BY <2>8, <5>2, <5>4
      <4>2. ASSUME NEW j \in DOMAIN free', free'[j] = l PROVE l \notin Used'
        <5>1. j \in DOMAIN free /\ free[j] = l /\ j # n
          BY <2>8, <4>2
        <5>2. l \notin Used /\ l # i
          BY <2>3, <2>4, <5>1 DEF PoolInv
        <5>3. QED
          BY <2>7, <5>2
      <4>3. QED
        BY <4>1, <4>2
    <3>5. \A l \in DOMAIN conns' : l \notin Used' <=> \E j \in DOMAIN free' : free'[j] = l
      BY <2>6, <3>4
    <3>6. QED
      BY <3>1, <3>2, <3>3, <3>5 DEF PoolInv, ConnOk
  <2>10. i \in Nat /\ \A l \in Used : conns'[l] = conns[l]
    BY <1>3, <2>5, <2>6
  <2>11. QED
    BY <1>1, <2>5, <2>6, <2>7, <2>8, <2>9, <2>10
<1>5. CASE free = <<>> /\ conns' = Append(conns, k) /\ free' = free
  <2>1. PICK i : i = Len(conns) + 1
    OBVIOUS
  <2>2. /\ conns' \in Seq(Connections) /\ DOMAIN conns' = 1..i /\ conns'[i] = k
        /\ \A l \in DOMAIN conns : conns'[l] = conns[l]
    BY <1>2, <1>3, <1>5, <2>1, AppendProperties, LenProperties
  <2>3. /\ i \in Nat /\ i \notin DOMAIN conns /\ i \in DOMAIN conns'
        /\ \A l \in DOMAIN conns' : l \in DOMAIN conns \/ l = i
        /\ DOMAIN conns \subseteq DOMAIN conns'
    BY <1>3, <2>1, <2>2
  <2>4. Used' = Used \cup {i}
    BY <1>2, <2>2, <2>3 DEF Used
  <2>5. DOMAIN free = {} /\ DOMAIN free' = {}
    BY <1>5
  <2>6. \A l \in DOMAIN conns : l \in Used
    BY <2>5 DEF PoolInv
  <2>7. \A l \in Used' : ConnOk(conns'[l])
    BY <1>2, <1>3, <2>2, <2>4 DEF PoolInv
  <2>8. PoolInv'
    BY <2>3, <2>4, <2>5, <2>6, <2>7 DEF PoolInv, ConnOk
  <2>9. i \notin Used /\ \A l \in Used : conns'[l] = conns[l]
    BY <1>3, <2>2, <2>3
  <2>10. QED
    BY <1>1, <1>3, <1>5, <2>2, <2>3, <2>4, <2>8, <2>9
<1>6. QED
  BY <1>1, <1>4, <1>5 DEF Occupy

(* The connection serves the client that was waiting in the backlog. *)
LEMMA AcceptInv ==
  ASSUME Inv, Accept, UNCHANGED clients
  PROVE  Inv'
<1>1. PICK s : s = Head(backlog)
  OBVIOUS
<1>2. PICK q : q = [sock[s] EXCEPT !.edge = Readable(sock[s])]
  OBVIOUS
<1>3. /\ TypeInv /\ StreamInv /\ PoolInv /\ backlog \in Seq(Streams) /\ backlog # <<>>
      /\ Occupy(Connection(s)) /\ sock' = [sock EXCEPT ![s] = q]
      /\ backlog' = Tail(backlog) /\ npc' = "loop" /\ UNCHANGED <<reqQ, respQ, batch, wpc>>
      /\ sock \in [Streams -> Sockets] /\ used \in Nat
      /\ UNCHANGED <<cpc, cstream, request, late, used>>
  <2>1. sock' = [sock EXCEPT ![s] = q]
    BY <1>1, <1>2 DEF Accept
  <2>2. used \in Nat
    BY StreamAssumption DEF Inv, TypeInv
  <2>3. QED
    BY <1>1, <2>1, <2>2 DEF Accept, Inv, TypeInv, queues, worker, clients
<1>4. PICK n : n = Len(backlog)
  OBVIOUS
<1>5. /\ n \in Nat \ {0} /\ backlog' \in Seq(Streams) /\ DOMAIN backlog = 1..n
      /\ DOMAIN backlog' = 1..(n - 1) /\ s = backlog[1] /\ s \in Streams
      /\ \A j \in 1..(n - 1) : backlog'[j] = backlog[j + 1]
  <2>1. PICK b : b = Tail(backlog)
    OBVIOUS
  <2>2. /\ n \in Nat \ {0} /\ b \in Seq(Streams) /\ Len(b) = n - 1
        /\ \A j \in 1..(n - 1) : b[j] = backlog[j + 1]
        /\ s = backlog[1] /\ s \in Streams
    BY <1>1, <1>3, <1>4, <2>1, TailIs
  <2>3. DOMAIN backlog = 1..n /\ DOMAIN b = 1..(n - 1)
    BY <1>3, <1>4, <2>2, LenProperties
  <2>4. QED
    BY <1>3, <2>1, <2>2, <2>3
<1>6. \A j \in DOMAIN backlog' : /\ j + 1 \in DOMAIN backlog /\ j + 1 # 1
                                 /\ backlog'[j] = backlog[j + 1] /\ backlog'[j] # s
  <2> SUFFICES ASSUME NEW j \in 1..(n - 1)
               PROVE  j + 1 \in DOMAIN backlog /\ j + 1 # 1 /\ backlog[j + 1] # s
    BY <1>5
  <2>1. j + 1 \in DOMAIN backlog /\ j + 1 # 1 /\ 1 \in DOMAIN backlog
    BY <1>5
  <2>2. PICK m : m = j + 1
    OBVIOUS
  <2>3. backlog[m] # s
    BY <1>3, <1>5, <2>1, <2>2 DEF StreamInv
  <2>4. QED
    BY <2>1, <2>2, <2>3
<1>7. PICK i \in Nat : /\ i \notin Used /\ Used' = Used \cup {i} /\ conns'[i] = Connection(s)
                       /\ \A l \in Used : conns'[l] = conns[l]
  BY <1>3, <1>5, Occupied
<1>8. conns' \in Seq(Connections) /\ free' \in Seq(Nat) /\ PoolInv'
  BY <1>3, <1>5, Occupied
<1>9. PICK k : k = Connection(s)
  OBVIOUS
<1>10. k \in Connections /\ k.s = s /\ k.recv_buf = <<>> /\ k.pending = NoReq /\ k.state = "Reading"
  <2>1. s \in Nat
    BY <1>5, StreamAssumption DEF Streams
  <2>2. QED
    BY <1>9, <2>1, ConnectionType
<1>11. /\ s \in 1..used /\ sock[s].open /\ \A l \in Used : conns[l].s # s
  <2>1. 1 \in DOMAIN backlog
    BY <1>5
  <2>2. QED
    BY <1>3, <1>5, <2>1 DEF StreamInv
<1>12. /\ q \in Sockets /\ q.up = sock[s].up /\ q.down = sock[s].down /\ q.peer = sock[s].peer
       /\ q.open = sock[s].open
  <2>1. Readable(sock[s]) \in BOOLEAN /\ sock[s] \in Sockets
    BY <1>3, <1>5 DEF Readable
  <2>2. PICK b \in BOOLEAN : b = Readable(sock[s])
    BY <2>1
  <2>3. PICK x \in Sockets : x = sock[s]
    BY <2>1
  <2>4. q = [x EXCEPT !.edge = b]
    BY <1>2, <2>2, <2>3, Zenon
  <2>5. q \in Sockets /\ q.up = x.up /\ q.down = x.down /\ q.peer = x.peer /\ q.open = x.open
    BY <2>4 DEF Sockets
  <2>6. QED
    BY <2>3, <2>5
<1>13. /\ sock' \in [Streams -> Sockets] /\ sock'[s] = q
       /\ \A t \in Streams \ {s} : sock'[t] = sock[t]
  BY <1>3, <1>5, <1>12
<1>14. \A t \in Streams : /\ sock'[t].up = sock[t].up /\ sock'[t].down = sock[t].down
                          /\ sock'[t].peer = sock[t].peer /\ sock'[t].open = sock[t].open
  BY <1>12, <1>13
<1>15. TypeInv' /\ HeldInv'
  BY <1>3, <1>5, <1>8, <1>13 DEF TypeInv, HeldInv
<1>16. StreamInv'
  <2>1. ASSUME NEW j \in DOMAIN backlog' PROVE backlog'[j] \in 1..used /\ sock'[backlog'[j]].open
    <3>1. PICK m : m = j + 1
      OBVIOUS
    <3>2. m \in DOMAIN backlog /\ backlog'[j] = backlog[m] /\ backlog[m] \in Streams
      BY <1>3, <1>6, <3>1
    <3>3. backlog[m] \in 1..used /\ sock[backlog[m]].open
      BY <1>3, <3>2 DEF StreamInv
    <3>4. QED
      BY <1>14, <3>2, <3>3
  <2>2. ASSUME NEW j \in DOMAIN backlog', NEW l \in DOMAIN backlog', backlog'[j] = backlog'[l]
        PROVE  j = l
    <3>1. PICK m : m = j + 1
      OBVIOUS
    <3>2. PICK o : o = l + 1
      OBVIOUS
    <3>3. m = o
      BY <1>3, <1>6, <2>2, <3>1, <3>2 DEF StreamInv
    <3>4. QED
      BY <1>5, <3>1, <3>2, <3>3
  <2>3. ASSUME NEW l \in Used' PROVE conns'[l].s \in 1..used /\ sock'[conns'[l].s].open
    <3>1. CASE l = i
      BY <1>7, <1>9, <1>10, <1>11, <1>12, <1>13, <3>1
    <3>2. CASE l \in Used
      BY <1>3, <1>7, <1>14, <3>2, UsedIs DEF StreamInv
    <3>3. QED
      BY <1>7, <3>1, <3>2
  <2>4. \A l, m \in Used' : conns'[l].s = conns'[m].s => l = m
    BY <1>3, <1>7, <1>9, <1>10, <1>11 DEF StreamInv
  <2>5. ASSUME NEW l \in Used', NEW j \in DOMAIN backlog' PROVE conns'[l].s # backlog'[j]
    <3>1. PICK m : m = j + 1
      OBVIOUS
    <3>2. m \in DOMAIN backlog /\ backlog'[j] = backlog[m] /\ backlog[m] # s
      BY <1>6, <3>1
    <3>3. QED
      BY <1>3, <1>7, <1>9, <1>10, <3>2 DEF StreamInv
  <2>6. ASSUME NEW t \in (used + 1)..MaxStreams PROVE sock'[t] = Sock
    <3>1. t \in Streams /\ t # s
      BY <1>3, <1>11, StreamAssumption DEF Streams
    <3>2. QED
      BY <1>3, <1>13, <3>1 DEF StreamInv
  <2>7. QED
    BY <1>3, <2>1, <2>2, <2>3, <2>4, <2>5, <2>6 DEF StreamInv
<1>17. \A c \in Clients : cpc[c] # "off" => cstream[c] \in Streams
  BY <1>3, StreamAssumption DEF Inv, TypeInv, ClientInv, Streams
<1>18. ClientInv'
  BY <1>3, <1>14, <1>17 DEF Inv, ClientInv
<1>19. FlightInv'
  BY <1>3, <1>7, <1>9, <1>10, FlightKept DEF Inv
<1>20. OneStreamInv'
  <2>1. ASSUME NEW t \in Streams, NEW r \in Requests, On(t, r)' PROVE On(t, r)
    <3>1. ~Carries(k, r)
      BY <1>10, NoHeaders, Zenon DEF Carries
    <3>2. \/ HasHeaders(sock'[t].up, r)
          \/ \E l \in Used' : conns'[l].s = t /\ Carries(conns'[l], r)
      BY <2>1 DEF On, Carries, HasHeaders
    <3>3. HasHeaders(sock[t].up, r) \/ \E l \in Used : conns[l].s = t /\ Carries(conns[l], r)
      BY <1>7, <1>9, <1>14, <3>1, <3>2
    <3>4. QED
      BY <3>3 DEF On
  <2>2. QED
    BY <1>3, <2>1, OneStreamKept DEF Inv
<1>21. OwnInv'
  <2> SUFFICES ASSUME NEW c \in Clients, InTime(c)
               PROVE  LET p == sock'[cstream[c]] IN
                      /\ p.down = <<>> \/ (cpc[c] = "wait" /\ OwnAnswer(request[c], p.down))
                      /\ (\E j \in DOMAIN backlog' : backlog'[j] = cstream[c]) =>
                           p.up = Outgoing(cpc[c], request[c]) /\ p.down = <<>>
                      /\ \A l \in Used' : conns'[l].s = cstream[c] =>
                           Serves(cpc[c], request[c], conns'[l], p)
    BY <1>3 DEF OwnInv, InTime
  <2>1. PICK p : p = sock[cstream[c]]
    OBVIOUS
  <2>2. PICK x : x = sock'[cstream[c]]
    OBVIOUS
  <2>3. x.up = p.up /\ x.down = p.down /\ cstream[c] \in Streams
    BY <1>14, <1>17, <2>1, <2>2 DEF InTime
  <2>4. /\ p.down = <<>> \/ (cpc[c] = "wait" /\ OwnAnswer(request[c], p.down))
        /\ \A j \in DOMAIN backlog : backlog[j] = cstream[c] =>
             p.up = Outgoing(cpc[c], request[c]) /\ p.down = <<>>
        /\ \A l \in Used : conns[l].s = cstream[c] => Serves(cpc[c], request[c], conns[l], p)
    BY <2>1 DEF Inv, OwnInv
  <2>5. (\E j \in DOMAIN backlog' : backlog'[j] = cstream[c]) =>
          x.up = Outgoing(cpc[c], request[c]) /\ x.down = <<>>
    BY <1>6, <2>3, <2>4
  <2>6. ASSUME NEW l \in Used', conns'[l].s = cstream[c]
        PROVE  Serves(cpc[c], request[c], conns'[l], x)
    <3>1. CASE l = i
      <4>1. 1 \in DOMAIN backlog /\ backlog[1] = cstream[c] /\ conns'[l] = k
        BY <1>5, <1>7, <1>9, <1>10, <2>6, <3>1
      <4>2. x.up = Outgoing(cpc[c], request[c]) /\ x.down = <<>>
        BY <2>3, <2>4, <4>1
      <4>3. <<>> \o x.up = x.up
        <5>1. x \in Sockets
          BY <1>13, <2>2, <2>3
        <5>2. x.up \in Seq(Parts)
          BY <5>1 DEF Sockets
        <5>3. QED
          BY <5>2, ConcatEmptySeq
      <4>4. k.recv_buf \o x.up = Outgoing(cpc[c], request[c])
        BY <1>10, <4>2, <4>3, Zenon
      <4>5. QED
        BY <1>10, <4>1, <4>2, <4>4 DEF Serves, Unread
    <3>2. CASE l \in Used
      <4>1. conns'[l] = conns[l] /\ Serves(cpc[c], request[c], conns[l], p)
        BY <1>7, <2>4, <2>6, <3>2
      <4>2. QED
        BY <2>3, <4>1 DEF Serves, Unread, Answering
    <3>3. QED
      BY <1>7, <3>1, <3>2
  <2>7. QED
    BY <2>2, <2>3, <2>4, <2>5, <2>6
<1>22. QED
  BY <1>8, <1>15, <1>16, <1>18, <1>19, <1>20, <1>21 DEF Inv


-----------------------------------------------------------------------------
(* The clients *)

(* What OwnInv says of a client at pc with request r, stream s and socket  *)
(* q                                                                       *)
OwnAt(pc, r, s, q) ==
  /\ q.down = <<>> \/ (pc = "wait" /\ OwnAnswer(r, q.down))
  /\ (\E j \in DOMAIN backlog : backlog[j] = s) => q.up = Outgoing(pc, r) /\ q.down = <<>>
  /\ \A i \in Used : conns[i].s = s => Serves(pc, r, conns[i], q)

LEMMA OwnAtIs ==
  ASSUME OwnInv, NEW c \in Clients, InTime(c)
  PROVE  OwnAt(cpc[c], request[c], cstream[c], sock[cstream[c]])
BY DEF OwnInv, OwnAt

(* The clients do not touch the server's own state. *)
LEMMA RestKept ==
  ASSUME Inv, UNCHANGED rest
  PROVE  /\ Used' = Used /\ UNCHANGED <<conns, free, npc, held, reqQ, respQ, batch, wpc>>
         /\ PoolInv' /\ HeldInv' /\ FlightInv'
<1>1. Used' = Used /\ UNCHANGED <<conns, free, npc, held, reqQ, respQ, batch, wpc>>
  BY DEF rest, network, pool, round, worker, queues, Used
<1>2. PoolInv' /\ HeldInv'
  BY <1>1 DEF Inv, PoolInv, HeldInv, ConnOk
<1>3. FlightInv'
  BY <1>1, FlightKept DEF Inv
<1>4. QED
  BY <1>1, <1>2, <1>3

(* Client c, which has a stream, changes that stream's socket to q. *)
LEMMA ClientStep ==
  ASSUME Inv, NEW c \in Clients, cpc[c] # "off", UNCHANGED <<backlog, used, rest>>,
         NEW q \in Sockets, sock' = [sock EXCEPT ![cstream[c]] = q],
         q.open = sock[cstream[c]].open,
         cpc' \in [Clients -> {"off", "idle", "half", "wait"}], cstream' \in [Clients -> Nat],
         request' \in [Clients -> Requests], late' \in [Clients -> BOOLEAN],
         \A d \in Clients \ {c} : /\ cpc'[d] = cpc[d] /\ cstream'[d] = cstream[d]
                                  /\ request'[d] = request[d] /\ late'[d] = late[d],
         request'[c].client = c,
         cpc'[c] # "off" => cstream'[c] = cstream[c] /\ q.peer = "open",
         OneStreamInv',
         cpc'[c] # "off" /\ ~late'[c] => OwnAt(cpc'[c], request'[c], cstream[c], q)
  PROVE  Inv'
<1>1. /\ Used' = Used /\ UNCHANGED <<conns, free, npc, held, reqQ, respQ, batch, wpc>>
      /\ PoolInv' /\ HeldInv' /\ FlightInv'
  BY RestKept
<1>2. PICK s : s = cstream[c]
  OBVIOUS
<1>3. s \in 1..used /\ used \in Nat /\ s \in Streams /\ sock \in [Streams -> Sockets]
  BY <1>2, StreamAssumption DEF Inv, ClientInv, TypeInv, Streams
<1>4. /\ sock' \in [Streams -> Sockets] /\ sock'[s] = q
      /\ \A t \in Streams \ {s} : sock'[t] = sock[t]
  BY <1>2, <1>3
<1>5. \A t \in Streams : sock'[t].open = sock[t].open
  BY <1>2, <1>4
<1>6. TypeInv'
  BY <1>1, <1>4 DEF Inv, TypeInv
<1>7. StreamInv'
  <2>1. \A j \in DOMAIN backlog : backlog[j] \in Streams
    BY DEF Inv, TypeInv
  <2>2. \A i \in Used : conns[i].s \in Streams
    BY UsedIs DEF Inv
  <2>3. \A t \in (used + 1)..MaxStreams : t \in Streams \ {s}
    BY <1>3, StreamAssumption DEF Streams
  <2>4. QED
    BY <1>1, <1>4, <1>5, <2>1, <2>2, <2>3 DEF Inv, StreamInv
<1>8. ASSUME NEW d \in Clients \ {c}, cpc[d] # "off"
      PROVE  /\ cstream[d] \in 1..used /\ cstream[d] # s /\ sock'[cstream[d]] = sock[cstream[d]]
             /\ sock[cstream[d]].peer = "open"
             /\ \A e \in Clients : cpc[e] # "off" /\ cstream[e] = cstream[d] => e = d
  <2>1. /\ cstream[d] \in 1..used /\ cstream[d] # s /\ sock[cstream[d]].peer = "open"
        /\ \A e \in Clients : cpc[e] # "off" /\ cstream[e] = cstream[d] => e = d
    BY <1>2, <1>8 DEF Inv, ClientInv
  <2>2. cstream[d] \in Streams
    BY <1>3, <2>1, StreamAssumption DEF Inv, TypeInv, Streams
  <2>3. QED
    BY <1>4, <2>1, <2>2
<1>9. ClientInv'
  <2>1. \A d \in Clients : request'[d].client = d
    BY DEF Inv, ClientInv
  <2>2. ASSUME NEW d \in Clients, cpc'[d] # "off"
        PROVE  /\ cstream'[d] \in 1..used /\ sock'[cstream'[d]].peer = "open"
               /\ \A e \in Clients : cpc'[e] # "off" /\ cstream'[e] = cstream'[d] => e = d
    <3>1. CASE d = c
      BY <1>2, <1>3, <1>4, <1>8, <2>2, <3>1
    <3>2. CASE d # c
      BY <1>2, <1>8, <2>2, <3>2
    <3>3. QED
      BY <3>1, <3>2
  <2>3. QED
    BY <2>1, <2>2 DEF ClientInv
<1>10. OwnInv'
  <2> SUFFICES ASSUME NEW d \in Clients, cpc'[d] # "off", ~late'[d]
               PROVE  OwnAt(cpc'[d], request'[d], cstream'[d], sock'[cstream'[d]])
    BY <1>1 DEF OwnInv, OwnAt, InTime
  <2>1. CASE d = c
    BY <1>2, <1>4, <2>1
  <2>2. CASE d # c
    <3>1. InTime(d) /\ sock'[cstream[d]] = sock[cstream[d]]
      BY <1>8, <2>2 DEF InTime
    <3>2. OwnAt(cpc[d], request[d], cstream[d], sock[cstream[d]])
      BY <3>1, OwnAtIs DEF Inv
    <3>3. QED
      BY <2>2, <3>1, <3>2
  <2>3. QED
    BY <2>1, <2>2
<1>11. QED
  BY <1>1, <1>6, <1>7, <1>9, <1>10 DEF Inv

(* No new headers on the stream of c *)
LEMMA SameRequests ==
  ASSUME Inv, NEW c \in Clients, cpc[c] # "off", UNCHANGED <<request, conns>>,
         NEW q \in Sockets, sock' = [sock EXCEPT ![cstream[c]] = q],
         \A r \in Requests : HasHeaders(q.up, r) => HasHeaders(sock[cstream[c]].up, r)
  PROVE  OneStreamInv'
<1>1. Used' = Used /\ cstream[c] \in Streams /\ sock \in [Streams -> Sockets]
  BY StreamAssumption DEF Used, Inv, TypeInv, ClientInv, Streams
<1>2. sock'[cstream[c]] = q /\ \A t \in Streams : t # cstream[c] => sock'[t] = sock[t]
  BY <1>1
<1>3. ASSUME NEW s \in Streams, NEW r \in Requests, On(s, r)' PROVE On(s, r)
  <2>1. HasHeaders(sock'[s].up, r) \/ \E i \in Used : conns[i].s = s /\ Carries(conns[i], r)
    BY <1>1, <1>3 DEF On, Carries, HasHeaders
  <2>2. HasHeaders(sock'[s].up, r) => HasHeaders(sock[s].up, r)
    BY <1>2
  <2>3. QED
    BY <2>1, <2>2 DEF On
<1>4. QED
  BY <1>3, OneStreamKept DEF Inv

LEMMA DisconnectInv ==
  ASSUME Inv, NEW c \in Clients, Disconnect(c)
  PROVE  Inv'
<1>1. PICK k : k = sock[cstream[c]]
  OBVIOUS
<1>2. PICK q : q = Closed(k)
  OBVIOUS
<1>3. /\ cpc[c] # "off" /\ sock' = [sock EXCEPT ![cstream[c]] = q]
      /\ cpc' = [cpc EXCEPT ![c] = "off"] /\ cstream' = [cstream EXCEPT ![c] = 0]
      /\ UNCHANGED <<backlog, request, late, used, rest>>
  BY <1>1, <1>2 DEF Disconnect
<1>4. k \in Sockets
  BY <1>1, <1>3, StreamAssumption DEF Inv, TypeInv, ClientInv, Streams
<1>5. q \in Sockets /\ q.open = k.open /\ q.up = k.up
  <2> DEFINE p == IF k.open /\ (k.down # <<>> \/ k.full) THEN "rst" ELSE "fin"
             empty == <<>>
  <2>1. p \in {"open", "fin", "rst"} /\ empty \in Seq(Answers) /\ k.open \in BOOLEAN
    BY <1>4 DEF Sockets
  <2>2. q = [k EXCEPT !.peer = p, !.down = empty, !.full = FALSE, !.edge = k.open]
    BY <1>2 DEF Closed
  <2> HIDE DEF p, empty
  <2>3. QED
    BY <1>4, <2>1, <2>2 DEF Sockets
<1>6. OneStreamInv'
  BY <1>1, <1>3, <1>5, RestKept, SameRequests
<1>7. /\ cpc' \in [Clients -> {"off", "idle", "half", "wait"}] /\ cstream' \in [Clients -> Nat]
      /\ request' \in [Clients -> Requests] /\ late' \in [Clients -> BOOLEAN]
      /\ cpc'[c] = "off" /\ request'[c].client = c
      /\ \A d \in Clients \ {c} : /\ cpc'[d] = cpc[d] /\ cstream'[d] = cstream[d]
                                  /\ request'[d] = request[d] /\ late'[d] = late[d]
  BY <1>3 DEF Inv, TypeInv, ClientInv
<1>8. QED
  BY <1>1, <1>3, <1>5, <1>6, <1>7, ClientStep

(* The call ends with an error. *)
LEMMA FailureInv ==
  ASSUME Inv, NEW c \in Clients, StreamFails(c) \/ ReadTimeout(c)
  PROVE  Inv'
<1>1. PICK q : q = sock[cstream[c]]
  OBVIOUS
<1>2. /\ cpc[c] \in {"half", "wait"} /\ sock' = sock /\ sock \in [Streams -> Sockets]
      /\ cpc' = [cpc EXCEPT ![c] = "idle"] /\ UNCHANGED <<backlog, cstream, request, used, rest>>
  BY DEF StreamFails, ReadTimeout, server, streams, rest, Inv, TypeInv
<1>3. cstream[c] \in Streams /\ q \in Sockets /\ q.peer = "open"
  <2>1. cstream[c] \in Streams /\ sock[cstream[c]].peer = "open"
    BY <1>2, StreamAssumption DEF Inv, TypeInv, ClientInv, Streams
  <2>2. QED
    BY <1>1, <1>2, <2>1
<1>4. sock' = [sock EXCEPT ![cstream[c]] = q]
  BY <1>1, <1>2, <1>3
<1>5. OneStreamInv'
  BY <1>1, <1>2, <1>3, <1>4, RestKept, SameRequests
<1>6. /\ cpc' \in [Clients -> {"off", "idle", "half", "wait"}] /\ cstream' \in [Clients -> Nat]
      /\ request' \in [Clients -> Requests] /\ late' \in [Clients -> BOOLEAN]
      /\ cpc'[c] = "idle" /\ request'[c].client = c
      /\ \A d \in Clients \ {c} : /\ cpc'[d] = cpc[d] /\ cstream'[d] = cstream[d]
                                  /\ request'[d] = request[d] /\ late'[d] = late[d]
  <2>1. late' \in [Clients -> BOOLEAN] /\ \A d \in Clients \ {c} : late'[d] = late[d]
    BY DEF StreamFails, ReadTimeout, Inv, TypeInv
  <2>2. /\ cpc' \in [Clients -> {"off", "idle", "half", "wait"}] /\ cpc'[c] = "idle"
        /\ \A d \in Clients \ {c} : cpc'[d] = cpc[d]
    BY <1>2 DEF Inv, TypeInv
  <2>3. /\ cstream' = cstream /\ cstream \in [Clients -> Nat]
        /\ request' = request /\ request \in [Clients -> Requests] /\ request[c].client = c
    BY <1>2 DEF Inv, TypeInv, ClientInv
  <2>4. QED
    BY <2>1, <2>2, <2>3
<1>7. ASSUME ~late'[c] PROVE OwnAt("idle", request[c], cstream[c], q)
  <2>1. StreamFails(c)
    BY <1>7 DEF ReadTimeout, Inv, TypeInv
  <2>2. ~q.open /\ (cpc[c] = "wait" => q.down = <<>>) /\ late[c] = late'[c]
    BY <1>1, <2>1 DEF StreamFails, IsComplete
  <2>3. OwnAt(cpc[c], request[c], cstream[c], q)
    BY <1>1, <1>2, <1>7, <2>2, OwnAtIs DEF Inv, InTime
  <2>4. q.down = <<>>
    BY <2>2, <2>3 DEF OwnAt
  <2>5. /\ \A j \in DOMAIN backlog : backlog[j] # cstream[c]
        /\ \A i \in Used : conns[i].s # cstream[c]
    BY <1>1, <2>2 DEF Inv, StreamInv
  <2>6. QED
    BY <2>4, <2>5 DEF OwnAt
<1>8. /\ q.open = sock[cstream[c]].open /\ cstream'[c] = cstream[c]
      /\ ~late'[c] => OwnAt(cpc'[c], request'[c], cstream[c], q)
  BY <1>1, <1>2, <1>6, <1>7
<1>9. cpc[c] # "off" /\ UNCHANGED <<backlog, used, rest>>
  BY <1>2
<1>10. QED
  BY <1>3, <1>4, <1>5, <1>6, <1>8, <1>9, ClientStep

LEMMA ReceiveAnswerInv ==
  ASSUME Inv, NEW c \in Clients, ReceiveAnswer(c)
  PROVE  Inv'
<1>1. PICK k : k = sock[cstream[c]]
  OBVIOUS
<1>2. PICK q : q = [k EXCEPT !.down = <<>>]
  OBVIOUS
<1>3. /\ cpc[c] = "wait" /\ k.down # <<>> /\ sock' = [sock EXCEPT ![cstream[c]] = q]
      /\ cpc' = [cpc EXCEPT ![c] = "idle"]
      /\ UNCHANGED <<backlog, cstream, request, late, used, rest>>
  BY <1>1, <1>2 DEF ReceiveAnswer, IsComplete
<1>4. k \in Sockets /\ k.peer = "open"
  BY <1>1, <1>3, StreamAssumption DEF Inv, TypeInv, ClientInv, Streams
<1>5. q \in Sockets /\ q.open = k.open /\ q.up = k.up /\ q.down = <<>> /\ q.peer = k.peer
  <2> DEFINE empty == <<>>
  <2>1. empty \in Seq(Answers) /\ q = [k EXCEPT !.down = empty]
    BY <1>2
  <2> HIDE DEF empty
  <2>2. q \in Sockets /\ q.open = k.open /\ q.up = k.up /\ q.down = empty /\ q.peer = k.peer
    BY <1>4, <2>1 DEF Sockets
  <2>3. QED
    BY <2>2 DEF empty
<1>6. OneStreamInv'
  BY <1>1, <1>3, <1>5, RestKept, SameRequests
<1>7. /\ cpc' \in [Clients -> {"off", "idle", "half", "wait"}] /\ cstream' \in [Clients -> Nat]
      /\ request' \in [Clients -> Requests] /\ late' \in [Clients -> BOOLEAN]
      /\ cpc'[c] = "idle" /\ request'[c].client = c
      /\ \A d \in Clients \ {c} : /\ cpc'[d] = cpc[d] /\ cstream'[d] = cstream[d]
                                  /\ request'[d] = request[d] /\ late'[d] = late[d]
  BY <1>3 DEF Inv, TypeInv, ClientInv
<1>8. ASSUME ~late[c] PROVE OwnAt("idle", request[c], cstream[c], q)
  <2>1. OwnAt("wait", request[c], cstream[c], k)
    BY <1>1, <1>3, <1>8, OwnAtIs DEF Inv, InTime
  <2>2. ~ \E j \in DOMAIN backlog : backlog[j] = cstream[c]
    BY <1>3, <2>1 DEF OwnAt
  <2>3. ASSUME NEW i \in Used, conns[i].s = cstream[c] PROVE Serves("idle", request[c], conns[i], q)
    <3>1. Serves("wait", request[c], conns[i], k)
      BY <2>1, <2>3 DEF OwnAt
    <3>2. k.up = <<>> /\ conns[i].state = "Reading" /\ conns[i].recv_buf = <<>>
      BY <1>3, <3>1 DEF Serves, Unread, Answering
    <3>3. <<>> \o <<>> = Outgoing("idle", request[c])
      BY DEF Outgoing
    <3>4. conns[i].recv_buf \o q.up = Outgoing("idle", request[c])
      BY <1>5, <3>2, <3>3, Zenon
    <3>5. QED
      BY <1>5, <3>2, <3>4 DEF Serves, Unread
  <2>4. QED
    BY <1>5, <2>2, <2>3 DEF OwnAt
<1>9. /\ q.open = sock[cstream[c]].open /\ cstream'[c] = cstream[c] /\ q.peer = "open"
      /\ ~late'[c] => OwnAt(cpc'[c], request'[c], cstream[c], q)
  BY <1>1, <1>3, <1>4, <1>5, <1>7, <1>8
<1>10. QED
  BY <1>3, <1>5, <1>6, <1>7, <1>9, ClientStep


(* Pieces of sequences *)
LEMMA OneOf ==
  ASSUME NEW S, NEW t \in Seq(S), NEW j \in 1..Len(t)
  PROVE  SubSeq(t, j, j) = <<t[j]>>
<1>1. PICK u : u = SubSeq(t, j, j)
  OBVIOUS
<1>2. PICK v : v = <<t[j]>>
  OBVIOUS
<1>3. Len(t) \in Nat /\ j \in Int /\ t[j] \in S
  BY LenProperties, ElementOfSeq
<1>4. \A i \in j..j : t[i] \in S
  BY <1>3
<1>5. u \in Seq(S) /\ Len(u) = 1 /\ u[1] = t[j]
  <2>1. /\ u \in Seq(S) /\ Len(u) = IF j <= j THEN j - j + 1 ELSE 0
        /\ \A i \in 1..(j - j + 1) : u[i] = t[j + i - 1]
    BY <1>1, <1>3, <1>4, SubSeqProperties
  <2>2. j - j + 1 = 1 /\ j <= j /\ j + 1 - 1 = j
    BY <1>3
  <2>3. QED
    BY <2>1, <2>2
<1>6. v \in Seq(S) /\ Len(v) = 1 /\ v[1] = t[j]
  BY <1>2, <1>3
<1>7. u = v
  BY <1>5, <1>6, SeqEqual
<1>8. QED
  BY <1>1, <1>2, <1>7

LEMMA TwoParts ==
  ASSUME NEW h, NEW b
  PROVE  /\ SubSeq(<<h, b>>, 1, 1) = <<h>> /\ SubSeq(<<h, b>>, 2, 2) = <<b>>
         /\ <<h>> \o <<b>> = <<h, b>>
<1>1. PICK t : t = <<h, b>>
  OBVIOUS
<1>2. t \in Seq({h, b}) /\ Len(t) = 2 /\ t[1] = h /\ t[2] = b
  BY <1>1
<1>3. SubSeq(t, 1, 1) = <<t[1]>> /\ SubSeq(t, 2, 2) = <<t[2]>>
  BY <1>2, OneOf
<1>4. PICK u : u = <<h>>
  OBVIOUS
<1>5. PICK v : v = <<b>>
  OBVIOUS
<1>6. u \in Seq({h, b}) /\ v \in Seq({h, b}) /\ Len(u) = 1 /\ Len(v) = 1 /\ u[1] = h /\ v[1] = b
  BY <1>4, <1>5
<1>7. u \o v = t
  <2>1. u \o v \in Seq({h, b}) /\ Len(u \o v) = 2 /\ (u \o v)[1] = h /\ (u \o v)[2] = b
    BY <1>6, ConcatProperties
  <2>2. PICK w : w = u \o v
    OBVIOUS
  <2>3. w \in Seq({h, b}) /\ Len(w) = Len(t) /\ \A j \in 1..Len(w) : w[j] = t[j]
    BY <1>2, <2>1, <2>2
  <2>4. w = t
    BY <1>2, <2>3, SeqEqual
  <2>5. QED
    BY <2>2, <2>4
<1>8. QED
  BY <1>1, <1>2, <1>3, <1>4, <1>5, <1>7, Zenon

LEMMA InThree == \A a, b, c \in Seq(Parts) : a \o (b \o c) = (a \o b) \o c
<1> TAKE a, b, c \in Seq(Parts)
<1>1. (a \o b) \o c = a \o (b \o c)
  BY ConcatAssociative
<1>2. QED
  BY <1>1

(* What build_request makes: the headers and the body. *)
LEMMA Built ==
  ASSUME NEW r \in Requests
  PROVE  /\ BuildRequest(r) \in Seq(Parts) /\ Outgoing("wait", r) = BuildRequest(r)
         /\ SubSeq(BuildRequest(r), 1, 1) \in Seq(Parts)
         /\ Outgoing("half", r) = SubSeq(BuildRequest(r), 1, 1)
         /\ SubSeq(BuildRequest(r), 2, 2) \in Seq(Parts)
         /\ Outgoing("half", r) \o SubSeq(BuildRequest(r), 2, 2) = Outgoing("wait", r)
         /\ \A x : HasHeaders(BuildRequest(r), x) => x = r
         /\ \A x : HasHeaders(SubSeq(BuildRequest(r), 1, 1), x) => x = r
         /\ \A x : ~HasHeaders(SubSeq(BuildRequest(r), 2, 2), x)
<1> DEFINE h == [req |-> r, part |-> 1]
           b == [req |-> r, part |-> 2]
<1>1. h \in Parts /\ b \in Parts /\ h # b /\ h.req = r /\ b.part = 2
  BY DEF Parts
<1>2. BuildRequest(r) = <<h, b>>
  BY DEF BuildRequest
<1>3. \A x : ([req |-> x, part |-> 1] = h => x = r) /\ [req |-> x, part |-> 1] # b
  OBVIOUS
<1>4. Outgoing("wait", r) = BuildRequest(r) /\ Outgoing("half", r) = SubSeq(BuildRequest(r), 1, 1)
  BY DEF Outgoing
<1> HIDE DEF h, b
<1>5. SubSeq(<<h, b>>, 1, 1) = <<h>> /\ SubSeq(<<h, b>>, 2, 2) = <<b>> /\ <<h>> \o <<b>> = <<h, b>>
  BY TwoParts
<1>6. <<h>> \in Seq(Parts) /\ <<b>> \in Seq(Parts) /\ <<h, b>> \in Seq(Parts)
  BY <1>1
<1>7. \A x : HasHeaders(<<h, b>>, x) => x = r
  BY <1>3 DEF HasHeaders
<1>8. \A x : HasHeaders(<<h>>, x) => x = r
  BY <1>3 DEF HasHeaders
<1>9. \A x : ~HasHeaders(<<b>>, x)
  BY <1>3 DEF HasHeaders
<1>10. QED
  BY <1>2, <1>4, <1>5, <1>6, <1>7, <1>8, <1>9, Zenon

(* The client writes parts to its socket k, which becomes q. *)
Sent(c, parts, k, q) ==
  /\ k \in Sockets /\ q \in Sockets /\ sock' = [sock EXCEPT ![cstream[c]] = q]
  /\ q.up = k.up \o parts /\ q.down = k.down /\ q.open = k.open /\ q.peer = "open"
  /\ \A r : HasHeaders(q.up, r) => HasHeaders(k.up, r) \/ HasHeaders(parts, r)

LEMMA Delivered ==
  ASSUME Inv, NEW c \in Clients, cpc[c] # "off", NEW parts \in Seq(Parts),
         Deliver(cstream[c], parts),
         NEW k, k = sock[cstream[c]], NEW q, q = [k EXCEPT !.up = k.up \o parts, !.edge = TRUE]
  PROVE  Sent(c, parts, k, q)
<1>1. PICK s : s = cstream[c]
  OBVIOUS
<1>2. s \in Streams /\ sock \in [Streams -> Sockets] /\ k \in Sockets /\ k.peer = "open"
  BY <1>1, StreamAssumption DEF Inv, TypeInv, ClientInv, Streams
<1>3. k.up \in Seq(Parts)
  BY <1>2 DEF Sockets
<1>4. PICK u : u = k.up \o parts
  OBVIOUS
<1>5. u \in Seq(Parts)
  BY <1>3, <1>4, ConcatProperties
<1>6. q = [k EXCEPT !.up = u, !.edge = TRUE]
  BY <1>4
<1>7. /\ q \in Sockets /\ q.up = u /\ q.down = k.down /\ q.open = k.open /\ q.peer = k.peer
  BY <1>2, <1>5, <1>6 DEF Sockets
<1>8. sock' = [sock EXCEPT ![s] = q]
  BY <1>1, <1>2 DEF Deliver, Sockets
<1>9. \A r : HasHeaders(q.up, r) => HasHeaders(k.up, r) \/ HasHeaders(parts, r)
  BY <1>3, <1>4, <1>7, HeadersOfConcat
<1>10. QED
  BY <1>1, <1>2, <1>4, <1>7, <1>8, <1>9 DEF Sent

(* What a client sends next keeps its stream its own. *)
LEMMA OwnDelivers ==
  ASSUME TypeInv, StreamInv,
         NEW pc, NEW r, NEW s, NEW k \in Sockets, OwnAt(pc, r, s, k), pc # "wait",
         NEW parts \in Seq(Parts), NEW q, q.up = k.up \o parts, q.down = k.down,
         NEW pc2, NEW r2, Outgoing(pc, r) \o parts = Outgoing(pc2, r2)
  PROVE  OwnAt(pc2, r2, s, q)
<1>1. q.down = <<>> /\ k.up \in Seq(Parts)
  BY DEF OwnAt, Sockets
<1>2. (\E j \in DOMAIN backlog : backlog[j] = s) => q.up = Outgoing(pc2, r2)
  BY Zenon DEF OwnAt
<1>3. ASSUME NEW i \in Used, conns[i].s = s PROVE Serves(pc2, r2, conns[i], q)
  <2>1. PICK buf : buf = conns[i].recv_buf
    OBVIOUS
  <2>2. conns[i].state = "Reading" /\ buf \o k.up = Outgoing(pc, r) /\ buf \in Seq(Parts)
    <3>1. Serves(pc, r, conns[i], k)
      BY <1>3 DEF OwnAt
    <3>2. conns[i].state = "Reading" /\ buf \o k.up = Outgoing(pc, r)
      BY <2>1, <3>1 DEF Serves, Unread, Answering
    <3>3. conns[i] \in Connections
      BY UsedIs
    <3>4. QED
      BY <2>1, <3>2, <3>3 DEF Connections
  <2>3. buf \o (k.up \o parts) = (buf \o k.up) \o parts
    <3>1. PICK u : u = k.up
      OBVIOUS
    <3>2. buf \in Seq(Parts) /\ u \in Seq(Parts)
      BY <1>1, <2>2, <3>1
    <3>3. QED
      BY <3>1, <3>2, InThree, Zenon
  <2>4. buf \o q.up = Outgoing(pc2, r2)
    BY <2>2, <2>3, Zenon
  <2>5. QED
    BY <1>1, <2>1, <2>2, <2>4 DEF Serves, Unread
<1>4. QED
  BY <1>1, <1>2, <1>3 DEF OwnAt

LEMMA EndRequestInv ==
  ASSUME Inv, NEW c \in Clients, EndRequest(c)
  PROVE  Inv'
<1>1. PICK k : k = sock[cstream[c]]
  OBVIOUS
<1>2. PICK parts : parts = SubSeq(BuildRequest(request[c]), 2, 2)
  OBVIOUS
<1>3. PICK q : q = [k EXCEPT !.up = k.up \o parts, !.edge = TRUE]
  OBVIOUS
<1>4. /\ cpc[c] = "half" /\ Deliver(cstream[c], parts) /\ cpc' = [cpc EXCEPT ![c] = "wait"]
      /\ UNCHANGED <<backlog, cstream, request, late, used, rest>>
  BY <1>2 DEF EndRequest
<1>5. /\ request[c] \in Requests /\ parts \in Seq(Parts) /\ \A x : ~HasHeaders(parts, x)
      /\ Outgoing("half", request[c]) \o parts = Outgoing("wait", request[c])
  <2>1. request[c] \in Requests
    BY DEF Inv, TypeInv
  <2>2. QED
    BY <1>2, <2>1, Built
<1>6. /\ k \in Sockets /\ q \in Sockets /\ sock' = [sock EXCEPT ![cstream[c]] = q]
      /\ q.up = k.up \o parts /\ q.down = k.down /\ q.open = k.open /\ q.peer = "open"
      /\ \A r : HasHeaders(q.up, r) => HasHeaders(k.up, r) \/ HasHeaders(parts, r)
  <2>1. cpc[c] # "off"
    BY <1>4
  <2>2. Sent(c, parts, k, q)
    BY <1>1, <1>3, <1>4, <1>5, <2>1, Delivered
  <2>3. QED
    BY <2>2 DEF Sent
<1>7. OneStreamInv'
  BY <1>1, <1>4, <1>5, <1>6, RestKept, SameRequests
<1>8. /\ cpc' \in [Clients -> {"off", "idle", "half", "wait"}] /\ cstream' \in [Clients -> Nat]
      /\ request' \in [Clients -> Requests] /\ late' \in [Clients -> BOOLEAN]
      /\ cpc'[c] = "wait" /\ request'[c].client = c
      /\ \A d \in Clients \ {c} : /\ cpc'[d] = cpc[d] /\ cstream'[d] = cstream[d]
                                  /\ request'[d] = request[d] /\ late'[d] = late[d]
  BY <1>4 DEF Inv, TypeInv, ClientInv
<1>9. ASSUME ~late[c] PROVE OwnAt("wait", request[c], cstream[c], q)
  <2>1. OwnAt("half", request[c], cstream[c], k)
    BY <1>1, <1>4, <1>9, OwnAtIs DEF Inv, InTime
  <2>2. QED
    BY <1>5, <1>6, <2>1, OwnDelivers DEF Inv
<1>10. /\ q.open = sock[cstream[c]].open /\ cstream'[c] = cstream[c]
       /\ ~late'[c] => OwnAt(cpc'[c], request'[c], cstream[c], q)
  BY <1>1, <1>4, <1>6, <1>8, <1>9
<1>11. QED
  BY <1>4, <1>6, <1>7, <1>8, <1>10, ClientStep

(* A new request is on the stream that its client sends it on, and on no   *)
(* other.                                                                  *)
LEMMA NewRequest ==
  ASSUME Inv, NEW c \in Clients, cpc[c] # "off", NEW r \in Requests, r.client = c,
         r.n = request[c].n + 1, request' = [request EXCEPT ![c] = r], UNCHANGED conns,
         NEW q \in Sockets, sock' = [sock EXCEPT ![cstream[c]] = q],
         \A x \in Requests : HasHeaders(q.up, x) => HasHeaders(sock[cstream[c]].up, x) \/ x = r
  PROVE  OneStreamInv'
<1>1. /\ Used' = Used /\ cstream[c] \in Streams /\ sock \in [Streams -> Sockets]
      /\ request \in [Clients -> Requests]
  BY StreamAssumption DEF Used, Inv, TypeInv, ClientInv, Streams
<1>2. sock'[cstream[c]] = q /\ \A t \in Streams : t # cstream[c] => sock'[t] = sock[t]
  BY <1>1
<1>3. ASSUME NEW s \in Streams, NEW x \in Requests, On(s, x)'
      PROVE  On(s, x) \/ (s = cstream[c] /\ x = r)
  <2>1. HasHeaders(sock'[s].up, x) \/ \E i \in Used : conns[i].s = s /\ Carries(conns[i], x)
    BY <1>1, <1>3 DEF On, Carries, HasHeaders
  <2>2. HasHeaders(sock'[s].up, x) => HasHeaders(sock[s].up, x) \/ (s = cstream[c] /\ x = r)
    BY <1>2
  <2>3. QED
    BY <2>1, <2>2 DEF On
<1>4. request[c].n \in Nat
  BY <1>1 DEF Requests
<1>5. \A s \in Streams : ~On(s, r)
  <2>1. ~(r.n <= request[c].n)
    BY <1>4
  <2>2. QED
    BY <2>1 DEF Inv, OneStreamInv
<1>6. ASSUME NEW s \in Streams, NEW x \in Requests, On(s, x)'
      PROVE  /\ x.client \in Clients /\ x.n <= request'[x.client].n
             /\ \A t \in Streams : On(t, x)' => t = s
  <2>1. CASE On(s, x)
    <3>1. x.client \in Clients /\ x.n <= request[x.client].n /\ x # r
          /\ \A t \in Streams : On(t, x) => t = s
      BY <1>5, <2>1 DEF Inv, OneStreamInv
    <3>2. x.n <= request'[x.client].n
      <4>1. x.n \in Nat
        BY DEF Requests
      <4>2. CASE x.client = c
        BY <1>1, <1>4, <3>1, <4>1, <4>2
      <4>3. CASE x.client # c
        BY <1>1, <3>1, <4>3
      <4>4. QED
        BY <4>2, <4>3
    <3>3. QED
      BY <1>3, <3>1, <3>2
  <2>2. CASE s = cstream[c] /\ x = r
    <3>1. x.client = c /\ request'[c] = r /\ x.n \in Nat
      BY <1>1, <2>2 DEF Requests
    <3>2. \A t \in Streams : On(t, x)' => t = s
      BY <1>3, <1>5, <2>2
    <3>3. QED
      BY <2>2, <3>1, <3>2
  <2>3. QED
    BY <1>3, <1>6, <2>1, <2>2
<1>7. QED
  BY <1>6 DEF OneStreamInv

LEMMA BeginRequestInv ==
  ASSUME Inv, NEW c \in Clients, NEW kind \in RequestKinds, BeginRequest(c, kind)
  PROVE  Inv'
<1>1. PICK k : k = sock[cstream[c]]
  OBVIOUS
<1>2. PICK r : r = [client |-> c, n |-> request[c].n + 1, kind |-> kind]
  OBVIOUS
<1>3. /\ r \in Requests /\ r.client = c /\ r.n = request[c].n + 1
  <2>1. request[c].n \in Nat /\ c \in Nat
    BY ClientAssumption DEF Inv, TypeInv, Requests
  <2>2. QED
    BY <1>2, <2>1 DEF Requests
<1>4. /\ cpc[c] = "idle" /\ request' = [request EXCEPT ![c] = r]
      /\ UNCHANGED <<backlog, cstream, late, used, rest>>
      /\ \/ Deliver(cstream[c], BuildRequest(r)) /\ cpc' = [cpc EXCEPT ![c] = "wait"]
         \/ /\ Deliver(cstream[c], SubSeq(BuildRequest(r), 1, 1))
            /\ cpc' = [cpc EXCEPT ![c] = "half"]
  BY <1>2 DEF BeginRequest
<1>5. PICK pc \in {"half", "wait"} : /\ Deliver(cstream[c], Outgoing(pc, r))
                                     /\ cpc' = [cpc EXCEPT ![c] = pc]
  BY <1>3, <1>4, Built
<1>6. PICK parts : parts = Outgoing(pc, r)
  OBVIOUS
<1>7. parts \in Seq(Parts) /\ \A x : HasHeaders(parts, x) => x = r
  <2>1. CASE pc = "half"
    BY <1>3, <1>6, <2>1, Built
  <2>2. CASE pc = "wait"
    BY <1>3, <1>6, <2>2, Built
  <2>3. QED
    BY <2>1, <2>2
<1>8. PICK q : q = [k EXCEPT !.up = k.up \o parts, !.edge = TRUE]
  OBVIOUS
<1>9. /\ k \in Sockets /\ q \in Sockets /\ sock' = [sock EXCEPT ![cstream[c]] = q]
      /\ q.up = k.up \o parts /\ q.down = k.down /\ q.open = k.open /\ q.peer = "open"
      /\ \A x : HasHeaders(q.up, x) => HasHeaders(k.up, x) \/ HasHeaders(parts, x)
  <2>1. cpc[c] # "off" /\ Deliver(cstream[c], parts)
    BY <1>4, <1>5, <1>6
  <2>2. Sent(c, parts, k, q)
    BY <1>1, <1>7, <1>8, <2>1, Delivered
  <2>3. QED
    BY <2>2 DEF Sent
<1>10. OneStreamInv'
  <2>1. cpc[c] # "off" /\ UNCHANGED conns
    BY <1>4, RestKept
  <2>2. \A x \in Requests : HasHeaders(q.up, x) => HasHeaders(sock[cstream[c]].up, x) \/ x = r
    BY <1>1, <1>7, <1>9
  <2>3. QED
    BY <1>3, <1>4, <1>9, <2>1, <2>2, NewRequest
<1>11. /\ cpc' \in [Clients -> {"off", "idle", "half", "wait"}] /\ cpc'[c] = pc
       /\ \A d \in Clients \ {c} : cpc'[d] = cpc[d]
  BY <1>5 DEF Inv, TypeInv
<1>12. /\ cstream' \in [Clients -> Nat] /\ late' \in [Clients -> BOOLEAN]
       /\ request' \in [Clients -> Requests] /\ request'[c] = r
       /\ \A d \in Clients \ {c} : /\ cstream'[d] = cstream[d] /\ request'[d] = request[d]
                                   /\ late'[d] = late[d]
  BY <1>3, <1>4 DEF Inv, TypeInv
<1>13. ASSUME ~late[c] PROVE OwnAt(pc, r, cstream[c], q)
  <2>1. OwnAt("idle", request[c], cstream[c], k)
    BY <1>1, <1>4, <1>13, OwnAtIs DEF Inv, InTime
  <2>2. Outgoing("idle", request[c]) \o parts = Outgoing(pc, r)
    <3>1. Outgoing("idle", request[c]) = <<>>
      BY DEF Outgoing
    <3>2. <<>> \o parts = parts
      BY <1>7, ConcatEmptySeq
    <3>3. QED
      BY <1>6, <3>1, <3>2, Zenon
  <2>3. TypeInv /\ StreamInv /\ "idle" # "wait"
    BY DEF Inv
  <2>4. QED
    BY <1>7, <1>9, <2>1, <2>2, <2>3, OwnDelivers
<1>14. /\ q.open = sock[cstream[c]].open /\ cstream'[c] = cstream[c] /\ request'[c].client = c
       /\ ~late'[c] => OwnAt(cpc'[c], request'[c], cstream[c], q)
  BY <1>1, <1>3, <1>4, <1>9, <1>11, <1>12, <1>13
<1>15. cpc[c] # "off" /\ UNCHANGED <<backlog, used, rest>>
  BY <1>4
<1>16. /\ \A d \in Clients \ {c} : /\ cpc'[d] = cpc[d] /\ cstream'[d] = cstream[d]
                                   /\ request'[d] = request[d] /\ late'[d] = late[d]
       /\ cpc'[c] # "off" => cstream'[c] = cstream[c] /\ q.peer = "open"
       /\ cpc'[c] # "off" /\ ~late'[c] => OwnAt(cpc'[c], request'[c], cstream[c], q)
  BY <1>9, <1>11, <1>12, <1>14
<1>17. /\ q \in Sockets /\ sock' = [sock EXCEPT ![cstream[c]] = q]
       /\ q.open = sock[cstream[c]].open /\ request'[c].client = c
       /\ cpc' \in [Clients -> {"off", "idle", "half", "wait"}] /\ cstream' \in [Clients -> Nat]
       /\ request' \in [Clients -> Requests] /\ late' \in [Clients -> BOOLEAN]
  BY <1>9, <1>11, <1>12, <1>14
<1>18. QED
  BY <1>10, <1>15, <1>16, <1>17, ClientStep


(* A client gets a stream that nobody has used. *)
LEMMA ConnectInv ==
  ASSUME Inv, NEW c \in Clients, Connect(c)
  PROVE  Inv'
<1>1. PICK s : s = used + 1
  OBVIOUS
<1>2. PICK n : n = Len(backlog)
  OBVIOUS
<1>3. /\ cpc[c] = "off" /\ used \in Nat /\ used < MaxStreams /\ used' = s
      /\ backlog \in Seq(Streams) /\ backlog' = Append(backlog, s)
      /\ cstream' = [cstream EXCEPT ![c] = s] /\ cpc' = [cpc EXCEPT ![c] = "idle"]
      /\ late' = [late EXCEPT ![c] = FALSE] /\ UNCHANGED <<sock, request, rest>>
  BY <1>1, StreamAssumption DEF Connect, Inv, TypeInv
<1>4. /\ s \in Nat /\ s \in Streams /\ s \in (used + 1)..MaxStreams
      /\ s \notin 1..used /\ s \in 1..s
      /\ 1..used \subseteq 1..s /\ 1..used \subseteq Streams
      /\ (s + 1)..MaxStreams \subseteq (used + 1)..MaxStreams /\ s \in 0..MaxStreams
  BY <1>1, <1>3, StreamAssumption DEF Streams
<1>5. sock[s] = Sock
  BY <1>4 DEF Inv, StreamInv
<1>6. /\ Sock.open /\ Sock.up = <<>> /\ Sock.down = <<>> /\ Sock.peer = "open"
  BY DEF Sock
<1>7. /\ n \in Nat /\ backlog' \in Seq(Streams) /\ DOMAIN backlog = 1..n
      /\ DOMAIN backlog' = 1..(n + 1) /\ backlog'[n + 1] = s
      /\ \A j \in DOMAIN backlog : backlog'[j] = backlog[j]
  BY <1>2, <1>3, <1>4, AppendProperties, LenProperties
<1>8. \A j \in DOMAIN backlog' : (j \in DOMAIN backlog /\ backlog'[j] = backlog[j])
                                 \/ (j = n + 1 /\ backlog'[j] = s)
  BY <1>7
<1>9. /\ Used' = Used /\ UNCHANGED <<conns, free, npc, held, reqQ, respQ, batch, wpc>>
      /\ PoolInv' /\ HeldInv' /\ FlightInv'
  BY <1>3, RestKept
<1>10. /\ cpc' \in [Clients -> {"off", "idle", "half", "wait"}] /\ cstream' \in [Clients -> Nat]
       /\ late' \in [Clients -> BOOLEAN] /\ cpc'[c] = "idle" /\ cstream'[c] = s /\ late'[c] = FALSE
       /\ \A d \in Clients \ {c} : /\ cpc'[d] = cpc[d] /\ cstream'[d] = cstream[d]
                                   /\ late'[d] = late[d]
  BY <1>3, <1>4 DEF Inv, TypeInv
<1>11. TypeInv'
  BY <1>3, <1>4, <1>7, <1>9, <1>10 DEF Inv, TypeInv
<1>12. /\ \A j \in DOMAIN backlog :
            backlog[j] \in 1..used /\ backlog[j] # s /\ sock[backlog[j]].open
       /\ \A i \in Used : conns[i].s \in 1..used /\ conns[i].s # s /\ sock[conns[i].s].open
  BY <1>4 DEF Inv, StreamInv
<1>13. StreamInv'
  <2>1. \A j \in DOMAIN backlog' : backlog'[j] \in 1..s /\ sock[backlog'[j]].open
    BY <1>4, <1>5, <1>6, <1>8, <1>12
  <2>2. \A j, l \in DOMAIN backlog' : backlog'[j] = backlog'[l] => j = l
    BY <1>8, <1>12 DEF Inv, StreamInv
  <2>3. \A i \in Used : conns[i].s \in 1..s /\ sock[conns[i].s].open
    BY <1>4, <1>12
  <2>4. \A i \in Used, j \in DOMAIN backlog' : conns[i].s # backlog'[j]
    BY <1>8, <1>12 DEF Inv, StreamInv
  <2>5. \A t \in (s + 1)..MaxStreams : sock[t] = Sock
    BY <1>4 DEF Inv, StreamInv
  <2>6. QED
    BY <1>3, <1>9, <2>1, <2>2, <2>3, <2>4, <2>5 DEF Inv, StreamInv
<1>14. \A d \in Clients \ {c} : cpc[d] # "off" => cstream[d] \in 1..used /\ cstream[d] # s
  BY <1>4 DEF Inv, ClientInv
<1>15. ClientInv'
  <2>1. \A d \in Clients : request'[d].client = d
    BY <1>3 DEF Inv, ClientInv
  <2>2. ASSUME NEW d \in Clients, cpc'[d] # "off"
        PROVE  /\ cstream'[d] \in 1..s /\ sock[cstream'[d]].peer = "open"
               /\ \A e \in Clients : cpc'[e] # "off" /\ cstream'[e] = cstream'[d] => e = d
    <3>1. CASE d = c
      BY <1>4, <1>5, <1>6, <1>10, <1>14, <3>1
    <3>2. CASE d # c
      BY <1>4, <1>10, <1>14, <2>2, <3>2 DEF Inv, ClientInv
    <3>3. QED
      BY <3>1, <3>2
  <2>3. QED
    BY <1>3, <2>1, <2>2 DEF ClientInv
<1>16. OneStreamInv'
  <2>1. \A t \in Streams, r \in Requests : On(t, r)' => On(t, r)
    BY <1>3, <1>9 DEF On, Carries, HasHeaders
  <2>2. QED
    BY <1>3, <2>1, OneStreamKept DEF Inv
<1>17. OwnInv'
  <2> SUFFICES ASSUME NEW d \in Clients, cpc'[d] # "off", ~late'[d]
               PROVE  LET q == sock[cstream'[d]] IN
                      /\ q.down = <<>> \/ (cpc'[d] = "wait" /\ OwnAnswer(request[d], q.down))
                      /\ (\E j \in DOMAIN backlog' : backlog'[j] = cstream'[d]) =>
                           q.up = Outgoing(cpc'[d], request[d]) /\ q.down = <<>>
                      /\ \A i \in Used : conns[i].s = cstream'[d] =>
                           Serves(cpc'[d], request[d], conns[i], q)
    BY <1>3, <1>9 DEF OwnInv, InTime
  <2>1. CASE d = c
    <3>1. Outgoing("idle", request[d]) = <<>>
      BY DEF Outgoing
    <3>2. sock[cstream'[d]].down = <<>> /\ sock[cstream'[d]].up = Outgoing(cpc'[d], request[d])
      BY <1>5, <1>6, <1>10, <2>1, <3>1
    <3>3. \A i \in Used : conns[i].s # cstream'[d]
      BY <1>10, <1>12, <2>1
    <3>4. QED
      BY <3>2, <3>3
  <2>2. CASE d # c
    <3>1. /\ cpc'[d] = cpc[d] /\ cstream'[d] = cstream[d] /\ InTime(d) /\ cstream[d] # s
      BY <1>10, <1>14, <2>2 DEF InTime
    <3>2. OwnAt(cpc[d], request[d], cstream[d], sock[cstream[d]])
      BY <3>1, OwnAtIs DEF Inv
    <3>3. (\E j \in DOMAIN backlog' : backlog'[j] = cstream[d]) =>
            \E j \in DOMAIN backlog : backlog[j] = cstream[d]
      BY <1>8, <3>1
    <3>4. QED
      BY <3>1, <3>2, <3>3 DEF OwnAt
  <2>3. QED
    BY <2>1, <2>2
<1>18. QED
  BY <1>9, <1>11, <1>13, <1>15, <1>16, <1>17 DEF Inv

-----------------------------------------------------------------------------
(* The invariant holds. *)

LEMMA InitInv == ASSUME Init PROVE Inv
<1>1. /\ sock = [s \in Streams |-> Sock] /\ backlog = <<>> /\ conns = <<>> /\ free = <<>>
      /\ npc = "loop" /\ reqQ = <<>> /\ respQ = <<>> /\ wpc = "top" /\ batch = <<>>
      /\ cpc = [c \in Clients |-> "off"] /\ cstream = [c \in Clients |-> 0]
      /\ request = [c \in Clients |-> [NoReq EXCEPT !.client = c]]
      /\ late = [c \in Clients |-> FALSE] /\ used = 0
  BY DEF Init, ServerInit
<1>2. /\ DOMAIN backlog = {} /\ DOMAIN conns = {} /\ DOMAIN free = {} /\ DOMAIN respQ = {}
      /\ Used = {} /\ InFlight = <<>> /\ DOMAIN InFlight = {}
  BY <1>1 DEF Used, InFlight
<1>3. Sock \in Sockets
  <2> DEFINE empty == <<>>
  <2>1. empty \in Seq(Parts) /\ empty \in Seq(Answers)
    OBVIOUS
  <2>2. Sock = [up |-> empty, down |-> empty, peer |-> "open", open |-> TRUE, edge |-> FALSE,
                full |-> FALSE]
    BY DEF Sock
  <2> HIDE DEF empty
  <2>3. QED
    BY <2>1, <2>2 DEF Sockets
<1>4. \A c \in Clients : [NoReq EXCEPT !.client = c] \in Requests
                         /\ [NoReq EXCEPT !.client = c].client = c
  BY ClientAssumption, NoReqType DEF Requests
<1>5. TypeInv
  <2>1. sock \in [Streams -> Sockets] /\ request \in [Clients -> Requests]
    BY <1>1, <1>3, <1>4
  <2>2. /\ backlog \in Seq(Streams) /\ conns \in Seq(Connections) /\ free \in Seq(Nat)
        /\ reqQ \in Seq(InProgress) /\ batch \in Seq(InProgress) /\ respQ \in Seq(Results)
    BY <1>1
  <2>3. /\ cpc \in [Clients -> {"off", "idle", "half", "wait"}] /\ cstream \in [Clients -> Nat]
        /\ late \in [Clients -> BOOLEAN] /\ used \in 0..MaxStreams
    BY <1>1, StreamAssumption
  <2>4. QED
    BY <1>1, <2>1, <2>2, <2>3 DEF TypeInv
<1>6. StreamInv
  <2>1. \A s \in (used + 1)..MaxStreams : sock[s] = Sock
    BY <1>1, StreamAssumption DEF Streams
  <2>2. QED
    BY <1>2, <2>1 DEF StreamInv
<1>7. ClientInv
  BY <1>1, <1>4 DEF ClientInv
<1>8. PoolInv /\ HeldInv
  BY <1>1, <1>2 DEF PoolInv, HeldInv
<1>9. FlightInv
  BY <1>1, <1>2 DEF FlightInv
<1>10. OneStreamInv
  <2>1. \A s \in Streams : sock[s].up = <<>>
    BY <1>1 DEF Sock
  <2>2. \A s \in Streams, r \in Requests : ~On(s, r)
    BY <1>2, <2>1, NoHeaders, Zenon DEF On
  <2>3. QED
    BY <2>2 DEF OneStreamInv
<1>11. OwnInv
  BY <1>1 DEF OwnInv, InTime
<1>12. QED
  BY <1>5, <1>6, <1>7, <1>8, <1>9, <1>10, <1>11 DEF Inv

LEMMA NextInv == ASSUME Inv, [Next]_vars PROVE Inv'
<1>1. CASE NetworkNext /\ UNCHANGED clients
  <2>1. \/ Poll \/ Accept
        \/ AcceptBreaks \/ (\E e \in todo : IgnoreEvent(e)) \/ LeaveLoop \/ Join
        \/ \E e \in todo : ReadFails(e) \/ ReadPart(e) \/ RejectRequest(e)
        \/ \E e \in todo : BeginSend(e) \/ WriteEvent(e)
        \/ EnqueueRequest \/ EnqueueFails \/ Respond
    BY <1>1, Zenon DEF NetworkNext
  <2>2. CASE Poll \/ Accept
    BY <1>1, <2>2, PollInv, AcceptInv
  <2>3. CASE AcceptBreaks \/ (\E e \in todo : IgnoreEvent(e)) \/ LeaveLoop \/ Join
    BY <1>1, <2>3, IdleInv
  <2>4. ASSUME NEW e \in todo, ReadFails(e) \/ ReadPart(e) \/ RejectRequest(e) PROVE Inv'
    BY <1>1, <2>4, ReadFailsInv, ReadPartInv, RejectRequestInv
  <2>5. ASSUME NEW e \in todo, BeginSend(e) \/ WriteEvent(e) PROVE Inv'
    BY <1>1, <2>5, BeginSendInv, WriteEventInv
  <2>6. CASE EnqueueRequest \/ EnqueueFails \/ Respond
    BY <1>1, <2>6, EnqueueRequestInv, EnqueueFailsInv, RespondInv
  <2>7. QED
    BY <2>1, <2>2, <2>3, <2>4, <2>5, <2>6
<1>2. CASE WorkerNext /\ UNCHANGED clients
  BY <1>2, WorkerTakeInv, ProcessRequestInv, WorkerExitInv DEF WorkerNext
<1>3. CASE (Shutdown \/ RunFails) /\ UNCHANGED clients
  BY <1>3, IdleInv
<1>4. ASSUME NEW s \in Streams, Writable(s), UNCHANGED clients PROVE Inv'
  BY <1>4, WritableInv
<1>5. ASSUME NEW c \in Clients, ClientNext(c) PROVE Inv'
  <2>1. \/ Connect(c) \/ Disconnect(c) \/ EndRequest(c) \/ ReceiveAnswer(c)
        \/ StreamFails(c) \/ ReadTimeout(c)
        \/ \E kind \in RequestKinds : BeginRequest(c, kind)
    BY <1>5, Zenon DEF ClientNext
  <2>2. CASE Connect(c) \/ Disconnect(c) \/ EndRequest(c) \/ ReceiveAnswer(c)
    BY <2>2, ConnectInv, DisconnectInv, EndRequestInv, ReceiveAnswerInv
  <2>3. CASE StreamFails(c) \/ ReadTimeout(c)
    BY <2>3, FailureInv
  <2>4. ASSUME NEW kind \in RequestKinds, BeginRequest(c, kind) PROVE Inv'
    BY <2>4, BeginRequestInv
  <2>5. QED
    BY <2>1, <2>2, <2>3, <2>4
<1>6. CASE UNCHANGED vars
  <2>1. /\ UNCHANGED <<streams, network, worker, queues, clients>>
        /\ reqQ \in Seq(InProgress) /\ batch \in Seq(InProgress) /\ respQ \in Seq(Results)
        /\ UNCHANGED <<reqQ, respQ, batch, wpc, conns>>
        /\ wpc \in {"top", "drain", "process", "done"}
    BY <1>6 DEF vars, server, Inv, TypeInv, worker, queues, network, pool
  <2>2. FlightInv'
    <3>1. Used' = Used
      BY <2>1 DEF Used
    <3>2. QED
      BY <2>1, <3>1, FlightKept DEF Inv
  <2>3. QED
    BY <2>1, <2>2, WorkerKeeps
<1>7. QED
  BY <1>1, <1>2, <1>3, <1>4, <1>5, <1>6 DEF Next, ServerNext

LEMMA Invariance == Spec => []Inv
<1>1. Init => Inv
  BY InitInv
<1>2. Inv /\ [Next]_vars => Inv'
  BY NextInv
<1>3. QED
  BY <1>1, <1>2, PTL DEF Spec


(* A sequence that lists a set once has as many elements. *)
LEMMA ListedOnce ==
  ASSUME NEW S, NEW T, NEW s \in Seq(T), \A j, l \in DOMAIN s : s[j] = s[l] => j = l,
         {s[j] : j \in DOMAIN s} = S
  PROVE  Len(s) = Cardinality(S)
<1>1. PICK n \in Nat : n = Len(s) /\ DOMAIN s = 1..n
  BY LenProperties
<1>2. s \in [1..n -> S]
  <2>1. s = [j \in 1..n |-> s[j]]
    BY <1>1
  <2>2. QED
    BY <1>1, <2>1
<1>3. s \in Bijection(1..n, S)
  <2>1. s \in Injection(1..n, S)
    BY <1>1, <1>2 DEF Injection, IsInjective
  <2>2. \A x \in S : \E j \in 1..n : s[j] = x
    BY <1>1
  <2>3. s \in Surjection(1..n, S)
    BY <1>2, <2>2 DEF Surjection
  <2>4. QED
    BY <2>1, <2>3 DEF Bijection
<1>4. QED
  BY <1>1, <1>3, FS_CountingElements DEF ExistsBijection

-----------------------------------------------------------------------------
(* A client that has given up no request on its present stream only finds  *)
(* the answer to the request it has in hand, and "queued" only for a       *)
(* transaction that was handed to the sender, although parse_response      *)
(* compares no ids.                                                        *)
THEOREM AnswersAreOwn == Spec => []AnswerIsOwn
<1>1. Inv => AnswerIsOwn
  <2> SUFFICES ASSUME Inv, NEW c \in Clients, cpc[c] = "wait", ~late[c],
                      IsComplete(sock[cstream[c]].down)
               PROVE  /\ ParseResponse(sock[cstream[c]].down).req = request[c]
                      /\ ParseResponse(sock[cstream[c]].down).ok =>
                           request[c].kind \in {"ok", "close"}
    BY DEF AnswerIsOwn
  <2>1. OwnAnswer(request[c], sock[cstream[c]].down)
    BY DEF Inv, OwnInv, InTime, IsComplete
  <2>2. PICK ok \in BOOLEAN : /\ sock[cstream[c]].down = <<[req |-> request[c], ok |-> ok]>>
                              /\ ok => request[c].kind \in {"ok", "close"}
    BY <2>1 DEF OwnAnswer
  <2>3. ParseResponse(sock[cstream[c]].down) = [req |-> request[c], ok |-> ok]
    BY <2>2 DEF ParseResponse
  <2>4. QED
    BY <2>2, <2>3
<1>2. QED
  BY <1>1, Invariance, PTL

(* Every request between the network thread and the worker is the one its  *)
(* connection waits for, and there is one for every connection that waits, *)
(* so that the "stale response" branch is never taken; every slot of the   *)
(* pool is in use or free, once.                                           *)
THEOREM FlightMatches == Spec => []InFlightMatchesPending
<1>1. Inv => InFlightMatchesPending
  <2> SUFFICES ASSUME Inv PROVE InFlightMatchesPending
    OBVIOUS
  <2>1. \A j \in DOMAIN InFlight : Matches(InFlight[j]) /\ InFlight[j].req # NoReq
                                   /\ InFlight[j].req \in Requests
    <3> SUFFICES ASSUME NEW j \in DOMAIN InFlight
                 PROVE  Matches(InFlight[j]) /\ InFlight[j].req # NoReq
                        /\ InFlight[j].req \in Requests
      OBVIOUS
    <3>1. Matches(InFlight[j]) /\ WellFormed(InFlight[j].req)
      BY DEF Inv, FlightInv
    <3>2. InFlight[j] \in Messages
      BY FlightIs, ElementOfSeq DEF Inv
    <3>3. QED
      BY <3>1, <3>2, WellFormedReq DEF Messages, InProgress, Results
  <2>2. ASSUME NEW j \in DOMAIN InFlight, NEW l \in DOMAIN InFlight,
               InFlight[l].req = InFlight[j].req
        PROVE  l = j
    <3>1. PICK r : r = InFlight[j].req
      OBVIOUS
    <3>2. PICK i : i = InFlight[j].token
      OBVIOUS
    <3>3. PICK k : k = InFlight[l].token
      OBVIOUS
    <3>4. /\ i \in Used /\ k \in Used /\ conns[i].pending = r /\ conns[k].pending = r
          /\ r # NoReq /\ r \in Requests
      BY <2>1, <2>2, <3>1, <3>2, <3>3 DEF Matches
    <3>5. On(conns[i].s, r) /\ On(conns[k].s, r)
      BY <3>4 DEF On, Carries
    <3>6. conns[i].s = conns[k].s
      BY <3>4, <3>5, UsedIs DEF Inv, OneStreamInv
    <3>7. i = k
      BY <3>4, <3>6 DEF Inv, StreamInv
    <3>8. QED
      BY <3>2, <3>3, <3>7 DEF Inv, FlightInv
  <2>3. ASSUME NEW i \in Used, conns[i].pending # NoReq
        PROVE  \E j \in DOMAIN InFlight : InFlight[j].req = conns[i].pending
    <3>1. PICK j \in DOMAIN InFlight : InFlight[j].token = i
      BY <2>3 DEF Inv, FlightInv
    <3>2. QED
      BY <2>1, <3>1 DEF Matches
  <2>4. \A i \in Used : (conns[i].state = "Processing") <=> (conns[i].pending # NoReq)
    BY DEF Inv, PoolInv, ConnOk
  <2>5. IsPermutation(free, DOMAIN conns \ Used)
    <3>1. {free[j] : j \in DOMAIN free} = DOMAIN conns \ Used
      BY DEF Inv, PoolInv
    <3>2. Len(free) = Cardinality(DOMAIN conns \ Used)
      BY <3>1, ListedOnce DEF Inv, PoolInv, TypeInv
    <3>3. QED
      BY <3>1, <3>2 DEF IsPermutation
  <2>6. QED
    BY <2>1, <2>2, <2>3, <2>4, <2>5 DEF InFlightMatchesPending
<1>2. QED
  BY <1>1, Invariance, PTL
=============================================================================

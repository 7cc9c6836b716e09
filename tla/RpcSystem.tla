----------------------------- MODULE RpcSystem ------------------------------
(***************************************************************************)
(* The RPC server of RpcServer together with its clients (client/src): a   *)
(* client connects, sends one request at a time and waits for the answer,  *)
(* gives up after a timeout, connects again, or disappears.                *)
(*                                                                         *)
(* TLS is left to rustls, which neither loses nor reorders what it         *)
(* carries.  A request fits the send buffer of a socket, so that the       *)
(* client's sends do not block.                                            *)
(***************************************************************************)
EXTENDS RpcServer

CONSTANTS
  Clients,      \* the clients, numbers from 1
  ReadTimeouts, \* whether a call may run into its timeout and the client stay
  Script        \* Script[c]: the kinds that each request of c may be of; its
                \* length bounds the requests

ASSUME ClientAssumption ==
  /\ Clients \subseteq Nat \ {0} /\ ReadTimeouts \in BOOLEAN
  /\ Script \in [Clients -> Seq(SUBSET RequestKinds)]

VARIABLES
  cpc,      \* "off", "idle", "half" (part of a request sent) or "wait"
  cstream,  \* Connection::stream of the client, 0 when there is none
  request,  \* the request in hand or the last one
  late,     \* a request sent on this stream was given up
  used      \* streams used so far

clients == <<cpc, cstream, request, late, used>>
vars == <<server, clients>>

Init ==
  /\ ServerInit
  /\ cpc = [c \in Clients |-> "off"] /\ cstream = [c \in Clients |-> 0]
  /\ request = [c \in Clients |-> [NoReq EXCEPT !.client = c]]
  /\ late = [c \in Clients |-> FALSE]
  /\ used = 0

rest == <<network, worker, queues, shutdown>>

(* Closing a stream that holds unread answers, or that the server is still *)
(* writing to, resets it.                                                  *)
Closed(k) ==
  [k EXCEPT !.peer = IF k.open /\ (k.down # <<>> \/ k.full) THEN "rst" ELSE "fin",
            !.down = <<>>, !.full = FALSE, !.edge = k.open]

(* do_connect and wait_connected: the kernel completes the connection and  *)
(* puts it into the listener's backlog.                                    *)
Connect(c) ==
  /\ cpc[c] = "off" /\ used < MaxStreams
  /\ used' = used + 1
  /\ backlog' = Append(backlog, used + 1) /\ lready' = TRUE
  /\ cstream' = [cstream EXCEPT ![c] = used + 1]
  /\ cpc' = [cpc EXCEPT ![c] = "idle"]
  /\ late' = [late EXCEPT ![c] = FALSE]
  /\ UNCHANGED <<sock, request, rest>>

(* reconnect drops the old stream; so does the end of the client's         *)
(* process, which may come in the middle of a call, before it is run       *)
(* again.                                                                  *)
Disconnect(c) ==
  /\ cpc[c] \in {"idle", "half", "wait"}
  /\ sock' = [sock EXCEPT ![cstream[c]] = Closed(@)]
  /\ cpc' = [cpc EXCEPT ![c] = "off"] /\ cstream' = [cstream EXCEPT ![c] = 0]
  /\ UNCHANGED <<backlog, lready, request, late, used, rest>>

Deliver(s, parts) ==
  sock' = [sock EXCEPT ![s].up = @ \o parts, ![s].edge = TRUE]

(* build_request *)
BuildRequest(r) == <<[req |-> r, part |-> 1], [req |-> r, part |-> 2]>>

(* send_with_opts: request_id, build_request, Connection::send, in one     *)
(* write or in two.  The server has not closed the stream.                 *)
BeginRequest(c, kind) ==
  /\ cpc[c] = "idle" /\ sock[cstream[c]].open
  /\ request[c].n < Len(Script[c]) /\ kind \in Script[c][request[c].n + 1]
  /\ LET r == [client |-> c, n |-> request[c].n + 1, kind |-> kind] IN
       /\ request' = [request EXCEPT ![c] = r]
       /\ \/ /\ Deliver(cstream[c], BuildRequest(r))
             /\ cpc' = [cpc EXCEPT ![c] = "wait"]
          \/ /\ cstream[c] \in SlowStreams
             /\ Deliver(cstream[c], SubSeq(BuildRequest(r), 1, 1))
             /\ cpc' = [cpc EXCEPT ![c] = "half"]
  /\ UNCHANGED <<backlog, lready, cstream, late, used, rest>>

EndRequest(c) ==
  /\ cpc[c] = "half" /\ sock[cstream[c]].open
  /\ Deliver(cstream[c], SubSeq(BuildRequest(request[c]), 2, 2))
  /\ cpc' = [cpc EXCEPT ![c] = "wait"]
  /\ UNCHANGED <<backlog, lready, cstream, request, late, used, rest>>

(* is_complete: an answer reaches the client in one piece. *)
IsComplete(buf) == buf # <<>>

(* parse_response looks at the first answer only, and at no id in it. *)
ParseResponse(buf) == Head(buf)

(* recv reads everything there is, and the rest is dropped with it. *)
ReceiveAnswer(c) ==
  /\ cpc[c] = "wait" /\ IsComplete(sock[cstream[c]].down)
  /\ sock' = [sock EXCEPT ![cstream[c]].down = <<>>]
  /\ cpc' = [cpc EXCEPT ![c] = "idle"]
  /\ UNCHANGED <<backlog, lready, cstream, request, late, used, rest>>

(* The server has closed the stream: Error::Send or Error::Recv.  The next *)
(* call that can succeed is reconnect.                                     *)
StreamFails(c) ==
  /\ cpc[c] \in {"half", "wait"}
  /\ ~sock[cstream[c]].open /\ (cpc[c] = "wait" => ~IsComplete(sock[cstream[c]].down))
  /\ cpc' = [cpc EXCEPT ![c] = "idle"]
  /\ UNCHANGED <<server, cstream, request, late, used>>

(* wait_readable: read timeout *)
ReadTimeout(c) ==
  /\ ReadTimeouts
  /\ cpc[c] = "wait" /\ ~IsComplete(sock[cstream[c]].down) /\ sock[cstream[c]].open
  /\ cpc' = [cpc EXCEPT ![c] = "idle"] /\ late' = [late EXCEPT ![c] = TRUE]
  /\ UNCHANGED <<server, cstream, request, used>>

(* What the clients do once the server has left its loop changes nothing   *)
(* for either.                                                             *)
ClientNext(c) ==
  /\ npc \in {"loop", "send"}
  /\ \/ Connect(c) \/ Disconnect(c)
     \/ (\E kind \in RequestKinds : BeginRequest(c, kind)) \/ EndRequest(c)
     \/ ReceiveAnswer(c) \/ StreamFails(c) \/ ReadTimeout(c)

Next == (ServerNext /\ UNCHANGED clients) \/ \E c \in Clients : ClientNext(c)

Spec == Init /\ [][Next]_vars

(* Both threads run in loops that never sleep for long, a client in the    *)
(* middle of a call goes on with it, and a full socket drains.             *)
FairSpec ==
  /\ Spec
  /\ WF_vars(NetworkNext /\ UNCHANGED clients)
  /\ WF_vars(WorkerNext /\ UNCHANGED clients)
  /\ \A s \in Streams : WF_vars(Writable(s) /\ UNCHANGED clients)
  /\ \A c \in Clients : WF_vars(EndRequest(c) \/ ReceiveAnswer(c) \/ StreamFails(c))

-----------------------------------------------------------------------------
(* A client that has given up no request on its present stream, because it *)
(* reconnects after a read timeout, only finds the answer to the request   *)
(* it has in hand, and "queued" only for a transaction that was handed to  *)
(* the sender, although it compares no ids (client/src/client.rs:109-133): *)
(* the server routes by token and request id and clears its buffers        *)
(* between requests (server/src/server.rs:197-205, 511-559).               *)
AnswerIsOwn ==
  \A c \in Clients :
    cpc[c] = "wait" /\ ~late[c] /\ IsComplete(sock[cstream[c]].down)
      => LET a == ParseResponse(sock[cstream[c]].down)
         IN a.req = request[c] /\ (a.ok => request[c].kind \in {"ok", "close"})

(* The requests between the threads, the oldest first. *)
InFlight == respQ \o batch \o reqQ
IsPermutation(seq, S) == Len(seq) = Cardinality(S) /\ {seq[j] : j \in DOMAIN seq} = S

(* Every request between the threads is the one its connection waits for,  *)
(* and there is one for every connection that waits: a connection whose    *)
(* request is in progress is never removed, so that no slot is reused      *)
(* under an answer and the "stale response" branch is never taken          *)
(* (server/src/server.rs:418, 511-541).  Every slot is in use or free,     *)
(* once (server/src/server.rs:257-308).                                    *)
InFlightMatchesPending ==
  /\ \A j \in DOMAIN InFlight :
       /\ Matches(InFlight[j])
       /\ \A l \in DOMAIN InFlight : InFlight[l].req = InFlight[j].req => l = j
  /\ \A i \in Used :
       /\ (conns[i].state = "Processing") <=> (conns[i].pending # NoReq)
       /\ conns[i].pending # NoReq => \E j \in DOMAIN InFlight : InFlight[j].req = conns[i].pending
  /\ IsPermutation(free, DOMAIN conns \ Used)

(* The worker waits for space in the response queue. *)
WorkerBlocked == Processing /\ Len(respQ) = QueueSize

(* Both threads wait for each other: the worker for space in the response  *)
(* queue, the network thread for space in the request queue.               *)
BothBlocked == WorkerBlocked /\ npc = "send" /\ Len(reqQ) = QueueSize

(* "generate request id and send response (non-blocking)"                  *)
(* (server/src/worker.rs:158): the worker's send does not stop the server. *)
(* With more than 2 * QueueSize + 1 requests under way it does.            *)
NeverBothBlocked == ~BothBlocked

(* The server serves no more. *)
Stopped == shutdown \/ npc = "failed" \/ BothBlocked

(* An accept that failed has left the stream in the backlog, and nothing   *)
(* will report the listener before another stream arrives.                 *)
LeftInBacklog(s) ==
  IoErrors /\ ~lready /\ ~levent /\ \E j \in DOMAIN backlog : backlog[j] = s

(* A client that waits for the answer to the only request it has on its    *)
(* stream gets it, or is told that the stream is closed, without having to *)
(* run into its timeout, unless the server stops or an accept error leaves *)
(* the stream in the backlog: no other readiness edge is lost, and nothing *)
(* but two full queues makes the threads wait for each other               *)
(* (server/src/server.rs:366-560, server/src/worker.rs:95-133).            *)
SentIsAnswered ==
  \A c \in Clients :
    (cpc[c] = "wait" /\ ~late[c]) ~> (cpc[c] # "wait" \/ Stopped \/ LeftInBacklog(cstream[c]))

(* A connection that its client closes or abandons at any point, also with *)
(* a request in progress, whose event is ignored, is removed from the pool *)
(* (server/src/server.rs:411-495).                                         *)
ClosedIsRemoved ==
  \A s \in Streams :
    (sock[s].peer # "open") ~> (~sock[s].open \/ Stopped \/ LeftInBacklog(s))

(* After shutdown() run_with_sender returns, whatever the clients do,      *)
(* unless the worker waits on a full response queue while the network      *)
(* thread, which alone drains it, joins the worker or waits in its own     *)
(* send (server/src/server.rs:562-564, server/src/worker.rs:95-133).       *)
ShutdownReturns ==
  shutdown ~> (npc \in {"done", "failed"} \/ (WorkerBlocked /\ npc = "join") \/ BothBlocked)
=============================================================================

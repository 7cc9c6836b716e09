----------------------------- MODULE RpcServer ------------------------------
(***************************************************************************)
(* The JSON-RPC server (server/src): a network thread that multiplexes TCP *)
(* connections with edge-triggered readiness events, and a worker thread   *)
(* that hands transactions to the QUIC sender.  Requests travel to the     *)
(* worker through an SPSC channel, answers back through an MPSC channel;   *)
(* both are the FIFO queues that Spsc and Mpsc are shown to implement.     *)
(*                                                                         *)
(* A request is sent in two parts, the headers and the body, and known by  *)
(* its sender and its number; its kind says how the server's parsers take  *)
(* it.  An answer is known by the request it is for.  RpcSystem adds the   *)
(* clients.                                                                *)
(***************************************************************************)
EXTENDS Integers, Sequences, FiniteSets

CONSTANTS
  QueueSize,      \* queue_size of the configuration, for both queues
  WorkerBatch,    \* BATCH_SIZE of the worker
  ResponseBatch,  \* answers handled in a round of the event loop, 64
  SlowStreams,    \* streams that may take what is written in two parts
  IoErrors,       \* whether accept, register and poll may fail
  MaxStreams      \* bound of the model: TCP connections ever made

ASSUME QueueAssumption ==
  QueueSize \in Nat \ {0} /\ WorkerBatch \in Nat \ {0} /\ ResponseBatch \in Nat \ {0}
ASSUME StreamAssumption ==
  SlowStreams \subseteq Nat /\ IoErrors \in BOOLEAN /\ MaxStreams \in Nat

VARIABLES
  sock,      \* sock[s]: TCP stream s, see Sock
  backlog,   \* streams the listener has not accepted
  lready,    \* the listener has an event to report
  (* the network thread *)
  conns,     \* ConnectionPool::connections
  free,      \* ConnectionPool::free_slots, a stack
  npc,       \* where run_with_sender is: "loop", "send", "join", "done" or "failed"
  todo,      \* events of this poll not yet handled
  levent,    \* one of them is the listener's
  held,      \* the event whose request is being sent to the worker
  drained,   \* answers taken in this round
  reqQ, respQ,
  (* the worker *)
  wpc,       \* "top", "drain", "process" or "done"
  batch,
  shutdown

streams == <<sock, backlog, lready>>
pool == <<conns, free>>
round == <<npc, todo, levent, held, drained>>
network == <<pool, round>>
worker == <<wpc, batch>>
queues == <<reqQ, respQ>>
server == <<streams, network, worker, queues, shutdown>>

Streams == 1..MaxStreams

(* How the parsers and the worker take a request: accepted, accepted with  *)
(* "Connection: close", accepted with an empty transaction, refused, or    *)
(* longer than MAX_REQUEST_SIZE.                                           *)
RequestKinds == {"ok", "close", "empty", "bad", "huge"}
NoReq == [client |-> 0, n |-> 0, kind |-> "bad"]
NoEvent == [i |-> 0, rd |-> FALSE, wr |-> FALSE]

(* A stream: what the server has not read, what the client has not read,   *)
(* whether the client's end is open, closed ("fin") or reset, whether the  *)
(* server's end is open, whether epoll has an edge to report, and whether  *)
(* the send buffer is full.                                                *)
Sock == [up |-> <<>>, down |-> <<>>, peer |-> "open", open |-> TRUE,
         edge |-> FALSE, full |-> FALSE]

(* Connection::new, create_connection: recycled buffers come back empty. *)
Connection(s) == [s |-> s, state |-> "Reading", recv_buf |-> <<>>, send_buf |-> <<>>, send_pos |-> 0,
                  pending |-> NoReq, should_close |-> FALSE]
NoConn == Connection(0)

ServerInit ==
  /\ sock = [s \in Streams |-> Sock] /\ backlog = <<>> /\ lready = FALSE
  /\ conns = <<>> /\ free = <<>>
  /\ npc = "loop" /\ todo = {} /\ levent = FALSE /\ held = NoEvent /\ drained = 0
  /\ reqQ = <<>> /\ respQ = <<>>
  /\ wpc = "top" /\ batch = <<>>
  /\ shutdown = FALSE

-----------------------------------------------------------------------------
(* The operating system: edges and events. *)

Used == {i \in DOMAIN conns : conns[i] # NoConn}
Readable(k) == k.up # <<>> \/ k.peer # "open"

(* An event reports the readiness at the time of the poll, whatever the    *)
(* edge was.                                                               *)
Event(i) == LET k == sock[conns[i].s] IN [i |-> i, rd |-> Readable(k), wr |-> ~k.full]
Polled == {i \in Used : sock[conns[i].s].edge}

(* The events of the last poll are handled, and the answers that it found. *)
RoundDone ==
  /\ npc = "loop" /\ todo = {} /\ ~levent
  /\ respQ = <<>> \/ drained = ResponseBatch

(* Variant of LoopEnds, for mutation: open connections keep the loop       *)
(* going.                                                                  *)
LoopEndsUnused == shutdown /\ Used = {}

LoopEnds == shutdown

(* A round that finds neither events nor answers changes nothing. *)
Poll ==
  /\ RoundDone /\ ~LoopEnds
  /\ Polled # {} \/ lready \/ drained # 0
  /\ todo' = {Event(i) : i \in Polled}
  /\ sock' = [s \in Streams |-> IF \E i \in Polled : conns[i].s = s
                                THEN [sock[s] EXCEPT !.edge = FALSE] ELSE sock[s]]
  /\ levent' = lready /\ lready' = FALSE
  /\ drained' = 0
  /\ UNCHANGED <<backlog, pool, npc, held, worker, queues, shutdown>>

(* The peer has read enough for the socket to become writable again. *)
Writable(s) ==
  /\ sock[s].full
  /\ sock' = [sock EXCEPT ![s].full = FALSE, ![s].edge = sock[s].open]
  /\ UNCHANGED <<backlog, lready, network, worker, queues, shutdown>>

-----------------------------------------------------------------------------
(* The pool of connections. *)

(* alloc_empty and set: the slot freed last, or a new one. *)
Occupy(c) ==
  \/ /\ free # <<>>
     /\ conns' = [conns EXCEPT ![free[Len(free)]] = c]
     /\ free' = SubSeq(free, 1, Len(free) - 1)
  \/ /\ free = <<>>
     /\ conns' = Append(conns, c)
     /\ UNCHANGED free

(* Variant of Accept, for mutation: one stream for each event. *)
AcceptOne ==
  /\ npc = "loop" /\ levent /\ backlog # <<>>
  /\ LET s == Head(backlog) IN
       /\ Occupy(Connection(s))
       /\ sock' = [sock EXCEPT ![s].edge = Readable(sock[s])]
  /\ backlog' = Tail(backlog) /\ levent' = FALSE
  /\ UNCHANGED <<lready, npc, todo, held, drained, worker, queues, shutdown>>

(* The accept loop takes the first stream of the backlog.  Its             *)
(* registration reports what it is ready for; an event for writability     *)
(* alone would find nothing to write.                                      *)
Accept ==
  /\ npc = "loop" /\ levent /\ backlog # <<>>
  /\ LET s == Head(backlog) IN
       /\ Occupy(Connection(s))
       /\ sock' = [sock EXCEPT ![s].edge = Readable(sock[s])]
  /\ backlog' = Tail(backlog) /\ levent' = (Tail(backlog) # <<>>)
  /\ UNCHANGED <<lready, npc, todo, held, drained, worker, queues, shutdown>>

(* The stream was taken in an earlier round, or accept fails, as it does   *)
(* without free descriptors: the loop is left, and the backlog waits until *)
(* another stream arrives.                                                 *)
AcceptBreaks ==
  /\ npc = "loop" /\ levent /\ (backlog = <<>> \/ IoErrors)
  /\ levent' = FALSE
  /\ UNCHANGED <<streams, pool, npc, todo, held, drained, worker, queues, shutdown>>

(* poll, or the registration of a stream, fails and run_with_sender        *)
(* returns the error.  What it owns goes with it, so that nothing here is  *)
(* looked at again; the worker is not stopped.                             *)
RunFails ==
  /\ IoErrors
  /\ (RoundDone /\ ~LoopEnds) \/ (npc = "loop" /\ levent /\ backlog # <<>>)
  /\ npc' = "failed"
  /\ UNCHANGED <<streams, pool, todo, levent, held, drained, worker, queues, shutdown>>

(* Deregistration and ConnectionPool::remove; the stream is closed, and    *)
(* what the server has not read is lost.                                   *)
Shut(k) == [k EXCEPT !.open = FALSE, !.edge = FALSE, !.full = FALSE, !.up = <<>>,
                     !.peer = IF @ = "rst" THEN "fin" ELSE @]
Remove(i) ==
  /\ conns' = [conns EXCEPT ![i] = NoConn]
  /\ free' = Append(free, i)
  /\ sock' = [sock EXCEPT ![conns[i].s] = Shut(@)]

(* Variant of reset_for_next_request, for mutation: the send buffer is not *)
(* cleared.                                                                *)
ResetKeepsSendBuf(c) ==
  [c EXCEPT !.recv_buf = <<>>, !.send_pos = 0, !.pending = NoReq, !.state = "Reading"]

(* reset_for_next_request *)
Reset(c) ==
  [c EXCEPT !.recv_buf = <<>>, !.send_buf = <<>>, !.send_pos = 0, !.pending = NoReq,
            !.state = "Reading"]

(* queue_response *)
QueueResponse(c, answer) ==
  [c EXCEPT !.send_buf = <<answer>>, !.send_pos = 0, !.state = "Writing"]

(* try_write of connection i with fields c, and what follows: the whole    *)
(* answer leaves and the connection is closed or reset, or the socket      *)
(* would block after a first part (send_pos = 1), or fails because the     *)
(* peer has reset it.  An answer that goes to a closed peer is lost and    *)
(* brings a reset back.                                                    *)
TryWrite(i, c) ==
  LET k == sock[c.s]
      sent == [k EXCEPT !.down = IF k.peer = "open" THEN @ \o c.send_buf ELSE @,
                        !.peer = IF @ = "open" THEN @ ELSE "rst",
                        !.edge = @ \/ k.peer # "open"]
  IN \/ /\ k.peer # "rst" /\ ~c.should_close
        /\ conns' = [conns EXCEPT ![i] = Reset(c)]
        /\ sock' = [sock EXCEPT ![c.s] = sent]
        /\ UNCHANGED free
     \/ /\ k.peer # "rst" /\ c.should_close
        /\ conns' = [conns EXCEPT ![i] = NoConn]
        /\ free' = Append(free, i)
        /\ sock' = [sock EXCEPT ![c.s] = Shut(sent)]
     \/ /\ k.peer = "open" /\ c.s \in SlowStreams /\ c.send_pos = 0
        /\ conns' = [conns EXCEPT ![i] = [c EXCEPT !.send_pos = 1]]
        /\ sock' = [sock EXCEPT ![c.s].full = TRUE]
        /\ UNCHANGED free
     \/ k.peer = "rst" /\ Remove(i)

-----------------------------------------------------------------------------
(* An event of a connection.  The part of the handler for readability runs *)
(* before the part for writability; an event that only the second part is  *)
(* left of has rd = FALSE.                                                 *)

(* Variant of Reads, for mutation: also while a request is in progress. *)
ReadsAlways(e) == npc = "loop" /\ e \in todo /\ e.i \in Used /\ e.rd

(* Variant of Reads, for mutation: only when there are bytes to read. *)
ReadsBytes(e) ==
  /\ npc = "loop" /\ e \in todo /\ e.i \in Used /\ e.rd
  /\ conns[e.i].state = "Reading" /\ sock[conns[e.i].s].up # <<>>

Reads(e) ==
  npc = "loop" /\ e \in todo /\ e.i \in Used /\ e.rd /\ conns[e.i].state = "Reading"

(* What try_read leaves in the receive buffer. *)
Received(e) == conns[e.i].recv_buf \o sock[conns[e.i].s].up
Drained(e) == [sock EXCEPT ![conns[e.i].s].up = <<>>]

(* find_headers_end: the first end of headers in the buffer, which need    *)
(* not be at its start.                                                    *)
HeadersAt(buf) == {j \in DOMAIN buf : buf[j].part = 1}
First(S) == CHOOSE j \in S : \A l \in S : j <= l

(* is_body_complete: as many bytes as Content-Length says follow the       *)
(* headers, whatever they are.                                             *)
IsBodyComplete(buf, headers_end) == headers_end < Len(buf)

IsRequestComplete(buf) ==
  HeadersAt(buf) # {} /\ IsBodyComplete(buf, First(HeadersAt(buf)))

(* HttpRequest::parse: the rest of a request that was cut off in front of  *)
(* the headers spoils them.                                                *)
Parsed(buf) == IF First(HeadersAt(buf)) = 1 THEN buf[1].req ELSE NoReq

(* validate and from_rpc_request *)
WellFormed(req) == req.kind \in {"ok", "close", "empty"}

(* decode_base64: the parameter "" is decoded to an empty transaction. *)
Transaction(req) == IF req.kind = "empty" THEN <<>> ELSE <<req>>

(* try_read finds the end of the stream, a reset, or more than             *)
(* MAX_REQUEST_SIZE bytes.                                                 *)
ReadFails(e) ==
  /\ Reads(e)
  /\ \/ sock[conns[e.i].s].peer # "open"
     \/ \E j \in DOMAIN Received(e) : Received(e)[j].req.kind = "huge"
  /\ Remove(e.i)
  /\ todo' = todo \ {e}
  /\ UNCHANGED <<backlog, lready, npc, levent, held, drained, worker, queues, shutdown>>

ReadOk(e) ==
  /\ Reads(e) /\ sock[conns[e.i].s].peer = "open"
  /\ \A j \in DOMAIN Received(e) : Received(e)[j].req.kind # "huge"

ReadPart(e) ==
  /\ ReadOk(e) /\ ~IsRequestComplete(Received(e))
  /\ conns' = [conns EXCEPT ![e.i].recv_buf = Received(e)]
  /\ sock' = Drained(e)
  /\ todo' = todo \ {e}
  /\ UNCHANGED <<backlog, lready, free, npc, levent, held, drained, worker, queues, shutdown>>

(* handle_request refuses: not POST, no JSON, wrong parameters, or the     *)
(* worker has gone.  The answer waits for the part for writability.        *)
HttpResponse(req, ok) == [req |-> req, ok |-> ok]
ErrorResponse(req) == HttpResponse(req, FALSE)

RejectRequest(e) ==
  /\ ReadOk(e) /\ IsRequestComplete(Received(e))
  /\ LET req == Parsed(Received(e)) IN
       /\ ~WellFormed(req) \/ wpc = "done"
       /\ conns' = [conns EXCEPT ![e.i] =
                      QueueResponse([@ EXCEPT !.recv_buf = Received(e)], ErrorResponse(req))]
  /\ sock' = Drained(e)
  /\ todo' = (todo \ {e}) \cup {[e EXCEPT !.rd = FALSE]}
  /\ UNCHANGED <<backlog, lready, free, npc, levent, held, drained, worker, queues, shutdown>>

(* handle_request begins the send to the worker; SpscProducer::send waits  *)
(* while the queue is full.                                                *)
BeginSend(e) ==
  /\ ReadOk(e) /\ IsRequestComplete(Received(e))
  /\ WellFormed(Parsed(Received(e))) /\ wpc # "done"
  /\ conns' = [conns EXCEPT ![e.i].recv_buf = Received(e)]
  /\ sock' = Drained(e)
  /\ todo' = todo \ {e} /\ held' = e /\ npc' = "send"
  /\ UNCHANGED <<backlog, lready, free, levent, drained, worker, queues, shutdown>>

(* QueuedRequest and its ResponseSender carry the token of the connection; *)
(* the ids of generate_request_id are taken for the requests themselves.   *)
Queued(req, token) == [req |-> req, token |-> token]

(* The send succeeds.  Nothing is left to write, so that the event is      *)
(* done.                                                                   *)
EnqueueRequest ==
  /\ npc = "send" /\ Len(reqQ) < QueueSize
  /\ LET c == conns[held.i]
         req == Parsed(c.recv_buf)
     IN /\ reqQ' = Append(reqQ, Queued(req, held.i))
        /\ conns' = [conns EXCEPT ![held.i] =
                       [c EXCEPT !.pending = req, !.should_close = (req.kind = "close"),
                                 !.state = "Processing", !.recv_buf = <<>>]]
  /\ npc' = "loop" /\ held' = NoEvent
  /\ UNCHANGED <<streams, free, todo, levent, drained, respQ, worker, shutdown>>

(* The worker has dropped its end: ServerError::QueueFull. *)
EnqueueFails ==
  /\ npc = "send" /\ Len(reqQ) = QueueSize /\ wpc = "done"
  /\ conns' = [conns EXCEPT ![held.i] = QueueResponse(@, ErrorResponse(Parsed(@.recv_buf)))]
  /\ todo' = todo \cup {[held EXCEPT !.rd = FALSE]}
  /\ npc' = "loop" /\ held' = NoEvent
  /\ UNCHANGED <<streams, free, levent, drained, queues, worker, shutdown>>

WriteEvent(e) ==
  /\ npc = "loop" /\ e \in todo /\ e.i \in Used /\ ~Reads(e)
  /\ e.wr /\ conns[e.i].send_buf # <<>>
  /\ TryWrite(e.i, conns[e.i])
  /\ todo' = todo \ {e}
  /\ UNCHANGED <<backlog, lready, npc, levent, held, drained, worker, queues, shutdown>>

(* Nothing to do for the event: it is lost. *)
IgnoreEvent(e) ==
  /\ npc = "loop" /\ e \in todo
  /\ \/ e.i \notin Used
     \/ ~Reads(e) /\ (~e.wr \/ conns[e.i].send_buf = <<>>)
  /\ todo' = todo \ {e}
  /\ UNCHANGED <<streams, pool, npc, levent, held, drained, worker, queues, shutdown>>

-----------------------------------------------------------------------------
(* Answers of the worker.  The code first takes up to ResponseBatch of     *)
(* them from the queue and then handles each; taking touches no connection *)
(* and handling touches no queue, so that one step does both for each.     *)

TakeResponse ==
  npc = "loop" /\ todo = {} /\ ~levent /\ drained < ResponseBatch /\ respQ # <<>>

Matches(a) ==
  a.token \in Used /\ conns[a.token].pending = a.req

(* create_response writes the id and the result of the worker's answer. *)
CreateResponse(a) == HttpResponse(a.req, a.ok)

(* queue_response, then try_write; an answer for another request than the  *)
(* pending one is stale and dropped.                                       *)
Respond ==
  /\ TakeResponse
  /\ LET a == Head(respQ)
         c == [QueueResponse(conns[a.token], CreateResponse(a)) EXCEPT !.pending = NoReq]
     IN IF Matches(a) THEN TryWrite(a.token, c) ELSE UNCHANGED <<sock, pool>>
  /\ respQ' = Tail(respQ) /\ drained' = drained + 1
  /\ UNCHANGED <<backlog, lready, npc, todo, levent, held, reqQ, worker, shutdown>>

(* The loop ends; worker_handle.join() *)
LeaveLoop ==
  /\ RoundDone /\ LoopEnds
  /\ npc' = "join"
  /\ UNCHANGED <<streams, pool, todo, levent, held, drained, worker, queues, shutdown>>

Join ==
  /\ npc = "join" /\ wpc = "done"
  /\ npc' = "done"
  /\ UNCHANGED <<streams, pool, todo, levent, held, drained, worker, queues, shutdown>>

(* RpcServer::shutdown, from any thread *)
Shutdown ==
  /\ ~shutdown /\ shutdown' = TRUE
  /\ UNCHANGED <<streams, network, worker, queues>>

-----------------------------------------------------------------------------
(* The worker thread.  sender.poll and send_fanout change nothing that the *)
(* network thread or a client sees.                                        *)

(* The worker looks at the flag and takes a first request; a round that    *)
(* finds none changes nothing.                                             *)
WorkerRound ==
  /\ wpc = "top" /\ ~shutdown /\ reqQ # <<>>
  /\ batch' = <<Head(reqQ)>> /\ reqQ' = Tail(reqQ)
  /\ wpc' = "drain"
  /\ UNCHANGED <<streams, network, respQ, shutdown>>

(* try_recv until the queue is empty or the batch full *)
WorkerTake ==
  /\ wpc = "drain" /\ Len(batch) < WorkerBatch /\ reqQ # <<>>
  /\ batch' = Append(batch, Head(reqQ)) /\ reqQ' = Tail(reqQ)
  /\ UNCHANGED <<streams, network, wpc, respQ, shutdown>>

(* The worker begins with the batch, or goes on with it. *)
Processing ==
  \/ wpc = "drain" /\ (Len(batch) = WorkerBatch \/ reqQ = <<>>)
  \/ wpc = "process"

(* Variant of ProcessRequest, for mutation: an empty transaction is        *)
(* dropped without an answer.                                              *)
ProcessDropsEmpty ==
  /\ Processing /\ Len(respQ) < QueueSize
  /\ LET q == Head(batch) IN
       respQ' = IF q.req.kind = "empty" THEN respQ
                ELSE Append(respQ, [req |-> q.req, token |-> q.token, ok |-> TRUE])
  /\ batch' = Tail(batch)
  /\ wpc' = IF Len(batch) = 1 THEN "top" ELSE "process"
  /\ UNCHANGED <<streams, network, reqQ, shutdown>>

(* QueuedResponse; an empty transaction is answered with an error. *)
Answer(q) == [req |-> q.req, token |-> q.token, ok |-> Transaction(q.req) # <<>>]

(* process_request: ResponseSender::send waits while the queue is full.    *)
(* The answer leaves before the transaction does.                          *)
ProcessRequest ==
  /\ Processing /\ Len(respQ) < QueueSize
  /\ respQ' = Append(respQ, Answer(Head(batch)))
  /\ batch' = Tail(batch)
  /\ wpc' = IF Len(batch) = 1 THEN "top" ELSE "process"
  /\ UNCHANGED <<streams, network, reqQ, shutdown>>

(* The loop ends and the worker drops its end of the request queue. *)
WorkerExit ==
  /\ wpc = "top" /\ shutdown
  /\ wpc' = "done"
  /\ UNCHANGED <<streams, network, batch, queues, shutdown>>

-----------------------------------------------------------------------------
NetworkNext ==
  \/ Poll \/ Accept \/ AcceptBreaks
  \/ \E e \in todo : \/ ReadFails(e) \/ ReadPart(e) \/ RejectRequest(e) \/ BeginSend(e)
                     \/ WriteEvent(e) \/ IgnoreEvent(e)
  \/ EnqueueRequest \/ EnqueueFails
  \/ Respond \/ LeaveLoop \/ Join

WorkerNext == WorkerRound \/ WorkerTake \/ ProcessRequest \/ WorkerExit

ServerNext ==
  NetworkNext \/ RunFails \/ WorkerNext \/ Shutdown \/ \E s \in Streams : Writable(s)
=============================================================================

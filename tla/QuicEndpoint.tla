---------------------------- MODULE QuicEndpoint ----------------------------
(***************************************************************************)
(* The QUIC endpoint and its connection pool (quic/src/endpoint.rs,        *)
(* pool.rs, connection.rs).  One thread owns the endpoint: it sends        *)
(* transactions, prewarms connections, keeps them alive and polls.  The    *)
(* peers act at any time, but what they do reaches the endpoint only when  *)
(* poll or a blocking connect receives a packet.                           *)
(*                                                                         *)
(* A call is a chain of steps, one for each part of it that may fail or    *)
(* branch (pc says which is next); no other call runs in between.          *)
(*                                                                         *)
(* The quiche connection is modelled by what the endpoint asks of it: how  *)
(* far the handshake is, whether early data may be sent and whether the    *)
(* peer has closed it.  Its phases are                                     *)
(*    new          created, nothing sent                                   *)
(*    lost         the first packet was not accepted by the socket; as     *)
(*                 nobody calls on_timeout it is not sent again            *)
(*    hello        the first packet is out                                 *)
(*    established  the server's flight was received                        *)
(*    finished     the client's last handshake packet is out               *)
(*    confirmed    HANDSHAKE_DONE was received                             *)
(***************************************************************************)
EXTENDS Integers, Sequences, FiniteSets, FiniteSetsExt, SequencesExt

CONSTANTS
  Addrs,            \* peers: records [v6, ip, port]
  PortBits,         \* width of a port, 16 in the code
  PoolSize,         \* MAX_POOL_SIZE, 128 in the code
  Home,             \* hash_addr: a slot for each address
  QueueCapacity,    \* DEFAULT_TX_QUEUE_CAPACITY, 16 in the code
  MaxRetryAttempts, \* MAX_RETRY_ATTEMPTS, 2 in the code
  Calls,            \* the calls the application makes
  IoFails,          \* whether socket calls and quiche::connect may fail
  Sessions,         \* whether the session cache may hold a ticket
  MaxTx             \* bound of the model: transactions handed over

Slots == 0..(PoolSize - 1)
AllCalls == {"send", "send_nonblocking", "prewarm", "keep_alive", "connect"}

ASSUME AddrsAssumption ==
  Addrs \subseteq [v6 : BOOLEAN, ip : Nat, port : Nat] /\ PortBits \in Nat
(* Follows from the other; the proof system has no facts about powers. *)
ASSUME PortAssumption == 2^PortBits \in Nat
ASSUME PoolAssumption == PoolSize \in Nat \ {0} /\ Home \in [Addrs -> Slots]
ASSUME SizeAssumption ==
  QueueCapacity \in Nat \ {0} /\ MaxRetryAttempts \in Nat \ {0} /\ MaxTx \in Nat
ASSUME WorldAssumption ==
  Calls \subseteq AllCalls /\ IoFails \in BOOLEAN /\ Sessions \in BOOLEAN

VARIABLES
  addr,      \* addr[i]: address of slot i, NoAddr while it is not occupied
  state,     \* state[i]: ConnectionState
  retry,     \* retry[i]: retry_count
  conn,      \* conn[i]: the connection of slot i, NoConn if there is none
  recent,    \* the occupied slots in the order of their last_activity
  dirty,     \* the DirtyTracker
  pc,        \* the next step of the endpoint's thread
  call,      \* the call in progress: [op, to, tx, found, slot]
  todo,      \* dirty slots this poll has yet to drive
  next_tx,
  (* observations, not part of the program *)
  sent,      \* transactions written to a stream: [tx, to, via]
  dropped    \* transactions taken from a queue and given up

pool == <<addr, state, retry, conn, recent, dirty>>
control == <<pc, call, todo>>
vars == <<pool, control, next_tx, sent, dropped>>

NoAddr == [v6 |-> FALSE, ip |-> -1, port |-> 0]
NoSlot == -1
NoConn ==
  [phase |-> "none", early |-> FALSE, peer |-> "none", closed |-> FALSE, queue |-> <<>>]
NoCall == [op |-> "none", to |-> NoAddr, tx |-> 0, found |-> NoSlot, slot |-> NoSlot]

(***************************************************************************)
(* The pool                                                                *)
(***************************************************************************)
Xor(x, y) ==
  LET bit(n, b) == (n \div 2^b) % 2
  IN  MapThenSumSet(LAMBDA b : ((bit(x, b) + bit(y, b)) % 2) * 2^b, 0..(2 * PortBits))

(* socket_addr_to_u128: the port is packed beside a v4 address, but mixed  *)
(* into the low bits of a v6 one.                                          *)
Key(a) == IF a.v6 THEN Xor(a.ip, a.port) ELSE a.ip * 2^PortBits + a.port

Occupied == {i \in Slots : addr[i] # NoAddr}

(* ConnectionPool::find *)
Find(a) ==
  LET hits == {i \in Occupied : Key(addr[i]) = Key(a)}
  IN  IF hits = {} THEN NoSlot ELSE Min(hits)

(* The k-th slot that find_or_allocate looks at. *)
Probe(a, k) == (Home[a] + k) % PoolSize

(* evict_and_allocate: the first dead or failed slot, else the one idle    *)
(* for longest.                                                            *)
Victim ==
  LET gone == {i \in Occupied : state[i] \in {"Dead", "Failed"}}
  IN  IF gone # {} THEN Min(gone) ELSE Head(recent)

(* Variant of FindOrAllocate, for mutation: the probing is given up after  *)
(* the first slot.                                                         *)
FindOrAllocateFirst(a) ==
  LET i == Probe(a, 0)
  IN  IF addr[i] = a THEN [slot |-> i, fresh |-> FALSE]
      ELSE IF addr[i] = NoAddr THEN [slot |-> i, fresh |-> TRUE]
      ELSE [slot |-> Victim, fresh |-> TRUE]

(* ConnectionPool::find_or_allocate: linear probing up to the address or   *)
(* the first empty slot, eviction if there is neither.                     *)
FindOrAllocate(a) ==
  LET stops == {k \in 0..(PoolSize - 1) : addr[Probe(a, k)] \in {a, NoAddr}}
      i == Probe(a, Min(stops))
  IN  IF stops = {} THEN [slot |-> Victim, fresh |-> TRUE]
                    ELSE [slot |-> i, fresh |-> addr[i] # a]

(* ConnectionSlot::touch *)
Touch(i) == recent' = Append(RemoveFirst(recent, i), i)

(* The state and the retry count after ConnectionPool::mark_failed.  The   *)
(* count is capped: above MaxRetryAttempts all counts behave alike.        *)
FailedRetry(i) == IF retry[i] < MaxRetryAttempts THEN retry[i] + 1 ELSE retry[i]
FailedState(i) == IF FailedRetry(i) >= MaxRetryAttempts THEN "Dead" ELSE "Failed"

MarkFailed(i) ==
  /\ state' = [state EXCEPT ![i] = FailedState(i)]
  /\ retry' = [retry EXCEPT ![i] = FailedRetry(i)]

(***************************************************************************)
(* The connection                                                          *)
(***************************************************************************)
Established(c) == c.phase \in {"established", "finished", "confirmed"}
InEarlyData(c) == c.early /\ c.phase \in {"new", "lost", "hello"}

Full(c) == Len(c.queue) >= QueueCapacity

(* TransactionQueue::try_enqueue; a full queue refuses. *)
Enqueue(i, t) ==
  conn' = IF Full(conn[i]) THEN conn
          ELSE [conn EXCEPT ![i].queue = Append(conn[i].queue, t)]

(* QuicConnection::send_uni: stream_send may accept the data, report that  *)
(* flow control blocks it, or fail.                                        *)
SendUni(c) ==
  IF c.closed \/ ~(Established(c) \/ InEarlyData(c)) THEN {"error"}
  ELSE {"ok", "would_block", "error"}

Transaction == [tx |-> call.tx, to |-> call.to]

(* The transaction of the call is written to a stream of slot i. *)
Written(i) ==
  sent' = sent \cup {[tx |-> call.tx, to |-> call.to, via |-> addr[i]]}

(* The handshake after the endpoint has sent what quiche had to send; a    *)
(* connection that the peer has closed sends nothing.                      *)
Transmitted(c) ==
  CASE c.phase = "new" -> [c EXCEPT !.phase = "hello"]
    [] c.phase = "established" /\ c.peer = "none" -> [c EXCEPT !.phase = "finished"]
    [] OTHER -> c

(***************************************************************************)
(* drive_slot                                                              *)
(***************************************************************************)

(* It fails: no connection, or the socket refuses a packet. *)
DriveFails(i) ==
  /\ conn[i].phase = "none" \/ IoFails
  /\ conn' = IF conn[i].phase = "new" THEN [conn EXCEPT ![i].phase = "lost"] ELSE conn
  /\ UNCHANGED <<addr, state, retry, recent, dirty, sent, dropped>>

(* The packets go out, and the state of the slot stays as it is. *)
DriveSends(i) ==
  /\ conn[i].phase \notin {"none", "confirmed"} \/
     (conn[i].phase = "confirmed" /\ state[i] = "Ready")
  /\ conn' = [conn EXCEPT ![i] = Transmitted(@)]
  /\ UNCHANGED <<addr, state, retry, recent, dirty, sent, dropped>>

(* The handshake turns out to be confirmed. *)
NewlyConfirmed(i) == conn[i].phase = "confirmed" /\ state[i] # "Ready"

(* The peer has closed the connection meanwhile.  Error code 2 makes the   *)
(* slot dead at once.                                                      *)
DriveFindsClosed(i) ==
  /\ NewlyConfirmed(i)
  /\ conn[i].peer # "none" \/ conn[i].closed
  /\ IF conn[i].peer = "refused"
       THEN state' = [state EXCEPT ![i] = "Dead"] /\ UNCHANGED retry
       ELSE MarkFailed(i)
  /\ dirty' = dirty \ {i}
  /\ UNCHANGED <<addr, conn, recent, sent, dropped>>

(* Variant of Drain, for mutation: what could not be sent stays at the     *)
(* head of the queue although it was given up.                             *)
DrainRequeues(i, n) ==
  LET q == conn[i].queue
      taken == IF n < Len(q) THEN n + 1 ELSE n
  IN  /\ conn' = [conn EXCEPT ![i].queue = SubSeq(q, n + 1, Len(q))]
      /\ sent' = sent \cup {[tx |-> q[k].tx, to |-> q[k].to, via |-> addr[i]] : k \in 1..n}
      /\ dropped' = dropped \cup {q[k] : k \in (n + 1)..taken}

(* The queue is drained: the first n transactions are sent, and the one    *)
(* that fails five times, if there is one, is given up.  The others stay.  *)
Drain(i, n) ==
  LET q == conn[i].queue
      taken == IF n < Len(q) THEN n + 1 ELSE n
  IN  /\ conn' = [conn EXCEPT ![i].queue = SubSeq(q, taken + 1, Len(q))]
      /\ sent' = sent \cup {[tx |-> q[k].tx, to |-> q[k].to, via |-> addr[i]] : k \in 1..n}
      /\ dropped' = dropped \cup {q[k] : k \in (n + 1)..taken}

(* The connection is good.  flushed tells whether the packets with the     *)
(* transactions were accepted by the socket; if not, the call ends before  *)
(* it looks at the dirty bit.                                              *)
DriveBecomesReady(i, flushed) ==
  /\ NewlyConfirmed(i)
  /\ conn[i].peer = "none" /\ ~conn[i].closed
  /\ state' = [state EXCEPT ![i] = "Ready"]
  /\ \E n \in 0..Len(conn[i].queue) :
       /\ ~flushed => n > 0 /\ IoFails
       /\ Drain(i, n)
  /\ dirty' = IF flushed /\ conn'[i].queue = <<>> THEN dirty \ {i} ELSE dirty
  /\ UNCHANGED <<addr, retry, recent>>

DriveOk(i) == DriveSends(i) \/ DriveFindsClosed(i) \/ DriveBecomesReady(i, TRUE)
DriveErr(i) == DriveFails(i) \/ DriveBecomesReady(i, FALSE)

(***************************************************************************)
(* Calls                                                                   *)
(***************************************************************************)

(* QuicEndpoint::new *)
Init ==
  /\ addr = [i \in Slots |-> NoAddr]
  /\ state = [i \in Slots |-> "Connecting"]
  /\ retry = [i \in Slots |-> 0]
  /\ conn = [i \in Slots |-> NoConn]
  /\ recent = <<>> /\ dirty = {}
  /\ pc = "idle" /\ call = NoCall /\ todo = {}
  /\ next_tx = 1 /\ sent = {} /\ dropped = {}

Return == pc' = "idle" /\ call' = NoCall

(* The next step of a call that found slot i. *)
FoundPc(op, i) ==
  CASE op = "prewarm" -> "idle"
    [] op = "keep_alive" -> "flush"
    [] state[i] = "Failed" -> "allocate"
    [] state[i] = "Dead" -> "idle"
    [] OTHER -> "dispatch"

(* The beginning of send, send_nonblocking, prewarm, keep_alive_if_idle    *)
(* and of a blocking connect: the lookup.  A call that ends here changes   *)
(* nothing; one of keep_alive_if_idle that is not due is such a call.      *)
Begin(op, a) ==
  /\ pc = "idle" /\ op \in Calls
  /\ op \in {"send", "send_nonblocking"} => next_tx <= MaxTx
  /\ LET i == IF op = "connect" THEN NoSlot ELSE Find(a)
         place == IF i # NoSlot THEN FoundPc(op, i)
                  ELSE IF op = "keep_alive" THEN "idle" ELSE "allocate"
     IN  /\ place # "idle"
         /\ pc' = place
         /\ call' = [op |-> op, to |-> a, tx |-> next_tx, found |-> i, slot |-> i]
  /\ next_tx' = IF op \in {"send", "send_nonblocking"} THEN next_tx + 1 ELSE next_tx
  /\ UNCHANGED <<pool, todo, sent, dropped>>

(* connect returns a slot that is ready.  A send that came to connect      *)
(* because the slot it found has failed goes on with the slot it found;    *)
(* the two differ when two addresses have the same key.                    *)
ReadyReturned ==
  IF call.op = "send" /\ call.found # NoSlot
    THEN pc' = "enqueue" /\ UNCHANGED call ELSE Return

(* Variant of Allocate, for mutation: the evicted connection is kept. *)
AllocateKeepsConn ==
  /\ pc = "allocate"
  /\ LET f == FindOrAllocate(call.to) IN
     /\ IF f.fresh
          THEN /\ addr' = [addr EXCEPT ![f.slot] = call.to]
               /\ state' = [state EXCEPT ![f.slot] = "Connecting"]
               /\ retry' = [retry EXCEPT ![f.slot] = 0]
               /\ Touch(f.slot)
          ELSE UNCHANGED <<addr, state, retry, recent>>
     /\ \/ /\ ~f.fresh /\ state[f.slot] = "Ready"
           /\ ReadyReturned
        \/ /\ f.fresh \/ state[f.slot] # "Ready"
           /\ pc' = "create"
           /\ call' = [call EXCEPT !.slot = f.slot]
  /\ UNCHANGED <<conn, dirty, todo, next_tx, sent, dropped>>

(* connect: find_or_allocate.  A slot that is ready is returned as it is.  *)
Allocate ==
  /\ pc = "allocate"
  /\ LET f == FindOrAllocate(call.to) IN
     /\ IF f.fresh
          THEN /\ addr' = [addr EXCEPT ![f.slot] = call.to]
               /\ state' = [state EXCEPT ![f.slot] = "Connecting"]
               /\ retry' = [retry EXCEPT ![f.slot] = 0]
               /\ conn' = [conn EXCEPT ![f.slot] = NoConn]
               /\ Touch(f.slot)
          ELSE UNCHANGED <<addr, state, retry, conn, recent>>
     /\ \/ /\ ~f.fresh /\ state[f.slot] = "Ready"
           /\ ReadyReturned
        \/ /\ f.fresh \/ state[f.slot] # "Ready"
           /\ pc' = "create"
           /\ call' = [call EXCEPT !.slot = f.slot]
  /\ UNCHANGED <<dirty, todo, next_tx, sent, dropped>>

(* connect: quiche::connect, with a session from the cache or without, and *)
(* store_connection.  A connection that was there is gone with its queue.  *)
Create ==
  /\ pc = "create"
  /\ \E early \in IF Sessions THEN BOOLEAN ELSE {FALSE} :
       conn' = [conn EXCEPT ![call.slot] =
                  [NoConn EXCEPT !.phase = "new", !.early = early]]
  /\ state' = [state EXCEPT ![call.slot] = "Connecting"]
  /\ Touch(call.slot)
  /\ pc' = "connect"
  /\ UNCHANGED <<addr, retry, dirty, call, todo, next_tx, sent, dropped>>

CreateFails ==
  /\ pc = "create" /\ IoFails
  /\ Return
  /\ UNCHANGED <<pool, todo, next_tx, sent, dropped>>

(* Where a call goes on after a non-blocking connect has returned Ok. *)
ConnectedPc ==
  CASE call.op = "connect" -> "handshake"
    [] call.op = "send" -> IF call.found = NoSlot THEN "dispatch" ELSE "enqueue"
    [] call.op = "send_nonblocking" /\ call.found = NoSlot
         /\ InEarlyData(conn[call.slot]) -> "dispatch"
    [] OTHER -> "idle"

(* connect: the first packet is sent. *)
Connected ==
  /\ pc = "connect"
  /\ \/ /\ DriveOk(call.slot)
        /\ IF ConnectedPc = "idle" THEN Return
           ELSE /\ pc' = ConnectedPc
                /\ call' = IF call.found = NoSlot
                             THEN [call EXCEPT !.found = call.slot] ELSE call
     \/ DriveErr(call.slot) /\ Return
  /\ UNCHANGED <<todo, next_tx>>

(* send and send_nonblocking on a slot that is ready or connecting: the    *)
(* transaction is written to a stream, if the connection takes it.         *)
DispatchNow ==
  /\ pc = "dispatch"
  /\ LET i == call.found IN
     /\ state[i] = "Ready" \/ InEarlyData(conn[i])
     /\ "ok" \in SendUni(conn[i])
     /\ Written(i)
  /\ pc' = "flush"
  /\ UNCHANGED <<pool, call, todo, next_tx, dropped>>

(* send on a ready slot: flow control blocks, the transaction is queued.   *)
DispatchBlocked ==
  /\ pc = "dispatch" /\ call.op = "send" /\ state[call.found] = "Ready"
  /\ "would_block" \in SendUni(conn[call.found])
  /\ Enqueue(call.found, Transaction)
  /\ Return
  /\ UNCHANGED <<addr, state, retry, recent, dirty, todo, next_tx, sent, dropped>>

(* The call fails: no connection, or send_uni returns an error.  On early  *)
(* data only send_nonblocking gives up.                                    *)
DispatchFails ==
  /\ pc = "dispatch"
  /\ \/ conn[call.found].phase = "none"
     \/ state[call.found] = "Ready"
     \/ call.op = "send_nonblocking" /\ InEarlyData(conn[call.found])
  /\ Return
  /\ UNCHANGED <<pool, todo, next_tx, sent, dropped>>

(* A slot that is still connecting: send queues the transaction, also when *)
(* early data was refused; send_nonblocking drives the slot and gives up.  *)
DispatchLater ==
  /\ pc = "dispatch" /\ state[call.found] = "Connecting"
  /\ conn[call.found].phase # "none"
  /\ \/ call.op = "send" /\ pc' = "enqueue"
     \/ /\ call.op = "send_nonblocking" /\ ~InEarlyData(conn[call.found])
        /\ pc' = "flush"
  /\ UNCHANGED <<pool, call, todo, next_tx, sent, dropped>>

(* Variant of Queue, for mutation: the slot is not marked dirty. *)
QueueUnmarked ==
  /\ pc = "enqueue"
  /\ Enqueue(call.found, Transaction)
  /\ Return
  /\ UNCHANGED <<addr, state, retry, recent, dirty, todo, next_tx, sent, dropped>>

(* send on a slot whose handshake is not done: the transaction is queued,  *)
(* and poll is told of it.                                                 *)
Queue ==
  /\ pc = "enqueue"
  /\ IF conn[call.found].phase = "none" THEN UNCHANGED <<conn, dirty>>
     ELSE /\ Enqueue(call.found, Transaction)
          /\ dirty' = dirty \cup {call.found}
  /\ Return
  /\ UNCHANGED <<addr, state, retry, recent, todo, next_tx, sent, dropped>>

(* flush_slot, and the drive_slot of keep_alive_if_idle and of             *)
(* send_nonblocking.                                                       *)
Flush ==
  /\ pc = "flush"
  /\ \/ /\ DriveOk(call.found)
        /\ IF call.op = "send" THEN pc' = "reset" /\ UNCHANGED call ELSE Return
     \/ DriveErr(call.found) /\ Return
  /\ UNCHANGED <<todo, next_tx>>

(* reset_retry, when a send has succeeded. *)
ResetRetry ==
  /\ pc = "reset"
  /\ retry' = [retry EXCEPT ![call.found] = 0]
  /\ Return
  /\ UNCHANGED <<addr, state, conn, recent, dirty, todo, next_tx, sent, dropped>>

(***************************************************************************)
(* The blocking connect: receive, drive, check, until the timeout          *)
(***************************************************************************)
HandshakeDrive ==
  /\ pc = "handshake"
  /\ \/ DriveOk(call.slot) /\ pc' = "check" /\ UNCHANGED call
     \/ DriveErr(call.slot) /\ Return
  /\ UNCHANGED <<todo, next_tx>>

(* The check of the handshake.  A confirmed one makes the slot ready; the  *)
(* loop may go on for a while, for the session ticket.                     *)
HandshakeCheck ==
  /\ pc = "check"
  /\ \/ /\ conn[call.slot].phase = "confirmed"
        /\ state' = [state EXCEPT ![call.slot] = "Ready"]
        /\ Return \/ (pc' = "handshake" /\ UNCHANGED call)
        /\ UNCHANGED retry
     \/ /\ conn[call.slot].phase # "confirmed" /\ conn[call.slot].closed
        /\ MarkFailed(call.slot)
        /\ Return
     \/ /\ conn[call.slot].phase # "confirmed" /\ ~conn[call.slot].closed
        /\ pc' = "handshake"
        /\ UNCHANGED <<state, retry, call>>
  /\ UNCHANGED <<addr, conn, recent, dirty, todo, next_tx, sent, dropped>>

HandshakeTimeout ==
  /\ pc = "handshake"
  /\ MarkFailed(call.slot)
  /\ Return
  /\ UNCHANGED <<addr, conn, recent, dirty, todo, next_tx, sent, dropped>>

(***************************************************************************)
(* poll                                                                    *)
(***************************************************************************)
BeginPoll ==
  /\ pc = "idle"
  /\ pc' = "recv"
  /\ UNCHANGED <<pool, call, todo, next_tx, sent, dropped>>

(* What a packet of the peer does to a connection: the server's handshake  *)
(* flight, HANDSHAKE_DONE, a close with error code 2 or another one (after *)
(* which the connection may be closed or still draining), anything else.   *)
Received(c, kind) ==
  CASE kind = "flight" /\ c.phase = "hello" -> {[c EXCEPT !.phase = "established"]}
    [] kind = "done" /\ c.phase = "finished" -> {[c EXCEPT !.phase = "confirmed"]}
    [] kind = "refused" -> {[c EXCEPT !.peer = kind]}
    [] kind = "closed" -> {[c EXCEPT !.peer = kind, !.closed = b] : b \in BOOLEAN}
    [] kind = "data" -> {c}
    [] OTHER -> {}

(* handle_recv, and its copy in poll: the packet is for the slot of its    *)
(* sender.  Packets to a dead slot may be skipped; a connection that was   *)
(* closed ignores them.                                                    *)
Receive(a, kind) ==
  /\ pc \in {"recv", "handshake"}
  /\ LET i == Find(a) IN
     /\ i # NoSlot
     /\ conn[i].phase \notin {"none", "new", "lost"}
     /\ conn[i].peer = "none"
     /\ \E c \in Received(conn[i], kind) : conn' = [conn EXCEPT ![i] = c]
     /\ Touch(i)
  /\ UNCHANGED <<addr, state, retry, dirty, control, next_tx, sent, dropped>>

(* The connection cannot make sense of the packet. *)
ReceiveFails(a) ==
  /\ pc \in {"recv", "handshake"}
  /\ LET i == Find(a) IN
     /\ i # NoSlot
     /\ conn[i].phase \notin {"none", "new", "lost"}
     /\ conn[i].peer = "none"
     /\ MarkFailed(i)
  /\ UNCHANGED <<addr, conn, recent, dirty, control, next_tx, sent, dropped>>

(* The socket fails: poll returns before it looks at the dirty slots, the  *)
(* blocking connect without an entry in the retry count.                   *)
ReceiveIoFails ==
  /\ pc \in {"recv", "handshake"} /\ IoFails
  /\ Return
  /\ UNCHANGED <<pool, todo, next_tx, sent, dropped>>

(* Nothing more to receive: take_dirty. *)
TakeDirty ==
  /\ pc = "recv"
  /\ todo' = dirty /\ dirty' = {}
  /\ pc' = "sweep"
  /\ UNCHANGED <<addr, state, retry, conn, recent, call, next_tx, sent, dropped>>

(* The lowest dirty slot is driven, whatever comes of it. *)
Sweep ==
  /\ pc = "sweep" /\ todo # {}
  /\ LET i == Min(todo) IN
     /\ DriveOk(i) \/ DriveErr(i)
     /\ todo' = todo \ {i}
     /\ call' = [NoCall EXCEPT !.slot = i]
  /\ pc' = "remark"
  /\ UNCHANGED next_tx

(* Variant of Remark, for mutation: a connecting slot is left alone. *)
RemarkPending ==
  /\ pc = "remark"
  /\ LET i == call.slot IN
     dirty' = IF state[i] = "Ready" /\ conn[i].queue # <<>>
              THEN dirty \cup {i} ELSE dirty
  /\ pc' = "sweep" /\ call' = NoCall
  /\ UNCHANGED <<addr, state, retry, conn, recent, todo, next_tx, sent, dropped>>

(* A slot with work left is marked again. *)
Remark ==
  /\ pc = "remark"
  /\ LET i == call.slot IN
     dirty' = IF state[i] = "Connecting" \/ (state[i] = "Ready" /\ conn[i].queue # <<>>)
              THEN dirty \cup {i} ELSE dirty
  /\ pc' = "sweep" /\ call' = NoCall
  /\ UNCHANGED <<addr, state, retry, conn, recent, todo, next_tx, sent, dropped>>

EndPoll ==
  /\ pc = "sweep" /\ todo = {}
  /\ Return
  /\ UNCHANGED <<pool, todo, next_tx, sent, dropped>>

(***************************************************************************)
(* The specification                                                       *)
(***************************************************************************)
Step ==
  \/ Allocate \/ Create \/ CreateFails \/ Connected
  \/ DispatchNow \/ DispatchBlocked \/ DispatchFails \/ DispatchLater
  \/ Queue \/ Flush \/ ResetRetry
  \/ HandshakeDrive \/ HandshakeCheck \/ HandshakeTimeout
  \/ ReceiveIoFails \/ TakeDirty \/ Sweep \/ Remark \/ EndPoll

Kinds == {"flight", "done", "refused", "closed", "data"}

Next ==
  \/ \E op \in Calls, a \in Addrs : Begin(op, a)
  \/ BeginPoll
  \/ Step
  \/ \E a \in Addrs : ReceiveFails(a) \/ \E kind \in Kinds : Receive(a, kind)

Spec == Init /\ [][Next]_vars

(* A call that has begun goes on, packets do not arrive faster than poll   *)
(* takes them, and the thread polls again and again.                       *)
FairSpec == Spec /\ WF_vars(Step) /\ SF_vars(BeginPoll)

(***************************************************************************)
(* Properties                                                              *)
(***************************************************************************)
States == {"Connecting", "Ready", "Failed", "Dead"}
Phases == {"none", "new", "lost", "hello", "established", "finished", "confirmed"}
Transactions == [tx : 1..MaxTx, to : Addrs]
Places ==
  {"idle", "allocate", "create", "connect", "dispatch", "enqueue", "flush", "reset",
   "handshake", "check", "recv", "sweep", "remark"}

(* Every variable has its type, and a transaction queue never holds more   *)
(* than its capacity.                                                      *)
TypeOK ==
  /\ addr \in [Slots -> Addrs \cup {NoAddr}] /\ state \in [Slots -> States]
  /\ retry \in [Slots -> 0..MaxRetryAttempts]
  /\ \A i \in Slots :
       /\ conn[i].phase \in Phases /\ conn[i].early \in BOOLEAN
       /\ conn[i].peer \in {"none", "refused", "closed"} /\ conn[i].closed \in BOOLEAN
       /\ conn[i].queue \in Seq(Transactions) /\ Len(conn[i].queue) <= QueueCapacity
  /\ recent \in Seq(Slots) /\ {recent[k] : k \in DOMAIN recent} = Occupied
  /\ dirty \subseteq Slots /\ todo \subseteq Slots /\ pc \in Places
  /\ next_tx \in 1..(MaxTx + 1)
  /\ sent \subseteq [tx : 1..MaxTx, to : Addrs, via : Addrs]
  /\ dropped \subseteq Transactions

(* No address has two slots, in spite of collisions and evictions: the     *)
(* scan of find and the probing of find_or_allocate agree.                 *)
UniqueAddresses ==
  \A i, j \in Occupied : addr[i] = addr[j] => i = j

(* A transaction is sent to, or queued for, the address it was meant for,  *)
(* although its slot may have been evicted and reused meanwhile.           *)
RightDestination ==
  /\ \A s \in sent : s.to = s.via
  /\ \A i \in Slots : \A k \in DOMAIN conn[i].queue : conn[i].queue[k].to = addr[i]

(* A slot that is ready has a connection whose handshake is confirmed.     *)
ReadyMeansConfirmed ==
  \A i \in Slots : state[i] = "Ready" => conn[i].phase = "confirmed"

(* A transaction is in one place at most: at one position of one queue,    *)
(* sent, or given up.  Nothing is sent twice.                              *)
OnePlace ==
  \A t \in 1..MaxTx :
    Cardinality({q \in Slots \X (1..QueueCapacity) :
                   q[2] <= Len(conn[q[1]].queue) /\ conn[q[1]].queue[q[2]].tx = t})
    + Cardinality({s \in sent : s.tx = t}) + Cardinality({d \in dropped : d.tx = t}) <= 1

(* A transaction queued for a handshake is not forgotten: poll knows that  *)
(* it has to drive the slot.                                               *)
PendingIsDirty ==
  \A i \in Slots :
    (state[i] = "Connecting" /\ conn[i].queue # <<>>) =>
      i \in dirty \cup todo \/ (pc = "remark" /\ call.slot = i)

(* drive_slot marks a slot whose peer has refused the connection with      *)
(* error code 2 "as dead to prevent retry" (quic/src/endpoint.rs:979): it  *)
(* is not made ready again with the connection that was refused.           *)
RefusedStaysDead ==
  [][\A i \in Slots :
       state[i] = "Dead" /\ conn[i].peer = "refused" => state'[i] # "Ready"]_vars

(* Once the handshake is confirmed, the transaction at the head of the     *)
(* queue does not wait for ever: poll drives the slot, which writes the    *)
(* transaction to a stream or gives it up (quic/src/endpoint.rs:959-1076), *)
(* unless the slot fails or is evicted before.  The transactions behind    *)
(* one that was given up stay in the queue; see QueuedOnReadySent.         *)
HeadIsDrained ==
  \A i \in Slots, t \in 1..MaxTx :
    (/\ state[i] = "Connecting" /\ conn[i].phase = "confirmed"
     /\ conn[i].queue # <<>> /\ conn[i].queue[1].tx = t)
      ~> \/ state[i] \in {"Failed", "Dead"} \/ conn[i].phase # "confirmed"
         \/ \A k \in DOMAIN conn[i].queue : conn[i].queue[k].tx # t

(* sender.rs: the poll before each fanout step detects a peer's            *)
(* APPLICATION_CLOSE; between calls no closed connection counts as ready.  *)
PeerCloseDetected ==
  pc = "dispatch" /\ state[call.found] = "Ready" => conn[call.found].peer = "none"

(* The documentation of send: a transaction that was queued is sent when   *)
(* the handshake completes.                                                *)
HandshakeFlushes == dropped = {}

(* send: "flow control blocked - queue for later".  What is queued on a    *)
(* ready connection leaves the queue some time.                            *)
QueuedOnReadySent ==
  \A i \in Slots :
    (state[i] = "Ready" /\ conn[i].queue # <<>>)
      ~> (state[i] # "Ready" \/ conn[i].queue = <<>>)

(* connect: in non-blocking mode the "handshake completes in background    *)
(* poll()", so the client's last handshake packet is sent some time.       *)
HandshakeCompletesInPoll ==
  \A i \in Slots :
    (state[i] = "Connecting" /\ conn[i].phase = "established" /\ conn[i].peer = "none")
      ~> ~(state[i] = "Connecting" /\ conn[i].phase = "established"
             /\ conn[i].peer = "none")
=============================================================================

-------------------------------- MODULE Spsc --------------------------------
(***************************************************************************)
(* The single-producer single-consumer channel of land_channel             *)
(* (channel/src/spsc): a ring of Capacity slots, a producer cursor, a      *)
(* consumer cursor and a closed flag shared by two threads.                *)
(*                                                                         *)
(* Every load or store of shared memory is a step of its own, so a call is *)
(* several steps and the other endpoint may run between any two of them.   *)
(* Reads and writes of memory private to an endpoint are merged into the   *)
(* neighbouring shared access.                                             *)
(*                                                                         *)
(* Memory is sequentially consistent.  Each cursor has a single writer and *)
(* the target is x86-64, whose stores become visible in program order; the *)
(* README discusses what the Relaxed orderings would add elsewhere.        *)
(*                                                                         *)
(* Events are named by the order in which the application hands them over: *)
(* the event written under sequence s is s, so a lost, repeated, stale or  *)
(* misplaced event is visible in `delivered'.                              *)
(***************************************************************************)
EXTENDS Integers, Sequences, Functions

CONSTANTS
  Capacity,     \* number of slots of the ring (a power of two in the code)
  MaxEvents     \* bound of the model: events handed to the producer

ASSUME CapacityAssumption == Capacity \in Nat \ {0}
ASSUME MaxEventsAssumption == MaxEvents \in Nat

VARIABLES
  (* Shared<T> *)
  slots,            \* the ring; NoEvent is an uninitialised slot
  producer_cursor,  \* last published sequence
  consumer_cursor,  \* last consumed sequence
  closed,           \* AtomicBool, set by close() and by either Drop
  (* Producer<T>, with the call it is executing *)
  ppc,              \* where the producer is
  pop,              \* the call: one of ProducerOps
  pn,               \* number of slots the call asks for
  start,            \* first sequence granted to the call
  written,          \* slots of the grant already written
  p_next,           \* next_sequence
  cached_consumer,
  p_disconnected,   \* cached_disconnected
  (* Consumer<T, W>, with the call it is executing *)
  cpc,              \* where the consumer is
  cop,              \* the call: one of ConsumerOps
  climit,           \* length of the output slice
  ccount,           \* events the call will take
  cread,            \* events of the call already taken
  c_next,           \* next_sequence
  c_disconnected,   \* cached_disconnected
  (* observations, not part of the program *)
  delivered,        \* events handed over by the receiving calls, in order
  moved,            \* those of them moved out of their slots, in order
  polled,           \* those handed to the callback of poll, which stay there
  result,           \* what the last consumer call returned
  closed_at,        \* producer_cursor when closed was first set
  freed             \* events destroyed by Shared::drop, in order

shared == <<slots, producer_cursor, consumer_cursor, closed>>
pvars == <<ppc, pop, pn, start, written, p_next, cached_consumer, p_disconnected>>
cvars == <<cpc, cop, climit, ccount, cread, c_next, c_disconnected>>
observed == <<delivered, moved, polled, result, closed_at, freed>>
vars == <<shared, pvars, cvars, observed>>

NoEvent == -1

BlockingSends == {"send", "claim", "claim_batch"}
TrySends == {"try_send", "try_claim", "try_claim_batch"}
ProducerOps == BlockingSends \cup TrySends
ClaimOps == {"claim", "try_claim"}
BatchOps == {"claim_batch", "try_claim_batch"}

BlockingRecvs == {"recv", "recv_batch", "recv_all"}
TryRecvs == {"try_recv", "try_recv_batch", "peek", "poll"}
ConsumerOps == BlockingRecvs \cup TryRecvs

(* RingBuffer::index: sequence & mask, with mask = capacity - 1. *)
Index(s) == s % Capacity

(* Variant of WrapPoint, for mutation: the size of a batch is forgotten. *)
WrapPointSingle(n) == p_next - Capacity

(* The consumer cursor a producer must see before it may take n slots. *)
WrapPoint(n) == p_next + n - 1 - Capacity

(***************************************************************************)
(* channel_with_wait / channel_with_factory                                *)
(***************************************************************************)
Init ==
  /\ slots = [i \in 0..(Capacity - 1) |-> NoEvent]
  /\ producer_cursor = -1
  /\ consumer_cursor = -1
  /\ closed = FALSE
  /\ ppc = "idle" /\ pop = "send" /\ pn = 1 /\ start = 0 /\ written = 0
  /\ p_next = 0 /\ cached_consumer = -1 /\ p_disconnected = FALSE
  /\ cpc = "idle" /\ cop = "recv" /\ climit = 1 /\ ccount = 0 /\ cread = 0
  /\ c_next = 0 /\ c_disconnected = FALSE
  /\ delivered = <<>> /\ moved = <<>> /\ polled = {}
  /\ result = "none" /\ closed_at = -1 /\ freed = <<>>

(***************************************************************************)
(* Producer                                                                *)
(***************************************************************************)

(* Producer::is_disconnected.  strong_count = 1 means that the consumer    *)
(* has released its Arc.  The two loads may be one step: the consumer      *)
(* stores closed before it releases the Arc.                               *)
ProducerSeesDisconnect == p_disconnected \/ closed \/ cpc = "dropped"

(* Space was found: the call owns sequences p_next .. p_next + n - 1.  The *)
(* batch calls advance next_sequence here, the others when they publish.   *)
Grant(op, n) ==
  /\ ppc' = "write"
  /\ start' = p_next
  /\ written' = 0
  /\ p_next' = IF op \in BatchOps THEN p_next + n ELSE p_next

NoGrant == UNCHANGED <<start, written, p_next>>

(* First steps of send, try_send, claim, try_claim, claim_batch and        *)
(* try_claim_batch: the disconnect check, then the cached consumer cursor. *)
(* try_claim_batch alone does not trust the cache.                         *)
BeginSend(op, n) ==
  /\ ppc = "idle"
  /\ op \notin BatchOps => n = 1
  /\ p_next + n <= MaxEvents
  /\ p_disconnected' = ProducerSeesDisconnect
  /\ \/ /\ p_disconnected'
        /\ NoGrant /\ UNCHANGED <<ppc, pop, pn>>
     \/ /\ ~p_disconnected'
        /\ pop' = op /\ pn' = n
        /\ IF op # "try_claim_batch" /\ cached_consumer >= WrapPoint(n)
             THEN Grant(op, n)
             ELSE ppc' = "reload" /\ NoGrant
  /\ UNCHANGED <<shared, cached_consumer, cvars, observed>>

(* The reload of the consumer cursor, in wait_for_space_n and in the try   *)
(* calls, which return Full when the ring really is full.                  *)
Reload ==
  /\ ppc = "reload"
  /\ cached_consumer' = consumer_cursor
  /\ IF consumer_cursor >= WrapPoint(pn)
       THEN Grant(pop, pn)
       ELSE /\ ppc' = IF pop \in BlockingSends THEN "recheck" ELSE "idle"
            /\ NoGrant
  /\ UNCHANGED <<shared, pop, pn, p_disconnected, cvars, observed>>

(* Variants of Recheck, for mutation: a failed wait gives back slots it was *)
(* never granted; the wait loop does not look at the closed flag.           *)
RecheckGivesBack ==
  /\ ppc = "recheck"
  /\ p_disconnected' = ProducerSeesDisconnect
  /\ ppc' = IF p_disconnected' THEN "idle" ELSE "reload"
  /\ p_next' = IF p_disconnected' THEN p_next - pn - Capacity ELSE p_next
  /\ UNCHANGED <<shared, start, written, pop, pn, cached_consumer, cvars, observed>>

RecheckIgnoresClosed ==
  /\ ppc = "recheck"
  /\ ppc' = "reload"
  /\ NoGrant
  /\ UNCHANGED <<shared, pop, pn, p_disconnected, cached_consumer, cvars, observed>>

(* The disconnect check in the loop of wait_for_space_n. *)
Recheck ==
  /\ ppc = "recheck"
  /\ p_disconnected' = ProducerSeesDisconnect
  /\ ppc' = IF p_disconnected' THEN "idle" ELSE "reload"
  /\ NoGrant
  /\ UNCHANGED <<shared, pop, pn, cached_consumer, cvars, observed>>

(* One event is stored in the next slot of the grant: buffer.write of the  *)
(* send calls, a store through the reference of the claim calls.           *)
WriteSlot ==
  /\ ppc = "write" /\ written < pn
  /\ slots' = [slots EXCEPT ![Index(start + written)] = start + written]
  /\ written' = written + 1
  /\ UNCHANGED <<producer_cursor, consumer_cursor, closed, ppc, pop, pn, start,
                 p_next, cached_consumer, p_disconnected, cvars, observed>>

(* Variant of Publish, for mutation: the cursor may be stored before the   *)
(* slots.                                                                  *)
PublishBeforeWrite ==
  /\ ppc = "write"
  /\ producer_cursor' = start + pn - 1
  /\ p_next' = IF pop \in BatchOps THEN p_next ELSE p_next + 1
  /\ ppc' = "idle"
  /\ UNCHANGED <<slots, consumer_cursor, closed, pop, pn, start, written,
                 cached_consumer, p_disconnected, cvars, observed>>

(* The cursor store that makes the whole grant visible: end of send and    *)
(* try_send, Producer::publish, and BatchSlots::do_publish.                *)
Publish ==
  /\ ppc = "write" /\ written = pn
  /\ producer_cursor' = start + pn - 1
  /\ p_next' = IF pop \in BatchOps THEN p_next ELSE p_next + 1
  /\ ppc' = "idle"
  /\ UNCHANGED <<slots, consumer_cursor, closed, pop, pn, start, written,
                 cached_consumer, p_disconnected, cvars, observed>>

StoreClosed ==
  /\ closed' = TRUE
  /\ closed_at' = IF closed THEN closed_at ELSE producer_cursor

(* Between calls the owner holds the endpoint; a claimed slot is such a    *)
(* moment too, a borrowed batch is not.                                    *)
ProducerBetweenCalls == ppc = "idle" \/ (ppc = "write" /\ pop \in ClaimOps)

(* Producer::close *)
ProducerClose ==
  /\ ProducerBetweenCalls
  /\ StoreClosed
  /\ UNCHANGED <<slots, producer_cursor, consumer_cursor, pvars, cvars,
                 delivered, moved, polled, result, freed>>

(* Drop for Producer: close, a claimed slot stays unpublished; then the    *)
(* Arc field is released.                                                  *)
ProducerDrop ==
  /\ ProducerBetweenCalls
  /\ StoreClosed
  /\ ppc' = "dropping"
  /\ UNCHANGED <<slots, producer_cursor, consumer_cursor, pop, pn, start, written,
                 p_next, cached_consumer, p_disconnected, cvars,
                 delivered, moved, polled, result, freed>>

(* Variant of SharedDrop, for mutation: the range starts at consumer_seq. *)
SharedDropOffByOne ==
  freed' = [i \in 1..(producer_cursor - consumer_cursor + 1) |->
              slots[(consumer_cursor + i - 1 + Capacity) % Capacity]]

(* Drop for Shared, run by whichever endpoint releases the Arc last: the   *)
(* unconsumed events are destroyed.                                        *)
SharedDrop ==
  freed' = [i \in 1..(producer_cursor - consumer_cursor) |->
              slots[Index(consumer_cursor + i)]]

ProducerRelease ==
  /\ ppc = "dropping"
  /\ ppc' = "dropped"
  /\ IF cpc = "dropped" THEN SharedDrop ELSE UNCHANGED freed
  /\ UNCHANGED <<shared, pop, pn, start, written, p_next, cached_consumer,
                 p_disconnected, cvars, delivered, moved, polled, result, closed_at>>

(***************************************************************************)
(* Consumer                                                                *)
(***************************************************************************)

(* Consumer::is_disconnected *)
ConsumerSeesDisconnect == c_disconnected \/ closed \/ ppc = "dropped"

(* How many of the available events a call takes. *)
Take(op, limit, available) ==
  CASE op \in {"poll", "recv_all"} -> available
    [] op \in {"recv_batch", "try_recv_batch"} ->
         IF limit < available THEN limit ELSE available
    [] OTHER -> 1

(* The load of the producer cursor that begins every consumer call and     *)
(* every round of the blocking ones.                                       *)
Load(op, limit) ==
  /\ \/ cpc = "idle"
     \/ cpc = "load" /\ op = cop /\ limit = climit
  /\ cop' = op /\ climit' = limit
  /\ IF producer_cursor >= c_next
       THEN /\ cpc' = "read"
            /\ ccount' = Take(op, limit, producer_cursor - c_next + 1)
            /\ cread' = 0
       ELSE /\ cpc' = IF op = "poll" THEN "idle" ELSE "check"
            /\ UNCHANGED <<ccount, cread>>
  /\ result' = "none"
  /\ UNCHANGED <<shared, pvars, c_next, c_disconnected, delivered, moved, polled, closed_at, freed>>

(* An event is handed over.  buffer.read moves it out of its slot, so that *)
(* the caller destroys it; poll passes a reference to its callback and     *)
(* leaves the event in the slot.  peek hands over nothing.                 *)
HandOver(e) ==
  /\ delivered' = IF cop = "peek" THEN delivered ELSE Append(delivered, e)
  /\ moved' = IF cop \in {"peek", "poll"} THEN moved ELSE Append(moved, e)
  /\ polled' = IF cop = "poll" THEN polled \cup {e} ELSE polled

(* Variant of ReadSlot, for mutation: the batch loop forgets its index. *)
ReadSlotSame ==
  /\ cpc = "read" /\ cread < ccount
  /\ HandOver(slots[Index(c_next)])
  /\ cread' = cread + 1
  /\ UNCHANGED <<shared, pvars, cpc, cop, climit, ccount, c_next,
                 c_disconnected, result, closed_at, freed>>

(* One event of the call is read from the ring. *)
ReadSlot ==
  /\ cpc = "read" /\ cread < ccount
  /\ HandOver(slots[Index(c_next + cread)])
  /\ cread' = cread + 1
  /\ UNCHANGED <<shared, pvars, cpc, cop, climit, ccount, c_next,
                 c_disconnected, result, closed_at, freed>>

(* The consumer cursor is stored once for everything the call took. *)
Commit ==
  /\ cpc = "read" /\ cread = ccount
  /\ IF cop = "peek"
       THEN UNCHANGED <<consumer_cursor, c_next>>
       ELSE /\ consumer_cursor' = c_next + ccount - 1
            /\ c_next' = c_next + ccount
  /\ cread' = 0
  /\ cpc' = "idle"
  /\ result' = "ok"
  /\ UNCHANGED <<slots, producer_cursor, closed, pvars, cop, climit, ccount,
                 c_disconnected, delivered, moved, polled, closed_at, freed>>

(* Nothing was available: the disconnect check.  The try calls return,     *)
(* the blocking ones go on to the final check or to the wait strategy.     *)
CheckDisconnect ==
  /\ cpc = "check"
  /\ c_disconnected' = ConsumerSeesDisconnect
  /\ IF cop \in BlockingRecvs
       THEN /\ cpc' = IF c_disconnected' THEN "final" ELSE "wait"
            /\ UNCHANGED result
       ELSE /\ cpc' = "idle"
            /\ result' = IF c_disconnected' THEN "disconnected" ELSE "empty"
  /\ UNCHANGED <<shared, pvars, cop, climit, ccount, cread, c_next,
                 delivered, moved, polled, closed_at, freed>>

(* Variant of FinalCheck, for mutation: no second look. *)
NoFinalCheck ==
  /\ cpc = "final"
  /\ cpc' = "idle" /\ result' = "recv_error"
  /\ UNCHANGED <<shared, pvars, cop, climit, ccount, cread, c_next,
                 c_disconnected, delivered, moved, polled, closed_at, freed>>

(* The second look at the producer cursor after a disconnect was seen. *)
FinalCheck ==
  /\ cpc = "final"
  /\ IF producer_cursor >= c_next
       THEN cpc' = "load" /\ UNCHANGED result
       ELSE cpc' = "idle" /\ result' = "recv_error"
  /\ UNCHANGED <<shared, pvars, cop, climit, ccount, cread, c_next,
                 c_disconnected, delivered, moved, polled, closed_at, freed>>

(* Variant of WaitFor, for mutation: waits for one event too many. *)
WaitForOneMore ==
  /\ cpc = "wait"
  /\ producer_cursor > c_next
  /\ cpc' = "load"
  /\ UNCHANGED <<shared, pvars, cop, climit, ccount, cread, c_next,
                 c_disconnected, observed>>

(* SequenceBarrier::wait_for with any of the wait strategies: spin until   *)
(* the producer cursor reaches c_next; closed is not looked at.            *)
WaitFor ==
  /\ cpc = "wait"
  /\ producer_cursor >= c_next
  /\ cpc' = "load"
  /\ UNCHANGED <<shared, pvars, cop, climit, ccount, cread, c_next,
                 c_disconnected, observed>>

(* Consumer::close *)
ConsumerClose ==
  /\ cpc = "idle"
  /\ StoreClosed
  /\ UNCHANGED <<slots, producer_cursor, consumer_cursor, pvars, cvars,
                 delivered, moved, polled, result, freed>>

(* Drop for Consumer, then the release of its Arc. *)
ConsumerDrop ==
  /\ cpc = "idle"
  /\ StoreClosed
  /\ cpc' = "dropping"
  /\ UNCHANGED <<slots, producer_cursor, consumer_cursor, pvars, cop, climit,
                 ccount, cread, c_next, c_disconnected, delivered, moved, polled, result, freed>>

ConsumerRelease ==
  /\ cpc = "dropping"
  /\ cpc' = "dropped"
  /\ IF ppc = "dropped" THEN SharedDrop ELSE UNCHANGED freed
  /\ UNCHANGED <<shared, pvars, cop, climit, ccount, cread, c_next,
                 c_disconnected, delivered, moved, polled, result, closed_at>>

(***************************************************************************)
(* The specification                                                       *)
(***************************************************************************)
ProducerStep == Reload \/ Recheck \/ WriteSlot \/ Publish \/ ProducerRelease

ProducerCall ==
  \/ \E op \in ProducerOps, n \in 1..Capacity : BeginSend(op, n)
  \/ ProducerClose
  \/ ProducerDrop

ConsumerStep ==
  \/ (cpc = "load" /\ Load(cop, climit))
  \/ ReadSlot \/ Commit \/ CheckDisconnect \/ FinalCheck \/ WaitFor
  \/ ConsumerRelease

ConsumerCall ==
  \/ \E op \in ConsumerOps, limit \in 1..Capacity :
       (op \notin {"recv_batch", "try_recv_batch"} => limit = 1)
         /\ cpc = "idle" /\ Load(op, limit)
  \/ ConsumerClose
  \/ ConsumerDrop

Next == ProducerStep \/ ProducerCall \/ ConsumerStep \/ ConsumerCall

Spec == Init /\ [][Next]_vars

(* A thread inside a call keeps running; nothing obliges the application   *)
(* to make another call, to close or to drop an endpoint.                  *)
Fairness == WF_vars(ProducerStep) /\ WF_vars(ConsumerStep)

FairSpec == Spec /\ Fairness

(***************************************************************************)
(* Properties                                                              *)
(***************************************************************************)
ProducerPlaces == {"idle", "reload", "recheck", "write", "dropping", "dropped"}
ConsumerPlaces ==
  {"idle", "load", "read", "check", "final", "wait", "dropping", "dropped"}
Results == {"none", "ok", "empty", "disconnected", "recv_error"}

(* Every variable of both endpoints and of the shared ring has the type    *)
(* the structs Shared, Producer and Consumer give it.                      *)
TypeOK ==
  /\ slots \in [0..(Capacity - 1) -> Int]
  /\ producer_cursor \in Int /\ consumer_cursor \in Int
  /\ closed \in BOOLEAN
  /\ ppc \in ProducerPlaces /\ pop \in ProducerOps
  /\ pn \in 1..Capacity /\ start \in Nat /\ written \in Nat
  /\ p_next \in Nat /\ cached_consumer \in Int /\ p_disconnected \in BOOLEAN
  /\ cpc \in ConsumerPlaces /\ cop \in ConsumerOps
  /\ climit \in 1..Capacity /\ ccount \in Nat /\ cread \in Nat
  /\ c_next \in Nat /\ c_disconnected \in BOOLEAN
  /\ delivered \in Seq(Int) /\ moved \in Seq(Int) /\ polled \subseteq Int
  /\ freed \in Seq(Int)
  /\ result \in Results /\ closed_at \in Int

(* The safety comments of send, claim and recv ("we have exclusive         *)
(* access", "producer has published this sequence"): the slot the producer *)
(* is storing to is never a slot the consumer is reading, has yet to read, *)
(* or may still see through the reference that peek returned.              *)
NoSlotRace ==
  (ppc = "write" /\ written < pn) =>
    \A s \in c_next..producer_cursor : Index(s) # Index(start + written)

(* The consumer gets events 0, 1, 2, ... : nothing published is lost,      *)
(* repeated, reordered or read before it was written, whatever mix of      *)
(* single, batched, blocking and non-blocking calls both sides use.        *)
DeliveredInOrder ==
  /\ \A i \in 1..Len(delivered) : delivered[i] = i - 1
  /\ Len(delivered) <= producer_cursor + 1

(* Every event that is published and not yet handed over is intact in its  *)
(* slot, so the recv, the peek or the Shared::drop to come finds it.       *)
PublishedIntact ==
  \A s \in Len(delivered)..producer_cursor : slots[Index(s)] = s

(* recv, recv_batch and recv_all return RecvError only when every event    *)
(* published before the channel was closed has been handed over: the       *)
(* final check closes the window between the cursor load and the closed    *)
(* load in which a publish and a drop may fall.                            *)
RecvErrorMeansDrained == result = "recv_error" => closed /\ c_next > closed_at

(* The events whose slots have been given up: to a caller that destroys    *)
(* them, or to Shared::drop, which does.                                   *)
Released == moved \o freed

(* Once both endpoints are gone every published event has been moved out   *)
(* or destroyed by Shared::drop, exactly once, except those that poll has  *)
(* handed to its callback, which nobody releases: no double drop, no event *)
(* destroyed that a caller owns, and no leak but that of poll              *)
(* (spsc/shared.rs:19-38, spsc/consumer.rs:268-310).                       *)
ReleasedOnce ==
  (ppc = "dropped" /\ cpc = "dropped") =>
    /\ IsInjective(Released)
    /\ Range(Released) = (0..producer_cursor) \ polled

(* What ringbuffer.rs:401-403 asks of the channel, that every value        *)
(* written is consumed or dropped, if an event that was only lent to poll  *)
(* does not count as consumed.                                             *)
PolledAreReleased ==
  (ppc = "dropped" /\ cpc = "dropped") => polled = {}

(* TryRecvError::Disconnected means what its documentation says: the       *)
(* producer is gone and the buffer is empty, that is, everything published *)
(* before the close has been handed over.                                  *)
DisconnectedMeansDrained == result = "disconnected" => closed /\ c_next > closed_at

(* A send, claim or claim_batch that waits on a full ring gives up once    *)
(* the channel is closed.                                                  *)
ClosedUnblocksSender ==
  (closed /\ ppc \in {"reload", "recheck"}) ~> (ppc \in {"idle", "write"})

(* A blocking receive returns once an event is available to it. *)
PublishedUnblocksReceiver ==
  (cpc = "wait" /\ producer_cursor >= c_next) ~> (cpc = "idle")

(* A blocking receive returns when the producer has been dropped. *)
DropUnblocksReceiver ==
  (ppc = "dropped" /\ cpc = "wait") ~> (cpc = "idle")

(* The channel implements the bounded queue: an event is accepted when the *)
(* producer cursor passes it and delivered when the consumer reads it.     *)
Queue == INSTANCE EventQueue WITH
  accepted <- producer_cursor + 1,
  queue <- [i \in 1..(producer_cursor + 1 - Len(delivered)) |->
              slots[Index(Len(delivered) + i - 1)]],
  out <- delivered

ImplementsQueue == Queue!Spec
=============================================================================

----------------------------- MODULE SpscProofs -----------------------------
(***************************************************************************)
(* Proofs about the SPSC channel, for every Capacity and every MaxEvents:  *)
(* type correctness, exclusive access to slots, in-order exactly-once      *)
(* delivery, the meaning of RecvError and the balance of Shared::drop.     *)
(***************************************************************************)
EXTENDS Spsc, TLAPS

(***************************************************************************)
(* The inductive invariant                                                 *)
(***************************************************************************)

(* The cursors follow the private counters of their owners, and the        *)
(* published and unconsumed events fit in the ring.                        *)
CursorInv ==
  /\ consumer_cursor = c_next - 1
  /\ -1 <= cached_consumer /\ cached_consumer <= consumer_cursor
  /\ consumer_cursor <= producer_cursor
  /\ producer_cursor - consumer_cursor <= Capacity

(* What a producer in the middle of a call knows: the grant begins after   *)
(* the producer cursor and reaches at most Capacity past the consumer's.   *)
GrantInv ==
  /\ ppc # "write" => p_next = producer_cursor + 1
  /\ ppc \in {"reload", "recheck", "write"} => (pop \notin BatchOps => pn = 1)
  /\ ppc = "write" =>
       /\ start = producer_cursor + 1
       /\ written <= pn
       /\ start + pn - 1 - Capacity <= consumer_cursor
       /\ p_next = IF pop \in BatchOps THEN start + pn ELSE start

(* What a consumer in the middle of a call knows: everything it is going   *)
(* to read is published.                                                   *)
TakeInv ==
  /\ cpc = "read" =>
       /\ cread <= ccount
       /\ c_next + ccount - 1 <= producer_cursor
  /\ cpc # "read" => cread = 0

(* The events published and not committed are intact in their slots, and   *)
(* so are the events of the grant that are already written.                *)
SlotInv ==
  /\ \A s \in c_next..producer_cursor : slots[Index(s)] = s
  /\ ppc = "write" =>
       \A s \in start..(start + written - 1) : slots[Index(s)] = s

(* The consumer has got 0, 1, 2, ... *)
DeliveryInv ==
  /\ Len(delivered) = c_next + (IF cop = "peek" THEN 0 ELSE cread)
  /\ \A i \in 1..Len(delivered) : delivered[i] = i - 1

(* The closed flag never falls back, and it is set before an endpoint is   *)
(* released and before anyone concludes that the peer is gone.             *)
CloseInv ==
  /\ closed_at <= producer_cursor
  /\ (p_disconnected \/ c_disconnected) => closed
  /\ ppc \in {"dropping", "dropped"} => closed
  /\ cpc \in {"dropping", "dropped", "final"} => closed
  /\ result = "recv_error" => closed /\ c_next > closed_at

(* Shared::drop has destroyed what was published and not consumed. *)
FreedInv ==
  (ppc = "dropped" /\ cpc = "dropped") =>
    /\ Len(freed) = producer_cursor - consumer_cursor
    /\ \A i \in 1..Len(freed) : freed[i] = consumer_cursor + i

IInv ==
  /\ TypeOK /\ CursorInv /\ GrantInv /\ TakeInv
  /\ SlotInv /\ DeliveryInv /\ CloseInv /\ FreedInv

(***************************************************************************)
(* Lemmas                                                                  *)
(***************************************************************************)

(* A sequence number is mapped into the ring. *)
LEMMA IndexInRing == ASSUME NEW s \in Int PROVE Index(s) \in 0..(Capacity - 1)
  BY CapacityAssumption DEF Index

(* Two different sequences less than Capacity apart use different slots. *)
LEMMA IndexInjective ==
  ASSUME NEW a \in Int, NEW b \in Int, a < b, b < a + Capacity
  PROVE  Index(a) # Index(b)
<1> SUFFICES ASSUME Index(a) = Index(b) PROVE FALSE
  OBVIOUS
<1> DEFINE k == (b \div Capacity) - (a \div Capacity)
<1>1. a = Capacity * (a \div Capacity) + Index(a)
  BY CapacityAssumption DEF Index
<1>2. b = Capacity * (b \div Capacity) + Index(b)
  BY CapacityAssumption DEF Index
<1>3. k \in Int /\ a \div Capacity \in Int /\ b \div Capacity \in Int
  BY CapacityAssumption
<1>4. b - a = Capacity * k
  BY <1>1, <1>2, <1>3, IndexInRing, CapacityAssumption
<1>5. k <= 0 => Capacity * k <= 0
  BY <1>3, CapacityAssumption
<1>6. k >= 1 => Capacity * k >= Capacity
  BY <1>3, CapacityAssumption
<1>7. QED
  BY <1>3, <1>4, <1>5, <1>6, CapacityAssumption

(***************************************************************************)
(* One lemma per action                                                    *)
(***************************************************************************)

(* The channel is created with the invariant. *)
LEMMA InitInv == Init => IInv
  BY CapacityAssumption, MaxEventsAssumption
  DEF Init, IInv, TypeOK, CursorInv, GrantInv, TakeInv, SlotInv, DeliveryInv,
      CloseInv, FreedInv, NoEvent, ProducerPlaces, ConsumerPlaces, Results,
      ProducerOps, ConsumerOps, BlockingSends, TrySends, BlockingRecvs, TryRecvs,
      BatchOps

(* A disconnect seen in the wait loop ends the call; nothing else is touched. *)
LEMMA RecheckInv ==
  ASSUME IInv, Recheck PROVE IInv'
  BY CapacityAssumption
  DEF Recheck, NoGrant, ProducerSeesDisconnect, ProducerPlaces, shared,
      cvars, observed, IInv, TypeOK, CursorInv, GrantInv, TakeInv, SlotInv,
      DeliveryInv, CloseInv, FreedInv

(* Publishing turns the written grant into published events. *)
LEMMA PublishInv ==
  ASSUME IInv, Publish PROVE IInv'
  BY CapacityAssumption
  DEF Publish, ProducerPlaces, cvars, observed, IInv, TypeOK, CursorInv,
      GrantInv, TakeInv, SlotInv, DeliveryInv, CloseInv, FreedInv

(* Closing records how much had been published. *)
LEMMA ProducerCloseInv ==
  ASSUME IInv, ProducerClose PROVE IInv'
<1>1. TypeOK' /\ CursorInv' /\ GrantInv' /\ TakeInv'
  BY CapacityAssumption
  DEF ProducerClose, StoreClosed, pvars, cvars, IInv, TypeOK, CursorInv, GrantInv, TakeInv
<1>2. SlotInv' /\ DeliveryInv' /\ CloseInv' /\ FreedInv'
  BY CapacityAssumption
  DEF ProducerClose, StoreClosed, pvars, cvars, IInv, TypeOK, CursorInv, SlotInv, DeliveryInv, CloseInv, FreedInv
<1>3. QED
  BY <1>1, <1>2 DEF IInv

(* Dropping the producer closes the channel; a claim is abandoned. *)
LEMMA ProducerDropInv ==
  ASSUME IInv, ProducerDrop PROVE IInv'
  BY CapacityAssumption
  DEF ProducerDrop, StoreClosed, ProducerBetweenCalls, ProducerPlaces, ClaimOps, BatchOps,
      cvars, IInv, TypeOK, CursorInv, GrantInv, TakeInv, SlotInv,
      DeliveryInv, CloseInv, FreedInv

(* The slot read holds the next event, so delivery stays in order. *)
LEMMA ReadSlotInv ==
  ASSUME IInv, ReadSlot PROVE IInv'
<1>1. slots[Index(c_next + cread)] = c_next + cread
  BY DEF IInv, TypeOK, TakeInv, SlotInv, ReadSlot
<1>2. TypeOK' /\ DeliveryInv'
  <2>1. CASE cop = "peek"
    BY <2>1 DEF IInv, TypeOK, DeliveryInv, ReadSlot, HandOver, shared, pvars
  <2>2. CASE cop # "peek"
    <3>1. /\ delivered' = Append(delivered, c_next + cread) /\ cread' = cread + 1
          /\ moved' \in Seq(Int) /\ polled' \subseteq Int
      BY <1>1, <2>2 DEF ReadSlot, HandOver, IInv, TypeOK
    <3>2. TypeOK'
      BY <3>1 DEF IInv, TypeOK, ReadSlot, shared, pvars
    <3>3. DeliveryInv'
      BY <2>2, <3>1 DEF IInv, TypeOK, DeliveryInv, ReadSlot
    <3>4. QED
      BY <3>2, <3>3
  <2>3. QED
    BY <2>1, <2>2
<1>3. CursorInv' /\ GrantInv' /\ TakeInv' /\ SlotInv' /\ CloseInv' /\ FreedInv'
  BY DEF IInv, TypeOK, CursorInv, GrantInv, TakeInv, SlotInv, CloseInv,
         FreedInv, ReadSlot, HandOver, shared, pvars
<1>4. QED
  BY <1>2, <1>3 DEF IInv

(* Committing moves the consumer past exactly what it took. *)
LEMMA CommitInv ==
  ASSUME IInv, Commit PROVE IInv'
<1>1. CASE cop = "peek"
  BY <1>1
  DEF Commit, ConsumerPlaces, Results, pvars, IInv, TypeOK, CursorInv, GrantInv,
      TakeInv, SlotInv, DeliveryInv, CloseInv, FreedInv
<1>2. CASE cop # "peek"
  <2>1. TypeOK' /\ CursorInv' /\ GrantInv' /\ TakeInv' /\ DeliveryInv'
    BY <1>2, CapacityAssumption
    DEF Commit, ConsumerPlaces, Results, pvars, IInv, TypeOK, CursorInv,
        GrantInv, TakeInv, DeliveryInv
  <2>2. SlotInv' /\ CloseInv' /\ FreedInv'
    BY <1>2
    DEF Commit, pvars, IInv, TypeOK, TakeInv, SlotInv, CloseInv, FreedInv
  <2>3. QED
    BY <2>1, <2>2 DEF IInv
<1>3. QED
  BY <1>1, <1>2

(* A consumer that concludes that the peer is gone has seen closed. *)
LEMMA CheckDisconnectInv ==
  ASSUME IInv, CheckDisconnect PROVE IInv'
  BY CapacityAssumption
  DEF CheckDisconnect, ConsumerSeesDisconnect, ConsumerPlaces, Results,
      shared, pvars, IInv, TypeOK, CursorInv, GrantInv, TakeInv, SlotInv,
      DeliveryInv, CloseInv, FreedInv

(* RecvError is returned only after a second look at the cursor. *)
LEMMA FinalCheckInv ==
  ASSUME IInv, FinalCheck PROVE IInv'
  BY CapacityAssumption
  DEF FinalCheck, ConsumerPlaces, Results, shared, pvars, IInv, TypeOK,
      CursorInv, GrantInv, TakeInv, SlotInv, DeliveryInv, CloseInv, FreedInv

(* The wait strategy only moves the consumer back to its load. *)
LEMMA WaitForInv ==
  ASSUME IInv, WaitFor PROVE IInv'
  BY CapacityAssumption
  DEF WaitFor, ConsumerPlaces, shared, pvars, observed, IInv, TypeOK,
      CursorInv, GrantInv, TakeInv, SlotInv, DeliveryInv, CloseInv, FreedInv

(* Closing from the consumer's side. *)
LEMMA ConsumerCloseInv ==
  ASSUME IInv, ConsumerClose PROVE IInv'
<1>1. TypeOK' /\ CursorInv' /\ GrantInv' /\ TakeInv'
  BY CapacityAssumption
  DEF ConsumerClose, StoreClosed, pvars, cvars, IInv, TypeOK, CursorInv, GrantInv, TakeInv
<1>2. SlotInv' /\ DeliveryInv' /\ CloseInv' /\ FreedInv'
  BY CapacityAssumption
  DEF ConsumerClose, StoreClosed, pvars, cvars, IInv, TypeOK, CursorInv, SlotInv, DeliveryInv, CloseInv, FreedInv
<1>3. QED
  BY <1>1, <1>2 DEF IInv

(* Dropping the consumer closes the channel. *)
LEMMA ConsumerDropInv ==
  ASSUME IInv, ConsumerDrop PROVE IInv'
  BY CapacityAssumption
  DEF ConsumerDrop, StoreClosed, ConsumerPlaces, pvars, IInv, TypeOK,
      CursorInv, GrantInv, TakeInv, SlotInv, DeliveryInv, CloseInv, FreedInv

(* A call that finds space in the cache gets a grant of free slots. *)
LEMMA BeginSendInv ==
  ASSUME IInv, NEW op \in ProducerOps, NEW n \in 1..Capacity, BeginSend(op, n)
  PROVE  IInv'
<1>1. TypeOK'
  BY CapacityAssumption, SMTT(30)
  DEF IInv, TypeOK, ProducerPlaces, BeginSend, Grant, NoGrant,
      ProducerSeesDisconnect, shared, cvars, observed
<1>2. CursorInv' /\ TakeInv' /\ DeliveryInv'
  BY DEF IInv, CursorInv, TakeInv, DeliveryInv, BeginSend, shared, cvars,
      observed
<1>3. GrantInv' /\ SlotInv'
  <2>1. CASE p_disconnected'
    BY <2>1
    DEF IInv, GrantInv, SlotInv, TypeOK, BeginSend, NoGrant, shared, cvars
  <2>2. CASE ~p_disconnected' /\ ppc' = "reload"
    BY <2>2
    DEF IInv, GrantInv, SlotInv, TypeOK, BeginSend, NoGrant, Grant, shared,
        cvars
  <2>3. CASE ~p_disconnected' /\ ppc' # "reload"
    BY <2>3, CapacityAssumption, SMTT(30)
    DEF IInv, GrantInv, SlotInv, CursorInv, TypeOK, BeginSend, Grant,
        WrapPoint, shared, cvars, BatchOps
  <2>4. QED
    BY <2>1, <2>2, <2>3
<1>4. CloseInv' /\ FreedInv'
  BY DEF IInv, CloseInv, FreedInv, TypeOK, BeginSend, Grant, NoGrant,
      ProducerSeesDisconnect, shared, cvars, observed
<1>5. QED
  BY <1>1, <1>2, <1>3, <1>4 DEF IInv

(* A call that finds space after the reload gets a grant of free slots. *)
LEMMA ReloadInv ==
  ASSUME IInv, Reload PROVE IInv'
<1>1. TypeOK'
  BY CapacityAssumption
  DEF IInv, TypeOK, ProducerPlaces, Reload, Grant, NoGrant, shared, cvars,
      observed
<1>2. CursorInv' /\ TakeInv' /\ DeliveryInv'
  BY DEF IInv, CursorInv, TakeInv, DeliveryInv, TypeOK, Reload, shared, cvars,
      observed
<1>3. GrantInv' /\ SlotInv'
  <2>1. CASE consumer_cursor >= WrapPoint(pn)
    BY <2>1, CapacityAssumption
    DEF IInv, GrantInv, SlotInv, CursorInv, TypeOK, Reload, Grant, WrapPoint,
        shared, cvars, BatchOps
  <2>2. CASE ~(consumer_cursor >= WrapPoint(pn))
    BY <2>2 DEF IInv, GrantInv, SlotInv, TypeOK, Reload, NoGrant, shared, cvars
  <2>4. QED
    BY <2>1, <2>2
<1>4. CloseInv' /\ FreedInv'
  BY DEF IInv, CloseInv, FreedInv, TypeOK, Reload, Grant, NoGrant, shared, cvars,
      observed
<1>5. QED
  BY <1>1, <1>2, <1>3, <1>4 DEF IInv

(* A store to the grant touches no slot that is published or already written. *)
LEMMA WriteSlotInv ==
  ASSUME IInv, WriteSlot PROVE IInv'
<1> DEFINE w == start + written
<1>0. w \in Int
  BY DEF IInv, TypeOK
<1>1. w \in Int /\ Index(w) \in 0..(Capacity - 1)
  BY <1>0, IndexInRing
<1>2. TypeOK'
  BY <1>1 DEF IInv, TypeOK, WriteSlot, cvars, observed
<1>3. /\ CursorInv' /\ GrantInv' /\ TakeInv'
      /\ DeliveryInv' /\ CloseInv' /\ FreedInv'
  BY DEF IInv, CursorInv, GrantInv, TakeInv, DeliveryInv, CloseInv, FreedInv,
         TypeOK, WriteSlot, cvars, observed
<1>4. ASSUME NEW s \in Int, s < w, w < s + Capacity
      PROVE  slots'[Index(s)] = slots[Index(s)]
  BY <1>1, <1>4, IndexInjective, IndexInRing DEF IInv, TypeOK, WriteSlot
<1>5. \A s \in c_next..producer_cursor : s < w /\ w < s + Capacity
  BY CapacityAssumption DEF IInv, TypeOK, WriteSlot, CursorInv, GrantInv
<1>6. \A s \in start..(w - 1) : s < w /\ w < s + Capacity
  BY CapacityAssumption DEF IInv, TypeOK, WriteSlot, GrantInv
<1>7. slots'[Index(w)] = w
  BY <1>1 DEF IInv, TypeOK, WriteSlot
<1>8. SlotInv'
  <2>1. \A s \in c_next'..producer_cursor' : slots'[Index(s)] = s
    BY <1>4, <1>5 DEF IInv, SlotInv, TypeOK, WriteSlot, cvars
  <2>2. \A s \in start'..(start' + written' - 1) : slots'[Index(s)] = s
    <3>1. start' = start /\ written' = written + 1 /\ start \in Nat /\ written \in Nat
          /\ \A s \in start..(w - 1) : slots[Index(s)] = s
      BY DEF IInv, SlotInv, TypeOK, WriteSlot
    <3>2. \A s \in start..w : s \in start..(w - 1) \/ s = w
      BY <3>1
    <3>3. \A s \in start..(w - 1) : slots'[Index(s)] = s
      BY <1>4, <1>6, <3>1
    <3>4. start' + written' - 1 = w
      BY <3>1
    <3>5. QED
      BY <1>7, <3>1, <3>2, <3>3, <3>4
  <2>3. QED
    BY <2>1, <2>2 DEF SlotInv, WriteSlot, Index
<1>9. QED
  BY <1>2, <1>3, <1>8 DEF IInv

(* A call takes no more than what it saw published. *)
LEMMA LoadInv ==
  ASSUME IInv, NEW op \in ConsumerOps, NEW limit \in 1..Capacity,
         Load(op, limit)
  PROVE  IInv'
<1>1. CASE producer_cursor >= c_next
  <2> DEFINE available == producer_cursor - c_next + 1
  <2>1. available \in Nat /\ available >= 1
    BY <1>1 DEF IInv, TypeOK
  <2>2. /\ Take(op, limit, available) \in Nat
        /\ Take(op, limit, available) <= available
    BY <2>1 DEF Take
  <2>3. ccount' = Take(op, limit, available) /\ cread' = 0 /\ cpc' = "read"
    BY <1>1 DEF Load
  <2> HIDE DEF available
  <2>4. TypeOK'
    BY <2>2, <2>3 DEF IInv, TypeOK, Load, ConsumerPlaces, Results, shared, pvars
  <2>5. c_next + ccount' - 1 <= producer_cursor
    BY <2>1, <2>2, <2>3 DEF available, IInv, TypeOK
  <2>6. CursorInv' /\ GrantInv' /\ TakeInv' /\ SlotInv' /\ CloseInv' /\ FreedInv'
    BY <2>2, <2>3, <2>5
    DEF IInv, TypeOK, CursorInv, GrantInv, TakeInv, SlotInv, CloseInv,
       FreedInv, Load, shared, pvars
  <2>7. DeliveryInv'
    BY <2>3 DEF IInv, TypeOK, TakeInv, DeliveryInv, Load
  <2>8. QED
    BY <2>4, <2>6, <2>7 DEF IInv
<1>2. CASE ~(producer_cursor >= c_next)
  <2>1. TypeOK'
    BY <1>2 DEF IInv, TypeOK, Load, ConsumerPlaces, Results, shared, pvars
  <2>2. CursorInv' /\ GrantInv' /\ TakeInv' /\ SlotInv' /\ CloseInv' /\ FreedInv'
    BY <1>2 DEF IInv, TypeOK, CursorInv, GrantInv, TakeInv, SlotInv, CloseInv,
       FreedInv, Load, shared, pvars
  <2>3. DeliveryInv'
    BY <1>2 DEF IInv, TypeOK, TakeInv, DeliveryInv, Load
  <2>4. QED
    BY <2>1, <2>2, <2>3 DEF IInv
<1>3. QED
  BY <1>1, <1>2

(* Shared::drop destroys the published and unconsumed events, each once. *)
LEMMA SharedDropFrees ==
  ASSUME IInv, SharedDrop
  PROVE  /\ freed' \in Seq(Int)
         /\ Len(freed') = producer_cursor - consumer_cursor
         /\ \A i \in 1..Len(freed') : freed'[i] = consumer_cursor + i
<1> DEFINE n == producer_cursor - consumer_cursor
<1>1. n \in Nat /\ consumer_cursor \in Int
  BY DEF IInv, TypeOK, CursorInv
<1>2. \A i \in 1..n : slots[Index(consumer_cursor + i)] = consumer_cursor + i
  BY <1>1 DEF IInv, TypeOK, CursorInv, SlotInv
<1>3. freed' = [i \in 1..n |-> consumer_cursor + i]
  BY <1>2 DEF SharedDrop
<1>4. QED
  BY <1>1, <1>3

(* The producer's release runs Shared::drop when the consumer has gone. *)
LEMMA ProducerReleaseInv ==
  ASSUME IInv, ProducerRelease PROVE IInv'
<1>1. CASE cpc = "dropped"
  BY <1>1, SharedDropFrees
  DEF IInv, TypeOK, CursorInv, GrantInv, TakeInv, SlotInv, DeliveryInv,
      CloseInv, FreedInv, ProducerRelease, shared, cvars, ProducerPlaces
<1>2. CASE cpc # "dropped"
  BY <1>2
  DEF IInv, TypeOK, CursorInv, GrantInv, TakeInv, SlotInv, DeliveryInv,
      CloseInv, FreedInv, ProducerRelease, shared, cvars, ProducerPlaces
<1>3. QED
  BY <1>1, <1>2

(* The consumer's release runs Shared::drop when the producer has gone. *)
LEMMA ConsumerReleaseInv ==
  ASSUME IInv, ConsumerRelease PROVE IInv'
<1>1. CASE ppc = "dropped"
  BY <1>1, SharedDropFrees
  DEF IInv, TypeOK, CursorInv, GrantInv, TakeInv, SlotInv, DeliveryInv,
      CloseInv, FreedInv, ConsumerRelease, shared, pvars, ConsumerPlaces
<1>2. CASE ppc # "dropped"
  BY <1>2
  DEF IInv, TypeOK, CursorInv, GrantInv, TakeInv, SlotInv, DeliveryInv,
      CloseInv, FreedInv, ConsumerRelease, shared, pvars, ConsumerPlaces
<1>3. QED
  BY <1>1, <1>2

(* Every step of either endpoint preserves the invariant. *)
LEMMA NextInv == IInv /\ [Next]_vars => IInv'
<1> SUFFICES ASSUME IInv, [Next]_vars PROVE IInv'
  OBVIOUS
<1>1. CASE ProducerStep
  BY <1>1, ReloadInv, RecheckInv, WriteSlotInv, PublishInv, ProducerReleaseInv
  DEF ProducerStep
<1>2. CASE ProducerCall
  BY <1>2, BeginSendInv, ProducerCloseInv, ProducerDropInv DEF ProducerCall
<1>3. CASE ConsumerStep
  <2>1. cop \in ConsumerOps /\ climit \in 1..Capacity
    BY DEF IInv, TypeOK
  <2>2. QED
    BY <1>3, <2>1, LoadInv, ReadSlotInv, CommitInv, CheckDisconnectInv,
       FinalCheckInv, WaitForInv, ConsumerReleaseInv
    DEF ConsumerStep
<1>4. CASE ConsumerCall
  BY <1>4, LoadInv, ConsumerCloseInv, ConsumerDropInv DEF ConsumerCall
<1>5. CASE UNCHANGED vars
  BY <1>5 DEF IInv, TypeOK, CursorInv, GrantInv, TakeInv, SlotInv, DeliveryInv,
              CloseInv, FreedInv, vars, shared, pvars, cvars, observed
<1>6. QED
  BY <1>1, <1>2, <1>3, <1>4, <1>5 DEF Next

(* The inductive invariant holds throughout, for every ring size. *)
THEOREM Invariance == Spec => []IInv
  BY InitInv, NextInv, PTL DEF Spec

(* Every field of Shared, Producer and Consumer keeps its type. *)
THEOREM TypeCorrect == Spec => []TypeOK
<1>1. IInv => TypeOK
  BY DEF IInv
<1>2. QED
  BY <1>1, Invariance, PTL

(* The producer never stores to a slot the consumer has yet to read: the
   `exclusive access' the unsafe blocks of send, claim and recv rely on. *)
THEOREM ExclusiveSlots == Spec => []NoSlotRace
<1>1. IInv => NoSlotRace
  <2> SUFFICES ASSUME IInv, ppc = "write", written < pn,
                      NEW s \in c_next..producer_cursor
               PROVE  Index(s) # Index(start + written)
    BY DEF NoSlotRace
  <2>1. s \in Int /\ start + written \in Int
    BY DEF IInv, TypeOK
  <2>2. s < start + written /\ start + written < s + Capacity
    BY CapacityAssumption DEF IInv, TypeOK, CursorInv, GrantInv
  <2>3. QED
    BY <2>1, <2>2, IndexInjective
<1>2. QED
  BY <1>1, Invariance, PTL

(* The consumer gets the published events in order, each exactly once,
   through any mix of single, batched, blocking and non-blocking calls. *)
THEOREM InOrderDelivery == Spec => []DeliveredInOrder
<1>1. IInv => DeliveredInOrder
  BY DEF IInv, TypeOK, CursorInv, TakeInv, DeliveryInv, DeliveredInOrder
<1>2. QED
  BY <1>1, Invariance, PTL

(* recv, recv_batch and recv_all return RecvError only when everything
   published before the close has been handed over. *)
THEOREM RecvErrorOnlyWhenDrained == Spec => []RecvErrorMeansDrained
<1>1. IInv => RecvErrorMeansDrained
  BY DEF IInv, CloseInv, RecvErrorMeansDrained
<1>2. QED
  BY <1>1, Invariance, PTL

(* Every event handed over is moved out, once, or was lent to poll. *)
MovedInv ==
  /\ \A i, j \in DOMAIN moved : moved[i] = moved[j] => i = j
  /\ \A i \in DOMAIN moved : moved[i] \in 0..(Len(delivered) - 1) /\ moved[i] \notin polled
  /\ polled \subseteq 0..(Len(delivered) - 1)
  /\ \A e \in 0..(Len(delivered) - 1) : e \in polled \/ \E i \in DOMAIN moved : moved[i] = e

(* Only ReadSlot hands events over. *)
LEMMA NothingMoves ==
  ASSUME [Next]_vars, ~ReadSlot
  PROVE  UNCHANGED <<delivered, moved, polled>>
<1>1. CASE ProducerStep
  BY <1>1 DEF ProducerStep, Reload, Recheck, WriteSlot, Publish, ProducerRelease, observed
<1>2. CASE ProducerCall
  BY <1>2 DEF ProducerCall, BeginSend, ProducerClose, ProducerDrop, observed
<1>3. CASE ConsumerStep
  BY <1>3 DEF ConsumerStep, Load, Commit, CheckDisconnect, FinalCheck, WaitFor,
              ConsumerRelease, observed
<1>4. CASE ConsumerCall
  BY <1>4 DEF ConsumerCall, Load, ConsumerClose, ConsumerDrop
<1>5. CASE UNCHANGED vars
  BY <1>5 DEF vars, observed
<1>6. QED
  BY <1>1, <1>2, <1>3, <1>4, <1>5 DEF Next

(* ReadSlot moves out, or lends, the first event not handed over yet. *)
LEMMA ReadSlotMoves ==
  ASSUME IInv, MovedInv, ReadSlot PROVE MovedInv'
<1>1. PICK e \in Nat : e = Len(delivered)
  BY DEF IInv, TypeOK
<1>2. CASE cop = "peek"
  BY <1>2 DEF ReadSlot, HandOver, MovedInv
<1>3. CASE cop # "peek"
  <2>1. slots[Index(c_next + cread)] = e
    BY <1>1, <1>3 DEF IInv, TypeOK, TakeInv, SlotInv, DeliveryInv, ReadSlot
  <2>2. /\ delivered' = Append(delivered, e)
        /\ moved' = (IF cop = "poll" THEN moved ELSE Append(moved, e))
        /\ polled' = (IF cop = "poll" THEN polled \cup {e} ELSE polled)
    BY <1>3, <2>1 DEF ReadSlot, HandOver
  <2>3. Len(delivered') = e + 1 /\ moved \in Seq(Int)
    BY <1>1, <2>2 DEF IInv, TypeOK
  <2>4. /\ \A i, j \in DOMAIN moved : moved[i] = moved[j] => i = j
        /\ \A i \in DOMAIN moved : moved[i] \in 0..(e - 1) /\ moved[i] \notin polled
        /\ polled \subseteq 0..(e - 1)
        /\ \A x \in 0..(e - 1) : x \in polled \/ \E i \in DOMAIN moved : moved[i] = x
    BY <1>1 DEF MovedInv
  <2>5. /\ 0..((e + 1) - 1) = (0..(e - 1)) \cup {e} /\ e \notin 0..(e - 1)
    OBVIOUS
  <2>6. CASE cop = "poll"
    BY <2>2, <2>3, <2>4, <2>5, <2>6 DEF MovedInv
  <2>7. CASE cop # "poll"
    <3>1. /\ moved' = Append(moved, e) /\ polled' = polled
          /\ DOMAIN moved' = DOMAIN moved \cup {Len(moved) + 1}
          /\ Len(moved) + 1 \notin DOMAIN moved /\ moved'[Len(moved) + 1] = e
          /\ \A i \in DOMAIN moved : moved'[i] = moved[i]
      BY <2>2, <2>3, <2>7
    <3>2. QED
      BY <2>3, <2>4, <2>5, <3>1 DEF MovedInv
  <2>8. QED
    BY <2>6, <2>7
<1>4. QED
  BY <1>2, <1>3

(* Two sequences without repetition and without a common element make one  *)
(* without repetition.                                                     *)
LEMMA ConcatOnce ==
  ASSUME NEW a \in Seq(Int), NEW b \in Seq(Int), IsInjective(a), IsInjective(b),
         Range(a) \cap Range(b) = {}
  PROVE  IsInjective(a \o b) /\ Range(a \o b) = Range(a) \cup Range(b)
<1>0. /\ \A i, j \in DOMAIN a : a[i] = a[j] => i = j
      /\ \A i, j \in DOMAIN b : b[i] = b[j] => i = j
      /\ \A i \in DOMAIN a, j \in DOMAIN b : a[i] # b[j]
  BY DEF IsInjective, Range
<1>1. PICK c : c = a \o b
  OBVIOUS
<1>2. PICK m \in Nat : m = Len(a)
  OBVIOUS
<1>3. PICK n \in Nat : n = Len(b)
  OBVIOUS
<1>4. /\ DOMAIN a = 1..m /\ DOMAIN b = 1..n /\ DOMAIN c = 1..(m + n)
      /\ \A i \in 1..(m + n) : /\ i <= m => c[i] = a[i] /\ i \in DOMAIN a
                               /\ ~(i <= m) => c[i] = b[i - m] /\ i - m \in DOMAIN b
  BY <1>1, <1>2, <1>3
<1>6. IsInjective(c)
  <2> SUFFICES ASSUME NEW i \in 1..(m + n), NEW j \in 1..(m + n), c[i] = c[j]
               PROVE  i = j
    BY <1>4 DEF IsInjective
  <2>1. CASE i <= m /\ j <= m
    BY <1>0, <1>4, <2>1
  <2>2. CASE ~(i <= m) /\ ~(j <= m)
    <3>1. i - m = j - m
      BY <1>0, <1>4, <2>2
    <3>2. QED
      BY <3>1
  <2>3. CASE i <= m /\ ~(j <= m)
    <3>1. c[i] = a[i] /\ i \in DOMAIN a /\ c[j] = b[j - m] /\ j - m \in DOMAIN b
      BY <1>4, <2>3
    <3>2. QED
      BY <1>0, <3>1
  <2>4. CASE ~(i <= m) /\ j <= m
    <3>1. c[i] = b[i - m] /\ i - m \in DOMAIN b /\ c[j] = a[j] /\ j \in DOMAIN a
      BY <1>4, <2>4
    <3>2. QED
      BY <1>0, <3>1
  <2>5. QED
    BY <2>1, <2>2, <2>3, <2>4
<1>7. \A i \in DOMAIN a : i \in DOMAIN c /\ c[i] = a[i]
  BY <1>4
<1>8. \A i \in DOMAIN b : m + i \in DOMAIN c /\ c[m + i] = b[i]
  <2> SUFFICES ASSUME NEW i \in 1..n PROVE m + i \in 1..(m + n) /\ c[m + i] = b[i]
    BY <1>4
  <2>1. m + i \in 1..(m + n) /\ ~(m + i <= m) /\ (m + i) - m = i
    OBVIOUS
  <2>2. QED
    BY <1>4, <2>1
<1>9. Range(c) = Range(a) \cup Range(b)
  <2>1. \A i \in DOMAIN c : (\E k \in DOMAIN a : c[i] = a[k]) \/ (\E k \in DOMAIN b : c[i] = b[k])
    BY <1>4
  <2>2. QED
    BY <1>7, <1>8, <2>1 DEF Range
<1>10. QED
  BY <1>1, <1>6, <1>9

(* When both endpoints are gone, every published event was moved out or
   destroyed by Shared::drop, exactly once, unless poll has lent it. *)
THEOREM EventsReleasedOnce == Spec => []ReleasedOnce
<1>1. IInv /\ MovedInv => ReleasedOnce
  <2> SUFFICES ASSUME IInv, MovedInv, ppc = "dropped", cpc = "dropped"
               PROVE  /\ IsInjective(Released)
                      /\ Range(Released) = (0..producer_cursor) \ polled
    BY DEF ReleasedOnce
  <2>1. PICK n \in Nat : n = Len(delivered)
    BY DEF IInv, TypeOK
  <2>2. /\ n = consumer_cursor + 1 /\ producer_cursor \in Int /\ n <= producer_cursor + 1
        /\ moved \in Seq(Int) /\ freed \in Seq(Int)
        /\ Len(freed) = producer_cursor + 1 - n
    BY <2>1 DEF IInv, TypeOK, CursorInv, TakeInv, DeliveryInv, FreedInv
  <2>3. /\ DOMAIN freed = 1..(producer_cursor + 1 - n)
        /\ \A i \in DOMAIN freed : freed[i] = n + i - 1
    BY <2>2 DEF IInv, TypeOK, FreedInv
  <2>4. /\ \A i, j \in DOMAIN moved : moved[i] = moved[j] => i = j
        /\ \A i \in DOMAIN moved : moved[i] \in 0..(n - 1) /\ moved[i] \notin polled
        /\ polled \subseteq 0..(n - 1)
        /\ \A e \in 0..(n - 1) : e \in polled \/ \E i \in DOMAIN moved : moved[i] = e
    BY <2>1 DEF MovedInv
  <2>5. IsInjective(moved) /\ Range(moved) = (0..(n - 1)) \ polled
    BY <2>4 DEF IsInjective, Range
  <2>6. Range(freed) = n..producer_cursor
    <3>1. \A e \in n..producer_cursor : e - n + 1 \in DOMAIN freed /\ freed[e - n + 1] = e
      BY <2>2, <2>3
    <3>2. \A i \in DOMAIN freed : freed[i] \in n..producer_cursor
      BY <2>2, <2>3
    <3>3. QED
      BY <3>1, <3>2 DEF Range
  <2>7. IsInjective(freed)
    BY <2>2, <2>3 DEF IsInjective
  <2>8. Range(moved) \cap Range(freed) = {}
    BY <2>2, <2>5, <2>6
  <2>9. ((0..(n - 1)) \ polled) \cup (n..producer_cursor) = (0..producer_cursor) \ polled
    BY <2>2, <2>4
  <2>10. IsInjective(moved \o freed) /\ Range(moved \o freed) = Range(moved) \cup Range(freed)
    BY <2>2, <2>5, <2>7, <2>8, ConcatOnce
  <2>11. QED
    BY <2>5, <2>6, <2>9, <2>10, Zenon DEF Released
<1>2. Init => MovedInv
  BY DEF Init, MovedInv
<1>3. IInv /\ MovedInv /\ [Next]_vars => MovedInv'
  BY NothingMoves, ReadSlotMoves DEF MovedInv
<1>4. QED
  BY <1>1, <1>2, <1>3, Invariance, PTL DEF Spec

(***************************************************************************)
(* Refinement                                                              *)
(***************************************************************************)

(* The sequence a, a + 1, ..., a + n - 1. *)
Run(a, n) == [i \in 1..n |-> a + i - 1]

(* Two adjacent runs make one. *)
LEMMA RunConcat ==
  ASSUME NEW a \in Int, NEW m \in Nat, NEW n \in Nat
  PROVE  Run(a, m) \o Run(a + m, n) = Run(a, m + n)
<1>1. Run(a, m) \in Seq(Int) /\ Len(Run(a, m)) = m
  BY DEF Run
<1>2. Run(a + m, n) \in Seq(Int) /\ Len(Run(a + m, n)) = n
  BY DEF Run
<1>3. Run(a, m + n) \in Seq(Int) /\ Len(Run(a, m + n)) = m + n
  BY DEF Run
<1>4. QED
  BY <1>1, <1>2, <1>3 DEF Run

(* The head of a run is its first element and its tail the rest of it. *)
LEMMA RunTail ==
  ASSUME NEW a \in Int, NEW n \in Nat, n > 0
  PROVE  /\ Run(a, n) # <<>>
         /\ Head(Run(a, n)) = a
         /\ Tail(Run(a, n)) = Run(a + 1, n - 1)
<1>1. Run(a, n) \in Seq(Int) /\ Len(Run(a, n)) = n
  BY DEF Run
<1>2. Run(a, n) # <<>> /\ Head(Run(a, n)) = a
  BY <1>1 DEF Run
<1>3. Tail(Run(a, n)) = Run(a + 1, n - 1)
  BY <1>1 DEF Run
<1>4. QED
  BY <1>2, <1>3

(* Number of events accepted by the queue and not yet delivered. *)
Pending == producer_cursor + 1 - Len(delivered)

(* The part of the ring that Queue sees as its queue. *)
QueueSlots == [i \in 1..Pending |-> slots[Index(Len(delivered) + i - 1)]]

(* The ring holds the events after those delivered, in order. *)
QueueInOrder ==
  /\ Len(delivered) \in Nat
  /\ Pending \in Nat
  /\ QueueSlots = Run(Len(delivered), Pending)

(* QueueInOrder follows from the invariant. *)
LEMMA QueueView == IInv => QueueInOrder
<1> SUFFICES ASSUME IInv PROVE QueueInOrder
  OBVIOUS
<1>1. /\ Len(delivered) \in Nat /\ Pending \in Nat
      /\ c_next <= Len(delivered) /\ c_next \in Nat
  BY DEF IInv, TypeOK, CursorInv, TakeInv, DeliveryInv, Pending
<1>2. \A i \in 1..Pending :
        slots[Index(Len(delivered) + i - 1)] = Len(delivered) + i - 1
  BY <1>1 DEF IInv, TypeOK, SlotInv, Pending
<1>3. QED
  BY <1>1, <1>2 DEF QueueInOrder, QueueSlots, Run

(* A publication is an Accept of the abstract queue. *)
LEMMA PublishAccepts ==
  ASSUME IInv, IInv', Publish, QueueInOrder'
  PROVE  Queue!Accept(pn) /\ pn \in 1..Capacity
<1>1. /\ pn \in 1..Capacity /\ pn \in Nat
      /\ producer_cursor' = producer_cursor + pn
      /\ delivered' = delivered
      /\ producer_cursor \in Int
  BY CapacityAssumption DEF Publish, IInv, TypeOK, GrantInv, observed
<1>2. Len(delivered) \in Nat /\ Pending \in Nat
      /\ QueueSlots = Run(Len(delivered), Pending)
  BY QueueView DEF QueueInOrder
<1>3. Pending' = Pending + pn /\ producer_cursor + 1 = Len(delivered) + Pending
  BY <1>1, <1>2 DEF Pending
<1>4. QueueSlots' = QueueSlots \o Run(producer_cursor + 1, pn)
  <2>1. Run(Len(delivered), Pending) \o Run(Len(delivered) + Pending, pn)
          = Run(Len(delivered), Pending + pn)
    <3>1. Len(delivered) \in Int
      BY <1>2
    <3>2. QED
      BY <1>1, <1>2, <3>1, RunConcat, Zenon
  <2>2. QueueSlots' = Run(Len(delivered), Pending + pn)
    BY <1>1, <1>3, Zenon DEF QueueInOrder
  <2>3. QED
    BY <1>2, <1>3, <2>1, <2>2, Zenon
<1>5. Len(QueueSlots) + pn <= Capacity
  <2>1. Len(QueueSlots) = Pending
    BY <1>2 DEF Run
  <2>2. Pending + pn <= Capacity
    BY <1>1, CapacityAssumption
    DEF Publish, IInv, TypeOK, CursorInv, GrantInv, TakeInv, DeliveryInv, Pending
  <2>3. QED
    BY <2>1, <2>2
<1>6. (producer_cursor + 1)' = producer_cursor + 1 + pn
  BY <1>1
<1>7. QED
  BY <1>1, <1>4, <1>5, <1>6, Zenon DEF Queue!Accept, QueueSlots, Pending, Run

(* Reading a slot is a Deliver, unless it is a peek. *)
LEMMA ReadSlotDelivers ==
  ASSUME IInv, IInv', ReadSlot, cop # "peek", QueueInOrder'
  PROVE  Queue!Deliver
<1>1. Len(delivered) \in Nat /\ Pending \in Nat
      /\ QueueSlots = Run(Len(delivered), Pending)
  BY QueueView DEF QueueInOrder
<1>2. /\ producer_cursor \in Int /\ producer_cursor' = producer_cursor
      /\ delivered \in Seq(Int)
      /\ Len(delivered) = c_next + cread
      /\ Len(delivered) <= producer_cursor
      /\ slots[Index(c_next + cread)] = c_next + cread
  BY SMTT(30) DEF ReadSlot, shared, IInv, TypeOK, TakeInv, DeliveryInv, SlotInv
<1>3. delivered' = Append(delivered, Len(delivered))
  BY <1>2 DEF ReadSlot, HandOver
<1>4. Len(delivered') = Len(delivered) + 1
  BY <1>2, <1>3
<1>5. Pending > 0 /\ Pending' = Pending - 1
  BY <1>1, <1>2, <1>4 DEF Pending
<1>6. /\ QueueSlots # <<>>
      /\ Head(QueueSlots) = Len(delivered)
      /\ Tail(QueueSlots) = QueueSlots'
  <2>1. /\ Run(Len(delivered), Pending) # <<>>
        /\ Head(Run(Len(delivered), Pending)) = Len(delivered)
        /\ Tail(Run(Len(delivered), Pending)) = Run(Len(delivered) + 1, Pending - 1)
    <3>1. Len(delivered) \in Int
      BY <1>1
    <3>2. QED
      BY <1>1, <1>5, <3>1, RunTail, Zenon
  <2>2. QueueSlots' = Run(Len(delivered) + 1, Pending - 1)
    BY <1>4, <1>5, Zenon DEF QueueInOrder
  <2>3. QED
    BY <1>1, <2>1, <2>2, Zenon
<1>7. QED
  BY <1>2, <1>3, <1>6 DEF Queue!Deliver, QueueSlots, Pending

(* Every other step leaves what the abstract queue sees alone. *)
LEMMA OthersStutter ==
  ASSUME IInv, [Next]_vars, ~Publish, ~ReadSlot
  PROVE  producer_cursor' = producer_cursor /\ delivered' = delivered
<1>1. CASE ProducerStep
  BY <1>1 DEF ProducerStep, Reload, Recheck, WriteSlot, ProducerRelease,
              shared, observed
<1>2. CASE ProducerCall
  BY <1>2
  DEF ProducerCall, BeginSend, ProducerClose, ProducerDrop, shared, observed
<1>3. CASE ConsumerStep
  BY <1>3 DEF ConsumerStep, Load, Commit, CheckDisconnect, FinalCheck, WaitFor,
              ConsumerRelease, shared, observed
<1>4. CASE ConsumerCall
  BY <1>4 DEF ConsumerCall, Load, ConsumerClose, ConsumerDrop, shared, observed
<1>5. CASE UNCHANGED vars
  BY <1>5 DEF vars, shared, observed
<1>6. QED
  BY <1>1, <1>2, <1>3, <1>4, <1>5 DEF Next

(* The channel implements the bounded FIFO queue EventQueue. *)
THEOREM Refinement == Spec => ImplementsQueue
<1>1. Init => Queue!Init
  BY DEF Init, Queue!Init
<1>2. IInv' => QueueInOrder'
  BY QueueView, PTL
<1>3. IInv /\ IInv' /\ [Next]_vars => [Queue!Next]_Queue!qvars
  <2> SUFFICES ASSUME IInv, IInv', [Next]_vars PROVE [Queue!Next]_Queue!qvars
    OBVIOUS
  <2>1. CASE Publish
    BY <1>2, <2>1, PublishAccepts DEF Queue!Next
  <2>2. CASE ReadSlot /\ cop # "peek"
    BY <1>2, <2>2, ReadSlotDelivers DEF Queue!Next
  <2>3. CASE ~Publish /\ ~(ReadSlot /\ cop # "peek")
    <3>1. producer_cursor' = producer_cursor /\ delivered' = delivered
      BY <2>3, OthersStutter DEF ReadSlot, HandOver, shared
    <3>2. QueueSlots' = QueueSlots
      BY <1>2, <3>1, QueueView DEF Pending, QueueInOrder
    <3>3. QED
      BY <3>1, <3>2 DEF Queue!qvars, QueueSlots, Pending
  <2>4. QED
    BY <2>1, <2>2, <2>3
<1>4. QED
  BY <1>1, <1>3, Invariance, PTL DEF Spec, ImplementsQueue, Queue!Spec
=============================================================================

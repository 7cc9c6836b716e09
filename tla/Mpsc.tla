-------------------------------- MODULE Mpsc --------------------------------
(***************************************************************************)
(* The multi-producer single-consumer channel of land_channel              *)
(* (channel/src/mpsc).  Producers claim sequences from a shared cursor,    *)
(* write their slots and flip one bit per slot in an availability bitmap;  *)
(* the consumer has no cursor of published events to read and scans the    *)
(* bitmap instead.  A bit says `published' by agreeing with the parity of  *)
(* the round (the sequence divided by the capacity).                       *)
(*                                                                         *)
(* Every atomic access of the claim cursor, the consumer cursor, a bitmap  *)
(* word or the closed flag is a step, with these exceptions: accesses to   *)
(* slots are one step per call, because NoSlotRace says nobody else may    *)
(* touch them meanwhile; the two loads of a try claim are one step,        *)
(* because a claim that changes between them fails the compare_exchange.   *)
(*                                                                         *)
(* The event written under sequence s is named s.                          *)
(***************************************************************************)
EXTENDS Integers, Sequences, FiniteSets, Functions

CONSTANTS
  Producers,     \* producer handles, each used by one thread
  First,         \* the handle that channel() returns
  Capacity,      \* number of slots of the ring
  BitsPerWord,   \* BITS_PER_WORD, 64 in the code
  BatchSizes,    \* sizes of the batches claimed and of the output slices
  CasRetries,    \* attempts of a try claim, 8 in the code
  MaxEvents,     \* bound of the model: sequences that may be claimed
  ClosingCalls   \* whether the application calls close() itself

ASSUME ProducersAssumption == First \in Producers
ASSUME CapacityAssumption ==
  Capacity \in Nat \ {0} /\ BitsPerWord \in Nat \ {0}
ASSUME BatchAssumption == BatchSizes \subseteq 1..Capacity
ASSUME BoundAssumption ==
  CasRetries \in Nat \ {0} /\ MaxEvents \in Nat /\ ClosingCalls \in BOOLEAN

VARIABLES
  (* Shared<T> *)
  slots,
  claim_cursor,      \* last claimed sequence
  consumer_cursor,   \* last consumed sequence
  availability,      \* the bitmap
  producer_count,
  closed,
  (* Producer<T>: one entry per handle *)
  ppc,               \* where the handle is
  call,              \* the call it is executing, a record of ProducerCalls
  (* Consumer<T, W> *)
  cpc,
  ccall,             \* the call it is executing, a record of ConsumerCalls
  c_next,            \* next_sequence
  (* observations, not part of the program *)
  published,         \* sequences marked published
  delivered,         \* events handed over by the receiving calls, in order
  moved,             \* those of them moved out of their slots, in order
  polled,            \* those handed to the callback of poll, which stay there
  result,            \* what the last consumer call returned
  closer,            \* who set closed first
  closed_pub,        \* sequences published at that moment
  leaked,            \* sequences claimed and given up
  freed              \* events destroyed by Shared::drop, in order

shared ==
  <<slots, claim_cursor, consumer_cursor, availability, producer_count, closed>>
cvars == <<cpc, ccall, c_next>>
observed ==
  <<published, delivered, moved, polled, result, closer, closed_pub, leaked, freed>>
vars == <<shared, ppc, call, cvars, observed>>

NoEvent == -1

BlockingSends == {"send", "claim_batch"}
TrySends == {"try_send", "try_claim_batch"}
BatchSends == {"claim_batch", "try_claim_batch"}
ProducerOps == BlockingSends \cup TrySends

SingleRecvs == {"recv", "try_recv", "peek"}
BatchRecvs == {"recv_batch", "try_recv_batch", "poll"}
BlockingRecvs == {"recv", "recv_batch"}
ConsumerOps == SingleRecvs \cup BatchRecvs

(* The locals of a producer's call: the number of sequences it asks for,   *)
(* the first of them (or the one a compare_exchange hopes for), how many   *)
(* are marked published, the attempts left.                                *)
ProducerCalls ==
  [op : ProducerOps, n : 1..Capacity, start : Nat, done : 0..Capacity,
   tries : 0..CasRetries]

(* The locals of a consumer's call: the length of the output slice, the    *)
(* claim cursor loaded by highest_published and the sequence its scan has  *)
(* reached, the events to take and those taken.                            *)
ConsumerCalls ==
  [op : ConsumerOps, limit : 1..Capacity, claim : Int, scan : Nat,
   count : Nat, read : Nat]

(* An endpoint between calls. *)
NoSend == [op |-> "send", n |-> 1, start |-> 0, done |-> 0, tries |-> 0]
NoRecv ==
  [op |-> "recv", limit |-> 1, claim |-> -1, scan |-> 0, count |-> 0, read |-> 0]

Index(s) == s % Capacity

(***************************************************************************)
(* The availability bitmap                                                 *)
(***************************************************************************)
availability_words == (Capacity + BitsPerWord - 1) \div BitsPerWord

Words == 0..(availability_words - 1)
Bits == 0..(BitsPerWord - 1)

word_index(s) == (s \div BitsPerWord) % availability_words
bit_index(s) == s % BitsPerWord

(* The bit a published sequence shows, and the pattern of a whole word.    *)
expected_bit(s) == (s \div Capacity) % 2

is_published(s) == availability[word_index(s)][bit_index(s)] = expected_bit(s)

(* fetch_xor of the bits of a set of sequences of one word. *)
Flip(w, seqs) ==
  availability' = [availability EXCEPT ![w] =
    [b \in Bits |-> IF b \in {bit_index(s) : s \in seqs}
                      THEN 1 - availability[w][b] ELSE availability[w][b]]]

(* create_shared, channel_with_wait, channel_with_factory.  All bits are 1 *)
(* so that nothing of round 0 is published.                                *)
Init ==
  /\ slots = [i \in 0..(Capacity - 1) |-> NoEvent]
  /\ claim_cursor = -1 /\ consumer_cursor = -1
  /\ availability = [w \in Words |-> [b \in Bits |-> 1]]
  /\ producer_count = 1 /\ closed = FALSE
  /\ ppc = [p \in Producers |-> IF p = First THEN "idle" ELSE "unborn"]
  /\ call = [p \in Producers |-> NoSend]
  /\ cpc = "idle" /\ ccall = NoRecv /\ c_next = 0
  /\ published = {} /\ delivered = <<>> /\ moved = <<>> /\ polled = {} /\ result = "none"
  /\ closer = "none" /\ closed_pub = {} /\ leaked = {} /\ freed = <<>>

(***************************************************************************)
(* Producers                                                               *)
(***************************************************************************)
Live == {p \in Producers : ppc[p] \notin {"unborn", "dropped"}}

(* Producer::is_disconnected.  The second disjunct needs a live producer   *)
(* that is not counted.                                                    *)
ProducerSeesDisconnect == closed \/ (producer_count = 0 /\ cpc = "dropped")

(* The sequences a call has claimed and not yet marked published. *)
Claimed(p) ==
  IF ppc[p] \in {"space", "recheck", "write", "publish"}
    THEN (call[p].start + call[p].done)..(call[p].start + call[p].n - 1)
    ELSE {}

Goto(p, place) == ppc' = [ppc EXCEPT ![p] = place]

(* The call of p returns. *)
Return(p) == Goto(p, "idle") /\ call' = [call EXCEPT ![p] = NoSend]

(* send, try_send, claim_batch, try_claim_batch: the disconnect check. *)
BeginSend(p, op, n) ==
  /\ ppc[p] = "idle"
  /\ n \in IF op \in BatchSends THEN BatchSizes ELSE {1}
  /\ ~ProducerSeesDisconnect
  /\ Goto(p, IF op \in BlockingSends THEN "claim" ELSE "try")
  /\ call' = [call EXCEPT ![p] =
       [NoSend EXCEPT !.op = op, !.n = n,
                      !.tries = IF op \in TrySends THEN CasRetries ELSE 0]]
  /\ UNCHANGED <<shared, cvars, observed>>

(* Cursor::increment and Cursor::add of the blocking calls: the sequences  *)
(* are claimed before there is space for them.                             *)
FetchAdd(p) ==
  /\ ppc[p] = "claim"
  /\ claim_cursor + call[p].n < MaxEvents
  /\ claim_cursor' = claim_cursor + call[p].n
  /\ call' = [call EXCEPT ![p].start = claim_cursor + 1]
  /\ Goto(p, "space")
  /\ UNCHANGED <<slots, consumer_cursor, availability, producer_count, closed,
                 cvars, observed>>

(* Variant of WrapPoint, for mutation: the first sequence of a batch is    *)
(* compared instead of the last.                                           *)
WrapPointFirst(start, n) == start - Capacity

(* The consumer cursor that a claim of n sequences has to see. *)
WrapPoint(start, n) == start + n - 1 - Capacity

(* The wait for space of send and claim_batch. *)
WaitSpace(p) ==
  /\ ppc[p] = "space"
  /\ Goto(p, IF consumer_cursor >= WrapPoint(call[p].start, call[p].n)
               THEN "write" ELSE "recheck")
  /\ UNCHANGED <<shared, call, cvars, observed>>

(* Variant of Recheck, for mutation: the wait ignores the closed flag. *)
RecheckIgnoresClosed(p) ==
  /\ ppc[p] = "recheck"
  /\ Goto(p, "space")
  /\ UNCHANGED <<shared, call, cvars, observed>>

(* The disconnect check in the wait: the call fails and what it claimed is *)
(* leaked.                                                                 *)
Recheck(p) ==
  /\ ppc[p] = "recheck"
  /\ IF ProducerSeesDisconnect
       THEN Return(p) /\ leaked' = leaked \cup Claimed(p)
       ELSE Goto(p, "space") /\ UNCHANGED <<call, leaked>>
  /\ UNCHANGED <<shared, cvars,
                 published, delivered, moved, polled, result, closer, closed_pub, freed>>

(* The loads of try_claim_sequence and try_claim_batch; Full if no space. *)
TryLoad(p) ==
  /\ ppc[p] = "try"
  /\ claim_cursor + call[p].n < MaxEvents
  /\ IF consumer_cursor >= WrapPoint(claim_cursor + 1, call[p].n)
       THEN /\ Goto(p, "cas")
            /\ call' = [call EXCEPT ![p].start = claim_cursor + 1]
       ELSE Return(p)
  /\ UNCHANGED <<shared, cvars, observed>>

(* Their compare_exchange; Full after the last attempt. *)
TryCas(p) ==
  /\ ppc[p] = "cas"
  /\ \/ /\ claim_cursor = call[p].start - 1
        /\ claim_cursor' = claim_cursor + call[p].n
        /\ Goto(p, "write")
        /\ UNCHANGED call
     \/ /\ claim_cursor # call[p].start - 1
        /\ IF call[p].tries > 1
             THEN Goto(p, "try") /\ call' = [call EXCEPT ![p].tries = call[p].tries - 1]
             ELSE Return(p)
        /\ UNCHANGED claim_cursor
  /\ UNCHANGED <<slots, consumer_cursor, availability, producer_count, closed,
                 cvars, observed>>

(* The claimed slots are filled: buffer.write, or the stores through the   *)
(* references of MpscBatchSlots::get_mut.                                  *)
WriteSlots(p) ==
  /\ ppc[p] = "write"
  /\ slots' = [i \in DOMAIN slots |->
                 IF \E s \in Claimed(p) : Index(s) = i
                   THEN CHOOSE s \in Claimed(p) : Index(s) = i
                   ELSE slots[i]]
  /\ Goto(p, "publish")
  /\ UNCHANGED <<claim_cursor, consumer_cursor, availability, producer_count,
                 closed, call, cvars, observed>>

(* The sequences of the claim that the next fetch_xor covers: those that   *)
(* follow each other in one word.                                          *)
WordRun(p) ==
  LET first == call[p].start + call[p].done
  IN  {s \in Claimed(p) : \A t \in first..s : word_index(t) = word_index(first)}

(* Variant of PublishWord, for mutation: the bits may be flipped before    *)
(* the slots are written.                                                  *)
PublishBeforeWrite(p) ==
  /\ ppc[p] \in {"write", "publish"}
  /\ Flip(word_index(call[p].start + call[p].done), WordRun(p))
  /\ published' = published \cup WordRun(p)
  /\ IF WordRun(p) = Claimed(p)
       THEN Return(p)
       ELSE /\ call' = [call EXCEPT ![p].done = call[p].done + Cardinality(WordRun(p))]
            /\ UNCHANGED ppc
  /\ UNCHANGED <<slots, claim_cursor, consumer_cursor, producer_count, closed,
                 cvars, delivered, moved, polled, result, closer, closed_pub,
                 leaked, freed>>

(* mark_published, and one round of mark_published_batch: a call returns   *)
(* once every word of its claim is flipped.                                *)
PublishWord(p) ==
  /\ ppc[p] = "publish"
  /\ Flip(word_index(call[p].start + call[p].done), WordRun(p))
  /\ published' = published \cup WordRun(p)
  /\ IF WordRun(p) = Claimed(p)
       THEN Return(p)
       ELSE /\ call' = [call EXCEPT ![p].done = call[p].done + Cardinality(WordRun(p))]
            /\ UNCHANGED ppc
  /\ UNCHANGED <<slots, claim_cursor, consumer_cursor, producer_count, closed,
                 cvars, delivered, moved, polled, result, closer, closed_pub,
                 leaked, freed>>

StoreClosed(who) ==
  /\ closed' = TRUE
  /\ closer' = IF closed THEN closer ELSE who
  /\ closed_pub' = IF closed THEN closed_pub ELSE published

(* Producer::close *)
ProducerClose(p) ==
  /\ ClosingCalls
  /\ ppc[p] = "idle"
  /\ StoreClosed("close")
  /\ UNCHANGED <<slots, claim_cursor, consumer_cursor, availability,
                 producer_count, ppc, call, cvars,
                 published, delivered, moved, polled, result, leaked, freed>>

(* Clone for Producer *)
Clone(p, q) ==
  /\ ppc[p] = "idle" /\ ppc[q] = "unborn"
  /\ producer_count' = producer_count + 1
  /\ Goto(q, "idle")
  /\ UNCHANGED <<slots, claim_cursor, consumer_cursor, availability, closed,
                 call, cvars, observed>>

(* Variant of SharedDrop, for mutation: the bitmap is not consulted and    *)
(* the range starts at the consumed sequence.                              *)
SharedDropOffByOne ==
  LET first == IF consumer_cursor = -1 THEN 0 ELSE consumer_cursor
  IN  freed' = [i \in 1..(claim_cursor - first + 1) |-> slots[Index(first + i - 1)]]

(* Drop for Shared: the events that is_published reports between the two   *)
(* cursors are destroyed.                                                  *)
SharedDrop ==
  LET doomed == {s \in (consumer_cursor + 1)..claim_cursor : is_published(s)}
      nth(i) == CHOOSE s \in doomed : Cardinality({t \in doomed : t < s}) = i - 1
  IN  freed' = [i \in 1..Cardinality(doomed) |-> slots[Index(nth(i))]]

(* Drop for Producer, and the release of its Arc.  The last producer       *)
(* closes the channel.                                                     *)
ProducerDrop(p) ==
  /\ ppc[p] = "idle"
  /\ producer_count' = producer_count - 1
  /\ IF producer_count = 1 THEN StoreClosed("last_drop")
                           ELSE UNCHANGED <<closed, closer, closed_pub>>
  /\ Goto(p, "dropped")
  /\ IF Live = {p} /\ cpc = "dropped" THEN SharedDrop ELSE UNCHANGED freed
  /\ UNCHANGED <<slots, claim_cursor, consumer_cursor, availability,
                 call, cvars, published, delivered, moved, polled, result, leaked>>

(***************************************************************************)
(* Consumer                                                                *)
(***************************************************************************)

(* The call of the consumer returns r. *)
ReturnRecv(r) == cpc' = "idle" /\ ccall' = NoRecv /\ result' = r

(* How many of the available events a call takes. *)
Take(op, limit, available) ==
  CASE op = "poll" -> available
    [] op \in {"recv_batch", "try_recv_batch"} ->
         IF limit < available THEN limit ELSE available
    [] OTHER -> 1

(* recv, try_recv and peek begin with a look at the bit of the next        *)
(* sequence, and recv repeats it.                                          *)
Look(op) ==
  /\ cpc = "idle" \/ (cpc = "look" /\ op = ccall.op)
  /\ LET hit == is_published(c_next)
     IN  /\ cpc' = IF hit THEN "read" ELSE "check"
         /\ ccall' = [NoRecv EXCEPT !.op = op, !.count = IF hit THEN 1 ELSE 0]
  /\ result' = "none"
  /\ UNCHANGED <<shared, ppc, call, c_next,
                 published, delivered, moved, polled, closer, closed_pub, leaked, freed>>

(* What the batch call c does with the result of highest_published. *)
Found(c, highest) ==
  IF highest >= c_next
    THEN /\ cpc' = "read"
         /\ ccall' = [c EXCEPT !.count = Take(c.op, c.limit, highest - c_next + 1)]
         /\ result' = "none"
    ELSE IF c.op = "poll"
           THEN ReturnRecv("ok")
           ELSE cpc' = "check" /\ ccall' = c /\ result' = "none"

(* recv_batch, try_recv_batch and poll begin with highest_published, and   *)
(* recv_batch repeats it: the load of the claim cursor.                    *)
ScanBegin(op, limit) ==
  /\ cpc = "idle" \/ (cpc = "again" /\ op = ccall.op /\ limit = ccall.limit)
  /\ LET c == [NoRecv EXCEPT !.op = op, !.limit = limit, !.claim = claim_cursor,
                             !.scan = c_next]
     IN  IF c_next > claim_cursor
           THEN Found(c, c_next - 1)
           ELSE cpc' = "scan" /\ ccall' = c /\ result' = "none"
  /\ UNCHANGED <<shared, ppc, call, c_next,
                 published, delivered, moved, polled, closer, closed_pub, leaked, freed>>

(* Bits of the word of sequence s, from s on, that differ from the pattern *)
(* of its round.                                                           *)
Mismatches(s) ==
  {b \in bit_index(s)..(BitsPerWord - 1) :
     availability[word_index(s)][b] # expected_bit(s)}

(* The sequence the scan stops at, or goes on with in the next word. *)
Advance(s) ==
  IF Mismatches(s) = {}
    THEN s + BitsPerWord - bit_index(s)
    ELSE s - bit_index(s)
           + CHOOSE b \in Mismatches(s) : \A c \in Mismatches(s) : b <= c

(* highest_published: one word of the scan. *)
ScanWord ==
  /\ cpc = "scan"
  /\ LET next == Advance(ccall.scan)
     IN  IF Mismatches(ccall.scan) # {} \/ next > ccall.claim
           THEN Found(ccall, next - 1)
           ELSE ccall' = [ccall EXCEPT !.scan = next] /\ UNCHANGED <<cpc, result>>
  /\ UNCHANGED <<shared, ppc, call, c_next,
                 published, delivered, moved, polled, closer, closed_pub, leaked, freed>>

(* An event is handed over.  buffer.read moves it out of its slot, so that *)
(* the caller destroys it; poll passes a reference to its callback and     *)
(* leaves the event in the slot.  peek hands over nothing.                 *)
HandOver(e) ==
  /\ delivered' = IF ccall.op = "peek" THEN delivered ELSE Append(delivered, e)
  /\ moved' = IF ccall.op \in {"peek", "poll"} THEN moved ELSE Append(moved, e)
  /\ polled' = IF ccall.op = "poll" THEN polled \cup {e} ELSE polled

(* One event of the call is read from the ring. *)
ReadSlot ==
  /\ cpc = "read" /\ ccall.read < ccall.count
  /\ ccall' = [ccall EXCEPT !.read = @ + 1]
  /\ HandOver(slots[Index(c_next + ccall.read)])
  /\ UNCHANGED <<shared, ppc, call, cpc, c_next,
                 published, result, closer, closed_pub, leaked, freed>>

(* The consumer cursor is stored once for everything the call took. *)
Commit ==
  /\ cpc = "read" /\ ccall.read = ccall.count
  /\ IF ccall.op = "peek"
       THEN UNCHANGED <<consumer_cursor, c_next>>
       ELSE /\ consumer_cursor' = c_next + ccall.count - 1
            /\ c_next' = c_next + ccall.count
  /\ ReturnRecv("ok")
  /\ UNCHANGED <<slots, claim_cursor, availability, producer_count, closed,
                 ppc, call, published, delivered, moved, polled, closer, closed_pub,
                 leaked, freed>>

(* Variant of CheckDisconnect, for mutation: recv keeps waiting. *)
CheckIgnoresClosed ==
  /\ cpc = "check"
  /\ \/ /\ ccall.op \in BlockingRecvs
        /\ cpc' = IF ccall.op = "recv" THEN "look" ELSE "again"
        /\ UNCHANGED <<ccall, result>>
     \/ /\ ccall.op \notin BlockingRecvs
        /\ ReturnRecv(IF closed THEN "disconnected" ELSE "empty")
  /\ UNCHANGED <<shared, ppc, call, c_next,
                 published, delivered, moved, polled, closer, closed_pub, leaked, freed>>

(* Nothing was available: the disconnect check.  Only recv looks again     *)
(* once it has seen closed.                                                *)
CheckDisconnect ==
  /\ cpc = "check"
  /\ \/ /\ ccall.op = "recv"
        /\ cpc' = IF closed THEN "final" ELSE "look"
        /\ UNCHANGED <<ccall, result>>
     \/ /\ ccall.op = "recv_batch"
        /\ IF closed THEN ReturnRecv("batch_error")
                     ELSE cpc' = "again" /\ UNCHANGED <<ccall, result>>
     \/ /\ ccall.op \notin BlockingRecvs
        /\ ReturnRecv(IF closed THEN "disconnected" ELSE "empty")
  /\ UNCHANGED <<shared, ppc, call, c_next,
                 published, delivered, moved, polled, closer, closed_pub, leaked, freed>>

(* Variant of FinalCheck, for mutation: no second look. *)
NoFinalCheck ==
  /\ cpc = "final"
  /\ ReturnRecv("recv_error")
  /\ UNCHANGED <<shared, ppc, call, c_next,
                 published, delivered, moved, polled, closer, closed_pub, leaked, freed>>

(* recv: the second look. *)
FinalCheck ==
  /\ cpc = "final"
  /\ IF is_published(c_next) THEN cpc' = "look" /\ UNCHANGED <<ccall, result>>
                             ELSE ReturnRecv("recv_error")
  /\ UNCHANGED <<shared, ppc, call, c_next,
                 published, delivered, moved, polled, closer, closed_pub, leaked, freed>>

(* Consumer::close *)
ConsumerClose ==
  /\ ClosingCalls
  /\ cpc = "idle"
  /\ StoreClosed("close")
  /\ UNCHANGED <<slots, claim_cursor, consumer_cursor, availability,
                 producer_count, ppc, call, cvars,
                 published, delivered, moved, polled, result, leaked, freed>>

(* Drop for Consumer, and the release of its Arc. *)
ConsumerDrop ==
  /\ cpc = "idle"
  /\ StoreClosed("consumer")
  /\ cpc' = "dropped"
  /\ IF Live = {} THEN SharedDrop ELSE UNCHANGED freed
  /\ UNCHANGED <<slots, claim_cursor, consumer_cursor, availability,
                 producer_count, ppc, call, ccall, c_next,
                 published, delivered, moved, polled, result, leaked>>

(***************************************************************************)
(* The specification                                                       *)
(***************************************************************************)
ProducerStep(p) ==
  \/ FetchAdd(p) \/ WaitSpace(p) \/ Recheck(p) \/ TryLoad(p) \/ TryCas(p)
  \/ WriteSlots(p) \/ PublishWord(p)

ProducerCall(p) ==
  \/ \E op \in ProducerOps, n \in BatchSizes \cup {1} : BeginSend(p, op, n)
  \/ ProducerClose(p)
  \/ ProducerDrop(p)
  \/ \E q \in Producers : Clone(p, q)

ConsumerStep ==
  \/ (cpc = "look" /\ Look(ccall.op))
  \/ (cpc = "again" /\ ScanBegin(ccall.op, ccall.limit))
  \/ ScanWord \/ ReadSlot \/ Commit \/ CheckDisconnect \/ FinalCheck

ConsumerCall ==
  \/ \E op \in SingleRecvs : cpc = "idle" /\ Look(op)
  \/ \E op \in BatchRecvs, limit \in BatchSizes :
       cpc = "idle" /\ ScanBegin(op, limit)
  \/ ConsumerClose
  \/ ConsumerDrop

Next ==
  \/ \E p \in Producers : ProducerStep(p) \/ ProducerCall(p)
  \/ ConsumerStep
  \/ ConsumerCall

Spec == Init /\ [][Next]_vars

(* A thread inside a call keeps running. *)
Fairness ==
  /\ \A p \in Producers : WF_vars(ProducerStep(p))
  /\ WF_vars(ConsumerStep)

FairSpec == Spec /\ Fairness

(***************************************************************************)
(* Properties                                                              *)
(***************************************************************************)
ProducerPlaces ==
  {"unborn", "idle", "claim", "space", "recheck", "try", "cas", "write",
   "publish", "dropped"}
ConsumerPlaces ==
  {"idle", "look", "again", "scan", "read", "check", "final", "dropped"}

Results == {"none", "ok", "empty", "disconnected", "recv_error", "batch_error"}
Closers == {"none", "close", "last_drop", "consumer"}

(* Every variable has the type that Shared, Producer and Consumer give it, *)
(* and producer_count counts the live handles.                             *)
TypeOK ==
  /\ slots \in [0..(Capacity - 1) -> Int]
  /\ claim_cursor \in Int /\ consumer_cursor \in Int
  /\ availability \in [Words -> [Bits -> 0..1]]
  /\ producer_count = Cardinality(Live) /\ closed \in BOOLEAN
  /\ ppc \in [Producers -> ProducerPlaces] /\ call \in [Producers -> ProducerCalls]
  /\ cpc \in ConsumerPlaces /\ ccall \in ConsumerCalls /\ c_next \in Nat
  /\ published \subseteq Nat /\ delivered \in Seq(Int) /\ moved \in Seq(Int)
  /\ polled \subseteq Int /\ result \in Results
  /\ closer \in Closers /\ closed_pub \subseteq Nat
  /\ leaked \subseteq Nat /\ freed \in Seq(Int)

(* The "exclusive access" the unsafe blocks of send and get_mut rely on:   *)
(* a slot that a producer is about to fill is claimed by no other producer *)
(* that may fill it, and holds no event the consumer has yet to take.      *)
NoSlotRace ==
  \A p \in Producers : ppc[p] = "write" =>
    \A s \in Claimed(p) :
      /\ \A q \in Producers \ {p} : ppc[q] \in {"write", "publish"} =>
           \A t \in Claimed(q) : Index(t) # Index(s)
      /\ \A t \in published : t >= c_next => Index(t) # Index(s)

(* The consumer gets the events in the order of their sequences, and only  *)
(* published ones: the parity bit of a slot is never mistaken for the one  *)
(* of another round, and a scan never runs over a gap.                     *)
DeliveredInOrder ==
  \A i \in 1..Len(delivered) : delivered[i] = i - 1 /\ delivered[i] \in published

(* When the last producer handle has been dropped and recv returns         *)
(* RecvError, every event ever published has been handed over.             *)
RecvErrorMeansDrained ==
  (result = "recv_error" /\ closer = "last_drop") =>
    \A s \in published : s < c_next

(* The events whose slots have been given up: to a caller that destroys    *)
(* them, or to Shared::drop, which does.                                   *)
Released == moved \o freed

(* When all handles are gone and the sequences claimed and not consumed    *)
(* fit in the ring, every published event has been moved out of the ring   *)
(* or destroyed by Shared::drop, exactly once, except those that poll has  *)
(* handed to its callback, which nobody releases; claims that were given   *)
(* up may lie between them (mpsc/shared.rs:32-54, consumer.rs:234-263).    *)
ReleasedOnce ==
  (Live = {} /\ cpc = "dropped" /\ claim_cursor - consumer_cursor <= Capacity) =>
    /\ IsInjective(Released)
    /\ Range(Released) = published \ polled

(* The comments of Shared::drop: only a sequence that was published and    *)
(* not yet consumed is dropped, never a slot that was not written or whose *)
(* event was moved out.                                                    *)
DropsOnlyPublished ==
  \A i \in 1..Len(freed) : freed[i] \in published /\ freed[i] >= c_next

(* The documentation of recv: RecvError means that the buffer is empty.    *)
(* Once no send is in progress, an event published before the channel was  *)
(* closed has been received, or nothing stands between it and the consumer. *)
RecvErrorMeansEmpty ==
  (result = "recv_error" /\ \A p \in Producers : Claimed(p) = {}) =>
    \A s \in closed_pub : (c_next..s) \subseteq published

(* The documentation of recv_batch: RecvError means that all producers     *)
(* were dropped and no events are available.                               *)
BatchErrorMeansDrained ==
  (result = "batch_error" /\ closer = "last_drop") =>
    \A s \in published : s < c_next

(* A send or claim_batch that waits for space gives up once the channel is *)
(* closed.                                                                 *)
ClosedUnblocksSender ==
  \A p \in Producers :
    (closed /\ ppc[p] \in {"space", "recheck"}) ~> (ppc[p] \in {"idle", "publish"})

(* A blocking receive returns once the channel is closed; unlike the SPSC  *)
(* receive, its wait loop looks at the flag.                               *)
ClosedUnblocksReceiver ==
  (closed /\ cpc \in {"look", "again", "scan", "check"}) ~> (cpc = "idle")

(* Number of events published without a gap: what the consumer can get. *)
Prefix == CHOOSE n \in 0..MaxEvents : n \notin published /\ (0..(n - 1)) \subseteq published

(* The channel implements the bounded queue: events are accepted, perhaps  *)
(* several at once, when the gap before them is closed.                    *)
Queue == INSTANCE EventQueue WITH
  accepted <- Prefix,
  queue <- [i \in 1..(Prefix - Len(delivered)) |->
              slots[Index(Len(delivered) + i - 1)]],
  out <- delivered

ImplementsQueue == Queue!Spec
=============================================================================

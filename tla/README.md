# land: a TLA+ model of the transaction sender

land accepts Solana transactions over JSON-RPC and sends them over QUIC to the
validators that lead the current and the next slots. Its threads talk to each
other only through lock-free structures of its own, and most of what can go
wrong in it is a matter of who does what first. This directory holds the TLA+
modules that model those structures and the parts built on them, the TLC runs
that check them, and the proofs that TLAPS checks.

## 1. The system

```
 client --HTTP--> RPC server --SPSC--> worker --> sender --> QUIC endpoint --> validators
                     ^                   |          |
                     +------- MPSC ------+          | reads
                                                    v
 websocket --SPSC--> slot subscriber --atomic--> leader tracker --> leader buffer (SeqLock)
                                                    ^
                                  RPC node --refresh task (schedule cache)
```

| part | state | operations | what is hard | what makes it correct |
|---|---|---|---|---|
| SPSC channel (`channel/src/spsc`) | ring of slots, producer and consumer cursor, closed flag; each half has its next sequence, the producer a cached consumer cursor | send, claim, batches, publish, close, drop; recv, peek, poll, batches, close, drop | two threads, no lock; a cached cursor; publish and close seen in one order and read in the other | no slot used by both; FIFO; the end only when drained; events released once; nobody waits for ever |
| MPSC channel (`channel/src/mpsc`) | ring, claim cursor, consumer cursor, availability bitmap with a polarity per round, producer count, closed flag | send, batches, clone, close, drop; recv, peek, poll, batches | claims granted before there is space; batches visible word by word; claims given up at close | as above, for any number of producers |
| SeqLock (`sync/src/seqlock.rs`) | version and value | write, update; read, try_read, read_with, try_read_with | copies that are not atomic | a read returns one committed value |
| Leader tracker (`leader/src`) | slot, schedule cache, buffer of 10 entries under a sequence lock, last slot and window | start, stop, slot updates, refresh, shift or refill; reads by the sender | five threads and tasks; skipped slots; epoch change; restart | entries name the leader of their slots, in order; the tracker keeps up; stop returns |
| QUIC endpoint, pool, connection (`quic/src`) | 128 slots (address, state, retry count, connection with a queue of 16), dirty set | connect (both modes), send, send_nonblocking, prewarm, keep-alive, poll | a peer that answers, refuses or closes at any time; eviction; flow control; failing sockets | right peer, once at most, nothing pending forgotten, the queue of a confirmed connection drained |
| Sender and prewarm thread (`quic/src/sender.rs`, `prewarm.rs`) | strategy, connection flags and addresses per index | send, send_fanout, poll, three kinds of inline prewarming; refresh, shutdown | leaders rotate during a fanout and during a blocking connect; dead and live connections mixed | no leader twice; the next leader is tried in time; fallback only when all are dead; every rotation is noticed |
| Session cache (`quic/src/session_cache.rs`) | 64 shards of two slots, each an address and a token under a SeqLock; eviction counter | get, insert, invalidate | address and token stored in two steps; one shard for both endpoints, both of which insert | what was inserted is found; get returns tokens of the address asked for |
| Timing registry | histograms of handshake times | record, percentiles | bucket arithmetic | percentiles within a bucket |
| RPC server and worker (`server/src`) | connection pool, requests and responses in flight | accept, read, handle, respond; drain, process | two queues, both blocking; readiness reported once; errors of accept, register and poll; slots reused | each request one response, on its connection; no deadlock |
| Slot feed (`pubsub/src`, `leader/src/slot_subscriber.rs`) | connection state, back-off, channel, slot and connected flag | connect, read, publish, poll, start, stop, drop | reconnects; updates dropped when full; a read without timeout | the atomic reaches the node's slot; stop ends both threads |
| Client (`client/src`) | one connection, buffers | connect, send, receive, reconnect | partial reads and writes, reconnects | a response belongs to its request |

`PROJECT.json` lists all parts with what is modelled of them, and the hazards
at the lines where they bite.

## 2. The modules

| module | models |
|---|---|
| `EventQueue` | abstract: a bounded FIFO queue, from which the consumer takes one event at a time and to which a publish adds one or several |
| `Spsc` | the SPSC channel; refines `EventQueue` |
| `Mpsc` | the MPSC channel; refines `EventQueue` |
| `Register` | abstract: a register that is read and written in one step |
| `SeqLock` | the sequence lock; refines `Register` |
| `LeaderTracker` | slot subscriber, schedule fetcher, tracker thread, leader buffer and the reads of send_fanout |
| `QuicEndpoint` | endpoint, pool, connections |
| `Sender` | sender, prewarm strategies and prewarm thread over an abstract leader buffer and endpoint |
| `SessionCache` | one shard of the session cache, with the endpoints that use it |
| `RpcServer` | network thread, connection pool, both queues, worker |
| `RpcSystem` | `RpcServer` composed with the clients |
| `SlotFeed` | websocket thread, channel, subscriber thread, and the node they listen to |
| `MC...` | the values of constants that a .cfg cannot write |
| `SpscProofs`, `MpscProofs`, `SeqLockProofs`, `LeaderProofs`, `SessionProofs`, `SenderProofs`, `QuicProofs`, `RpcProofs` | theorems and proofs about the module they extend |

Every module keeps the names of the source. A definition that is called a
variant "for mutation" is a plausible wrong version of the one after it; no
specification uses it. It documents which mistake a property would catch.

### Channels

`ppc` and `cpc` say where the producer's and the consumer's call is. Every load
or store of shared state that another thread can tell apart is a step: the
reload of the other cursor, the look at the closed flag, the write of a slot, the
store of the cursor, the read of a slot, the final check. The first look at
cached or private state belongs to the step that begins the call. Blocking waits
are steps that are enabled when the wait would end or has to look at the flag
again, so that spinning, yielding and parking are the same.

Events are their sequence numbers, which is what order and loss are about.
`delivered`, `moved`, `polled`, `result`, `closed_at`, `freed` (and `published`,
`closer` in `Mpsc`) are observations for the properties. A receive moves the value
out of its slot, so that the caller destroys it; `poll` hands its callback a
reference and moves the cursor past the slot (`HandOver`), so that nobody does:
neither the next store, which is a `ptr::write`, nor the drop of the channel, which
looks only at what lies between the cursors. A store through the reference that a
claim returns is taken for one that overwrites without a drop. The producer half of the SPSC channel is
owned by one thread and so is each consumer; nothing in the models has two
threads in one half.

In `Mpsc` the number of bits of a bitmap word is a constant (64 in the code), so
that a small ring can have several words, or one that it does not fill. Batches
are written and published by the handle: dropping the handle publishes too, as
in the code. That the application has written every slot of a batch is its
contract and is assumed.

### SeqLock

`Words` and `Values` are sets; a copy takes or stores one word at a time in any
order. Steps are taken in program order. For the reader this is what the acquire
load and the fence give; for the writer it is what x86 gives: the first
`increment` is a release store, which orders what is before it and not what is
after it. On a machine that lets stores pass each other the code needs a fence
there; this is listed as a hazard and not modelled.

### LeaderTracker

A leader is named by the number of its window of slots. The schedule is known
for one epoch. As in the code, the leader of a new entry and its start slot are
computed apart: the leader from the slot that the tracker looks ahead to, the
start from the slot the buffer is told and the position. The buffer uses the sequence lock protocol of `SeqLock`, whose
atomicity is proved, so a read is one step taken outside a write; `current_slot`
is outside the lock and is stored in a step of its own. The tracker's load of
the slot and its use of the schedule are two steps. The websocket reports any
later slot (and an earlier one if `SlotsRegress`); the RPC node's slot differs
from it by up to `RpcSkew`.

### QuicEndpoint

One thread owns the endpoint. A call is a chain of steps, one for each point
where it may fail or branch. The quiche connection is reduced to what the
endpoint asks of it: the phase of the handshake, early data, the peer's close.
`on_timeout` is never called, so a packet the socket did not take is never sent
again (phase `lost`). Packets are processed only while poll or a blocking
connect receives. Retry counts are capped at the value above which they all mean
Dead. A dead slot whose retry deadline has passed processes packets again; the
model allows both. `last_activity` is the order of `recent`. Two v6 addresses may
have one key, so that find returns the slot of another address than
find_or_allocate does; send then enqueues on the slot found (`ReadyReturned`).

### RpcServer and RpcSystem

The channels between the two threads are the queues that `Spsc` and `Mpsc` are
shown to implement. A TCP stream is two buffers with an edge-triggered readiness
event per direction, as epoll reports them: an event is taken once and comes
again only with new bytes, new space or a close. A round of the event loop
takes a set of events, handles them one by one in any order, then the answers.
A request has two parts, so that it may arrive in two reads; its kind says how
the parsers take it (good, with `Connection: close`, with an empty transaction,
malformed, too long). The send to a full request queue is a step of its own that
blocks the network thread; so is the worker's send of an answer. `RpcSystem`
adds clients that follow a script of requests, split a request into two writes,
run into their read timeout and reconnect, or go away at any point. With
`IoErrors` accept may fail, which leaves the backlog with its edge consumed until
another stream arrives, and an error of poll or register ends the network thread
(`RunFails`); with `ReadTimeouts` a client may give up a request.

### SessionCache

One shard, because an operation stays in its shard; the eviction counter, which
the shards share, is changed from outside too. `Threads` are the endpoints that
share the cache: the sender's alone, or with the strategy Prewarm also that of the
prewarm thread; all of them look up, insert and invalidate. Loads and stores of
the address word, the compare-and-exchange and each increment of a token's lock are
a step. A lone write is atomic by `SeqLock`. Two endpoints may write one token at
once, which that lock is not made for: the token is then a mix of the fields of
both, and as the increment is a load and a store, one may be lost and the version
stay odd. `found`, `alone` and `broken` are observations.

### Sender

`base` is the window at position 0 of the leader buffer, shifted between any two
reads; a connection is its state per endpoint and address. The inline strategies
(static, adaptive) and the blocking refresh of the prewarm thread are chains of
reads and connects, in which an address with a slot is skipped whatever the state
of its connection. Handshake times are any of a set. `LeaderTracker` and
`QuicEndpoint` are the detailed models of what is abstract here.

### SlotFeed

Every load and store of a shared atomic is a step; claim, write and publish of a
notification are one, by `Spsc`. `poll` handles a batch event by event and gives
its slots back at the end, so that the producer may find the channel full
meanwhile. A frame is a slot number, something the loop goes on after, or
something that ends it. Start and stop are the caller's steps; Drop differs from
stop in that it leaves the subscriber's own thread detached. A second start finds
the producer taken and changes nothing, so it is no step.

## 3. The runs

| run | constants | distinct states | shows |
|---|---|---|---|
| `spsc` | capacity 2, 4 events | 760,528 | `NoSlotRace`, `DeliveredInOrder`, `RecvErrorMeansDrained`, `ReleasedOnce`, refinement `ImplementsQueue`; `ClosedUnblocksSender`, `PublishedUnblocksReceiver` |
| `mpsc` | 2 producers, capacity 2, 1 bit per word, batches of 2, 3 events | 546,110 | `NoSlotRace`, `RecvErrorMeansDrained`, `ReleasedOnce`, refinement `ImplementsQueue`, which includes the order of delivery; `ClosedUnblocksSender`, `ClosedUnblocksReceiver` |
| `seqlock` | 2 words, 2 values, 1 reader, 3 writes | 592,364 | refinement `ReadsAreAtomic`; `SpinReadReturns` |
| `leader` | buffer of 3, windows of 2 slots, epochs of 3 windows, the last of which has an unlisted leader, slots 0 to 7, fanout of 2 | 230,685 | `EntriesMatchSchedule`, `PositionsAscend`, `FanoutAscends`, `DriftNeverGrows`; `CatchesUp`, `StopReturns` |
| `quic` | 1 slot, 2 peers, queue of 2, 3 transactions, all calls, all failures | 1,386,357 | `RightDestination`, `OnePlace`, `PendingIsDirty` |
| `quic_pool` | 2 slots, 3 peers, 2 of which collide, send and prewarm, no failing socket | 740,885 | `UniqueAddresses`; `HeadIsDrained` |
| `rpc` | 1 client with an empty, a good and a closing or too long request, queues of 1, 3 streams, one of which is slow, errors of accept, register and poll | 457,199 | `AnswerIsOwn`, `InFlightMatchesPending`; `SentIsAnswered`, `ClosedIsRemoved`, `ShutdownReturns` |
| `rpc_full` | 1 client that leaves up to 4 requests under way, queues of 1, 4 streams, no errors | 330,585 | `SentIsAnswered`, `ShutdownReturns` |
| `session_cache` | 2 endpoints, 3 addresses for 2 slots, 3 inserts, tokens that expire | 4,553,456 | `InsertIsFound` |
| `sender` | buffer of 3, lookahead of 3, 4 strategies, fanout of 1 and 3 with 1 backup, 3 windows, a leader that comes back | 63,732 | `FallbackOnlyWhenAllDead`; `NextLeaderIsTried`, `PrewarmFollowsRotation` |
| `slot_feed` | channel of 2, 2 frames under way, 2 slots, 2 faults | 203,522 | `FeedIsFollowed`, `StopEndsThreads` |

`spsc` also checks the type invariant, which `SpscProofs` proves. The modules keep
further properties that no run lists (`TypeOK` of `Mpsc`, `SeqLock`,
`LeaderTracker` and `QuicEndpoint`, `ReadyMeansConfirmed` of `QuicEndpoint`,
`DeliveredInOrder` of `Mpsc`, `ShutdownJoins` of `Sender`); TLC finds no violation
of them in the same configurations, and those of `Mpsc`, `LeaderTracker` and
`QuicEndpoint` and the type invariant of `SeqLock` are proved.

Larger instances of the same questions that were checked beside the runs: the
safety properties of `mpsc` with capacity 4, 2 bits per word, batches of 3, 5 events
and no calls of close (2,188,668 states); `HeadIsDrained` with 1 slot, 2 peers, a
queue of 2 and 3 transactions (101,971 states); `PendingIsDirty` for two v6 peers
with one key, which find takes for one another (262,347 states); and, for one
endpoint with 4 inserts, `GetReturnsOwn` of `SessionCache` (41,784 states), which is
proved for that case.

Why the bounds are enough for the cases that matter: four events on a ring of
two are two rounds, so that every slot is reused and the cached cursor
is stale and reloaded; three on a ring of two with words of one bit give both
polarities of the bitmap, producers of two rounds on one slot, a batch over two
words and one over the wrap; `MpscProofs` has the other sizes. Three writes overtake a slow reader in every way two versions can. Eight slots are four
windows: a shift by one, by two, a refill, and a change of epoch in the middle
of the buffer. One slot and two peers make every second connection an eviction, and
a queue of two with a third transaction fills it or leaves some behind one that the
drain gave up. Queues of one make both threads of the server block, and four requests
fill both queues and both threads; a client that reconnects
twice has its slot of the connection pool reused while an older answer may be
under way. Three addresses for two slots make inserts claim, update and evict;
three inserts are two at the same time and one after them, or one that replaces
what the first two have left in both slots. Three windows after the first give
a rotation during a blocking connect, a leader at two indices and one that comes
back. A channel of two with a batch in progress refuses a notification, and two
faults are a refused connection after a lost one.

No run checks for deadlock: in every model the threads really stop, because both
halves are dropped, stop() was called or the bound is reached. That nobody waits
in vain is what the liveness properties say.

**Fairness.** A thread inside a call keeps running (weak fairness of its steps);
no thread has to begin a call. The tracker thread spins for as long as it is
running. The endpoint is polled again and again because the worker's loop polls
in every round whatever it finds (`worker.rs:97`), also between other calls, hence
strong fairness of `BeginPoll`; receiving ends because poll stops at the first
empty read. `quic_pool` has no failing socket: a socket that always fails
makes no progress, and nothing in the code promises any. `SpinReadReturns` holds
because the writes are bounded; against an endless writer read may spin for ever.
In `rpc` both threads run (their loops sleep for a bounded time), a client in a
call goes on with it and a full socket drains; clients need not call, and no error
need ever happen (`RunFails` is not fair). In `sender`
the prewarm thread runs and a handshake that is tried for ever succeeds at last
(strong fairness of `ConnectOk`), since nothing can be promised about a leader that
never answers. In `slot_feed` the threads run, connecting ends, faults are
bounded, and the node notifies its subscriber (weak fairness of `Notify`): it does
so about every 400 ms. Nobody has to start or to stop.

### Where the code and its documents disagree

The run `quic_blocked` states what a comment says (`QueuedOnReadySent`: what is
queued behind flow control is sent later), and TLC finds a behaviour of the code
that breaks it: the slot is not marked, and the queue of a ready slot is not
drained. `PROJECT.json` quotes the lines.

TLC shows further known deviations in the same models. They have no run of their
own; the property below, checked with the configuration named and the changes
given, has a counterexample. Below, `MCMpsc/4` is `MCMpsc` with
`BitsPerWord = 4`, `MaxEvents = 5`, `ClosingCalls = FALSE`; `MCLeader/8` is `MCLeader` with
`Unlisted = {4}`, `Fanout = 3`, `MaxSlot = 8`.

| property | configuration | in short |
|---|---|---|
| `DropUnblocksReceiver` | `MCSpsc` | recv waits in `barrier.wait_for`, which does not look at the closed flag (`spsc/consumer.rs:108`), although "returns `RecvError` if the producer has been dropped" (`spsc/consumer.rs:57`) |
| `PolledAreReleased` | `MCSpsc` | events that poll has lent to its callback are never dropped (`spsc/consumer.rs:268-310`; `mpsc/consumer.rs:234-263` alike), although "the channel must ensure all written values are either consumed or explicitly dropped" (`ringbuffer.rs:401-402`) |
| `DeliveredInOrder` | `MCMpsc/4` | a ring below 64 slots delivers slots never written: `bit_index` is `sequence % 64`, the expected bit follows `sequence / capacity` (`mpsc/shared.rs:66`); the doc only asks that "the capacity must be a power of 2." (`mpsc/mod.rs:67`) |
| `PositionZeroIsCurrent` | `MCLeader/8` | the tracker thread loads the slot again (`tracker.rs:196`); if a window began since start() filled the buffer, the buffer stays one window behind, against "position 0 = current leader" (`leader_buffer.rs:4`) |
| `DisconnectedMeansDrained` | `MCSpsc` | try_recv, peek and poll look at the flag last and not again at the cursor: Disconnected with an event left |
| `BatchErrorMeansDrained` | `MCMpsc/4`, `BitsPerWord = 1` | recv_batch has no final check as recv has |
| `RecvErrorMeansEmpty` | the same, `MaxEvents = 6`, `ClosingCalls = TRUE` | a claim given up at close hides the events behind it |
| `DropsOnlyPublished` | `MCMpsc` with `Spec`, `CasRetries = 1`, `MaxEvents = 8` | claims given up at close reach more than a round past the consumer, and Drop for Shared takes the bits of the round before for new ones (`mpsc/shared.rs:43`): it destroys a slot never written, although "this slot was written and published but not yet consumed" (`mpsc/shared.rs:44`) |
| `CurrentLeaderKnown` | `MCLeader/8` | positions of the next epoch are appended empty and stay so after the refresh |
| `PositionsAscend` | `MCLeader/8`, `SlotsRegress = TRUE` | a slot that goes back moves last_leader_idx but not the buffer; windows repeat |
| `PeerCloseDetected` | `MCQuicBlocked` with `Spec` | the close of a ready connection is not looked at |
| `RefusedStaysDead` | `MCQuicBlocked` with `Spec`, calls `send` and `connect`, `MaxTx = 1` | drive_slot marks a connection that was confirmed and refused at once "as dead to prevent retry" (`endpoint.rs:979`), and the loop of a blocking connect, as the prewarm thread uses it, then sets it Ready (`endpoint.rs:723-724`) |
| `HandshakeFlushes` | `MCQuicBlocked` with `Spec`, `QueueCapacity = 2` | a transaction refused during the flush is not put back |
| `HandshakeCompletesInPoll` | `MCQuicBlocked`, calls `prewarm`, `MaxTx = 0` | poll does not go on with a prewarmed handshake |
| `AnswerIsOwn` without its condition on given-up requests | `MCRpc` | the answer to a call that timed out is taken for the answer to the next one on that stream (`client.rs:109-133`) |
| `NeverBothBlocked` | `MCRpcFull` with `Spec` | with more than `2 * QueueSize + 1` requests under way the network thread waits for the request queue (`server.rs:608`), the worker for the response queue, although its comment says "send response (non-blocking)" (`worker.rs:158`); `SentIsAnswered` and `ShutdownReturns` except this state |
| `shutdown ~> npc = "done"` | `MCRpc`, `IoErrors = FALSE` | the worker is joined while it waits in a full response queue that nobody drains any more (`server.rs:563`) |
| `SentIsAnswered` without `LeftInBacklog` | `MCRpc` | an error of accept leaves the loop with the edge consumed (`server.rs:404-407`): who is in the backlog waits until another client connects |
| `GetReturnsOwn` | `MCSession` | the address of a slot is stored before its token (`session_cache.rs:268-291`); get reads the old token in between, and after two evictions of one slot the mixture stays |
| `NoConcurrentWrites` | `MCSession` | the endpoints of the sender and of the prewarm thread share a cache (`sender.rs:745-749, 787`) and write one token at once, against the "single-writer assumption" of the lock (`seqlock.rs:180`) |
| `LocksSettle` | `MCSession` | two writers lose an increment: the version stays odd and get spins |
| `FallbackOnlyWhenAllDead` | `MCSender`, `Port = "Both"` | dead addresses are counted against leaders (`sender.rs:259`) |
| `NextLeaderIsTried` | `MCSender` with `Spec`, `min_solana_slots = 2`, `max_solana_slots = 10`, strategy `adaptive` | the current slot is known to the window only, so that a lookahead of N slots connects N rounded down to a multiple of 4 early, here not at all; `core/src/main.rs:84-91` has these values, but gives them to the strategy Jit, whose poll runs no pass (`sender.rs:343-363`) |
| `PassMaintains` | `MCSender` with `Spec`, strategy `static` | a connection that failed keeps its slot, and prewarming skips it (`endpoint.rs:1627`), although it is to "maintain warm connections" (`sender.rs:434`) |
| `StopEndsThreads` | `MCSlotFeed` without `WF_vars(Notify)` | read_frame has no timeout: with a node that has fallen silent stop waits for ever, and the feed stays "connected" with an old slot |
| `RightDestination` | `MCQuicBlocked` with `Spec`, `V6Peers`, `V6Homes`, `PortBits = 3`, `PoolSize = 2` | two v6 peers share a key |

Seen in the same models without a property of their own: the server reads no
second request that arrived with the first, and bytes that arrive while a request
is in progress are read only when more arrive; its branch for stale responses
(`server.rs:541`) is never taken (`InFlightMatchesPending`); invalidate clears
one slot where an address may have two; the backup leaders 10 to 13 lie outside
the buffer of ten entries; a subscriber cannot be started again after stop.

`HandshakeCompletesInPoll` is checked without keep-alive calls. In the running
program the sender's poll calls keep_alive_if_idle for the next leaders and so
goes on with a prewarmed handshake after a second without activity, for those
addresses.

## 4. What is proved

All theorems hold for every value of the constants that satisfies the named
assumptions of the modules (a capacity above zero, an initial value of the right
type). The bounds of the models (`MaxEvents`, `MaxVersion`) are any natural
numbers, so they do not restrict what is proved.

**`SpscProofs`.** `TypeCorrect`, `ExclusiveSlots` (`NoSlotRace`),
`InOrderDelivery` (`DeliveredInOrder`), `RecvErrorOnlyWhenDrained`,
`EventsReleasedOnce` and `Refinement` (`ImplementsQueue`). None of the properties
is inductive: that a slot is free follows from the producer's position relative
to the consumer's cursor, and that from the cached copy it was granted on. The
invariant therefore adds that the cached cursor is never ahead of the real one,
that what has been granted ends at most a capacity past it, that published slots
hold their own sequence (`PublishedIntact`), and where each call stands relative
to the cursors. `Invariance` proves it action by action; the other theorems
follow from it. The refinement maps the store of the producer cursor to `Accept`,
the read of a slot to `Deliver`, everything else to a stutter. `EventsReleasedOnce`
excepts the events that poll has lent, which nobody releases; every other event is
moved out or destroyed, once.

**`MpscProofs`.** The same theorems for any number of producers and any batches, on
rings that fill the words of their bitmap (`RingFillsWords`: the capacity is a
multiple of 64, as every power of two from 64 on; without it TLC refutes
`DeliveredInOrder`, see section 3). The heart of it is `BitInv`: for the sequences
of the consumer's present window, and only for those, the bit says `published`
exactly when the event is. That needs `CursorInv` and `ClaimInv`, by which a
publication is never a whole round ahead of the consumer, and the claims of the
producers are disjoint and unpublished; `SlotInv` and `ReadInv` carry the contents
from the write to the delivery. A drained channel and the release of what is left
need an account of every claim ever made (`Accounted`: published, given up after
close, or still held) and of who may give one up (`CloseInv`). `ReleasedOnce` is
about channels whose claims past the consumer fit in the ring when the last handle
goes (for the others see `DropsOnlyPublished` in section 3), and like that of `Spsc` excepts
what poll has lent. The lemmas on
quotients and remainders (`IndexInjective`, `BitOfSlot`, `NextRound`, `RunOfWord`)
say once which sequences share a slot, a bit or a word; `AdvanceOverPublished` what
a scan over a word returns; `Ranks` that the events left for `Shared::drop` can be
numbered in order. The refinement needs the least unpublished sequence (`PrefixIs`), by
`WFMin` of the library.

**`SeqLockProofs`.** `Inv` adds to the types that outside a write the value is
the committed one and that, as long as the version is the one a reader loaded,
what it has copied is in place. `AtomicReads` derives from it that the lock
implements the register.

**`LeaderProofs`.** `TypeCorrect`; `EntriesMatch` (`EntriesMatchSchedule`) without a
further hypothesis; and, for a node whose slots do not go back (`~SlotsRegress`,
without which TLC refutes the first of them), `Ascend` (`PositionsAscend`),
`FanoutInOrder` (`FanoutAscends`) and the action property `NoMoreDrift`
(`DriftNeverGrows`). `BaseInv` says that an entry starts at the first slot of a
window and names nobody or that window's leader; since the code computes the two
apart, for the entries that a shift appends this needs that the position looked
ahead to and the position written are the same, for every size of buffer and every
number of windows passed. Order needs more, because a
shift keeps entries that an earlier step appended: `OrderInv` adds that no entry is
ahead of the reported slot (`Behind`) or of the loop's own window, that the
entries lag behind it all alike up to some position and not at all from there on
(`InLoop`), and that what a fanout has addressed comes before everything it may
still read (`FanoutBehind`), so that a shift between two reads cannot make it go
back.

**`SessionProofs`.** `LastInsertFound` (`InsertIsFound`) for any number of
endpoints that all insert, and `TokensOfTheAddress` (`GetReturnsOwn`) for one
endpoint (`OneEndpoint`, the strategies Jit and InlinePrewarm), without which TLC
refutes it. The invariant says of every point of an insert that runs undisturbed
what its thread knows of the shard, whatever earlier inserts at the same time have
left there: the slots it has passed hold other addresses, an empty one stays empty
until it is claimed, a claimed one is only ever emptied by an invalidate; that the
token to be found is in the first slot of its address with every invalidate under
way about another one; and, of the locks, that a version is odd only while an
endpoint writes or if two have written at once. For one endpoint `OwnInv` adds that
a slot holds a token of another address only between the two stores of an insert.

**`SenderProofs`.** `FallbackJustified` (`FallbackOnlyWhenAllDead`) for the
configurations with one port (`Port # "Both"`), and `NextLeaderTried`
(`NextLeaderIsTried`: when a window begins, a connect to its leader was begun, which
may have failed since) when the lookahead reaches position 1 and the adaptive one
amounts to a window of slots for every handshake time (`LookaheadEnough`).
`WhenEnough` says which configurations see to that: a minimum of 4 slots, as by
default, or handshakes that take more than three slots. TLC refutes the
first theorem without its hypothesis, and the second with a minimum of 2 slots. `FanInv` says
that every leader looked at was counted, once, and that the backups are tried only
after as many primaries of which none is alive; `WarmInv` that a pass that began
in this window has, once past position 1, collected or connected the next leader.

**`QuicProofs`.** `TypeCorrect`, `OneSlotPerAddress` (`UniqueAddresses`),
`PlacedOnce` (`OnePlace`), `PendingKnown` (`PendingIsDirty`) and `ReadyConfirmed`
(`ReadyMeansConfirmed`) for every pool; `DestinationKept` (`RightDestination`) when
the keys of different addresses differ (`KeysDistinct`), which `V4KeysDistinct`
shows of v4 addresses with ports of `PortBits` bits. The pool's table is open addressing without
tombstones, so uniqueness is not inductive alone: `PoolInv` adds that the slots
probed before an address's own are occupied. `DestInv` follows the slot of a call
in progress to its address, `PlaceInv` a transaction from the call through the
queue to the log, each in one place. The lemmas on the operators (`Probe*`,
`FindOccupied`, `VictimIsSlot`, `Allocated`, `DrainEffect`, `DriveEffect`) say
once what probing, eviction and draining return, for every pool size.

**`RpcProofs`.** `AnswersAreOwn` (`AnswerIsOwn`) and `FlightMatches`
(`InFlightMatchesPending`), both without a further hypothesis, for any number of
clients, streams and requests, any sizes of the queues and any behaviour of the
streams. Neither is inductive. `StreamInv` says that a stream is in the
backlog or belongs to one connection, `PoolInv` how the state of a connection
determines its fields and which slots are free, `HeldInv` that the connection
whose request is being sent to a full queue is not touched meanwhile, `FlightInv`
that a connection that waits has one request between the threads, under its own
token. That the requests there differ needs that the headers of a request are on
one stream only (`OneStreamInv`). `OwnInv` follows the request of a client that
has given up none through the server: what the connection has read and what is
still in the socket are together what the client has sent (`Unread`), or it is
being worked on, being written, or answered (`Answering`). Every handler that
touches a connection either leaves it in place (`Stays`) or removes it (`Leaves`);
the lemmas on these two say once what the rest of the invariant needs, those on
`CompleteOutgoing` and `ParsedIs` what the parser makes of a request that comes in
two reads, `FlightAdded`, `FlightTaken` and `HeadMoves` what the queues do to the
requests under way, `ListedOnce` that the free list has as many entries as there
are free slots.

Every safety property that a passing run checks is stated by one of these
theorems. Only model-checked are the liveness properties, which include both of
`SlotFeed`, because fairness and ENABLED are outside the proof system.

## 5. Not modelled

The parts marked `not_modelled` in `PROJECT.json`, with the reasons there:
parsing and formatting of HTTP, JSON and websocket frames, TLS set-up, the
io_uring backend, CPU pinning, configuration. Memory orders weaker than program
order are left out everywhere: the code targets x86, where its relaxed and
release accesses are ordinary moves.

## 6. Plan

1. The refinements that the abstract parts of `Sender` rest on: the leader buffer
   of `LeaderTracker`, the connections of `QuicEndpoint`.
2. `Histogram` as a pure algorithm against a reference definition.

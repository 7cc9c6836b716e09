------------------------------ MODULE SlotFeed ------------------------------
(***************************************************************************)
(* The slot feed (pubsub/src and leader/src/slot_subscriber.rs): a         *)
(* websocket thread subscribes to the slots of an RPC node, reconnects     *)
(* when it loses it, and publishes every notification in an spsc channel;  *)
(* the subscriber thread polls the channel and stores the slot and the     *)
(* state of the connection in the atomics that LeaderTracker follows.      *)
(*                                                                         *)
(* The channel is the queue that Spsc implements, except that poll gives   *)
(* the slots of a batch back only when it has handled all of it.  A        *)
(* notification is its slot number; the JSON around it, the opening        *)
(* handshake and the masking of frames are one step that succeeds or       *)
(* fails.  Every access of a shared atomic is a step of its own; info,     *)
(* batch and i are locals and go back to their first values when dead.     *)
(***************************************************************************)
EXTENDS Integers, Sequences, FiniteSetsExt

CONSTANTS
  Capacity,    \* of the channel, 64 in the code
  WireCap,     \* frames the connection holds: bound of the model
  MaxSlot,     \* bound of the model: past it the node repeats the slot
  MaxFaults    \* bound of the model: connections refused or lost

ASSUME FeedAssumption ==
  /\ Capacity \in Nat \ {0} /\ WireCap \in Nat \ {0}
  /\ MaxSlot \in Nat \ {0} /\ MaxFaults \in Nat

VARIABLES
  (* the RPC node and the connection, external *)
  newest,        \* the newest slot of the node
  link,          \* "none" or "open"
  wire,          \* frames under way to the client
  faults,
  (* land_pubsub::SlotSubscriber and its thread *)
  producer,      \* the Producer has not been taken by a start
  ws_running, ws_connected, last_slot,
  wpc,           \* where websocket_thread is
  info,          \* the notification it has read
  backoff_ms,
  (* the channel *)
  chan,          \* events published and not given back by the consumer
  (* land_leader::SlotSubscriber and its thread *)
  running,
  slot, connected,   \* SlotState
  rpc,           \* where run_loop is
  batch, i,      \* events of this poll, and the next one
  upc,           \* where the caller of start and stop is
  dropping       \* it is in Drop, not in stop

node == <<newest, link, wire, faults>>
pubsub == <<producer, ws_running, ws_connected, last_slot, wpc, info, backoff_ms>>
sub == <<running, slot, connected, rpc, batch, i>>
user == <<upc, dropping>>
vars == <<node, pubsub, chan, sub, user>>

(* A frame is the slot of a notification, or one of these two: anything    *)
(* that handle_messages goes on after, and anything that ends it.          *)
Other == 0
Close == -1

MIN_BACKOFF == 100
MAX_BACKOFF == 5000

(* SlotSubscriber::new of both crates, SlotState::new, ConnectionState::new *)
Init ==
  /\ newest = 1 /\ link = "none" /\ wire = <<>> /\ faults = 0
  /\ producer = TRUE /\ ws_running = FALSE /\ ws_connected = FALSE
  /\ last_slot = 0 /\ wpc = "off" /\ info = 0 /\ backoff_ms = MIN_BACKOFF
  /\ chan = <<>>
  /\ running = FALSE /\ slot = 0 /\ connected = FALSE
  /\ rpc = "off" /\ batch = 0 /\ i = 1
  /\ upc = "idle" /\ dropping = FALSE

(***************************************************************************)
(* The RPC node                                                            *)
(***************************************************************************)

(* The chain has a new slot, whether or not anybody is subscribed. *)
NewSlot ==
  /\ newest < MaxSlot
  /\ newest' = newest + 1
  /\ UNCHANGED <<link, wire, faults, pubsub, chan, sub, user>>

(* The node sends a slotNotification. *)
Notify ==
  /\ link = "open" /\ Len(wire) < WireCap
  /\ wire' = Append(wire, newest)
  /\ UNCHANGED <<newest, link, faults, pubsub, chan, sub, user>>

(* A ping, a pong, or a text that is no slot notification. *)
OtherFrame ==
  /\ link = "open" /\ wire = <<>>
  /\ wire' = <<Other>>
  /\ UNCHANGED <<newest, link, faults, pubsub, chan, sub, user>>

(* The node closes, or the connection breaks and what was under way is     *)
(* lost with it; an unknown opcode has the same effect on the client.      *)
LoseLink ==
  /\ link = "open" /\ faults < MaxFaults
  /\ wire' \in {Append(wire, Close), <<Close>>}
  /\ link' = "none" /\ faults' = faults + 1
  /\ UNCHANGED <<newest, pubsub, chan, sub, user>>

(***************************************************************************)
(* websocket_thread                                                        *)
(***************************************************************************)

ThreadCheck ==
  /\ wpc = "check"
  /\ wpc' = IF ws_running THEN "connect" ELSE "done"
  /\ UNCHANGED <<node, producer, ws_running, ws_connected, last_slot, info,
                 backoff_ms, chan, sub, user>>

(* connect_and_subscribe returns Ok. *)
ConnectOk ==
  /\ wpc = "connect"
  /\ link' = "open" /\ wire' = <<>>
  /\ wpc' = "subscribed"
  /\ UNCHANGED <<newest, faults, producer, ws_running, ws_connected, last_slot,
                 info, backoff_ms, chan, sub, user>>

(* It returns Err: no connection, no upgrade, a wrong accept key, or a     *)
(* first frame that is not the subscription's answer.                      *)
ConnectErr ==
  /\ wpc = "connect" /\ faults < MaxFaults
  /\ faults' = faults + 1
  /\ wpc' = "failed"
  /\ UNCHANGED <<newest, link, wire, producer, ws_running, ws_connected,
                 last_slot, info, backoff_ms, chan, sub, user>>

SetConnected ==
  /\ wpc = "subscribed"
  /\ backoff_ms' = MIN_BACKOFF /\ ws_connected' = TRUE
  /\ wpc' = "loop"
  /\ UNCHANGED <<node, producer, ws_running, last_slot, info, chan, sub, user>>

(* Variant of ConnectFailed, for mutation: an error ends the thread. *)
ConnectFailedReturns ==
  /\ wpc = "failed"
  /\ ws_connected' = FALSE /\ backoff_ms' = backoff_ms
  /\ wpc' = "done"
  /\ UNCHANGED <<node, producer, ws_running, last_slot, info, chan, sub, user>>

(* The Err arm: sleep, then double the backoff. *)
ConnectFailed ==
  /\ wpc = "failed"
  /\ ws_connected' = FALSE
  /\ backoff_ms' = Min({2 * backoff_ms, MAX_BACKOFF})
  /\ wpc' = "check"
  /\ UNCHANGED <<node, producer, ws_running, last_slot, info, chan, sub, user>>

(* handle_messages *)
LoopCheck ==
  /\ wpc = "loop"
  /\ wpc' = IF ws_running THEN "read" ELSE "lost"
  /\ UNCHANGED <<node, producer, ws_running, ws_connected, last_slot, info,
                 backoff_ms, chan, sub, user>>

(* read_frame blocks until there is a frame; it has no timeout. *)
ReadFrame ==
  /\ wpc = "read" /\ wire # <<>>
  /\ wire' = Tail(wire)
  /\ \/ Head(wire) > 0 /\ info' = Head(wire) /\ wpc' = "claim"
     \/ Head(wire) = Other /\ wpc' = "loop" /\ UNCHANGED info
     \/ Head(wire) = Close /\ wpc' = "lost" /\ UNCHANGED info
  /\ UNCHANGED <<newest, link, faults, producer, ws_running, ws_connected,
                 last_slot, backoff_ms, chan, sub, user>>

(* try_claim and publish, or the update is dropped because the channel is  *)
(* full or the consumer gone.                                              *)
Publish ==
  /\ wpc = "claim"
  /\ IF Len(chan) < Capacity /\ rpc # "done"
       THEN chan' = Append(chan, info) /\ wpc' = "last"
       ELSE wpc' = "loop" /\ UNCHANGED chan
  /\ info' = IF wpc' = "last" THEN info ELSE 0
  /\ UNCHANGED <<node, producer, ws_running, ws_connected, last_slot,
                 backoff_ms, sub, user>>

SetLastSlot ==
  /\ wpc = "last"
  /\ last_slot' = info /\ info' = 0
  /\ wpc' = "loop"
  /\ UNCHANGED <<node, producer, ws_running, ws_connected, backoff_ms, chan,
                 sub, user>>

(* handle_messages has returned; the WebSocket is dropped. *)
Disconnected ==
  /\ wpc = "lost"
  /\ ws_connected' = FALSE
  /\ link' = "none" /\ wire' = <<>>
  /\ wpc' = "check"
  /\ UNCHANGED <<newest, faults, producer, ws_running, last_slot, info,
                 backoff_ms, chan, sub, user>>

Websocket ==
  \/ ThreadCheck \/ ConnectOk \/ ConnectErr \/ SetConnected \/ ConnectFailed
  \/ LoopCheck \/ ReadFrame \/ Publish \/ SetLastSlot \/ Disconnected

(***************************************************************************)
(* run_loop                                                                *)
(***************************************************************************)

RunCheck ==
  /\ rpc = "check"
  /\ rpc' = IF running THEN "poll" ELSE "done"
  /\ UNCHANGED <<node, pubsub, chan, running, slot, connected, batch, i, user>>

(* Consumer::poll: what is published now is the batch. *)
PollBegin ==
  /\ rpc = "poll"
  /\ batch' = Len(chan)
  /\ rpc' = IF chan = <<>> THEN "status" ELSE "handle"
  /\ UNCHANGED <<node, pubsub, chan, running, slot, connected, i, user>>

(* The handler stores the slot of the next event of the batch. *)
Handle ==
  /\ rpc = "handle" /\ i <= batch
  /\ slot' = chan[i]
  /\ i' = i + 1
  /\ UNCHANGED <<node, pubsub, chan, running, connected, rpc, batch, user>>

(* The consumer's cursor moves past the batch. *)
PollEnd ==
  /\ rpc = "handle" /\ i > batch
  /\ chan' = SubSeq(chan, batch + 1, Len(chan))
  /\ batch' = 0 /\ i' = 1
  /\ rpc' = "status"
  /\ UNCHANGED <<node, pubsub, running, slot, connected, user>>

(* Only this thread writes connected: the load and the store are one step. *)
Status ==
  /\ rpc = "status"
  /\ connected' = ws_connected
  /\ rpc' = "check"
  /\ UNCHANGED <<node, pubsub, chan, running, slot, batch, i, user>>

RunLoop == RunCheck \/ PollBegin \/ Handle \/ PollEnd \/ Status

(***************************************************************************)
(* start, stop and Drop                                                    *)
(***************************************************************************)

(* start: pubsub.start takes the producer, which only the first start      *)
(* finds, and spawns its thread.                                           *)
StartPubsub ==
  /\ upc = "idle" /\ ~running /\ ~ws_running /\ producer
  /\ producer' = FALSE
  /\ ws_running' = TRUE /\ wpc' = "check"
  /\ upc' = "starting"
  /\ UNCHANGED <<node, ws_connected, last_slot, info, backoff_ms, chan, sub,
                 dropping>>

StartLoop ==
  /\ upc = "starting"
  /\ running' = TRUE /\ rpc' = "check"
  /\ upc' = "started"
  /\ UNCHANGED <<node, pubsub, chan, slot, connected, batch, i, dropping>>

(* stop and Drop first end the loop of the subscriber's own thread... *)
Stop(drop) ==
  /\ upc = "started"
  /\ running' = FALSE
  /\ upc' = "stopping" /\ dropping' = drop
  /\ UNCHANGED <<node, pubsub, chan, slot, connected, rpc, batch, i>>

(* Variant of StopPubsub, for mutation: running is not cleared. *)
StopPubsubNoStore ==
  /\ upc = "stopping"
  /\ upc' = "join_ws"
  /\ UNCHANGED <<node, producer, ws_running, ws_connected, last_slot, wpc, info,
                 backoff_ms, chan, sub, dropping>>

(* ... then stop the pubsub subscriber, Drop as one of its fields, ...     *)
StopPubsub ==
  /\ upc = "stopping"
  /\ ws_running' = FALSE
  /\ upc' = "join_ws"
  /\ UNCHANGED <<node, producer, ws_connected, last_slot, wpc, info,
                 backoff_ms, chan, sub, dropping>>

(* ... which waits for the websocket thread.  Drop leaves its own thread   *)
(* detached.                                                               *)
JoinWs ==
  /\ upc = "join_ws" /\ wpc = "done"
  /\ upc' = IF dropping THEN "stopped" ELSE "join_run"
  /\ UNCHANGED <<node, pubsub, chan, sub, dropping>>

JoinRun ==
  /\ upc = "join_run" /\ rpc = "done"
  /\ upc' = "stopped"
  /\ UNCHANGED <<node, pubsub, chan, sub, dropping>>

Finish == StartLoop \/ StopPubsub \/ JoinWs \/ JoinRun

(***************************************************************************)
(* The specification                                                       *)
(***************************************************************************)

Next ==
  \/ NewSlot \/ Notify \/ OtherFrame \/ LoseLink
  \/ Websocket \/ RunLoop
  \/ StartPubsub \/ Finish \/ \E drop \in BOOLEAN : Stop(drop)

(* Threads run, a call that has begun goes on, connecting ends, and a node *)
(* that has a subscriber notifies it.  Nobody needs to start or to stop.   *)
Fairness ==
  /\ WF_vars(Websocket) /\ WF_vars(RunLoop) /\ WF_vars(Finish)
  /\ WF_vars(Notify)

Spec == Init /\ [][Next]_vars

FairSpec == Spec /\ Fairness

(***************************************************************************)
(* Properties                                                              *)
(***************************************************************************)

(* While the feed is on, whatever slot the node reaches is reached by the  *)
(* shared atomic too, with the connection reported as up: through refused  *)
(* and lost connections, notifications lost with them, notifications       *)
(* dropped at a full channel and a poll that takes only what it saw first. *)
FeedIsFollowed ==
  \A n \in 1..MaxSlot :
    (upc = "started" /\ newest >= n) ~> (upc # "started" \/ (slot >= n /\ connected))

(* stop returns, and whether the subscriber is stopped or dropped, both    *)
(* threads end, also when the websocket thread is reading, connecting or   *)
(* has no consumer left.  read_frame has no timeout: this rests on the     *)
(* fairness of Notify, a node that does not fall silent.                   *)
StopEndsThreads ==
  upc = "stopping" ~> (upc = "stopped" /\ wpc = "done" /\ rpc = "done")
=============================================================================

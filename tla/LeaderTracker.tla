--------------------------- MODULE LeaderTracker ----------------------------
(***************************************************************************)
(* The leader tracker (leader/src): a websocket thread stores the current  *)
(* slot in an atomic, the tracker thread follows it and keeps a buffer of  *)
(* the current and the coming leaders, a task refreshes the schedule of    *)
(* the epoch, and the transaction sender reads the buffer to decide whom   *)
(* to send to.                                                             *)
(*                                                                         *)
(* A leader serves a window of SlotsPerLeader slots; it is named by the    *)
(* number of its window.  The entries are protected by a sequence lock,    *)
(* whose protocol is the one of SeqLock.tla: a read that succeeds is one   *)
(* step taken while no write is in progress.  The entries are changed in   *)
(* the step that begins a write, because nobody can read them before the   *)
(* write ends; current_slot is not protected and is stored in a step of    *)
(* its own.                                                                *)
(***************************************************************************)
EXTENDS Integers, Sequences

CONSTANTS
  BufferSize,       \* LEADER_BUFFER_SIZE, 10 in the code
  SlotsPerLeader,   \* SLOTS_PER_LEADER, 4 in the code
  WindowsPerEpoch,  \* leader windows of an epoch
  Unlisted,         \* windows whose leader has published no addresses
  SlotsRegress,     \* whether the websocket may report an earlier slot
  RpcSkew,          \* how far the RPC node's slot is from the websocket's
  Fanout,           \* leaders a send_fanout addresses
  MaxSlot           \* bound of the model

ASSUME SizeAssumption ==
  /\ BufferSize \in Nat \ {0} /\ SlotsPerLeader \in Nat \ {0}
  /\ WindowsPerEpoch \in Nat \ {0}
ASSUME WorldAssumption ==
  /\ Unlisted \subseteq Nat /\ SlotsRegress \in BOOLEAN /\ RpcSkew \in Nat
  /\ Fanout \in 0..BufferSize /\ MaxSlot \in Nat

VARIABLES
  (* SlotState and SlotSubscriber *)
  slot,          \* the last slot reported, 0 before the first
  subscribed,    \* the subscriber thread runs
  (* ScheduleFetcher *)
  cache,         \* the epoch whose schedule is cached, or NoEpoch
  fetched,       \* fetched[t]: epoch that t learnt from get_epoch_info
  (* LeaderBuffer *)
  writing,       \* the version is odd
  entries,
  current_slot,
  (* LeaderTracker *)
  running,
  spc,           \* where start() and stop() are
  initial_slot,
  tpc,           \* where the tracker thread is
  last_slot, last_leader_idx,
  (* TransactionSender::send_fanout *)
  fpc, fi,
  fseen          \* start slots of the leaders addressed by this call

svars == <<slot, subscribed>>
schedule == <<cache, fetched>>
buffer == <<writing, entries, current_slot>>
tracker == <<running, spc, initial_slot, tpc, last_slot, last_leader_idx>>
fvars == <<fpc, fi, fseen>>
vars == <<svars, schedule, buffer, tracker, fvars>>

NoEpoch == -1
EMPTY == -1
Positions == 0..(BufferSize - 1)
Refreshers == {"start", "task"}

Window(s) == s \div SlotsPerLeader
base_slot(s) == Window(s) * SlotsPerLeader
Epoch(s) == Window(s) \div WindowsPerEpoch

(* LeaderBuffer::new, LeaderTracker::new *)
Init ==
  /\ slot = 0 /\ subscribed = FALSE
  /\ cache = NoEpoch /\ fetched = [t \in Refreshers |-> NoEpoch]
  /\ writing = FALSE /\ current_slot = 0
  /\ entries = [i \in Positions |-> [leader |-> EMPTY, start_slot |-> 0]]
  /\ running = FALSE /\ spc = "stopped" /\ initial_slot = 0
  /\ tpc = "off" /\ last_slot = 0 /\ last_leader_idx = 0
  /\ fpc = "idle" /\ fi = 0 /\ fseen = <<>>

(***************************************************************************)
(* The websocket                                                           *)
(***************************************************************************)

(* SlotSubscriber::run_loop: poll hands the slot of a notification over. *)
SlotUpdate(s) ==
  /\ subscribed
  /\ s # slot /\ (s > slot \/ SlotsRegress)
  /\ slot' = s
  /\ UNCHANGED <<subscribed, schedule, buffer, tracker, fvars>>

(***************************************************************************)
(* The schedule                                                            *)
(***************************************************************************)

(* The entry of a slot in the cached schedule, an array over the slots of  *)
(* its epoch.                                                              *)
ScheduleAt(s) ==
  IF cache # NoEpoch /\ Epoch(s) = cache /\ Window(s) \notin Unlisted
    THEN Window(s) ELSE EMPTY

(* ScheduleFetcher::refresh, first half: get_epoch_info answers with the   *)
(* RPC node's epoch.                                                       *)
RefreshBegin(t) ==
  /\ fetched[t] = NoEpoch
  /\ \/ t = "start" /\ spc = "fetch"
     \/ t = "task" /\ running /\ tpc # "off" /\ Epoch(slot) # cache
  /\ \E s \in (slot - RpcSkew)..(slot + RpcSkew) :
       s >= 0 /\ fetched' = [fetched EXCEPT ![t] = Epoch(s)]
  /\ UNCHANGED <<svars, cache, buffer, tracker, fvars>>

(* Its second half: the schedule of that epoch has arrived and replaces    *)
(* the cached one.                                                         *)
RefreshStore(t) ==
  /\ fetched[t] # NoEpoch
  /\ cache' = fetched[t]
  /\ fetched' = [fetched EXCEPT ![t] = NoEpoch]
  /\ IF t = "start" THEN spc' = "slot" /\ subscribed' = TRUE
                    ELSE UNCHANGED <<spc, subscribed>>
  /\ UNCHANGED <<slot, buffer, running, initial_slot, tpc, last_slot,
                 last_leader_idx, fvars>>

(* An RPC call fails.  start() gives up, the task tries again later. *)
RefreshFail(t) ==
  /\ fetched[t] # NoEpoch
  /\ fetched' = [fetched EXCEPT ![t] = NoEpoch]
  /\ spc' = IF t = "start" THEN "stopped" ELSE spc
  /\ UNCHANGED <<svars, cache, buffer, running, initial_slot, tpc, last_slot,
                 last_leader_idx, fvars>>

(***************************************************************************)
(* The buffer                                                              *)
(***************************************************************************)

(* ScheduleFetcher::get_next_leaders_into: the leader written to element j *)
(* of its output, EMPTY outside the cached epoch.                          *)
NextLeader(start_slot, j) ==
  ScheduleAt(base_slot(start_slot) + j * SlotsPerLeader)

(* The entry that a write for slot s leaves at position i: element j of    *)
(* the leaders fetched from a slot on, given its start slot by the buffer. *)
NewEntry(fetch_slot, j, s, i) ==
  [leader |-> NextLeader(fetch_slot, j),
   start_slot |-> base_slot(s) + i * SlotsPerLeader]

(* begin_write and the stores of LeaderBuffer::update, with the leaders of *)
(* update_buffer_from_schedule.                                            *)
Update(s) ==
  /\ writing' = TRUE
  /\ entries' = [i \in Positions |-> NewEntry(s, i, s, i)]

(* Variant of lookahead_slot, for mutation: the leader after the next one  *)
(* to append.                                                              *)
LookaheadPastNext(s, k) == (Window(s) + BufferSize - k + 1) * SlotsPerLeader

(* fifo_shift_buffer: the slot from which leaders are fetched when k have  *)
(* left the buffer.                                                        *)
lookahead_slot(s, k) == (Window(s) + (BufferSize - k)) * SlotsPerLeader

(* Variant of ShiftMultiple, for mutation: leaders and start slots are     *)
(* counted from the window the tracker comes from.                         *)
ShiftMultipleStale(k, s) ==
  /\ writing' = TRUE
  /\ entries' = [i \in Positions |->
       IF i < BufferSize - k THEN entries[i + k]
       ELSE LET old == s - k * SlotsPerLeader
            IN  NewEntry(lookahead_slot(old, k), i - (BufferSize - k), old, i)]

(* begin_write and the stores of LeaderBuffer::shift_multiple for          *)
(* 0 < k < BufferSize, with the leaders of fifo_shift_buffer.              *)
ShiftMultiple(k, s) ==
  /\ writing' = TRUE
  /\ entries' = [i \in Positions |->
       IF i < BufferSize - k THEN entries[i + k]
       ELSE NewEntry(lookahead_slot(s, k), i - (BufferSize - k), s, i)]

(* The end of both: current_slot, then end_write. *)
StoreSlot(s) ==
  /\ writing /\ current_slot # s
  /\ current_slot' = s
  /\ UNCHANGED <<writing, entries>>

EndWrite(s) ==
  /\ writing /\ current_slot = s
  /\ writing' = FALSE
  /\ UNCHANGED <<entries, current_slot>>

(***************************************************************************)
(* start() and stop()                                                      *)
(***************************************************************************)
Start ==
  /\ spc = "stopped" /\ ~running
  /\ spc' = "fetch"
  /\ UNCHANGED <<svars, schedule, buffer, running, initial_slot, tpc, last_slot,
                 last_leader_idx, fvars>>

(* The wait for a connection and for a slot; both waits may time out. *)
StartFailed ==
  /\ spc = "slot"
  /\ spc' = "stopped" /\ subscribed' = FALSE
  /\ UNCHANGED <<slot, schedule, buffer, running, initial_slot, tpc, last_slot,
                 last_leader_idx, fvars>>

(* Variant of Populate, for mutation: a restart reuses the initial slot of *)
(* the first start.                                                        *)
PopulateStale ==
  /\ spc = "slot" /\ slot # 0
  /\ initial_slot' = IF initial_slot = 0 THEN slot ELSE initial_slot
  /\ Update(initial_slot')
  /\ spc' = "populate"
  /\ UNCHANGED <<svars, schedule, current_slot, running, tpc, last_slot,
                 last_leader_idx, fvars>>

(* The load of initial_slot and update_buffer. *)
Populate ==
  /\ spc = "slot" /\ slot # 0
  /\ initial_slot' = slot
  /\ Update(slot)
  /\ spc' = "populate"
  /\ UNCHANGED <<svars, schedule, current_slot, running, tpc, last_slot,
                 last_leader_idx, fvars>>

PopulateStep ==
  /\ spc = "populate"
  /\ StoreSlot(initial_slot) \/ EndWrite(initial_slot)
  /\ UNCHANGED <<svars, schedule, tracker, fvars>>

(* running is set, the task and the tracker thread are spawned. *)
Spawn ==
  /\ spc = "populate" /\ ~writing
  /\ running' = TRUE /\ tpc' = "first" /\ spc' = "started"
  /\ UNCHANGED <<svars, schedule, buffer, initial_slot, last_slot,
                 last_leader_idx, fvars>>

(* stop(): the flag, the subscriber and the task, which loses an RPC call  *)
(* in flight unless its last answer has arrived.                           *)
Stop ==
  /\ spc = "started"
  /\ running' = FALSE /\ spc' = "join" /\ subscribed' = FALSE
  /\ \/ UNCHANGED fetched
     \/ fetched' = [fetched EXCEPT !["task"] = NoEpoch]
  /\ UNCHANGED <<slot, cache, buffer, initial_slot, tpc, last_slot,
                 last_leader_idx, fvars>>

(* The end of stop(): the thread has been joined. *)
Join ==
  /\ spc = "join" /\ tpc = "off"
  /\ spc' = "stopped"
  /\ UNCHANGED <<svars, schedule, buffer, running, initial_slot, tpc, last_slot,
                 last_leader_idx, fvars>>

(***************************************************************************)
(* The tracker thread                                                      *)
(***************************************************************************)

(* busy_spin_loop: the wait for a valid slot. *)
FirstSlot ==
  /\ tpc = "first" /\ running /\ slot # 0
  /\ last_slot' = slot /\ last_leader_idx' = Window(slot)
  /\ tpc' = "spin"
  /\ UNCHANGED <<svars, schedule, buffer, running, spc, initial_slot, fvars>>

(* One round of its main loop begins with the load of the slot, which may  *)
(* be stale, and so may the schedule be another one, when it is used.      *)
SeeSlot ==
  /\ tpc = "spin" /\ running /\ slot # last_slot
  /\ last_slot' = slot
  /\ tpc' = "shift"
  /\ UNCHANGED <<svars, schedule, buffer, running, spc, initial_slot,
                 last_leader_idx, fvars>>

(* Variant of SpinOnce, for mutation: last_leader_idx is not moved on. *)
SpinOnceKeepsIndex ==
  /\ tpc = "shift"
  /\ LET passed == Window(last_slot) - last_leader_idx IN
     \/ /\ passed >= BufferSize
        /\ Update(last_slot) /\ tpc' = "write" /\ UNCHANGED current_slot
     \/ /\ passed \in 1..(BufferSize - 1)
        /\ ShiftMultiple(passed, last_slot) /\ tpc' = "write" /\ UNCHANGED current_slot
     \/ /\ passed <= 0
        /\ current_slot' = IF passed = 0 THEN last_slot ELSE current_slot
        /\ tpc' = "spin" /\ UNCHANGED <<writing, entries>>
  /\ UNCHANGED <<svars, schedule, running, spc, initial_slot, last_slot,
                 last_leader_idx, fvars>>

(* Variant of SpinOnce, for mutation: a slot change within the window of   *)
(* the current leader is not passed on.                                    *)
SpinOnceDropsSlot ==
  /\ tpc = "shift"
  /\ LET passed == Window(last_slot) - last_leader_idx IN
     \/ /\ passed >= BufferSize
        /\ Update(last_slot) /\ tpc' = "write" /\ UNCHANGED current_slot
     \/ /\ passed \in 1..(BufferSize - 1)
        /\ ShiftMultiple(passed, last_slot) /\ tpc' = "write" /\ UNCHANGED current_slot
     \/ /\ passed <= 0
        /\ tpc' = "spin" /\ UNCHANGED buffer
  /\ last_leader_idx' = Window(last_slot)
  /\ UNCHANGED <<svars, schedule, running, spc, initial_slot, last_slot, fvars>>

(* The rest of the round.  A jump back to an earlier window counts as no   *)
(* leader passed, and shift_multiple(0) returns before it does anything.   *)
SpinOnce ==
  /\ tpc = "shift"
  /\ LET passed == Window(last_slot) - last_leader_idx IN
     \/ /\ passed >= BufferSize
        /\ Update(last_slot) /\ tpc' = "write" /\ UNCHANGED current_slot
     \/ /\ passed \in 1..(BufferSize - 1)
        /\ ShiftMultiple(passed, last_slot) /\ tpc' = "write" /\ UNCHANGED current_slot
     \/ /\ passed <= 0
        /\ current_slot' = IF passed = 0 THEN last_slot ELSE current_slot
        /\ tpc' = "spin" /\ UNCHANGED <<writing, entries>>
  /\ last_leader_idx' = Window(last_slot)
  /\ UNCHANGED <<svars, schedule, running, spc, initial_slot, last_slot, fvars>>

WriteStep ==
  /\ tpc = "write"
  /\ \/ StoreSlot(last_slot) /\ UNCHANGED tpc
     \/ EndWrite(last_slot) /\ tpc' = "spin"
  /\ UNCHANGED <<svars, schedule, running, spc, initial_slot, last_slot,
                 last_leader_idx, fvars>>

(* Variant of ThreadExit, for mutation: only the main loop looks at the    *)
(* flag, and only when the slot has changed.                               *)
ThreadExitOnChange ==
  /\ tpc = "spin" /\ ~running /\ slot # last_slot
  /\ tpc' = "off"
  /\ UNCHANGED <<svars, schedule, buffer, running, spc, initial_slot, last_slot,
                 last_leader_idx, fvars>>

ThreadExit ==
  /\ tpc \in {"first", "spin"} /\ ~running
  /\ tpc' = "off"
  /\ UNCHANGED <<svars, schedule, buffer, running, spc, initial_slot, last_slot,
                 last_leader_idx, fvars>>

(***************************************************************************)
(* The sender                                                              *)
(***************************************************************************)

(* send_fanout *)
BeginFanout ==
  /\ fpc = "idle"
  /\ fpc' = "valid" /\ fi' = 0 /\ fseen' = <<>>
  /\ UNCHANGED <<svars, schedule, buffer, tracker>>

(* LeaderLookup::is_valid(i): an entry without a leader ends the fanout. *)
IsValid ==
  /\ fpc = "valid" /\ ~writing
  /\ fpc' = IF fi < Fanout /\ entries[fi].leader # EMPTY THEN "get" ELSE "idle"
  /\ UNCHANGED <<svars, schedule, buffer, tracker, fi, fseen>>

(* LeaderLookup::get_leader(i): a second read of the entry, which may have *)
(* been shifted meanwhile.                                                 *)
GetLeader ==
  /\ fpc = "get" /\ ~writing
  /\ fseen' = IF entries[fi].leader # EMPTY
                THEN Append(fseen, entries[fi].start_slot) ELSE fseen
  /\ fi' = fi + 1
  /\ fpc' = IF fi + 1 < Fanout THEN "valid" ELSE "idle"
  /\ UNCHANGED <<svars, schedule, buffer, tracker>>

(***************************************************************************)
(* The specification                                                       *)
(***************************************************************************)
TrackerThread == FirstSlot \/ SeeSlot \/ SpinOnce \/ WriteStep \/ ThreadExit

StartStop ==
  Start \/ StartFailed \/ Populate \/ PopulateStep \/ Spawn \/ Stop \/ Join

Sender == BeginFanout \/ IsValid \/ GetLeader

Next ==
  \/ \E s \in 1..MaxSlot : SlotUpdate(s)
  \/ \E t \in Refreshers : RefreshBegin(t) \/ RefreshStore(t) \/ RefreshFail(t)
  \/ StartStop
  \/ TrackerThread
  \/ Sender

Spec == Init /\ [][Next]_vars

(* The tracker thread keeps spinning and join() returns once it can. *)
FairSpec == Spec /\ WF_vars(TrackerThread) /\ WF_vars(Join)

(***************************************************************************)
(* Properties                                                              *)
(***************************************************************************)
Epochs == Nat \cup {NoEpoch}

(* Every variable has the type its struct gives it; a write of the buffer  *)
(* is in progress only in start() or in the tracker thread, never in both. *)
TypeOK ==
  /\ slot \in Nat /\ subscribed \in BOOLEAN
  /\ cache \in Epochs /\ fetched \in [Refreshers -> Epochs]
  /\ writing \in BOOLEAN /\ current_slot \in Nat
  /\ entries \in [Positions -> [leader : Nat \cup {EMPTY}, start_slot : Nat]]
  /\ running \in BOOLEAN /\ initial_slot \in Nat
  /\ spc \in {"stopped", "fetch", "slot", "populate", "started", "join"}
  /\ tpc \in {"off", "first", "spin", "shift", "write"}
  /\ last_slot \in Nat /\ last_leader_idx \in Nat
  /\ fpc \in {"idle", "valid", "get"} /\ fi \in Nat /\ fseen \in Seq(Nat)
  /\ tpc # "off" => spc \in {"started", "join"}
  /\ writing => spc = "populate" \/ tpc = "write"

(* The leader of an entry is the leader of the slots the entry names:      *)
(* shifted entries keep both, an appended one gets its leader from         *)
(* lookahead_slot (tracker.rs:252-258) and its start slot from the slot    *)
(* and its position (leader_buffer.rs:239, 273-275), yet the two never     *)
(* part, whatever slots are skipped or reported again.                     *)
EntriesMatchSchedule ==
  \A i \in Positions : entries[i].leader # EMPTY =>
    entries[i].start_slot = entries[i].leader * SlotsPerLeader

(* Once populated, the buffer lists windows in ascending order: no leader  *)
(* appears twice and none before an earlier one.  Needs slots that do not  *)
(* go back.                                                                *)
PositionsAscend ==
  (\E i \in Positions : entries[i].start_slot > 0) =>
    \A i, j \in Positions : i < j => entries[i].start_slot < entries[j].start_slot

(* A send_fanout reads the positions one by one and twice each, and the    *)
(* buffer may be shifted in between; it still addresses no leader twice    *)
(* and the leaders in the order of their windows.                          *)
FanoutAscends ==
  \A i, j \in 1..Len(fseen) : i < j => fseen[i] < fseen[j]

(* How many windows the buffer is behind the tracker. *)
Drift == last_leader_idx - Window(entries[0].start_slot)

(* A running tracker loses no more ground: whatever lag it has stays as it *)
(* is, or is made good by a full update.                                   *)
DriftNeverGrows == [][tpc = "shift" => Drift' \in {Drift, 0}]_vars

(* leader_buffer.rs: "position 0 = current leader". *)
PositionZeroIsCurrent ==
  (tpc = "spin" /\ ~writing) =>
    Window(entries[0].start_slot) = Window(current_slot)

(* The tracker's comment on the refresh task: the schedule is refreshed    *)
(* when the epoch boundary approaches, so that the leader at position 0 is *)
(* known whenever the cached schedule lists it.                            *)
CurrentLeaderKnown ==
  LET w == Window(current_slot) IN
  (tpc = "spin" /\ ~writing /\ w = Window(entries[0].start_slot)) =>
    (ScheduleAt(current_slot) # EMPTY => entries[0].leader = ScheduleAt(current_slot))

(* The tracker catches up with every slot that is reported while its loop  *)
(* runs, however many were skipped, unless it is stopped first.            *)
CatchesUp ==
  \A s \in 1..MaxSlot :
    (tpc = "spin" /\ slot = s /\ last_slot # s) ~> (current_slot >= s \/ ~running)

(* stop() returns: the thread it joins notices the flag. *)
StopReturns == (spc = "join") ~> (spc = "stopped")
=============================================================================

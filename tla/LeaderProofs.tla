---------------------------- MODULE LeaderProofs ----------------------------
(***************************************************************************)
(* Proofs about the leader tracker, for every size of the buffer, of the   *)
(* windows and of the epochs.                                              *)
(***************************************************************************)
EXTENDS LeaderTracker, TLAPS

(* The window that the entry at position i is about. *)
Win(i) == Window(entries[i].start_slot)

(***************************************************************************)
(* Slots and windows                                                       *)
(***************************************************************************)
LEMMA WindowNat == ASSUME NEW s \in Nat PROVE Window(s) \in Nat
  BY SizeAssumption DEF Window

LEMMA EpochNat == ASSUME NEW s \in Nat PROVE Epoch(s) \in Nat
<1> DEFINE w == Window(s)
<1>1. w \in Nat
  BY WindowNat
<1> HIDE DEF w
<1>2. w \div WindowsPerEpoch \in Nat
  BY <1>1, SizeAssumption
<1> QED
  BY <1>2 DEF Epoch, w

(* The start slot of a window, and the windows of start slots. *)
LEMMA StartNat == ASSUME NEW w \in Nat PROVE w * SlotsPerLeader \in Nat
  BY SizeAssumption

LEMMA WindowOfStart == ASSUME NEW w \in Nat PROVE Window(w * SlotsPerLeader) = w
  BY SizeAssumption DEF Window

(* Start slots are counted in windows. *)
LEMMA StartSum ==
  ASSUME NEW s \in Nat, NEW i \in Nat
  PROVE  Window(s) * SlotsPerLeader + i * SlotsPerLeader = (Window(s) + i) * SlotsPerLeader
<1>1. PICK w \in Nat : w = Window(s)
  BY WindowNat
<1>2. w * SlotsPerLeader + i * SlotsPerLeader = (w + i) * SlotsPerLeader
  BY SizeAssumption
<1>3. QED
  BY <1>1, <1>2

LEMMA StartMonotone ==
  ASSUME NEW v \in Nat, NEW w \in Nat, v < w
  PROVE  v * SlotsPerLeader < w * SlotsPerLeader
<1>1. PICK k \in Nat : k >= 1 /\ w = v + k
  <2>1. w - v \in Nat /\ w - v >= 1 /\ w = v + (w - v)
    OBVIOUS
  <2> QED
    BY <2>1
<1>2. (v + k) * SlotsPerLeader = v * SlotsPerLeader + k * SlotsPerLeader
  BY SizeAssumption
<1>3. k * SlotsPerLeader >= 1
  BY <1>1, SizeAssumption
<1> QED
  BY <1>1, <1>2, <1>3, SizeAssumption, StartNat

LEMMA WindowMonotone ==
  ASSUME NEW s \in Nat, NEW t \in Nat, s <= t
  PROVE  Window(s) <= Window(t)
<1> DEFINE v == s \div SlotsPerLeader
           w == t \div SlotsPerLeader
<1>1. v \in Nat /\ w \in Nat
  BY SizeAssumption
<1>2. v * SlotsPerLeader <= s
  BY SizeAssumption
<1>3. t < (w + 1) * SlotsPerLeader
  BY SizeAssumption
<1>4. w + 1 \in Nat
  BY <1>1
<1>5. CASE w < v
  <2> HIDE DEF v, w
  <2>1. (w + 1) * SlotsPerLeader <= v * SlotsPerLeader
    BY <1>1, <1>4, <1>5, StartMonotone, StartNat
  <2>2. (w + 1) * SlotsPerLeader \in Nat /\ v * SlotsPerLeader \in Nat
    BY <1>1, <1>4, StartNat
  <2> QED
    BY <1>2, <1>3, <2>1, <2>2
<1> QED
  BY <1>1, <1>5 DEF Window

(***************************************************************************)
(* The invariant.  The first part holds whatever slots are reported, the   *)
(* second one when they never go back.                                     *)
(***************************************************************************)

(* An entry starts at the first slot of a window and names, if anyone, the *)
(* leader of that window.                                                  *)
Aligned ==
  \A i \in Positions :
    /\ entries[i].start_slot = Win(i) * SlotsPerLeader
    /\ entries[i].leader # EMPTY => entries[i].leader = Win(i)

(* Only start() waits for the first schedule. *)
StartFetches == fetched["start"] # NoEpoch => spc = "fetch"

(* get_leader is only asked for a position that the fanout covers. *)
FanoutBound == fpc = "get" => fi < Fanout

BaseInv == TypeOK /\ Aligned /\ StartFetches /\ FanoutBound

(* The buffer is as new, or it lists windows in ascending order. *)
Blank == \A i \in Positions : entries[i].leader = EMPTY /\ Win(i) = 0
Strict == \A i, j \in Positions : i < j => Win(i) < Win(j)
Ordered ==
  /\ Blank \/ Strict
  /\ spc \in {"populate", "started", "join"} => Strict

(* No entry is ahead of the slot that has been reported. *)
Behind ==
  /\ last_slot <= slot
  /\ \A i \in Positions : Win(i) <= Window(slot) + i

(* The windows that position i is behind the tracker. *)
Lag(i) == last_leader_idx + i - Win(i)

(* In the main loop no entry is ahead of the tracker, and the entries lag  *)
(* all alike up to some position and not at all from there on.             *)
InLoop ==
  tpc \in {"spin", "shift", "write"} =>
    /\ last_leader_idx <= Window(last_slot)
    /\ tpc # "shift" => last_leader_idx = Window(last_slot)
    /\ \A i \in Positions : Win(i) <= last_leader_idx + i
    /\ \A i, j \in Positions : i <= j => Lag(j) \in {Lag(i), 0}

(* Before the main loop the buffer is as start() has filled it. *)
Filled ==
  spc = "populate" \/ tpc = "first" =>
    \A i \in Positions : Win(i) = Win(0) + i

(* What send_fanout has addressed comes before everything it may still     *)
(* read.                                                                   *)
FanoutBehind ==
  \A x \in 1..Len(fseen), j \in Positions :
    j >= fi => fseen[x] < entries[j].start_slot

OrderInv ==
  /\ BaseInv /\ Ordered /\ Behind /\ InLoop /\ Filled /\ FanoutBehind
  /\ FanoutAscends

(***************************************************************************)
(* What a write does to the windows of the buffer                          *)
(***************************************************************************)
EntryType == [leader : Nat \cup {EMPTY}, start_slot : Nat]

LEMMA WinNat == ASSUME TypeOK, NEW i \in Positions PROVE Win(i) \in Nat
  BY WindowNat DEF TypeOK, Win

(* The two computations of a new entry agree when the position is as far   *)
(* from the slot as the element from the slot that is fetched.             *)
LEMMA NewEntryFits ==
  ASSUME NEW f \in Nat, NEW j \in Nat, NEW s \in Nat, NEW i \in Nat,
         Window(f) + j = Window(s) + i
  PROVE  LET e == NewEntry(f, j, s, i) IN
         /\ e \in EntryType
         /\ e.start_slot = (Window(s) + i) * SlotsPerLeader
         /\ Window(e.start_slot) = Window(s) + i
         /\ e.leader # EMPTY => e.leader = Window(s) + i
<1>1. PICK w \in Nat : w = Window(s) + i
  BY WindowNat
<1>2. w * SlotsPerLeader \in Nat /\ Window(w * SlotsPerLeader) = w
  BY <1>1, StartNat, WindowOfStart
<1>3. base_slot(s) + i * SlotsPerLeader = w * SlotsPerLeader
  BY <1>1, StartSum DEF base_slot
<1>4. base_slot(f) + j * SlotsPerLeader = w * SlotsPerLeader
  BY <1>1, StartSum DEF base_slot
<1>5. NextLeader(f, j) \in {w, EMPTY}
  BY <1>2, <1>4 DEF NextLeader, ScheduleAt
<1>6. QED
  BY <1>1, <1>2, <1>3, <1>5 DEF NewEntry, EntryType

LEMMA UpdateEntries ==
  ASSUME NEW s \in Nat, Update(s)
  PROVE  /\ Aligned' /\ entries' \in [Positions -> EntryType]
         /\ \A i \in Positions : Win(i)' = Window(s) + i
<1>1. Window(s) \in Nat
  BY WindowNat
<1>2. \A i \in Positions : entries'[i] = NewEntry(s, i, s, i) /\ i \in Nat
  BY SizeAssumption DEF Update, Positions
<1>3. entries' \in [Positions -> EntryType]
  BY <1>1, <1>2, NewEntryFits DEF Update
<1>4. \A i \in Positions : Win(i)' = Window(s) + i
  BY <1>1, <1>2, NewEntryFits DEF Win
<1>5. Aligned'
  BY <1>1, <1>2, <1>4, NewEntryFits DEF Aligned
<1> QED
  BY <1>3, <1>4, <1>5

LEMMA ShiftEntries ==
  ASSUME TypeOK, Aligned, NEW s \in Nat, NEW k \in 1..(BufferSize - 1),
         ShiftMultiple(k, s)
  PROVE  /\ Aligned' /\ entries' \in [Positions -> EntryType]
         /\ \A i \in Positions :
              /\ i < BufferSize - k => i + k \in Positions /\ Win(i)' = Win(i + k)
              /\ i >= BufferSize - k => Win(i)' = Window(s) + i
<1>1. Window(s) \in Nat
  BY WindowNat
<1>2. ASSUME NEW i \in Positions, i < BufferSize - k
      PROVE  i + k \in Positions /\ entries'[i] = entries[i + k]
  BY <1>2, SizeAssumption DEF Positions, ShiftMultiple
<1>3. ASSUME NEW i \in Positions, i >= BufferSize - k
      PROVE  /\ entries'[i] \in EntryType
             /\ entries'[i].start_slot = (Window(s) + i) * SlotsPerLeader
             /\ Window(entries'[i].start_slot) = Window(s) + i
             /\ entries'[i].leader # EMPTY => entries'[i].leader = Window(s) + i
  <2>1. PICK f \in Nat : f = lookahead_slot(s, k)
    <3>1. Window(s) + (BufferSize - k) \in Nat
      BY <1>1, SizeAssumption
    <3>2. QED
      BY <3>1, StartNat DEF lookahead_slot
  <2>2. PICK j \in Nat : j = i - (BufferSize - k)
    BY <1>3, SizeAssumption DEF Positions
  <2>3. Window(f) = Window(s) + (BufferSize - k)
    <3>1. Window(s) + (BufferSize - k) \in Nat
      BY <1>1, SizeAssumption
    <3>2. QED
      BY <2>1, <3>1, WindowOfStart DEF lookahead_slot
  <2>4. Window(f) + j = Window(s) + i /\ i \in Nat
    BY <1>1, <2>2, <2>3, SizeAssumption DEF Positions
  <2>5. entries'[i] = NewEntry(f, j, s, i)
    BY <1>3, <2>1, <2>2, SizeAssumption DEF Positions, ShiftMultiple
  <2>6. QED
    BY <2>4, <2>5, NewEntryFits
<1>4. \A i \in Positions : i < BufferSize - k \/ i >= BufferSize - k
  BY SizeAssumption DEF Positions
<1>5. \A i \in Positions : entries'[i] \in EntryType
  <2>1. \A i \in Positions : entries[i] \in EntryType
    BY DEF TypeOK, EntryType
  <2> QED
    BY <1>2, <1>3, <1>4, <2>1
<1>6. entries' \in [Positions -> EntryType]
  BY <1>5 DEF ShiftMultiple
<1>7. ASSUME NEW i \in Positions, i < BufferSize - k
      PROVE  Win(i)' = Win(i + k)
  BY <1>2, <1>7 DEF Win
<1>8. ASSUME NEW i \in Positions, i >= BufferSize - k
      PROVE  Win(i)' = Window(s) + i
  BY <1>3, <1>8 DEF Win
<1>9. Aligned'
  <2> SUFFICES ASSUME NEW i \in Positions
               PROVE  /\ entries'[i].start_slot = Win(i)' * SlotsPerLeader
                      /\ entries'[i].leader # EMPTY => entries'[i].leader = Win(i)'
    BY DEF Aligned
  <2>1. CASE i < BufferSize - k
    BY <2>1, <1>2, <1>7 DEF Aligned
  <2>2. CASE i >= BufferSize - k
    BY <2>2, <1>3, <1>8
  <2> QED
    BY <2>1, <2>2, <1>4
<1> QED
  BY <1>2, <1>6, <1>7, <1>8, <1>9

LEMMA SameEntries ==
  ASSUME UNCHANGED entries
  PROVE  /\ Aligned => Aligned'
         /\ \A i \in Positions : Win(i)' = Win(i)
  BY DEF Aligned, Win

(***************************************************************************)
(* The part that holds whatever slots are reported                         *)
(***************************************************************************)
LEMMA BaseInit == Init => BaseInv
<1> SUFFICES ASSUME Init PROVE BaseInv
  OBVIOUS
<1>1. Window(0) = 0 /\ 0 * SlotsPerLeader = 0
  BY SizeAssumption DEF Window
<1>2. TypeOK
  <2>1. entries \in [Positions -> [leader : Nat \cup {EMPTY}, start_slot : Nat]]
    BY DEF Init
  <2>2. cache \in Epochs /\ fetched \in [Refreshers -> Epochs]
    BY DEF Init, Epochs
  <2>3. fseen \in Seq(Nat)
    BY DEF Init
  <2> QED
    BY <2>1, <2>2, <2>3 DEF Init, TypeOK
<1>3. Aligned /\ StartFetches /\ FanoutBound
  BY <1>1 DEF Init, Aligned, Win, StartFetches, FanoutBound, Refreshers
<1> QED
  BY <1>2, <1>3 DEF BaseInv

LEMMA SlotUpdateBase ==
  ASSUME BaseInv, NEW s \in 1..MaxSlot, SlotUpdate(s)
  PROVE  BaseInv'
<1>1. TypeOK'
  BY WorldAssumption DEF BaseInv, TypeOK, SlotUpdate, schedule, buffer, tracker, fvars
<1>2. Aligned'
  BY SameEntries DEF BaseInv, SlotUpdate, buffer
<1> QED
  BY <1>1, <1>2 DEF BaseInv, StartFetches, FanoutBound, SlotUpdate, schedule,
     tracker, fvars

LEMMA RefreshBase ==
  ASSUME BaseInv, NEW t \in Refreshers,
         RefreshBegin(t) \/ RefreshStore(t) \/ RefreshFail(t)
  PROVE  BaseInv'
<1>1. CASE RefreshBegin(t)
  <2>1. PICK s \in (slot - RpcSkew)..(slot + RpcSkew) :
          s >= 0 /\ fetched' = [fetched EXCEPT ![t] = Epoch(s)]
    BY <1>1 DEF RefreshBegin
  <2>2. Epoch(s) \in Nat
    BY <2>1, EpochNat, WorldAssumption DEF BaseInv, TypeOK
  <2>3. TypeOK'
    BY <1>1, <2>1, <2>2 DEF BaseInv, TypeOK, RefreshBegin, Epochs, svars, buffer,
       tracker, fvars
  <2>4. StartFetches' /\ FanoutBound'
    BY <1>1, <2>1 DEF BaseInv, TypeOK, StartFetches, FanoutBound, RefreshBegin, tracker,
       fvars, Refreshers
  <2> QED
    BY <1>1, <2>3, <2>4, SameEntries DEF BaseInv, RefreshBegin, buffer
<1>2. CASE RefreshStore(t)
  <2>1. TypeOK'
    <3>1. t = "start" => spc = "fetch"
      BY <1>2 DEF RefreshStore, BaseInv, StartFetches
    <3> QED
      BY <1>2, <3>1 DEF BaseInv, TypeOK, RefreshStore, Epochs, buffer, fvars
  <2>2. StartFetches' /\ FanoutBound'
    BY <1>2 DEF BaseInv, TypeOK, StartFetches, FanoutBound, RefreshStore, fvars,
       Refreshers
  <2> QED
    BY <1>2, <2>1, <2>2, SameEntries DEF BaseInv, RefreshStore, buffer
<1>3. CASE RefreshFail(t)
  <2>1. TypeOK'
    <3>1. t = "start" => spc = "fetch"
      BY <1>3 DEF RefreshFail, BaseInv, StartFetches
    <3> QED
      BY <1>3, <3>1 DEF BaseInv, TypeOK, RefreshFail, Epochs, svars, buffer, fvars
  <2>2. StartFetches' /\ FanoutBound'
    BY <1>3 DEF BaseInv, TypeOK, StartFetches, FanoutBound, RefreshFail, fvars,
       Refreshers
  <2> QED
    BY <1>3, <2>1, <2>2, SameEntries DEF BaseInv, RefreshFail, buffer
<1> QED
  BY <1>1, <1>2, <1>3

LEMMA StartStopBase ==
  ASSUME BaseInv, StartStop
  PROVE  BaseInv'
<1>1. CASE Start
  <2>1. TypeOK' /\ StartFetches' /\ FanoutBound'
    BY <1>1 DEF BaseInv, TypeOK, StartFetches, FanoutBound, Start, svars, schedule, buffer, fvars
  <2> QED
    BY <1>1, <2>1, SameEntries DEF BaseInv, Start, buffer
<1>2. CASE StartFailed
  <2>1. TypeOK' /\ StartFetches' /\ FanoutBound'
    BY <1>2 DEF BaseInv, TypeOK, StartFetches, FanoutBound, StartFailed, schedule, buffer, fvars
  <2> QED
    BY <1>2, <2>1, SameEntries DEF BaseInv, StartFailed, buffer
<1>3. CASE Populate
  <2>1. Aligned' /\ entries' \in [Positions -> EntryType]
    BY <1>3, UpdateEntries DEF BaseInv, TypeOK, Populate
  <2>2. TypeOK' /\ StartFetches' /\ FanoutBound'
    BY <1>3, <2>1 DEF BaseInv, TypeOK, StartFetches, FanoutBound, Populate, Update, EntryType,
       svars, schedule, fvars
  <2> QED
    BY <2>1, <2>2 DEF BaseInv
<1>4. CASE PopulateStep
  <2>1. TypeOK' /\ StartFetches' /\ FanoutBound' /\ UNCHANGED entries
    BY <1>4 DEF BaseInv, TypeOK, StartFetches, FanoutBound, PopulateStep, StoreSlot, EndWrite,
       svars, schedule, tracker, fvars
  <2> QED
    BY <2>1, SameEntries DEF BaseInv
<1>5. CASE Spawn
  <2>1. TypeOK' /\ StartFetches' /\ FanoutBound'
    BY <1>5 DEF BaseInv, TypeOK, StartFetches, FanoutBound, Spawn, svars, schedule, buffer, fvars
  <2> QED
    BY <1>5, <2>1, SameEntries DEF BaseInv, Spawn, buffer
<1>6. CASE Stop
  <2>1. TypeOK' /\ StartFetches' /\ FanoutBound'
    BY <1>6 DEF BaseInv, TypeOK, StartFetches, FanoutBound, Stop, Epochs, Refreshers, buffer, fvars
  <2> QED
    BY <1>6, <2>1, SameEntries DEF BaseInv, Stop, buffer
<1>7. CASE Join
  <2>1. TypeOK' /\ StartFetches' /\ FanoutBound'
    BY <1>7 DEF BaseInv, TypeOK, StartFetches, FanoutBound, Join, svars, schedule, buffer, fvars
  <2> QED
    BY <1>7, <2>1, SameEntries DEF BaseInv, Join, buffer
<1> QED
  BY <1>1, <1>2, <1>3, <1>4, <1>5, <1>6, <1>7 DEF StartStop

LEMMA TrackerBase ==
  ASSUME BaseInv, TrackerThread
  PROVE  BaseInv'
<1>1. CASE FirstSlot
  <2>1. Window(slot) \in Nat
    BY WindowNat DEF BaseInv, TypeOK
  <2>2. TypeOK' /\ StartFetches' /\ FanoutBound'
    BY <1>1, <2>1 DEF BaseInv, TypeOK, StartFetches, FanoutBound, FirstSlot, svars, schedule,
       buffer, fvars
  <2> QED
    BY <1>1, <2>2, SameEntries DEF BaseInv, FirstSlot, buffer
<1>2. CASE SeeSlot
  <2>1. TypeOK' /\ StartFetches' /\ FanoutBound'
    BY <1>2 DEF BaseInv, TypeOK, StartFetches, FanoutBound, SeeSlot, svars, schedule, buffer, fvars
  <2> QED
    BY <1>2, <2>1, SameEntries DEF BaseInv, SeeSlot, buffer
<1>3. CASE SpinOnce
  <2>1. last_slot \in Nat /\ last_leader_idx \in Nat /\ Window(last_slot) \in Nat
    BY WindowNat DEF BaseInv, TypeOK
  <2>2. Aligned' /\ entries' \in [Positions -> EntryType]
    <3>1. CASE Update(last_slot)
      BY <3>1, <2>1, UpdateEntries
    <3>2. CASE \E k \in 1..(BufferSize - 1) : ShiftMultiple(k, last_slot)
      BY <3>2, <2>1, ShiftEntries DEF BaseInv
    <3>3. CASE UNCHANGED entries
      BY <3>3, SameEntries DEF BaseInv, TypeOK, EntryType
    <3> QED
      BY <1>3, <3>1, <3>2, <3>3 DEF SpinOnce
  <2>3. /\ writing' \in BOOLEAN /\ current_slot' \in Nat
        /\ tpc' \in {"spin", "write"} /\ (writing' => tpc' = "write")
    <3>1. tpc = "shift" /\ ~writing
      BY <1>3 DEF BaseInv, TypeOK, SpinOnce
    <3>2. CASE tpc' = "write" /\ writing' = TRUE /\ UNCHANGED current_slot
      BY <3>2 DEF BaseInv, TypeOK
    <3>3. CASE /\ tpc' = "spin" /\ UNCHANGED writing
               /\ current_slot' \in {last_slot, current_slot}
      BY <2>1, <3>1, <3>3 DEF BaseInv, TypeOK
    <3> QED
      BY <1>3, <3>2, <3>3 DEF SpinOnce, Update, ShiftMultiple
  <2>4. TypeOK' /\ StartFetches' /\ FanoutBound'
    BY <1>3, <2>1, <2>2, <2>3 DEF BaseInv, TypeOK, StartFetches, FanoutBound, SpinOnce,
       EntryType, svars, schedule, fvars
  <2> QED
    BY <2>2, <2>4 DEF BaseInv
<1>4. CASE WriteStep
  <2>1. TypeOK' /\ StartFetches' /\ FanoutBound' /\ UNCHANGED entries
    BY <1>4 DEF BaseInv, TypeOK, StartFetches, FanoutBound, WriteStep, StoreSlot, EndWrite,
       svars, schedule, fvars
  <2> QED
    BY <2>1, SameEntries DEF BaseInv
<1>5. CASE ThreadExit
  <2>1. TypeOK' /\ StartFetches' /\ FanoutBound'
    BY <1>5 DEF BaseInv, TypeOK, StartFetches, FanoutBound, ThreadExit, svars, schedule,
       buffer, fvars
  <2> QED
    BY <1>5, <2>1, SameEntries DEF BaseInv, ThreadExit, buffer
<1> QED
  BY <1>1, <1>2, <1>3, <1>4, <1>5 DEF TrackerThread

LEMMA SenderBase ==
  ASSUME BaseInv, Sender
  PROVE  BaseInv'
<1>1. UNCHANGED <<slot, subscribed, cache, fetched, writing, entries, current_slot,
                  running, spc, initial_slot, tpc, last_slot, last_leader_idx>>
  BY DEF Sender, BeginFanout, IsValid, GetLeader, svars, schedule, buffer, tracker
<1>2. fpc' \in {"idle", "valid", "get"} /\ fi' \in Nat /\ fseen' \in Seq(Nat)
  <2>1. CASE BeginFanout
    BY <2>1 DEF BeginFanout
  <2>2. CASE IsValid
    BY <2>2 DEF IsValid, BaseInv, TypeOK
  <2>3. CASE GetLeader
    <3>0. fi \in Positions
      BY <2>3, WorldAssumption, SizeAssumption
      DEF GetLeader, BaseInv, FanoutBound, TypeOK, Positions
    <3>1. fseen' \in Seq(Nat)
      <4>1. CASE fseen' = fseen
        BY <4>1 DEF BaseInv, TypeOK
      <4>2. CASE fi \in Positions /\ fseen' = Append(fseen, entries[fi].start_slot)
        BY <4>2 DEF BaseInv, TypeOK
      <4> QED
        BY <2>3, <3>0, <4>1, <4>2 DEF GetLeader
    <3> QED
      BY <2>3, <3>1 DEF GetLeader, BaseInv, TypeOK
  <2> QED
    BY <2>1, <2>2, <2>3 DEF Sender
<1>3. TypeOK' /\ StartFetches'
  BY <1>1, <1>2 DEF BaseInv, TypeOK, StartFetches
<1>4. FanoutBound'
  BY DEF Sender, BeginFanout, IsValid, GetLeader, FanoutBound
<1> QED
  BY <1>1, <1>3, <1>4, SameEntries DEF BaseInv

LEMMA BaseStep == BaseInv /\ [Next]_vars => BaseInv'
<1> SUFFICES ASSUME BaseInv, [Next]_vars PROVE BaseInv'
  OBVIOUS
<1>1. CASE Next
  BY <1>1, SlotUpdateBase, RefreshBase, StartStopBase, TrackerBase, SenderBase
  DEF Next
<1>2. CASE UNCHANGED vars
  BY <1>2 DEF vars, svars, schedule, buffer, tracker, fvars, BaseInv, TypeOK,
     Aligned, Win, StartFetches, FanoutBound
<1> QED
  BY <1>1, <1>2

(* Every variable of the tracker, of start() and of the sender keeps its   *)
(* type, and the version of the buffer is odd only while start() or the    *)
(* tracker thread writes, never both, for any sequence of reported slots.  *)
THEOREM TypeCorrect == Spec => []TypeOK
  BY BaseInit, BaseStep, PTL DEF Spec, BaseInv

(* The leader of an entry is the leader of the slots the entry names: a    *)
(* shift, which moves old entries and computes the new ones in another     *)
(* way, never parts the two, even when reported slots go back.             *)
THEOREM EntriesMatch == Spec => []EntriesMatchSchedule
<1>1. BaseInv => EntriesMatchSchedule
  BY DEF BaseInv, Aligned, EntriesMatchSchedule
<1> QED
  BY <1>1, BaseInit, BaseStep, PTL DEF Spec

(***************************************************************************)
(* The part for slots that never go back                                   *)
(***************************************************************************)
LEMMA WinNatNext == ASSUME TypeOK', NEW i \in Positions PROVE Win(i)' \in Nat
  BY WindowNat DEF TypeOK, Win

LEMMA OrderInit == Init => OrderInv
<1> SUFFICES ASSUME Init PROVE OrderInv
  OBVIOUS
<1>1. BaseInv
  BY BaseInit
<1>2. Window(0) = 0
  BY SizeAssumption DEF Window
<1>3. \A i \in Positions : entries[i].leader = EMPTY /\ Win(i) = 0
  BY <1>2 DEF Init, Win
<1>4. Ordered
  BY <1>3 DEF Init, Ordered, Blank
<1>5. Behind
  BY <1>2, <1>3, SizeAssumption DEF Init, Behind, Positions
<1>6. InLoop /\ Filled
  BY DEF Init, InLoop, Filled
<1>7. FanoutBehind /\ FanoutAscends
  BY DEF Init, FanoutBehind, FanoutAscends
<1> QED
  BY <1>1, <1>4, <1>5, <1>6, <1>7 DEF OrderInv

(* What is left of a fanout keeps its place when entries only move on to   *)
(* later windows.                                                          *)
LEMMA FanoutKept ==
  ASSUME BaseInv, BaseInv', FanoutBehind, FanoutAscends, UNCHANGED fvars,
         \A i \in Positions : Win(i) <= Win(i)'
  PROVE  FanoutBehind' /\ FanoutAscends'
<1>1. fseen \in Seq(Nat)
  BY DEF BaseInv, TypeOK
<1>2. ASSUME NEW j \in Positions
      PROVE  /\ entries[j].start_slot <= entries'[j].start_slot
             /\ entries[j].start_slot \in Nat /\ entries'[j].start_slot \in Nat
  <2>1. Win(j) \in Nat /\ Win(j)' \in Nat
    BY WinNat, WinNatNext DEF BaseInv
  <2>2. entries[j].start_slot \in Nat /\ entries'[j].start_slot \in Nat
    BY DEF BaseInv, TypeOK
  <2>3. /\ entries[j].start_slot = Win(j) * SlotsPerLeader
        /\ entries'[j].start_slot = Win(j)' * SlotsPerLeader
    BY DEF BaseInv, Aligned
  <2>4. CASE Win(j) = Win(j)'
    BY <2>2, <2>3, <2>4
  <2>5. CASE Win(j) < Win(j)'
    BY <2>1, <2>2, <2>3, <2>5, StartMonotone
  <2> QED
    BY <2>1, <2>4, <2>5
<1>3. FanoutBehind'
  <2> SUFFICES ASSUME NEW x \in 1..Len(fseen), NEW j \in Positions, j >= fi
               PROVE  fseen[x] < entries'[j].start_slot
    BY DEF FanoutBehind, fvars
  <2>1. fseen[x] \in Nat /\ fseen[x] < entries[j].start_slot
    BY <1>1 DEF FanoutBehind
  <2> QED
    BY <1>2, <2>1
<1>4. FanoutAscends'
  BY DEF FanoutAscends, fvars
<1> QED
  BY <1>3, <1>4

(* A step that leaves the entries alone keeps everything that is said of   *)
(* them only.                                                              *)
LEMMA EntriesKept ==
  ASSUME OrderInv, BaseInv', UNCHANGED <<entries, fvars>>
  PROVE  /\ \A i \in Positions : Win(i)' = Win(i) /\ Win(i) \in Nat
         /\ Blank' = Blank /\ Strict' = Strict
         /\ FanoutBehind' /\ FanoutAscends'
<1>1. \A i \in Positions : Win(i)' = Win(i) /\ Win(i) \in Nat
  BY SameEntries, WinNat DEF OrderInv, BaseInv
<1>2. \A i \in Positions : Win(i) <= Win(i)'
  BY <1>1
<1>3. FanoutBehind' /\ FanoutAscends'
  BY <1>2, FanoutKept DEF OrderInv
<1>4. Blank' = Blank /\ Strict' = Strict
  BY DEF Blank, Strict, Win
<1> QED
  BY <1>1, <1>3, <1>4

LEMMA SlotUpdateOrder ==
  ASSUME OrderInv, ~SlotsRegress, NEW s \in 1..MaxSlot, SlotUpdate(s)
  PROVE  OrderInv'
<1>1. BaseInv'
  BY SlotUpdateBase DEF OrderInv
<1>2. /\ slot' = s /\ slot < s /\ s \in Nat /\ slot \in Nat /\ last_slot \in Nat
      /\ UNCHANGED <<entries, fvars, spc, tpc, last_slot, last_leader_idx>>
  BY WorldAssumption
  DEF OrderInv, BaseInv, TypeOK, SlotUpdate, buffer, tracker, fvars
<1>3. Window(slot) <= Window(s) /\ Window(slot) \in Nat /\ Window(s) \in Nat
  BY <1>2, WindowMonotone, WindowNat
<1>4. Behind'
  <2>1. last_slot' <= slot'
    BY <1>2 DEF OrderInv, Behind
  <2>2. ASSUME NEW i \in Positions PROVE Win(i)' <= Window(slot') + i
    <3>1. Win(i)' = Win(i) /\ Win(i) \in Nat /\ Win(i) <= Window(slot) + i
      BY <1>1, <1>2, EntriesKept DEF OrderInv, Behind
    <3> QED
      BY <1>2, <1>3, <3>1 DEF Positions
  <2> QED
    BY <2>1, <2>2 DEF Behind
<1>5. Ordered' /\ InLoop' /\ Filled'
  BY <1>2 DEF OrderInv, Ordered, Blank, Strict, InLoop, Filled, Lag, Win
<1> QED
  BY <1>1, <1>2, <1>4, <1>5, EntriesKept DEF OrderInv

(* The steps that touch neither the slot nor the buffer nor the tracker    *)
(* thread, and by which start() gets no further than to its first write.   *)
LEMMA IdleOrder ==
  ASSUME OrderInv, BaseInv',
         UNCHANGED <<entries, fvars, slot, tpc, last_slot, last_leader_idx>>,
         \/ spc' \in {"stopped", "fetch", "slot", spc}
         \/ spc = "started" /\ spc' = "join"
  PROVE  OrderInv'
<1>1. Ordered'
  BY EntriesKept DEF OrderInv, Ordered
<1>2. Behind' /\ InLoop'
  BY DEF OrderInv, Behind, InLoop, Lag, Win
<1>3. Filled'
  BY DEF OrderInv, Filled, Win, BaseInv, TypeOK
<1> QED
  BY <1>1, <1>2, <1>3, EntriesKept DEF OrderInv

LEMMA RefreshOrder ==
  ASSUME OrderInv, NEW t \in Refreshers,
         RefreshBegin(t) \/ RefreshStore(t) \/ RefreshFail(t)
  PROVE  OrderInv'
<1>1. BaseInv'
  BY RefreshBase DEF OrderInv
<1>2. /\ UNCHANGED <<entries, fvars, slot, tpc, last_slot, last_leader_idx>>
      /\ spc' \in {"stopped", "fetch", "slot", spc}
  BY DEF RefreshBegin, RefreshStore, RefreshFail, svars, buffer, tracker
<1> QED
  BY <1>1, <1>2, IdleOrder

(* The first write of start(): the entries move on to the current window.  *)
LEMMA PopulateOrder ==
  ASSUME OrderInv, Populate
  PROVE  OrderInv'
<1>1. BaseInv'
  BY StartStopBase DEF OrderInv, StartStop
<1>2. /\ UNCHANGED <<slot, last_slot, last_leader_idx, tpc, fvars>> /\ spc' = "populate"
      /\ tpc = "off" /\ slot \in Nat
  BY DEF Populate, OrderInv, BaseInv, TypeOK, svars
<1>3. Window(slot) \in Nat /\ \A i \in Positions : Win(i)' = Window(slot) + i
  BY <1>2, WindowNat, UpdateEntries DEF Populate
<1>4. \A i \in Positions : Win(i) <= Win(i)'
  BY <1>3 DEF OrderInv, Behind
<1>5. FanoutBehind' /\ FanoutAscends'
  BY <1>1, <1>2, <1>4, FanoutKept DEF OrderInv
<1>6. Strict'
  BY <1>3 DEF Strict, Positions
<1>7. Behind'
  BY <1>2, <1>3 DEF OrderInv, Behind, Positions
<1>8. Filled'
  <2>1. 0 \in Positions
    BY SizeAssumption DEF Positions
  <2>2. \A i \in Positions : i \in Nat
    BY SizeAssumption DEF Positions
  <2>3. Win(0)' = Window(slot)
    BY <1>3, <2>1
  <2> QED
    BY <1>3, <2>2, <2>3 DEF Filled
<1>9. Ordered' /\ InLoop'
  BY <1>2, <1>6 DEF Ordered, InLoop
<1> QED
  BY <1>1, <1>5, <1>7, <1>8, <1>9 DEF OrderInv

LEMMA SpawnOrder ==
  ASSUME OrderInv, Spawn
  PROVE  OrderInv'
<1>1. BaseInv'
  BY StartStopBase DEF OrderInv, StartStop
<1>2. /\ UNCHANGED <<entries, slot, last_slot, last_leader_idx, fvars>>
      /\ spc = "populate" /\ spc' = "started" /\ tpc' = "first"
  BY DEF Spawn, svars, buffer
<1>3. Ordered'
  BY <1>1, <1>2, EntriesKept DEF OrderInv, Ordered
<1>4. Behind' /\ InLoop' /\ Filled'
  BY <1>2 DEF OrderInv, Behind, InLoop, Filled, Win
<1> QED
  BY <1>1, <1>2, <1>3, <1>4, EntriesKept DEF OrderInv

LEMMA StartStopOrder ==
  ASSUME OrderInv, StartStop
  PROVE  OrderInv'
<1>1. BaseInv'
  BY StartStopBase DEF OrderInv
<1>2. CASE Start \/ StartFailed \/ PopulateStep \/ Stop \/ Join
  <2>1. /\ UNCHANGED <<entries, fvars, slot, tpc, last_slot, last_leader_idx>>
        /\ \/ spc' \in {"stopped", "fetch", "slot", spc}
           \/ spc = "started" /\ spc' = "join"
    BY <1>2 DEF Start, StartFailed, PopulateStep, Stop, Join, StoreSlot, EndWrite,
       svars, buffer, tracker
  <2> QED
    BY <1>1, <2>1, IdleOrder
<1> QED
  BY <1>2, PopulateOrder, SpawnOrder DEF StartStop

(***************************************************************************)
(* The tracker thread.  Entering the loop, all positions lag alike.        *)
(***************************************************************************)
LEMMA FirstSlotOrder ==
  ASSUME OrderInv, FirstSlot
  PROVE  OrderInv'
<1>1. BaseInv'
  BY TrackerBase DEF OrderInv, TrackerThread
<1>2. /\ UNCHANGED <<entries, slot, spc, fvars>>
      /\ tpc = "first" /\ tpc' = "spin" /\ spc # "populate"
      /\ last_slot' = slot /\ last_leader_idx' = Window(slot)
      /\ slot \in Nat /\ Window(slot) \in Nat
  BY WindowNat DEF FirstSlot, svars, buffer, OrderInv, BaseInv, TypeOK
<1>3. /\ \A i \in Positions : Win(i)' = Win(i) /\ Win(i) \in Nat
      /\ \A i \in Positions : i \in Nat
  BY <1>1, <1>2, EntriesKept DEF Positions
<1>4. Ordered'
  BY <1>1, <1>2, EntriesKept DEF OrderInv, Ordered
<1>5. Behind'
  BY <1>2, <1>3 DEF OrderInv, Behind
<1>6. InLoop'
  <2>1. 0 \in Positions
    BY SizeAssumption DEF Positions
  <2>2. \A i \in Positions : Win(i) = Win(0) + i
    BY <1>2 DEF OrderInv, Filled
  <2>3. \A i \in Positions : Lag(i)' = Window(slot) - Win(0)
    BY <1>2, <1>3, <2>1, <2>2 DEF Lag
  <2>4. \A i \in Positions : Win(i)' <= last_leader_idx' + i
    BY <1>2, <1>3 DEF OrderInv, Behind
  <2> QED
    BY <1>2, <2>3, <2>4 DEF InLoop
<1>7. Filled'
  BY <1>2 DEF Filled
<1> QED
  BY <1>1, <1>2, <1>4, <1>5, <1>6, <1>7, EntriesKept DEF OrderInv

LEMMA SeeSlotOrder ==
  ASSUME OrderInv, SeeSlot
  PROVE  OrderInv'
<1>1. BaseInv'
  BY TrackerBase DEF OrderInv, TrackerThread
<1>2. /\ UNCHANGED <<entries, slot, spc, last_leader_idx, fvars>>
      /\ tpc = "spin" /\ tpc' = "shift" /\ spc # "populate" /\ last_slot' = slot
      /\ slot \in Nat /\ last_slot \in Nat /\ last_leader_idx \in Nat
  BY DEF SeeSlot, svars, buffer, OrderInv, BaseInv, TypeOK
<1>3. Window(last_slot) <= Window(slot) /\ Window(last_slot) \in Nat /\ Window(slot) \in Nat
  BY <1>2, WindowMonotone, WindowNat DEF OrderInv, Behind
<1>4. Ordered'
  BY <1>1, <1>2, EntriesKept DEF OrderInv, Ordered
<1>5. Behind'
  BY <1>2 DEF OrderInv, Behind, Win
<1>6. InLoop'
  <2>1. last_leader_idx' <= Window(last_slot')
    BY <1>2, <1>3 DEF OrderInv, InLoop
  <2> QED
    BY <1>2, <2>1 DEF OrderInv, InLoop, Lag, Win
<1>7. Filled'
  BY <1>2 DEF Filled
<1> QED
  BY <1>1, <1>2, <1>4, <1>5, <1>6, <1>7, EntriesKept DEF OrderInv

(* What a round of the main loop does to the windows: they only move on,   *)
(* stay in order and behind the tracker, and a position takes over the lag *)
(* of a later one or none.                                                 *)
LEMMA SpinOnceWindows ==
  ASSUME OrderInv, SpinOnce
  PROVE  LET w == Window(last_slot) IN
         /\ w \in Nat
         /\ \A i \in Positions : Win(i) <= Win(i)' /\ Win(i)' <= w + i
         /\ Strict'
         /\ \A i, j \in Positions : i <= j => Lag(j)' \in {Lag(i)', 0}
         /\ 0 \in Positions /\ Lag(0)' \in {Lag(0), 0}
<1> DEFINE w == Window(last_slot)
           idx == last_leader_idx
<1>1. w \in Nat /\ idx \in Nat /\ last_slot \in Nat
  BY WindowNat DEF OrderInv, BaseInv, TypeOK
<1>2. /\ idx <= w /\ Strict
      /\ \A i \in Positions : Win(i) <= idx + i
      /\ \A i, j \in Positions : i <= j => idx + j - Win(j) \in {idx + i - Win(i), 0}
  BY DEF OrderInv, SpinOnce, InLoop, Lag, BaseInv, TypeOK, Ordered
<1>3. /\ 0 \in Positions /\ \A i \in Positions : i \in Nat /\ i < BufferSize
      /\ BufferSize \in Nat
  BY SizeAssumption DEF Positions
<1>4. \A i \in Positions : Win(i) \in Nat
  BY WinNat DEF OrderInv, BaseInv
<1>5. last_leader_idx' = w
  BY DEF SpinOnce
<1>6. \A i \in Positions : Lag(i)' = w + i - Win(i)'
  BY <1>5 DEF Lag
<1>7. CASE Update(last_slot)
  <2>1. \A i \in Positions : Win(i)' = w + i
    BY <1>1, <1>7, UpdateEntries
  <2>2. \A i \in Positions : Lag(i)' = 0
    BY <1>1, <1>3, <1>6, <2>1
  <2>3. \A i \in Positions : Win(i) <= Win(i)' /\ Win(i)' <= w + i
    BY <1>1, <1>2, <1>3, <1>4, <2>1
  <2>4. Strict'
    BY <1>1, <1>3, <2>1 DEF Strict
  <2> QED
    BY <1>1, <1>3, <2>2, <2>3, <2>4
<1>8. CASE w - idx \in 1..(BufferSize - 1) /\ ShiftMultiple(w - idx, last_slot)
  <2> DEFINE k == w - idx
  <2>1. k \in 1..(BufferSize - 1) /\ k \in Nat /\ w = idx + k
    BY <1>1, <1>3, <1>8
  <2> HIDE DEF k
  <2>2. \A i \in Positions :
          /\ i < BufferSize - k => i + k \in Positions /\ Win(i)' = Win(i + k)
          /\ i >= BufferSize - k => Win(i)' = w + i
    BY <1>1, <1>8, <2>1, ShiftEntries DEF OrderInv, BaseInv, k
  <2>3. \A i \in Positions : i < BufferSize - k \/ i >= BufferSize - k
    BY <1>3, <2>1
  <2>4. ASSUME NEW i \in Positions
        PROVE  /\ Win(i) <= Win(i)' /\ Win(i)' <= w + i /\ Win(i)' \in Nat
               /\ \/ i + k \in Positions /\ w + i - Win(i)' = idx + (i + k) - Win(i + k)
                  \/ i >= BufferSize - k /\ w + i - Win(i)' = 0
    <3>1. CASE i < BufferSize - k
      <4>1. i + k \in Positions /\ Win(i)' = Win(i + k) /\ i < i + k
        BY <1>3, <2>1, <2>2, <3>1
      <4>2. Win(i) < Win(i + k) /\ Win(i + k) <= idx + (i + k)
        BY <1>2, <4>1 DEF Strict
      <4> QED
        BY <1>1, <1>3, <1>4, <2>1, <4>1, <4>2
    <3>2. CASE i >= BufferSize - k
      BY <1>1, <1>2, <1>3, <1>4, <2>1, <2>2, <3>2
    <3> QED
      BY <2>3, <3>1, <3>2
  <2>5. Strict'
    <3> SUFFICES ASSUME NEW i \in Positions, NEW j \in Positions, i < j
                 PROVE  Win(i)' < Win(j)'
      BY DEF Strict
    <3>1. CASE j < BufferSize - k
      <4>1. /\ i + k \in Positions /\ Win(i)' = Win(i + k)
            /\ j + k \in Positions /\ Win(j)' = Win(j + k) /\ i + k < j + k
        BY <1>3, <2>1, <2>2, <3>1
      <4> QED
        BY <1>2, <4>1 DEF Strict
    <3>2. CASE j >= BufferSize - k
      <4>1. Win(j)' = w + j /\ Win(i)' <= w + i /\ Win(i)' \in Nat
        BY <2>2, <2>4, <3>2
      <4> QED
        BY <1>1, <1>3, <4>1
    <3> QED
      BY <2>3, <3>1, <3>2
  <2>6. ASSUME NEW i \in Positions, NEW j \in Positions, i <= j
        PROVE  Lag(j)' \in {Lag(i)', 0}
    <3>1. CASE j >= BufferSize - k
      BY <1>1, <1>3, <1>6, <2>2, <3>1
    <3>2. CASE j < BufferSize - k
      <4>1. /\ i + k \in Positions /\ Win(i)' = Win(i + k)
            /\ j + k \in Positions /\ Win(j)' = Win(j + k) /\ i + k <= j + k
        BY <1>3, <2>1, <2>2, <2>6, <3>2
      <4>2. idx + (j + k) - Win(j + k) \in {idx + (i + k) - Win(i + k), 0}
        BY <1>2, <4>1
      <4>3. /\ w + j - Win(j)' = idx + (j + k) - Win(j + k)
            /\ w + i - Win(i)' = idx + (i + k) - Win(i + k)
        BY <1>1, <1>3, <1>4, <2>1, <4>1
      <4> QED
        BY <1>6, <4>2, <4>3
    <3> QED
      BY <2>3, <3>1, <3>2
  <2>7. Lag(0)' \in {Lag(0), 0}
    <3>1. Lag(0)' = w + 0 - Win(0)' /\ Lag(0) = idx + 0 - Win(0)
      BY <1>3, <1>6 DEF Lag
    <3>2. CASE 0 + k \in Positions /\ w + 0 - Win(0)' = idx + (0 + k) - Win(0 + k)
      <4>1. 0 <= 0 + k
        BY <2>1
      <4>2. idx + (0 + k) - Win(0 + k) \in {idx + 0 - Win(0), 0}
        BY <1>2, <1>3, <3>2, <4>1
      <4> QED
        BY <3>1, <3>2, <4>2
    <3> QED
      BY <1>3, <2>4, <3>1, <3>2
  <2> QED
    BY <1>1, <1>3, <2>4, <2>5, <2>6, <2>7
<1>9. CASE w - idx <= 0 /\ UNCHANGED entries
  <2>1. w = idx /\ \A i \in Positions : Win(i)' = Win(i)
    BY <1>1, <1>2, <1>9, SameEntries
  <2>2. \A i \in Positions : Lag(i)' = Lag(i)
    BY <1>6, <2>1 DEF Lag
  <2>3. \A i \in Positions : Win(i) <= Win(i)' /\ Win(i)' <= w + i
    BY <1>2, <1>4, <2>1
  <2>4. Strict'
    BY <1>2, <2>1 DEF Strict
  <2> QED
    BY <1>1, <1>2, <1>3, <2>1, <2>2, <2>3, <2>4 DEF Lag
<1> QED
  BY <1>7, <1>8, <1>9 DEF SpinOnce

LEMMA SpinOnceOrder ==
  ASSUME OrderInv, SpinOnce
  PROVE  OrderInv'
<1>1. BaseInv'
  BY TrackerBase DEF OrderInv, TrackerThread
<1> DEFINE w == Window(last_slot)
<1>2. /\ UNCHANGED <<slot, spc, last_slot, fvars>>
      /\ tpc = "shift" /\ tpc' \in {"spin", "write"} /\ spc # "populate"
      /\ last_leader_idx' = w /\ slot \in Nat /\ last_slot \in Nat
  BY DEF SpinOnce, svars, OrderInv, BaseInv, TypeOK
<1>3. w \in Nat /\ Window(slot) \in Nat /\ w <= Window(slot)
  BY <1>2, WindowMonotone, WindowNat DEF OrderInv, Behind
<1>4. /\ \A i \in Positions : Win(i) <= Win(i)' /\ Win(i)' <= w + i
      /\ Strict'
      /\ \A i, j \in Positions : i <= j => Lag(j)' \in {Lag(i)', 0}
  BY SpinOnceWindows
<1>5. Behind'
  <2>1. ASSUME NEW i \in Positions PROVE Win(i)' <= Window(slot) + i
    <3>1. Win(i)' \in Nat /\ i \in Nat
      BY <1>1, WinNatNext DEF BaseInv, Positions
    <3> QED
      BY <1>3, <1>4, <3>1
  <2> QED
    BY <1>2, <2>1 DEF OrderInv, Behind
<1>6. InLoop'
  BY <1>2, <1>3, <1>4 DEF InLoop
<1>7. Ordered' /\ Filled'
  BY <1>2, <1>4 DEF Ordered, Filled
<1>8. FanoutBehind' /\ FanoutAscends'
  BY <1>1, <1>2, <1>4, FanoutKept DEF OrderInv
<1> QED
  BY <1>1, <1>5, <1>6, <1>7, <1>8 DEF OrderInv

LEMMA TrackerOrder ==
  ASSUME OrderInv, TrackerThread
  PROVE  OrderInv'
<1>1. BaseInv'
  BY TrackerBase DEF OrderInv
<1>2. CASE WriteStep \/ ThreadExit
  <2>1. /\ UNCHANGED <<entries, slot, spc, last_slot, last_leader_idx, fvars>>
        /\ tpc' = tpc \/ (tpc' = "spin" /\ tpc = "write") \/ tpc' = "off"
    BY <1>2 DEF WriteStep, ThreadExit, StoreSlot, EndWrite, svars, buffer
  <2>2. Ordered' /\ FanoutBehind' /\ FanoutAscends'
    BY <1>1, <2>1, EntriesKept DEF OrderInv, Ordered
  <2>3. Behind' /\ Filled'
    BY <2>1 DEF OrderInv, Behind, Filled, Win
  <2>4. InLoop'
    BY <2>1 DEF OrderInv, InLoop, Lag, Win
  <2> QED
    BY <1>1, <2>2, <2>3, <2>4 DEF OrderInv
<1> QED
  BY <1>2, FirstSlotOrder, SeeSlotOrder, SpinOnceOrder DEF TrackerThread

(***************************************************************************)
(* The sender                                                              *)
(***************************************************************************)
LEMMA SenderOrder ==
  ASSUME OrderInv, Sender
  PROVE  OrderInv'
<1>1. BaseInv'
  BY SenderBase DEF OrderInv
<1>2. UNCHANGED <<slot, entries, spc, tpc, last_slot, last_leader_idx>>
  BY DEF Sender, BeginFanout, IsValid, GetLeader, svars, buffer, tracker
<1>3. Ordered' /\ Behind' /\ InLoop' /\ Filled'
  BY <1>2 DEF OrderInv, Ordered, Blank, Strict, Behind, InLoop, Filled, Lag, Win
<1>4. FanoutBehind' /\ FanoutAscends'
  <2>1. CASE fseen' = <<>>
    BY <2>1 DEF FanoutBehind, FanoutAscends
  <2>2. CASE UNCHANGED <<fi, fseen>>
    BY <1>2, <2>2 DEF OrderInv, FanoutBehind, FanoutAscends
  <2>3. CASE GetLeader
    <3>1. fi \in Nat /\ fi \in Positions /\ fi' = fi + 1
      BY <2>3, WorldAssumption, SizeAssumption
      DEF OrderInv, BaseInv, TypeOK, FanoutBound, GetLeader, Positions
    <3>2. /\ fseen \in Seq(Nat) /\ Len(fseen) \in Nat
          /\ \A x \in 1..Len(fseen) : fseen[x] \in Nat
      BY DEF OrderInv, BaseInv, TypeOK
    <3>3. \A x \in 1..Len(fseen), j \in Positions :
            j >= fi => fseen[x] < entries[j].start_slot
      BY DEF OrderInv, FanoutBehind
    <3>4. \A j \in Positions : j \in Nat
      BY DEF Positions
    <3>5. CASE fseen' = fseen
      <4>1. FanoutBehind'
        BY <1>2, <3>1, <3>3, <3>4, <3>5 DEF FanoutBehind
      <4>2. FanoutAscends'
        BY <3>5 DEF OrderInv, FanoutAscends
      <4> QED
        BY <4>1, <4>2
    <3>6. CASE /\ entries[fi].leader # EMPTY
               /\ fseen' = Append(fseen, entries[fi].start_slot)
      <4>1. Strict
        BY <3>1, <3>6 DEF OrderInv, Ordered, Blank
      <4>2. \A j \in Positions : j > fi =>
              entries[fi].start_slot < entries[j].start_slot
        <5> SUFFICES ASSUME NEW j \in Positions, j > fi
                     PROVE  entries[fi].start_slot < entries[j].start_slot
          OBVIOUS
        <5>1. Win(fi) < Win(j) /\ Win(fi) \in Nat /\ Win(j) \in Nat
          BY <3>1, <3>4, <4>1, WinNat DEF Strict, OrderInv, BaseInv
        <5> QED
          BY <3>1, <5>1, StartMonotone DEF OrderInv, BaseInv, Aligned
      <4>3. /\ Len(fseen') = Len(fseen) + 1
            /\ \A x \in 1..Len(fseen) : fseen'[x] = fseen[x]
            /\ fseen'[Len(fseen) + 1] = entries[fi].start_slot
        BY <3>1, <3>2, <3>6 DEF OrderInv, BaseInv, TypeOK
      <4>4. \A x \in 1..Len(fseen') : x \in 1..Len(fseen) \/ x = Len(fseen) + 1
        BY <3>2, <4>3
      <4>5. FanoutBehind'
        <5> SUFFICES ASSUME NEW x \in 1..Len(fseen'), NEW j \in Positions, j >= fi + 1
                     PROVE  fseen'[x] < entries[j].start_slot
          BY <1>2, <3>1 DEF FanoutBehind
        <5>1. j >= fi /\ j > fi
          BY <3>1, <3>4
        <5> QED
          BY <3>3, <4>2, <4>3, <4>4, <5>1
      <4>6. FanoutAscends'
        <5> SUFFICES ASSUME NEW x \in 1..Len(fseen'), NEW y \in 1..Len(fseen'), x < y
                     PROVE  fseen'[x] < fseen'[y]
          BY DEF FanoutAscends
        <5>1. x \in 1..Len(fseen)
          BY <3>2, <4>3
        <5>2. CASE y \in 1..Len(fseen)
          BY <4>3, <5>1, <5>2 DEF OrderInv, FanoutAscends
        <5>3. CASE y = Len(fseen) + 1
          BY <3>1, <3>3, <4>3, <5>1, <5>3
        <5> QED
          BY <4>4, <5>2, <5>3
      <4> QED
        BY <4>5, <4>6
    <3> QED
      BY <2>3, <3>5, <3>6 DEF GetLeader
  <2> QED
    BY <2>1, <2>2, <2>3 DEF Sender, BeginFanout, IsValid
<1> QED
  BY <1>1, <1>3, <1>4 DEF OrderInv

LEMMA OrderStep == ~SlotsRegress /\ OrderInv /\ [Next]_vars => OrderInv'
<1> SUFFICES ASSUME ~SlotsRegress, OrderInv, [Next]_vars PROVE OrderInv'
  OBVIOUS
<1>1. CASE Next
  BY <1>1, SlotUpdateOrder, RefreshOrder, StartStopOrder, TrackerOrder, SenderOrder
  DEF Next
<1>2. CASE UNCHANGED vars
  <2>1. BaseInv'
    BY <1>2, BaseStep DEF OrderInv
  <2>2. UNCHANGED <<entries, fvars, slot, spc, tpc, last_slot, last_leader_idx>>
    BY <1>2 DEF vars, svars, buffer, tracker
  <2> QED
    BY <2>1, <2>2, IdleOrder
<1> QED
  BY <1>1, <1>2

(***************************************************************************)
(* The theorems about slots that never go back                             *)
(***************************************************************************)
LEMMA OrderInvariance == ASSUME ~SlotsRegress PROVE Spec => []OrderInv
  BY OrderInit, OrderStep, PTL DEF Spec

(* Once populated, the buffer lists the windows in ascending order without *)
(* repetition, through any number of skipped slots, shifts, refills and    *)
(* restarts.                                                               *)
THEOREM Ascend == ASSUME ~SlotsRegress PROVE Spec => []PositionsAscend
<1>1. OrderInv => PositionsAscend
  <2> SUFFICES ASSUME OrderInv, NEW k \in Positions, entries[k].start_slot > 0,
                      NEW i \in Positions, NEW j \in Positions, i < j
               PROVE  entries[i].start_slot < entries[j].start_slot
    BY DEF PositionsAscend
  <2>1. /\ \A n \in Positions : Win(n) \in Nat
        /\ \A n \in Positions : entries[n].start_slot = Win(n) * SlotsPerLeader
    BY WinNat DEF OrderInv, BaseInv, Aligned
  <2>2. Win(k) # 0
    <3>1. 0 * SlotsPerLeader = 0
      BY SizeAssumption
    <3> QED
      BY <2>1, <3>1
  <2>3. Strict
    BY <2>2 DEF OrderInv, Ordered, Blank
  <2> QED
    BY <2>1, <2>3, StartMonotone DEF Strict
<1> QED
  BY <1>1, OrderInvariance, PTL

(* send_fanout addresses no leader twice and the leaders in the order of   *)
(* their windows, although it reads every position twice and the buffer    *)
(* may be shifted between any two reads.                                   *)
THEOREM FanoutInOrder == ASSUME ~SlotsRegress PROVE Spec => []FanoutAscends
<1>1. OrderInv => FanoutAscends
  BY DEF OrderInv
<1> QED
  BY <1>1, OrderInvariance, PTL

(* A round of the tracker leaves the lag of position 0 as it is or makes   *)
(* it good: shifting by the windows passed and refilling past the end of   *)
(* the buffer lose no ground.                                              *)
THEOREM NoMoreDrift == ASSUME ~SlotsRegress PROVE Spec => DriftNeverGrows
<1>1. OrderInv /\ [Next]_vars => [tpc = "shift" => Drift' \in {Drift, 0}]_vars
  <2> SUFFICES ASSUME OrderInv, Next, tpc = "shift" PROVE Drift' \in {Drift, 0}
    OBVIOUS
  <2>1. CASE SpinOnce
    <3>1. 0 \in Positions /\ Lag(0)' \in {Lag(0), 0}
      BY <2>1, SpinOnceWindows
    <3>2. Win(0) \in Nat /\ last_leader_idx \in Nat
      BY <3>1, WinNat DEF OrderInv, BaseInv, TypeOK
    <3>3. Win(0)' \in Nat /\ last_leader_idx' \in Nat
      <4>1. TypeOK'
        BY BaseStep DEF OrderInv, BaseInv
      <4> QED
        BY <3>1, <4>1, WinNatNext DEF TypeOK
    <3>4. Lag(0) = last_leader_idx - Win(0)
      BY <3>2 DEF Lag
    <3>5. Lag(0)' = last_leader_idx' - Win(0)'
      BY <3>3 DEF Lag
    <3> QED
      BY <3>1, <3>4, <3>5 DEF Drift, Win
  <2>2. CASE ~SpinOnce
    <3>1. UNCHANGED <<entries, last_leader_idx>>
      BY <2>2 DEF Next, SlotUpdate, RefreshBegin, RefreshStore, RefreshFail,
         StartStop, Start, StartFailed, Populate, PopulateStep, Spawn, Stop, Join,
         TrackerThread, FirstSlot, SeeSlot, WriteStep, ThreadExit, Sender,
         BeginFanout, IsValid, GetLeader, StoreSlot, EndWrite, buffer, tracker,
         OrderInv, BaseInv, TypeOK
    <3> QED
      BY <3>1 DEF Drift
  <2> QED
    BY <2>1, <2>2
<1> QED
  BY <1>1, OrderInvariance, PTL DEF Spec, DriftNeverGrows
=============================================================================

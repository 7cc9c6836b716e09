---------------------------- MODULE SessionCache ----------------------------
(***************************************************************************)
(* The cache of session tickets (quic/src/session_cache.rs), as the        *)
(* endpoints of the sender and of the prewarm thread use it.  The model    *)
(* has one shard of the 64, since an operation stays in the shard of its   *)
(* address; only the eviction counter is common to all.                    *)
(*                                                                         *)
(* With the strategies Jit and InlinePrewarm the sender has the only       *)
(* endpoint, with Prewarm there are two; every endpoint reads the cache    *)
(* when it connects and inserts the tickets it receives.                   *)
(*                                                                         *)
(* The address of a slot is an atomic word, its token lies behind a        *)
(* SeqLock: a load, a compare-and-exchange and a store of the address and  *)
(* each increment of a lock's version are a step.  The data of the lock is *)
(* written in the step of the second increment, and read in one step while *)
(* the version is even, which SeqLock justifies for one writer.  Two       *)
(* writers of one lock race: what they leave behind, or a reader sees of   *)
(* them, is any mix of the fields of their tokens, and since increment is  *)
(* a load and a store, an increment may be lost.  The slots' own version   *)
(* counters are written and never read.                                    *)
(***************************************************************************)
EXTENDS Integers, FiniteSets

CONSTANTS
  Threads,     \* threads that own an endpoint
  Addrs,       \* addresses of the shard
  Pack,        \* pack_addr: Pack[a] is the word for address a
  Ttl,         \* SESSION_TTL_NS, in ticks of the model's clock
  MaxTime,     \* bound of the model's clock
  MaxInserts   \* bound of the model: inserts

SHARDS == 64
SLOTS_PER_SHARD == 2
ShardFor(a) == Pack[a] % SHARDS

ASSUME ThreadAssumption == IsFiniteSet(Threads)
ASSUME PackAssumption ==
  /\ Pack \in [Addrs -> Nat \ {0}]
  /\ \A a, b \in Addrs : ShardFor(a) = ShardFor(b)
ASSUME BoundAssumption == Ttl \in Nat \ {0} /\ MaxTime \in Nat /\ MaxInserts \in Nat

VARIABLES
  slots,           \* slots[i].addr, slots[i].token and the parity of its lock's version
  evict_counter,   \* modulo SLOTS_PER_SHARD
  now,             \* monotonic_nanos
  call,            \* call[t]: what thread t is doing
  inserts,         \* inserts begun
  (* history *)
  found,           \* the token that a lookup has to find, see EndWrite
  alone,           \* the thread, if any, whose insert runs undisturbed
  broken           \* the slots whose lock two threads have written at once

history == <<found, alone, broken>>
vars == <<slots, evict_counter, now, call, inserts, history>>

Slots == 0..SLOTS_PER_SHARD - 1

(* A token: the address it was issued for (0 for the empty token, which    *)
(* has length 0), its number and timestamp_ns.                             *)
NoToken == [addr |-> 0, n |-> 0, timestamp_ns |-> 0]
IsValid(token) == token.addr # 0 /\ now - token.timestamp_ns < Ttl

Idle == [pc |-> "idle", addr |-> 0, i |-> 0, token |-> NoToken, raced |-> FALSE]
Call(pc, a) == [Idle EXCEPT !.pc = pc, !.addr = Pack[a]]

Init ==
  /\ slots = [i \in Slots |-> [addr |-> 0, token |-> NoToken, version |-> 0]]
  /\ evict_counter = 0 /\ now = 0
  /\ call = [t \in Threads |-> Idle]
  /\ inserts = 0 /\ found = NoToken /\ alone = {} /\ broken = {}

At(t, pc) == call[t].pc = pc
SlotOf(t) == slots[call[t].i]
Goto(t, pc) == call' = [call EXCEPT ![t].pc = pc]
Last(t) == call[t].i = SLOTS_PER_SHARD - 1

Return(t) == call' = [call EXCEPT ![t] = Idle]

(* The scan of t goes on with the next slot; after the last, it ends. *)
NextSlot(t) == ~Last(t) /\ call' = [call EXCEPT ![t].i = call[t].i + 1]

Tick == now < MaxTime /\ now' = now + 1 /\ UNCHANGED <<slots, evict_counter, call, inserts, history>>

(* An insert into another shard takes a number of the counter. *)
EvictElsewhere ==
  /\ evict_counter' = (evict_counter + 1) % SLOTS_PER_SHARD
  /\ UNCHANGED <<slots, now, call, inserts, history>>

-----------------------------------------------------------------------------
(* get, as connect calls it *)

BeginGet(t, a) ==
  /\ At(t, "idle") /\ call' = [call EXCEPT ![t] = Call("get", a)]
  /\ UNCHANGED <<slots, evict_counter, now, inserts, history>>

GetScan(t) ==
  /\ At(t, "get")
  /\ IF SlotOf(t).addr = call[t].addr THEN Goto(t, "read")
     ELSE NextSlot(t) \/ (Last(t) /\ Return(t))
  /\ UNCHANGED <<slots, evict_counter, now, inserts, history>>

(* The threads between the two increments of the token's SeqLock::write. *)
Storing(i) == {t \in Threads : At(t, "store") /\ call[t].i = i}

(* Tokens whose fields come from those of a set. *)
Mixes(S) ==
  [addr : {x.addr : x \in S}, n : {x.n : x \in S}, timestamp_ns : {x.timestamp_ns : x \in S}]

(* SeqLock::read spins until the version is even.  An expired token is     *)
(* None; another slot is not looked at.                                    *)
GetRead(t) ==
  /\ At(t, "read") /\ SlotOf(t).version = 0
  /\ \E token \in Mixes({SlotOf(t).token} \cup {call[u].token : u \in Storing(call[t].i)}) :
       IF IsValid(token)
       THEN call' = [call EXCEPT ![t].pc = "got", ![t].token = token]
       ELSE Return(t)
  /\ UNCHANGED <<slots, evict_counter, now, inserts, history>>

(* connect looks at the age again: the token goes to set_session, or has   *)
(* expired meanwhile and its address is invalidated.                       *)
UseToken(t) ==
  /\ At(t, "got") /\ IsValid(call[t].token)
  /\ Return(t)
  /\ UNCHANGED <<slots, evict_counter, now, inserts, history>>

BeginInvalidate(t) ==
  /\ At(t, "got") /\ ~IsValid(call[t].token)
  /\ call' = [call EXCEPT ![t] = [Idle EXCEPT !.pc = "invalidate", !.addr = call[t].addr]]
  /\ found' = IF found.addr = call[t].addr THEN NoToken ELSE found
  /\ alone' = {}
  /\ UNCHANGED <<slots, evict_counter, now, inserts, broken>>

(* invalidate: the first slot of the address *)
InvalidateScan(t) ==
  /\ At(t, "invalidate")
  /\ IF SlotOf(t).addr = call[t].addr THEN Goto(t, "clear")
     ELSE NextSlot(t) \/ (Last(t) /\ Return(t))
  /\ UNCHANGED <<slots, evict_counter, now, inserts, history>>

(* The token stays in the slot. *)
InvalidateClear(t) ==
  /\ At(t, "clear")
  /\ slots' = [slots EXCEPT ![call[t].i].addr = 0]
  /\ Return(t)
  /\ UNCHANGED <<evict_counter, now, inserts, history>>

-----------------------------------------------------------------------------
(* insert *)

(* The threads inside insert or invalidate. *)
Inserting(t) == call[t].pc \in {"insert", "claim", "evict", "replace", "write", "store"}
Modifying(t) == Inserting(t) \/ call[t].pc \in {"invalidate", "clear"}

BeginInsert(t, a) ==
  /\ At(t, "idle") /\ inserts < MaxInserts
  /\ inserts' = inserts + 1
  /\ call' = [call EXCEPT ![t] =
                [Call("insert", a) EXCEPT
                   !.token = [addr |-> Pack[a], n |-> inserts + 1, timestamp_ns |-> now]]]
  /\ found' = NoToken
  /\ alone' = (IF \E u \in Threads : Modifying(u) THEN {} ELSE {t})
  /\ UNCHANGED <<slots, evict_counter, now, broken>>

(* Variant of InsertScan, for mutation: an existing entry is not updated. *)
InsertScanNoUpdate(t) ==
  /\ At(t, "insert")
  /\ \/ SlotOf(t).addr = 0 /\ Goto(t, "claim")
     \/ SlotOf(t).addr # 0 /\ (NextSlot(t) \/ (Last(t) /\ Goto(t, "evict")))
  /\ UNCHANGED <<slots, evict_counter, now, inserts, history>>

InsertScan(t) ==
  /\ At(t, "insert")
  /\ \/ SlotOf(t).addr = call[t].addr /\ Goto(t, "write")
     \/ SlotOf(t).addr = 0 /\ Goto(t, "claim")
     \/ /\ SlotOf(t).addr \notin {0, call[t].addr}
        /\ NextSlot(t) \/ (Last(t) /\ Goto(t, "evict"))
  /\ UNCHANGED <<slots, evict_counter, now, inserts, history>>

(* compare_exchange; who loses goes on with the next slot. *)
Claim(t) ==
  /\ At(t, "claim")
  /\ IF SlotOf(t).addr = 0
     THEN slots' = [slots EXCEPT ![call[t].i].addr = call[t].addr] /\ Goto(t, "write")
     ELSE /\ call' = [call EXCEPT ![t] = IF Last(t) THEN [@ EXCEPT !.pc = "evict"]
                                         ELSE [@ EXCEPT !.i = call[t].i + 1, !.pc = "insert"]]
          /\ UNCHANGED slots
  /\ UNCHANGED <<evict_counter, now, inserts, history>>

Evict(t) ==
  /\ At(t, "evict")
  /\ call' = [call EXCEPT ![t].pc = "replace", ![t].i = evict_counter]
  /\ evict_counter' = (evict_counter + 1) % SLOTS_PER_SHARD
  /\ UNCHANGED <<slots, now, inserts, history>>

Replace(t) ==
  /\ At(t, "replace")
  /\ slots' = [slots EXCEPT ![call[t].i].addr = call[t].addr]
  /\ Goto(t, "write")
  /\ UNCHANGED <<evict_counter, now, inserts, history>>

(* The parity of the version after an increment, which may be lost when   *)
(* another thread increments it too.                                       *)
Increment(i, racing) == IF racing THEN {0, 1} ELSE {1 - slots[i].version}

(* SeqLock::write: the first increment. *)
BeginWrite(t) ==
  /\ At(t, "write")
  /\ LET i == call[t].i
         others == Storing(i)
     IN  /\ \E v \in Increment(i, others # {}) : slots' = [slots EXCEPT ![i].version = v]
         /\ call' = [u \in Threads |->
                      IF u = t THEN [call[t] EXCEPT !.pc = "store", !.raced = (others # {})]
                      ELSE IF u \in others THEN [call[u] EXCEPT !.raced = TRUE] ELSE call[u]]
         /\ broken' = IF others = {} THEN broken ELSE broken \cup {i}
  /\ UNCHANGED <<evict_counter, now, inserts, found, alone>>

(* Insert returns.  If no other insert or invalidate ran meanwhile, a      *)
(* lookup finds the token from now on, until the next insert, or an        *)
(* invalidate of the address, begins.                                      *)
ReturnInsert(t) ==
  /\ Return(t)
  /\ found' = (IF t \in alone THEN call[t].token ELSE NoToken)
  /\ alone' = alone \ {t}
  /\ UNCHANGED <<evict_counter, now, inserts, broken>>

(* The data and the second increment. *)
EndWrite(t) ==
  /\ At(t, "store")
  /\ \E token \in IF call[t].raced THEN Mixes({SlotOf(t).token, call[t].token})
                  ELSE {call[t].token},
        v \in Increment(call[t].i, call[t].raced) :
       slots' = [slots EXCEPT ![call[t].i].token = token, ![call[t].i].version = v]
  /\ ReturnInsert(t)

-----------------------------------------------------------------------------
Next ==
  \/ Tick \/ EvictElsewhere
  \/ \E t \in Threads :
       \/ \E a \in Addrs : BeginGet(t, a) \/ BeginInsert(t, a)
       \/ GetScan(t) \/ GetRead(t) \/ UseToken(t)
       \/ BeginInvalidate(t) \/ InvalidateScan(t) \/ InvalidateClear(t)
       \/ InsertScan(t) \/ Claim(t) \/ Evict(t) \/ Replace(t)
       \/ BeginWrite(t) \/ EndWrite(t)

Spec == Init /\ [][Next]_vars

(* The slot that get reads, were it done in one step. *)
Matching(addr) == {i \in Slots : slots[i].addr = addr}
FirstMatching(addr) == CHOOSE i \in Matching(addr) : \A j \in Matching(addr) : i <= j

(* The token of an insert that no other insert or invalidate overlaps is   *)
(* the one that get finds, until another begins: also when the shard holds *)
(* the address twice, because insert claimed a slot in front of the one    *)
(* that the address has, when the shard was full, and whatever two         *)
(* endpoints that inserted at the same time have left in the slots; and    *)
(* get can read it, unless a race has broken the lock of this slot         *)
(* (quic/src/session_cache.rs:193-223, 250-305).                           *)
InsertIsFound ==
  found # NoToken =>
    /\ Matching(found.addr) # {}
    /\ slots[FirstMatching(found.addr)].token = found
    /\ \/ slots[FirstMatching(found.addr)].version = 0
       \/ FirstMatching(found.addr) \in broken

(* get returns a token of the address it is asked for, which holds when    *)
(* there is one endpoint (quic/src/session_cache.rs:184-190).  With two,   *)
(* the window between the store of an address and of its token breaks it,  *)
(* and evictions of one slot by both break it for good.                    *)
GetReturnsOwn == \A t \in Threads : At(t, "got") => call[t].token.addr = call[t].addr

(* SeqLock::write: "safety: single-writer assumption - no concurrent       *)
(* writes" (sync/src/seqlock.rs:180).  Two endpoints that insert for one   *)
(* address do not keep to it.                                              *)
NoConcurrentWrites ==
  \A t, u \in Threads :
    At(t, "store") /\ At(u, "store") /\ call[t].i = call[u].i => t = u

(* A lock that nobody writes has an even version, so that get does not     *)
(* spin for ever.  Two endpoints break it.                                 *)
LocksSettle == \A i \in Slots : Storing(i) = {} => slots[i].version = 0
=============================================================================

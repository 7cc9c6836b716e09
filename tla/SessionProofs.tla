--------------------------- MODULE SessionProofs ----------------------------
(***************************************************************************)
(* Proofs about the session cache for any number of addresses and inserts: *)
(* for any number of endpoints, a lookup finds the token of an insert that *)
(* ran undisturbed; with one endpoint, get returns tokens of the address   *)
(* it is asked for.                                                        *)
(***************************************************************************)
EXTENDS SessionCache, TLAPS

Token == [addr : Nat, n : Nat, timestamp_ns : Nat]
SlotType == [addr : Nat, token : Token, version : {0, 1}]
InsertPc == {"insert", "claim", "evict", "replace", "write", "store"}
InvalidatePc == {"invalidate", "clear"}
CallPc == {"idle", "get", "read", "got"} \cup InvalidatePc \cup InsertPc
CallType == [pc : CallPc, addr : Nat, i : Slots, token : Token, raced : BOOLEAN]

(* Every variable has the type its struct gives it. *)
TypeInv ==
  /\ slots \in [Slots -> SlotType] /\ call \in [Threads -> CallType]
  /\ evict_counter \in Slots /\ now \in Nat /\ inserts \in Nat
  /\ found \in Token /\ alone \in SUBSET Threads /\ broken \in SUBSET Slots

(* What a thread knows whose insert runs undisturbed: it holds a token for *)
(* its address, the slots that it has passed have other addresses, an      *)
(* empty slot stays empty until it is claimed, and a claimed one keeps the *)
(* address; nobody else writes under its lock.                             *)
Knows(t) ==
  /\ call[t].pc \in InsertPc
  /\ call[t].addr # 0 /\ call[t].token.addr = call[t].addr /\ call[t].raced = FALSE
  /\ call[t].pc \in {"insert", "claim", "write", "store"} =>
       \A j \in Slots : j < call[t].i => slots[j].addr # call[t].addr
  /\ call[t].pc = "claim" => slots[call[t].i].addr = 0
  /\ call[t].pc \in {"evict", "replace"} =>
       \A j \in Slots : slots[j].addr # call[t].addr
  /\ call[t].pc \in {"write", "store"} => slots[call[t].i].addr = call[t].addr

AloneInv ==
  \A t \in alone :
    /\ Knows(t)
    /\ \A u \in Threads : u # t => call[u].pc \notin InsertPc \cup InvalidatePc

(* The token to be found is in the first slot of its address; nobody       *)
(* inserts, and every invalidate under way is about another address and    *)
(* slot.                                                                   *)
FirstOf(i, a) ==
  slots[i].addr = a /\ \A j \in Slots : j < i => slots[j].addr # a

Spares(t) ==
  /\ call[t].pc \notin InsertPc
  /\ call[t].pc \in InvalidatePc => call[t].addr # found.addr
  /\ call[t].pc = "clear" => slots[call[t].i].addr # found.addr

FoundInv ==
  found # NoToken =>
    /\ found.addr # 0
    /\ \E i \in Slots : FirstOf(i, found.addr) /\ slots[i].token = found
    /\ \A t \in Threads : Spares(t)

Inv == TypeInv /\ AloneInv /\ FoundInv

LEMMA SlotCount == SLOTS_PER_SHARD = 2 /\ Slots = 0..1 /\ 0 \in Slots /\ Slots \subseteq Nat
  BY DEF SLOTS_PER_SHARD, Slots

LEMMA NoTokenType ==
  /\ NoToken \in Token /\ NoToken.addr = 0
  /\ Idle \in CallType /\ Idle.pc = "idle" /\ Idle.raced = FALSE
  BY SlotCount DEF NoToken, Token, Idle, CallType, CallPc

LEMMA InitType == Init => TypeInv
  BY NoTokenType, SlotCount DEF Init, TypeInv, SlotType

(***************************************************************************)
(* What the steps do to the record of their thread                         *)
(***************************************************************************)
LEMMA Fields ==
  ASSUME TypeInv, NEW t \in Threads
  PROVE  /\ call[t] \in CallType
         /\ call[t].pc \in CallPc /\ call[t].addr \in Nat /\ call[t].i \in Slots
         /\ call[t].token \in Token /\ call[t].raced \in BOOLEAN
         /\ slots[call[t].i] \in SlotType
  BY DEF TypeInv, CallType

LEMMA Updates ==
  ASSUME TypeInv, NEW t \in Threads, NEW r, call' = [call EXCEPT ![t] = r]
  PROVE  call'[t] = r /\ \A u \in Threads : u # t => call'[u] = call[u]
  BY DEF TypeInv

LEMMA ReturnMoves ==
  ASSUME TypeInv, NEW t \in Threads, Return(t)
  PROVE  /\ call'[t] = Idle /\ call'[t] \in CallType
         /\ \A u \in Threads : u # t => call'[u] = call[u]
         /\ call' \in [Threads -> CallType]
  BY NoTokenType DEF Return, TypeInv

LEMMA GotoMoves ==
  ASSUME TypeInv, NEW t \in Threads, NEW pc \in CallPc, Goto(t, pc)
  PROVE  /\ call'[t].pc = pc /\ call'[t].addr = call[t].addr /\ call'[t].i = call[t].i
         /\ call'[t].token = call[t].token /\ call'[t].raced = call[t].raced
         /\ \A u \in Threads : u # t => call'[u] = call[u]
         /\ call' \in [Threads -> CallType]
<1> DEFINE r == [call[t] EXCEPT !.pc = pc]
<1>1. /\ r \in CallType /\ r.pc = pc /\ r.addr = call[t].addr /\ r.i = call[t].i
      /\ r.token = call[t].token /\ r.raced = call[t].raced
  BY Fields DEF CallType
<1>2. call' = [call EXCEPT ![t] = r]
  BY Fields DEF Goto, CallType, TypeInv
<1> HIDE DEF r
<1> QED
  BY <1>1, <1>2, Updates DEF TypeInv

LEMMA NextSlotMoves ==
  ASSUME TypeInv, NEW t \in Threads, NextSlot(t)
  PROVE  /\ call[t].i = 0 /\ call'[t].i = 1
         /\ call'[t].pc = call[t].pc /\ call'[t].addr = call[t].addr
         /\ call'[t].token = call[t].token /\ call'[t].raced = call[t].raced
         /\ \A u \in Threads : u # t => call'[u] = call[u]
         /\ call' \in [Threads -> CallType]
<1> DEFINE r == [call[t] EXCEPT !.i = call[t].i + 1]
<1>1. call[t].i = 0
  BY Fields, SlotCount DEF NextSlot, Last
<1>2. 0 + 1 \in Slots
  BY SlotCount
<1>3. /\ r \in CallType /\ r.pc = call[t].pc /\ r.addr = call[t].addr /\ r.i = 1
      /\ r.token = call[t].token /\ r.raced = call[t].raced
  BY <1>1, <1>2, Fields DEF CallType
<1>4. call' = [call EXCEPT ![t] = r]
  BY Fields DEF NextSlot, CallType, TypeInv
<1> HIDE DEF r
<1> QED
  BY <1>1, <1>3, <1>4, Updates DEF TypeInv

LEMMA CallTyped ==
  ASSUME NEW a \in Addrs, NEW pc \in CallPc
  PROVE  /\ Call(pc, a) \in CallType /\ Call(pc, a).raced = FALSE
         /\ Call(pc, a).pc = pc /\ Call(pc, a).addr = Pack[a] /\ Call(pc, a).i = 0
         /\ Pack[a] \in Nat /\ Pack[a] # 0
  BY SlotCount, NoTokenType, PackAssumption DEF Call, Idle, CallType

LEMMA BeginGetMoves ==
  ASSUME TypeInv, NEW t \in Threads, NEW a \in Addrs, BeginGet(t, a)
  PROVE  /\ call[t].pc = "idle" /\ call'[t].pc = "get" /\ call'[t].addr # 0
         /\ \A u \in Threads : u # t => call'[u] = call[u]
         /\ call' \in [Threads -> CallType]
<1> DEFINE r == Call("get", a)
<1>1. "get" \in CallPc
  BY DEF CallPc
<1>2. r \in CallType /\ r.pc = "get" /\ r.addr # 0
  BY <1>1, CallTyped
<1>3. call' = [call EXCEPT ![t] = r] /\ call[t].pc = "idle"
  BY DEF BeginGet, At
<1> HIDE DEF r
<1> QED
  BY <1>2, <1>3, Updates DEF TypeInv

LEMMA MixType ==
  ASSUME NEW S \in SUBSET Token PROVE Mixes(S) \subseteq Token
<1>1. \A x \in S : x.addr \in Nat /\ x.n \in Nat /\ x.timestamp_ns \in Nat
  BY DEF Token
<1>2. /\ {x.addr : x \in S} \subseteq Nat
      /\ {x.n : x \in S} \subseteq Nat
      /\ {x.timestamp_ns : x \in S} \subseteq Nat
  BY <1>1
<1> QED
  BY <1>2 DEF Mixes, Token

LEMMA GetReadMoves ==
  ASSUME TypeInv, NEW t \in Threads, GetRead(t)
  PROVE  /\ call[t].pc = "read"
         /\ \/ call'[t] = Idle
            \/ /\ call'[t].pc = "got" /\ call'[t].addr = call[t].addr
               /\ call'[t].token \in Mixes({SlotOf(t).token} \cup
                                       {call[u].token : u \in Storing(call[t].i)})
         /\ \A u \in Threads : u # t => call'[u] = call[u]
         /\ call' \in [Threads -> CallType]
<1> DEFINE S == {SlotOf(t).token} \cup {call[u].token : u \in Storing(call[t].i)}
<1>1. S \in SUBSET Token
  BY Fields DEF SlotOf, SlotType, Storing
<1> HIDE DEF S
<1>2. PICK token \in Mixes(S) :
        IF IsValid(token)
        THEN call' = [call EXCEPT ![t].pc = "got", ![t].token = token]
        ELSE Return(t)
  BY DEF GetRead, S
<1>3. token \in Token /\ call[t].pc = "read"
  BY <1>1, MixType DEF GetRead, At
<1>4. CASE Return(t)
  BY <1>3, <1>4, ReturnMoves
<1>5. CASE call' = [call EXCEPT ![t].pc = "got", ![t].token = token]
  <2> DEFINE r == [call[t] EXCEPT !.pc = "got", !.token = token]
  <2>1. /\ r \in CallType /\ r.pc = "got" /\ r.addr = call[t].addr /\ r.token = token
    BY <1>3, Fields DEF CallType, CallPc
  <2>2. call' = [call EXCEPT ![t] = r]
    BY <1>5, Fields DEF CallType, TypeInv
  <2> HIDE DEF r
  <2> QED
    BY <1>2, <1>3, <2>1, <2>2, Updates DEF TypeInv, S
<1> QED
  BY <1>2, <1>4, <1>5

LEMMA BeginInvalidateMoves ==
  ASSUME TypeInv, NEW t \in Threads, BeginInvalidate(t)
  PROVE  /\ call[t].pc = "got" /\ call'[t].pc = "invalidate" /\ call'[t].addr = call[t].addr
         /\ \A u \in Threads : u # t => call'[u] = call[u]
         /\ call' \in [Threads -> CallType]
<1> DEFINE r == [Idle EXCEPT !.pc = "invalidate", !.addr = call[t].addr]
<1>1. r \in CallType /\ r.pc = "invalidate" /\ r.addr = call[t].addr
  BY Fields, NoTokenType DEF CallType, CallPc, InvalidatePc, Idle
<1>2. call' = [call EXCEPT ![t] = r] /\ call[t].pc = "got"
  BY DEF BeginInvalidate, At
<1> HIDE DEF r
<1> QED
  BY <1>1, <1>2, Updates DEF TypeInv

LEMMA BeginInsertMoves ==
  ASSUME TypeInv, NEW t \in Threads, NEW a \in Addrs, BeginInsert(t, a)
  PROVE  /\ call[t].pc = "idle" /\ call'[t].pc = "insert" /\ call'[t].i = 0
         /\ call'[t].addr # 0 /\ call'[t].token.addr = call'[t].addr
         /\ call'[t].raced = FALSE
         /\ \A u \in Threads : u # t => call'[u] = call[u]
         /\ call' \in [Threads -> CallType]
<1> DEFINE k == [addr |-> Pack[a], n |-> inserts + 1, timestamp_ns |-> now]
           r == [Call("insert", a) EXCEPT !.token = k]
<1>1. k \in Token /\ k.addr = Pack[a] /\ Pack[a] # 0
  BY PackAssumption DEF TypeInv, Token
<1>2. "insert" \in CallPc
  BY DEF CallPc, InsertPc
<1>3. call' = [call EXCEPT ![t] = r] /\ call[t].pc = "idle"
  BY DEF BeginInsert, At
<1> HIDE DEF k
<1>4. /\ r \in CallType /\ r.pc = "insert" /\ r.addr = Pack[a] /\ r.i = 0
      /\ r.token = k /\ r.raced = FALSE
  <2>1. PICK c : c = Call("insert", a)
    OBVIOUS
  <2>2. c \in CallType /\ c.pc = "insert" /\ c.addr = Pack[a] /\ c.i = 0 /\ c.raced = FALSE
    BY <1>2, <2>1, CallTyped
  <2>3. r = [c EXCEPT !.token = k]
    BY <2>1
  <2> QED
    BY <1>1, <2>2, <2>3 DEF CallType
<1> HIDE DEF r
<1> QED
  BY <1>1, <1>3, <1>4, Updates DEF TypeInv

LEMMA EvictMoves ==
  ASSUME TypeInv, NEW t \in Threads, Evict(t)
  PROVE  /\ call[t].pc = "evict" /\ call'[t].pc = "replace" /\ call'[t].addr = call[t].addr
         /\ call'[t].token = call[t].token /\ call'[t].raced = call[t].raced
         /\ \A u \in Threads : u # t => call'[u] = call[u]
         /\ call' \in [Threads -> CallType] /\ evict_counter' \in Slots
<1> DEFINE r == [call[t] EXCEPT !.pc = "replace", !.i = evict_counter]
<1>1. /\ r \in CallType /\ r.pc = "replace" /\ r.addr = call[t].addr
      /\ r.token = call[t].token /\ r.raced = call[t].raced
  BY Fields DEF CallType, CallPc, InsertPc, TypeInv
<1>2. call' = [call EXCEPT ![t] = r] /\ call[t].pc = "evict"
  BY Fields DEF Evict, At, CallType, TypeInv
<1>3. evict_counter' \in Slots
  BY DEF Evict, TypeInv, Slots, SLOTS_PER_SHARD
<1> HIDE DEF r
<1> QED
  BY <1>1, <1>2, <1>3, Updates DEF TypeInv

(* A compare-and-exchange that is lost. *)
LEMMA ClaimLostMoves ==
  ASSUME TypeInv, NEW t \in Threads, Claim(t), slots[call[t].i].addr # 0
  PROVE  /\ call' \in [Threads -> CallType] /\ UNCHANGED slots
         /\ call'[t].pc \in {"evict", "insert"} /\ call'[t].addr = call[t].addr
         /\ call'[t].token = call[t].token /\ call'[t].raced = call[t].raced
         /\ \A u \in Threads : u # t => call'[u] = call[u]
<1>1. call' = [call EXCEPT ![t] = IF Last(t) THEN [call[t] EXCEPT !.pc = "evict"]
                                  ELSE [call[t] EXCEPT !.i = call[t].i + 1, !.pc = "insert"]]
  BY Fields DEF Claim, SlotOf, TypeInv
<1>2. [call[t] EXCEPT !.pc = "evict"] \in CallType
  BY Fields DEF CallType, CallPc, InsertPc
<1>3. ASSUME ~Last(t)
      PROVE  [call[t] EXCEPT !.i = call[t].i + 1, !.pc = "insert"] \in CallType
  <2>1. call[t].i + 1 \in Slots
    BY <1>3, Fields, SlotCount DEF Last
  <2> QED
    BY <2>1, Fields DEF CallType, CallPc, InsertPc
<1>4. UNCHANGED slots
  BY DEF Claim, SlotOf
<1>5. call' \in [Threads -> CallType] /\ \A u \in Threads : u # t => call'[u] = call[u]
  BY <1>1, <1>2, <1>3 DEF TypeInv
<1>6. call'[t] = IF Last(t) THEN [call[t] EXCEPT !.pc = "evict"]
                 ELSE [call[t] EXCEPT !.i = call[t].i + 1, !.pc = "insert"]
  BY <1>1 DEF TypeInv
<1>7. /\ call'[t].pc \in {"evict", "insert"} /\ call'[t].addr = call[t].addr
      /\ call'[t].token = call[t].token /\ call'[t].raced = call[t].raced
  BY <1>6, Fields DEF CallType
<1> QED
  BY <1>4, <1>5, <1>7

LEMMA BeginWriteMoves ==
  ASSUME TypeInv, NEW t \in Threads, BeginWrite(t)
  PROVE  /\ call[t].pc = "write" /\ call'[t].pc = "store" /\ call'[t].i = call[t].i
         /\ call'[t].addr = call[t].addr /\ call'[t].token = call[t].token
         /\ call'[t].raced = (Storing(call[t].i) # {})
         /\ \A u \in Threads : u # t /\ u \notin Storing(call[t].i) => call'[u] = call[u]
         /\ \A u \in Threads : u # t => call'[u].pc = call[u].pc /\ call'[u].i = call[u].i
         /\ call' \in [Threads -> CallType]
         /\ broken' = IF Storing(call[t].i) = {} THEN broken ELSE broken \cup {call[t].i}
         /\ \E v \in Increment(call[t].i, Storing(call[t].i) # {}) :
              slots' = [slots EXCEPT ![call[t].i].version = v]
         /\ Increment(call[t].i, Storing(call[t].i) # {}) \subseteq {0, 1}
<1> DEFINE others == Storing(call[t].i)
           r(u) == IF u = t THEN [call[t] EXCEPT !.pc = "store", !.raced = (others # {})]
                   ELSE IF u \in others THEN [call[u] EXCEPT !.raced = TRUE] ELSE call[u]
<1>1. call' = [u \in Threads |-> r(u)] /\ call[t].pc = "write"
  BY DEF BeginWrite, At
<1>10. /\ broken' = IF others = {} THEN broken ELSE broken \cup {call[t].i}
      /\ \E v \in Increment(call[t].i, others # {}) :
              slots' = [slots EXCEPT ![call[t].i].version = v]
  BY DEF BeginWrite
<1>11. Increment(call[t].i, others # {}) \subseteq {0, 1}
  BY Fields DEF Increment, SlotType
<1>2. PICK b \in BOOLEAN : b = (others # {})
  OBVIOUS
<1>3. [call[t] EXCEPT !.pc = "store", !.raced = b] \in CallType
  BY Fields DEF CallType, CallPc, InsertPc
<1>4. \A u \in Threads : [call[u] EXCEPT !.raced = TRUE] \in CallType /\ call[u] \in CallType
  BY Fields DEF CallType
<1> HIDE DEF others
<1>5. r(t) = [call[t] EXCEPT !.pc = "store", !.raced = b] /\ \A u \in Threads : r(u) \in CallType
  BY <1>2, <1>3, <1>4
<1>6. call'[t] = [call[t] EXCEPT !.pc = "store", !.raced = b]
  BY <1>1, <1>5
<1>7. /\ call'[t].pc = "store" /\ call'[t].i = call[t].i /\ call'[t].raced = b
      /\ call'[t].addr = call[t].addr /\ call'[t].token = call[t].token
  BY <1>6, Fields DEF CallType
<1>8. call' \in [Threads -> CallType]
  BY <1>1, <1>5
<1>9. \A u \in Threads : u # t /\ u \notin others => call'[u] = call[u]
  BY <1>1
<1>12. ASSUME NEW u \in Threads, u # t
      PROVE  call'[u].pc = call[u].pc /\ call'[u].i = call[u].i
  <2>1. call'[u] = IF u \in others THEN [call[u] EXCEPT !.raced = TRUE] ELSE call[u]
    BY <1>1, <1>12
  <2> QED
    BY <2>1, Fields DEF CallType
<1> QED
  BY <1>1, <1>10, <1>11, <1>12, <1>2, <1>7, <1>8, <1>9 DEF others

(* The stores into a slot. *)
LEMMA AddrStored ==
  ASSUME TypeInv, NEW k \in Slots, NEW a \in Nat,
         slots' = [slots EXCEPT ![k].addr = a]
  PROVE  /\ slots' \in [Slots -> SlotType] /\ slots'[k].addr = a
         /\ \A i \in Slots : i # k => slots'[i] = slots[i]
         /\ \A i \in Slots : slots'[i].token = slots[i].token
                            /\ slots'[i].version = slots[i].version
  BY DEF TypeInv, SlotType

LEMMA VersionStored ==
  ASSUME TypeInv, NEW k \in Slots, NEW v \in {0, 1},
         slots' = [slots EXCEPT ![k].version = v]
  PROVE  /\ slots' \in [Slots -> SlotType] /\ slots'[k].version = v
         /\ \A i \in Slots : i # k => slots'[i] = slots[i]
         /\ \A i \in Slots : slots'[i].addr = slots[i].addr /\ slots'[i].token = slots[i].token
  BY DEF TypeInv, SlotType

LEMMA TokenStored ==
  ASSUME TypeInv, NEW k \in Slots, NEW x \in Token, NEW v \in {0, 1},
         slots' = [slots EXCEPT ![k].token = x, ![k].version = v]
  PROVE  /\ slots' \in [Slots -> SlotType] /\ slots'[k].token = x /\ slots'[k].version = v
         /\ \A i \in Slots : i # k => slots'[i] = slots[i]
         /\ \A i \in Slots : slots'[i].addr = slots[i].addr
<1> DEFINE r == [slots[k] EXCEPT !.token = x, !.version = v]
<1>1. slots[k] \in SlotType
  BY DEF TypeInv
<1>2. r \in SlotType /\ r.token = x /\ r.version = v /\ r.addr = slots[k].addr
  BY <1>1 DEF SlotType
<1>3. slots' = [slots EXCEPT ![k] = r]
  BY <1>1 DEF TypeInv, SlotType
<1> HIDE DEF r
<1> QED
  BY <1>2, <1>3 DEF TypeInv

LEMMA EndWriteStores ==
  ASSUME TypeInv, NEW t \in Threads, EndWrite(t)
  PROVE  \E x \in Token, v \in {0, 1} :
           /\ slots' = [slots EXCEPT ![call[t].i].token = x, ![call[t].i].version = v]
           /\ ~call[t].raced => x = call[t].token /\ v = 1 - slots[call[t].i].version
<1> DEFINE S == {SlotOf(t).token, call[t].token}
           X == IF call[t].raced THEN Mixes(S) ELSE {call[t].token}
           V == Increment(call[t].i, call[t].raced)
<1>1. S \in SUBSET Token
  BY Fields DEF SlotOf, SlotType
<1> HIDE DEF S
<1>2. X \subseteq Token
  BY <1>1, MixType, Fields
<1>3. V \subseteq {0, 1} /\ (~call[t].raced => V = {1 - slots[call[t].i].version})
  BY Fields DEF Increment, SlotType
<1>4. \E x \in X, v \in V :
        slots' = [slots EXCEPT ![call[t].i].token = x, ![call[t].i].version = v]
  BY DEF EndWrite, S
<1> HIDE DEF V
<1> QED
  BY <1>2, <1>3, <1>4

(***************************************************************************)
(* Types                                                                   *)
(***************************************************************************)
LEMMA TypeStep == TypeInv /\ [Next]_vars => TypeInv'
<1> SUFFICES ASSUME TypeInv, [Next]_vars PROVE TypeInv'
  OBVIOUS
<1>1. CASE Tick \/ EvictElsewhere \/ UNCHANGED vars
  <2>1. UNCHANGED <<slots, call, inserts, found, alone, broken>>
    BY <1>1 DEF Tick, EvictElsewhere, vars, history
  <2>2. evict_counter' \in Slots /\ now' \in Nat
    BY <1>1 DEF Tick, EvictElsewhere, vars, TypeInv, Slots, SLOTS_PER_SHARD
  <2> QED
    BY <2>1, <2>2 DEF TypeInv
<1>2. ASSUME NEW t \in Threads, NEW a \in Addrs, BeginGet(t, a) \/ BeginInsert(t, a)
      PROVE  TypeInv'
  <2>1. call' \in [Threads -> CallType]
    BY <1>2, BeginGetMoves, BeginInsertMoves
  <2>2. /\ UNCHANGED <<slots, evict_counter, now>> /\ inserts' \in Nat
        /\ found' \in Token /\ alone' \in SUBSET Threads /\ UNCHANGED broken
    BY <1>2, NoTokenType DEF BeginGet, BeginInsert, TypeInv, history
  <2> QED
    BY <2>1, <2>2 DEF TypeInv
<1>3. ASSUME NEW t \in Threads, GetScan(t) \/ InvalidateScan(t) \/ InsertScan(t)
      PROVE  TypeInv'
  <2>1. UNCHANGED <<slots, evict_counter, now, inserts, found, alone, broken>>
    BY <1>3 DEF GetScan, InvalidateScan, InsertScan, history
  <2>2. /\ "read" \in CallPc /\ "clear" \in CallPc /\ "write" \in CallPc
        /\ "claim" \in CallPc /\ "evict" \in CallPc
    BY DEF CallPc, InvalidatePc, InsertPc
  <2>3. call' \in [Threads -> CallType]
    BY <1>3, <2>2, GotoMoves, NextSlotMoves, ReturnMoves DEF GetScan, InvalidateScan, InsertScan
  <2> QED
    BY <2>1, <2>3 DEF TypeInv
<1>4. ASSUME NEW t \in Threads, GetRead(t) \/ UseToken(t) \/ Evict(t)
      PROVE  TypeInv'
  <2>1. UNCHANGED <<slots, now, inserts, found, alone, broken>>
    BY <1>4 DEF GetRead, UseToken, Evict, history
  <2>2. call' \in [Threads -> CallType]
    BY <1>4, GetReadMoves, ReturnMoves, EvictMoves DEF UseToken
  <2>3. evict_counter' \in Slots
    BY <1>4, EvictMoves DEF GetRead, UseToken, TypeInv
  <2> QED
    BY <2>1, <2>2, <2>3 DEF TypeInv
<1>8. ASSUME NEW t \in Threads, BeginWrite(t)
      PROVE  TypeInv'
  <2>1. call' \in [Threads -> CallType] /\ call[t].i \in Slots
    BY <1>8, BeginWriteMoves, Fields
  <2>2. PICK v \in {0, 1} : slots' = [slots EXCEPT ![call[t].i].version = v]
    BY <1>8, BeginWriteMoves
  <2>3. slots' \in [Slots -> SlotType]
    BY <2>1, <2>2, VersionStored
  <2>4. broken' \in SUBSET Slots
    <3>1. broken' = IF Storing(call[t].i) = {} THEN broken ELSE broken \cup {call[t].i}
      BY <1>8, BeginWriteMoves
    <3> QED
      BY <2>1, <3>1 DEF TypeInv
  <2> QED
    BY <1>8, <2>1, <2>3, <2>4 DEF BeginWrite, TypeInv
<1>5. ASSUME NEW t \in Threads, BeginInvalidate(t)
      PROVE  TypeInv'
  BY <1>5, BeginInvalidateMoves, NoTokenType DEF BeginInvalidate, TypeInv
<1>6. ASSUME NEW t \in Threads, InvalidateClear(t) \/ Claim(t) \/ Replace(t)
      PROVE  TypeInv'
  <2>1. UNCHANGED <<evict_counter, now, inserts, found, alone, broken>>
    BY <1>6 DEF InvalidateClear, Claim, Replace, history
  <2>2. "write" \in CallPc
    BY DEF CallPc, InsertPc
  <2>3. CASE Claim(t) /\ slots[call[t].i].addr # 0
    BY <2>1, <2>3, ClaimLostMoves DEF TypeInv
  <2>4. CASE ~(Claim(t) /\ slots[call[t].i].addr # 0)
    <3>1. call' \in [Threads -> CallType]
      BY <1>6, <2>2, <2>4, GotoMoves, ReturnMoves DEF InvalidateClear, Claim, Replace, SlotOf
    <3>2. \E x \in Nat : slots' = [slots EXCEPT ![call[t].i].addr = x]
      BY <1>6, <2>4, Fields DEF InvalidateClear, Claim, Replace, SlotOf
    <3> QED
      BY <2>1, <3>1, <3>2, Fields, AddrStored DEF TypeInv
  <2> QED
    BY <2>3, <2>4
<1>7. ASSUME NEW t \in Threads, EndWrite(t)
      PROVE  TypeInv'
  <2>1. /\ call' \in [Threads -> CallType] /\ UNCHANGED <<evict_counter, now, inserts, broken>>
        /\ found' \in Token /\ alone' \in SUBSET Threads
    BY <1>7, ReturnMoves, Fields, NoTokenType DEF EndWrite, ReturnInsert, TypeInv
  <2>2. slots' \in [Slots -> SlotType]
    <3>1. PICK x \in Token, v \in {0, 1} :
            slots' = [slots EXCEPT ![call[t].i].token = x, ![call[t].i].version = v]
      BY <1>7, EndWriteStores
    <3>2. call[t].i \in Slots
      BY Fields
    <3> QED
      BY <3>1, <3>2, TokenStored
  <2> QED
    BY <2>1, <2>2 DEF TypeInv
<1> QED
  BY <1>1, <1>2, <1>3, <1>4, <1>5, <1>6, <1>7, <1>8 DEF Next

(***************************************************************************)
(* Any number of endpoints: the insert that runs undisturbed               *)
(***************************************************************************)
LEMMA InitInv == Init => Inv
<1> SUFFICES ASSUME Init PROVE Inv
  OBVIOUS
<1> QED
  BY InitType DEF Init, Inv, AloneInv, FoundInv

(* An insert that was disturbed promises nothing, and while it runs there  *)
(* is nothing to be found and nobody else undisturbed.                     *)
LEMMA DisturbedStep ==
  ASSUME Inv, TypeInv', NEW t \in Threads, call[t].pc \in InsertPc \cup InvalidatePc,
         t \notin alone, UNCHANGED alone, found' = NoToken
  PROVE  Inv'
<1>1. alone = {}
  BY DEF Inv, AloneInv, TypeInv
<1> QED
  BY <1>1 DEF Inv, AloneInv, FoundInv

LEMMA NothingToFind ==
  ASSUME Inv, NEW t \in Threads, call[t].pc \in InsertPc
  PROVE  found = NoToken
  BY DEF Inv, FoundInv, Spares

LEMMA OnlyOneAlone ==
  ASSUME Inv, NEW t \in alone
  PROVE  alone = {t} /\ t \in Threads /\ call[t].pc \in InsertPc /\ found = NoToken
<1>1. t \in Threads /\ call[t].pc \in InsertPc
  BY DEF Inv, AloneInv, Knows, TypeInv
<1>2. ASSUME NEW u \in alone PROVE u = t
  BY <1>1, <1>2 DEF Inv, AloneInv, Knows, TypeInv
<1> QED
  BY <1>1, <1>2, NothingToFind

(* A step that writes to no slot of a thread that is not inside insert,    *)
(* and takes it no further than to the slot of the address it invalidates. *)
LEMMA QuietStep ==
  ASSUME Inv, TypeInv', NEW t \in Threads,
         \A u \in Threads : u # t => call'[u] = call[u],
         UNCHANGED <<slots, found, alone>>,
         call[t].pc \notin InsertPc, call'[t].pc \notin InsertPc,
         call'[t].pc \in InvalidatePc =>
           call[t].pc \in InvalidatePc /\ call'[t].addr = call[t].addr,
         call'[t].pc = "clear" => slots[call'[t].i].addr = call'[t].addr
  PROVE  Inv'
<1>1. AloneInv'
  <2> SUFFICES ASSUME NEW u \in alone
               PROVE  /\ Knows(u)'
                      /\ \A v \in Threads : v # u => call'[v].pc \notin InsertPc \cup InvalidatePc
    BY DEF AloneInv
  <2>1. u \in Threads /\ Knows(u) /\ u # t
        /\ \A v \in Threads : v # u => call[v].pc \notin InsertPc \cup InvalidatePc
    BY DEF Inv, AloneInv, Knows, TypeInv
  <2>2. call'[u] = call[u] /\ Knows(u)'
    BY <2>1 DEF Knows
  <2> QED
    BY <2>1, <2>2
<1>2. FoundInv'
  <2> SUFFICES ASSUME found # NoToken
               PROVE  \A u \in Threads : Spares(u)'
    BY DEF Inv, FoundInv, FirstOf
  <2>1. \A u \in Threads : Spares(u)
    BY DEF Inv, FoundInv
  <2>2. Spares(t)'
    <3>1. "clear" \in InvalidatePc
      BY DEF InvalidatePc
    <3> QED
      BY <2>1, <3>1 DEF Spares
  <2> QED
    BY <2>1, <2>2 DEF Spares
<1> QED
  BY <1>1, <1>2 DEF Inv

LEMMA PcApart ==
  /\ "idle" \notin InsertPc \cup InvalidatePc /\ "get" \notin InsertPc \cup InvalidatePc
  /\ "read" \notin InsertPc \cup InvalidatePc /\ "got" \notin InsertPc \cup InvalidatePc
  /\ "invalidate" \in InvalidatePc \ InsertPc /\ "clear" \in InvalidatePc \ InsertPc
  /\ {"read", "clear", "write", "claim", "evict"} \subseteq CallPc
  BY DEF InsertPc, InvalidatePc, CallPc

LEMMA GetInv ==
  ASSUME Inv, TypeInv', NEW t \in Threads,
         (\E a \in Addrs : BeginGet(t, a)) \/ GetScan(t) \/ GetRead(t) \/ UseToken(t)
  PROVE  Inv'
<1>1. UNCHANGED <<slots, found, alone>> /\ TypeInv
  BY DEF BeginGet, GetScan, GetRead, UseToken, history, Inv
<1>2. /\ call[t].pc \in {"idle", "get", "read", "got"}
      /\ call'[t].pc \in {"idle", "get", "read", "got"}
      /\ \A u \in Threads : u # t => call'[u] = call[u]
  <2>1. CASE \E a \in Addrs : BeginGet(t, a)
    BY <1>1, <2>1, BeginGetMoves
  <2>2. CASE GetScan(t)
    BY <1>1, <2>2, PcApart, GotoMoves, NextSlotMoves, ReturnMoves, NoTokenType DEF GetScan, At
  <2>3. CASE GetRead(t)
    BY <1>1, <2>3, GetReadMoves, NoTokenType
  <2>4. CASE UseToken(t)
    BY <1>1, <2>4, ReturnMoves, NoTokenType DEF UseToken, At
  <2> QED
    BY <2>1, <2>2, <2>3, <2>4
<1> QED
  BY <1>1, <1>2, PcApart, QuietStep

(* From here on no insert is undisturbed, and only a token of another      *)
(* address is still sure to be found.                                      *)
LEMMA BeginInvalidateInv ==
  ASSUME Inv, TypeInv', NEW t \in Threads, BeginInvalidate(t)
  PROVE  Inv'
<1>1. /\ call[t].pc = "got" /\ call'[t].pc = "invalidate" /\ call'[t].addr = call[t].addr
      /\ \A u \in Threads : u # t => call'[u] = call[u]
  BY BeginInvalidateMoves DEF Inv
<1>2. /\ found' # NoToken => found' = found /\ found.addr # call[t].addr
      /\ alone' = {} /\ UNCHANGED slots
  BY DEF BeginInvalidate
<1>3. FoundInv'
  <2> SUFFICES ASSUME found' # NoToken PROVE FoundInv'
    BY DEF FoundInv
  <2>1. found' = found /\ found # NoToken /\ found.addr # call[t].addr
    BY <1>2
  <2>2. \A u \in Threads : Spares(u)
    BY <2>1 DEF Inv, FoundInv
  <2>3. \A u \in Threads : Spares(u)'
    BY <1>1, <1>2, <2>1, <2>2, PcApart DEF Spares
  <2> QED
    BY <1>2, <2>1, <2>3 DEF Inv, FoundInv, FirstOf
<1> QED
  BY <1>2, <1>3 DEF Inv, AloneInv

LEMMA InvalidateScanInv ==
  ASSUME Inv, TypeInv', NEW t \in Threads, InvalidateScan(t)
  PROVE  Inv'
<1>1. UNCHANGED <<slots, found, alone>> /\ TypeInv /\ call[t].pc = "invalidate"
  BY DEF InvalidateScan, history, Inv, At
<1>2. CASE slots[call[t].i].addr = call[t].addr /\ Goto(t, "clear")
  BY <1>1, <1>2, PcApart, GotoMoves, QuietStep
<1>3. CASE NextSlot(t)
  BY <1>1, <1>3, PcApart, NextSlotMoves, QuietStep
<1>4. CASE Return(t)
  BY <1>1, <1>4, PcApart, ReturnMoves, NoTokenType, QuietStep
<1> QED
  BY <1>2, <1>3, <1>4 DEF InvalidateScan, SlotOf

(* Any slot may be emptied by now, but not the one of the token to find.   *)
LEMMA InvalidateClearInv ==
  ASSUME Inv, TypeInv', NEW t \in Threads, InvalidateClear(t)
  PROVE  Inv'
<1> DEFINE k == call[t].i
<1>1. /\ call[t].pc = "clear" /\ UNCHANGED <<found, alone>> /\ TypeInv /\ k \in Slots
      /\ slots' = [slots EXCEPT ![k].addr = 0]
  BY Fields DEF InvalidateClear, At, history, Inv
<1>2. call'[t].pc = "idle" /\ \A u \in Threads : u # t => call'[u] = call[u]
  BY <1>1, ReturnMoves, NoTokenType DEF InvalidateClear
<1> HIDE DEF k
<1>3. /\ slots'[k].addr = 0
      /\ \A i \in Slots : i # k => slots'[i] = slots[i]
      /\ \A i \in Slots : slots'[i].token = slots[i].token
  BY <1>1, AddrStored
<1>4. alone = {}
  <2>1. \A u \in alone : u \in Threads /\ u # t
    BY <1>1, PcApart DEF Inv, AloneInv, Knows, TypeInv
  <2> QED
    BY <1>1, <2>1, PcApart DEF Inv, AloneInv
<1>5. FoundInv'
  <2> SUFFICES ASSUME found # NoToken PROVE FoundInv'
    BY <1>1 DEF FoundInv
  <2>1. found.addr # 0 /\ \A u \in Threads : Spares(u)
    BY DEF Inv, FoundInv
  <2>2. slots[k].addr # found.addr
    BY <1>1, <2>1 DEF Spares, k
  <2>3. PICK i \in Slots : FirstOf(i, found.addr) /\ slots[i].token = found
    BY DEF Inv, FoundInv
  <2>4. i # k /\ slots'[i] = slots[i]
    BY <1>3, <2>2, <2>3 DEF FirstOf
  <2>5. FirstOf(i, found.addr)' /\ slots'[i].token = found
    BY <1>1, <1>3, <2>1, <2>3, <2>4 DEF FirstOf
  <2>6. \A u \in Threads : Spares(u)'
    <3> SUFFICES ASSUME NEW u \in Threads PROVE Spares(u)'
      OBVIOUS
    <3>1. CASE u = t
      BY <1>2, <3>1, PcApart DEF Spares
    <3>2. CASE u # t
      <4>1. call'[u] = call[u] /\ call[u].i \in Slots
        BY <1>1, <1>2, <3>2, Fields
      <4>2. slots'[call[u].i].addr \in {0, slots[call[u].i].addr}
        BY <1>3, <4>1
      <4> QED
        BY <1>1, <2>1, <4>1, <4>2 DEF Spares
    <3> QED
      BY <3>1, <3>2
  <2> QED
    BY <1>1, <2>1, <2>5, <2>6 DEF FoundInv
<1> QED
  BY <1>1, <1>4, <1>5 DEF Inv, AloneInv

LEMMA BeginInsertInv ==
  ASSUME Inv, TypeInv', NEW t \in Threads, NEW a \in Addrs, BeginInsert(t, a)
  PROVE  Inv'
<1>1. /\ call'[t].pc = "insert" /\ call'[t].i = 0
      /\ call'[t].addr # 0 /\ call'[t].token.addr = call'[t].addr /\ call'[t].raced = FALSE
      /\ \A u \in Threads : u # t => call'[u] = call[u]
  BY BeginInsertMoves DEF Inv
<1>2. /\ found' = NoToken /\ UNCHANGED slots
      /\ alone' = IF \E u \in Threads : Modifying(u) THEN {} ELSE {t}
  BY DEF BeginInsert
<1>3. Knows(t)'
  <2>1. \A j \in Slots : ~(j < 0)
    BY SlotCount
  <2> QED
    BY <1>1, <2>1 DEF Knows, InsertPc
<1>4. AloneInv'
  <2>1. CASE \E u \in Threads : Modifying(u)
    BY <1>2, <2>1 DEF AloneInv
  <2>2. CASE ~\E u \in Threads : Modifying(u)
    <3>1. \A u \in Threads : call[u].pc \notin InsertPc \cup InvalidatePc
      BY <2>2 DEF Modifying, Inserting, InsertPc, InvalidatePc
    <3> QED
      BY <1>1, <1>2, <1>3, <2>2, <3>1 DEF AloneInv
  <2> QED
    BY <2>1, <2>2
<1> QED
  BY <1>2, <1>4 DEF Inv, FoundInv

(* A step of an undisturbed insert, after which its thread still knows     *)
(* what it has to.                                                         *)
LEMMA AloneStep ==
  ASSUME Inv, TypeInv', NEW t \in alone, Knows(t)', UNCHANGED <<found, alone>>,
         \A u \in Threads : u # t => call'[u] = call[u]
  PROVE  Inv'
<1>1. alone = {t} /\ found = NoToken
  BY OnlyOneAlone
<1> QED
  BY <1>1 DEF Inv, AloneInv, FoundInv

LEMMA InsertScanInv ==
  ASSUME Inv, TypeInv', NEW t \in Threads, InsertScan(t)
  PROVE  Inv'
<1>1. UNCHANGED <<slots, found, alone>> /\ TypeInv
      /\ call[t].pc = "insert" /\ call[t].pc \in InsertPc
  BY DEF InsertScan, history, Inv, At, InsertPc
<1>2. CASE t \notin alone
  BY <1>1, <1>2, NothingToFind, DisturbedStep
<1>3. CASE t \in alone
  <2>1. Knows(t) /\ \A j \in Slots : j < call[t].i => slots[j].addr # call[t].addr
    BY <1>1, <1>3 DEF Inv, AloneInv, Knows
  <2>2. CASE slots[call[t].i].addr = call[t].addr /\ Goto(t, "write")
    <3>1. /\ call'[t].pc = "write" /\ call'[t].addr = call[t].addr /\ call'[t].i = call[t].i
          /\ call'[t].token = call[t].token /\ call'[t].raced = call[t].raced
          /\ \A u \in Threads : u # t => call'[u] = call[u]
      BY <1>1, <2>2, PcApart, GotoMoves
    <3>2. Knows(t)'
      BY <1>1, <2>1, <2>2, <3>1 DEF Knows, InsertPc
    <3> QED
      BY <1>1, <1>3, <3>1, <3>2, AloneStep
  <2>3. CASE slots[call[t].i].addr = 0 /\ Goto(t, "claim")
    <3>1. /\ call'[t].pc = "claim" /\ call'[t].addr = call[t].addr /\ call'[t].i = call[t].i
          /\ call'[t].token = call[t].token /\ call'[t].raced = call[t].raced
          /\ \A u \in Threads : u # t => call'[u] = call[u]
      BY <1>1, <2>3, PcApart, GotoMoves
    <3>2. Knows(t)'
      BY <1>1, <2>1, <2>3, <3>1 DEF Knows, InsertPc
    <3> QED
      BY <1>1, <1>3, <3>1, <3>2, AloneStep
  <2>4. CASE slots[call[t].i].addr # call[t].addr /\ NextSlot(t)
    <3>1. \A j \in Slots : j < 1 => j = 0
      BY SlotCount
    <3> QED
      <4>1. /\ call[t].i = 0 /\ call'[t].i = 1
            /\ call'[t].pc = call[t].pc /\ call'[t].addr = call[t].addr
            /\ call'[t].token = call[t].token /\ call'[t].raced = call[t].raced
            /\ \A u \in Threads : u # t => call'[u] = call[u]
        BY <1>1, <2>4, NextSlotMoves
      <4>2. Knows(t)'
        BY <1>1, <2>1, <2>4, <3>1, <4>1 DEF Knows, InsertPc
      <4> QED
        BY <1>1, <1>3, <4>1, <4>2, AloneStep
  <2>5. CASE slots[call[t].i].addr # call[t].addr /\ Last(t) /\ Goto(t, "evict")
    <3>1. \A j \in Slots : j = call[t].i \/ j < call[t].i
      BY <2>5, SlotCount DEF Last
    <3>2. \A j \in Slots : slots[j].addr # call[t].addr
      BY <2>1, <2>5, <3>1
    <3> QED
      <4>1. /\ call'[t].pc = "evict" /\ call'[t].addr = call[t].addr
            /\ call'[t].token = call[t].token /\ call'[t].raced = call[t].raced
            /\ \A u \in Threads : u # t => call'[u] = call[u]
        BY <1>1, <2>5, PcApart, GotoMoves
      <4>2. Knows(t)'
        BY <1>1, <2>1, <3>2, <4>1 DEF Knows, InsertPc
      <4> QED
        BY <1>1, <1>3, <4>1, <4>2, AloneStep
  <2> QED
    BY <2>2, <2>3, <2>4, <2>5 DEF InsertScan, SlotOf
<1> QED
  BY <1>2, <1>3

LEMMA EvictInv ==
  ASSUME Inv, TypeInv', NEW t \in Threads, Evict(t)
  PROVE  Inv'
<1>1. UNCHANGED <<slots, found, alone>> /\ TypeInv
      /\ call[t].pc = "evict" /\ call[t].pc \in InsertPc
  BY DEF Evict, history, Inv, At, InsertPc
<1>2. CASE t \notin alone
  BY <1>1, <1>2, NothingToFind, DisturbedStep
<1>3. CASE t \in alone
  <2>1. Knows(t) /\ \A j \in Slots : slots[j].addr # call[t].addr
    BY <1>1, <1>3 DEF Inv, AloneInv, Knows
  <2> QED
    BY <1>1, <1>3, <2>1, EvictMoves, AloneStep DEF Knows, InsertPc
<1> QED
  BY <1>2, <1>3

(* The store of the address, by a compare-and-exchange or over an evicted  *)
(* entry.                                                                  *)
LEMMA StoreAddr ==
  ASSUME Inv, TypeInv', NEW t \in alone, Goto(t, "write"),
         slots' = [slots EXCEPT ![call[t].i].addr = call[t].addr],
         UNCHANGED <<found, alone>>,
         \A j \in Slots : j < call[t].i => slots[j].addr # call[t].addr
  PROVE  Inv'
<1> DEFINE k == call[t].i
<1>1. t \in Threads /\ TypeInv /\ Knows(t)
  BY DEF Inv, TypeInv, AloneInv
<1>2. k \in Slots /\ call[t].addr \in Nat
  BY <1>1, Fields
<1>3. /\ call'[t].pc = "write" /\ call'[t].addr = call[t].addr /\ call'[t].i = k
      /\ call'[t].token = call[t].token /\ call'[t].raced = call[t].raced
      /\ \A u \in Threads : u # t => call'[u] = call[u]
  BY <1>1, PcApart, GotoMoves
<1>4. /\ slots'[k].addr = call[t].addr
      /\ \A i \in Slots : i # k => slots'[i] = slots[i]
  BY <1>1, <1>2, AddrStored
<1>5. \A j \in Slots : j < k => slots'[j].addr # call[t].addr
  <2>1. \A j \in Slots : j < k => j # k
    BY <1>2, SlotCount
  <2> QED
    BY <1>4, <2>1
<1> HIDE DEF k
<1>6. Knows(t)'
  BY <1>1, <1>3, <1>4, <1>5 DEF Knows, InsertPc
<1> QED
  BY <1>3, <1>6, AloneStep

(* An undisturbed insert never loses a compare-and-exchange. *)
LEMMA ClaimInv ==
  ASSUME Inv, TypeInv', NEW t \in Threads, Claim(t)
  PROVE  Inv'
<1>1. /\ UNCHANGED <<found, alone>> /\ TypeInv
      /\ call[t].pc = "claim" /\ call[t].pc \in InsertPc
  BY DEF Claim, history, Inv, At, InsertPc
<1>2. CASE t \notin alone
  BY <1>1, <1>2, NothingToFind, DisturbedStep
<1>3. CASE t \in alone
  <2>1. /\ slots[call[t].i].addr = 0
        /\ \A j \in Slots : j < call[t].i => slots[j].addr # call[t].addr
    BY <1>1, <1>3 DEF Inv, AloneInv, Knows
  <2> QED
    BY <1>1, <1>3, <2>1, StoreAddr DEF Claim, SlotOf
<1> QED
  BY <1>2, <1>3

LEMMA ReplaceInv ==
  ASSUME Inv, TypeInv', NEW t \in Threads, Replace(t)
  PROVE  Inv'
<1>1. /\ UNCHANGED <<found, alone>> /\ TypeInv
      /\ call[t].pc = "replace" /\ call[t].pc \in InsertPc
  BY DEF Replace, history, Inv, At, InsertPc
<1>2. CASE t \notin alone
  BY <1>1, <1>2, NothingToFind, DisturbedStep
<1>3. CASE t \in alone
  <2>1. \A j \in Slots : slots[j].addr # call[t].addr
    BY <1>1, <1>3 DEF Inv, AloneInv, Knows
  <2> QED
    BY <1>1, <1>3, <2>1, StoreAddr DEF Replace
<1> QED
  BY <1>2, <1>3

LEMMA BeginWriteInv ==
  ASSUME Inv, TypeInv', NEW t \in Threads, BeginWrite(t)
  PROVE  Inv'
<1>1. /\ UNCHANGED <<found, alone>> /\ TypeInv
      /\ call[t].pc = "write" /\ call[t].pc \in InsertPc
  BY DEF BeginWrite, Inv, At, InsertPc
<1>2. CASE t \notin alone
  BY <1>1, <1>2, NothingToFind, DisturbedStep
<1>3. CASE t \in alone
  <2>1. /\ Knows(t)
        /\ \A u \in Threads : u # t => call[u].pc \notin InsertPc
    BY <1>3 DEF Inv, AloneInv
  <2>2. Storing(call[t].i) = {}
    BY <1>1, <2>1 DEF Storing, At, InsertPc
  <2>3. /\ call'[t].pc = "store" /\ call'[t].i = call[t].i
        /\ call'[t].addr = call[t].addr /\ call'[t].token = call[t].token
        /\ call'[t].raced = FALSE
        /\ \A u \in Threads : u # t => call'[u] = call[u]
    <3>1. /\ call'[t].pc = "store" /\ call'[t].i = call[t].i
          /\ call'[t].addr = call[t].addr /\ call'[t].token = call[t].token
          /\ call'[t].raced = (Storing(call[t].i) # {})
          /\ \A u \in Threads : u # t /\ u \notin Storing(call[t].i) => call'[u] = call[u]
      BY <1>1, BeginWriteMoves
    <3> QED
      BY <2>2, <3>1
  <2>4. call[t].i \in Slots /\ \A i \in Slots : slots'[i].addr = slots[i].addr
    <3>1. call[t].i \in Slots
      BY <1>1, Fields
    <3>2. PICK v \in {0, 1} : slots' = [slots EXCEPT ![call[t].i].version = v]
      BY <1>1, BeginWriteMoves
    <3> QED
      BY <1>1, <3>1, <3>2, VersionStored
  <2>5. Knows(t)'
    BY <1>1, <2>1, <2>3, <2>4 DEF Knows, InsertPc
  <2> QED
    BY <1>1, <1>3, <2>3, <2>5, AloneStep
<1> QED
  BY <1>2, <1>3

(* The end of an insert: from now on a lookup finds the token. *)
LEMMA EndWriteInv ==
  ASSUME Inv, TypeInv', NEW t \in Threads, EndWrite(t)
  PROVE  Inv'
<1> DEFINE k == call[t].i
<1>1. /\ TypeInv /\ call[t].pc = "store" /\ call[t].pc \in InsertPc
      /\ k \in Slots /\ call[t].token \in Token
      /\ found' = IF t \in alone THEN call[t].token ELSE NoToken
      /\ alone' = alone \ {t}
  BY Fields DEF EndWrite, ReturnInsert, Inv, At, InsertPc
<1>2. call'[t].pc = "idle" /\ \A u \in Threads : u # t => call'[u] = call[u]
  BY <1>1, ReturnMoves, NoTokenType DEF EndWrite, ReturnInsert
<1>3. CASE t \notin alone
  <2>1. UNCHANGED alone /\ found' = NoToken
    BY <1>1, <1>3
  <2> QED
    BY <1>1, <1>3, <2>1, DisturbedStep
<1>4. CASE t \in alone
  <2>1. /\ Knows(t)
        /\ \A u \in Threads : u # t => call[u].pc \notin InsertPc \cup InvalidatePc
    BY <1>4 DEF Inv, AloneInv
  <2>2. alone' = {} /\ found' = call[t].token /\ found'.addr = call[t].addr
        /\ call[t].addr # 0
    BY <1>1, <1>4, <2>1, OnlyOneAlone DEF Knows
  <2>3. /\ slots'[k].token = call[t].token
        /\ \A i \in Slots : slots'[i].addr = slots[i].addr
    <3>1. PICK x \in Token, v \in {0, 1} :
            /\ slots' = [slots EXCEPT ![k].token = x, ![k].version = v]
            /\ ~call[t].raced => x = call[t].token
      BY <1>1, EndWriteStores
    <3> QED
      BY <1>1, <2>1, <3>1, TokenStored DEF Knows
  <2>4. /\ slots[k].addr = call[t].addr
        /\ \A j \in Slots : j < k => slots[j].addr # call[t].addr
    BY <1>1, <2>1 DEF Knows
  <2> HIDE DEF k
  <2>5. \E m \in Slots : FirstOf(m, found.addr)' /\ slots'[m].token = found'
    <3>1. PICK m \in Slots : m = k
      BY <1>1
    <3> QED
      BY <2>2, <2>3, <2>4, <3>1 DEF FirstOf
  <2>6. \A u \in Threads : Spares(u)'
    BY <1>2, <2>1, PcApart DEF Spares
  <2> QED
    BY <2>2, <2>5, <2>6 DEF Inv, AloneInv, FoundInv
<1> QED
  BY <1>3, <1>4

LEMMA ClockInv ==
  ASSUME Inv, TypeInv', Tick \/ EvictElsewhere \/ UNCHANGED vars
  PROVE  Inv'
<1>1. UNCHANGED <<slots, call, found, alone>>
  BY DEF Tick, EvictElsewhere, vars, history
<1> QED
  BY <1>1 DEF Inv, AloneInv, Knows, FoundInv, FirstOf, Spares

(* A lock that two threads have never written at once: its version is odd  *)
(* while a thread writes, and even otherwise.                              *)
LockInv ==
  \A i \in Slots : i \notin broken =>
    /\ \A t, u \in Storing(i) : t = u
    /\ \A t \in Storing(i) : call[t].raced = FALSE
    /\ slots[i].version = IF Storing(i) = {} THEN 0 ELSE 1

LEMMA InitLock == Init => LockInv
<1> SUFFICES ASSUME Init PROVE LockInv
  OBVIOUS
<1>1. \A i \in Slots : Storing(i) = {} /\ slots[i].version = 0
  BY NoTokenType DEF Init, Storing, At
<1> QED
  BY <1>1 DEF LockInv

LEMMA UnlockedStep ==
  ASSUME TypeInv, LockInv, NEW t \in Threads, call[t].pc # "store", call'[t].pc # "store",
         \A u \in Threads : u # t => call'[u] = call[u],
         UNCHANGED broken, \A i \in Slots : slots'[i].version = slots[i].version
  PROVE  LockInv'
<1>1. \A i \in Slots : Storing(i)' = Storing(i) /\ t \notin Storing(i)
  BY DEF Storing, At
<1>2. \A i \in Slots : \A u \in Storing(i) : u \in Threads /\ call'[u] = call[u]
  BY <1>1 DEF Storing
<1> QED
  BY <1>1, <1>2 DEF LockInv

LEMMA BeginWriteLock ==
  ASSUME TypeInv, LockInv, NEW t \in Threads, BeginWrite(t)
  PROVE  LockInv'
<1>1. PICK k \in Slots : k = call[t].i
  BY Fields
<1>2. /\ call[t].pc = "write" /\ call'[t].pc = "store" /\ call'[t].i = k
      /\ call'[t].raced = (Storing(k) # {})
      /\ \A u \in Threads : u # t /\ u \notin Storing(k) => call'[u] = call[u]
      /\ \A u \in Threads : u # t => call'[u].pc = call[u].pc /\ call'[u].i = call[u].i
      /\ broken' = IF Storing(k) = {} THEN broken ELSE broken \cup {k}
  BY <1>1, BeginWriteMoves
<1>3. PICK v \in {0, 1} : v \in Increment(k, Storing(k) # {})
                           /\ slots' = [slots EXCEPT ![k].version = v]
  BY <1>1, BeginWriteMoves
<1>4. slots'[k].version = v /\ \A i \in Slots : i # k => slots'[i] = slots[i]
  BY <1>3, VersionStored
<1> SUFFICES ASSUME NEW i \in Slots, i \notin broken'
             PROVE  /\ \A x, y \in Storing(i)' : x = y
                    /\ \A x \in Storing(i)' : call'[x].raced = FALSE
                    /\ slots'[i].version = IF Storing(i)' = {} THEN 0 ELSE 1
  BY DEF LockInv
<1>5. /\ i \notin broken
      /\ \A x, y \in Storing(i) : x = y
      /\ \A x \in Storing(i) : call[x].raced = FALSE
      /\ slots[i].version = IF Storing(i) = {} THEN 0 ELSE 1
  BY <1>2 DEF LockInv
<1>6. CASE i = k
  <2>1. Storing(k) = {}
    BY <1>2, <1>6
  <2>2. Storing(k)' = {t}
    BY <1>2, <2>1 DEF Storing, At
  <2>3. call'[t].raced = FALSE /\ v = 1
    <3>1. slots[k].version = 0
      BY <1>5, <1>6, <2>1
    <3>2. Increment(k, Storing(k) # {}) = {1 - 0}
      BY <2>1, <3>1 DEF Increment
    <3>3. v \in {1 - 0}
      BY <1>3, <3>2
    <3>4. call'[t].raced = FALSE
      <4>1. (Storing(k) # {}) = FALSE
        BY <2>1
      <4> QED
        BY <1>2, <4>1
    <3> QED
      BY <3>3, <3>4
  <2> QED
    BY <1>4, <1>6, <2>2, <2>3
<1>7. CASE i # k
  <2>1. Storing(i)' = Storing(i)
    BY <1>1, <1>2, <1>7 DEF Storing, At
  <2>2. \A x \in Storing(i) : x \in Threads /\ x # t /\ x \notin Storing(k)
    BY <1>2, <1>7 DEF Storing, At
  <2> QED
    BY <1>2, <1>4, <1>5, <1>7, <2>1, <2>2
<1> QED
  BY <1>6, <1>7

LEMMA EndWriteLock ==
  ASSUME TypeInv, LockInv, NEW t \in Threads, EndWrite(t)
  PROVE  LockInv'
<1>1. PICK k \in Slots : k = call[t].i
  BY Fields
<1>2. /\ call[t].pc = "store" /\ call'[t].pc = "idle" /\ UNCHANGED broken
      /\ \A u \in Threads : u # t => call'[u] = call[u]
  BY ReturnMoves, NoTokenType DEF EndWrite, ReturnInsert, At
<1>3. PICK x \in Token, v \in {0, 1} :
        /\ slots' = [slots EXCEPT ![k].token = x, ![k].version = v]
        /\ ~call[t].raced => v = 1 - slots[k].version
  BY <1>1, EndWriteStores
<1>4. slots'[k].version = v /\ \A i \in Slots : i # k => slots'[i] = slots[i]
  BY <1>3, TokenStored
<1> SUFFICES ASSUME NEW i \in Slots, i \notin broken
             PROVE  /\ \A y, z \in Storing(i)' : y = z
                    /\ \A y \in Storing(i)' : call'[y].raced = FALSE
                    /\ slots'[i].version = IF Storing(i)' = {} THEN 0 ELSE 1
  BY <1>2 DEF LockInv
<1>5. /\ \A y, z \in Storing(i) : y = z
      /\ \A y \in Storing(i) : call[y].raced = FALSE
      /\ slots[i].version = IF Storing(i) = {} THEN 0 ELSE 1
  BY DEF LockInv
<1>6. CASE i = k
  <2>1. t \in Storing(k)
    BY <1>1, <1>2 DEF Storing, At
  <2>2. Storing(k)' = {}
    BY <1>2, <1>5, <1>6, <2>1 DEF Storing, At
  <2>3. v = 0
    BY <1>3, <1>5, <1>6, <2>1
  <2> QED
    BY <1>4, <1>6, <2>2, <2>3
<1>7. CASE i # k
  <2>1. Storing(i)' = Storing(i) /\ t \notin Storing(i)
    BY <1>1, <1>2, <1>7 DEF Storing, At
  <2>2. \A y \in Storing(i) : y \in Threads /\ call'[y] = call[y]
    BY <1>2, <2>1 DEF Storing
  <2> QED
    BY <1>4, <1>5, <1>7, <2>1, <2>2
<1> QED
  BY <1>6, <1>7

LEMMA LockStep == TypeInv /\ LockInv /\ [Next]_vars => LockInv'
<1> SUFFICES ASSUME TypeInv, LockInv, [Next]_vars PROVE LockInv'
  OBVIOUS
<1>1. CASE Tick \/ EvictElsewhere \/ UNCHANGED vars
  BY <1>1 DEF Tick, EvictElsewhere, vars, history, LockInv, Storing, At
<1>2. ASSUME NEW t \in Threads, NEW a \in Addrs, BeginGet(t, a) \/ BeginInsert(t, a)
      PROVE  LockInv'
  <2>1. /\ call[t].pc # "store" /\ call'[t].pc # "store"
        /\ \A u \in Threads : u # t => call'[u] = call[u]
    BY <1>2, BeginGetMoves, BeginInsertMoves
  <2>2. UNCHANGED <<slots, broken>>
    BY <1>2 DEF BeginGet, BeginInsert, history
  <2> QED
    BY <2>1, <2>2, UnlockedStep
<1>3. ASSUME NEW t \in Threads, GetScan(t) \/ InvalidateScan(t) \/ InsertScan(t)
      PROVE  LockInv'
  <2>1. UNCHANGED <<slots, broken>> /\ call[t].pc # "store"
    BY <1>3 DEF GetScan, InvalidateScan, InsertScan, history, At
  <2>2. call'[t].pc # "store" /\ \A u \in Threads : u # t => call'[u] = call[u]
    BY <1>3, <2>1, PcApart, GotoMoves, NextSlotMoves, ReturnMoves, NoTokenType
    DEF GetScan, InvalidateScan, InsertScan
  <2> QED
    BY <2>1, <2>2, UnlockedStep
<1>4. ASSUME NEW t \in Threads, GetRead(t) \/ UseToken(t) \/ Evict(t) \/ BeginInvalidate(t)
      PROVE  LockInv'
  <2>1. UNCHANGED <<slots, broken>> /\ call[t].pc # "store"
    BY <1>4 DEF GetRead, UseToken, Evict, BeginInvalidate, history, At
  <2>2. call'[t].pc # "store" /\ \A u \in Threads : u # t => call'[u] = call[u]
    BY <1>4, GetReadMoves, ReturnMoves, EvictMoves, BeginInvalidateMoves, NoTokenType
    DEF UseToken
  <2> QED
    BY <2>1, <2>2, UnlockedStep
<1>5. ASSUME NEW t \in Threads, InvalidateClear(t) \/ Claim(t) \/ Replace(t)
      PROVE  LockInv'
  <2>1. UNCHANGED broken /\ call[t].pc # "store"
    BY <1>5 DEF InvalidateClear, Claim, Replace, history, At
  <2>2. CASE Claim(t) /\ slots[call[t].i].addr # 0
    <3>1. UNCHANGED slots /\ call'[t].pc # "store"
          /\ \A u \in Threads : u # t => call'[u] = call[u]
      BY <2>2, ClaimLostMoves
    <3> QED
      BY <2>1, <3>1, UnlockedStep
  <2>3. CASE ~(Claim(t) /\ slots[call[t].i].addr # 0)
    <3>1. call'[t].pc # "store" /\ \A u \in Threads : u # t => call'[u] = call[u]
      BY <1>5, <2>3, PcApart, GotoMoves, ReturnMoves, NoTokenType
      DEF InvalidateClear, Claim, Replace, SlotOf
    <3>2. \E x \in Nat : slots' = [slots EXCEPT ![call[t].i].addr = x]
      BY <1>5, <2>3, Fields DEF InvalidateClear, Claim, Replace, SlotOf
    <3>3. \A i \in Slots : slots'[i].version = slots[i].version
      BY <3>2, Fields, AddrStored
    <3> QED
      BY <2>1, <3>1, <3>3, UnlockedStep
  <2> QED
    BY <2>2, <2>3
<1> QED
  BY <1>1, <1>2, <1>3, <1>4, <1>5, BeginWriteLock, EndWriteLock DEF Next

LEMMA Invariance == Spec => [](Inv /\ LockInv)
<1>1. Inv /\ [Next]_vars => Inv'
  <2> SUFFICES ASSUME Inv, [Next]_vars PROVE Inv'
    OBVIOUS
  <2>1. TypeInv'
    BY TypeStep DEF Inv
  <2> QED
    BY <2>1, ClockInv, GetInv, BeginInvalidateInv, InvalidateScanInv, InvalidateClearInv,
       BeginInsertInv, InsertScanInv, ClaimInv, EvictInv, ReplaceInv, BeginWriteInv,
       EndWriteInv
    DEF Next
<1>2. Inv => TypeInv
  BY DEF Inv
<1> QED
  BY <1>1, <1>2, InitInv, InitLock, LockStep, PTL DEF Spec

(* For any number of endpoints that share the cache, get finds the token   *)
(* of the last insert and no older one, if no other insert or invalidate   *)
(* overlapped it: although the address may be in the shard twice, and      *)
(* whatever inserts at the same time have left in the slots before.        *)
THEOREM LastInsertFound == Spec => []InsertIsFound
<1>1. Inv /\ LockInv => InsertIsFound
  <2> SUFFICES ASSUME Inv, LockInv, found # NoToken
               PROVE  /\ Matching(found.addr) # {}
                      /\ slots[FirstMatching(found.addr)].token = found
                      /\ \/ slots[FirstMatching(found.addr)].version = 0
                         \/ FirstMatching(found.addr) \in broken
    BY DEF InsertIsFound
  <2>1. PICK i \in Slots : FirstOf(i, found.addr) /\ slots[i].token = found
    BY DEF Inv, FoundInv
  <2> DEFINE a == found.addr
             k == FirstMatching(a)
  <2>2. i \in Matching(a) /\ \A j \in Matching(a) : i <= j
    <3>1. i \in Matching(a)
      BY <2>1 DEF FirstOf, Matching
    <3>2. ASSUME NEW j \in Matching(a) PROVE i <= j
      <4>1. j \in Slots /\ ~(j < i)
        BY <2>1 DEF FirstOf, Matching
      <4> QED
        BY <4>1 DEF Slots, SLOTS_PER_SHARD
    <3> QED
      BY <3>1, <3>2
  <2>3. k \in Matching(a) /\ \A j \in Matching(a) : k <= j
    BY <2>2 DEF FirstMatching
  <2>4. k = i
    <3>1. k <= i /\ i <= k /\ k \in Slots
      BY <2>2, <2>3 DEF Matching
    <3> HIDE DEF k
    <3> QED
      BY <3>1 DEF Slots, SLOTS_PER_SHARD
  <2>5. i \in broken \/ slots[i].version = 0
    <3>1. Storing(i) = {}
      BY DEF Inv, FoundInv, Spares, Storing, At, InsertPc
    <3> QED
      BY <3>1 DEF LockInv
  <2> QED
    BY <2>1, <2>2, <2>4, <2>5
<1> QED
  BY <1>1, Invariance, PTL

(***************************************************************************)
(* One endpoint, as with the strategies Jit and InlinePrewarm              *)
(***************************************************************************)
OneEndpoint == \A t, u \in Threads : t = u

(* A slot holds a token of its address, except between the two stores of   *)
(* an insert.                                                              *)
SlotsOwn ==
  \A i \in Slots : slots[i].addr # 0 =>
    \/ slots[i].token.addr = slots[i].addr
    \/ \E t \in Threads : call[t].pc \in {"write", "store"} /\ call[t].i = i

(* The thread holds tokens of the address that it is working on, and the   *)
(* slot that it has chosen has this address until it is done with it.      *)
CallOwn(t) ==
  /\ call[t].pc \in {"get", "read"} => call[t].addr # 0
  /\ call[t].pc \in {"got"} \cup InsertPc => call[t].token.addr = call[t].addr
  /\ call[t].pc \in {"read", "write", "store"} => slots[call[t].i].addr = call[t].addr
  /\ call[t].pc \in InsertPc => call[t].raced = FALSE

OwnInv == TypeInv /\ SlotsOwn /\ \A t \in Threads : CallOwn(t)

LEMMA InitOwn == Init => OwnInv
<1> SUFFICES ASSUME Init PROVE OwnInv
  OBVIOUS
<1>1. \A t \in Threads : call[t].pc = "idle"
  BY NoTokenType DEF Init
<1>2. \A t \in Threads : CallOwn(t)
  BY <1>1, PcApart DEF CallOwn
<1>3. SlotsOwn
  BY DEF Init, SlotsOwn
<1> QED
  BY <1>2, <1>3, InitType DEF OwnInv

(* A step that leaves the slots alone, of a thread that is not writing. *)
LEMMA OwnStep ==
  ASSUME OneEndpoint, OwnInv, TypeInv', NEW t \in Threads, UNCHANGED slots,
         call[t].pc \notin {"write", "store"}, CallOwn(t)'
  PROVE  OwnInv'
<1>1. SlotsOwn'
  <2>1. \A u \in Threads : call[u].pc \notin {"write", "store"}
    BY DEF OneEndpoint
  <2> QED
    BY <2>1 DEF OwnInv, SlotsOwn
<1>2. \A u \in Threads : CallOwn(u)'
  <2>1. \A u \in Threads : u = t
    BY DEF OneEndpoint
  <2> QED
    BY <2>1
<1> QED
  BY <1>1, <1>2 DEF OwnInv

LEMMA ScanOwn ==
  ASSUME OneEndpoint, OwnInv, TypeInv', NEW t \in Threads,
         GetScan(t) \/ InvalidateScan(t) \/ InsertScan(t)
  PROVE  OwnInv'
<1>1. /\ UNCHANGED slots /\ TypeInv /\ CallOwn(t)
      /\ call[t].pc \in {"get", "invalidate", "insert"}
  BY DEF GetScan, InvalidateScan, InsertScan, At, OwnInv
<1>2. CASE NextSlot(t)
  <2>1. /\ call'[t].pc = call[t].pc /\ call'[t].addr = call[t].addr
        /\ call'[t].token = call[t].token /\ call'[t].raced = call[t].raced
    BY <1>1, <1>2, NextSlotMoves
  <2>2. CallOwn(t)'
    BY <1>1, <2>1 DEF CallOwn
  <2> QED
    BY <1>1, <2>2, OwnStep
<1>3. CASE Return(t)
  <2>1. call'[t].pc = "idle"
    BY <1>1, <1>3, ReturnMoves, NoTokenType
  <2>2. CallOwn(t)'
    BY <2>1, PcApart DEF CallOwn
  <2> QED
    BY <1>1, <2>2, OwnStep
<1>4. ASSUME NEW pc \in {"read", "clear", "write", "claim", "evict"}, Goto(t, pc),
             pc \in InsertPc => call[t].pc = "insert",
             pc = "read" => call[t].pc = "get",
             pc \in {"read", "write"} => slots[call[t].i].addr = call[t].addr
      PROVE  OwnInv'
  <2>1. /\ call'[t].pc = pc /\ call'[t].addr = call[t].addr /\ call'[t].i = call[t].i
        /\ call'[t].token = call[t].token /\ call'[t].raced = call[t].raced
    BY <1>1, <1>4, PcApart, GotoMoves
  <2>2. CallOwn(t)'
    BY <1>1, <1>4, <2>1 DEF CallOwn, InsertPc
  <2> QED
    BY <1>1, <2>2, OwnStep
<1>5. CASE GetScan(t)
  BY <1>2, <1>3, <1>4, <1>5, PcApart DEF GetScan, SlotOf, At
<1>6. CASE InvalidateScan(t)
  BY <1>2, <1>3, <1>4, <1>6, PcApart DEF InvalidateScan, SlotOf
<1>7. CASE InsertScan(t)
  BY <1>2, <1>4, <1>7 DEF InsertScan, SlotOf, At
<1> QED
  BY <1>5, <1>6, <1>7

(* Nobody else writes to the slot that get reads. *)
LEMMA GetReadOwn ==
  ASSUME OneEndpoint, OwnInv, TypeInv', NEW t \in Threads, GetRead(t)
  PROVE  OwnInv'
<1>1. UNCHANGED slots /\ TypeInv /\ call[t].pc = "read" /\ CallOwn(t)
  BY DEF GetRead, OwnInv, At
<1>2. CASE call'[t] = Idle
  <2>1. CallOwn(t)'
    BY <1>2, NoTokenType, PcApart DEF CallOwn
  <2> QED
    BY <1>1, <2>1, OwnStep
<1>3. CASE call'[t] # Idle
  <2> DEFINE k == call[t].i
             S == {slots[k].token} \cup {call[u].token : u \in Storing(k)}
  <2>1. /\ call'[t].pc = "got" /\ call'[t].addr = call[t].addr
        /\ call'[t].token \in Mixes(S)
    BY <1>1, <1>3, GetReadMoves DEF SlotOf
  <2>2. Storing(k) = {} /\ \A u \in Threads : call[u].pc \notin {"write", "store"}
    BY <1>1 DEF OneEndpoint, Storing, At
  <2>3. S = {slots[k].token}
    BY <2>2
  <2>4. call'[t].token.addr = slots[k].token.addr
    BY <2>1, <2>3 DEF Mixes
  <2>5. k \in Slots /\ slots[k].addr = call[t].addr /\ call[t].addr # 0
    BY <1>1, Fields DEF CallOwn
  <2>6. slots[k].token.addr = call[t].addr
    BY <2>2, <2>5 DEF OwnInv, SlotsOwn
  <2>7. CallOwn(t)'
    BY <2>1, <2>4, <2>6, PcApart DEF CallOwn
  <2> QED
    BY <1>1, <2>7, OwnStep
<1> QED
  BY <1>2, <1>3

LEMMA QuietOwn ==
  ASSUME OneEndpoint, OwnInv, TypeInv', NEW t \in Threads,
         \/ \E a \in Addrs : BeginGet(t, a) \/ BeginInsert(t, a)
         \/ UseToken(t) \/ BeginInvalidate(t) \/ Evict(t)
  PROVE  OwnInv'
<1>1. UNCHANGED slots /\ TypeInv /\ CallOwn(t) /\ call[t].pc \in {"idle", "got", "evict"}
  BY DEF BeginGet, BeginInsert, UseToken, BeginInvalidate, Evict, OwnInv, At
<1>2. ASSUME NEW a \in Addrs, BeginGet(t, a)
      PROVE  CallOwn(t)'
  <2>1. call'[t].pc = "get" /\ call'[t].addr # 0
    BY <1>1, <1>2, BeginGetMoves
  <2> QED
    BY <2>1, PcApart DEF CallOwn
<1>3. ASSUME NEW a \in Addrs, BeginInsert(t, a)
      PROVE  CallOwn(t)'
  <2>1. /\ call'[t].pc = "insert" /\ call'[t].token.addr = call'[t].addr
        /\ call'[t].raced = FALSE
    BY <1>1, <1>3, BeginInsertMoves
  <2> QED
    BY <2>1 DEF CallOwn
<1>4. ASSUME UseToken(t) PROVE CallOwn(t)'
  <2>1. call'[t].pc = "idle"
    BY <1>1, <1>4, ReturnMoves, NoTokenType DEF UseToken
  <2> QED
    BY <2>1, PcApart DEF CallOwn
<1>5. ASSUME BeginInvalidate(t) PROVE CallOwn(t)'
  <2>1. call'[t].pc = "invalidate"
    BY <1>1, <1>5, BeginInvalidateMoves
  <2> QED
    BY <2>1, PcApart DEF CallOwn
<1>6. ASSUME Evict(t) PROVE CallOwn(t)'
  <2>1. /\ call[t].pc = "evict" /\ call'[t].pc = "replace" /\ call'[t].addr = call[t].addr
        /\ call'[t].token = call[t].token /\ call'[t].raced = call[t].raced
    BY <1>1, <1>6, EvictMoves
  <2> QED
    BY <1>1, <2>1 DEF CallOwn, InsertPc
<1>7. CallOwn(t)'
  BY <1>2, <1>3, <1>4, <1>5, <1>6
<1> QED
  BY <1>1, <1>7, OwnStep

(* A slot is emptied, or gets the address of the thread, which goes on to  *)
(* write its token there.                                                  *)
LEMMA StoreOwn ==
  ASSUME OneEndpoint, OwnInv, TypeInv', NEW t \in Threads,
         InvalidateClear(t) \/ Claim(t) \/ Replace(t)
  PROVE  OwnInv'
<1> DEFINE k == call[t].i
<1>1. TypeInv /\ CallOwn(t) /\ k \in Slots /\ call[t].addr \in Nat
      /\ call[t].pc \in {"clear", "claim", "replace"} /\ \A u \in Threads : u = t
  BY Fields DEF InvalidateClear, Claim, Replace, OwnInv, At, OneEndpoint
<1>2. CASE Claim(t) /\ slots[k].addr # 0
  <2>1. UNCHANGED slots /\ call[t].pc = "claim"
    BY <1>1, <1>2, ClaimLostMoves DEF Claim, At
  <2>2. /\ call'[t].pc \in {"evict", "insert"} /\ call'[t].addr = call[t].addr
        /\ call'[t].token = call[t].token /\ call'[t].raced = call[t].raced
    BY <1>1, <1>2, ClaimLostMoves
  <2>3. CallOwn(t)'
    BY <1>1, <2>1, <2>2 DEF CallOwn, InsertPc
  <2> QED
    BY <1>1, <2>1, <2>3, OwnStep
<1>3. CASE InvalidateClear(t)
  <2>1. slots' = [slots EXCEPT ![k].addr = 0] /\ call'[t].pc = "idle"
    BY <1>1, <1>3, ReturnMoves, NoTokenType DEF InvalidateClear
  <2>2. /\ slots'[k].addr = 0
        /\ \A i \in Slots : i # k => slots'[i] = slots[i]
    BY <1>1, <2>1, AddrStored
  <2>3. CallOwn(t)'
    BY <2>1, PcApart DEF CallOwn
  <2>4. SlotsOwn'
    <3>1. \A u \in Threads : call[u].pc \notin {"write", "store"}
      BY <1>1
    <3> HIDE DEF k
    <3> QED
      BY <2>2, <3>1 DEF OwnInv, SlotsOwn
  <2> QED
    BY <1>1, <2>3, <2>4 DEF OwnInv
<1>4. CASE (Claim(t) /\ slots[k].addr = 0) \/ Replace(t)
  <2>1. /\ slots' = [slots EXCEPT ![k].addr = call[t].addr] /\ Goto(t, "write")
        /\ call[t].pc \in InsertPc
    BY <1>4 DEF Claim, Replace, SlotOf, At, InsertPc
  <2>2. /\ call'[t].pc = "write" /\ call'[t].addr = call[t].addr /\ call'[t].i = k
        /\ call'[t].token = call[t].token /\ call'[t].raced = call[t].raced
    BY <1>1, <2>1, PcApart, GotoMoves
  <2>3. /\ slots'[k].addr = call[t].addr
        /\ \A i \in Slots : i # k => slots'[i] = slots[i]
    BY <1>1, <2>1, AddrStored
  <2> HIDE DEF k
  <2>4. CallOwn(t)'
    BY <1>1, <2>1, <2>2, <2>3 DEF CallOwn, InsertPc
  <2>5. SlotsOwn'
    <3>1. \A u \in Threads : call[u].pc \notin {"write", "store"}
      BY <1>1
    <3> QED
      BY <2>2, <2>3, <3>1 DEF OwnInv, SlotsOwn
  <2> QED
    BY <1>1, <2>4, <2>5 DEF OwnInv
<1> QED
  BY <1>2, <1>3, <1>4

LEMMA WriteOwn ==
  ASSUME OneEndpoint, OwnInv, TypeInv', NEW t \in Threads, BeginWrite(t) \/ EndWrite(t)
  PROVE  OwnInv'
<1> DEFINE k == call[t].i
<1>1. TypeInv /\ CallOwn(t) /\ k \in Slots /\ \A u \in Threads : u = t
  BY Fields DEF OwnInv, OneEndpoint
<1>2. CASE BeginWrite(t)
  <2>1. /\ call[t].pc = "write" /\ call'[t].pc = "store" /\ call'[t].i = k
        /\ call'[t].addr = call[t].addr /\ call'[t].token = call[t].token
        /\ call'[t].raced = (Storing(k) # {})
    BY <1>1, <1>2, BeginWriteMoves
  <2>2. Storing(k) = {}
    BY <1>1, <2>1 DEF Storing, At
  <2>3. \A i \in Slots : slots'[i].addr = slots[i].addr /\ slots'[i].token = slots[i].token
    <3>1. PICK v \in {0, 1} : slots' = [slots EXCEPT ![k].version = v]
      BY <1>1, <1>2, BeginWriteMoves
    <3> QED
      BY <1>1, <3>1, VersionStored
  <2>4. CallOwn(t)'
    BY <1>1, <2>1, <2>2, <2>3 DEF CallOwn, InsertPc
  <2> HIDE DEF k
  <2>5. SlotsOwn'
    <3>1. \A i \in Slots : (\E u \in Threads : call[u].pc \in {"write", "store"} /\ call[u].i = i)
                              => i = k
      BY <1>1 DEF k
    <3> QED
      BY <2>1, <2>3, <3>1 DEF OwnInv, SlotsOwn
  <2> QED
    BY <1>1, <2>4, <2>5 DEF OwnInv
<1>3. CASE EndWrite(t)
  <2>1. call[t].pc = "store" /\ call[t].pc \in InsertPc /\ call'[t].pc = "idle"
    BY <1>1, <1>3, ReturnMoves, NoTokenType DEF EndWrite, ReturnInsert, At, InsertPc
  <2>2. /\ call[t].token.addr = call[t].addr /\ slots[k].addr = call[t].addr
        /\ ~call[t].raced /\ call[t].token \in Token
    BY <1>1, <2>1, Fields DEF CallOwn
  <2>3. PICK v \in {0, 1} :
          slots' = [slots EXCEPT ![k].token = call[t].token, ![k].version = v]
    BY <1>1, <1>3, <2>2, EndWriteStores
  <2>4. /\ slots'[k].token = call[t].token
        /\ \A i \in Slots : i # k => slots'[i] = slots[i]
        /\ \A i \in Slots : slots'[i].addr = slots[i].addr
    <3>1. PICK x \in Token : x = call[t].token
      BY <2>2
    <3>2. slots' = [slots EXCEPT ![k].token = x, ![k].version = v]
      BY <2>3, <3>1
    <3> HIDE DEF k
    <3> QED
      BY <1>1, <3>1, <3>2, TokenStored
  <2>5. CallOwn(t)'
    BY <2>1, PcApart DEF CallOwn
  <2>6. SlotsOwn'
    <3>1. \A i \in Slots : (\E u \in Threads : call[u].pc \in {"write", "store"} /\ call[u].i = i)
                              => i = k
      BY <1>1
    <3> HIDE DEF k
    <3> QED
      BY <2>2, <2>4, <3>1 DEF OwnInv, SlotsOwn
  <2> QED
    BY <1>1, <2>5, <2>6 DEF OwnInv
<1> QED
  BY <1>2, <1>3

LEMMA ClockOwn ==
  ASSUME OwnInv, TypeInv', Tick \/ EvictElsewhere \/ UNCHANGED vars
  PROVE  OwnInv'
<1>1. UNCHANGED <<slots, call>>
  BY DEF Tick, EvictElsewhere, vars
<1> QED
  BY <1>1 DEF OwnInv, SlotsOwn, CallOwn

(* With one endpoint, every token that get returns was issued for the      *)
(* address asked for: whatever slot the address was evicted from or        *)
(* claimed again, and although invalidate leaves the token in the slot.    *)
THEOREM TokensOfTheAddress == ASSUME OneEndpoint PROVE Spec => []GetReturnsOwn
<1>1. OwnInv /\ [Next]_vars => OwnInv'
  <2> SUFFICES ASSUME OwnInv, [Next]_vars PROVE OwnInv'
    OBVIOUS
  <2>1. TypeInv'
    BY TypeStep DEF OwnInv
  <2> QED
    BY <2>1, ClockOwn, QuietOwn, ScanOwn, GetReadOwn, StoreOwn, WriteOwn DEF Next
<1>2. OwnInv => GetReturnsOwn
  BY DEF OwnInv, CallOwn, GetReturnsOwn, At
<1> QED
  BY <1>1, <1>2, InitOwn, PTL DEF Spec
=============================================================================

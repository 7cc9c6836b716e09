----------------------------- MODULE QuicProofs -----------------------------
(***************************************************************************)
(* Theorems about the QUIC endpoint and their proofs, for every pool, every *)
(* set of peers and every hash.                                            *)
(*                                                                         *)
(* TypeInv is the inductive type invariant: it adds to TypeOK what kind of *)
(* call is at which place and that the slots a call refers to are occupied.*)
(* PoolInv explains why probing and scanning agree: a slot is never        *)
(* emptied, so that all slots that find_or_allocate looked at before it    *)
(* placed an address stay occupied.  DestInv follows the slot of a call,   *)
(* PlaceInv the transactions.                                              *)
(***************************************************************************)
EXTENDS QuicEndpoint, FiniteSetTheorems, TLAPS

Conns ==
  [phase : Phases, early : BOOLEAN, peer : {"none", "refused", "closed"},
   closed : BOOLEAN, queue : Seq(Transactions)]
Sends == {"send", "send_nonblocking"}

PoolTypes ==
  /\ addr \in [Slots -> Addrs \cup {NoAddr}] /\ state \in [Slots -> States]
  /\ retry \in [Slots -> 0..MaxRetryAttempts]
  /\ conn \in [Slots -> Conns]
  /\ \A i \in Slots : Len(conn[i].queue) <= QueueCapacity
  /\ recent \in Seq(Slots) /\ {recent[k] : k \in DOMAIN recent} = Occupied
  /\ dirty \subseteq Occupied

LogTypes ==
  /\ next_tx \in 1..(MaxTx + 1)
  /\ sent \subseteq [tx : 1..MaxTx, to : Addrs, via : Addrs]
  /\ dropped \subseteq Transactions

CallTypes ==
  /\ pc \in Places /\ todo \subseteq Occupied
  /\ pc \notin {"sweep", "remark"} => todo = {}
  /\ call \in [op : AllCalls \cup {"none"}, to : Addrs \cup {NoAddr}, tx : Nat,
               found : Slots \cup {NoSlot}, slot : Slots \cup {NoSlot}]
  /\ pc \in {"allocate", "create", "connect", "dispatch", "enqueue"} =>
       /\ call.to \in Addrs
       /\ call.op \in Sends => call.tx \in 1..MaxTx /\ call.tx < next_tx
  /\ pc \in {"dispatch", "enqueue", "reset"} => call.op \in Sends
  /\ pc \in {"handshake", "check"} => call.op = "connect"
  /\ pc \in {"allocate", "create", "connect"} => call.found \in Occupied \cup {NoSlot}
  /\ pc \in {"create", "connect", "handshake", "check", "remark"} => call.slot \in Occupied
  /\ pc \in {"dispatch", "enqueue", "flush", "reset"} => call.found \in Occupied

TypeInv == PoolTypes /\ LogTypes /\ CallTypes

(* The slots probed before the one that holds an address are occupied. *)
Reachable ==
  \A i \in Occupied, k \in Slots :
    Probe(addr[i], k) = i => \A j \in Slots : j < k => Probe(addr[i], j) \in Occupied

PoolInv == TypeInv /\ Reachable /\ UniqueAddresses

(* No two peers are the same to find. *)
KeysDistinct == \A a, b \in Addrs : Key(a) = Key(b) => a = b

(* The slot that a call refers to belongs to its peer. *)
CallSlotsOwn ==
  /\ pc \in {"create", "connect", "handshake", "check"} => addr[call.slot] = call.to
  /\ pc \in {"dispatch", "enqueue", "flush", "reset"} => addr[call.found] = call.to
  /\ pc \in {"allocate", "create", "connect"} =>
       (call.found # NoSlot => addr[call.found] = call.to)

DestInv == PoolInv /\ CallSlotsOwn /\ RightDestination

(* The transactions of a queue, and those that have been placed. *)
QueueTx(i) == {conn[i].queue[k].tx : k \in DOMAIN conn[i].queue}
LogTx == {s.tx : s \in sent} \cup {d.tx : d \in dropped}

QueuesApart ==
  /\ \A i, j \in Slots : i # j => QueueTx(i) \cap QueueTx(j) = {}
  /\ \A i \in Slots : \A k, l \in DOMAIN conn[i].queue :
       conn[i].queue[k].tx = conn[i].queue[l].tx => k = l

LogApart ==
  /\ \A s, r \in sent : s.tx = r.tx => s = r
  /\ \A d, e \in dropped : d.tx = e.tx => d = e
  /\ \A s \in sent, d \in dropped : s.tx # d.tx
  /\ \A i \in Slots : QueueTx(i) \cap LogTx = {}

(* Transaction t has not been placed yet. *)
Unplaced(t) == t \notin LogTx /\ \A i \in Slots : t \notin QueueTx(i)

CallUnplaced ==
  /\ \A t \in Nat : t >= next_tx => Unplaced(t)
  /\ pc \in {"allocate", "create", "connect", "dispatch", "enqueue"} /\ call.op \in Sends =>
       Unplaced(call.tx)

PlaceInv == TypeInv /\ QueuesApart /\ LogApart /\ CallUnplaced

LEMMA MinNat ==
  ASSUME NEW S \in SUBSET Nat, S # {}
  PROVE  Min(S) \in S /\ \A y \in S : Min(S) <= y
<1>1. PICK x \in S : \A y \in S : ~(<<y, x>> \in OpToRel(<, Nat))
  BY NatLessThanWellFounded, WFMin
<1>2. \A y \in S : x <= y
  <2>1. \A a, b \in Nat : a < b => <<a, b>> \in OpToRel(<, Nat)
    BY DEF OpToRel
  <2>2. \A y \in S : ~(y < x)
    BY <1>1, <2>1
  <2>3. QED
    BY <2>2
<1>3. QED
  BY <1>2 DEF Min

LEMMA RemoveFirstType ==
  ASSUME NEW S, NEW s \in Seq(S), NEW e
  PROVE  /\ RemoveFirst(s, e) \in Seq(S)
         /\ Range(RemoveFirst(s, e)) \cup {e} = Range(s) \cup {e}
<1> USE DEF Range
<1>1. CASE \A k \in 1..Len(s) : s[k] # e
  BY <1>1 DEF RemoveFirst
<1>2. CASE \E k \in 1..Len(s) : s[k] = e
  <2> DEFINE I == {k \in 1..Len(s) : s[k] = e}
             k0 == Min(I)
             r == RemoveAt(s, k0)
  <2>1. I \in SUBSET Nat /\ I # {}
    BY <1>2
  <2>2. k0 \in 1..Len(s) /\ s[k0] = e
    BY <2>1, MinNat
  <2>3. RemoveFirst(s, e) = r
    BY <1>2, <2>1 DEF RemoveFirst, SelectInSeq
  <2>4. /\ r \in Seq(S) /\ Len(r) = Len(s) - 1
        /\ \A k \in 1..(Len(s) - 1) : r[k] = IF k < k0 THEN s[k] ELSE s[k + 1]
    <3> HIDE DEF k0
    <3> DEFINE p == SubSeq(s, 1, k0 - 1)
               q == SubSeq(s, k0 + 1, Len(s))
    <3>1. p \in Seq(S) /\ Len(p) = k0 - 1 /\ \A k \in 1..(k0 - 1) : p[k] = s[k]
      BY <2>2
    <3>2. /\ q \in Seq(S) /\ Len(q) = Len(s) - k0
          /\ \A k \in 1..(Len(s) - k0) : q[k] = s[k0 + k]
      BY <2>2
    <3>3. r = p \o q
      BY DEF RemoveAt
    <3> HIDE DEF p, q, r
    <3>4. r \in Seq(S) /\ Len(r) = Len(s) - 1
      BY <2>2, <3>1, <3>2, <3>3
    <3>5. ASSUME NEW k \in 1..(Len(s) - 1)
          PROVE  r[k] = IF k < k0 THEN s[k] ELSE s[k + 1]
      <4>1. CASE k < k0
        BY <4>1, <2>2, <3>1, <3>2, <3>3
      <4>2. CASE ~(k < k0)
        <5>1. k - Len(p) \in 1..(Len(s) - k0) /\ k0 + (k - Len(p)) = k + 1
          BY <4>2, <2>2, <3>1
        <5>2. r[k] = q[k - Len(p)]
          BY <4>2, <2>2, <3>1, <3>2, <3>3
        <5>3. QED
          BY <4>2, <5>1, <5>2, <3>2
      <4>3. QED
        BY <4>1, <4>2
    <3>6. QED
      BY <3>4, <3>5
  <2>5. \A k \in 1..(k0 - 1) : r[k] = s[k]
    <3> HIDE DEF k0, r
    <3> QED BY <2>2, <2>4
  <2>6. \A k \in (k0 + 1)..Len(s) : k - 1 \in DOMAIN r /\ r[k - 1] = s[k]
    <3> HIDE DEF k0, r
    <3> QED BY <2>2, <2>4
  <2>7. {r[k] : k \in DOMAIN r} \cup {e} \subseteq {s[k] : k \in DOMAIN s} \cup {e}
    <3> HIDE DEF k0, r
    <3> QED BY <2>2, <2>4
  <2>8. ASSUME NEW k \in DOMAIN s PROVE s[k] \in {r[l] : l \in DOMAIN r} \cup {e}
    <3> HIDE DEF k0, r
    <3> QED BY <2>2, <2>4, <2>5, <2>6
  <2>9. QED
    <3> HIDE DEF k0, r
    <3> QED BY <2>3, <2>4, <2>7, <2>8
<1>3. QED
  BY <1>1, <1>2

(***************************************************************************)
(* The pool's lookups                                                      *)
(***************************************************************************)
LEMMA NoAddrApart == NoAddr \notin Addrs
<1>1. NoAddr.ip \notin Nat
  BY DEF NoAddr
<1>2. QED
  BY <1>1, AddrsAssumption

LEMMA ProbeValue ==
  ASSUME NEW a \in Addrs, NEW k \in Slots
  PROVE  /\ Home[a] \in Slots
         /\ Probe(a, k) = IF Home[a] + k < PoolSize THEN Home[a] + k
                                                     ELSE Home[a] + k - PoolSize
         /\ Probe(a, k) \in Slots
<1>1. Home[a] \in 0..(PoolSize - 1) /\ k \in 0..(PoolSize - 1) /\ PoolSize \in Nat \ {0}
  BY PoolAssumption DEF Slots
<1>2. \A n \in Nat : n < PoolSize => n % PoolSize = n
  BY <1>1
<1>3. \A n \in Nat : n < PoolSize => (n + PoolSize) % PoolSize = n
  BY <1>1
<1>4. CASE Home[a] + k < PoolSize
  BY <1>1, <1>2, <1>4 DEF Probe, Slots
<1>5. CASE ~(Home[a] + k < PoolSize)
  <2>1. Home[a] + k - PoolSize \in Nat /\ Home[a] + k - PoolSize < PoolSize
    BY <1>1, <1>5
  <2>2. (Home[a] + k - PoolSize) + PoolSize = Home[a] + k
    BY <1>1
  <2>3. QED
    BY <1>1, <1>3, <1>5, <2>1, <2>2 DEF Probe, Slots
<1>6. QED
  BY <1>4, <1>5

(* The probing reaches every slot, and each only once. *)
LEMMA ProbeOnto ==
  ASSUME NEW a \in Addrs, NEW i \in Slots
  PROVE  \E k \in Slots : Probe(a, k) = i
<1>1. Home[a] \in 0..(PoolSize - 1) /\ i \in 0..(PoolSize - 1) /\ PoolSize \in Nat \ {0}
  BY PoolAssumption DEF Slots
<1> DEFINE k == IF i >= Home[a] THEN i - Home[a] ELSE i - Home[a] + PoolSize
<1>2. k \in Slots
  BY <1>1 DEF Slots
<1>3. Probe(a, k) = i
  BY <1>1, <1>2, ProbeValue
<1>4. QED
  BY <1>2, <1>3

LEMMA ProbeOnce ==
  ASSUME NEW a \in Addrs, NEW k \in Slots, NEW l \in Slots, Probe(a, k) = Probe(a, l)
  PROVE  k = l
<1>1. /\ Home[a] \in 0..(PoolSize - 1) /\ PoolSize \in Nat \ {0}
      /\ k \in 0..(PoolSize - 1) /\ l \in 0..(PoolSize - 1)
  BY PoolAssumption DEF Slots
<1>2. QED
  BY <1>1, ProbeValue

(* Find returns an occupied slot with the key of the address. *)
LEMMA FindOccupied ==
  ASSUME NEW a, Find(a) # NoSlot
  PROVE  Find(a) \in Occupied /\ Key(addr[Find(a)]) = Key(a)
<1> DEFINE hits == {i \in Occupied : Key(addr[i]) = Key(a)}
<1>1. hits # {} /\ Find(a) = Min(hits)
  BY DEF Find
<1>2. hits \in SUBSET Nat
  BY PoolAssumption DEF Occupied, Slots
<1>3. QED
  BY <1>1, <1>2, MinNat

LEMMA VictimIsSlot ==
  ASSUME PoolTypes, Occupied = Slots
  PROVE  Victim \in Slots
<1> DEFINE gone == {i \in Occupied : state[i] \in {"Dead", "Failed"}}
<1>1. CASE gone # {}
  <2>1. gone \in SUBSET Nat
    BY PoolAssumption DEF Occupied, Slots
  <2>2. QED
    BY <1>1, <2>1, MinNat DEF Victim, Occupied
<1>2. CASE gone = {}
  <2>1. 0 \in {recent[k] : k \in DOMAIN recent}
    <3>1. 0 \in Slots
      BY PoolAssumption DEF Slots
    <3>2. {recent[k] : k \in DOMAIN recent} = Slots
      BY DEF PoolTypes
    <3>3. QED
      BY <3>1, <3>2
  <2>2. recent \in Seq(Slots) /\ recent # <<>>
    BY <2>1 DEF PoolTypes
  <2>3. QED
    BY <1>2, <2>2 DEF Victim
<1>3. QED
  BY <1>1, <1>2

(* What find_or_allocate returns.  A fresh slot is the first empty one on  *)
(* the way of the address, or the address met no empty slot.               *)
LEMMA Allocated ==
  ASSUME PoolTypes, NEW a \in Addrs
  PROVE  LET f == FindOrAllocate(a) IN
         /\ f.slot \in Slots /\ f.fresh \in BOOLEAN
         /\ ~f.fresh => addr[f.slot] = a
         /\ f.fresh =>
              \/ Occupied = Slots /\ \A i \in Slots : addr[i] # a
              \/ /\ addr[f.slot] = NoAddr
                 /\ \E k \in Slots :
                      /\ Probe(a, k) = f.slot
                      /\ \A j \in Slots : j < k => addr[Probe(a, j)] \notin {a, NoAddr}
<1> DEFINE stops == {k \in 0..(PoolSize - 1) : addr[Probe(a, k)] \in {a, NoAddr}}
           m == Min(stops)
           i == Probe(a, m)
           f == FindOrAllocate(a)
<1>1. CASE stops = {}
  <2>1. f.slot = Victim /\ f.fresh
    BY <1>1 DEF FindOrAllocate
  <2>2. \A j \in Slots : addr[j] # a /\ addr[j] # NoAddr
    BY <1>1, ProbeOnto DEF Slots
  <2>3. Occupied = Slots
    BY <2>2 DEF Occupied
  <2>4. QED
    BY <2>1, <2>2, <2>3, VictimIsSlot
<1>2. CASE stops # {}
  <2>1. f.slot = i /\ f.fresh = (addr[i] # a)
    BY <1>2 DEF FindOrAllocate
  <2>2. stops \in SUBSET Nat
    BY PoolAssumption
  <2>3. m \in stops /\ \A y \in stops : m <= y
    BY <1>2, <2>2, MinNat
  <2>4. m \in Slots /\ i \in Slots /\ addr[i] \in {a, NoAddr}
    BY <2>3, ProbeValue DEF Slots
  <2>5. \A j \in Slots : j < m => addr[Probe(a, j)] \notin {a, NoAddr}
    <3> HIDE DEF m
    <3> QED BY <2>3, PoolAssumption DEF Slots
  <2>6. ASSUME f.fresh
        PROVE  /\ addr[f.slot] = NoAddr
               /\ \E k \in Slots :
                    /\ Probe(a, k) = f.slot
                    /\ \A j \in Slots : j < k => addr[Probe(a, j)] \notin {a, NoAddr}
    <3> HIDE DEF m, f
    <3> QED BY <2>1, <2>4, <2>5, <2>6
  <2>7. f.slot \in Slots /\ f.fresh \in BOOLEAN /\ (~f.fresh => addr[f.slot] = a)
    <3> HIDE DEF m, f
    <3> QED BY <2>1, <2>4
  <2>8. QED
    BY <2>6, <2>7
<1>3. QED
  BY <1>1, <1>2

(***************************************************************************)
(* Types                                                                   *)
(***************************************************************************)
LEMMA TouchTypes ==
  ASSUME recent \in Seq(Slots), NEW i \in Slots, Touch(i)
  PROVE  /\ recent' \in Seq(Slots)
         /\ {recent'[k] : k \in DOMAIN recent'} = {recent[k] : k \in DOMAIN recent} \cup {i}
<1> DEFINE r == RemoveFirst(recent, i)
<1>1. r \in Seq(Slots) /\ Range(r) \cup {i} = Range(recent) \cup {i}
  BY RemoveFirstType
<1>2. recent' = Append(r, i)
  BY DEF Touch
<1> HIDE DEF r
<1>3. recent' \in Seq(Slots) /\ {recent'[k] : k \in DOMAIN recent'} = {r[k] : k \in DOMAIN r} \cup {i}
  BY <1>1, <1>2
<1>4. QED
  BY <1>1, <1>3 DEF Range

LEMMA MarkFailedTypes ==
  ASSUME PoolTypes, NEW i \in Slots, MarkFailed(i)
  PROVE  state' \in [Slots -> States] /\ retry' \in [Slots -> 0..MaxRetryAttempts]
BY SizeAssumption DEF PoolTypes, MarkFailed, FailedState, FailedRetry, States

(* The transactions that draining a queue leaves, sends and drops. *)
LEMMA DrainTypes ==
  ASSUME PoolTypes, LogTypes, NEW i \in Occupied, NEW n \in 0..Len(conn[i].queue), Drain(i, n)
  PROVE  /\ conn' \in [Slots -> Conns]
         /\ \A j \in Slots : Len(conn'[j].queue) <= QueueCapacity
         /\ sent' \subseteq [tx : 1..MaxTx, to : Addrs, via : Addrs]
         /\ dropped' \subseteq Transactions
<1> DEFINE q == conn[i].queue
           taken == IF n < Len(q) THEN n + 1 ELSE n
           rest == SubSeq(q, taken + 1, Len(q))
<1>1. i \in Slots /\ addr[i] \in Addrs
  BY DEF Occupied, PoolTypes
<1>2. q \in Seq(Transactions) /\ Len(q) <= QueueCapacity /\ conn[i] \in Conns
  BY <1>1 DEF PoolTypes, Conns
<1>3. n \in 0..Len(q) /\ Len(q) \in Nat /\ taken \in 0..Len(q)
  BY <1>2
<1>4. /\ conn' = [conn EXCEPT ![i].queue = rest]
      /\ sent' = sent \cup {[tx |-> q[k].tx, to |-> q[k].to, via |-> addr[i]] : k \in 1..n}
      /\ dropped' = dropped \cup {q[k] : k \in (n + 1)..taken}
  BY DEF Drain
<1> HIDE DEF q, taken
<1>5. rest \in Seq(Transactions) /\ Len(rest) <= QueueCapacity
  BY <1>2, <1>3, SizeAssumption
<1>6. \A k \in 1..Len(q) : q[k] \in Transactions
  BY <1>2
<1>7. sent' \subseteq [tx : 1..MaxTx, to : Addrs, via : Addrs]
  BY <1>1, <1>3, <1>4, <1>6 DEF LogTypes, Transactions
<1>8. dropped' \subseteq Transactions
  BY <1>3, <1>4, <1>6 DEF LogTypes
<1> HIDE DEF rest
<1>9. conn' \in [Slots -> Conns] /\ \A j \in Slots : Len(conn'[j].queue) <= QueueCapacity
  BY <1>1, <1>4, <1>5 DEF PoolTypes, Conns
<1>10. QED
  BY <1>7, <1>8, <1>9

(* drive_slot keeps the types, and neither moves an address nor marks a    *)
(* slot dirty.                                                             *)
LEMMA DriveTypes ==
  ASSUME PoolTypes, LogTypes, NEW i \in Occupied, DriveOk(i) \/ DriveErr(i)
  PROVE  /\ UNCHANGED <<addr, recent>> /\ Occupied' = Occupied
         /\ dirty' \subseteq dirty
         /\ PoolTypes'
         /\ sent' \subseteq [tx : 1..MaxTx, to : Addrs, via : Addrs]
         /\ dropped' \subseteq Transactions
<1>0. i \in Slots
  BY DEF Occupied
<1>1. CASE DriveFails(i)
  <2> DEFINE lost == [conn[i] EXCEPT !.phase = "lost"]
  <2>1. lost \in Conns /\ lost.queue = conn[i].queue
    BY <1>0 DEF PoolTypes, Conns, Phases
  <2>2. conn' = conn \/ conn' = [conn EXCEPT ![i] = lost]
    BY <1>1 DEF DriveFails
  <2> HIDE DEF lost
  <2>3. conn' \in [Slots -> Conns] /\ \A k \in Slots : conn'[k].queue = conn[k].queue
    BY <1>0, <2>1, <2>2 DEF PoolTypes
  <2>4. QED
    BY <1>0, <1>1, <2>3 DEF DriveFails, PoolTypes, LogTypes, Occupied
<1>2. CASE DriveSends(i)
  <2>1. Transmitted(conn[i]) \in Conns /\ Transmitted(conn[i]).queue = conn[i].queue
    BY <1>0 DEF Transmitted, PoolTypes, Conns, Phases
  <2>2. QED
    BY <1>0, <1>2, <2>1 DEF DriveSends, PoolTypes, LogTypes, Occupied
<1>3. CASE DriveFindsClosed(i)
  <2>1. state' \in [Slots -> States] /\ retry' \in [Slots -> 0..MaxRetryAttempts]
    BY <1>0, <1>3, MarkFailedTypes DEF DriveFindsClosed, PoolTypes, States
  <2>2. QED
    BY <1>3, <2>1 DEF DriveFindsClosed, PoolTypes, LogTypes, Occupied
<1>4. ASSUME NEW flushed \in BOOLEAN, DriveBecomesReady(i, flushed)
      PROVE  /\ UNCHANGED <<addr, recent>> /\ Occupied' = Occupied
             /\ dirty' \subseteq dirty
             /\ PoolTypes'
             /\ sent' \subseteq [tx : 1..MaxTx, to : Addrs, via : Addrs]
             /\ dropped' \subseteq Transactions
  <2>1. PICK n \in 0..Len(conn[i].queue) : Drain(i, n)
    BY <1>4 DEF DriveBecomesReady
  <2>2. UNCHANGED <<addr, retry, recent>> /\ Occupied' = Occupied /\ dirty' \subseteq dirty
    BY <1>4 DEF DriveBecomesReady, Occupied
  <2>3. state' \in [Slots -> States]
    BY <1>0, <1>4 DEF DriveBecomesReady, PoolTypes, States
  <2>4. QED
    BY <2>1, <2>2, <2>3, DrainTypes DEF PoolTypes
<1>5. QED
  BY <1>1, <1>2, <1>3, <1>4 DEF DriveOk, DriveErr

LEMMA EnqueueTypes ==
  ASSUME PoolTypes, NEW i \in Slots, NEW t \in Transactions, Enqueue(i, t)
  PROVE  conn' \in [Slots -> Conns] /\ \A j \in Slots : Len(conn'[j].queue) <= QueueCapacity
<1>1. CASE Full(conn[i])
  BY <1>1 DEF Enqueue, PoolTypes
<1>2. CASE ~Full(conn[i])
  <2> DEFINE q == Append(conn[i].queue, t)
  <2>1. conn[i].queue \in Seq(Transactions)
    BY DEF PoolTypes, Conns
  <2>2. q \in Seq(Transactions) /\ Len(q) <= QueueCapacity
    BY <1>2, <2>1, SizeAssumption DEF Full
  <2>3. conn' = [conn EXCEPT ![i].queue = q]
    BY <1>2 DEF Enqueue
  <2> HIDE DEF q
  <2>4. QED
    BY <2>2, <2>3 DEF PoolTypes, Conns
<1>3. QED
  BY <1>1, <1>2

LEMMA ReceivedTypes ==
  ASSUME NEW c \in Conns, NEW kind \in Kinds, NEW d \in Received(c, kind)
  PROVE  d \in Conns /\ d.queue = c.queue /\ (c.phase = "confirmed" => d.phase = "confirmed")
<1>1. CASE kind = "flight"
  <2>1. c.phase = "hello" /\ d = [c EXCEPT !.phase = "established"]
    BY <1>1 DEF Received
  <2>2. QED
    BY <2>1 DEF Conns, Phases
<1>2. CASE kind = "done"
  <2>1. c.phase = "finished" /\ d = [c EXCEPT !.phase = "confirmed"]
    BY <1>2 DEF Received
  <2>2. QED
    BY <2>1 DEF Conns, Phases
<1>3. CASE kind = "refused"
  <2>1. d = [c EXCEPT !.peer = "refused"]
    BY <1>3 DEF Received
  <2>2. QED
    BY <2>1 DEF Conns
<1>4. CASE kind = "closed"
  <2>1. PICK b \in BOOLEAN : d = [c EXCEPT !.peer = "closed", !.closed = b]
    BY <1>4 DEF Received
  <2>2. QED
    BY <2>1 DEF Conns
<1>5. CASE kind = "data"
  BY <1>5 DEF Received
<1>6. QED
  BY <1>1, <1>2, <1>3, <1>4, <1>5 DEF Kinds

LEMMA ReturnTypes ==
  ASSUME Return, todo' = {}
  PROVE  CallTypes'
<1>1. NoCall \in [op : AllCalls \cup {"none"}, to : Addrs \cup {NoAddr}, tx : Nat,
                  found : Slots \cup {NoSlot}, slot : Slots \cup {NoSlot}]
  BY DEF NoCall
<1>2. QED
  BY <1>1 DEF Return, CallTypes, Places

(* The call goes on at another place, in a pool with the same addresses. *)
LEMMA GoOnTypes ==
  ASSUME CallTypes, LogTypes, UNCHANGED <<addr, todo, next_tx>>,
         pc' \in Places \ {"idle", "recv", "sweep", "remark"}, todo = {},
         call' \in [op : {call.op}, to : {call.to}, tx : {call.tx},
                    found : Slots \cup {NoSlot}, slot : Slots \cup {NoSlot}],
         pc' \in {"allocate", "create", "connect", "dispatch", "enqueue"} =>
           pc \in {"allocate", "create", "connect", "dispatch", "enqueue"},
         pc' \in {"dispatch", "enqueue", "reset"} => call.op \in Sends,
         pc' \in {"handshake", "check"} => call.op = "connect",
         pc' \in {"allocate", "create", "connect"} => call'.found \in Occupied \cup {NoSlot},
         pc' \in {"create", "connect", "handshake", "check"} => call'.slot \in Occupied,
         pc' \in {"dispatch", "enqueue", "flush", "reset"} => call'.found \in Occupied
  PROVE  CallTypes'
<1>1. Occupied' = Occupied
  BY DEF Occupied
<1>2. /\ call'.op = call.op /\ call'.to = call.to /\ call'.tx = call.tx
      /\ call' \in [op : AllCalls \cup {"none"}, to : Addrs \cup {NoAddr}, tx : Nat,
                    found : Slots \cup {NoSlot}, slot : Slots \cup {NoSlot}]
  BY DEF CallTypes
<1>3. QED
  BY <1>1, <1>2 DEF CallTypes

LEMMA BeginTypes ==
  ASSUME TypeInv, NEW op \in Calls, NEW a \in Addrs, Begin(op, a)
  PROVE  TypeInv'
<1> DEFINE i == IF op = "connect" THEN NoSlot ELSE Find(a)
           place == IF i # NoSlot THEN FoundPc(op, i)
                    ELSE IF op = "keep_alive" THEN "idle" ELSE "allocate"
<1>1. /\ pc = "idle" /\ (op \in Sends => next_tx <= MaxTx) /\ place # "idle" /\ pc' = place
      /\ call' = [op |-> op, to |-> a, tx |-> next_tx, found |-> i, slot |-> i]
      /\ next_tx' = IF op \in Sends THEN next_tx + 1 ELSE next_tx
      /\ UNCHANGED <<pool, todo, sent, dropped>>
  BY DEF Begin, Sends
<1>2. Occupied' = Occupied /\ PoolTypes'
  BY <1>1 DEF pool, Occupied, TypeInv, PoolTypes
<1>3. i \in Occupied \cup {NoSlot}
  BY FindOccupied
<1>4. /\ place \in {"flush", "allocate", "dispatch"}
      /\ place = "flush" => op = "keep_alive" /\ i # NoSlot
      /\ place = "dispatch" => op \notin {"prewarm", "keep_alive", "connect"} /\ i # NoSlot
  BY <1>1 DEF FoundPc
<1>5. LogTypes' /\ next_tx \in Nat /\ (op \in Sends => next_tx \in 1..MaxTx /\ next_tx < next_tx')
  BY <1>1, SizeAssumption DEF TypeInv, LogTypes
<1>6. op \in AllCalls /\ (place = "dispatch" => op \in Sends)
  BY <1>4, WorldAssumption DEF AllCalls, Sends
<1>7. todo = {} /\ todo' = {}
  BY <1>1 DEF TypeInv, CallTypes
<1>8. i \in Slots \cup {NoSlot}
  BY <1>3 DEF Occupied
<1> HIDE DEF i, place
<1>9. /\ call'.op = op /\ call'.to = a /\ call'.tx = next_tx /\ call'.found = i /\ call'.slot = i
      /\ call' \in [op : AllCalls \cup {"none"}, to : Addrs \cup {NoAddr}, tx : Nat,
                    found : Slots \cup {NoSlot}, slot : Slots \cup {NoSlot}]
  BY <1>1, <1>5, <1>6, <1>8
<1>10. CallTypes'
  BY <1>1, <1>2, <1>3, <1>4, <1>5, <1>6, <1>7, <1>9 DEF CallTypes, Places
<1>11. QED
  BY <1>2, <1>5, <1>10 DEF TypeInv

LEMMA AllocateTypes ==
  ASSUME TypeInv, Allocate
  PROVE  TypeInv'
<1> DEFINE f == FindOrAllocate(call.to)
<1>1. /\ pc = "allocate" /\ call.to \in Addrs /\ todo = {} /\ PoolTypes
      /\ call.found \in Occupied \cup {NoSlot}
  BY DEF Allocate, TypeInv, CallTypes
<1>2. f.slot \in Slots /\ f.fresh \in BOOLEAN /\ (~f.fresh => addr[f.slot] = call.to)
  BY <1>1, Allocated
<1>3. /\ UNCHANGED <<dirty, todo, next_tx, sent, dropped>>
      /\ IF f.fresh
           THEN /\ addr' = [addr EXCEPT ![f.slot] = call.to]
                /\ state' = [state EXCEPT ![f.slot] = "Connecting"]
                /\ retry' = [retry EXCEPT ![f.slot] = 0]
                /\ conn' = [conn EXCEPT ![f.slot] = NoConn]
                /\ Touch(f.slot)
           ELSE UNCHANGED <<addr, state, retry, conn, recent>>
      /\ \/ Return
         \/ /\ ~f.fresh /\ pc' = "enqueue" /\ UNCHANGED call
            /\ call.op = "send" /\ call.found # NoSlot
         \/ pc' = "create" /\ call' = [call EXCEPT !.slot = f.slot]
  BY DEF Allocate, ReadyReturned
<1> HIDE DEF f
<1>4. addr' \in [Slots -> Addrs \cup {NoAddr}] /\ Occupied' = Occupied \cup {f.slot}
  <2>0. addr \in [Slots -> Addrs \cup {NoAddr}] /\ call.to \in Addrs /\ call.to # NoAddr
    BY <1>1, NoAddrApart DEF PoolTypes
  <2>1. CASE f.fresh
    BY <1>2, <1>3, <2>0, <2>1 DEF Occupied
  <2>2. CASE ~f.fresh
    BY <1>2, <1>3, <2>0, <2>2 DEF Occupied
  <2>3. QED
    BY <2>1, <2>2
<1>5. NoConn \in Conns /\ Len(NoConn.queue) = 0
  BY DEF NoConn, Conns, Phases
<1>6. /\ conn' \in [Slots -> Conns] /\ \A j \in Slots : Len(conn'[j].queue) <= QueueCapacity
      /\ state' \in [Slots -> States] /\ retry' \in [Slots -> 0..MaxRetryAttempts]
  <2>1. CASE f.fresh
    <3>1. "Connecting" \in States /\ 0 \in 0..MaxRetryAttempts /\ 0 <= QueueCapacity
      BY SizeAssumption DEF States
    <3>2. QED
      BY <1>1, <1>2, <1>3, <1>5, <2>1, <3>1 DEF PoolTypes
  <2>2. CASE ~f.fresh
    BY <1>1, <1>3, <2>2 DEF PoolTypes
  <2>3. QED
    BY <2>1, <2>2
<1>7. recent' \in Seq(Slots) /\ {recent'[k] : k \in DOMAIN recent'} = Occupied'
  <2>1. CASE f.fresh
    BY <1>1, <1>2, <1>3, <1>4, <2>1, TouchTypes DEF PoolTypes
  <2>2. CASE ~f.fresh
    <3>1. f.slot \in Occupied
      BY <1>1, <1>2, <2>2, NoAddrApart DEF Occupied
    <3>2. QED
      BY <1>1, <1>3, <1>4, <2>2, <3>1 DEF PoolTypes
  <2>3. QED
    BY <1>2, <2>1, <2>2
<1>8. PoolTypes'
  BY <1>1, <1>3, <1>4, <1>6, <1>7 DEF PoolTypes
<1>9. LogTypes'
  BY <1>3 DEF TypeInv, LogTypes
<1>10. CASE Return
  BY <1>1, <1>3, <1>8, <1>9, <1>10, ReturnTypes DEF TypeInv
<1>11. CASE pc' = "create" /\ call' = [call EXCEPT !.slot = f.slot]
  <2>1. /\ call'.op = call.op /\ call'.to = call.to /\ call'.tx = call.tx
        /\ call'.found = call.found /\ call'.slot = f.slot
        /\ call' \in [op : AllCalls \cup {"none"}, to : Addrs \cup {NoAddr}, tx : Nat,
                      found : Slots \cup {NoSlot}, slot : Slots \cup {NoSlot}]
    BY <1>2, <1>11 DEF TypeInv, CallTypes
  <2>2. CallTypes'
    BY <1>1, <1>3, <1>4, <1>11, <2>1 DEF TypeInv, CallTypes, Places
  <2>3. QED
    BY <1>8, <1>9, <2>2 DEF TypeInv
<1>12. CASE /\ ~f.fresh /\ pc' = "enqueue" /\ UNCHANGED call
            /\ call.op = "send" /\ call.found # NoSlot
  <2>1. UNCHANGED <<addr, todo, next_tx>>
    BY <1>3, <1>12
  <2>2. CallTypes'
    BY <1>1, <1>12, <2>1, GoOnTypes DEF TypeInv, CallTypes, Places, Sends
  <2>3. QED
    BY <1>8, <1>9, <2>2 DEF TypeInv
<1>13. QED
  BY <1>3, <1>10, <1>11, <1>12

LEMMA CreateTypes ==
  ASSUME TypeInv, Create
  PROVE  TypeInv'
<1>1. /\ pc = "create" /\ call.slot \in Occupied /\ call.slot \in Slots /\ todo = {} /\ PoolTypes
  BY DEF Create, TypeInv, CallTypes, Occupied
<1>2. PICK early \in BOOLEAN :
        conn' = [conn EXCEPT ![call.slot] = [NoConn EXCEPT !.phase = "new", !.early = early]]
  BY DEF Create
<1> DEFINE c == [NoConn EXCEPT !.phase = "new", !.early = early]
<1>3. c \in Conns /\ Len(c.queue) = 0
  <2>1. NoConn \in Conns /\ Len(NoConn.queue) = 0
    BY DEF NoConn, Conns, Phases
  <2>2. QED
    BY <2>1 DEF Conns, Phases
<1>4. /\ state' = [state EXCEPT ![call.slot] = "Connecting"] /\ Touch(call.slot) /\ pc' = "connect"
      /\ UNCHANGED <<addr, retry, dirty, call, todo, next_tx, sent, dropped>>
  BY DEF Create
<1>5. Occupied' = Occupied
  BY <1>4 DEF Occupied
<1>6. recent' \in Seq(Slots) /\ {recent'[k] : k \in DOMAIN recent'} = Occupied'
  BY <1>1, <1>4, <1>5, TouchTypes DEF PoolTypes
<1> HIDE DEF c
<1>7. conn' \in [Slots -> Conns] /\ \A j \in Slots : Len(conn'[j].queue) <= QueueCapacity
  <2>1. conn' = [conn EXCEPT ![call.slot] = c]
    BY <1>2 DEF c
  <2>2. QED
    BY <1>1, <1>3, <2>1, SizeAssumption DEF PoolTypes
<1>8. PoolTypes'
  BY <1>1, <1>4, <1>5, <1>6, <1>7 DEF PoolTypes, States
<1>9. LogTypes' /\ CallTypes'
  BY <1>1, <1>4, <1>5 DEF TypeInv, LogTypes, CallTypes, Places
<1>10. QED
  BY <1>8, <1>9 DEF TypeInv

(* A step that ends a call or a poll and leaves the pool alone. *)
LEMMA EndTypes ==
  ASSUME TypeInv, Return, UNCHANGED <<pool, todo, next_tx, sent, dropped>>, todo = {}
  PROVE  TypeInv'
<1>1. PoolTypes' /\ LogTypes'
  BY DEF TypeInv, PoolTypes, LogTypes, pool, Occupied
<1>2. QED
  BY <1>1, ReturnTypes DEF TypeInv

(* drive_slot at the end of a call, or in the middle of one. *)
LEMMA DriveReturnTypes ==
  ASSUME TypeInv, NEW i \in Occupied, DriveOk(i) \/ DriveErr(i),
         Return, UNCHANGED <<todo, next_tx>>, todo = {}
  PROVE  TypeInv'
<1>1. PoolTypes' /\ LogTypes'
  BY DriveTypes DEF TypeInv, LogTypes
<1>2. QED
  BY <1>1, ReturnTypes DEF TypeInv

LEMMA ConnectedTypes ==
  ASSUME TypeInv, Connected
  PROVE  TypeInv'
<1>1. /\ pc = "connect" /\ call.slot \in Occupied /\ call.slot \in Slots /\ todo = {}
      /\ call.found \in Occupied \cup {NoSlot} /\ UNCHANGED <<todo, next_tx>>
  BY DEF Connected, TypeInv, CallTypes, Occupied
<1>2. CASE Return
  BY <1>1, <1>2, DriveReturnTypes DEF Connected
<1>3. CASE /\ DriveOk(call.slot) /\ ConnectedPc # "idle" /\ pc' = ConnectedPc
           /\ call' = IF call.found = NoSlot THEN [call EXCEPT !.found = call.slot] ELSE call
  <2>1. /\ PoolTypes' /\ LogTypes' /\ UNCHANGED addr
    BY <1>1, <1>3, DriveTypes DEF TypeInv, LogTypes
  <2>2. call' \in [op : {call.op}, to : {call.to}, tx : {call.tx},
                   found : Slots \cup {NoSlot}, slot : Slots \cup {NoSlot}]
    BY <1>1, <1>3 DEF TypeInv, CallTypes
  <2>3. call'.found \in Occupied /\ call'.slot \in Occupied
    BY <1>1, <1>3 DEF TypeInv, CallTypes, Occupied, NoSlot, Slots
  <2>4. /\ pc' \in {"handshake", "dispatch", "enqueue"}
        /\ pc' = "handshake" => call.op = "connect"
        /\ pc' \in {"dispatch", "enqueue"} => call.op \in Sends
    BY <1>3 DEF ConnectedPc, Sends
  <2>5. CallTypes'
    BY <1>1, <2>1, <2>2, <2>3, <2>4, GoOnTypes DEF TypeInv, Places
  <2>6. QED
    BY <2>1, <2>5 DEF TypeInv
<1>4. QED
  BY <1>2, <1>3 DEF Connected

LEMMA DispatchTypes ==
  ASSUME TypeInv, DispatchNow \/ DispatchLater
  PROVE  TypeInv'
<1>1. /\ pc = "dispatch" /\ call.found \in Occupied /\ todo = {} /\ call.op \in Sends
      /\ call.to \in Addrs /\ call.tx \in 1..MaxTx /\ UNCHANGED <<pool, call, todo, next_tx, dropped>>
      /\ pc' \in {"flush", "enqueue"}
  BY DEF DispatchNow, DispatchLater, TypeInv, CallTypes
<1>2. PoolTypes'
  BY <1>1 DEF TypeInv, PoolTypes, pool, Occupied
<1>3. LogTypes'
  <2>1. addr[call.found] \in Addrs
    BY <1>1 DEF TypeInv, PoolTypes, Occupied
  <2>2. QED
    BY <1>1, <2>1 DEF DispatchNow, DispatchLater, Written, TypeInv, LogTypes
<1>4. CallTypes'
  <2>1. call' \in [op : {call.op}, to : {call.to}, tx : {call.tx},
                   found : Slots \cup {NoSlot}, slot : Slots \cup {NoSlot}]
    BY <1>1 DEF TypeInv, CallTypes
  <2>2. QED
    BY <1>1, <2>1, GoOnTypes DEF TypeInv, Places, pool
<1>5. QED
  BY <1>2, <1>3, <1>4 DEF TypeInv

LEMMA EnqueueStepTypes ==
  ASSUME TypeInv, DispatchBlocked \/ Queue
  PROVE  TypeInv'
<1>1. /\ pc \in {"dispatch", "enqueue"} /\ call.found \in Occupied /\ call.found \in Slots
      /\ todo = {} /\ Transaction \in Transactions
      /\ Return /\ UNCHANGED <<addr, state, retry, recent, todo, next_tx, sent, dropped>>
      /\ dirty' \subseteq dirty \cup {call.found}
      /\ conn' = conn \/ Enqueue(call.found, Transaction)
  BY DEF DispatchBlocked, Queue, TypeInv, CallTypes, Occupied, Transaction, Transactions
<1>2. conn' \in [Slots -> Conns] /\ \A j \in Slots : Len(conn'[j].queue) <= QueueCapacity
  BY <1>1, EnqueueTypes DEF TypeInv, PoolTypes
<1>3. PoolTypes' /\ LogTypes'
  BY <1>1, <1>2 DEF TypeInv, PoolTypes, LogTypes, Occupied
<1>4. QED
  BY <1>1, <1>3, ReturnTypes DEF TypeInv

LEMMA FlushTypes ==
  ASSUME TypeInv, Flush
  PROVE  TypeInv'
<1>1. /\ pc = "flush" /\ call.found \in Occupied /\ todo = {} /\ UNCHANGED <<todo, next_tx>>
  BY DEF Flush, TypeInv, CallTypes
<1>2. CASE Return
  BY <1>1, <1>2, DriveReturnTypes DEF Flush
<1>3. CASE DriveOk(call.found) /\ call.op = "send" /\ pc' = "reset" /\ UNCHANGED call
  <2>1. /\ PoolTypes' /\ LogTypes' /\ UNCHANGED addr
    BY <1>1, <1>3, DriveTypes DEF TypeInv, LogTypes
  <2>2. call' \in [op : {call.op}, to : {call.to}, tx : {call.tx},
                   found : Slots \cup {NoSlot}, slot : Slots \cup {NoSlot}]
    BY <1>3 DEF TypeInv, CallTypes
  <2>3. CallTypes'
    BY <1>1, <1>3, <2>1, <2>2, GoOnTypes DEF TypeInv, Places, Sends
  <2>4. QED
    BY <2>1, <2>3 DEF TypeInv
<1>4. QED
  BY <1>2, <1>3 DEF Flush

LEMMA ResetRetryTypes ==
  ASSUME TypeInv, ResetRetry
  PROVE  TypeInv'
<1>1. /\ pc = "reset" /\ call.found \in Slots /\ todo = {} /\ Return
      /\ retry' = [retry EXCEPT ![call.found] = 0]
      /\ UNCHANGED <<addr, state, conn, recent, dirty, todo, next_tx, sent, dropped>>
  BY DEF ResetRetry, TypeInv, CallTypes, Occupied
<1>2. PoolTypes' /\ LogTypes'
  BY <1>1, SizeAssumption DEF TypeInv, PoolTypes, LogTypes, Occupied
<1>3. QED
  BY <1>1, <1>2, ReturnTypes DEF TypeInv

LEMMA HandshakeDriveTypes ==
  ASSUME TypeInv, HandshakeDrive
  PROVE  TypeInv'
<1>1. /\ pc = "handshake" /\ call.slot \in Occupied /\ todo = {} /\ UNCHANGED <<todo, next_tx>>
      /\ call.op = "connect"
  BY DEF HandshakeDrive, TypeInv, CallTypes
<1>2. CASE Return
  BY <1>1, <1>2, DriveReturnTypes DEF HandshakeDrive
<1>3. CASE DriveOk(call.slot) /\ pc' = "check" /\ UNCHANGED call
  <2>1. /\ PoolTypes' /\ LogTypes' /\ UNCHANGED addr
    BY <1>1, <1>3, DriveTypes DEF TypeInv, LogTypes
  <2>2. call' \in [op : {call.op}, to : {call.to}, tx : {call.tx},
                   found : Slots \cup {NoSlot}, slot : Slots \cup {NoSlot}]
    BY <1>3 DEF TypeInv, CallTypes
  <2>3. CallTypes'
    BY <1>1, <1>3, <2>1, <2>2, GoOnTypes DEF TypeInv, Places
  <2>4. QED
    BY <2>1, <2>3 DEF TypeInv
<1>4. QED
  BY <1>2, <1>3 DEF HandshakeDrive

LEMMA HandshakeEndTypes ==
  ASSUME TypeInv, HandshakeCheck \/ HandshakeTimeout
  PROVE  TypeInv'
<1>1. /\ pc \in {"handshake", "check"} /\ call.slot \in Occupied /\ call.slot \in Slots /\ todo = {}
      /\ UNCHANGED <<addr, conn, recent, dirty, todo, next_tx, sent, dropped>>
      /\ call.op = "connect"
  BY DEF HandshakeCheck, HandshakeTimeout, TypeInv, CallTypes, Occupied
<1>2. state' \in [Slots -> States] /\ retry' \in [Slots -> 0..MaxRetryAttempts]
  <2>1. PoolTypes /\ "Ready" \in States
    BY DEF TypeInv, States
  <2>2. QED
    BY <1>1, <2>1, MarkFailedTypes DEF HandshakeCheck, HandshakeTimeout, PoolTypes
<1>3. PoolTypes' /\ LogTypes'
  BY <1>1, <1>2 DEF TypeInv, PoolTypes, LogTypes, Occupied
<1>4. CASE Return
  BY <1>1, <1>3, <1>4, ReturnTypes DEF TypeInv
<1>5. CASE pc' = "handshake" /\ UNCHANGED call
  <2>1. call' \in [op : {call.op}, to : {call.to}, tx : {call.tx},
                   found : Slots \cup {NoSlot}, slot : Slots \cup {NoSlot}]
    BY <1>5 DEF TypeInv, CallTypes
  <2>2. CallTypes'
    BY <1>1, <1>5, <2>1, GoOnTypes DEF TypeInv, Places
  <2>3. QED
    BY <1>3, <2>2 DEF TypeInv
<1>6. QED
  BY <1>4, <1>5 DEF HandshakeCheck, HandshakeTimeout

LEMMA ReceiveTypes ==
  ASSUME TypeInv, NEW a \in Addrs,
         ReceiveFails(a) \/ \E kind \in Kinds : Receive(a, kind)
  PROVE  TypeInv'
<1> DEFINE i == Find(a)
<1>1. i \in Occupied /\ i \in Slots /\ UNCHANGED <<addr, dirty, control, next_tx, sent, dropped>>
  BY FindOccupied DEF ReceiveFails, Receive, Occupied
<1>2. Occupied' = Occupied
  BY <1>1 DEF Occupied
<1>3. PoolTypes'
  <2>1. CASE ReceiveFails(a)
    <3>1. MarkFailed(i) /\ UNCHANGED <<conn, recent>>
      BY <2>1 DEF ReceiveFails
    <3>2. QED
      BY <1>1, <1>2, <3>1, MarkFailedTypes DEF TypeInv, PoolTypes
  <2>2. ASSUME NEW kind \in Kinds, Receive(a, kind) PROVE PoolTypes'
    <3>1. PICK c \in Received(conn[i], kind) : conn' = [conn EXCEPT ![i] = c]
      BY <2>2 DEF Receive
    <3>2. UNCHANGED <<state, retry>> /\ Touch(i)
      BY <2>2 DEF Receive
    <3>3. c \in Conns /\ c.queue = conn[i].queue
      BY <1>1, ReceivedTypes DEF TypeInv, PoolTypes
    <3>4. recent' \in Seq(Slots) /\ {recent'[k] : k \in DOMAIN recent'} = Occupied'
      BY <1>1, <1>2, <3>2, TouchTypes DEF TypeInv, PoolTypes
    <3> HIDE DEF i
    <3>5. conn' \in [Slots -> Conns] /\ \A j \in Slots : Len(conn'[j].queue) <= QueueCapacity
      BY <1>1, <3>1, <3>3 DEF TypeInv, PoolTypes
    <3>6. QED
      BY <1>1, <1>2, <3>2, <3>4, <3>5 DEF TypeInv, PoolTypes
  <2>3. QED
    BY <2>1, <2>2
<1>4. LogTypes' /\ CallTypes'
  BY <1>1, <1>2 DEF control, TypeInv, LogTypes, CallTypes
<1>5. QED
  BY <1>3, <1>4 DEF TypeInv

LEMMA PollTypes ==
  ASSUME TypeInv, BeginPoll \/ TakeDirty \/ Remark
  PROVE  TypeInv'
<1>1. Occupied' = Occupied /\ LogTypes' /\ UNCHANGED <<addr, state, retry, conn, recent>>
  BY DEF BeginPoll, TakeDirty, Remark, TypeInv, LogTypes, Occupied, pool
<1>2. CASE BeginPoll
  BY <1>1, <1>2 DEF BeginPoll, TypeInv, PoolTypes, CallTypes, Places, pool
<1>3. CASE TakeDirty
  BY <1>1, <1>3 DEF TakeDirty, TypeInv, PoolTypes, CallTypes, Places
<1>4. CASE Remark
  <2>1. /\ pc' = "sweep" /\ call' = NoCall /\ dirty' \subseteq Occupied /\ todo' = todo
    BY <1>4 DEF Remark, TypeInv, PoolTypes, CallTypes
  <2>2. NoCall \in [op : AllCalls \cup {"none"}, to : Addrs \cup {NoAddr}, tx : Nat,
                    found : Slots \cup {NoSlot}, slot : Slots \cup {NoSlot}]
    BY DEF NoCall
  <2>3. QED
    BY <1>1, <2>1, <2>2 DEF TypeInv, PoolTypes, CallTypes, Places
<1>5. QED
  BY <1>2, <1>3, <1>4

LEMMA SweepTypes ==
  ASSUME TypeInv, Sweep
  PROVE  TypeInv' /\ Min(todo) \in todo /\ Min(todo) \in Occupied
<1> DEFINE i == Min(todo)
<1>1. todo \subseteq Occupied /\ todo # {} /\ todo \in SUBSET Nat
  BY PoolAssumption DEF Sweep, TypeInv, CallTypes, Occupied, Slots
<1>2. i \in todo /\ i \in Occupied /\ i \in Slots
  BY <1>1, MinNat DEF Occupied
<1>3. /\ DriveOk(i) \/ DriveErr(i)
      /\ todo' = todo \ {i} /\ call' = [NoCall EXCEPT !.slot = i] /\ pc' = "remark" /\ UNCHANGED next_tx
  BY DEF Sweep
<1>4. PoolTypes' /\ LogTypes' /\ Occupied' = Occupied
  BY <1>2, <1>3, DriveTypes DEF TypeInv, LogTypes
<1> HIDE DEF i
<1>5. /\ call' \in [op : AllCalls \cup {"none"}, to : Addrs \cup {NoAddr}, tx : Nat,
                   found : Slots \cup {NoSlot}, slot : Slots \cup {NoSlot}]
      /\ call'.slot = i
  BY <1>2, <1>3 DEF NoCall
<1>6. CallTypes'
  BY <1>1, <1>2, <1>3, <1>4, <1>5 DEF CallTypes, Places
<1>7. QED
  BY <1>2, <1>4, <1>6 DEF TypeInv, i

(* Steps that end a call at once. *)
LEMMA StopTypes ==
  ASSUME TypeInv, CreateFails \/ DispatchFails \/ ReceiveIoFails \/ EndPoll
  PROVE  TypeInv'
<1>1. Return /\ UNCHANGED <<pool, todo, next_tx, sent, dropped>> /\ todo = {}
  BY DEF CreateFails, DispatchFails, ReceiveIoFails, EndPoll, TypeInv, CallTypes
<1>2. QED
  BY <1>1, EndTypes

LEMMA TypeStep ==
  ASSUME TypeInv, [Next]_vars
  PROVE  TypeInv'
<1>1. CASE \E op \in Calls, a \in Addrs : Begin(op, a)
  BY <1>1, BeginTypes
<1>2. CASE BeginPoll
  BY <1>2, PollTypes
<1>3. CASE Step
  BY <1>3, AllocateTypes, CreateTypes, ConnectedTypes, DispatchTypes, EnqueueStepTypes,
     FlushTypes, ResetRetryTypes, HandshakeDriveTypes, HandshakeEndTypes, PollTypes,
     SweepTypes, StopTypes DEF Step
<1>4. CASE \E a \in Addrs : ReceiveFails(a) \/ \E kind \in Kinds : Receive(a, kind)
  BY <1>4, ReceiveTypes
<1>5. CASE UNCHANGED vars
  BY <1>5 DEF vars, pool, control, TypeInv, PoolTypes, LogTypes, CallTypes, Occupied
<1>6. QED
  BY <1>1, <1>2, <1>3, <1>4, <1>5 DEF Next

LEMMA TypeInit ==
  ASSUME Init
  PROVE  TypeInv
<1>1. NoConn \in Conns /\ Len(NoConn.queue) = 0
  BY DEF NoConn, Conns, Phases
<1>2. Occupied = {}
  BY DEF Init, Occupied
<1>3. PoolTypes
  <2>1. {recent[k] : k \in DOMAIN recent} = {}
    BY DEF Init
  <2>2. "Connecting" \in States /\ 0 \in 0..MaxRetryAttempts /\ 0 <= QueueCapacity
    BY SizeAssumption DEF States
  <2>3. QED
    BY <1>1, <1>2, <2>1, <2>2 DEF Init, PoolTypes
<1>4. LogTypes
  BY SizeAssumption DEF Init, LogTypes
<1>5. CallTypes
  BY DEF Init, CallTypes, NoCall, Places
<1>6. QED
  BY <1>3, <1>4, <1>5 DEF TypeInv

LEMMA TypeAlways == Spec => []TypeInv
BY TypeInit, TypeStep, PTL DEF Spec

(* Every variable keeps its type, and no transaction queue grows beyond    *)
(* its capacity.                                                           *)
THEOREM TypeCorrect == Spec => []TypeOK
<1>1. TypeInv => TypeOK
  BY DEF TypeInv, PoolTypes, LogTypes, CallTypes, TypeOK, Conns, Occupied
<1>2. QED
  BY <1>1, TypeAlways, PTL

(***************************************************************************)
(* No address has two slots                                                *)
(***************************************************************************)

(* Only an allocation moves an address into a slot. *)
LEMMA AddrStep ==
  ASSUME [Next]_vars
  PROVE  addr' = addr \/ Allocate
BY DEF Next, Step, Begin, BeginPoll, Create, CreateFails, Connected, DispatchNow,
   DispatchBlocked, DispatchFails, DispatchLater, Queue, Flush, ResetRetry, HandshakeDrive,
   HandshakeCheck, HandshakeTimeout, ReceiveIoFails, TakeDirty, Sweep, Remark, EndPoll,
   ReceiveFails, Receive, DriveOk, DriveErr, DriveFails, DriveSends, DriveFindsClosed,
   DriveBecomesReady, vars, pool

LEMMA PoolStep ==
  ASSUME PoolInv, [Next]_vars
  PROVE  PoolInv'
<1>0. TypeInv'
  BY TypeStep DEF PoolInv
<1>1. CASE addr' = addr
  <2>1. Occupied' = Occupied
    BY <1>1 DEF Occupied
  <2>2. QED
    BY <1>0, <1>1, <2>1 DEF PoolInv, Reachable, UniqueAddresses, Probe
<1>2. CASE Allocate /\ addr' # addr
  <2> DEFINE a == call.to
             f == FindOrAllocate(a)
             n == f.slot
  <2>1. a \in Addrs /\ PoolTypes
    BY <1>2 DEF Allocate, PoolInv, TypeInv, CallTypes
  <2>2. n \in Slots /\ f.fresh /\ addr' = [addr EXCEPT ![n] = a]
    BY <1>2, <2>1, Allocated DEF Allocate
  <2>3. \/ Occupied = Slots /\ \A i \in Slots : addr[i] # a
        \/ /\ addr[n] = NoAddr
           /\ \E k \in Slots :
                /\ Probe(a, k) = n
                /\ \A j \in Slots : j < k => addr[Probe(a, j)] \notin {a, NoAddr}
    BY <2>1, <2>2, Allocated
  <2> HIDE DEF f, n
  <2>4. /\ addr'[n] = a /\ \A i \in Slots : i # n => addr'[i] = addr[i]
        /\ Occupied' = Occupied \cup {n}
    BY <2>1, <2>2, NoAddrApart DEF PoolTypes, Occupied
  <2>5. \A i \in Slots : addr[i] # a
    <3>1. ASSUME NEW i \in Slots, addr[i] = a PROVE FALSE
      <4>1. PICK k \in Slots :
              /\ addr[n] = NoAddr /\ Probe(a, k) = n
              /\ \A j \in Slots : j < k => addr[Probe(a, j)] \notin {a, NoAddr}
        BY <2>3, <3>1
      <4>2. PICK l \in Slots : Probe(a, l) = i
        BY <2>1, ProbeOnto
      <4>3. i \in Occupied /\ n \notin Occupied
        BY <2>1, <3>1, <4>1, NoAddrApart DEF Occupied
      <4>4. ~(l < k)
        BY <3>1, <4>1, <4>2
      <4>5. l # k
        BY <4>1, <4>2, <4>3
      <4>6. k < l
        BY <4>4, <4>5, PoolAssumption DEF Slots
      <4>7. Probe(a, k) \in Occupied
        BY <3>1, <4>2, <4>3, <4>6 DEF PoolInv, Reachable
      <4>8. QED
        BY <4>1, <4>3, <4>7
    <3>2. QED
      BY <3>1
  <2>6. UniqueAddresses'
    <3>1. ASSUME NEW i \in Occupied', NEW j \in Occupied', addr'[i] = addr'[j] PROVE i = j
      <4>1. i \in Slots /\ j \in Slots
        BY <3>1 DEF Occupied
      <4>2. CASE i = n \/ j = n
        BY <2>4, <2>5, <3>1, <4>1, <4>2
      <4>3. CASE i # n /\ j # n
        BY <2>4, <3>1, <4>1, <4>3 DEF PoolInv, UniqueAddresses
      <4>4. QED
        BY <4>2, <4>3
    <3>2. QED
      BY <3>1 DEF UniqueAddresses
  <2>7. Reachable'
    <3>1. ASSUME NEW i \in Occupied', NEW k \in Slots, Probe(addr'[i], k) = i,
                 NEW j \in Slots, j < k
          PROVE  Probe(addr'[i], j) \in Occupied'
      <4>1. i \in Slots
        BY <3>1 DEF Occupied
      <4>2. CASE i # n
        <5>1. i \in Occupied /\ addr'[i] = addr[i]
          BY <2>4, <3>1, <4>1, <4>2
        <5>2. Probe(addr[i], j) \in Occupied
          BY <3>1, <5>1 DEF PoolInv, Reachable
        <5>3. QED
          BY <2>4, <5>1, <5>2
      <4>3. CASE i = n
        <5>1. CASE Occupied = Slots
          BY <2>1, <2>4, <3>1, <4>3, <5>1, ProbeValue
        <5>2. CASE Occupied # Slots
          <6>1. PICK l \in Slots :
                  /\ Probe(a, l) = n
                  /\ \A m \in Slots : m < l => addr[Probe(a, m)] \notin {a, NoAddr}
            BY <2>3, <5>2
          <6>2. k = l
            BY <2>1, <2>4, <3>1, <4>3, <6>1, ProbeOnce
          <6>3. addr[Probe(a, j)] # NoAddr /\ Probe(a, j) \in Slots
            BY <2>1, <3>1, <6>1, <6>2, ProbeValue
          <6>4. QED
            BY <2>4, <4>3, <6>3 DEF Occupied
        <5>3. QED
          BY <5>1, <5>2
      <4>4. QED
        BY <4>2, <4>3
    <3>2. QED
      BY <3>1 DEF Reachable, Probe
  <2>8. QED
    BY <1>0, <2>6, <2>7 DEF PoolInv
<1>3. QED
  BY <1>1, <1>2, AddrStep

LEMMA PoolAlways == Spec => []PoolInv
<1>1. Init => PoolInv
  <2>1. ASSUME Init PROVE Occupied = {}
    BY <2>1 DEF Init, Occupied
  <2>2. QED
    BY <2>1, TypeInit DEF PoolInv, Reachable, UniqueAddresses
<1>2. QED
  BY <1>1, PoolStep, PTL DEF Spec

(* No address has two slots: the probing of find_or_allocate never misses  *)
(* a slot that the address has already, whatever was evicted before.       *)
THEOREM OneSlotPerAddress == Spec => []UniqueAddresses
<1>1. PoolInv => UniqueAddresses
  BY DEF PoolInv
<1>2. QED
  BY <1>1, PoolAlways, PTL

(***************************************************************************)
(* A transaction reaches its own peer                                      *)
(***************************************************************************)

(* What draining does to the queues and to the logs. *)
LEMMA DrainEffect ==
  ASSUME TypeInv, NEW i \in Occupied, NEW n \in 0..Len(conn[i].queue), Drain(i, n)
  PROVE  \E m \in n..Len(conn[i].queue) :
           /\ conn'[i].queue = SubSeq(conn[i].queue, m + 1, Len(conn[i].queue))
           /\ \A j \in Slots : j # i => conn'[j] = conn[j]
           /\ sent' = sent \cup {[tx |-> conn[i].queue[k].tx, to |-> conn[i].queue[k].to,
                                  via |-> addr[i]] : k \in 1..n}
           /\ dropped' = dropped \cup {conn[i].queue[k] : k \in (n + 1)..m}
<1> DEFINE q == conn[i].queue
           taken == IF n < Len(q) THEN n + 1 ELSE n
<1>1. i \in Slots /\ q \in Seq(Transactions) /\ conn \in [Slots -> Conns] /\ conn[i] \in Conns
  BY DEF Occupied, TypeInv, PoolTypes, Conns
<1>2. taken \in n..Len(q)
  BY <1>1
<1>3. /\ conn' = [conn EXCEPT ![i].queue = SubSeq(q, taken + 1, Len(q))]
      /\ sent' = sent \cup {[tx |-> q[k].tx, to |-> q[k].to, via |-> addr[i]] : k \in 1..n}
      /\ dropped' = dropped \cup {q[k] : k \in (n + 1)..taken}
  BY DEF Drain
<1> HIDE DEF taken
<1>4. conn'[i].queue = SubSeq(q, taken + 1, Len(q)) /\ \A j \in Slots : j # i => conn'[j] = conn[j]
  BY <1>1, <1>3 DEF Conns
<1>5. QED
  BY <1>2, <1>3, <1>4

(* drive_slot drains a queue or leaves all queues and logs alone. *)
LEMMA DriveEffect ==
  ASSUME TypeInv, NEW i \in Occupied, DriveOk(i) \/ DriveErr(i)
  PROVE  /\ UNCHANGED addr
         /\ \/ /\ UNCHANGED <<sent, dropped>>
               /\ \A j \in Slots : conn'[j].queue = conn[j].queue
            \/ /\ state'[i] = "Ready"
               /\ \E n \in 0..Len(conn[i].queue) : Drain(i, n)
<1>0. i \in Slots /\ conn \in [Slots -> Conns] /\ state \in [Slots -> States]
  BY DEF Occupied, TypeInv, PoolTypes
<1>1. CASE DriveFails(i)
  BY <1>0, <1>1 DEF DriveFails, Conns
<1>2. CASE DriveSends(i)
  <2>1. Transmitted(conn[i]).queue = conn[i].queue
    BY <1>0 DEF Transmitted, Conns
  <2>2. QED
    BY <1>0, <1>2, <2>1 DEF DriveSends
<1>3. CASE DriveFindsClosed(i)
  BY <1>3 DEF DriveFindsClosed
<1>4. CASE \E flushed \in BOOLEAN : DriveBecomesReady(i, flushed)
  BY <1>0, <1>4 DEF DriveBecomesReady
<1>5. QED
  BY <1>1, <1>2, <1>3, <1>4 DEF DriveOk, DriveErr

LEMMA DriveDest ==
  ASSUME TypeInv, RightDestination, NEW i \in Occupied, DriveOk(i) \/ DriveErr(i)
  PROVE  RightDestination'
<1>1. CASE UNCHANGED <<addr, sent, dropped>> /\ \A j \in Slots : conn'[j].queue = conn[j].queue
  BY <1>1 DEF RightDestination
<1>2. CASE UNCHANGED addr /\ \E n \in 0..Len(conn[i].queue) : Drain(i, n)
  <2>1. PICK n \in 0..Len(conn[i].queue) : Drain(i, n)
    BY <1>2
  <2> DEFINE q == conn[i].queue
  <2>2. PICK m \in n..Len(q) :
           /\ conn'[i].queue = SubSeq(q, m + 1, Len(q))
           /\ \A j \in Slots : j # i => conn'[j] = conn[j]
           /\ sent' = sent \cup {[tx |-> q[k].tx, to |-> q[k].to, via |-> addr[i]] : k \in 1..n}
    BY <2>1, DrainEffect
  <2>3. i \in Slots /\ q \in Seq(Transactions) /\ \A k \in 1..Len(q) : q[k].to = addr[i]
    BY DEF Occupied, TypeInv, PoolTypes, Conns, RightDestination
  <2>4. \A k \in DOMAIN conn'[i].queue : m + k \in 1..Len(q) /\ conn'[i].queue[k] = q[m + k]
    BY <2>2, <2>3
  <2>5. \A k \in DOMAIN conn'[i].queue : conn'[i].queue[k].to = addr[i]
    BY <2>3, <2>4
  <2>6. \A s \in sent' : s.to = s.via
    BY <2>2, <2>3 DEF RightDestination
  <2> HIDE DEF q
  <2>7. QED
    BY <1>2, <2>2, <2>5, <2>6 DEF RightDestination
<1>3. QED
  BY <1>1, <1>2, DriveEffect

LEMMA EnqueueEffect ==
  ASSUME TypeInv, NEW i \in Slots, NEW t \in Transactions, Enqueue(i, t)
  PROVE  /\ \A j \in Slots : j # i => conn'[j] = conn[j]
         /\ conn'[i].queue \in {conn[i].queue, Append(conn[i].queue, t)}
<1>1. CASE Full(conn[i])
  BY <1>1 DEF Enqueue
<1>2. CASE ~Full(conn[i])
  <2>1. conn \in [Slots -> Conns] /\ conn' = [conn EXCEPT ![i].queue = Append(conn[i].queue, t)]
    BY <1>2 DEF Enqueue, TypeInv, PoolTypes
  <2>2. QED
    BY <2>1 DEF Conns
<1>3. QED
  BY <1>1, <1>2

LEMMA DestStep ==
  ASSUME KeysDistinct, DestInv, [Next]_vars
  PROVE  DestInv'
<1>0. PoolInv' /\ TypeInv /\ TypeInv' /\ RightDestination
  BY PoolStep DEF DestInv, PoolInv
<1> SUFFICES CallSlotsOwn' /\ RightDestination'
  BY <1>0 DEF DestInv
<1>00. PoolTypes /\ CallTypes /\ LogTypes
  BY <1>0 DEF TypeInv
<1>1. ASSUME NEW op \in Calls, NEW a \in Addrs, Begin(op, a)
      PROVE  CallSlotsOwn' /\ RightDestination'
  <2> DEFINE i == IF op = "connect" THEN NoSlot ELSE Find(a)
  <2>1. /\ call'.to = a /\ call'.found = i /\ call'.slot = i
        /\ pc' \in {"flush", "allocate", "dispatch"} /\ (pc' # "allocate" => i # NoSlot)
        /\ UNCHANGED <<addr, conn, sent>>
    BY <1>1 DEF Begin, FoundPc, pool
  <2>2. i # NoSlot => addr[i] = a
    <3>1. ASSUME i # NoSlot PROVE i \in Occupied /\ Key(addr[i]) = Key(a)
      BY <3>1, FindOccupied
    <3>2. QED
      BY <1>00, <3>1 DEF KeysDistinct, PoolTypes, Occupied
  <2> HIDE DEF i
  <2>3. QED
    BY <1>0, <2>1, <2>2 DEF CallSlotsOwn, RightDestination
<1>2. CASE Allocate
  <2> DEFINE f == FindOrAllocate(call.to)
  <2>1. f.slot \in Slots /\ (~f.fresh => addr[f.slot] = call.to)
    BY <1>00, <1>2, Allocated DEF Allocate, CallTypes
  <2>2. /\ IF f.fresh
             THEN /\ addr' = [addr EXCEPT ![f.slot] = call.to]
                  /\ conn' = [conn EXCEPT ![f.slot] = NoConn]
             ELSE UNCHANGED <<addr, conn>>
        /\ \/ Return
           \/ /\ ~f.fresh /\ pc' = "enqueue" /\ UNCHANGED call /\ call.found # NoSlot
           \/ pc' = "create" /\ call' = [call EXCEPT !.slot = f.slot]
        /\ UNCHANGED sent
    BY <1>2 DEF Allocate, ReadyReturned
  <2> HIDE DEF f
  <2>3. addr'[f.slot] = call.to /\ \A j \in Slots : j # f.slot => addr'[j] = addr[j]
    BY <1>00, <2>1, <2>2 DEF PoolTypes
  <2>4. RightDestination'
    <3>1. CASE f.fresh
      <4>1. \A j \in Slots : j # f.slot => conn'[j] = conn[j]
        BY <1>00, <2>1, <2>2, <3>1 DEF PoolTypes
      <4>2. conn'[f.slot].queue = <<>>
        BY <1>00, <2>1, <2>2, <3>1 DEF PoolTypes, NoConn
      <4>3. DOMAIN conn'[f.slot].queue = {}
        BY <4>2
      <4>4. QED
        BY <1>0, <2>2, <2>3, <4>1, <4>3 DEF RightDestination
    <3>2. CASE ~f.fresh
      BY <1>0, <2>2, <3>2 DEF RightDestination
    <3>3. QED
      BY <3>1, <3>2
  <2>5. CASE Return
    BY <2>4, <2>5 DEF Return, CallSlotsOwn
  <2>6. CASE pc' = "create" /\ call' = [call EXCEPT !.slot = f.slot]
    <3>1. call'.to = call.to /\ call'.found = call.found /\ call'.slot = f.slot
      BY <1>00, <2>6 DEF CallTypes
    <3>2. pc = "allocate" /\ call.found \in Slots \cup {NoSlot}
      BY <1>00, <1>2 DEF Allocate, CallTypes
    <3>3. call.found # NoSlot => addr'[call.found] = call.to
      BY <2>1, <2>3, <3>2 DEF DestInv, CallSlotsOwn
    <3>4. QED
      BY <2>3, <2>4, <2>6, <3>1, <3>3 DEF CallSlotsOwn
  <2>7. CASE ~f.fresh /\ pc' = "enqueue" /\ UNCHANGED call /\ call.found # NoSlot
    <3>1. UNCHANGED addr /\ addr[call.found] = call.to
      BY <1>2, <2>2, <2>7 DEF DestInv, CallSlotsOwn, Allocate
    <3>2. QED
      BY <2>4, <2>7, <3>1 DEF CallSlotsOwn
  <2>8. QED
    BY <2>2, <2>5, <2>6, <2>7
<1>3. CASE Create
  <2>1. /\ pc = "create" /\ pc' = "connect" /\ UNCHANGED <<addr, call, sent>>
    BY <1>3 DEF Create
  <2>2. PICK early \in BOOLEAN :
          conn' = [conn EXCEPT ![call.slot] = [NoConn EXCEPT !.phase = "new", !.early = early]]
    BY <1>3 DEF Create
  <2>3. [NoConn EXCEPT !.phase = "new", !.early = early].queue = <<>>
    BY DEF NoConn
  <2>4. \A j \in Slots : conn'[j] = conn[j] \/ conn'[j].queue = <<>>
    BY <1>00, <2>2, <2>3 DEF PoolTypes
  <2>5. \A j \in Slots : conn'[j] = conn[j] \/ DOMAIN conn'[j].queue = {}
    BY <2>4
  <2>6. RightDestination'
    BY <1>0, <2>1, <2>5 DEF RightDestination
  <2>7. CallSlotsOwn'
    BY <2>1 DEF DestInv, CallSlotsOwn
  <2>8. QED
    BY <2>6, <2>7
<1>4. CASE Connected
  <2>1. pc = "connect" /\ call.slot \in Occupied
    BY <1>00, <1>4 DEF Connected, CallTypes
  <2>2. RightDestination' /\ UNCHANGED addr
    BY <1>0, <1>4, <2>1, DriveDest, DriveEffect DEF Connected
  <2>3. CASE Return
    BY <2>2, <2>3 DEF Return, CallSlotsOwn
  <2>4. CASE /\ pc' = ConnectedPc /\ ConnectedPc # "idle"
             /\ call' = IF call.found = NoSlot THEN [call EXCEPT !.found = call.slot] ELSE call
    <3>1. pc' \in {"handshake", "dispatch", "enqueue"}
      BY <2>4 DEF ConnectedPc
    <3>2. call'.to = call.to /\ call'.slot = call.slot /\ addr[call'.found] = call.to
      BY <1>00, <2>1, <2>4 DEF CallTypes, DestInv, CallSlotsOwn
    <3>3. QED
      BY <2>1, <2>2, <3>1, <3>2 DEF DestInv, CallSlotsOwn
  <2>5. QED
    BY <1>4, <2>3, <2>4 DEF Connected
<1>5. CASE DispatchNow \/ DispatchLater
  <2>1. /\ pc = "dispatch" /\ pc' \in {"flush", "enqueue"} /\ UNCHANGED <<pool, call>>
        /\ addr[call.found] = call.to
    BY <1>5 DEF DispatchNow, DispatchLater, DestInv, CallSlotsOwn
  <2>2. \A s \in sent' : s.to = s.via
    BY <1>0, <1>5, <2>1 DEF DispatchNow, DispatchLater, Written, RightDestination
  <2>3. QED
    BY <1>0, <2>1, <2>2 DEF pool, CallSlotsOwn, RightDestination
<1>6. CASE DispatchBlocked \/ Queue
  <2>1. /\ pc \in {"dispatch", "enqueue"} /\ call.found \in Slots /\ addr[call.found] = call.to
        /\ Transaction \in Transactions /\ Transaction.to = call.to
        /\ Return /\ UNCHANGED <<addr, sent>>
        /\ conn' = conn \/ Enqueue(call.found, Transaction)
    BY <1>00, <1>6 DEF DispatchBlocked, Queue, CallTypes, Occupied, DestInv, CallSlotsOwn,
       Transaction, Transactions
  <2>2. conn[call.found].queue \in Seq(Transactions)
    BY <1>00, <2>1 DEF PoolTypes, Conns
  <2>3. \A j \in Slots : \A k \in DOMAIN conn'[j].queue : conn'[j].queue[k].to = addr[j]
    <3>1. CASE conn' = conn
      BY <1>0, <3>1 DEF RightDestination
    <3>2. CASE Enqueue(call.found, Transaction)
      <4> DEFINE q == conn[call.found].queue
      <4>1. /\ \A j \in Slots : j # call.found => conn'[j] = conn[j]
            /\ conn'[call.found].queue \in {q, Append(q, Transaction)}
        BY <1>0, <2>1, <3>2, EnqueueEffect
      <4>2. \A k \in 1..Len(q) : q[k].to = addr[call.found]
        BY <1>0, <2>1, <2>2 DEF RightDestination
      <4>3. \A k \in DOMAIN Append(q, Transaction) : Append(q, Transaction)[k].to = addr[call.found]
        BY <2>1, <2>2, <4>2
      <4>4. DOMAIN q = 1..Len(q)
        BY <2>2
      <4> HIDE DEF q
      <4>5. \A k \in DOMAIN conn'[call.found].queue : conn'[call.found].queue[k].to = addr[call.found]
        BY <4>1, <4>2, <4>3, <4>4
      <4>6. QED
        BY <1>0, <4>1, <4>5 DEF RightDestination
    <3>3. QED
      BY <2>1, <3>1, <3>2
  <2>4. QED
    BY <1>0, <2>1, <2>3 DEF Return, CallSlotsOwn, RightDestination
<1>7. CASE Flush
  <2>1. pc = "flush" /\ call.found \in Occupied
    BY <1>00, <1>7 DEF Flush, CallTypes
  <2>2. RightDestination' /\ UNCHANGED addr
    BY <1>0, <1>7, <2>1, DriveDest, DriveEffect DEF Flush
  <2>3. QED
    BY <1>7, <2>1, <2>2 DEF Flush, Return, DestInv, CallSlotsOwn
<1>8. CASE HandshakeDrive
  <2>1. pc = "handshake" /\ call.slot \in Occupied
    BY <1>00, <1>8 DEF HandshakeDrive, CallTypes
  <2>2. RightDestination' /\ UNCHANGED addr
    BY <1>0, <1>8, <2>1, DriveDest, DriveEffect DEF HandshakeDrive
  <2>3. QED
    BY <1>8, <2>1, <2>2 DEF HandshakeDrive, Return, DestInv, CallSlotsOwn
<1>9. CASE Sweep
  <2>1. pc' = "remark" /\ Min(todo) \in Occupied
    BY <1>0, <1>9, SweepTypes DEF Sweep
  <2>2. RightDestination'
    BY <1>0, <1>9, <2>1, DriveDest DEF Sweep
  <2>3. QED
    BY <2>1, <2>2 DEF CallSlotsOwn
<1>10. CASE CreateFails \/ DispatchFails \/ ReceiveIoFails \/ EndPoll \/ ResetRetry \/ HandshakeTimeout
  BY <1>0, <1>10 DEF CreateFails, DispatchFails, ReceiveIoFails, EndPoll, ResetRetry,
     HandshakeTimeout, Return, pool, CallSlotsOwn, RightDestination
<1>11. CASE BeginPoll \/ TakeDirty \/ Remark
  BY <1>0, <1>11 DEF BeginPoll, TakeDirty, Remark, pool, CallSlotsOwn, RightDestination
<1>12. CASE HandshakeCheck
  <2>1. UNCHANGED <<addr, conn, sent>> /\ pc = "check"
    BY <1>12 DEF HandshakeCheck
  <2>2. Return \/ (pc' = "handshake" /\ UNCHANGED call)
    BY <1>12 DEF HandshakeCheck
  <2>3. QED
    BY <1>0, <2>1, <2>2 DEF Return, DestInv, CallSlotsOwn, RightDestination
<1>13. ASSUME NEW a \in Addrs, ReceiveFails(a) \/ \E kind \in Kinds : Receive(a, kind)
       PROVE  CallSlotsOwn' /\ RightDestination'
  <2>1. UNCHANGED <<addr, control, sent>>
    BY <1>13 DEF ReceiveFails, Receive
  <2>2. \A j \in Slots : conn'[j].queue = conn[j].queue
    <3>1. CASE ReceiveFails(a)
      BY <3>1 DEF ReceiveFails
    <3>2. ASSUME NEW kind \in Kinds, Receive(a, kind) PROVE \A j \in Slots : conn'[j].queue = conn[j].queue
      <4> DEFINE i == Find(a)
      <4>1. PICK c \in Received(conn[i], kind) : conn' = [conn EXCEPT ![i] = c]
        BY <3>2 DEF Receive
      <4>2. i \in Slots
        BY <3>2, FindOccupied DEF Receive, Occupied
      <4> HIDE DEF i
      <4>3. c.queue = conn[i].queue
        BY <1>00, <4>2, ReceivedTypes DEF PoolTypes
      <4>4. QED
        BY <1>00, <4>1, <4>2, <4>3 DEF PoolTypes
    <3>3. QED
      BY <1>13, <3>1, <3>2
  <2>3. QED
    BY <1>0, <2>1, <2>2 DEF control, DestInv, CallSlotsOwn, RightDestination
<1>14. CASE UNCHANGED vars
  BY <1>0, <1>14 DEF vars, pool, control, DestInv, CallSlotsOwn, RightDestination
<1>15. QED
  BY <1>0, <1>1, <1>2, <1>3, <1>4, <1>5, <1>6, <1>7, <1>8, <1>9, <1>10, <1>11, <1>12, <1>13, <1>14
     DEF Next, Step

(* A transaction is written to, or queued for, the peer it was meant for,  *)
(* although slots are evicted and reused: for peers that find can tell     *)
(* apart.                                                                  *)
THEOREM DestinationKept ==
  ASSUME KeysDistinct
  PROVE  Spec => []RightDestination
<1>1. Init => DestInv
  <2>1. ASSUME Init PROVE Occupied = {} /\ CallSlotsOwn
    BY <2>1 DEF Init, Occupied, CallSlotsOwn
  <2>2. ASSUME Init PROVE RightDestination
    <3>1. \A i \in Slots : conn[i].queue = <<>>
      BY <2>2 DEF Init, NoConn
    <3>2. \A i \in Slots : DOMAIN conn[i].queue = {}
      BY <3>1
    <3>3. QED
      BY <2>2, <3>2 DEF Init, RightDestination
  <2>3. QED
    BY <2>1, <2>2, TypeInit DEF DestInv, PoolInv, Reachable, UniqueAddresses
<1>2. DestInv /\ [Next]_vars => DestInv'
  BY DestStep
<1>3. DestInv => RightDestination
  BY DEF DestInv
<1>4. QED
  BY <1>1, <1>2, <1>3, PTL DEF Spec

(* The keys of v4 addresses are distinct, because the port has its own     *)
(* bits: RightDestination holds for every set of v4 peers.                 *)
THEOREM V4KeysDistinct ==
  ASSUME \A a \in Addrs : ~a.v6 /\ a.port < 2^PortBits
  PROVE  KeysDistinct
<1> DEFINE w == 2^PortBits
<1>1. \A a \in Addrs : Key(a) = a.ip * w + a.port
  BY DEF Key
<1>2. w \in Nat
  BY PortAssumption
<1>3. \A a \in Addrs : a.ip \in Nat /\ a.port \in Nat /\ a.port < w
  BY AddrsAssumption
<1> HIDE DEF w
<1>4. ASSUME NEW a \in Addrs, NEW b \in Addrs, Key(a) = Key(b) PROVE a = b
  <2>1. a.ip * w + a.port = b.ip * w + b.port
    BY <1>1, <1>4
  <2>2. a.ip = b.ip
    <3>1. CASE a.ip < b.ip
      <4>1. (b.ip - a.ip) * w >= w
        BY <1>2, <1>3, <3>1
      <4>2. b.ip * w = a.ip * w + (b.ip - a.ip) * w
        BY <1>2, <1>3
      <4>3. QED
        BY <1>2, <1>3, <2>1, <4>1, <4>2
    <3>2. CASE b.ip < a.ip
      <4>1. (a.ip - b.ip) * w >= w
        BY <1>2, <1>3, <3>2
      <4>2. a.ip * w = b.ip * w + (a.ip - b.ip) * w
        BY <1>2, <1>3
      <4>3. QED
        BY <1>2, <1>3, <2>1, <4>1, <4>2
    <3>3. QED
      BY <1>3, <3>1, <3>2
  <2>3. a.port = b.port
    BY <1>2, <1>3, <2>1, <2>2
  <2>4. a.v6 = b.v6
    BY AddrsAssumption
  <2>5. QED
    BY <2>2, <2>3, <2>4, AddrsAssumption
<1>5. QED
  BY <1>4 DEF KeysDistinct

(***************************************************************************)
(* No transaction is in two places                                         *)
(***************************************************************************)
Kept == \A t \in Nat : Unplaced(t) => Unplaced(t)'

(* Queues stay or are emptied. *)
LEMMA ShrinkPlaces ==
  ASSUME QueuesApart, LogApart, UNCHANGED <<sent, dropped>>,
         \A i \in Slots : conn'[i].queue = conn[i].queue \/ conn'[i].queue = <<>>
  PROVE  QueuesApart' /\ LogApart' /\ Kept
<1>1. \A i \in Slots : conn'[i].queue = conn[i].queue \/ DOMAIN conn'[i].queue = {}
  OBVIOUS
<1>2. \A i \in Slots : QueueTx(i)' \subseteq QueueTx(i)
  BY <1>1 DEF QueueTx
<1>3. LogTx' = LogTx
  BY DEF LogTx
<1>4. QueuesApart'
  <2>1. \A i, j \in Slots : i # j => QueueTx(i)' \cap QueueTx(j)' = {}
    BY <1>2 DEF QueuesApart
  <2>2. \A i \in Slots : \A k, l \in DOMAIN conn'[i].queue :
          conn'[i].queue[k].tx = conn'[i].queue[l].tx => k = l
    BY <1>1 DEF QueuesApart
  <2>3. QED
    BY <2>1, <2>2 DEF QueuesApart
<1>5. LogApart'
  BY <1>2, <1>3 DEF LogApart
<1>6. QED
  BY <1>2, <1>3, <1>4, <1>5 DEF Kept, Unplaced

(* The transactions of a drained queue move to the logs or stay. *)
LEMMA DrainPlaces ==
  ASSUME TypeInv, QueuesApart, LogApart, NEW i \in Occupied,
         NEW n \in 0..Len(conn[i].queue), Drain(i, n)
  PROVE  QueuesApart' /\ LogApart' /\ Kept
<1> DEFINE q == conn[i].queue
           Wr(k) == [tx |-> q[k].tx, to |-> q[k].to, via |-> addr[i]]
<1>1. PICK m \in n..Len(q) :
        /\ conn'[i].queue = SubSeq(q, m + 1, Len(q))
        /\ \A j \in Slots : j # i => conn'[j] = conn[j]
        /\ sent' = sent \cup {Wr(k) : k \in 1..n}
        /\ dropped' = dropped \cup {q[k] : k \in (n + 1)..m}
  BY DrainEffect
<1>2. i \in Slots /\ q \in Seq(Transactions) /\ DOMAIN q = 1..Len(q) /\ Len(q) \in Nat
  BY DEF Occupied, TypeInv, PoolTypes, Conns
<1>3. /\ DOMAIN conn'[i].queue = 1..(Len(q) - m)
      /\ \A k \in DOMAIN conn'[i].queue : m + k \in (m + 1)..Len(q) /\ conn'[i].queue[k] = q[m + k]
  BY <1>1, <1>2
<1>4. \A k, l \in 1..Len(q) : q[k].tx = q[l].tx => k = l
  BY <1>2 DEF QueuesApart
<1>5. \A k \in 1..Len(q) : q[k].tx \in QueueTx(i)
  BY <1>2 DEF QueueTx
<1>6. \A k \in 1..Len(q) : q[k].tx \notin LogTx
  BY <1>2, <1>5 DEF LogApart
<1>7. \A x \in QueueTx(i)' : \E k \in (m + 1)..Len(q) : x = q[k].tx
  BY <1>3 DEF QueueTx
<1>8. \A j \in Slots : j # i => QueueTx(j)' = QueueTx(j)
  BY <1>1 DEF QueueTx
<1>9. QueueTx(i)' \subseteq QueueTx(i)
  BY <1>1, <1>2, <1>5, <1>7
<1> HIDE DEF q
<1>10. QueuesApart'
  <2>1. \A j, l \in Slots : j # l => QueueTx(j)' \cap QueueTx(l)' = {}
    BY <1>8, <1>9 DEF QueuesApart
  <2>2. \A k, l \in DOMAIN conn'[i].queue :
          conn'[i].queue[k].tx = conn'[i].queue[l].tx => k = l
    <3>1. ASSUME NEW k \in 1..(Len(q) - m), NEW l \in 1..(Len(q) - m), q[m + k].tx = q[m + l].tx
          PROVE  k = l
      <4>1. m + k \in 1..Len(q) /\ m + l \in 1..Len(q)
        BY <1>1, <1>2
      <4>2. m + k = m + l
        BY <1>4, <3>1, <4>1
      <4>3. QED
        BY <1>1, <1>2, <4>2
    <3>2. QED
      BY <1>3, <3>1
  <2>3. \A j \in Slots : \A k, l \in DOMAIN conn'[j].queue :
          conn'[j].queue[k].tx = conn'[j].queue[l].tx => k = l
    BY <1>1, <2>2 DEF QueuesApart
  <2>4. QED
    BY <2>1, <2>3 DEF QueuesApart
<1>11. \A s \in sent' : s \in sent \/ \E k \in 1..n : s = Wr(k) /\ s.tx = q[k].tx
  BY <1>1
<1>12. \A d \in dropped' : d \in dropped \/ \E k \in (n + 1)..m : d = q[k] /\ d.tx = q[k].tx
  BY <1>1
<1>13. n \in Nat /\ m \in Nat /\ n <= m /\ m <= Len(q)
  BY <1>1, <1>2 DEF q
<1>14. (\A s \in sent : s.tx \in LogTx) /\ (\A d \in dropped : d.tx \in LogTx)
  BY DEF LogTx
<1> HIDE DEF Wr
<1>15. \A s, r \in sent' : s.tx = r.tx => s = r
  <2>1. ASSUME NEW s \in sent', NEW r \in sent', s.tx = r.tx PROVE s = r
    <3>1. CASE s \in sent /\ r \in sent
      BY <2>1, <3>1 DEF LogApart
    <3>2. CASE s \in sent /\ r \notin sent
      BY <1>2, <1>6, <1>11, <1>13, <1>14, <2>1, <3>2
    <3>3. CASE s \notin sent /\ r \in sent
      BY <1>2, <1>6, <1>11, <1>13, <1>14, <2>1, <3>3
    <3>4. CASE s \notin sent /\ r \notin sent
      <4>1. PICK k \in 1..n : s = Wr(k) /\ s.tx = q[k].tx
        BY <1>11, <3>4
      <4>2. PICK l \in 1..n : r = Wr(l) /\ r.tx = q[l].tx
        BY <1>11, <3>4
      <4>3. k \in 1..Len(q) /\ l \in 1..Len(q)
        BY <1>2, <1>13
      <4>4. k = l
        BY <1>4, <2>1, <4>1, <4>2, <4>3
      <4>5. QED
        BY <4>1, <4>2, <4>4
    <3>5. QED
      BY <3>1, <3>2, <3>3, <3>4
  <2>2. QED
    BY <2>1
<1>16. \A d, e \in dropped' : d.tx = e.tx => d = e
  <2>1. ASSUME NEW s \in dropped', NEW r \in dropped', s.tx = r.tx PROVE s = r
    <3>1. CASE s \in dropped /\ r \in dropped
      BY <2>1, <3>1 DEF LogApart
    <3>2. CASE s \in dropped /\ r \notin dropped
      BY <1>2, <1>6, <1>12, <1>13, <1>14, <2>1, <3>2
    <3>3. CASE s \notin dropped /\ r \in dropped
      BY <1>2, <1>6, <1>12, <1>13, <1>14, <2>1, <3>3
    <3>4. CASE s \notin dropped /\ r \notin dropped
      <4>1. PICK k \in (n + 1)..m : s = q[k] /\ s.tx = q[k].tx
        BY <1>12, <3>4
      <4>2. PICK l \in (n + 1)..m : r = q[l] /\ r.tx = q[l].tx
        BY <1>12, <3>4
      <4>3. k \in 1..Len(q) /\ l \in 1..Len(q)
        BY <1>2, <1>13
      <4>4. k = l
        BY <1>4, <2>1, <4>1, <4>2, <4>3
      <4>5. QED
        BY <4>1, <4>2, <4>4
    <3>5. QED
      BY <3>1, <3>2, <3>3, <3>4
  <2>2. QED
    BY <2>1
<1>17. \A s \in sent', d \in dropped' : s.tx # d.tx
  <2>1. ASSUME NEW s \in sent', NEW d \in dropped', s.tx = d.tx PROVE FALSE
    <3>1. CASE s \in sent /\ d \in dropped
      BY <2>1, <3>1 DEF LogApart
    <3>2. CASE s \in sent /\ d \notin dropped
      BY <1>2, <1>6, <1>12, <1>13, <1>14, <2>1, <3>2
    <3>3. CASE s \notin sent /\ d \in dropped
      BY <1>2, <1>6, <1>11, <1>13, <1>14, <2>1, <3>3
    <3>4. CASE s \notin sent /\ d \notin dropped
      <4>1. PICK k \in 1..n : s.tx = q[k].tx
        BY <1>11, <3>4
      <4>2. PICK l \in (n + 1)..m : d.tx = q[l].tx
        BY <1>12, <3>4
      <4>3. k \in 1..Len(q) /\ l \in 1..Len(q) /\ k # l
        BY <1>2, <1>13
      <4>4. QED
        BY <1>4, <2>1, <4>1, <4>2, <4>3
    <3>5. QED
      BY <3>1, <3>2, <3>3, <3>4
  <2>2. QED
    BY <2>1
<1>18. \A x \in LogTx' : x \in LogTx \/ \E k \in 1..m : x = q[k].tx
  <2>1. \A s \in sent' : s.tx \in LogTx \/ \E k \in 1..m : s.tx = q[k].tx
    BY <1>2, <1>11, <1>13, <1>14
  <2>2. \A d \in dropped' : d.tx \in LogTx \/ \E k \in 1..m : d.tx = q[k].tx
    BY <1>2, <1>12, <1>13, <1>14
  <2>3. QED
    BY <2>1, <2>2 DEF LogTx
<1>19. \A j \in Slots : QueueTx(j)' \cap LogTx' = {}
  <2>1. ASSUME NEW j \in Slots, NEW x \in QueueTx(j)', x \in LogTx' PROVE FALSE
    <3>1. CASE j = i
      <4>1. PICK k \in (m + 1)..Len(q) : x = q[k].tx
        BY <1>7, <2>1, <3>1 DEF q
      <4>2. k \in 1..Len(q)
        BY <1>2, <1>13
      <4>3. PICK l \in 1..m : x = q[l].tx
        BY <1>6, <1>18, <2>1, <4>1, <4>2
      <4>4. l \in 1..Len(q) /\ l # k
        BY <1>2, <1>13
      <4>5. QED
        BY <1>4, <4>1, <4>2, <4>3, <4>4
    <3>2. CASE j # i
      <4>1. x \in QueueTx(j)
        BY <1>8, <2>1, <3>2
      <4>2. x \notin LogTx
        BY <4>1 DEF LogApart
      <4>3. PICK l \in 1..m : x = q[l].tx
        BY <1>18, <2>1, <4>2
      <4>4. l \in 1..Len(q)
        BY <1>2, <1>13
      <4>5. QED
        BY <1>2, <1>5, <3>2, <4>1, <4>3, <4>4 DEF QueuesApart
    <3>3. QED
      BY <3>1, <3>2
  <2>2. QED
    BY <2>1
<1>20. LogApart'
  BY <1>15, <1>16, <1>17, <1>19 DEF LogApart
<1>21. Kept
  <2>1. ASSUME NEW t \in Nat, Unplaced(t) PROVE Unplaced(t)'
    <3>1. t \notin LogTx'
      <4>1. \A k \in 1..m : k \in 1..Len(q)
        BY <1>2, <1>13
      <4>2. QED
        BY <1>2, <1>5, <1>18, <2>1, <4>1 DEF Unplaced
    <3>2. \A j \in Slots : t \notin QueueTx(j)'
      BY <1>8, <1>9, <2>1 DEF Unplaced
    <3>3. QED
      BY <3>1, <3>2 DEF Unplaced
  <2>2. QED
    BY <2>1 DEF Kept
<1>22. QED
  BY <1>10, <1>20, <1>21

LEMMA DrivePlaces ==
  ASSUME TypeInv, QueuesApart, LogApart, NEW i \in Occupied, DriveOk(i) \/ DriveErr(i)
  PROVE  QueuesApart' /\ LogApart' /\ Kept
<1>1. CASE UNCHANGED <<sent, dropped>> /\ \A j \in Slots : conn'[j].queue = conn[j].queue
  BY <1>1, ShrinkPlaces
<1>2. CASE \E n \in 0..Len(conn[i].queue) : Drain(i, n)
  BY <1>2, DrainPlaces
<1>3. QED
  BY <1>1, <1>2, DriveEffect

(* A transaction that was nowhere is put into a queue. *)
LEMMA EnqueuePlaces ==
  ASSUME TypeInv, QueuesApart, LogApart, NEW i \in Slots, NEW t \in Transactions,
         Unplaced(t.tx), Enqueue(i, t), UNCHANGED <<sent, dropped>>
  PROVE  /\ QueuesApart' /\ LogApart'
         /\ \A u \in Nat : u # t.tx /\ Unplaced(u) => Unplaced(u)'
<1> DEFINE q == conn[i].queue
<1>1. /\ \A j \in Slots : j # i => conn'[j] = conn[j]
      /\ conn'[i].queue \in {q, Append(q, t)}
  BY EnqueueEffect
<1>2. q \in Seq(Transactions) /\ Len(q) \in Nat /\ DOMAIN q = 1..Len(q)
  BY DEF TypeInv, PoolTypes, Conns
<1>3. CASE conn'[i].queue = q
  <2>1. \A j \in Slots : conn'[j].queue = conn[j].queue
    BY <1>1, <1>3
  <2>2. QED
    BY <2>1, ShrinkPlaces DEF Kept
<1>4. CASE conn'[i].queue = Append(q, t)
  <2>1. /\ DOMAIN conn'[i].queue = 1..(Len(q) + 1)
        /\ \A k \in 1..Len(q) : conn'[i].queue[k] = q[k]
        /\ conn'[i].queue[Len(q) + 1] = t
    BY <1>2, <1>4
  <2>2. \A k \in 1..Len(q) : q[k].tx \in QueueTx(i) /\ q[k].tx # t.tx
    BY <1>2 DEF QueueTx, Unplaced
  <2>3. QueueTx(i)' \subseteq QueueTx(i) \cup {t.tx}
    <3> HIDE DEF q
    <3>1. ASSUME NEW k \in DOMAIN conn'[i].queue
          PROVE  conn'[i].queue[k].tx \in QueueTx(i) \cup {t.tx}
      <4>1. CASE k \in 1..Len(q)
        BY <2>1, <2>2, <4>1
      <4>2. CASE k = Len(q) + 1
        BY <2>1, <4>2
      <4>3. QED
        BY <1>2, <2>1, <4>1, <4>2
    <3>2. \A x \in QueueTx(i)' : \E k \in DOMAIN conn'[i].queue : x = conn'[i].queue[k].tx
      BY DEF QueueTx
    <3>3. QED
      BY <3>1, <3>2
  <2>4. \A j \in Slots : j # i => QueueTx(j)' = QueueTx(j)
    BY <1>1 DEF QueueTx
  <2>5. LogTx' = LogTx
    BY DEF LogTx
  <2>6. QueuesApart'
    <3>1. \A j, l \in Slots : j # l => QueueTx(j)' \cap QueueTx(l)' = {}
      BY <2>3, <2>4 DEF QueuesApart, Unplaced
    <3> HIDE DEF q
    <3>2. \A k, l \in DOMAIN conn'[i].queue :
            conn'[i].queue[k].tx = conn'[i].queue[l].tx => k = l
      <4>1. ASSUME NEW k \in 1..(Len(q) + 1), NEW l \in 1..(Len(q) + 1),
                   conn'[i].queue[k].tx = conn'[i].queue[l].tx
            PROVE  k = l
        <5>1. CASE k \in 1..Len(q) /\ l \in 1..Len(q)
          <6>1. \A x, y \in DOMAIN q : q[x].tx = q[y].tx => x = y
            BY DEF QueuesApart, q
          <6>2. QED
            BY <1>2, <2>1, <4>1, <5>1, <6>1
        <5>2. CASE k \in 1..Len(q) /\ l \notin 1..Len(q)
          <6>1. l = Len(q) + 1
            BY <1>2, <5>2
          <6>2. QED
            BY <2>1, <2>2, <4>1, <5>2, <6>1
        <5>3. CASE k \notin 1..Len(q) /\ l \in 1..Len(q)
          <6>1. k = Len(q) + 1
            BY <1>2, <5>3
          <6>2. QED
            BY <2>1, <2>2, <4>1, <5>3, <6>1
        <5>4. CASE k \notin 1..Len(q) /\ l \notin 1..Len(q)
          BY <1>2, <5>4
        <5>5. QED
          BY <5>1, <5>2, <5>3, <5>4
      <4>2. QED
        BY <2>1, <4>1
    <3>3. \A j \in Slots : \A k, l \in DOMAIN conn'[j].queue :
            conn'[j].queue[k].tx = conn'[j].queue[l].tx => k = l
      BY <1>1, <3>2 DEF QueuesApart
    <3>4. QED
      BY <3>1, <3>3 DEF QueuesApart
  <2>7. LogApart'
    BY <2>3, <2>4, <2>5 DEF LogApart, Unplaced
  <2>8. ASSUME NEW u \in Nat, u # t.tx, Unplaced(u) PROVE Unplaced(u)'
    BY <2>3, <2>4, <2>5, <2>8 DEF Unplaced
  <2>9. QED
    BY <2>6, <2>7, <2>8
<1>5. QED
  BY <1>1, <1>3, <1>4

(* A transaction that was nowhere is written to a stream. *)
LEMMA WrittenPlaces ==
  ASSUME QueuesApart, LogApart, NEW s, Unplaced(s.tx),
         UNCHANGED <<conn, dropped>>, sent' = sent \cup {s}
  PROVE  /\ QueuesApart' /\ LogApart'
         /\ \A u \in Nat : u # s.tx /\ Unplaced(u) => Unplaced(u)'
<1>1. \A j \in Slots : QueueTx(j)' = QueueTx(j)
  BY DEF QueueTx
<1>2. LogTx' = LogTx \cup {s.tx}
  BY DEF LogTx
<1>3. (\A r \in sent : r.tx # s.tx) /\ (\A d \in dropped : d.tx # s.tx)
  BY DEF Unplaced, LogTx
<1>4. QueuesApart'
  BY <1>1 DEF QueuesApart
<1>5. LogApart'
  <2>1. \A j \in Slots : QueueTx(j)' \cap LogTx' = {}
    BY <1>1, <1>2 DEF LogApart, Unplaced
  <2>2. QED
    BY <1>3, <2>1 DEF LogApart
<1>6. QED
  BY <1>1, <1>2, <1>4, <1>5 DEF Unplaced

Before == {"allocate", "create", "connect", "dispatch", "enqueue"}

(* A call that has yet to place its transaction keeps it, and only Begin   *)
(* takes a new one.                                                        *)
LEMMA CallStep ==
  ASSUME TypeInv, [Next]_vars, ~\E op \in Calls, a \in Addrs : Begin(op, a)
  PROVE  /\ next_tx' = next_tx
         /\ pc' \in Before => pc \in Before /\ call'.op = call.op /\ call'.tx = call.tx
<1>1. CASE Allocate \/ Create \/ CreateFails
  BY <1>1 DEF Allocate, ReadyReturned, Create, CreateFails, Return, Before, TypeInv, CallTypes
<1>2. CASE Connected
  BY <1>2 DEF Connected, Return, Before, TypeInv, CallTypes
<1>3. CASE DispatchNow \/ DispatchBlocked \/ DispatchFails \/ DispatchLater \/ Queue
  BY <1>3 DEF DispatchNow, DispatchBlocked, DispatchFails, DispatchLater, Queue, Return, Before
<1>4. CASE Flush \/ ResetRetry \/ HandshakeDrive \/ HandshakeCheck \/ HandshakeTimeout
  BY <1>4 DEF Flush, ResetRetry, HandshakeDrive, HandshakeCheck, HandshakeTimeout, Return, Before
<1>5. CASE ReceiveIoFails \/ TakeDirty \/ Sweep \/ Remark \/ EndPoll \/ BeginPoll
  BY <1>5 DEF ReceiveIoFails, TakeDirty, Sweep, Remark, EndPoll, BeginPoll, Return, Before
<1>6. CASE \E a \in Addrs : ReceiveFails(a) \/ \E kind \in Kinds : Receive(a, kind)
  BY <1>6 DEF ReceiveFails, Receive, control
<1>7. CASE UNCHANGED vars
  BY <1>7 DEF vars, control
<1>8. QED
  BY <1>1, <1>2, <1>3, <1>4, <1>5, <1>6, <1>7 DEF Next, Step

(* The slots that a step drives, and the queues and logs in the other      *)
(* steps.                                                                  *)
LEMMA QuietStep ==
  ASSUME TypeInv, [Next]_vars
  PROVE  \/ \E i \in Occupied : DriveOk(i) \/ DriveErr(i)
         \/ DispatchNow \/ DispatchBlocked \/ Queue
         \/ /\ UNCHANGED <<sent, dropped>>
            /\ \A i \in Slots : conn'[i].queue = conn[i].queue \/ conn'[i].queue = <<>>
<1>0. PoolTypes /\ CallTypes
  BY DEF TypeInv
<1>1. CASE Connected \/ Flush \/ HandshakeDrive
  BY <1>0, <1>1 DEF Connected, Flush, HandshakeDrive, CallTypes
<1>2. CASE Sweep
  BY <1>2, SweepTypes DEF Sweep
<1>3. CASE Allocate
  <2> DEFINE f == FindOrAllocate(call.to)
  <2>1. f.slot \in Slots
    BY <1>0, <1>3, Allocated DEF Allocate, CallTypes
  <2>2. UNCHANGED <<sent, dropped>> /\ (UNCHANGED conn \/ conn' = [conn EXCEPT ![f.slot] = NoConn])
    BY <1>3 DEF Allocate
  <2>3. NoConn.queue = <<>>
    BY DEF NoConn
  <2> HIDE DEF f
  <2>4. QED
    BY <1>0, <2>1, <2>2, <2>3 DEF PoolTypes
<1>4. CASE Create
  <2>1. PICK early \in BOOLEAN :
          conn' = [conn EXCEPT ![call.slot] = [NoConn EXCEPT !.phase = "new", !.early = early]]
    BY <1>4 DEF Create
  <2>2. [NoConn EXCEPT !.phase = "new", !.early = early].queue = <<>>
    BY DEF NoConn
  <2>3. \A i \in Slots : conn'[i] = conn[i] \/ conn'[i].queue = <<>>
    BY <1>0, <2>1, <2>2 DEF PoolTypes
  <2>4. QED
    BY <1>4, <2>3 DEF Create
<1>5. CASE \E a \in Addrs : ReceiveFails(a)
  BY <1>5 DEF ReceiveFails
<1>6. ASSUME NEW a \in Addrs, NEW kind \in Kinds, Receive(a, kind)
      PROVE  UNCHANGED <<sent, dropped>> /\ \A i \in Slots : conn'[i].queue = conn[i].queue
  <2> DEFINE j == Find(a)
  <2>1. PICK c \in Received(conn[j], kind) : conn' = [conn EXCEPT ![j] = c]
    BY <1>6 DEF Receive
  <2>2. j \in Slots
    BY <1>6, FindOccupied DEF Receive, Occupied
  <2>3. UNCHANGED <<sent, dropped>>
    BY <1>6 DEF Receive
  <2> HIDE DEF j
  <2>4. c.queue = conn[j].queue
    BY <1>0, <2>2, ReceivedTypes DEF PoolTypes
  <2>5. QED
    BY <1>0, <2>1, <2>2, <2>3, <2>4 DEF PoolTypes
<1>7. CASE \/ CreateFails \/ DispatchFails \/ DispatchLater \/ ResetRetry \/ HandshakeCheck
           \/ HandshakeTimeout \/ ReceiveIoFails \/ TakeDirty \/ Remark \/ EndPoll \/ BeginPoll
           \/ UNCHANGED vars \/ \E op \in Calls, a \in Addrs : Begin(op, a)
  <2>1. UNCHANGED <<conn, sent, dropped>>
    BY <1>7 DEF CreateFails, DispatchFails, DispatchLater, ResetRetry, HandshakeCheck,
       HandshakeTimeout, ReceiveIoFails, TakeDirty, Remark, EndPoll, BeginPoll, Begin, pool, vars
  <2>2. QED
    BY <2>1
<1>8. QED
  BY <1>1, <1>2, <1>3, <1>4, <1>5, <1>6, <1>7 DEF Next, Step

LEMMA PlaceStep ==
  ASSUME PlaceInv, [Next]_vars
  PROVE  PlaceInv'
<1>0. TypeInv /\ TypeInv' /\ QueuesApart /\ LogApart
  BY TypeStep DEF PlaceInv
<1>00. next_tx \in Nat /\ call.tx \in Nat
  BY <1>0 DEF TypeInv, LogTypes, CallTypes
<1> SUFFICES QueuesApart' /\ LogApart' /\ CallUnplaced'
  BY <1>0 DEF PlaceInv
<1>1. CASE DispatchNow \/ DispatchBlocked \/ Queue
  <2>1. /\ pc \in {"dispatch", "enqueue"} /\ pc' \notin Before /\ next_tx' = next_tx
        /\ call.found \in Slots /\ call.op \in Sends /\ call.tx < next_tx
    BY <1>0, <1>1 DEF DispatchNow, DispatchBlocked, Queue, Return, Before, TypeInv, CallTypes, Occupied
  <2>2. Unplaced(call.tx)
    BY <2>1 DEF PlaceInv, CallUnplaced
  <2>3. /\ QueuesApart' /\ LogApart'
        /\ \A u \in Nat : u # call.tx /\ Unplaced(u) => Unplaced(u)'
    <3>1. CASE DispatchNow
      <4> DEFINE s == [tx |-> call.tx, to |-> call.to, via |-> addr[call.found]]
      <4>1. UNCHANGED <<conn, dropped>> /\ sent' = sent \cup {s} /\ s.tx = call.tx
        BY <3>1 DEF DispatchNow, Written, pool
      <4> HIDE DEF s
      <4>2. QED
        BY <1>0, <2>2, <4>1, WrittenPlaces
    <3>2. CASE DispatchBlocked \/ Queue
      <4>1. Transaction \in Transactions /\ Transaction.tx = call.tx
        BY <1>0, <2>1 DEF TypeInv, CallTypes, Transaction, Transactions
      <4>2. UNCHANGED <<sent, dropped>> /\ (UNCHANGED conn \/ Enqueue(call.found, Transaction))
        BY <3>2 DEF DispatchBlocked, Queue
      <4>3. CASE UNCHANGED conn
        BY <1>0, <4>2, <4>3, ShrinkPlaces DEF Kept
      <4>4. CASE Enqueue(call.found, Transaction)
        BY <1>0, <2>1, <2>2, <4>1, <4>2, <4>4, EnqueuePlaces
      <4>5. QED
        BY <4>2, <4>3, <4>4
    <3>3. QED
      BY <1>1, <3>1, <3>2
  <2>4. \A t \in Nat : t >= next_tx' => Unplaced(t)'
    BY <1>00, <2>1, <2>3 DEF PlaceInv, CallUnplaced
  <2>5. QED
    BY <2>1, <2>3, <2>4 DEF CallUnplaced, Before
<1>2. CASE ~(DispatchNow \/ DispatchBlocked \/ Queue)
  <2>1. QueuesApart' /\ LogApart' /\ Kept
    BY <1>0, <1>2, QuietStep, DrivePlaces, ShrinkPlaces
  <2>2. CASE ~\E op \in Calls, a \in Addrs : Begin(op, a)
    <3>1. /\ next_tx' = next_tx
          /\ pc' \in Before => pc \in Before /\ call'.op = call.op /\ call'.tx = call.tx
      BY <1>0, <2>2, CallStep
    <3>2. QED
      BY <1>00, <2>1, <3>1 DEF PlaceInv, CallUnplaced, Kept, Before
  <2>3. ASSUME NEW op \in Calls, NEW a \in Addrs, Begin(op, a)
        PROVE  CallUnplaced'
    <3>1. call'.tx = next_tx /\ next_tx' >= next_tx
      BY <1>00, <2>3 DEF Begin
    <3>2. next_tx' \in Nat
      BY <1>0 DEF TypeInv, LogTypes
    <3>3. \A t \in Nat : t >= next_tx => Unplaced(t)'
      BY <2>1 DEF PlaceInv, CallUnplaced, Kept
    <3>4. QED
      BY <1>00, <3>1, <3>2, <3>3 DEF CallUnplaced
  <2>4. QED
    BY <2>1, <2>2, <2>3
<1>3. QED
  BY <1>1, <1>2

LEMMA AtMostOne ==
  ASSUME NEW S, \A x, y \in S : x = y
  PROVE  Cardinality(S) \in {0, 1} /\ (S = {} => Cardinality(S) = 0)
<1>1. CASE S = {}
  BY <1>1, FS_EmptySet
<1>2. CASE S # {}
  <2>1. PICK x \in S : TRUE
    BY <1>2
  <2>2. S = {x}
    BY <2>1
  <2>3. Cardinality({x}) = 1
    BY FS_Singleton
  <2>4. QED
    BY <1>2, <2>2, <2>3
<1>3. QED
  BY <1>1, <1>2

(* A transaction is in one place at most, a queue or a log, and nothing is *)
(* written twice.                                                          *)
THEOREM PlacedOnce == Spec => []OnePlace
<1>1. Init => PlaceInv
  <2>1. ASSUME Init PROVE \A i \in Slots : DOMAIN conn[i].queue = {}
    <3>1. \A i \in Slots : conn[i].queue = <<>>
      BY <2>1 DEF Init, NoConn
    <3>2. QED
      BY <3>1
  <2>2. ASSUME Init PROVE QueuesApart /\ LogApart /\ CallUnplaced
    <3>1. (\A i \in Slots : QueueTx(i) = {}) /\ LogTx = {}
      BY <2>1, <2>2 DEF QueueTx, LogTx, Init
    <3>2. QueuesApart
      BY <2>1, <2>2, <3>1 DEF QueuesApart
    <3>3. LogApart /\ CallUnplaced
      BY <2>2, <3>1 DEF LogApart, CallUnplaced, Unplaced, Init
    <3>4. QED
      BY <3>2, <3>3
  <2>3. QED
    BY <2>2, TypeInit DEF PlaceInv
<1>2. PlaceInv /\ [Next]_vars => PlaceInv'
  BY PlaceStep
<1>3. PlaceInv => OnePlace
  <2>1. ASSUME PlaceInv, NEW t \in 1..MaxTx
        PROVE  Cardinality({q \in Slots \X (1..QueueCapacity) :
                              q[2] <= Len(conn[q[1]].queue) /\ conn[q[1]].queue[q[2]].tx = t})
               + Cardinality({s \in sent : s.tx = t}) + Cardinality({d \in dropped : d.tx = t}) <= 1
    <3> DEFINE Q == {q \in Slots \X (1..QueueCapacity) :
                       q[2] <= Len(conn[q[1]].queue) /\ conn[q[1]].queue[q[2]].tx = t}
               S == {s \in sent : s.tx = t}
               D == {d \in dropped : d.tx = t}
    <3>0. TypeInv /\ QueuesApart /\ LogApart
      BY <2>1 DEF PlaceInv
    <3>1. ASSUME NEW q \in Q
          PROVE  /\ q[1] \in Slots /\ q[2] \in DOMAIN conn[q[1]].queue
                 /\ conn[q[1]].queue[q[2]].tx = t /\ t \in QueueTx(q[1]) /\ q = <<q[1], q[2]>>
      <4>1. q[1] \in Slots /\ q[2] \in 1..QueueCapacity /\ q = <<q[1], q[2]>>
        OBVIOUS
      <4>2. conn[q[1]].queue \in Seq(Transactions)
        BY <3>0, <4>1 DEF TypeInv, PoolTypes, Conns
      <4>3. q[2] \in DOMAIN conn[q[1]].queue
        BY <4>1, <4>2, SizeAssumption
      <4>4. QED
        BY <4>1, <4>3 DEF QueueTx
    <3>2. \A q, r \in Q : q = r
      <4>1. ASSUME NEW q \in Q, NEW r \in Q PROVE q = r
        <5>1. q[1] = r[1]
          BY <3>0, <3>1 DEF QueuesApart
        <5>2. q[2] = r[2]
          BY <3>0, <3>1, <5>1 DEF QueuesApart
        <5>3. QED
          BY <3>1, <5>1, <5>2
      <4>2. QED
        BY <4>1
    <3>3. (\A x, y \in S : x = y) /\ (\A x, y \in D : x = y) /\ (S = {} \/ D = {})
      BY <3>0 DEF LogApart
    <3>4. Q # {} => S = {} /\ D = {}
      BY <3>0, <3>1 DEF LogApart, LogTx
    <3> HIDE DEF Q, S, D
    <3>5. /\ Cardinality(Q) \in {0, 1} /\ (Q = {} => Cardinality(Q) = 0)
          /\ Cardinality(S) \in {0, 1} /\ (S = {} => Cardinality(S) = 0)
          /\ Cardinality(D) \in {0, 1} /\ (D = {} => Cardinality(D) = 0)
      BY <3>2, <3>3, AtMostOne
    <3>6. Cardinality(Q) + Cardinality(S) + Cardinality(D) <= 1
      BY <3>3, <3>4, <3>5
    <3>7. QED
      BY <3>6 DEF Q, S, D
  <2>2. QED
    BY <2>1 DEF OnePlace
<1>4. QED
  BY <1>1, <1>2, <1>3, PTL DEF Spec

(***************************************************************************)
(* Queued transactions are not forgotten                                   *)
(***************************************************************************)
Pending(i) == state[i] = "Connecting" /\ conn[i].queue # <<>>

(* A slot that has something to do after drive_slot had it before, and     *)
(* drive_slot has not cleared its dirty bit.                               *)
LEMMA DrivePending ==
  ASSUME TypeInv, NEW i \in Occupied, DriveOk(i) \/ DriveErr(i), NEW j \in Slots, Pending(j)'
  PROVE  Pending(j) /\ (j \in dirty => j \in dirty')
<1>0. i \in Slots /\ conn \in [Slots -> Conns] /\ state \in [Slots -> States]
  BY DEF Occupied, TypeInv, PoolTypes
<1>1. CASE DriveFails(i)
  BY <1>0, <1>1 DEF DriveFails, Conns, Pending
<1>2. CASE DriveSends(i)
  <2>1. Transmitted(conn[i]).queue = conn[i].queue
    BY <1>0 DEF Transmitted, Conns
  <2>2. QED
    BY <1>0, <1>2, <2>1 DEF DriveSends, Pending
<1>3. CASE DriveFindsClosed(i)
  <2>1. state'[i] \in {"Dead", "Failed"} /\ \A k \in Slots : k # i => state'[k] = state[k]
    BY <1>0, <1>3 DEF DriveFindsClosed, MarkFailed, FailedState
  <2>2. QED
    BY <1>3, <2>1 DEF DriveFindsClosed, Pending
<1>4. ASSUME NEW flushed \in BOOLEAN, DriveBecomesReady(i, flushed)
      PROVE  Pending(j) /\ (j \in dirty => j \in dirty')
  <2>1. state'[i] = "Ready" /\ \A k \in Slots : k # i => state'[k] = state[k]
    BY <1>0, <1>4 DEF DriveBecomesReady
  <2>2. j # i
    BY <2>1 DEF Pending
  <2>3. conn'[j] = conn[j]
    BY <1>4, <2>2, DrainEffect DEF DriveBecomesReady
  <2>4. dirty \ {i} \subseteq dirty'
    BY <1>4 DEF DriveBecomesReady
  <2>5. QED
    BY <2>1, <2>2, <2>3, <2>4 DEF Pending
<1>5. QED
  BY <1>1, <1>2, <1>3, <1>4 DEF DriveOk, DriveErr

LEMMA PendingStep ==
  ASSUME TypeInv, PendingIsDirty, [Next]_vars
  PROVE  PendingIsDirty'
<1>0. PoolTypes /\ CallTypes
  BY DEF TypeInv
<1> SUFFICES ASSUME NEW j \in Slots, Pending(j)'
             PROVE  j \in dirty' \cup todo' \/ (pc' = "remark" /\ call'.slot = j)
  BY DEF PendingIsDirty, Pending
<1>1. Pending(j) => j \in dirty \cup todo \/ (pc = "remark" /\ call.slot = j)
  BY DEF PendingIsDirty, Pending
<1>2. CASE Connected \/ Flush \/ HandshakeDrive
  <2>1. PICK i \in Occupied : DriveOk(i) \/ DriveErr(i)
    BY <1>0, <1>2 DEF Connected, Flush, HandshakeDrive, CallTypes
  <2>2. todo = {} /\ pc # "remark"
    BY <1>0, <1>2 DEF Connected, Flush, HandshakeDrive, CallTypes
  <2>3. QED
    BY <1>1, <2>1, <2>2, DrivePending
<1>3. CASE Sweep
  <2> DEFINE i == Min(todo)
  <2>1. i \in Occupied /\ i \in Slots
    BY <1>3, SweepTypes DEF Occupied
  <2>2. (DriveOk(i) \/ DriveErr(i)) /\ pc = "sweep" /\ pc' = "remark" /\ todo' = todo \ {i}
        /\ call' = [NoCall EXCEPT !.slot = i]
    BY <1>3 DEF Sweep
  <2> HIDE DEF i
  <2>3. call'.slot = i
    BY <2>2 DEF NoCall
  <2>4. j \in dirty \cup todo /\ (j \in dirty => j \in dirty')
    BY <1>1, <2>1, <2>2, DrivePending
  <2>5. QED
    BY <2>2, <2>3, <2>4
<1>4. CASE Allocate
  <2> DEFINE f == FindOrAllocate(call.to)
  <2>1. f.slot \in Slots
    BY <1>0, <1>4, Allocated DEF Allocate, CallTypes
  <2>2. /\ UNCHANGED <<dirty, todo>> /\ pc = "allocate"
        /\ \/ UNCHANGED <<state, conn>>
           \/ /\ state' = [state EXCEPT ![f.slot] = "Connecting"]
              /\ conn' = [conn EXCEPT ![f.slot] = NoConn]
    BY <1>4 DEF Allocate
  <2>3. NoConn.queue = <<>>
    BY DEF NoConn
  <2> HIDE DEF f
  <2>4. Pending(j)
    BY <1>0, <2>1, <2>2, <2>3 DEF PoolTypes, Pending
  <2>5. QED
    BY <1>1, <2>2, <2>4
<1>5. CASE Create
  <2>1. PICK early \in BOOLEAN :
          conn' = [conn EXCEPT ![call.slot] = [NoConn EXCEPT !.phase = "new", !.early = early]]
    BY <1>5 DEF Create
  <2>2. [NoConn EXCEPT !.phase = "new", !.early = early].queue = <<>>
    BY DEF NoConn
  <2>3. /\ UNCHANGED <<dirty, todo>> /\ pc = "create"
        /\ state' = [state EXCEPT ![call.slot] = "Connecting"]
    BY <1>5 DEF Create
  <2>4. Pending(j)
    BY <1>0, <2>1, <2>2, <2>3 DEF PoolTypes, Pending
  <2>5. QED
    BY <1>1, <2>3, <2>4
<1>6. CASE DispatchBlocked
  <2>1. /\ call.found \in Slots /\ state[call.found] = "Ready" /\ Transaction \in Transactions
        /\ Enqueue(call.found, Transaction) /\ UNCHANGED <<state, dirty, todo>> /\ pc = "dispatch"
    BY <1>0, <1>6 DEF DispatchBlocked, CallTypes, Occupied, Transaction, Transactions, Sends
  <2>2. j # call.found
    BY <2>1 DEF Pending
  <2>3. conn'[j] = conn[j]
    BY <2>1, <2>2, EnqueueEffect
  <2>4. QED
    BY <1>1, <2>1, <2>3 DEF Pending
<1>7. CASE Queue
  <2>1. /\ call.found \in Slots /\ Transaction \in Transactions
        /\ UNCHANGED <<state, todo>> /\ pc = "enqueue" /\ dirty \subseteq dirty'
        /\ UNCHANGED conn \/ (Enqueue(call.found, Transaction) /\ call.found \in dirty')
    BY <1>0, <1>7 DEF Queue, CallTypes, Occupied, Transaction, Transactions
  <2>2. CASE UNCHANGED conn
    BY <1>1, <2>1, <2>2 DEF Pending
  <2>3. CASE Enqueue(call.found, Transaction) /\ call.found \in dirty' /\ j # call.found
    BY <1>1, <2>1, <2>3, EnqueueEffect DEF Pending
  <2>4. QED
    BY <2>1, <2>2, <2>3
<1>8. ASSUME NEW a \in Addrs, NEW kind \in Kinds, Receive(a, kind)
      PROVE  j \in dirty' \cup todo' \/ (pc' = "remark" /\ call'.slot = j)
  <2> DEFINE i == Find(a)
  <2>1. PICK c \in Received(conn[i], kind) : conn' = [conn EXCEPT ![i] = c]
    BY <1>8 DEF Receive
  <2>2. i \in Slots
    BY <1>8, FindOccupied DEF Receive, Occupied
  <2>3. UNCHANGED <<state, dirty, control>>
    BY <1>8 DEF Receive
  <2> HIDE DEF i
  <2>4. c.queue = conn[i].queue
    BY <1>0, <2>2, ReceivedTypes DEF PoolTypes
  <2>5. Pending(j)
    BY <1>0, <2>1, <2>2, <2>3, <2>4 DEF PoolTypes, Pending
  <2>6. QED
    BY <1>1, <2>3, <2>5 DEF control
<1>9. CASE HandshakeCheck \/ HandshakeTimeout \/ \E a \in Addrs : ReceiveFails(a)
  <2>1. UNCHANGED <<conn, dirty, todo>> /\ pc # "remark"
    BY <1>9 DEF HandshakeCheck, HandshakeTimeout, ReceiveFails, control
  <2>2. \A i \in Slots : state'[i] = "Connecting" => state[i] = "Connecting"
    BY <1>0, <1>9 DEF HandshakeCheck, HandshakeTimeout, ReceiveFails, MarkFailed, FailedState, PoolTypes
  <2>3. QED
    BY <1>1, <2>1, <2>2 DEF Pending
<1>10. CASE Remark
  <2>1. /\ UNCHANGED <<state, conn, todo>> /\ dirty \subseteq dirty'
        /\ state[call.slot] = "Connecting" => call.slot \in dirty'
    BY <1>10 DEF Remark
  <2>2. QED
    BY <1>1, <2>1 DEF Pending
<1>11. CASE TakeDirty
  BY <1>0, <1>1, <1>11 DEF TakeDirty, CallTypes, Pending
<1>12. CASE \/ CreateFails \/ DispatchFails \/ DispatchLater \/ DispatchNow \/ ResetRetry
            \/ ReceiveIoFails \/ EndPoll \/ BeginPoll
            \/ \E op \in Calls, a \in Addrs : Begin(op, a)
  <2>1. UNCHANGED <<state, conn, dirty, todo>> /\ pc # "remark"
    BY <1>12 DEF CreateFails, DispatchFails, DispatchLater, DispatchNow, ResetRetry,
       ReceiveIoFails, EndPoll, BeginPoll, Begin, pool
  <2>2. QED
    BY <1>1, <2>1 DEF Pending
<1>13. CASE UNCHANGED vars
  BY <1>1, <1>13 DEF vars, pool, control, Pending
<1>14. QED
  BY <1>2, <1>3, <1>4, <1>5, <1>6, <1>7, <1>8, <1>9, <1>10, <1>11, <1>12, <1>13 DEF Next, Step

(* A transaction queued for a handshake is not forgotten: its slot is      *)
(* marked, or the poll in progress has yet to look at it.                  *)
THEOREM PendingKnown == Spec => []PendingIsDirty
<1>1. Init => PendingIsDirty
  BY DEF Init, PendingIsDirty, NoConn
<1>2. TypeInv /\ PendingIsDirty /\ [Next]_vars => PendingIsDirty'
  BY PendingStep
<1>3. QED
  BY <1>1, <1>2, TypeAlways, PTL DEF Spec

(***************************************************************************)
(* What a ready slot has                                                   *)
(***************************************************************************)

(* What makes a slot ready, and what changes its connection afterwards. *)
LEMMA ReadyStep ==
  ASSUME TypeInv, [Next]_vars, NEW j \in Slots
  PROVE  /\ state[j] # "Ready" /\ state'[j] = "Ready" =>
              /\ conn[j].phase = "confirmed" /\ conn'[j].phase = "confirmed"
         /\ state'[j] = "Ready" /\ conn[j].phase = "confirmed" => conn'[j].phase = "confirmed"
<1> DEFINE Goal ==
       /\ state[j] # "Ready" /\ state'[j] = "Ready" =>
            /\ conn[j].phase = "confirmed" /\ conn'[j].phase = "confirmed"
       /\ state'[j] = "Ready" /\ conn[j].phase = "confirmed" => conn'[j].phase = "confirmed"
<1>0. PoolTypes /\ CallTypes /\ conn \in [Slots -> Conns] /\ state \in [Slots -> States]
  BY DEF TypeInv, PoolTypes
<1>1. ASSUME NEW i \in Occupied, DriveOk(i) \/ DriveErr(i) PROVE Goal
  <2>0. i \in Slots
    BY DEF Occupied
  <2>1. CASE DriveFails(i)
    <3>1. UNCHANGED state /\ (UNCHANGED conn \/ (conn[i].phase = "new" /\ conn' = [conn EXCEPT ![i].phase = "lost"]))
      BY <2>1 DEF DriveFails
    <3>2. QED
      BY <1>0, <2>0, <3>1
  <2>2. CASE DriveSends(i)
    <3>1. conn[i].phase = "confirmed" => Transmitted(conn[i]) = conn[i]
      BY DEF Transmitted
    <3>2. QED
      BY <1>0, <2>0, <2>2, <3>1 DEF DriveSends
  <2>3. CASE DriveFindsClosed(i)
    <3>1. state'[i] \in {"Dead", "Failed"} /\ \A k \in Slots : k # i => state'[k] = state[k]
      BY <1>0, <2>0, <2>3 DEF DriveFindsClosed, MarkFailed, FailedState
    <3>2. QED
      BY <2>3, <3>1 DEF DriveFindsClosed
  <2>4. ASSUME NEW flushed \in BOOLEAN, DriveBecomesReady(i, flushed) PROVE Goal
    <3>1. /\ \A k \in Slots : k # i => state'[k] = state[k]
          /\ conn[i].phase = "confirmed"
      BY <1>0, <2>0, <2>4 DEF DriveBecomesReady, NewlyConfirmed
    <3>2. PICK q : conn' = [conn EXCEPT ![i].queue = q]
      BY <2>4 DEF DriveBecomesReady, Drain
    <3>3. \A k \in Slots : conn'[k].phase = conn[k].phase
      BY <1>0, <2>0, <3>2 DEF Conns
    <3>4. QED
      BY <3>1, <3>3
  <2>5. QED
    BY <1>1, <2>1, <2>2, <2>3, <2>4 DEF DriveOk, DriveErr
<1>2. CASE Connected \/ Flush \/ HandshakeDrive
  <2>1. PICK i \in Occupied : DriveOk(i) \/ DriveErr(i)
    BY <1>0, <1>2 DEF Connected, Flush, HandshakeDrive, CallTypes
  <2>2. QED
    BY <1>1, <2>1
<1>3. CASE Sweep
  BY <1>1, <1>3, SweepTypes DEF Sweep
<1>4. CASE Allocate
  <2> DEFINE f == FindOrAllocate(call.to)
  <2>1. f.slot \in Slots
    BY <1>0, <1>4, Allocated DEF Allocate, CallTypes
  <2>2. \/ UNCHANGED <<state, conn>>
        \/ /\ state' = [state EXCEPT ![f.slot] = "Connecting"]
           /\ conn' = [conn EXCEPT ![f.slot] = NoConn]
    BY <1>4 DEF Allocate
  <2> HIDE DEF f
  <2>3. QED
    BY <1>0, <2>1, <2>2
<1>5. CASE Create
  <2>1. PICK c : conn' = [conn EXCEPT ![call.slot] = c]
    BY <1>5 DEF Create
  <2>2. state' = [state EXCEPT ![call.slot] = "Connecting"]
    BY <1>5 DEF Create
  <2>3. QED
    BY <1>0, <2>1, <2>2
<1>6. CASE DispatchBlocked \/ Queue
  <2>1. /\ call.found \in Slots /\ UNCHANGED state
        /\ UNCHANGED conn \/ \E q : conn' = [conn EXCEPT ![call.found].queue = q]
    BY <1>0, <1>6 DEF DispatchBlocked, Queue, Enqueue, CallTypes, Occupied
  <2>2. conn'[j].phase = conn[j].phase
    <3>1. ASSUME NEW q, conn' = [conn EXCEPT ![call.found].queue = q]
          PROVE  conn'[j].phase = conn[j].phase
      BY <1>0, <2>1, <3>1 DEF Conns
    <3>2. QED
      BY <2>1, <3>1
  <2>3. QED
    BY <2>1, <2>2
<1>7. ASSUME NEW a \in Addrs, NEW kind \in Kinds, Receive(a, kind) PROVE Goal
  <2> DEFINE i == Find(a)
  <2>1. PICK c \in Received(conn[i], kind) : conn' = [conn EXCEPT ![i] = c]
    BY <1>7 DEF Receive
  <2>2. i \in Slots /\ UNCHANGED state
    BY <1>7, FindOccupied DEF Receive, Occupied
  <2> HIDE DEF i
  <2>3. conn[i].phase = "confirmed" => c.phase = "confirmed"
    BY <1>0, <2>2, ReceivedTypes
  <2>4. QED
    BY <1>0, <2>1, <2>2, <2>3
<1>8. CASE HandshakeTimeout \/ \E a \in Addrs : ReceiveFails(a)
  <2>1. UNCHANGED conn /\ \E i : MarkFailed(i)
    BY <1>8 DEF HandshakeTimeout, ReceiveFails
  <2>2. state'[j] = "Ready" => state[j] = "Ready"
    BY <1>0, <2>1 DEF MarkFailed, FailedState
  <2>3. QED
    BY <2>1, <2>2
<1>9. CASE HandshakeCheck
  <2>1. UNCHANGED conn
    BY <1>9 DEF HandshakeCheck
  <2>2. state[j] # "Ready" /\ state'[j] = "Ready" => conn[j].phase = "confirmed"
    BY <1>0, <1>9 DEF HandshakeCheck, MarkFailed, FailedState
  <2>3. QED
    BY <1>9, <2>1, <2>2
<1>10. CASE \/ CreateFails \/ DispatchFails \/ DispatchLater \/ DispatchNow \/ ResetRetry
            \/ ReceiveIoFails \/ TakeDirty \/ Remark \/ EndPoll \/ BeginPoll \/ UNCHANGED vars
            \/ \E op \in Calls, a \in Addrs : Begin(op, a)
  <2>1. UNCHANGED <<state, conn>>
    BY <1>10 DEF CreateFails, DispatchFails, DispatchLater, DispatchNow, ResetRetry,
       ReceiveIoFails, TakeDirty, Remark, EndPoll, BeginPoll, Begin, pool, vars
  <2>2. QED
    BY <2>1
<1>11. QED
  BY <1>2, <1>3, <1>4, <1>5, <1>6, <1>7, <1>8, <1>9, <1>10 DEF Next, Step

(* A slot is ready only with a connection whose handshake is confirmed:    *)
(* every way of replacing a connection resets the state of its slot.       *)
THEOREM ReadyConfirmed == Spec => []ReadyMeansConfirmed
<1>1. Init => ReadyMeansConfirmed
  BY DEF Init, ReadyMeansConfirmed
<1>2. TypeInv /\ ReadyMeansConfirmed /\ [Next]_vars => ReadyMeansConfirmed'
  BY ReadyStep DEF ReadyMeansConfirmed
<1>3. QED
  BY <1>1, <1>2, TypeAlways, PTL DEF Spec
=============================================================================

---------------------------- MODULE SenderProofs ----------------------------
(***************************************************************************)
(* Proofs about the transaction sender, for any schedule, any size of the  *)
(* leader buffer and any lookahead: send_fanout falls back to the backup   *)
(* leaders only when it should, and inline prewarming is in time.          *)
(***************************************************************************)
EXTENDS Sender, FiniteSetTheorems, TLAPS

Endpoints == {"sender", "prewarm"}
ConnState == {"none", "connecting", "ready", "failed", "dead"}
CallPc == {"idle", "poll", "collect", "leader", "slots", "fan", "join", "down"}
CallType ==
  [pc : CallPc, i : Nat, slot : Nat, addr : Addrs \cup {None}, window : Nat,
   todo : SUBSET Addrs, limit : Nat, primary : Nat, dead : Nat, alive : Nat]

(* The variables of the sender have the types their structs give them. *)
SenderTypes ==
  /\ base \in 0..MaxWindow /\ strategy \in StrategyKinds
  /\ conn \in [Endpoints -> [Addrs -> ConnState]]
  /\ call \in CallType /\ warmed \in BOOLEAN

(* In the primary loop of a fanout every leader passed counts once, as     *)
(* dead or as alive; the backup loop is entered with none alive.           *)
FanInv ==
  call.pc = "fan" =>
    /\ call.limit = call.primary =>
         call.dead + call.alive = call.i /\ call.i <= call.limit
    /\ call.limit # call.primary => call.i >= PRIMARY
    /\ call.limit # call.primary /\ call.i = PRIMARY => call.alive = 0
    /\ call.primary <= PRIMARY

(* The address that prewarming takes for the window after this one, and    *)
(* whether a connect to it was begun.                                      *)
NextAddr == PrewarmAddr(Schedule[base + 1])
NextTried == conn["sender"][NextAddr] # "none"

(* A pass of prewarming that began in this window: once it is past         *)
(* position 1 it has the next leader in its list, or has tried it.         *)
InWindow == call.window = base /\ base > 0
WarmInv ==
  /\ call.window <= base
  /\ call.pc = "poll" => call.i = 0
  /\ call.pc = "collect" /\ InWindow /\ call.i > 1 => NextAddr \in call.todo
  /\ call.pc \in {"leader", "slots"} /\ InWindow =>
       /\ call.slot = NUM_CONSECUTIVE_LEADER_SLOTS * base
       /\ call.i > 1 => NextTried
       /\ call.i = 1 /\ call.pc = "slots" => call.addr = NextAddr
  /\ warmed /\ base > 0 => NextTried

(***************************************************************************)
(* The operators of the model                                              *)
(***************************************************************************)
LEMMA IdleType ==
  /\ Idle \in CallType /\ Idle.pc = "idle" /\ Idle.i = 0 /\ Idle.window = 0
  /\ Idle.dead = 0 /\ Idle.alive = 0
  BY DEF Idle, CallType, CallPc

(* Every window that the buffer shows is in the schedule. *)
LEMMA LeaderKnown ==
  ASSUME base \in 0..MaxWindow, NEW i \in Nat, IsValid(i)
  PROVE  GetLeader(i) \in Leaders
<1>1. base + i \in 1..Len(Schedule)
  BY SenderAssumption DEF IsValid
<1>2. DOMAIN Schedule = 1..Len(Schedule)
  BY SenderAssumption
<1> QED
  BY <1>1, <1>2 DEF GetLeader, Leaders

LEMMA AddrsKnown ==
  ASSUME NEW leader \in Leaders
  PROVE  /\ AddrsOf(leader) \subseteq Addrs
         /\ PrewarmAddr(leader) \in Addrs /\ PrewarmAddr(leader) \in AddrsOf(leader)
<1>1. Port \in {"Main", "Forward", "Both"}
  BY SenderAssumption
<1>2. AddrsOf(leader) \subseteq Addrs
  BY DEF AddrsOf, Addrs
<1>3. PrewarmAddr(leader) \in AddrsOf(leader)
  <2>1. CASE Port = "Main"
    BY <2>1 DEF AddrsOf, PrewarmAddr
  <2>2. CASE Port = "Forward"
    BY <2>2 DEF AddrsOf, PrewarmAddr
  <2>3. CASE Port = "Both"
    BY <2>3 DEF AddrsOf, PrewarmAddr
  <2> QED
    BY <1>1, <2>1, <2>2, <2>3
<1> QED
  BY <1>2, <1>3

LEMMA ConnectTypes ==
  ASSUME conn \in [Endpoints -> [Addrs -> ConnState]], NEW e \in Endpoints,
         NEW S, NEW states, Connect(e, S, states)
  PROVE  /\ conn' \in [Endpoints -> [Addrs -> ConnState]]
         /\ \A f \in Endpoints, a \in Addrs :
              conn[f][a] # "none" => conn'[f][a] # "none"
         /\ "none" \in states => \A a \in Addrs \cap S : conn'[e][a] # "none"
<1> DEFINE row == [a \in Addrs |-> IF a \in S /\ conn[e][a] \in states
                                  THEN "connecting" ELSE conn[e][a]]
<1>1. conn' = [conn EXCEPT ![e] = row]
  BY DEF Connect
<1>2. /\ row \in [Addrs -> ConnState]
      /\ \A a \in Addrs : conn[e][a] # "none" => row[a] # "none"
      /\ "none" \in states => \A a \in Addrs \cap S : row[a] # "none"
  BY DEF ConnState
<1> HIDE DEF row
<1>3. conn'[e] = row /\ \A f \in Endpoints : f # e => conn'[f] = conn[f]
  BY <1>1
<1> QED
  BY <1>1, <1>2, <1>3

(* No connection that there is ever disappears. *)
LEMMA ConnKept ==
  ASSUME SenderTypes, [Next]_vars
  PROVE  /\ conn' \in [Endpoints -> [Addrs -> ConnState]]
         /\ \A e \in Endpoints, a \in Addrs :
              conn[e][a] # "none" => conn'[e][a] # "none"
<1> DEFINE Kept ==
     /\ conn' \in [Endpoints -> [Addrs -> ConnState]]
     /\ \A e \in Endpoints, a \in Addrs :
          conn[e][a] # "none" => conn'[e][a] # "none"
<1>1. CASE UNCHANGED conn
  BY <1>1 DEF SenderTypes
<1>2. ASSUME NEW e \in Endpoints, NEW a, NEW st \in ConnState \ {"none"},
             conn' = [conn EXCEPT ![e][a] = st]
      PROVE  Kept
  BY <1>2 DEF SenderTypes
<1>3. ASSUME NEW e \in Endpoints, NEW S, NEW states, Connect(e, S, states)
      PROVE  Kept
  BY <1>3, ConnectTypes DEF SenderTypes
<1>4. CASE SenderNext
  <2>1. UNCHANGED conn \/ \E S, states : Connect("sender", S, states)
    BY <1>4 DEF SenderNext, BeginPoll, BeginPrewarm, EndPoll, CollectAddrs, Prewarm,
       ReadLeader, ConnectIfDue, EndAdaptive, BeginFanout, SendToLeader, SendTo,
       EndLoop, Shutdown, Join
  <2> QED
    BY <1>1, <1>3, <2>1 DEF Endpoints
<1>5. CASE PrewarmNext
  <2>1. \/ UNCHANGED conn \/ \E S, states : Connect("prewarm", S, states)
        \/ \E st \in ConnState \ {"none"} : conn' = [conn EXCEPT !["prewarm"][paddr] = st]
    BY <1>5 DEF PrewarmNext, PrewarmLoop, BeginRefresh, EndRefresh, SkipLeader,
       BeginConnect, ConnectOk, ConnectFails, ConnState
  <2> QED
    BY <1>1, <1>2, <1>3, <2>1 DEF Endpoints
<1>6. CASE \E e \in {"sender", "prewarm"}, a \in Addrs : Progress(e, a)
  BY <1>2, <1>6 DEF Progress, Endpoints, ConnState
<1>7. CASE Shift \/ UNCHANGED vars
  BY <1>1, <1>7 DEF Shift, vars
<1> QED
  BY <1>4, <1>5, <1>6, <1>7 DEF Next

(***************************************************************************)
(* Types                                                                   *)
(***************************************************************************)
LEMMA TypesInit == Init => SenderTypes
<1> SUFFICES ASSUME Init PROVE SenderTypes
  OBVIOUS
<1>1. conn \in [Endpoints -> [Addrs -> ConnState]]
  BY DEF Init, Endpoints, ConnState
<1>2. base \in 0..MaxWindow /\ strategy \in StrategyKinds
  BY SenderAssumption DEF Init
<1>3. call \in CallType /\ warmed \in BOOLEAN
  BY IdleType DEF Init
<1> QED
  BY <1>1, <1>2, <1>3 DEF SenderTypes

LEMMA CallKept ==
  ASSUME Shift \/ PrewarmNext \/ (\E e \in Endpoints, a \in Addrs : Progress(e, a))
           \/ UNCHANGED vars
  PROVE  call' = call
  BY DEF Shift, PrewarmNext, PrewarmLoop, BeginRefresh, EndRefresh, SkipLeader,
     BeginConnect, ConnectOk, ConnectFails, Progress, vars

LEMMA CallTypes ==
  ASSUME SenderTypes, SenderNext
  PROVE  call' \in CallType
<1>1. call \in CallType /\ base \in 0..MaxWindow /\ base \in Nat
  BY SenderAssumption DEF SenderTypes
<1>2. /\ call.i \in Nat /\ call.dead \in Nat /\ call.alive \in Nat
      /\ call.todo \subseteq Addrs
  BY <1>1 DEF CallType
<1>3. CASE BeginPoll \/ Shutdown \/ Join \/ EndPoll
  <2>1. [Idle EXCEPT !.pc = "poll", !.window = base] \in CallType
    BY <1>1, IdleType DEF CallType, CallPc
  <2>2. ASSUME NEW x \in CallPc PROVE [Idle EXCEPT !.pc = x] \in CallType
    BY IdleType DEF CallType
  <2>3. "join" \in CallPc /\ "down" \in CallPc
    BY DEF CallPc
  <2>4. QED
    BY <1>3, <2>1, <2>2, <2>3, IdleType DEF BeginPoll, Shutdown, Join, EndPoll
<1>4. CASE BeginPrewarm
  <2>1. StartSlot(0) \in Nat
    BY <1>1 DEF StartSlot, NUM_CONSECUTIVE_LEADER_SLOTS
  <2>2. /\ [call EXCEPT !.pc = "collect"] \in CallType
        /\ [call EXCEPT !.pc = "leader", !.slot = StartSlot(0)] \in CallType
    BY <1>1, <2>1 DEF CallType, CallPc
  <2> QED
    BY <1>4, <2>2, IdleType DEF BeginPrewarm
<1>5. CASE CollectAddrs
  <2> DEFINE todo == IF IsValid(call.i) THEN call.todo \cup AddrsOf(GetLeader(call.i))
                     ELSE call.todo
             j == call.i + 1
  <2>1. todo \subseteq Addrs
    BY <1>1, <1>2, LeaderKnown, AddrsKnown
  <2>2. call' = [call EXCEPT !.i = j, !.todo = todo] /\ j \in Nat
    BY <1>2, <1>5 DEF CollectAddrs
  <2> HIDE DEF todo, j
  <2> QED
    BY <1>1, <1>2, <2>1, <2>2 DEF CallType
<1>6. CASE Prewarm \/ EndAdaptive
  BY <1>6, IdleType DEF Prewarm, EndAdaptive, EndPass
<1>7. CASE ReadLeader
  <2>1. CASE IsValid(call.i)
    <3>1. PrewarmAddr(GetLeader(call.i)) \in Addrs
      BY <1>1, <1>2, <2>1, LeaderKnown, AddrsKnown
    <3> QED
      BY <1>1, <1>7, <2>1, <3>1 DEF ReadLeader, CallType, CallPc
  <2>2. CASE ~IsValid(call.i)
    BY <1>1, <1>2, <1>7, <2>2 DEF ReadLeader, CallType
  <2> QED
    BY <2>1, <2>2
<1>8. CASE \E ms \in HandshakeTimes : ConnectIfDue(ms)
  <2> DEFINE j == call.i + 1
  <2>1. call' = [call EXCEPT !.pc = "leader", !.i = j] /\ j \in Nat
    BY <1>2, <1>8 DEF ConnectIfDue
  <2> HIDE DEF j
  <2> QED
    BY <1>1, <2>1 DEF CallType, CallPc
<1>9. CASE \E count \in Fanouts : BeginFanout(count)
  <2>1. PICK primary \in Nat :
          call' = [Idle EXCEPT !.pc = "fan", !.limit = primary, !.primary = primary]
    BY <1>9, SenderAssumption DEF BeginFanout
  <2> QED
    BY <2>1, IdleType DEF CallType, CallPc
<1>10. CASE SendToLeader
  <2> DEFINE S == AddrsOf(GetLeader(call.i))
             dead == {a \in S : conn["sender"][a] = "dead"}
  <2>1. Cardinality(dead) \in Nat /\ Cardinality(S \ dead) \in Nat
    <3>1. IsFiniteSet({<<GetLeader(call.i), "main">>, <<GetLeader(call.i), "fwd">>})
      <4>1. IsFiniteSet({<<GetLeader(call.i), "main">>})
        BY FS_Singleton
      <4>2. IsFiniteSet({<<GetLeader(call.i), "main">>} \cup {<<GetLeader(call.i), "fwd">>})
        BY <4>1, FS_AddElement
      <4>3. {<<GetLeader(call.i), "main">>, <<GetLeader(call.i), "fwd">>}
              = {<<GetLeader(call.i), "main">>} \cup {<<GetLeader(call.i), "fwd">>}
        OBVIOUS
      <4> QED
        BY <4>2, <4>3
    <3>2. /\ S \subseteq {<<GetLeader(call.i), "main">>, <<GetLeader(call.i), "fwd">>}
          /\ dead \subseteq S
      BY DEF AddrsOf
    <3> QED
      BY <3>1, <3>2, FS_Subset, FS_CardinalityType
  <2> DEFINE j == call.i + 1
             d == call.dead + Cardinality(dead)
             l == call.alive + Cardinality(S \ dead)
  <2>2. /\ call' = [call EXCEPT !.i = j, !.dead = d, !.alive = l]
        /\ j \in Nat /\ d \in Nat /\ l \in Nat
    BY <1>2, <1>10, <2>1 DEF SendToLeader, SendTo
  <2> HIDE DEF j, d, l
  <2> QED
    BY <1>1, <2>2 DEF CallType
<1>11. CASE EndLoop
  <2>1. PRIMARY \in Nat /\ PRIMARY + BACKUP \in Nat
    BY SenderAssumption
  <2>2. [call EXCEPT !.i = PRIMARY, !.limit = PRIMARY + BACKUP] \in CallType
    BY <1>1, <2>1 DEF CallType
  <2> QED
    BY <1>11, <2>2, IdleType DEF EndLoop
<1> QED
  BY <1>3, <1>4, <1>5, <1>6, <1>7, <1>8, <1>9, <1>10, <1>11 DEF SenderNext

LEMMA TypesStep == SenderTypes /\ [Next]_vars => SenderTypes'
<1> SUFFICES ASSUME SenderTypes, [Next]_vars PROVE SenderTypes'
  OBVIOUS
<1>1. conn' \in [Endpoints -> [Addrs -> ConnState]]
  BY ConnKept
<1>2. call' \in CallType
  BY CallKept, CallTypes DEF Next, SenderTypes, Endpoints
<1>3. base' \in 0..MaxWindow /\ strategy' = strategy /\ warmed' \in BOOLEAN
  <2>1. CASE Shift
    <3>1. MaxWindow \in Nat
      BY SenderAssumption
    <3>2. PICK k \in 1..2 : base + k <= MaxWindow /\ base' = base + k
      BY <2>1 DEF Shift
    <3>3. base' \in 0..MaxWindow
      BY <3>1, <3>2 DEF SenderTypes
    <3> QED
      BY <2>1, <3>3 DEF Shift
  <2>2. CASE SenderNext
    <3>1. UNCHANGED <<base, strategy>>
      BY <2>2 DEF SenderNext, BeginPoll, BeginPrewarm, EndPoll, CollectAddrs, Prewarm,
         ReadLeader, ConnectIfDue, EndAdaptive, BeginFanout, SendToLeader,
         EndLoop, Shutdown, Join
    <3>2. UNCHANGED warmed \/ EndPass
      BY <2>2 DEF SenderNext, BeginPoll, BeginPrewarm, EndPoll, CollectAddrs, Prewarm,
         ReadLeader, ConnectIfDue, EndAdaptive, BeginFanout, SendToLeader,
         EndLoop, Shutdown, Join
    <3>3. warmed' \in BOOLEAN
      BY <3>2 DEF EndPass, SenderTypes
    <3> QED
      BY <3>1, <3>3 DEF SenderTypes
  <2>3. CASE PrewarmNext \/ (\E e \in Endpoints, a \in Addrs : Progress(e, a))
               \/ UNCHANGED vars
    BY <2>3 DEF SenderTypes, PrewarmNext, PrewarmLoop, BeginRefresh, EndRefresh,
       SkipLeader, BeginConnect, ConnectOk, ConnectFails, Progress, vars
  <2> QED
    BY <2>1, <2>2, <2>3 DEF Next, Endpoints
<1> QED
  BY <1>1, <1>2, <1>3 DEF SenderTypes

(***************************************************************************)
(* The fallback of send_fanout                                             *)
(***************************************************************************)

(* With one port a leader has one address, dead or alive. *)
LEMMA OneAddress ==
  ASSUME Port # "Both", NEW leader
  PROVE  LET S == AddrsOf(leader)
             dead == {a \in S : conn["sender"][a] = "dead"}
         IN  /\ Cardinality(dead) \in Nat /\ Cardinality(S \ dead) \in Nat
             /\ Cardinality(dead) + Cardinality(S \ dead) = 1
<1> DEFINE S == AddrsOf(leader)
           dead == {a \in S : conn["sender"][a] = "dead"}
<1>1. PICK x : S = {x}
  <2>1. CASE Port = "Main"
    BY <2>1 DEF AddrsOf
  <2>2. CASE Port = "Forward"
    BY <2>2 DEF AddrsOf
  <2> QED
    BY <2>1, <2>2, SenderAssumption
<1>2. Cardinality({x}) = 1 /\ Cardinality({}) = 0
  BY FS_Singleton, FS_EmptySet
<1>3. CASE conn["sender"][x] = "dead"
  <2>1. dead = {x} /\ S \ dead = {}
    BY <1>1, <1>3
  <2> HIDE DEF S, dead
  <2>2. /\ Cardinality(dead) \in Nat /\ Cardinality(S \ dead) \in Nat
        /\ Cardinality(dead) + Cardinality(S \ dead) = 1
    BY <1>2, <2>1
  <2> QED
    BY <2>2 DEF S, dead
<1>4. CASE conn["sender"][x] # "dead"
  <2>1. dead = {} /\ S \ dead = {x}
    BY <1>1, <1>4
  <2> HIDE DEF S, dead
  <2>2. /\ Cardinality(dead) \in Nat /\ Cardinality(S \ dead) \in Nat
        /\ Cardinality(dead) + Cardinality(S \ dead) = 1
    BY <1>2, <2>1
  <2> QED
    BY <2>2 DEF S, dead
<1> QED
  BY <1>3, <1>4

LEMMA FanStep ==
  ASSUME Port # "Both", SenderTypes, FanInv, [Next]_vars
  PROVE  FanInv'
<1>1. CASE call' = call
  BY <1>1 DEF FanInv
<1>2. CASE call'.pc # "fan"
  BY <1>2 DEF FanInv
<1>3. CASE \E count \in Fanouts : BeginFanout(count)
  <2>1. PICK primary \in Nat :
          /\ primary <= PRIMARY
          /\ call' = [Idle EXCEPT !.pc = "fan", !.limit = primary, !.primary = primary]
    <3>1. PICK count \in Fanouts : BeginFanout(count)
      BY <1>3
    <3>2. count \in Nat /\ PRIMARY \in Nat
      BY SenderAssumption
    <3> DEFINE least == IF count < PRIMARY THEN count ELSE PRIMARY
    <3>3. least \in Nat /\ least <= PRIMARY
      BY <3>2
    <3>4. call' = [Idle EXCEPT !.pc = "fan", !.limit = least, !.primary = least]
      BY <3>1 DEF BeginFanout
    <3> HIDE DEF least
    <3> QED
      BY <3>3, <3>4
  <2>2. /\ call'.limit = primary /\ call'.primary = primary /\ call'.i = 0
        /\ call'.dead = 0 /\ call'.alive = 0
    BY <2>1, IdleType DEF Idle
  <2> QED
    BY <2>1, <2>2 DEF FanInv
<1>4. CASE SendToLeader
  <2> DEFINE S == AddrsOf(GetLeader(call.i))
             dead == {a \in S : conn["sender"][a] = "dead"}
             d == Cardinality(dead)
             l == Cardinality(S \ dead)
  <2>1. d \in Nat /\ l \in Nat /\ d + l = 1
    BY OneAddress
  <2>2. /\ call' = [call EXCEPT !.i = call.i + 1, !.dead = call.dead + d,
                                !.alive = call.alive + l]
        /\ call.i < call.limit /\ call.pc = "fan"
    BY <1>4 DEF SendToLeader, SendTo
  <2> HIDE DEF d, l
  <2>3. /\ call.i \in Nat /\ call.dead \in Nat /\ call.alive \in Nat
        /\ call.limit \in Nat /\ call.primary \in Nat /\ PRIMARY \in Nat
        /\ call \in CallType
    BY SenderAssumption DEF SenderTypes, CallType
  <2>4. /\ call'.i = call.i + 1 /\ call'.dead = call.dead + d
        /\ call'.alive = call.alive + l /\ call'.limit = call.limit
        /\ call'.primary = call.primary
    BY <2>2, <2>3 DEF CallType
  <2> QED
    BY <2>1, <2>2, <2>3, <2>4 DEF FanInv
<1>5. CASE EndLoop
  <2>1. CASE call' = Idle
    BY <1>2, <2>1, IdleType
  <2>2. CASE /\ call.dead >= call.primary /\ call.primary = PRIMARY
             /\ call.limit = call.primary
             /\ call' = [call EXCEPT !.i = PRIMARY, !.limit = PRIMARY + BACKUP]
    <3>1. /\ call.i \in Nat /\ call.dead \in Nat /\ call.alive \in Nat
          /\ call \in CallType /\ PRIMARY \in Nat /\ BACKUP \in Nat
      BY SenderAssumption DEF SenderTypes, CallType
    <3>2. /\ call'.i = PRIMARY /\ call'.limit = PRIMARY + BACKUP
          /\ call'.dead = call.dead /\ call'.alive = call.alive
          /\ call'.primary = call.primary
      BY <2>2, <3>1 DEF CallType
    <3>3. call.dead + call.alive = call.i /\ call.i <= call.primary
      BY <1>5, <2>2 DEF FanInv, EndLoop
    <3>4. call.alive = 0 /\ call.dead = PRIMARY
      BY <2>2, <3>1, <3>3
    <3> QED
      BY <2>2, <3>1, <3>2, <3>4 DEF FanInv
  <2> QED
    BY <1>5, <2>1, <2>2 DEF EndLoop, AllDead
<1>6. CASE SenderNext /\ ~EndLoop /\ ~SendToLeader
             /\ ~(\E count \in Fanouts : BeginFanout(count))
  <2>1. call \in CallType
    BY DEF SenderTypes
  <2>2. call'.pc # "fan"
    BY <1>6, <2>1, IdleType DEF SenderNext, BeginPoll, BeginPrewarm, EndPoll,
       CollectAddrs, Prewarm, ReadLeader, ConnectIfDue, EndAdaptive, EndPass,
       Shutdown, Join, CallType
  <2> QED
    BY <1>2, <2>2
<1> QED
  BY <1>1, <1>3, <1>4, <1>5, <1>6, CallKept DEF Next, Endpoints

(* send_fanout turns to the backup leaders only when no address tried      *)
(* before was alive, for any size of the two groups, any count asked for   *)
(* and any shifts of the buffer and changes of connections in between,     *)
(* provided that a leader has one address.                                 *)
THEOREM FallbackJustified ==
  ASSUME Port # "Both" PROVE Spec => []FallbackOnlyWhenAllDead
<1>1. Init => FanInv
  BY IdleType DEF Init, FanInv
<1>2. SenderTypes /\ FanInv => FallbackOnlyWhenAllDead
  <2> SUFFICES ASSUME SenderTypes, FanInv, call.pc = "fan", call.limit > PRIMARY,
                      call.i = PRIMARY
               PROVE  call.alive = 0
    BY DEF FallbackOnlyWhenAllDead
  <2>1. call.limit \in Nat /\ call.primary \in Nat /\ PRIMARY \in Nat
    BY SenderAssumption DEF SenderTypes, CallType
  <2> QED
    BY <2>1 DEF FanInv
<1> QED
  BY <1>1, <1>2, TypesInit, TypesStep, FanStep, PTL DEF Spec

(***************************************************************************)
(* Inline prewarming.  A pass reaches position 1, and the adaptive one     *)
(* counts with at least a leader's window of slots for every handshake.    *)
(***************************************************************************)
LookaheadEnough ==
  /\ Lookahead > 1 /\ Size > 1
  /\ \A ms \in HandshakeTimes : CalculateLookahead(ms) >= NUM_CONSECUTIVE_LEADER_SLOTS

LEMMA LookaheadIsInt == ASSUME NEW ms \in HandshakeTimes PROVE CalculateLookahead(ms) \in Int
<1> DEFINE needed == (ms + solana_slot_duration_ms - 1) \div solana_slot_duration_ms
<1>1. ms \in Nat /\ min_solana_slots \in Nat /\ max_solana_slots \in Nat
  BY SenderAssumption
<1>2. needed \in Int
  BY <1>1 DEF solana_slot_duration_ms
<1> HIDE DEF needed
<1> QED
  BY <1>1, <1>2 DEF CalculateLookahead, needed

(* The lookahead is a window at least if the configured minimum is, as it  *)
(* is by default, or if every handshake takes more than three slots.       *)
LEMMA WhenEnough ==
  ASSUME Lookahead > 1, Size > 1, max_solana_slots >= NUM_CONSECUTIVE_LEADER_SLOTS,
         \/ min_solana_slots >= NUM_CONSECUTIVE_LEADER_SLOTS
         \/ \A ms \in HandshakeTimes : ms > 3 * solana_slot_duration_ms
  PROVE  LookaheadEnough
<1> SUFFICES ASSUME NEW ms \in HandshakeTimes
             PROVE  CalculateLookahead(ms) >= NUM_CONSECUTIVE_LEADER_SLOTS
  BY DEF LookaheadEnough
<1> DEFINE needed == (ms + solana_slot_duration_ms - 1) \div solana_slot_duration_ms
<1>1. ms \in Nat /\ min_solana_slots \in Nat /\ max_solana_slots \in Nat
      /\ min_solana_slots <= max_solana_slots
  BY SenderAssumption
<1>2. needed \in Int
  BY <1>1 DEF solana_slot_duration_ms
<1>3. ms > 3 * solana_slot_duration_ms => needed >= NUM_CONSECUTIVE_LEADER_SLOTS
  BY <1>1 DEF solana_slot_duration_ms, NUM_CONSECUTIVE_LEADER_SLOTS
<1> HIDE DEF needed
<1> QED
  BY <1>1, <1>2, <1>3 DEF CalculateLookahead, needed, NUM_CONSECUTIVE_LEADER_SLOTS

(* Whatever handshake it counts with, the pass finds the next leader due   *)
(* as soon as the window before is the current one.                        *)
LEMMA NextIsDue ==
  ASSUME LookaheadEnough, NEW ms \in HandshakeTimes, base \in Nat,
         NEW slot, slot = NUM_CONSECUTIVE_LEADER_SLOTS * base
  PROVE  IsDue(slot, StartSlot(1), CalculateLookahead(ms))
<1> DEFINE n == CalculateLookahead(ms)
<1>1. n \in Int /\ n >= NUM_CONSECUTIVE_LEADER_SLOTS
  BY LookaheadIsInt DEF LookaheadEnough
<1> HIDE DEF n
<1>2. IsDue(slot, StartSlot(1), n)
  BY <1>1 DEF IsDue, StartSlot, NUM_CONSECUTIVE_LEADER_SLOTS
<1> QED
  BY <1>2 DEF n

LEMMA NextKnown ==
  ASSUME LookaheadEnough, SenderTypes, base > 0
  PROVE  /\ NextAddr \in Addrs /\ NextAddr = PrewarmAddr(GetLeader(1))
         /\ NextAddr \in AddrsOf(GetLeader(1)) /\ IsValid(1)
<1>1. IsValid(1) /\ GetLeader(1) \in Leaders
  BY LeaderKnown DEF IsValid, LookaheadEnough, SenderTypes
<1> QED
  BY <1>1, AddrsKnown DEF NextAddr, GetLeader

LEMMA NextTriedKept ==
  ASSUME LookaheadEnough, SenderTypes, [Next]_vars, base' = base, base > 0
  PROVE  NextAddr' = NextAddr /\ (NextTried => NextTried')
<1>1. NextAddr' = NextAddr /\ NextAddr \in Addrs /\ "sender" \in Endpoints
  BY NextKnown DEF NextAddr, PrewarmAddr, Endpoints
<1> QED
  BY <1>1, ConnKept DEF NextTried

(* The steps outside the passes of prewarming. *)
LEMMA WarmIdle ==
  ASSUME LookaheadEnough, SenderTypes, WarmInv, [Next]_vars,
         UNCHANGED <<base, warmed>>,
         \/ call' = call
         \/ /\ call'.window <= base /\ call'.pc \notin {"collect", "leader", "slots"}
            /\ call'.pc = "poll" => call'.i = 0
  PROVE  WarmInv'
<1>1. base > 0 => NextAddr' = NextAddr /\ (NextTried => NextTried')
  BY NextTriedKept
<1>2. warmed' /\ base' > 0 => NextTried'
  BY <1>1 DEF WarmInv
<1>3. CASE call' = call
  BY <1>1, <1>2, <1>3 DEF WarmInv, InWindow
<1>4. CASE /\ call'.window <= base /\ call'.pc \notin {"collect", "leader", "slots"}
           /\ call'.pc = "poll" => call'.i = 0
  BY <1>2, <1>4 DEF WarmInv
<1> QED
  BY <1>3, <1>4

LEMMA WarmShift ==
  ASSUME SenderTypes, WarmInv, Shift
  PROVE  WarmInv'
<1>1. base \in Nat /\ call.window \in Nat /\ call' = call /\ warmed' = FALSE
  BY SenderAssumption DEF SenderTypes, CallType, Shift
<1>2. PICK k \in 1..2 : base' = base + k
  BY DEF Shift
<1>3. call'.window <= base' /\ ~InWindow'
  BY <1>1, <1>2 DEF WarmInv, InWindow
<1> QED
  BY <1>1, <1>3 DEF WarmInv

LEMMA WarmBegin ==
  ASSUME SenderTypes, WarmInv, LookaheadEnough, BeginPrewarm, [Next]_vars
  PROVE  WarmInv'
<1>1. /\ UNCHANGED <<base, warmed>> /\ call \in CallType /\ call.i = 0
      /\ base \in Nat /\ call.window <= base
  BY SenderAssumption DEF BeginPrewarm, WarmInv, SenderTypes
<1>2. CASE call' = [call EXCEPT !.pc = "collect"]
  <2>1. call'.pc = "collect" /\ call'.i = 0 /\ call'.window = call.window
    BY <1>1, <1>2 DEF CallType
  <2>2. warmed' /\ base' > 0 => NextTried'
    BY <1>1, NextTriedKept DEF WarmInv
  <2> QED
    BY <1>1, <2>1, <2>2 DEF WarmInv
<1>3. CASE call' = [call EXCEPT !.pc = "leader", !.slot = StartSlot(0)]
  <2>1. /\ call'.pc = "leader" /\ call'.i = 0 /\ call'.window = call.window
        /\ call'.slot = StartSlot(0)
    BY <1>1, <1>3 DEF CallType
  <2>2. StartSlot(0) = NUM_CONSECUTIVE_LEADER_SLOTS * base
    BY <1>1 DEF StartSlot, NUM_CONSECUTIVE_LEADER_SLOTS
  <2>3. warmed' /\ base' > 0 => NextTried'
    BY <1>1, NextTriedKept DEF WarmInv
  <2> QED
    BY <1>1, <2>1, <2>2, <2>3 DEF WarmInv
<1>4. CASE call' = Idle
  <2>1. call'.window <= base /\ call'.pc = "idle"
    BY <1>1, <1>4, IdleType
  <2> QED
    BY <1>1, <2>1, WarmIdle
<1> QED
  BY <1>2, <1>3, <1>4 DEF BeginPrewarm

LEMMA WarmCollect ==
  ASSUME SenderTypes, WarmInv, LookaheadEnough, CollectAddrs, [Next]_vars
  PROVE  WarmInv'
<1> DEFINE todo == IF IsValid(call.i) THEN call.todo \cup AddrsOf(GetLeader(call.i))
                   ELSE call.todo
<1>1. /\ UNCHANGED <<base, warmed>> /\ call \in CallType /\ call.i \in Nat
      /\ call.pc = "collect" /\ call.window <= base
      /\ call' = [call EXCEPT !.i = call.i + 1, !.todo = todo]
  BY DEF CollectAddrs, WarmInv, SenderTypes, CallType
<1>2. call.todo \subseteq todo
  OBVIOUS
<1>3. base > 0 /\ call.i = 1 => NextAddr \in todo
  BY NextKnown
<1> HIDE DEF todo
<1>4. /\ call'.pc = "collect" /\ call'.i = call.i + 1 /\ call'.window = call.window
      /\ call'.todo = todo
  BY <1>1 DEF CallType
<1>5. base > 0 => NextAddr' = NextAddr /\ (NextTried => NextTried')
  BY <1>1, NextTriedKept
<1>6. InWindow' /\ call'.i > 1 => NextAddr' \in call'.todo
  <2> SUFFICES ASSUME InWindow', call'.i > 1 PROVE NextAddr' \in call'.todo
    OBVIOUS
  <2>1. InWindow /\ base > 0 /\ (call.i = 1 \/ call.i > 1)
    BY <1>1, <1>4 DEF InWindow
  <2> QED
    BY <1>1, <1>2, <1>3, <1>4, <1>5, <2>1 DEF WarmInv
<1> QED
  BY <1>1, <1>4, <1>5, <1>6 DEF WarmInv

(* The end of a pass that began in this window: the next leader is warm.   *)
LEMMA WarmEnd ==
  ASSUME SenderTypes, WarmInv, LookaheadEnough, [Next]_vars, base' = base, EndPass,
         InWindow => NextTried'
  PROVE  WarmInv'
<1>1. call'.window <= base /\ call'.pc = "idle"
  BY IdleType, SenderAssumption DEF EndPass, SenderTypes
<1>2. warmed' /\ base' > 0 => NextTried'
  BY NextTriedKept DEF EndPass, WarmInv, InWindow
<1> QED
  BY <1>1, <1>2 DEF WarmInv

LEMMA WarmStep ==
  ASSUME LookaheadEnough, SenderTypes, WarmInv, [Next]_vars
  PROVE  WarmInv'
<1>1. call \in CallType /\ base \in Nat /\ call.i \in Nat /\ call.window <= base
  BY SenderAssumption DEF SenderTypes, CallType, WarmInv
<1>2. CASE BeginPoll \/ EndPoll \/ (\E count \in Fanouts : BeginFanout(count))
             \/ EndLoop \/ Shutdown \/ Join
  <2>1. /\ UNCHANGED <<base, warmed>> /\ call'.window <= base
        /\ call'.pc \notin {"collect", "leader", "slots"}
        /\ call'.pc = "poll" => call'.i = 0
    <3>1. CASE BeginPoll
      BY <1>1, <3>1, IdleType DEF BeginPoll, CallType
    <3>2. CASE EndPoll \/ Shutdown \/ Join
      BY <1>1, <3>2, IdleType DEF EndPoll, Shutdown, Join, CallType
    <3>3. CASE \E count \in Fanouts : BeginFanout(count)
      BY <1>1, <3>3, IdleType DEF BeginFanout, CallType
    <3>4. CASE EndLoop
      BY <1>1, <3>4, IdleType DEF EndLoop, CallType
    <3> QED
      BY <1>2, <3>1, <3>2, <3>3, <3>4
  <2> QED
    BY <2>1, WarmIdle
<1>3. CASE SendToLeader
  <2>1. /\ UNCHANGED <<base, warmed>> /\ call'.window = call.window
        /\ call'.pc = "fan"
    BY <1>1, <1>3 DEF SendToLeader, SendTo, CallType
  <2> QED
    BY <1>1, <2>1, WarmIdle
<1>4. CASE Prewarm
  <2>1. InWindow => NextTried'
    <3> SUFFICES ASSUME InWindow PROVE NextTried'
      OBVIOUS
    <3>1. NextAddr \in call.todo /\ NextAddr \in Addrs /\ NextAddr' = NextAddr
      BY <1>4, NextKnown, NextTriedKept, SenderAssumption
      DEF InWindow, Prewarm, WarmInv, LookaheadEnough
    <3>2. conn'["sender"][NextAddr] # "none"
      BY <1>4, <3>1, ConnectTypes DEF Prewarm, SenderTypes, Endpoints
    <3> QED
      BY <3>1, <3>2 DEF NextTried
  <2> QED
    BY <1>4, <2>1, WarmEnd DEF Prewarm
<1>5. CASE ReadLeader
  <2>1. UNCHANGED <<base, warmed>> /\ call.pc = "leader"
    BY <1>5 DEF ReadLeader
  <2>2. base > 0 => NextAddr' = NextAddr /\ (NextTried => NextTried')
    BY <2>1, NextTriedKept
  <2>3. /\ call'.window = call.window /\ call'.slot = call.slot
        /\ \/ /\ call'.pc = "slots" /\ call'.i = call.i
              /\ call'.addr = PrewarmAddr(GetLeader(call.i))
           \/ call'.pc = "leader" /\ call'.i = call.i + 1 /\ ~IsValid(call.i)
    BY <1>1, <1>5 DEF ReadLeader, CallType
  <2>4. base > 0 => IsValid(1) /\ NextAddr = PrewarmAddr(GetLeader(1))
    BY NextKnown
  <2>5. InWindow' => InWindow /\ base > 0
    BY <2>1, <2>3 DEF InWindow
  <2>6. InWindow' =>
          /\ call'.slot = NUM_CONSECUTIVE_LEADER_SLOTS * base
          /\ call'.i > 1 => NextTried'
          /\ call'.i = 1 /\ call'.pc = "slots" => call'.addr = NextAddr'
    <3> SUFFICES ASSUME InWindow, base > 0
                 PROVE  /\ call'.slot = NUM_CONSECUTIVE_LEADER_SLOTS * base
                        /\ call'.i > 1 => NextTried'
                        /\ call'.i = 1 /\ call'.pc = "slots" => call'.addr = NextAddr'
      BY <2>5
    <3>1. call.slot = NUM_CONSECUTIVE_LEADER_SLOTS * base /\ (call.i > 1 => NextTried)
      BY <2>1 DEF WarmInv
    <3>2. call'.i > 1 => call.i > 1
      BY <1>1, <2>3, <2>4
    <3> QED
      BY <2>2, <2>3, <2>4, <3>1, <3>2
  <2> QED
    BY <1>1, <2>1, <2>2, <2>3, <2>6 DEF WarmInv
<1>6. ASSUME NEW ms \in HandshakeTimes, ConnectIfDue(ms)
      PROVE  WarmInv'
  <2>1. UNCHANGED <<base, warmed>> /\ call.pc = "slots"
    BY <1>6 DEF ConnectIfDue
  <2>2. base > 0 => NextAddr' = NextAddr /\ (NextTried => NextTried')
    BY <2>1, NextTriedKept
  <2>3. /\ call'.window = call.window /\ call'.slot = call.slot
        /\ call'.pc = "leader" /\ call'.i = call.i + 1
    BY <1>1, <1>6 DEF ConnectIfDue, CallType
  <2>4. ASSUME InWindow, call.i = 1
        PROVE  NextTried'
    <3>1. call.slot = NUM_CONSECUTIVE_LEADER_SLOTS * base /\ call.addr = NextAddr
      BY <2>1, <2>4 DEF WarmInv
    <3>2. IsDue(call.slot, StartSlot(call.i), CalculateLookahead(ms))
      BY <1>1, <2>4, <3>1, NextIsDue
    <3>3. Connect("sender", {NextAddr}, {"none"})
      BY <1>6, <3>1, <3>2 DEF ConnectIfDue
    <3>4. NextAddr \in Addrs /\ NextAddr' = NextAddr
      BY <2>2, <2>4, NextKnown DEF InWindow
    <3>5. conn'["sender"][NextAddr] # "none"
      BY <3>3, <3>4, ConnectTypes DEF SenderTypes, Endpoints
    <3> QED
      BY <3>4, <3>5 DEF NextTried
  <2>5. InWindow' => InWindow /\ base > 0
    BY <2>1, <2>3 DEF InWindow
  <2>6. InWindow' =>
          /\ call'.slot = NUM_CONSECUTIVE_LEADER_SLOTS * base
          /\ call'.i > 1 => NextTried'
    <3> SUFFICES ASSUME InWindow, base > 0
                 PROVE  /\ call'.slot = NUM_CONSECUTIVE_LEADER_SLOTS * base
                        /\ call'.i > 1 => NextTried'
      BY <2>5
    <3>1. call.slot = NUM_CONSECUTIVE_LEADER_SLOTS * base /\ (call.i > 1 => NextTried)
      BY <2>1 DEF WarmInv
    <3>2. call'.i > 1 => call.i > 1 \/ call.i = 1
      BY <1>1, <2>3
    <3> QED
      BY <2>2, <2>3, <2>4, <3>1, <3>2
  <2> QED
    BY <1>1, <2>1, <2>2, <2>3, <2>6 DEF WarmInv
<1>7. CASE EndAdaptive
  <2>1. InWindow => NextTried'
    BY <1>7, NextTriedKept, SenderAssumption
    DEF InWindow, EndAdaptive, WarmInv, LookaheadEnough
  <2> QED
    BY <1>7, <2>1, WarmEnd DEF EndAdaptive
<1>8. CASE PrewarmNext \/ (\E e \in Endpoints, a \in Addrs : Progress(e, a))
             \/ UNCHANGED vars
  <2>1. UNCHANGED <<base, warmed, call>>
    BY <1>8 DEF PrewarmNext, PrewarmLoop, BeginRefresh, EndRefresh,
       SkipLeader, BeginConnect, ConnectOk, ConnectFails, Progress, vars
  <2> QED
    BY <2>1, WarmIdle
<1> QED
  BY <1>2, <1>3, <1>4, <1>5, <1>6, <1>7, <1>8, WarmShift, WarmBegin, WarmCollect
  DEF Next, SenderNext, Endpoints

(* When a window follows the one before and a pass of prewarming has run   *)
(* within that one, a connect to the new leader was begun, for any         *)
(* schedule, any handshake times and any shifts of the buffer between the  *)
(* reads of a pass, provided that the lookahead reaches the next leader    *)
(* and is no shorter than a leader's window; WhenEnough says which         *)
(* configurations see to that.                                             *)
THEOREM NextLeaderTried == ASSUME LookaheadEnough PROVE Spec => NextLeaderIsTried
<1>1. Init => WarmInv
  BY IdleType DEF Init, WarmInv, InWindow
<1>2. WarmInv => [warmed /\ base > 0 /\ base' = base + 1 =>
                    conn["sender"][PrewarmAddr(Schedule[base'])] # "none"]_vars
  BY DEF WarmInv, NextTried, NextAddr
<1> QED
  BY <1>1, <1>2, TypesInit, TypesStep, WarmStep, PTL DEF Spec, NextLeaderIsTried
=============================================================================

------------------------------- MODULE Sender -------------------------------
(***************************************************************************)
(* The transaction sender and its prewarming (quic/src/sender.rs,          *)
(* strategy.rs, prewarm.rs and the adaptive timing of endpoint.rs) over a  *)
(* leader buffer that another thread shifts between any two of its reads.  *)
(*                                                                         *)
(* LeaderTracker is the buffer and QuicEndpoint the endpoint; of the first *)
(* this module keeps the window at position 0, of the second the state of  *)
(* the connection to each address.  The pool holds more connections than   *)
(* the sender looks ahead, so that none is evicted.  Keep-alive, which     *)
(* only drives connections that are there, is QuicEndpoint's KeepAlive.    *)
(* With the background strategy the sender's own sends are those of "jit"; *)
(* they share nothing with the prewarm thread but the session cache, and   *)
(* are left out there.                                                     *)
(***************************************************************************)
EXTENDS Integers, Sequences, FiniteSets

CONSTANTS
  Schedule,         \* Schedule[w]: the leader of window w
  Size,             \* entries of the leader buffer
  Lookahead,        \* lookahead of the prewarm configurations
  Strategies,       \* the strategies to look at, see StrategyKinds
  Port,             \* the TpuPort that sends and prewarming use
  PRIMARY,          \* primary fanout of send_fanout, 10
  BACKUP,           \* backup leaders of send_fanout, 4
  Fanouts,          \* counts that send_fanout is called with
  HandshakeTimes,   \* measured or assumed times of handshakes, in ms
  min_solana_slots,
  max_solana_slots,
  MaxWindow         \* bound of the model: windows

NUM_CONSECUTIVE_LEADER_SLOTS == 4
solana_slot_duration_ms == 400
StrategyKinds == {"jit", "static", "adaptive", "background"}
Leaders == {Schedule[w] : w \in DOMAIN Schedule}
Addrs == Leaders \X {"main", "fwd"}
Indices == 0..Lookahead - 1

ASSUME SenderAssumption ==
  /\ Schedule \in Seq(Leaders) /\ Len(Schedule) >= MaxWindow + Size
  /\ Strategies \subseteq StrategyKinds /\ Port \in {"Main", "Forward", "Both"}
  /\ min_solana_slots \in Nat /\ max_solana_slots \in Nat
  /\ min_solana_slots <= max_solana_slots /\ HandshakeTimes \subseteq Nat
  /\ Lookahead \in Nat \ {0} /\ Size \in Nat /\ MaxWindow \in Nat
  /\ PRIMARY \in Nat /\ BACKUP \in Nat /\ Fanouts \subseteq Nat

VARIABLES
  base,       \* the window at position 0 of the buffer, 0 before it is filled
  strategy,   \* the configured strategy
  conn,       \* conn[e][a]: connection of endpoint e to address a
  call,       \* the call that the sender's thread is in
  warmed,     \* history: a pass of prewarming has run within this window
  (* the prewarm thread *)
  ppc,        \* "off", "loop", "poll", "refresh", "connect" or "stopped"
  pi, paddr,  \* index and address in hand
  connected, connected_addrs,
  prewarm_shutdown

prewarm == <<ppc, pi, paddr, connected, connected_addrs>>
vars == <<base, strategy, conn, call, warmed, prewarm, prewarm_shutdown>>

None == <<"none">>
Idle == [pc |-> "idle", i |-> 0, slot |-> 0, addr |-> None, window |-> 0, todo |-> {},
         limit |-> 0, primary |-> 0, dead |-> 0, alive |-> 0]

Init ==
  /\ base = 0 /\ strategy \in Strategies
  /\ conn = [e \in {"sender", "prewarm"} |-> [a \in Addrs |-> "none"]]
  /\ call = Idle /\ warmed = FALSE
  /\ ppc = (IF strategy = "background" THEN "loop" ELSE "off") /\ pi = 0 /\ paddr = None
  /\ connected = [i \in Indices |-> FALSE] /\ connected_addrs = [i \in Indices |-> None]
  /\ prewarm_shutdown = FALSE

-----------------------------------------------------------------------------
(* The leader buffer: filled once, then shifted by one window or more. *)

Shift ==
  /\ \E k \in 1..2 : base + k <= MaxWindow /\ base' = base + k
  /\ warmed' = FALSE
  /\ UNCHANGED <<strategy, conn, call, prewarm, prewarm_shutdown>>

(* is_valid, get_leader and get_leader_slots.  Every entry of the filled   *)
(* buffer is valid, before and after a shift.                              *)
IsValid(i) == base > 0 /\ i < Size
GetLeader(i) == Schedule[base + i]
StartSlot(i) == NUM_CONSECUTIVE_LEADER_SLOTS * (base + i)

(* get_leader_addrs, get_prewarm_addrs *)
AddrsOf(leader) ==
  {<<leader, "main">> : x \in {"Main", "Both"} \cap {Port}} \cup
  {<<leader, "fwd">> : x \in {"Forward", "Both"} \cap {Port}}

(* The one address that the adaptive pass and the prewarm thread take. *)
PrewarmAddr(leader) == <<leader, IF Port = "Forward" THEN "fwd" ELSE "main">>

-----------------------------------------------------------------------------
(* The endpoint *)

(* poll: a handshake completes or fails, a connection is closed, a dead or *)
(* failed one recovers.  Only the thread that owns the endpoint polls it,  *)
(* and a blocking connect settles its own connection.                      *)
Polling(e) ==
  \/ e = "sender" /\ call.pc \in {"poll", "fan"}
  \/ e = "prewarm" /\ ppc \in {"poll", "connect"}

Progress(e, a) ==
  /\ Polling(e)
  /\ conn[e][a] # "none" /\ ~(e = "prewarm" /\ ppc = "connect" /\ a = paddr)
  /\ \E st \in {"ready", "failed", "dead"} \ {conn[e][a]} : conn' = [conn EXCEPT ![e][a] = st]
  /\ UNCHANGED <<base, strategy, call, warmed, prewarm, prewarm_shutdown>>

(* Connections to the addresses of S that are in one of the states are     *)
(* begun without waiting.                                                  *)
Connect(e, S, states) ==
  conn' = [conn EXCEPT ![e] = [a \in Addrs |-> IF a \in S /\ @[a] \in states
                                               THEN "connecting" ELSE @[a]]]

-----------------------------------------------------------------------------
(* TransactionSender::poll *)

BeginPoll ==
  /\ call.pc = "idle" /\ strategy # "background"
  /\ call' = [Idle EXCEPT !.pc = "poll", !.window = base]
  /\ UNCHANGED <<base, strategy, conn, warmed, prewarm, prewarm_shutdown>>

(* The poll of the endpoint has succeeded.  The adaptive pass reads the    *)
(* current slot once, and gives up while there is none.                    *)
BeginPrewarm ==
  /\ call.pc = "poll" /\ strategy \in {"static", "adaptive"}
  /\ call' = IF strategy = "static" THEN [call EXCEPT !.pc = "collect"]
             ELSE IF IsValid(0) THEN [call EXCEPT !.pc = "leader", !.slot = StartSlot(0)]
             ELSE Idle
  /\ UNCHANGED <<base, strategy, conn, warmed, prewarm, prewarm_shutdown>>

(* The poll has failed, or the strategy asks for nothing more; in          *)
(* send_fanout an error of poll ends the call.                             *)
EndPoll ==
  /\ call.pc \in {"poll", "fan"}
  /\ call' = Idle
  /\ UNCHANGED <<base, strategy, conn, warmed, prewarm, prewarm_shutdown>>

EndPass ==
  /\ call' = Idle
  /\ warmed' = (warmed \/ call.window = base)

(* prewarm: get_prewarm_addrs reads index after index, then the addresses  *)
(* that have no connection are connected to.                               *)
CollectAddrs ==
  /\ call.pc = "collect" /\ call.i < Lookahead
  /\ call' = [call EXCEPT !.i = @ + 1,
                          !.todo = IF IsValid(call.i) THEN @ \cup AddrsOf(GetLeader(call.i)) ELSE @]
  /\ UNCHANGED <<base, strategy, conn, warmed, prewarm, prewarm_shutdown>>

Prewarm ==
  /\ call.pc = "collect" /\ call.i = Lookahead
  /\ Connect("sender", call.todo, {"none"})
  /\ EndPass
  /\ UNCHANGED <<base, strategy, prewarm, prewarm_shutdown>>

(* calculate_lookahead_solana_slots for a handshake that takes ms *)
CalculateLookahead(ms) ==
  LET needed == (ms + solana_slot_duration_ms - 1) \div solana_slot_duration_ms
  IN IF needed < min_solana_slots THEN min_solana_slots
     ELSE IF needed > max_solana_slots THEN max_solana_slots
     ELSE needed

(* Variant of IsDue, for mutation: off by one. *)
IsDueLate(slot, start, lookahead) == slot > start - lookahead /\ slot < start

(* The time to connect has come, and the leader's window has not.  The     *)
(* slot is at least 1, so that saturating_sub makes no difference.         *)
IsDue(slot, start, lookahead) == slot >= start - lookahead /\ slot < start

(* prewarm_adaptive reads the address of an index, then its slots. *)
ReadLeader ==
  /\ call.pc = "leader" /\ call.i < Lookahead
  /\ call' = IF IsValid(call.i)
             THEN [call EXCEPT !.pc = "slots", !.addr = PrewarmAddr(GetLeader(call.i))]
             ELSE [call EXCEPT !.i = @ + 1]
  /\ UNCHANGED <<base, strategy, conn, warmed, prewarm, prewarm_shutdown>>

ConnectIfDue(ms) ==
  /\ call.pc = "slots"
  /\ IF IsDue(call.slot, StartSlot(call.i), CalculateLookahead(ms))
     THEN Connect("sender", {call.addr}, {"none"}) ELSE UNCHANGED conn
  /\ call' = [call EXCEPT !.pc = "leader", !.i = @ + 1]
  /\ UNCHANGED <<base, strategy, warmed, prewarm, prewarm_shutdown>>

EndAdaptive ==
  /\ call.pc = "leader" /\ call.i = Lookahead
  /\ EndPass
  /\ UNCHANGED <<base, strategy, conn, prewarm, prewarm_shutdown>>

-----------------------------------------------------------------------------
(* send_fanout; send is the same with one leader *)

BeginFanout(count) ==
  /\ call.pc = "idle" /\ strategy # "background"
  /\ LET primary == IF count < PRIMARY THEN count ELSE PRIMARY IN
       call' = [Idle EXCEPT !.pc = "fan", !.limit = primary, !.primary = primary]
  /\ UNCHANGED <<base, strategy, conn, warmed, prewarm, prewarm_shutdown>>

(* endpoint.send to each address of a leader: a dead connection refuses,   *)
(* a missing or failed one is connected to.                                *)
SendTo(S) ==
  LET dead == {a \in S : conn["sender"][a] = "dead"} IN
     /\ Connect("sender", S, {"none", "failed"})
     /\ call' = [call EXCEPT !.i = @ + 1, !.dead = @ + Cardinality(dead),
                             !.alive = @ + Cardinality(S \ dead)]

SendToLeader ==
  /\ call.pc = "fan" /\ call.i < call.limit /\ IsValid(call.i)
  /\ SendTo(AddrsOf(GetLeader(call.i)))
  /\ UNCHANGED <<base, strategy, warmed, prewarm, prewarm_shutdown>>

(* Variant of AllDead, for mutation: some connection is dead. *)
SomeDead == call.dead >= 1 /\ call.primary = PRIMARY

AllDead == call.dead >= call.primary /\ call.primary = PRIMARY

(* The loop is at its end, or stops at an index that is not valid. *)
EndLoop ==
  /\ call.pc = "fan" /\ (call.i = call.limit \/ ~IsValid(call.i))
  /\ call' = IF AllDead /\ call.limit = call.primary
             THEN [call EXCEPT !.i = PRIMARY, !.limit = PRIMARY + BACKUP]
             ELSE Idle
  /\ UNCHANGED <<base, strategy, conn, warmed, prewarm, prewarm_shutdown>>

(* shutdown, also when the sender is dropped: the flag, then join *)
Shutdown ==
  /\ call.pc = "idle" /\ strategy = "background"
  /\ prewarm_shutdown' = TRUE
  /\ call' = [Idle EXCEPT !.pc = "join"]
  /\ UNCHANGED <<base, strategy, conn, warmed, prewarm>>

Join ==
  /\ call.pc = "join" /\ ppc = "stopped"
  /\ call' = [Idle EXCEPT !.pc = "down"]
  /\ UNCHANGED <<base, strategy, conn, warmed, prewarm, prewarm_shutdown>>

-----------------------------------------------------------------------------
(* The prewarm thread *)

PrewarmLoop ==
  /\ ppc = "loop"
  /\ ppc' = IF prewarm_shutdown THEN "stopped" ELSE "poll"
  /\ UNCHANGED <<base, strategy, conn, call, warmed, pi, paddr, connected, connected_addrs,
                 prewarm_shutdown>>

BeginRefresh ==
  /\ ppc = "poll" /\ ppc' = "refresh" /\ pi' = 0
  /\ UNCHANGED <<base, strategy, conn, call, warmed, paddr, connected, connected_addrs,
                 prewarm_shutdown>>

EndRefresh ==
  /\ ppc = "refresh" /\ pi = Lookahead /\ ppc' = "loop"
  /\ UNCHANGED <<base, strategy, conn, call, warmed, pi, paddr, connected, connected_addrs,
                 prewarm_shutdown>>

(* Variant of Rotated, for mutation: a change is not noticed. *)
NeverRotated(addr) == FALSE

(* The leader at the index in hand has changed. *)
Rotated(addr) == connected_addrs[pi] \notin {None, addr}

(* One index of refresh_connections, up to the blocking connect. *)
SkipLeader ==
  /\ ppc = "refresh" /\ pi < Lookahead
  /\ IsValid(pi) => connected[pi] /\ ~Rotated(PrewarmAddr(GetLeader(pi)))
  /\ pi' = pi + 1
  /\ UNCHANGED <<base, strategy, conn, call, warmed, ppc, paddr, connected, connected_addrs,
                 prewarm_shutdown>>

BeginConnect ==
  /\ ppc = "refresh" /\ pi < Lookahead /\ IsValid(pi)
  /\ LET addr == PrewarmAddr(GetLeader(pi)) IN
       /\ ~connected[pi] \/ Rotated(addr)
       /\ paddr' = addr
       /\ connected' = [connected EXCEPT ![pi] = FALSE]
       /\ connected_addrs' = [connected_addrs EXCEPT ![pi] = IF Rotated(addr) THEN None ELSE @]
       /\ Connect("prewarm", {addr}, {"none", "failed", "dead", "connecting"})
  /\ ppc' = "connect"
  /\ UNCHANGED <<base, strategy, call, warmed, pi, prewarm_shutdown>>

(* The handshake completes, or the connection was there. *)
ConnectOk ==
  /\ ppc = "connect" /\ conn["prewarm"][paddr] \in {"connecting", "ready"}
  /\ conn' = [conn EXCEPT !["prewarm"][paddr] = "ready"]
  /\ connected' = [connected EXCEPT ![pi] = TRUE]
  /\ connected_addrs' = [connected_addrs EXCEPT ![pi] = paddr]
  /\ ppc' = "refresh" /\ pi' = pi + 1 /\ paddr' = None
  /\ UNCHANGED <<base, strategy, call, warmed, prewarm_shutdown>>

(* The peer closes, or the handshake takes more than 3 s: mark_failed. *)
ConnectFails ==
  /\ ppc = "connect" /\ conn["prewarm"][paddr] # "ready"
  /\ \E st \in {"failed", "dead"} : conn' = [conn EXCEPT !["prewarm"][paddr] = st]
  /\ ppc' = "refresh" /\ pi' = pi + 1 /\ paddr' = None
  /\ UNCHANGED <<base, strategy, call, warmed, connected, connected_addrs, prewarm_shutdown>>

-----------------------------------------------------------------------------
SenderNext ==
  \/ BeginPoll \/ BeginPrewarm \/ EndPoll \/ CollectAddrs \/ Prewarm
  \/ ReadLeader \/ (\E ms \in HandshakeTimes : ConnectIfDue(ms)) \/ EndAdaptive
  \/ (\E count \in Fanouts : BeginFanout(count)) \/ SendToLeader \/ EndLoop
  \/ Shutdown \/ Join

PrewarmNext ==
  \/ PrewarmLoop \/ BeginRefresh \/ EndRefresh \/ SkipLeader
  \/ BeginConnect \/ ConnectOk \/ ConnectFails

Next ==
  \/ Shift \/ SenderNext \/ PrewarmNext
  \/ \E e \in {"sender", "prewarm"}, a \in Addrs : Progress(e, a)

Spec == Init /\ [][Next]_vars

(* The prewarm thread runs and its blocking connects return.  The leaders  *)
(* answer now and then: a handshake that is begun again and again succeeds *)
(* at last.                                                                *)
FairSpec == Spec /\ WF_vars(PrewarmNext) /\ WF_vars(Join) /\ SF_vars(ConnectOk)

-----------------------------------------------------------------------------
(* When a window follows the one before, and a pass of inline prewarming   *)
(* has run within that one, the new leader does not come up untried: a     *)
(* connect to it was begun before its first slot, whatever handshake the   *)
(* pass counts with and although the buffer may be shifted between its     *)
(* reads of address and slots; "connects N solana slots early, where       *)
(* N = ceil(handshake_ms / 400ms)" (quic/src/sender.rs:462, 467-537).  The *)
(* connection may be ready, on its way, or have failed since.  It takes a  *)
(* lookahead of at least 4 slots, as the current slot is only known to the *)
(* window; the default minimum is 4 (quic/src/strategy.rs:94).             *)
NextLeaderIsTried ==
  [][warmed /\ base > 0 /\ base' = base + 1 =>
       conn["sender"][PrewarmAddr(Schedule[base'])] # "none"]_vars

(* prewarm is to be called "in your hot loop to maintain warm connections" *)
(* (quic/src/sender.rs:434): a pass leaves no failed connection to a       *)
(* leader that it looked at.  Connections that the peer has refused for    *)
(* good are dead and not asked for.                                        *)
PassMaintains ==
  [][call.pc = "collect" /\ call'.pc = "idle" =>
       \A a \in call.todo : conn'["sender"][a] # "failed"]_vars

(* The prewarm thread notices every rotation: while a window lasts it      *)
(* connects to the leader at every index, whatever failed before and       *)
(* whatever rotated while a connect was blocking                           *)
(* (quic/src/prewarm.rs:99-152).                                           *)
PrewarmFollowsRotation ==
  \A w \in 1..MaxWindow, i \in Indices :
    (strategy = "background" /\ base = w /\ i < Size)
      ~> \/ base # w \/ prewarm_shutdown
         \/ connected[i] /\ connected_addrs[i] = PrewarmAddr(Schedule[w + i])

(* shutdown returns: the thread sees the flag after at most one round of   *)
(* connects (quic/src/sender.rs:728-738, quic/src/prewarm.rs:73-78).       *)
ShutdownJoins == (call.pc = "join") ~> (call.pc = "down")

(* The backup leaders are tried only when every address tried before was   *)
(* dead; "all primary connections dead -> try backup leaders"              *)
(* (quic/src/sender.rs:257-259).  With Port = "Both" it is wrong, since    *)
(* dead addresses are counted against leaders.                             *)
FallbackOnlyWhenAllDead ==
  call.pc = "fan" /\ call.limit > PRIMARY /\ call.i = PRIMARY => call.alive = 0
=============================================================================

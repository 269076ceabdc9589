---------------------------- MODULE FlowControl ----------------------------
(***************************************************************************)
(* Backpressure over the connections (legs) of one tunnel: sendData and     *)
(* waitDrain of the group, the drain polls, and the flow window with its   *)
(* acknowledgements.  The sending side is a client (client/src/            *)
(* connection.ts, tunnel-group.ts), a gateway (server/src/session.ts) or a *)
(* gateway that serves a client without multiConn ("legacy").              *)
(*                                                                         *)
(* Bytes are counted in frames of one size.  A frame that has been sent is *)
(* in the leg's buffer (bufferedAmount), then on the wire, then received   *)
(* and not yet acknowledged, then in an acknowledgement on its way back.   *)
(***************************************************************************)
EXTENDS Naturals

CONSTANTS
  NumLegs,    \* connections of the group; leg 1 is the primary
  Producers,  \* channels: a response or request body, or one end of a WebSocket
  High, Low,  \* HIGH_WATER_BYTES, LOW_WATER_BYTES
  AckEvery,   \* ACK_EVERY_BYTES
  Windows,    \* what currentFlowWindow may return; the least one without a sample
  MaxWire,    \* what the network holds of one connection
  MaxBuf, MaxFlight, \* bounds: what a full leg is still given
  MaxLosses   \* bound: losses of the group

ASSUME FlowAssumption ==
  /\ NumLegs \in Nat \ {0}
  /\ High \in Nat /\ Low \in Nat /\ Low < High
  /\ AckEvery \in Nat \ {0} /\ Windows \subseteq Nat \ {0} /\ Windows # {}
  /\ MaxWire \in Nat \ {0} /\ MaxBuf \in Nat /\ MaxFlight \in Nat /\ MaxLosses \in Nat

VARIABLES
  side,    \* who sends, and whether the receiver acknowledges
  leg,     \* the connections
  prod,    \* the channels' sources
  losses

vars == <<side, leg, prod, losses>>

Legs == 1..NumLegs
MinWindow == CHOOSE w \in Windows : \A v \in Windows : w <= v

(* leg.flight is dataBytesSent - dataBytesAcked, leg.fresh what the receiver *)
(* has not acknowledged, leg.flush its timer and leg.acks what the            *)
(* acknowledgements under way are about (the last one counts, and all of     *)
(* them are taken to arrive together: the earlier ones look to the sender    *)
(* like a slower network).                                                   *)
NewLeg ==
  [up |-> FALSE, buf |-> 0, wire |-> 0, fresh |-> 0, acks |-> 0, flush |-> FALSE,
   flight |-> 0, active |-> FALSE, window |-> MinWindow,
   poll |-> FALSE, waiters |-> {}]

(* Only a client's data is acknowledged, by a gateway that knows how to.     *)
Init ==
  /\ side \in {[who |-> "client", acked |-> TRUE], [who |-> "client", acked |-> FALSE],
               [who |-> "server", acked |-> FALSE], [who |-> "legacy", acked |-> FALSE]}
  /\ leg = [l \in Legs |-> [NewLeg EXCEPT !.up = (l = 1)]]
  /\ prod = [p \in Producers |-> "idle"]
  /\ losses = 0

Ready == {l \in Legs : leg[l].up}

-----------------------------------------------------------------------------
(* Sending. *)

Left(limit, used) == IF used < limit THEN limit - used ELSE 0

(* availableCapacity *)
Capacity(k) ==
  LET local  == Left(High, k.buf)
      window == Left(k.window, k.flight)
  IN  IF k.active /\ window < local THEN window ELSE local

(* The first leg with the most capacity. *)
Picked ==
  CHOOSE l \in Ready : \A m \in Ready :
    \/ Capacity(leg[m]) < Capacity(leg[l])
    \/ Capacity(leg[m]) = Capacity(leg[l]) /\ l <= m

Exceeds(k) == k.buf > High \/ (k.active /\ k.flight > k.window)

(* Connection.sendData and TunnelLeg.sendData *)
Sent(k) ==
  LET s == [k EXCEPT !.buf = @ + 1, !.flight = IF side.acked THEN @ + 1 ELSE 0]
  IN  [s EXCEPT !.poll = @ \/ Exceeds(s)]

(* What the group's sendData returns: a client asks before the frame, a      *)
(* gateway after it, a legacy gateway the leg itself.                        *)
MayGoOn(l) ==
  CASE side.who = "client" -> Capacity(leg[l]) > 0
    [] side.who = "server" -> Capacity(Sent(leg[l])) > 0
    [] side.who = "legacy" -> ~Exceeds(Sent(leg[l]))

(* Mutant: waitDrain trusts sendData to have started the poll. *)
WaitsUnpolled(k, p) == IF k.up THEN [k EXCEPT !.waiters = @ \cup {p}] ELSE k
(* waitDrain of a leg *)
Waits(k, p) ==
  IF k.up THEN [k EXCEPT !.waiters = @ \cup {p}, !.poll = TRUE] ELSE k

Produce(p) ==
  /\ prod[p] = "reading" /\ Ready # {}
  /\ LET l == Picked IN
     /\ leg[l].buf < MaxBuf /\ leg[l].flight < MaxFlight
     /\ LET given == [leg EXCEPT ![l] = Sent(@)] IN
        \/ MayGoOn(l) /\ leg' = given /\ UNCHANGED prod
        \/ /\ ~MayGoOn(l)
           /\ prod' = [prod EXCEPT ![p] = "paused"]
           /\ leg' = [k \in Legs |-> Waits(given[k], p)]
  /\ UNCHANGED <<side, losses>>

Start(p) ==
  /\ prod[p] = "idle" /\ Ready # {}
  /\ prod' = [prod EXCEPT ![p] = "reading"]
  /\ UNCHANGED <<side, leg, losses>>

(* The source ends, or its channel is cancelled. *)
Finish(p) ==
  /\ prod[p] \in {"reading", "paused"}
  /\ prod' = [prod EXCEPT ![p] = "finished"]
  /\ UNCHANGED <<side, leg, losses>>

(* A tick of the drain poll wakes every waiter; one whose channel is over    *)
(* hears nothing, one that another leg has woken goes on as it is.           *)
Poll(l) ==
  LET k == leg[l] IN
  /\ k.poll
  /\ (IF k.up THEN k.buf ELSE 0) <= Low
  /\ k.active => 4 * k.flight <= k.window
  /\ prod' = [p \in Producers |->
               IF p \in k.waiters /\ prod[p] = "paused" THEN "reading" ELSE prod[p]]
  /\ leg' = [leg EXCEPT ![l].poll = FALSE, ![l].waiters = {}]
  /\ UNCHANGED <<side, losses>>

-----------------------------------------------------------------------------
(* The network and the receiver. *)

Written(l) ==
  /\ leg[l].up /\ leg[l].buf > 0 /\ leg[l].wire < MaxWire
  /\ leg' = [leg EXCEPT ![l].buf = @ - 1, ![l].wire = @ + 1]
  /\ UNCHANGED <<side, prod, losses>>

(* flushAck *)
Flushed(k) == [k EXCEPT !.acks = @ + k.fresh, !.fresh = 0, !.flush = FALSE]

(* Mutant: what is less than a beat waits for the next frame. *)
NotedUntimed(k) ==
  LET n == [k EXCEPT !.fresh = @ + 1] IN IF n.fresh >= AckEvery THEN Flushed(n) ELSE n
(* noteDataReceived *)
Noted(k) ==
  LET n == [k EXCEPT !.fresh = @ + 1] IN
  IF n.fresh >= AckEvery THEN Flushed(n) ELSE [n EXCEPT !.flush = TRUE]

Receive(l) ==
  /\ leg[l].up /\ leg[l].wire > 0
  /\ LET r == [leg[l] EXCEPT !.wire = @ - 1] IN
     leg' = [leg EXCEPT ![l] = IF side.acked THEN Noted(r) ELSE r]
  /\ UNCHANGED <<side, prod, losses>>

FlushTimer(l) ==
  /\ leg[l].flush
  /\ leg' = [leg EXCEPT ![l] = Flushed(@)]
  /\ UNCHANGED <<side, prod, losses>>

(* tunnel.ack: the first one activates the window, the later ones measure.   *)
AckArrives(l) ==
  LET k == leg[l] IN
  /\ k.up /\ k.acks > 0
  /\ \E w \in IF k.active THEN Windows ELSE {MinWindow} :
       leg' = [leg EXCEPT ![l] = [k EXCEPT !.flight = @ - k.acks, !.acks = 0,
                                          !.active = TRUE, !.window = w]]
  /\ UNCHANGED <<side, prod, losses>>

-----------------------------------------------------------------------------
(* Loss and reconnection of the group. *)

(* Mutant: a closed leg keeps its poll. *)
ClosedPolling(k) == [NewLeg EXCEPT !.poll = k.poll]
(* TunnelLeg.close: the waiters are woken, the timers cleared. *)
Closed(k) == NewLeg

(* A client's primary keeps its poll, its waiters and its counters.          *)
Down(k) == [k EXCEPT !.up = FALSE, !.buf = 0, !.wire = 0, !.fresh = 0, !.acks = 0,
                     !.flush = FALSE]

(* One leg is lost: all are, and every channel is aborted.                   *)
Lose ==
  /\ Ready # {} /\ losses < MaxLosses
  /\ losses' = losses + 1
  /\ prod' = [p \in Producers |-> IF prod[p] = "idle" THEN "idle" ELSE "finished"]
  /\ leg' = [l \in Legs |-> IF side.who = "client" /\ l = 1 THEN Down(leg[l])
                            ELSE Closed(leg[l])]
  /\ UNCHANGED side

(* Mutant: the counters of the old connection stay. *)
RedialedCounting(k) == [k EXCEPT !.up = TRUE]
(* attempt *)
Redialed(k) == [NewLeg EXCEPT !.up = TRUE, !.poll = k.poll, !.waiters = k.waiters]

Redial ==
  /\ Ready = {}
  /\ leg' = [leg EXCEPT ![1] = Redialed(@)]
  /\ UNCHANGED <<side, prod, losses>>

Attach(l) ==
  /\ side.who # "legacy" /\ Ready # {} /\ l \notin Ready
  /\ leg' = [leg EXCEPT ![l] = [NewLeg EXCEPT !.up = TRUE]]
  /\ UNCHANGED <<side, prod, losses>>

(* What a connection has under way moves on. *)
Moves(l) == Written(l) \/ Receive(l) \/ FlushTimer(l) \/ AckArrives(l)
Sends == \E p \in Producers : Produce(p)

Next ==
  \/ Sends
  \/ \E p \in Producers : Start(p) \/ Finish(p)
  \/ \E l \in Legs : Poll(l) \/ Moves(l) \/ Attach(l)
  \/ Lose \/ Redial

(* The intervals and the flush timer fire; a connection that is up makes     *)
(* progress (one that does not is ended by the heartbeat, module            *)
(* TunnelGroup).  Nothing is assumed of the producers.                      *)
Spec ==
  Init /\ [][Next]_vars
    /\ \A l \in Legs : WF_vars(Poll(l)) /\ WF_vars(Moves(l))

-----------------------------------------------------------------------------
(* The types; and the window counts, on the connection that is up, exactly   *)
(* what the receiver has not acknowledged.                                   *)
TypeOK ==
  /\ prod \in [Producers -> {"idle", "reading", "paused", "finished"}]
  /\ \A l \in Legs :
       LET k == leg[l] IN
       /\ k.buf \in Nat /\ k.wire \in 0..MaxWire /\ k.fresh \in 0..AckEvery - 1
       /\ k.window \in Windows
       /\ k.up /\ side.acked => k.flight = k.buf + k.wire + k.fresh + k.acks
       /\ k.active => side.acked

(* A paused source is one of the waiters of a leg that is up, and a leg's    *)
(* waiters have a poll that will wake them.                                  *)
NoLostWaiter ==
  /\ \A p \in Producers : prod[p] = "paused" => \E l \in Ready : p \in leg[l].waiters
  /\ \A l \in Legs : leg[l].waiters # {} => leg[l].poll

(* Nothing of a gateway's leg outlives it: no poll, no waiter, no timer.     *)
TeardownQuiet ==
  side.who # "client" =>
    \A l \in Legs \ Ready : ~leg[l].poll /\ leg[l].waiters = {} /\ ~leg[l].flush

(* Together: the counters are exact, every waiter is somebody's, and what is *)
(* torn down is quiet.                                                       *)
WaitersInv == TypeOK /\ NoLostWaiter /\ TeardownQuiet

(* Nobody waits for ever on a window that nothing fills: unless some source  *)
(* goes on sending, each paused one is resumed (or ends), down to the last   *)
(* frame, which is less than an acknowledgement's beat and more than a       *)
(* quarter of the window.                                                    *)
NoStall == []<><<Sends>>_vars \/ \A p \in Producers : []<>(prod[p] # "paused")
=============================================================================

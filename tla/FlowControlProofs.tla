------------------------- MODULE FlowControlProofs -------------------------
(***************************************************************************)
(* Proofs about FlowControl, for any number of legs and producers, any     *)
(* watermarks, windows and beat of the acknowledgements: the accounting of *)
(* the window, and that a waiter is never without a poll that wakes it.    *)
(*                                                                         *)
(* The invariant is about one leg (LegGood) but for the last part, which   *)
(* ties a paused producer to a leg that is up (PausedWait).                *)
(***************************************************************************)
EXTENDS FlowControl, WellFoundedInduction, TLAPS

Sides == {[who |-> "client", acked |-> TRUE], [who |-> "client", acked |-> FALSE],
          [who |-> "server", acked |-> FALSE], [who |-> "legacy", acked |-> FALSE]}

LegType ==
  [up : BOOLEAN, buf : Nat, wire : Nat, fresh : Nat, acks : Nat, flush : BOOLEAN,
   flight : Nat, active : BOOLEAN, window : Nat, poll : BOOLEAN, waiters : SUBSET Producers]

\* Where nothing is acknowledged there is nothing to acknowledge; a gateway's leg that
\* is down is as it was made.
LegGood(k) ==
  /\ k \in LegType
  /\ k.wire <= MaxWire /\ k.fresh < AckEvery /\ k.window \in Windows
  /\ k.up /\ side.acked => k.flight = k.buf + k.wire + k.fresh + k.acks
  /\ ~side.acked => ~k.active /\ k.fresh = 0 /\ k.acks = 0
  /\ k.waiters # {} => k.poll
  /\ side.who # "client" /\ ~k.up => ~k.poll /\ k.waiters = {} /\ ~k.flush

PausedWait ==
  \A p \in Producers : prod[p] = "paused" => \E l \in Legs : leg[l].up /\ p \in leg[l].waiters

IInv ==
  /\ side \in Sides
  /\ leg \in [Legs -> LegType] /\ \A l \in Legs : LegGood(leg[l])
  /\ prod \in [Producers -> {"idle", "reading", "paused", "finished"}]
  /\ PausedWait

-----------------------------------------------------------------------------
\* CHOOSE finds what it looks for.

\* A set of naturals that is not empty has a least one.
LEMMA LeastNat ==
  ASSUME NEW T, T \subseteq Nat, T # {}
  PROVE  \E x \in T : \A y \in T : x <= y
<1>1. PICK x \in T : \A y \in T : <<y, x>> \notin OpToRel(<, Nat)
  BY NatLessThanWellFounded, WFMin
<1>2. ASSUME NEW y \in T
      PROVE  x <= y
  <2>1. x \in Nat /\ y \in Nat /\ ~(y < x)
    BY <1>1 DEF OpToRel
  <2> QED
    BY <2>1
<1> QED
  BY <1>2

\* The window without a sample is one of the windows.
LEMMA MinWindowIsWindow == MinWindow \in Windows
<1>1. \E w \in Windows : \A v \in Windows : w <= v
  BY LeastNat, FlowAssumption
<1> QED
  BY <1>1 DEF MinWindow

\* A capacity is never more than the high watermark.
LEMMA CapacityBound ==
  ASSUME NEW k \in LegType
  PROVE  Capacity(k) \in 0..High
BY FlowAssumption DEF Capacity, Left, LegType

\* The group sends on a leg that is up.
LEMMA PickedReady ==
  ASSUME leg \in [Legs -> LegType], Ready # {}
  PROVE  Picked \in Ready
<1> DEFINE c(l) == Capacity(leg[l])
           Wants == {High - c(l) : l \in Ready}
<1>1. \A l \in Ready : l \in Nat /\ c(l) \in 0..High
  BY CapacityBound, FlowAssumption DEF Ready, Legs
<1> HIDE DEF c
<1>2. Wants \subseteq Nat /\ Wants # {}
  BY <1>1, FlowAssumption
<1>3. PICK x \in Wants : \A y \in Wants : x <= y
  BY <1>2, LeastNat
<1>4. PICK b \in Ready : x = High - c(b)
  OBVIOUS
<1> DEFINE Best == {l \in Ready : c(l) = c(b)}
<1>5. PICK l \in Best : \A m \in Best : l <= m
  <2>1. Best \subseteq Nat /\ b \in Best
    BY <1>1
  <2> QED
    BY <2>1, LeastNat
<1>6. \A m \in Ready : c(m) <= c(b)
  <2>1. ASSUME NEW m \in Ready
        PROVE  c(m) <= c(b)
    <3>1. High - c(b) <= High - c(m)
      BY <1>3, <1>4
    <3> QED
      BY <1>1, <3>1, FlowAssumption
  <2> QED
    BY <2>1
<1>7. \A m \in Ready : c(m) < c(l) \/ (c(m) = c(l) /\ l <= m)
  BY <1>1, <1>5, <1>6, FlowAssumption
<1> QED
  BY <1>5, <1>7 DEF Picked, c

-----------------------------------------------------------------------------
\* What each operator makes of a good leg.

\* A leg as it is made.
LEMMA FreshLegGood ==
  ASSUME NEW up \in BOOLEAN, NEW k,
         k = [up |-> up, buf |-> 0, wire |-> 0, fresh |-> 0, acks |-> 0, flush |-> FALSE,
              flight |-> 0, active |-> FALSE, window |-> MinWindow, poll |-> FALSE,
              waiters |-> {}]
  PROVE  LegGood(k) /\ (k.up <=> up)
<1>1. MinWindow \in Windows /\ MinWindow \in Nat
  BY MinWindowIsWindow, FlowAssumption
<1>2. k \in LegType
  BY <1>1 DEF LegType
<1> QED
  BY <1>1, <1>2, FlowAssumption DEF LegGood

\* A frame is counted, and a full leg has its poll.
LEMMA SentGood ==
  ASSUME side \in Sides, NEW k, LegGood(k), k.up
  PROVE  LegGood(Sent(k)) /\ Sent(k).up /\ Sent(k).waiters = k.waiters
<1> DEFINE flight == IF side.acked THEN k.flight + 1 ELSE 0
<1>1. PICK s : s = [k EXCEPT !.buf = @ + 1, !.flight = flight]
  OBVIOUS
<1>2. /\ k \in LegType /\ flight \in Nat
      /\ side.acked => flight = k.flight + 1
  BY DEF LegGood, LegType
<1>3. s = [up |-> k.up, buf |-> k.buf + 1, wire |-> k.wire, fresh |-> k.fresh,
           acks |-> k.acks, flush |-> k.flush, flight |-> flight, active |-> k.active,
           window |-> k.window, poll |-> k.poll, waiters |-> k.waiters]
  <2> HIDE DEF flight
  <2> QED
    BY <1>1, <1>2 DEF LegType
<1>4. PICK poll \in BOOLEAN : poll = (s.poll \/ Exceeds(s))
  OBVIOUS
<1>5. PICK r : r = [s EXCEPT !.poll = poll]
  OBVIOUS
<1> HIDE DEF flight
<1>6. r = [up |-> k.up, buf |-> k.buf + 1, wire |-> k.wire, fresh |-> k.fresh,
           acks |-> k.acks, flush |-> k.flush, flight |-> flight, active |-> k.active,
           window |-> k.window, poll |-> poll, waiters |-> k.waiters]
  BY <1>3, <1>5
<1>7. Sent(k) = r
  BY <1>1, <1>4, <1>5, Zenon DEF Sent, flight
<1>8. k.poll => poll
  BY <1>3, <1>4
<1>9. LegGood(r) /\ r.up /\ r.waiters = k.waiters
  BY <1>2, <1>6, <1>8 DEF LegGood, LegType
<1> QED
  BY <1>7, <1>9

\* A waiter is noted with a poll on a leg that is up, and nowhere else.
LEMMA WaitsGood ==
  ASSUME NEW k, LegGood(k), NEW p \in Producers
  PROVE  /\ LegGood(Waits(k, p)) /\ Waits(k, p).up = k.up
         /\ k.waiters \subseteq Waits(k, p).waiters
         /\ k.up => p \in Waits(k, p).waiters
<1>1. CASE ~k.up
  BY <1>1 DEF Waits
<1>2. CASE k.up
  <2>1. PICK r : r = [k EXCEPT !.waiters = @ \cup {p}, !.poll = TRUE]
    OBVIOUS
  <2>2. r = [up |-> k.up, buf |-> k.buf, wire |-> k.wire, fresh |-> k.fresh,
             acks |-> k.acks, flush |-> k.flush, flight |-> k.flight, active |-> k.active,
             window |-> k.window, poll |-> TRUE, waiters |-> k.waiters \cup {p}]
    BY <2>1 DEF LegGood, LegType
  <2>3. Waits(k, p) = r
    BY <1>2, <2>1 DEF Waits
  <2> QED
    BY <1>2, <2>2, <2>3 DEF LegGood, LegType
<1> QED
  BY <1>1, <1>2

\* An acknowledgement takes over what it is about.
LEMMA FlushedGood ==
  ASSUME NEW k, LegGood(k)
  PROVE  LegGood(Flushed(k)) /\ Flushed(k).up = k.up /\ Flushed(k).waiters = k.waiters
<1>1. PICK a : a = [k EXCEPT !.acks = k.acks + k.fresh]
  OBVIOUS
<1>2. a = [up |-> k.up, buf |-> k.buf, wire |-> k.wire, fresh |-> k.fresh,
           acks |-> k.acks + k.fresh, flush |-> k.flush, flight |-> k.flight,
           active |-> k.active, window |-> k.window, poll |-> k.poll, waiters |-> k.waiters]
  BY <1>1 DEF LegGood, LegType
<1>3. Flushed(k) = [a EXCEPT !.fresh = 0, !.flush = FALSE]
  BY <1>1, Zenon DEF Flushed
<1>4. Flushed(k) =
        [up |-> k.up, buf |-> k.buf, wire |-> k.wire, fresh |-> 0,
         acks |-> k.acks + k.fresh, flush |-> FALSE, flight |-> k.flight, active |-> k.active,
         window |-> k.window, poll |-> k.poll, waiters |-> k.waiters]
  BY <1>2, <1>3
<1> QED
  BY <1>4, FlowAssumption DEF LegGood, LegType

\* The numbers of a good leg that is up.
LEMMA CountsOf ==
  ASSUME NEW k, LegGood(k), k.up
  PROVE  /\ k.buf \in Nat /\ k.wire \in Nat /\ k.fresh \in Nat /\ k.acks \in Nat
         /\ k.flight \in Nat /\ k.flush \in BOOLEAN /\ k.active \in BOOLEAN
         /\ k.window \in Windows /\ k.wire <= MaxWire /\ k.fresh < AckEvery
         /\ side.acked => k.flight = k.buf + k.wire + k.fresh + k.acks
         /\ ~side.acked => ~k.active /\ k.fresh = 0 /\ k.acks = 0
BY DEF LegGood, LegType

\* A leg that is up whose counters still add up.
LEMMA CountsGood ==
  ASSUME NEW k, LegGood(k), k.up, NEW r \in LegType,
         r.up, r.poll = k.poll, r.waiters = k.waiters,
         r.wire <= MaxWire, r.fresh < AckEvery, r.window \in Windows,
         side.acked => r.flight = r.buf + r.wire + r.fresh + r.acks,
         ~side.acked => ~r.active /\ r.fresh = 0 /\ r.acks = 0
  PROVE  LegGood(r) /\ r.up /\ r.waiters = k.waiters
BY DEF LegGood

\* One frame comes off the wire; the beat of the acknowledgements is never exceeded.
LEMMA ReceivedGood ==
  ASSUME NEW k, LegGood(k), k.up, k.wire > 0
  PROVE  LET r == [k EXCEPT !.wire = @ - 1]
             n == IF side.acked THEN Noted(r) ELSE r
         IN  LegGood(n) /\ n.up /\ n.waiters = k.waiters
<1>a. PICK r : r = [k EXCEPT !.wire = @ - 1]
  OBVIOUS
<1>b. PICK n : n = IF side.acked THEN Noted(r) ELSE r
  OBVIOUS
<1> SUFFICES LegGood(n) /\ n.up /\ n.waiters = k.waiters
  BY <1>a, <1>b, Zenon
<1>1. r = [up |-> k.up, buf |-> k.buf, wire |-> k.wire - 1, fresh |-> k.fresh,
           acks |-> k.acks, flush |-> k.flush, flight |-> k.flight, active |-> k.active,
           window |-> k.window, poll |-> k.poll, waiters |-> k.waiters]
  BY <1>a DEF LegGood, LegType
<1>2. /\ k.wire - 1 \in Nat /\ k.wire - 1 <= MaxWire
      /\ k.fresh + 1 \in Nat /\ k.acks + (k.fresh + 1) \in Nat /\ 0 < AckEvery
  BY CountsOf, FlowAssumption
<1>3. CASE ~side.acked
  <2>1. n = r
    BY <1>b, <1>3
  <2>2. n \in LegType
    BY <1>1, <1>2, <2>1 DEF LegGood, LegType
  <2>3. /\ n.up /\ n.poll = k.poll /\ n.waiters = k.waiters /\ n.wire = k.wire - 1
        /\ n.fresh = k.fresh /\ n.window = k.window /\ n.active = k.active
        /\ n.acks = k.acks
    BY <1>1, <2>1
  <2>4. /\ n.wire <= MaxWire /\ n.fresh < AckEvery /\ n.window \in Windows
        /\ ~n.active /\ n.fresh = 0 /\ n.acks = 0
    BY <1>2, <1>3, <2>3, CountsOf
  <2> QED
    BY <1>3, <2>2, <2>3, <2>4, CountsGood
<1>4. CASE side.acked
  <2>1. PICK m : m = [r EXCEPT !.fresh = @ + 1]
    OBVIOUS
  <2>2. m = [up |-> k.up, buf |-> k.buf, wire |-> k.wire - 1, fresh |-> k.fresh + 1,
             acks |-> k.acks, flush |-> k.flush, flight |-> k.flight, active |-> k.active,
             window |-> k.window, poll |-> k.poll, waiters |-> k.waiters]
    BY <1>1, <2>1
  <2>3. n = IF m.fresh >= AckEvery THEN Flushed(m) ELSE [m EXCEPT !.flush = TRUE]
    <3>1. Noted(r) = IF m.fresh >= AckEvery THEN Flushed(m) ELSE [m EXCEPT !.flush = TRUE]
      BY <2>1, Zenon DEF Noted
    <3> QED
      BY <1>b, <1>4, <3>1
  <2>4. CASE m.fresh >= AckEvery
    <3>1. PICK a : a = [m EXCEPT !.acks = m.acks + m.fresh]
      OBVIOUS
    <3>2. a = [up |-> k.up, buf |-> k.buf, wire |-> k.wire - 1, fresh |-> k.fresh + 1,
               acks |-> k.acks + (k.fresh + 1), flush |-> k.flush, flight |-> k.flight,
               active |-> k.active, window |-> k.window, poll |-> k.poll,
               waiters |-> k.waiters]
      BY <2>2, <3>1
    <3>3. n = [a EXCEPT !.fresh = 0, !.flush = FALSE]
      <4>1. Flushed(m) = [a EXCEPT !.fresh = 0, !.flush = FALSE]
        BY <3>1, Zenon DEF Flushed
      <4> QED
        BY <2>3, <2>4, <4>1
    <3>4. n = [up |-> k.up, buf |-> k.buf, wire |-> k.wire - 1, fresh |-> 0,
               acks |-> k.acks + (k.fresh + 1), flush |-> FALSE, flight |-> k.flight,
               active |-> k.active, window |-> k.window, poll |-> k.poll,
               waiters |-> k.waiters]
      BY <3>2, <3>3
    <3>5. n \in LegType
      BY <1>2, <3>4 DEF LegGood, LegType
    <3>6. /\ n.up /\ n.poll = k.poll /\ n.waiters = k.waiters /\ n.buf = k.buf
          /\ n.wire = k.wire - 1 /\ n.fresh = 0 /\ n.window = k.window
          /\ n.flight = k.flight /\ n.acks = k.acks + (k.fresh + 1)
      BY <3>4
    <3>7. /\ n.wire <= MaxWire /\ n.fresh < AckEvery /\ n.window \in Windows
          /\ n.flight = n.buf + n.wire + n.fresh + n.acks
      BY <1>2, <1>4, <3>6, CountsOf
    <3> QED
      BY <1>4, <3>5, <3>6, <3>7, CountsGood
  <2>5. CASE ~(m.fresh >= AckEvery)
    <3>1. n = [up |-> k.up, buf |-> k.buf, wire |-> k.wire - 1, fresh |-> k.fresh + 1,
               acks |-> k.acks, flush |-> TRUE, flight |-> k.flight, active |-> k.active,
               window |-> k.window, poll |-> k.poll, waiters |-> k.waiters]
      BY <2>2, <2>3, <2>5
    <3>2. n \in LegType
      BY <1>2, <3>1 DEF LegGood, LegType
    <3>3. /\ n.up /\ n.poll = k.poll /\ n.waiters = k.waiters /\ n.buf = k.buf
          /\ n.wire = k.wire - 1 /\ n.fresh = k.fresh + 1 /\ n.window = k.window
          /\ n.flight = k.flight /\ n.acks = k.acks /\ m.fresh = k.fresh + 1
      BY <2>2, <3>1
    <3>4. /\ n.wire <= MaxWire /\ n.fresh < AckEvery /\ n.window \in Windows
          /\ n.flight = n.buf + n.wire + n.fresh + n.acks
      BY <1>2, <1>4, <2>5, <3>3, CountsOf, FlowAssumption
    <3> QED
      BY <1>4, <3>2, <3>3, <3>4, CountsGood
  <2> QED
    BY <2>4, <2>5
<1> QED
  BY <1>3, <1>4

\* A frame goes from the buffer to the wire.
LEMMA WrittenGood ==
  ASSUME NEW k, LegGood(k), k.up, k.buf > 0, k.wire < MaxWire
  PROVE  LET r == [k EXCEPT !.buf = @ - 1, !.wire = @ + 1]
         IN  LegGood(r) /\ r.up /\ r.waiters = k.waiters
<1>a. PICK r : r = [k EXCEPT !.buf = @ - 1, !.wire = @ + 1]
  OBVIOUS
<1>1. r = [up |-> k.up, buf |-> k.buf - 1, wire |-> k.wire + 1, fresh |-> k.fresh,
           acks |-> k.acks, flush |-> k.flush, flight |-> k.flight, active |-> k.active,
           window |-> k.window, poll |-> k.poll, waiters |-> k.waiters]
  BY <1>a DEF LegGood, LegType
<1>2. k.buf - 1 \in Nat /\ k.wire + 1 \in Nat /\ k.wire + 1 <= MaxWire
  BY CountsOf, FlowAssumption
<1>3. r \in LegType
  BY <1>1, <1>2 DEF LegGood, LegType
<1>4. /\ r.up /\ r.poll = k.poll /\ r.waiters = k.waiters /\ r.buf = k.buf - 1
      /\ r.wire = k.wire + 1 /\ r.fresh = k.fresh /\ r.window = k.window
      /\ r.flight = k.flight /\ r.acks = k.acks /\ r.active = k.active
  BY <1>1
<1>5. /\ r.wire <= MaxWire /\ r.fresh < AckEvery /\ r.window \in Windows
      /\ side.acked => r.flight = r.buf + r.wire + r.fresh + r.acks
      /\ ~side.acked => ~r.active /\ r.fresh = 0 /\ r.acks = 0
  BY <1>2, <1>4, CountsOf
<1>6. LegGood(r) /\ r.up /\ r.waiters = k.waiters
  BY <1>3, <1>4, <1>5, CountsGood
<1> QED
  BY <1>a, <1>6, Zenon

\* The window shrinks by what the acknowledgement is about.
LEMMA AckedGood ==
  ASSUME NEW k, LegGood(k), k.up, k.acks > 0, NEW w \in Windows
  PROVE  LET r == [k EXCEPT !.flight = @ - k.acks, !.acks = 0, !.active = TRUE, !.window = w]
         IN  LegGood(r) /\ r.up /\ r.waiters = k.waiters
<1>a. PICK r : r = [k EXCEPT !.flight = @ - k.acks, !.acks = 0, !.active = TRUE, !.window = w]
  OBVIOUS
<1>1. side.acked
  BY DEF LegGood, LegType
<1>2. PICK a : a = [k EXCEPT !.flight = @ - k.acks, !.acks = 0]
  OBVIOUS
<1>3. a = [up |-> k.up, buf |-> k.buf, wire |-> k.wire, fresh |-> k.fresh,
           acks |-> 0, flush |-> k.flush, flight |-> k.flight - k.acks, active |-> k.active,
           window |-> k.window, poll |-> k.poll, waiters |-> k.waiters]
  BY <1>2 DEF LegGood, LegType
<1>4. r = [a EXCEPT !.active = TRUE, !.window = w]
  BY <1>a, <1>2, Zenon
<1>5. r = [up |-> k.up, buf |-> k.buf, wire |-> k.wire, fresh |-> k.fresh,
           acks |-> 0, flush |-> k.flush, flight |-> k.flight - k.acks, active |-> TRUE,
           window |-> w, poll |-> k.poll, waiters |-> k.waiters]
  BY <1>3, <1>4
<1>6. /\ k.flight - k.acks \in Nat /\ w \in Nat
      /\ k.flight - k.acks = k.buf + k.wire + k.fresh + 0
  BY <1>1, CountsOf, FlowAssumption
<1>7. r \in LegType
  BY <1>5, <1>6 DEF LegGood, LegType
<1>8. /\ r.up /\ r.poll = k.poll /\ r.waiters = k.waiters /\ r.buf = k.buf
      /\ r.wire = k.wire /\ r.fresh = k.fresh /\ r.window = w
      /\ r.flight = k.flight - k.acks /\ r.acks = 0
  BY <1>5
<1>9. /\ r.wire <= MaxWire /\ r.fresh < AckEvery
      /\ r.flight = r.buf + r.wire + r.fresh + r.acks
  BY <1>6, <1>8, CountsOf
<1>10. LegGood(r) /\ r.up /\ r.waiters = k.waiters
  BY <1>1, <1>7, <1>8, <1>9, CountsGood
<1> QED
  BY <1>a, <1>10, Zenon

\* A client's primary that is lost keeps its poll and waiters.
LEMMA DownGood ==
  ASSUME NEW k, LegGood(k), side.who = "client"
  PROVE  LegGood(Down(k))
<1>1. PICK a : a = [k EXCEPT !.up = FALSE, !.buf = 0, !.wire = 0]
  OBVIOUS
<1>2. a = [up |-> FALSE, buf |-> 0, wire |-> 0, fresh |-> k.fresh,
           acks |-> k.acks, flush |-> k.flush, flight |-> k.flight, active |-> k.active,
           window |-> k.window, poll |-> k.poll, waiters |-> k.waiters]
  <2>1. PICK b : b = [k EXCEPT !.up = FALSE]
    OBVIOUS
  <2>2. b = [up |-> FALSE, buf |-> k.buf, wire |-> k.wire, fresh |-> k.fresh,
             acks |-> k.acks, flush |-> k.flush, flight |-> k.flight, active |-> k.active,
             window |-> k.window, poll |-> k.poll, waiters |-> k.waiters]
    BY <2>1 DEF LegGood, LegType
  <2>3. a = [b EXCEPT !.buf = 0, !.wire = 0]
    BY <1>1, <2>1, Zenon
  <2> QED
    BY <2>2, <2>3
<1>3. PICK c : c = [a EXCEPT !.fresh = 0, !.acks = 0]
  OBVIOUS
<1>4. Down(k) = [c EXCEPT !.flush = FALSE]
  BY <1>1, <1>3, Zenon DEF Down
<1>5. Down(k) =
        [up |-> FALSE, buf |-> 0, wire |-> 0, fresh |-> 0, acks |-> 0, flush |-> FALSE,
         flight |-> k.flight, active |-> k.active, window |-> k.window, poll |-> k.poll,
         waiters |-> k.waiters]
  BY <1>2, <1>3, <1>4
<1> QED
  BY <1>5, FlowAssumption DEF LegGood, LegType

-----------------------------------------------------------------------------
\* At the start the primary is up and nobody waits.
THEOREM InitIInv == Init => IInv
<1> SUFFICES ASSUME Init PROVE IInv
  OBVIOUS
<1>1. side \in Sides /\ prod \in [Producers -> {"idle", "reading", "paused", "finished"}]
  BY DEF Init, Sides
<1>2. PausedWait
  BY DEF Init, PausedWait
<1>3. ASSUME NEW l \in Legs
      PROVE  LegGood(leg[l])
  <2>1. PICK r : r = [NewLeg EXCEPT !.up = (l = 1)]
    OBVIOUS
  <2>2. leg[l] = r
    BY <2>1, Zenon DEF Init
  <2>3. PICK up \in BOOLEAN : up = (l = 1)
    OBVIOUS
  <2>4. r = [up |-> up, buf |-> 0, wire |-> 0, fresh |-> 0, acks |-> 0, flush |-> FALSE,
             flight |-> 0, active |-> FALSE, window |-> MinWindow, poll |-> FALSE,
             waiters |-> {}]
    BY <2>1, <2>3 DEF NewLeg
  <2> QED
    BY <2>2, <2>4, FreshLegGood
<1>4. leg \in [Legs -> LegType]
  <2>1. leg = [l \in Legs |-> leg[l]]
    BY Zenon DEF Init
  <2> QED
    BY <1>3, <2>1 DEF LegGood
<1> QED
  BY <1>1, <1>2, <1>3, <1>4 DEF IInv

\* A step of one leg that leaves it up or down and its waiters alone.
LEMMA OneLegKeeps ==
  ASSUME IInv, NEW l \in Legs, NEW r, LegGood(r),
         r.up = leg[l].up, r.waiters = leg[l].waiters, leg' = [leg EXCEPT ![l] = r],
         UNCHANGED <<side, prod>>
  PROVE  IInv'
<1>1. r \in LegType
  BY DEF LegGood
<1>2. /\ leg' \in [Legs -> LegType] /\ leg'[l] = r
      /\ \A m \in Legs \ {l} : leg'[m] = leg[m]
  BY <1>1 DEF IInv
<1>3. \A m \in Legs : leg'[m].up = leg[m].up /\ leg'[m].waiters = leg[m].waiters
  BY <1>2
<1>4. (\A m \in Legs : LegGood(leg[m]))'
  <2>1. ASSUME NEW m \in Legs
        PROVE  LegGood(leg'[m])
    BY <1>2 DEF IInv
  <2> QED
    BY <2>1 DEF LegGood
<1>5. PausedWait'
  BY <1>3 DEF IInv, PausedWait
<1> QED
  BY <1>2, <1>4, <1>5 DEF IInv

\* What the network and the receiver do to one leg.
LEMMA MovesKeep ==
  ASSUME IInv, NEW l \in Legs, Moves(l)
  PROVE  IInv'
<1>1. LegGood(leg[l]) /\ leg \in [Legs -> LegType]
  BY DEF IInv
<1>2. PICK k : k = leg[l]
  OBVIOUS
<1>3. LegGood(k)
  BY <1>1, <1>2
<1>4. CASE Written(l)
  <2>1. PICK r : r = [k EXCEPT !.buf = @ - 1, !.wire = @ + 1]
    OBVIOUS
  <2>2. k.up /\ k.buf > 0 /\ k.wire < MaxWire /\ UNCHANGED <<side, prod>>
    BY <1>2, <1>4 DEF Written
  <2>3. LegGood(r) /\ r.up /\ r.waiters = k.waiters
    BY <1>3, <2>1, <2>2, WrittenGood, Zenon
  <2>4. leg' = [leg EXCEPT ![l] = r]
    <3>1. leg' = [leg EXCEPT ![l].buf = @ - 1, ![l].wire = @ + 1]
      BY <1>4 DEF Written
    <3>2. leg' = [leg EXCEPT ![l] = [leg[l] EXCEPT !.buf = @ - 1, !.wire = @ + 1]]
      BY <1>1, <3>1, Zenon
    <3> QED
      BY <1>2, <2>1, <3>2, Zenon
  <2>5. r.up = leg[l].up /\ r.waiters = leg[l].waiters
    BY <1>2, <2>2, <2>3, <1>3 DEF LegGood, LegType
  <2> QED
    BY <2>2, <2>3, <2>4, <2>5, OneLegKeeps
<1>5. CASE Receive(l)
  <2>1. PICK n : n = LET r == [k EXCEPT !.wire = @ - 1]
                     IN  IF side.acked THEN Noted(r) ELSE r
    OBVIOUS
  <2>2. k.up /\ k.wire > 0 /\ UNCHANGED <<side, prod>>
    BY <1>2, <1>5 DEF Receive
  <2>3. LegGood(n) /\ n.up /\ n.waiters = k.waiters
    BY <1>3, <2>1, <2>2, ReceivedGood, Zenon
  <2>4. leg' = [leg EXCEPT ![l] = n]
    BY <1>2, <1>5, <2>1, Zenon DEF Receive
  <2>5. n.up = leg[l].up /\ n.waiters = leg[l].waiters
    BY <1>2, <2>2, <2>3
  <2> QED
    BY <2>2, <2>3, <2>4, <2>5, OneLegKeeps
<1>6. CASE FlushTimer(l)
  <2>1. PICK r : r = Flushed(k)
    OBVIOUS
  <2>2. LegGood(r) /\ r.up = k.up /\ r.waiters = k.waiters
    BY <1>3, <2>1, FlushedGood
  <2>3. leg' = [leg EXCEPT ![l] = r] /\ UNCHANGED <<side, prod>>
    BY <1>2, <1>6, <2>1, Zenon DEF FlushTimer
  <2> QED
    BY <1>2, <2>2, <2>3, OneLegKeeps
<1>7. CASE AckArrives(l)
  <2>1. /\ k.up /\ k.acks > 0 /\ UNCHANGED <<side, prod>>
        /\ \E w \in IF k.active THEN Windows ELSE {MinWindow} :
             leg' = [leg EXCEPT ![l] = [k EXCEPT !.flight = @ - k.acks, !.acks = 0,
                                                !.active = TRUE, !.window = w]]
    BY <1>2, <1>7, Zenon DEF AckArrives
  <2>2. PICK w \in IF k.active THEN Windows ELSE {MinWindow} :
          leg' = [leg EXCEPT ![l] = [k EXCEPT !.flight = @ - k.acks, !.acks = 0,
                                             !.active = TRUE, !.window = w]]
    BY <2>1
  <2>3. w \in Windows
    BY MinWindowIsWindow
  <2>4. PICK r : r = [k EXCEPT !.flight = @ - k.acks, !.acks = 0, !.active = TRUE,
                                !.window = w]
    OBVIOUS
  <2>5. LegGood(r) /\ r.up /\ r.waiters = k.waiters
    BY <1>3, <2>1, <2>3, <2>4, AckedGood, Zenon
  <2>6. leg' = [leg EXCEPT ![l] = r]
    BY <2>2, <2>4, Zenon
  <2>7. r.up = leg[l].up /\ r.waiters = leg[l].waiters
    BY <1>2, <2>1, <2>5
  <2> QED
    BY <2>1, <2>5, <2>6, <2>7, OneLegKeeps
<1> QED
  BY <1>4, <1>5, <1>6, <1>7 DEF Moves

\* A source begins or ends.
LEMMA StartFinishKeep ==
  ASSUME IInv, NEW p \in Producers, Start(p) \/ Finish(p)
  PROVE  IInv'
<1>1. PICK s \in {"reading", "finished"} : prod' = [prod EXCEPT ![p] = s]
  BY DEF Start, Finish
<1>2. UNCHANGED <<side, leg>>
  BY DEF Start, Finish
<1>3. prod' \in [Producers -> {"idle", "reading", "paused", "finished"}]
  BY <1>1 DEF IInv
<1>4. PausedWait'
  BY <1>1, <1>2 DEF IInv, PausedWait
<1>5. (\A l \in Legs : LegGood(leg[l]))'
  BY <1>2 DEF IInv, LegGood
<1> QED
  BY <1>2, <1>3, <1>4, <1>5 DEF IInv

\* Who waited on this leg reads again; who is still paused waits on another one.
LEMMA PollKeeps ==
  ASSUME IInv, NEW l \in Legs, Poll(l)
  PROVE  IInv'
<1>1. PICK k : k = leg[l]
  OBVIOUS
<1>2. LegGood(k) /\ leg \in [Legs -> LegType]
  BY <1>1 DEF IInv
<1>3. PICK r : r = [k EXCEPT !.poll = FALSE, !.waiters = {}]
  OBVIOUS
<1>4. LegGood(r) /\ r.up = k.up /\ r.waiters = {}
  <2>1. r = [up |-> k.up, buf |-> k.buf, wire |-> k.wire, fresh |-> k.fresh,
             acks |-> k.acks, flush |-> k.flush, flight |-> k.flight, active |-> k.active,
             window |-> k.window, poll |-> FALSE, waiters |-> {}]
    BY <1>2, <1>3 DEF LegGood, LegType
  <2> QED
    BY <1>2, <2>1 DEF LegGood, LegType
<1>5. leg' = [leg EXCEPT ![l] = r] /\ UNCHANGED side
  <2>1. leg' = [leg EXCEPT ![l].poll = FALSE, ![l].waiters = {}]
    BY DEF Poll
  <2>2. leg' = [leg EXCEPT ![l] = [leg[l] EXCEPT !.poll = FALSE, !.waiters = {}]]
    BY <1>2, <2>1, Zenon
  <2> QED
    BY <1>1, <1>3, <2>2, Zenon DEF Poll
<1>6. /\ leg' \in [Legs -> LegType] /\ leg'[l] = r
      /\ \A m \in Legs \ {l} : leg'[m] = leg[m]
  BY <1>2, <1>4, <1>5 DEF LegGood
<1>7. prod' = [p \in Producers |->
                IF p \in k.waiters /\ prod[p] = "paused" THEN "reading" ELSE prod[p]]
  BY <1>1, Zenon DEF Poll
<1>8. prod' \in [Producers -> {"idle", "reading", "paused", "finished"}]
  BY <1>7 DEF IInv
<1>9. PausedWait'
  <2>1. ASSUME NEW p \in Producers, prod'[p] = "paused"
        PROVE  \E m \in Legs : leg'[m].up /\ p \in leg'[m].waiters
    <3>1. prod[p] = "paused" /\ p \notin k.waiters
      BY <1>7, <2>1
    <3>2. PICK m \in Legs : leg[m].up /\ p \in leg[m].waiters
      BY <3>1 DEF IInv, PausedWait
    <3>3. m # l
      BY <1>1, <3>1, <3>2
    <3> QED
      BY <1>6, <3>2, <3>3
  <2> QED
    BY <2>1 DEF PausedWait
<1>10. (\A m \in Legs : LegGood(leg[m]))'
  <2>1. ASSUME NEW m \in Legs
        PROVE  LegGood(leg'[m])
    BY <1>4, <1>6 DEF IInv
  <2> QED
    BY <1>5, <2>1 DEF LegGood
<1> QED
  BY <1>5, <1>6, <1>8, <1>9, <1>10 DEF IInv

\* A frame that fills the leg pauses its producer on every leg that is up.
LEMMA ProduceKeeps ==
  ASSUME IInv, NEW p \in Producers, Produce(p)
  PROVE  IInv'
<1>1. leg \in [Legs -> LegType] /\ Ready # {} /\ UNCHANGED side
  BY DEF IInv, Produce
<1>2. PICK l : l = Picked
  OBVIOUS
<1>3. l \in Legs /\ leg[l].up
  BY <1>1, <1>2, PickedReady DEF Ready
<1>4. PICK r : r = Sent(leg[l])
  OBVIOUS
<1>5. LegGood(r) /\ r.up /\ r.waiters = leg[l].waiters
  BY <1>3, <1>4, SentGood DEF IInv
<1>6. PICK given : given = [leg EXCEPT ![l] = r]
  OBVIOUS
<1>7. \/ leg' = given /\ UNCHANGED prod
      \/ /\ prod' = [prod EXCEPT ![p] = "paused"]
         /\ leg' = [m \in Legs |-> Waits(given[m], p)]
  BY <1>2, <1>4, <1>6, Zenon DEF Produce
<1>8. CASE leg' = given /\ UNCHANGED prod
  <2>1. r.up = leg[l].up
    BY <1>3, <1>5 DEF LegGood, LegType, IInv
  <2> QED
    BY <1>1, <1>3, <1>5, <1>6, <1>8, <2>1, OneLegKeeps
<1>9. CASE /\ prod' = [prod EXCEPT ![p] = "paused"]
           /\ leg' = [m \in Legs |-> Waits(given[m], p)]
  <2>1. /\ given \in [Legs -> LegType] /\ given[l] = r
        /\ \A m \in Legs \ {l} : given[m] = leg[m]
    BY <1>1, <1>3, <1>5, <1>6 DEF LegGood
  <2>2. /\ \A m \in Legs : LegGood(given[m])
        /\ \A m \in Legs : leg[m].up => given[m].up
        /\ \A m \in Legs : given[m].waiters = leg[m].waiters
    BY <1>5, <2>1 DEF IInv
  <2>3. \A m \in Legs : /\ LegGood(leg'[m]) /\ leg'[m].up = given[m].up
                        /\ leg[m].waiters \subseteq leg'[m].waiters
                        /\ given[m].up => p \in leg'[m].waiters
    BY <1>9, <2>2, WaitsGood
  <2>4. leg' \in [Legs -> LegType]
    BY <1>9, <2>3 DEF LegGood
  <2>5. prod' \in [Producers -> {"idle", "reading", "paused", "finished"}]
    BY <1>9 DEF IInv
  <2>6. PausedWait'
    <3>1. ASSUME NEW q \in Producers, prod'[q] = "paused"
          PROVE  \E m \in Legs : leg'[m].up /\ q \in leg'[m].waiters
      <4>1. CASE q = p
        BY <1>3, <2>2, <2>3, <4>1
      <4>2. CASE q # p
        <5>1. prod[q] = "paused"
          BY <1>9, <3>1, <4>2 DEF IInv
        <5>2. PICK m \in Legs : leg[m].up /\ q \in leg[m].waiters
          BY <5>1 DEF IInv, PausedWait
        <5> QED
          BY <2>2, <2>3, <5>2
      <4> QED
        BY <4>1, <4>2
    <3> QED
      BY <3>1 DEF PausedWait
  <2>7. (\A m \in Legs : LegGood(leg[m]))'
    BY <1>1, <2>3 DEF LegGood
  <2> QED
    BY <1>1, <2>4, <2>5, <2>6, <2>7 DEF IInv
<1> QED
  BY <1>7, <1>8, <1>9

\* Every producer has ended, so nobody waits; what is left of the legs is fit to be dialled.
LEMMA LoseKeeps ==
  ASSUME IInv, Lose
  PROVE  IInv'
<1>1. /\ prod' = [p \in Producers |-> IF prod[p] = "idle" THEN "idle" ELSE "finished"]
      /\ leg' = [l \in Legs |-> IF side.who = "client" /\ l = 1 THEN Down(leg[l])
                                ELSE Closed(leg[l])]
      /\ UNCHANGED side
  BY DEF Lose
<1>2. LegGood(NewLeg)
  <2>1. PICK up \in BOOLEAN : up = FALSE
    OBVIOUS
  <2>2. NewLeg = [up |-> up, buf |-> 0, wire |-> 0, fresh |-> 0, acks |-> 0, flush |-> FALSE,
                  flight |-> 0, active |-> FALSE, window |-> MinWindow, poll |-> FALSE,
                  waiters |-> {}]
    BY <2>1 DEF NewLeg
  <2> QED
    BY <2>2, FreshLegGood
<1>3. \A l \in Legs : LegGood(leg'[l])
  <2>1. ASSUME NEW l \in Legs
        PROVE  LegGood(leg'[l])
    <3>1. CASE side.who = "client" /\ l = 1
      <4>1. leg'[l] = Down(leg[l]) /\ LegGood(leg[l])
        BY <1>1, <3>1 DEF IInv
      <4> QED
        BY <3>1, <4>1, DownGood
    <3>2. CASE ~(side.who = "client" /\ l = 1)
      BY <1>1, <1>2, <3>2 DEF Closed
    <3> QED
      BY <3>1, <3>2
  <2> QED
    BY <2>1
<1>4. leg' \in [Legs -> LegType]
  BY <1>1, <1>3 DEF LegGood
<1>5. (\A l \in Legs : LegGood(leg[l]))'
  BY <1>1, <1>3 DEF LegGood
<1>6. /\ prod' \in [Producers -> {"idle", "reading", "paused", "finished"}]
      /\ PausedWait'
  BY <1>1 DEF IInv, PausedWait
<1> QED
  BY <1>1, <1>4, <1>5, <1>6 DEF IInv

\* A leg that comes up while nobody waits on it.
LEMMA UpKeeps ==
  ASSUME IInv, NEW l \in Legs, ~leg[l].up, NEW r, LegGood(r),
         leg' = [leg EXCEPT ![l] = r], UNCHANGED <<side, prod>>
  PROVE  IInv'
<1>1. r \in LegType
  BY DEF LegGood
<1>2. /\ leg' \in [Legs -> LegType] /\ leg'[l] = r
      /\ \A m \in Legs \ {l} : leg'[m] = leg[m]
  BY <1>1 DEF IInv
<1>3. (\A m \in Legs : LegGood(leg[m]))'
  <2>1. ASSUME NEW m \in Legs
        PROVE  LegGood(leg'[m])
    BY <1>2 DEF IInv
  <2> QED
    BY <2>1 DEF LegGood
<1>4. PausedWait'
  BY <1>2 DEF IInv, PausedWait
<1> QED
  BY <1>2, <1>3, <1>4 DEF IInv

\* The primary is dialled again while nobody waits: no leg is up.
LEMMA RedialKeeps ==
  ASSUME IInv, Redial
  PROVE  IInv'
<1>1. 1 \in Legs
  BY FlowAssumption DEF Legs
<1>2. PICK k : k = leg[1]
  OBVIOUS
<1>3. LegGood(k) /\ ~leg[1].up
  BY <1>1, <1>2 DEF IInv, Redial, Ready
<1>4. PICK r : r = Redialed(k)
  OBVIOUS
<1>5. LegGood(r)
  <2>1. r = [up |-> TRUE, buf |-> 0, wire |-> 0, fresh |-> 0, acks |-> 0, flush |-> FALSE,
             flight |-> 0, active |-> FALSE, window |-> MinWindow, poll |-> k.poll,
             waiters |-> k.waiters]
    BY <1>4 DEF Redialed, NewLeg
  <2>2. k.poll \in BOOLEAN /\ k.waiters \in SUBSET Producers /\ (k.waiters # {} => k.poll)
    BY <1>3 DEF LegGood, LegType
  <2>3. MinWindow \in Windows /\ MinWindow \in Nat
    BY MinWindowIsWindow, FlowAssumption
  <2>4. r \in LegType
    BY <2>1, <2>2, <2>3 DEF LegType
  <2> QED
    BY <2>1, <2>2, <2>3, <2>4, FlowAssumption DEF LegGood
<1>6. leg' = [leg EXCEPT ![1] = r] /\ UNCHANGED <<side, prod>>
  BY <1>2, <1>4, Zenon DEF Redial
<1> QED
  BY <1>1, <1>3, <1>5, <1>6, UpKeeps

\* An additional leg comes up.
LEMMA AttachKeeps ==
  ASSUME IInv, NEW l \in Legs, Attach(l)
  PROVE  IInv'
<1>1. ~leg[l].up
  BY DEF Attach, Ready
<1>2. PICK r : r = [NewLeg EXCEPT !.up = TRUE]
  OBVIOUS
<1>3. LegGood(r)
  <2>1. r = [up |-> TRUE, buf |-> 0, wire |-> 0, fresh |-> 0, acks |-> 0, flush |-> FALSE,
             flight |-> 0, active |-> FALSE, window |-> MinWindow, poll |-> FALSE,
             waiters |-> {}]
    BY <1>2 DEF NewLeg
  <2> QED
    BY <2>1, FreshLegGood
<1>4. leg' = [leg EXCEPT ![l] = r] /\ UNCHANGED <<side, prod>>
  BY <1>2, Zenon DEF Attach
<1> QED
  BY <1>1, <1>3, <1>4, UpKeeps

-----------------------------------------------------------------------------
\* No step of a producer, a leg, the network or the group breaks the invariant.
THEOREM StepIInv == IInv /\ [Next]_vars => IInv'
<1> SUFFICES ASSUME IInv, [Next]_vars PROVE IInv'
  OBVIOUS
<1>1. CASE Sends
  BY <1>1, ProduceKeeps DEF Sends
<1>2. CASE \E p \in Producers : Start(p) \/ Finish(p)
  BY <1>2, StartFinishKeep
<1>3. CASE \E l \in Legs : Poll(l) \/ Moves(l) \/ Attach(l)
  BY <1>3, PollKeeps, MovesKeep, AttachKeeps
<1>4. CASE Lose \/ Redial
  BY <1>4, LoseKeeps, RedialKeeps
<1>5. CASE UNCHANGED vars
  <2>1. UNCHANGED <<side, leg, prod>>
    BY <1>5 DEF vars
  <2> QED
    BY <2>1 DEF IInv, LegGood, PausedWait
<1> QED
  BY <1>1, <1>2, <1>3, <1>4, <1>5 DEF Next

\* Every reachable state of the flow control satisfies the invariant.
THEOREM IInvAlways == Spec => []IInv
BY InitIInv, StepIInv, PTL DEF Spec

\* For any legs, producers, watermarks and windows: on a connection that is up the
\* window counts exactly what the receiver has not acknowledged; a paused source is a
\* waiter of a leg that is up, and waiters have a poll; a gateway's closed leg is quiet.
THEOREM WaitersAlways == Spec => []WaitersInv
<1>1. IInv => TypeOK
  <2> SUFFICES ASSUME IInv PROVE TypeOK
    OBVIOUS
  <2>1. prod \in [Producers -> {"idle", "reading", "paused", "finished"}]
    BY DEF IInv
  <2>2. ASSUME NEW l \in Legs, NEW k, k = leg[l]
        PROVE  /\ k.buf \in Nat /\ k.wire \in 0..MaxWire /\ k.fresh \in 0..AckEvery - 1
               /\ k.window \in Windows
               /\ k.up /\ side.acked => k.flight = k.buf + k.wire + k.fresh + k.acks
               /\ k.active => side.acked
    <3>1. LegGood(k)
      BY <2>2 DEF IInv
    <3>2. /\ k.buf \in Nat /\ k.wire \in Nat /\ k.wire <= MaxWire
          /\ k.fresh \in Nat /\ k.fresh < AckEvery
      BY <3>1 DEF LegGood, LegType
    <3>3. k.wire \in 0..MaxWire /\ k.fresh \in 0..AckEvery - 1
      BY <3>2, FlowAssumption
    <3>4. /\ k.window \in Windows
          /\ k.up /\ side.acked => k.flight = k.buf + k.wire + k.fresh + k.acks
          /\ k.active => side.acked
      BY <3>1 DEF LegGood
    <3> QED
      BY <3>2, <3>3, <3>4
  <2> QED
    BY <2>1, <2>2 DEF TypeOK
<1>2. IInv => NoLostWaiter
  BY DEF IInv, PausedWait, LegGood, NoLostWaiter, Ready
<1>3. IInv => TeardownQuiet
  BY DEF IInv, LegGood, TeardownQuiet, Ready
<1>4. IInv => WaitersInv
  BY <1>1, <1>2, <1>3 DEF WaitersInv
<1> QED
  BY <1>4, IInvAlways, PTL
=============================================================================

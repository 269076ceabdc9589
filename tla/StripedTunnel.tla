---------------------------- MODULE StripedTunnel ----------------------------
(***************************************************************************)
(* One direction of a striped tunnel group: a sender numbers the frames of *)
(* each channel (nextSeq) and puts each on any leg of the group; the legs  *)
(* are independent FIFO connections; the receiver's Resequencer parks what *)
(* arrives ahead and hands frames on in sequence.                          *)
(*                                                                         *)
(* Side says which end receives.  "server": the receiver is a              *)
(* TunnelSession (server/src/session.ts), whose channels exist from        *)
(* register() on, and the sender is the TunnelGroup of the client.         *)
(* "client": the receiver is the Client (client/src/client.ts), where the  *)
(* http.open/ws.open frame -- always the first of its channel -- creates   *)
(* the channel, and the sender is the TunnelSession.                       *)
(*                                                                         *)
(* A TunnelSession is a new object in each tunnel generation; the client's *)
(* objects outlive it and have to be reset.  A frame is abstracted to its  *)
(* channel, seq and kind (a control frame counts no bytes in the parking   *)
(* buffer, a data frame one unit), and carries n, its true place in the    *)
(* producer's order, which the code does not have and only the properties  *)
(* read.                                                                   *)
(***************************************************************************)
EXTENDS Integers, Sequences, FiniteSets

CONSTANTS
  Channels,   \* channel numbers of one tunnel
  Legs,       \* the connections a group may have
  Primary,    \* the leg the tunnel starts with
  Side,       \* which end receives: "server" or "client"
  MaxFrames,  \* bound: frames a channel emits in one generation
  MaxParked   \* MAX_CHANNEL_BUFFER_BYTES, in data frames

ASSUME PrimaryAssumption == Primary \in Legs
ASSUME SideAssumption == Side \in {"server", "client"}
ASSUME MaxFramesAssumption == MaxFrames \in Nat
ASSUME MaxParkedAssumption == MaxParked \in Nat

VARIABLES
  sndUp,      \* the sender has not torn its end down
  nextSeq,    \* sendSeq: next seq of each channel
  legState,   \* "absent" until attached, then "up", then "down"
  wire,       \* wire[l]: frames on leg l, sent and not yet received
  rcvUp,      \* the receiver has not torn its end down
  chan,       \* the receiver's channel table: "none", "open" or "gone"
  held,       \* channels with an entry in the Resequencer's states map
  expected,   \* that entry's expected (0 without an entry)
  parked,     \* that entry's buffer (empty without an entry)
  buffered,   \* that entry's bufferedBytes (0 without an entry)
  produced,   \* history: frames emitted per channel in this generation
  handed      \* history: what the deliver callback was called with

sender   == <<sndUp, nextSeq>>
reseq    == <<held, expected, parked, buffered>>
receiver == <<rcvUp, chan, held, expected, parked, buffered>>
vars == <<sndUp, nextSeq, legState, wire, rcvUp, chan, held, expected,
          parked, buffered, produced, handed>>

Kinds == {"control", "data"}
Seqs  == 0..(MaxFrames - 1)
Frame == [ch : Channels, seq : Seqs, kind : Kinds, n : Seqs]

\* What became of a frame given to the deliver callback: dispatched to its
\* channel; discarded because the channel is not in the table (any more);
\* or discarded, the channel being there, because the callback was made for
\* a frame of the other kind.
Fates == {"dispatched", "unknown", "mismatch"}
Handed == [n : Seqs, kind : Kinds, fate : Fates]

Zero     == [c \in Channels |-> 0]
Nothing  == [c \in Channels |-> {}]
Quiet    == [l \in Legs |-> <<>>]
Anew     == [l \in Legs |-> IF l = Primary THEN "up" ELSE "absent"]

-----------------------------------------------------------------------------
\* The Resequencer.

ParkedSeqs(c) == {f.seq : f \in parked[c]}

\* itemBytes summed: control frames are not counted.
ItemBytes(F) == Cardinality({f \in F : f.kind = "data"})

\* Mutant: an if instead of the while, one parked frame is never swept.
SweepEndOnce(c, s, e) == e = s + 1

\* e is the value of expected when the sweep that starts with seq s ends.
SweepEnd(c, s, e) ==
  /\ e \in (s + 1)..MaxFrames
  /\ \A k \in (s + 1)..(e - 1) : k \in ParkedSeqs(c)
  /\ e \notin ParkedSeqs(c)

\* The frames handed over by that sweep: f, then parked ones in sequence.
Run(f, e) ==
  [i \in 1..(e - f.seq) |->
     IF i = 1 THEN f
              ELSE CHOOSE g \in parked[f.ch] : g.seq = f.seq + i - 1]

\* On the client, the first frame of a channel creates it.
Opens(f) == Side = "client" /\ f.n = 0

HasChannel(f) == chan[f.ch] = "open" \/ Opens(f)

\* Mutant: the callback tests for the wrong kind.
FateSwapped(f, run, i, cut) ==
  CASE ~HasChannel(f) \/ (cut # 0 /\ i > cut) -> "unknown"
    [] HasChannel(f) /\ (cut = 0 \/ i <= cut) ->
         IF run[i].kind = f.kind THEN "mismatch" ELSE "dispatched"

\* The deliver callback is the one its caller made for f: it dispatches only
\* items of f's kind.  cut is the place in the run of the frame on which the
\* channel unregisters itself, 0 if it does not.
Fate(f, run, i, cut) ==
  CASE ~HasChannel(f) \/ (cut # 0 /\ i > cut) -> "unknown"
    [] HasChannel(f) /\ (cut = 0 \/ i <= cut) ->
         IF run[i].kind = f.kind THEN "dispatched" ELSE "mismatch"

Log(f, run, cut) ==
  [i \in DOMAIN run |-> [n |-> run[i].n, kind |-> run[i].kind,
                         fate |-> Fate(f, run, i, cut)]]

\* The places of the run on which the channel's own handler may end it.
Cuts(f, run) ==
  {0} \cup {i \in DOMAIN run : HasChannel(f) /\ run[i].kind = f.kind}

ChanAfter(f, cut) ==
  [chan EXCEPT ![f.ch] = IF cut # 0 THEN "gone"
                         ELSE IF Opens(f) THEN "open" ELSE @]

\* states.delete(c)
Drop(c) ==
  /\ held' = held \ {c}
  /\ expected' = [expected EXCEPT ![c] = 0]
  /\ parked' = [parked EXCEPT ![c] = {}]
  /\ buffered' = [buffered EXCEPT ![c] = 0]

\* reset(): states.clear()
Reset ==
  /\ held' = {}
  /\ expected' = Zero
  /\ parked' = Nothing
  /\ buffered' = Zero

\* seq below expected: dropped with a warning.
FeedOld(f) ==
  /\ held' = held \cup {f.ch}
  /\ UNCHANGED <<rcvUp, chan, expected, parked, buffered, handed>>

\* seq = expected: deliver it and sweep what it was waited for.
FeedExpected(f) ==
  \E e \in 1..MaxFrames :
    /\ SweepEnd(f.ch, f.seq, e)
    /\ LET run   == Run(f, e)
           swept == {g \in parked[f.ch] : g.seq < e}
       IN \E cut \in Cuts(f, run) :
            /\ handed' = [handed EXCEPT ![f.ch] = @ \o Log(f, run, cut)]
            /\ chan' = ChanAfter(f, cut)
            /\ IF cut # 0
               THEN Drop(f.ch)
               ELSE /\ held' = held \cup {f.ch}
                    /\ expected' = [expected EXCEPT ![f.ch] = e]
                    /\ parked' = [parked EXCEPT ![f.ch] = @ \ swept]
                    /\ buffered' = [buffered EXCEPT ![f.ch] = @ - ItemBytes(swept)]
  /\ UNCHANGED rcvUp

\* seq above expected: park it (unless already parked).
FeedAhead(f) ==
  /\ held' = held \cup {f.ch}
  /\ IF f.seq \in ParkedSeqs(f.ch)
     THEN UNCHANGED <<parked, buffered>>
     ELSE /\ parked' = [parked EXCEPT ![f.ch] = @ \cup {f}]
          /\ buffered' = [buffered EXCEPT ![f.ch] = @ + ItemBytes({f})]
  /\ UNCHANGED <<rcvUp, chan, expected, handed>>

\* Mutant: the limit is compared before the frame is counted.
OverflowsLate(f) ==
  /\ f.seq \notin ParkedSeqs(f.ch)
  /\ buffered[f.ch] > MaxParked

Overflows(f) ==
  /\ f.seq \notin ParkedSeqs(f.ch)
  /\ buffered[f.ch] + ItemBytes({f}) > MaxParked

AllGone == [c \in Channels |-> IF chan[c] = "none" THEN "none" ELSE "gone"]

\* Mutant: the teardown forgets resequencer.reset().
TearDownNoReset ==
  /\ rcvUp' = FALSE
  /\ chan' = AllGone
  /\ UNCHANGED reseq

\* The receiver's end goes down: every channel fails, the Resequencer is
\* reset.  (TunnelSession.teardown; on the client abortAllChannels.)
TearDown ==
  /\ rcvUp' = FALSE
  /\ chan' = AllGone
  /\ Reset

\* The parking buffer is over its limit.  The server tears the session down
\* at once (a second time: no effect); the client drops the entry and kills
\* its legs, whose close event tears its end down.
FeedOverflow(f) ==
  /\ IF Side = "server" /\ rcvUp
     THEN TearDown
     ELSE Drop(f.ch) /\ UNCHANGED <<rcvUp, chan>>
  /\ UNCHANGED handed

\* Mutant: control frames skip the Resequencer, as they do without a seq.
FeedBypass(f) ==
  IF f.kind = "control"
  THEN /\ handed' = [handed EXCEPT ![f.ch] = @ \o Log(f, <<f>>, 0)]
       /\ chan' = ChanAfter(f, 0)
       /\ UNCHANGED <<rcvUp, reseq>>
  ELSE IF f.seq <= expected[f.ch] THEN FeedExpected(f) ELSE FeedAhead(f)

Feed(f) ==
  IF f.seq < expected[f.ch] THEN FeedOld(f)
  ELSE IF f.seq = expected[f.ch] THEN FeedExpected(f)
  ELSE IF Overflows(f) THEN FeedOverflow(f)
  ELSE FeedAhead(f)

ClientOverflow(f) ==
  Side = "client" /\ f.seq > expected[f.ch] /\ Overflows(f)

-----------------------------------------------------------------------------
Init ==
  /\ sndUp = TRUE /\ nextSeq = Zero
  /\ legState = Anew /\ wire = Quiet
  /\ rcvUp = TRUE /\ chan = [c \in Channels |-> "none"]
  /\ held = {} /\ expected = Zero /\ parked = Nothing /\ buffered = Zero
  /\ produced = Zero /\ handed = [c \in Channels |-> <<>>]

\* A further connection joins the group.
Attach(l) ==
  /\ sndUp /\ rcvUp
  /\ legState[l] = "absent"
  /\ legState' = [legState EXCEPT ![l] = "up"]
  /\ UNCHANGED <<sndUp, nextSeq, wire, receiver, produced, handed>>

\* session.register: the server enters a channel before it sends the open.
Register(c) ==
  /\ Side = "server" /\ rcvUp
  /\ chan[c] = "none"
  /\ chan' = [chan EXCEPT ![c] = "open"]
  /\ UNCHANGED <<sender, legState, wire, rcvUp, reseq, produced, handed>>

\* Mutant: pre-increment, the first seq of a channel is 1.
NumberedPre(c, k) ==
  [ch |-> c, seq |-> nextSeq[c] + 1, kind |-> k, n |-> produced[c]]

\* The frame with the seq nextSeq() gives it.
Numbered(c, k) ==
  [ch |-> c, seq |-> nextSeq[c], kind |-> k, n |-> produced[c]]

\* sendControl/sendData on leg l: the seq is taken first, then the frame goes
\* to a leg picked by capacity (here: any).  A leg that died unnoticed
\* swallows it.  A channel's first frame is a control frame (open, head,
\* accept or error); the client only answers channels the server opened.
Send(c, l, k) ==
  /\ sndUp
  /\ legState[l] # "absent"
  /\ produced[c] < MaxFrames
  /\ produced[c] = 0 => k = "control"
  /\ Side = "server" => chan[c] # "none"
  /\ nextSeq[c] < MaxFrames
  /\ nextSeq' = [nextSeq EXCEPT ![c] = @ + 1]
  /\ produced' = [produced EXCEPT ![c] = @ + 1]
  /\ wire' = IF legState[l] = "up"
             THEN [wire EXCEPT ![l] = Append(@, Numbered(c, k))] ELSE wire
  /\ UNCHANGED <<sndUp, legState, receiver, handed>>

\* A frame arrives on leg l.  A client whose end is down ignores its old
\* legs; a TunnelSession that is down still routes what comes in.
Receive(l) ==
  /\ wire[l] # <<>>
  /\ Side = "client" => rcvUp
  /\ LET f == Head(wire[l])
     IN /\ Feed(f)
        /\ IF ClientOverflow(f)
           THEN /\ wire' = Quiet
                /\ legState' = [m \in Legs |->
                     IF legState[m] = "absent" THEN "absent" ELSE "down"]
           ELSE /\ wire' = [wire EXCEPT ![l] = Tail(@)]
                /\ UNCHANGED legState
  /\ UNCHANGED <<sender, produced>>

\* unregister/onDone outside a frame's dispatch: a timeout, an abort by the
\* browser or by the upstream, a finished probe.
Unregister(c) ==
  /\ rcvUp
  /\ chan[c] = "open"
  /\ chan' = [chan EXCEPT ![c] = "gone"]
  /\ Drop(c)
  /\ UNCHANGED <<sender, legState, wire, rcvUp, produced, handed>>

\* A connection dies; what was on it and not received is lost.
LegDown(l) ==
  /\ legState[l] = "up"
  /\ legState' = [legState EXCEPT ![l] = "down"]
  /\ wire' = [wire EXCEPT ![l] = <<>>]
  /\ UNCHANGED <<sender, receiver, produced, handed>>

SomeLegDown == \E l \in Legs : legState[l] = "down"

\* The sender learns of a dead leg and tears the whole group down.
SenderDown ==
  /\ sndUp /\ SomeLegDown
  /\ sndUp' = FALSE
  /\ nextSeq' = Zero
  /\ UNCHANGED <<legState, wire, receiver, produced, handed>>

\* So does the receiver; a client then ignores what its legs still carry.
ReceiverDown ==
  /\ rcvUp /\ SomeLegDown
  /\ TearDown
  /\ wire' = IF Side = "client" THEN Quiet ELSE wire
  /\ UNCHANGED <<sender, legState, produced, handed>>

ClientDown == IF Side = "server" THEN ~sndUp ELSE ~rcvUp

\* Mutant: the new session goes on with the old one's Resequencer.
FreshSessionKeepsEntries == UNCHANGED <<nextSeq, reseq>>

\* A generation starts with a new TunnelSession; the client's sendSeq and
\* Resequencer are as its teardown left them.
FreshSession ==
  IF Side = "server" THEN Reset /\ UNCHANGED nextSeq
                     ELSE nextSeq' = Zero /\ UNCHANGED reseq

\* The client reconnects: a new TunnelSession, new connections, and the
\* client's own objects as its teardown left them.
Rebuild ==
  /\ ClientDown
  /\ legState' = Anew /\ wire' = Quiet
  /\ sndUp' = TRUE /\ rcvUp' = TRUE
  /\ chan' = [c \in Channels |-> "none"]
  /\ FreshSession
  /\ produced' = Zero
  /\ handed' = [c \in Channels |-> <<>>]

Next ==
  \/ \E l \in Legs : Attach(l)
  \/ \E c \in Channels : Register(c)
  \/ \E c \in Channels, l \in Legs, k \in Kinds : Send(c, l, k)
  \/ \E l \in Legs : Receive(l)
  \/ \E c \in Channels : Unregister(c)
  \/ \E l \in Legs : LegDown(l)
  \/ SenderDown
  \/ ReceiverDown
  \/ Rebuild

Spec == Init /\ [][Next]_vars

\* Every socket that has data is eventually read.
FairSpec == Spec /\ \A l \in Legs : WF_vars(Receive(l))

-----------------------------------------------------------------------------
TypeOK ==
  /\ sndUp \in BOOLEAN /\ rcvUp \in BOOLEAN
  /\ nextSeq \in [Channels -> 0..MaxFrames]
  /\ legState \in [Legs -> {"absent", "up", "down"}]
  /\ wire \in [Legs -> Seq(Frame)]
  /\ chan \in [Channels -> {"none", "open", "gone"}]
  /\ held \in SUBSET Channels
  /\ expected \in [Channels -> 0..MaxFrames]
  /\ parked \in [Channels -> SUBSET Frame]
  /\ buffered \in [Channels -> Int]
  /\ produced \in [Channels -> 0..MaxFrames]
  /\ handed \in [Channels -> Seq(Handed)]

\* Each channel's frames reach the deliver callback in the order of emission,
\* none twice and none before its predecessors, whichever legs carried them
\* (feed's "the channel layer sees the ordered stream of one connection").
HandedInOrder ==
  \A c \in Channels : \A i \in DOMAIN handed[c] : handed[c][i].n = i - 1

\* "With a broken leg rebuilding the whole group, seq < expected cannot
\* happen" (resequencer.ts:8): no frame in flight is older than what its
\* channel's entry expects, in this generation or a later one.
NoOldSeq ==
  \A l \in Legs : \A i \in DOMAIN wire[l] :
    wire[l][i].seq >= expected[wire[l][i].ch]

\* The byte counter of an entry is the size of what is parked in it, and
\* never over the limit: what the overflow check reads is the truth.
BufferAccounted ==
  \A c \in Channels : /\ buffered[c] = ItemBytes(parked[c])
                      /\ buffered[c] <= MaxParked

\* While all legs live, a channel that waits waits for a frame that is on a
\* leg: a hole in the sequence is always in flight, never already consumed
\* (a hole nobody carries would stall the channel for good).
HoleInFlight ==
  \A c \in Channels :
    (/\ chan[c] = "open" /\ parked[c] # {}
     /\ rcvUp /\ sndUp /\ ~SomeLegDown)
    => \E l \in Legs : \E i \in DOMAIN wire[l] :
         wire[l][i].ch = c /\ wire[l][i].seq = expected[c]

\* resequencer.ts:5: after reordering "the channel layer still sees an
\* ordered stream byte for byte the same as with a single connection": no
\* frame handed over for an existing channel is withheld from it.
NothingWithheld ==
  \A c \in Channels : \A i \in DOMAIN handed[c] :
    handed[c][i].fate # "mismatch"

\* multiconn design, section 6.4: a channel's resequencing state is deleted
\* when the channel ends (server: unregister; client: onDone).
EndedChannelsHoldNothing ==
  rcvUp => \A c \in held : chan[c] # "gone"

\* A frame that was emitted is handed over, unless its channel ended or the
\* group broke first (the sweep and the receive loops never strand one).
EveryFrameArrives ==
  \A c \in Channels : \A n \in Seqs :
    (produced[c] > n /\ ~SomeLegDown) ~>
      (Len(handed[c]) > n \/ chan[c] = "gone" \/ SomeLegDown \/ ~rcvUp)

-----------------------------------------------------------------------------
\* The inductive invariant behind HandedInOrder and NoOldSeq.

\* While the sender is up its counters are the true places in the order; the
\* client's own objects are clean whenever it is between two generations.
Numbering ==
  /\ sndUp => nextSeq = produced
  /\ Side = "server" /\ ~sndUp => nextSeq = Zero
  /\ Side = "client" /\ ~rcvUp =>
       expected = Zero /\ parked = Nothing /\ buffered = Zero /\ held = {}

\* An entry expects the frame after the last one handed over, or, dropped
\* after its channel ended, the first, which will never come again.
Expecting ==
  \A c \in Channels : /\ expected[c] \in {0, Len(handed[c])}
                      /\ Len(handed[c]) <= produced[c]

\* A frame not yet handed over carries its true place as its seq.
Fresh(f) == /\ f.n = f.seq
            /\ Len(handed[f.ch]) <= f.seq
            /\ f.seq < produced[f.ch]

WireFresh == \A l \in Legs : \A i \in 1..Len(wire[l]) : Fresh(wire[l][i])

ParkedFresh ==
  \A c \in Channels :
    /\ IsFiniteSet(parked[c])
    /\ \A g \in parked[c] : g.ch = c /\ Fresh(g)

SameFrame(f, g) == f.ch = g.ch /\ f.seq = g.seq

\* And it is in one place only: once on one leg, or parked once.
WireUnique ==
  \A l, m \in Legs : \A i \in 1..Len(wire[l]), j \in 1..Len(wire[m]) :
    SameFrame(wire[l][i], wire[m][j]) => l = m /\ i = j

ParkedUnique ==
  \A c \in Channels :
    /\ \A g, h \in parked[c] : g.seq = h.seq => g = h
    /\ \A g \in parked[c], l \in Legs : \A i \in 1..Len(wire[l]) :
         ~SameFrame(wire[l][i], g)

\* Together: every frame is in exactly one place and knows its turn.
IInv ==
  /\ TypeOK
  /\ Numbering
  /\ Expecting
  /\ WireFresh
  /\ ParkedFresh
  /\ WireUnique
  /\ ParkedUnique
  /\ HandedInOrder

-----------------------------------------------------------------------------
\* The promise: what was handed over, with the frames dropped at a kind
\* change marked lost.
Stream == INSTANCE OrderedChannels WITH
  log <- [c \in Channels |->
           [i \in DOMAIN handed[c] |->
              [n |-> handed[c][i].n, lost |-> handed[c][i].fate = "mismatch"]]]

\* The group implements an order-preserving, at-most-once stream per channel.
ImplementsOrdered == Stream!Spec
=============================================================================

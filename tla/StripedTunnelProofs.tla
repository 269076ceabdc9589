------------------------- MODULE StripedTunnelProofs -------------------------
(***************************************************************************)
(* Proofs about StripedTunnel, for any channels, legs, frame bound and     *)
(* parking limit, and for both directions: what is handed over is in order *)
(* (IInv), the byte counters are true, no hole is left that nobody carries *)
(* (NoneMissing, which needs IInv), and the group implements               *)
(* OrderedChannels.                                                        *)
(***************************************************************************)
EXTENDS StripedTunnel, FiniteSetTheorems, SequenceTheorems, TLAPS

USE PrimaryAssumption, SideAssumption, MaxFramesAssumption, MaxParkedAssumption

\* The byte count of a finite set of frames is an integer (itemBytes).
LEMMA BytesAreInt ==
  ASSUME NEW F, IsFiniteSet(F)
  PROVE  ItemBytes(F) \in Nat
<1>1. {f \in F : f.kind = "data"} \in SUBSET F
  OBVIOUS
<1>2. IsFiniteSet({f \in F : f.kind = "data"})
  BY <1>1, FS_Subset
<1> QED BY <1>2, FS_CardinalityType DEF ItemBytes

\* The inductive invariant holds in a fresh group.
LEMMA InitIInv == Init => IInv
<1> SUFFICES ASSUME Init PROVE IInv
  OBVIOUS
<1>1. TypeOK
  BY DEF Init, TypeOK, Zero, Nothing, Quiet, Anew, Seqs
<1>2. \A l \in Legs : Len(wire[l]) = 0
  BY EmptySeq DEF Init, Quiet
<1>3. \A c \in Channels : Len(handed[c]) = 0 /\ handed[c] = <<>>
  BY EmptySeq DEF Init
<1>4. Numbering /\ Expecting
  BY <1>3 DEF Init, Numbering, Expecting, Zero
<1>5. WireFresh /\ WireUnique
  BY <1>2 DEF WireFresh, WireUnique
<1>6. ParkedFresh /\ ParkedUnique
  BY FS_EmptySet DEF Init, ParkedFresh, ParkedUnique, Nothing
<1>7. HandedInOrder
  BY <1>3 DEF HandedInOrder
<1> QED BY <1>1, <1>4, <1>5, <1>6, <1>7 DEF IInv

\* What no action but Receive, Send and Rebuild touches: frames in flight
\* that lose members keep being in one place and in turn.
LEMMA FewerInFlight ==
  ASSUME IInv,
         TypeOK', Numbering', Expecting',
         UNCHANGED <<produced, handed>>,
         \A l \in Legs : wire'[l] = wire[l] \/ wire'[l] = <<>>,
         \A c \in Channels : parked'[c] = parked[c] \/ parked'[c] = {}
  PROVE  IInv'
<1> USE DEF IInv
<1>1. \A l \in Legs : \A i \in 1..Len(wire'[l]) :
         i \in 1..Len(wire[l]) /\ wire'[l][i] = wire[l][i]
  <2> SUFFICES ASSUME NEW l \in Legs, NEW i \in 1..Len(wire'[l])
               PROVE i \in 1..Len(wire[l]) /\ wire'[l][i] = wire[l][i]
    OBVIOUS
  <2>1. wire'[l] # <<>>
    BY EmptySeq
  <2> QED BY <2>1
<1>2. WireFresh'
  BY <1>1 DEF WireFresh, Fresh
<1>3. WireUnique'
  <2> SUFFICES ASSUME NEW l \in Legs, NEW m \in Legs,
                      NEW i \in 1..Len(wire'[l]), NEW j \in 1..Len(wire'[m]),
                      SameFrame(wire'[l][i], wire'[m][j])
               PROVE  l = m /\ i = j
    BY DEF WireUnique, SameFrame
  <2> QED BY <1>1 DEF WireUnique
<1>4. ParkedFresh'
  BY FS_EmptySet DEF ParkedFresh, Fresh
<1>5. ParkedUnique'
  BY <1>1 DEF ParkedUnique, SameFrame
<1>6. HandedInOrder'
  BY DEF HandedInOrder
<1> QED BY <1>2, <1>3, <1>4, <1>5, <1>6

\* A leg joining the group (attachLeg) moves no frame.
LEMMA AttachIInv ==
  ASSUME IInv, NEW l \in Legs, Attach(l) PROVE IInv'
<1>1. TypeOK'
  BY DEF IInv, TypeOK, Attach, receiver
<1>2. Numbering' /\ Expecting'
  BY DEF IInv, Numbering, Expecting, Attach, receiver
<1> QED BY <1>1, <1>2, FewerInFlight DEF Attach, receiver

\* Entering a channel (register) moves no frame.
LEMMA RegisterIInv ==
  ASSUME IInv, NEW c \in Channels, Register(c) PROVE IInv'
<1>1. TypeOK'
  BY DEF IInv, TypeOK, Register, sender, reseq
<1>2. Numbering' /\ Expecting'
  BY DEF IInv, Numbering, Expecting, Register, sender, reseq
<1> QED BY <1>1, <1>2, FewerInFlight DEF Register, sender, reseq

\* Ending a channel (unregister, onDone) only forgets parked frames.
LEMMA UnregisterIInv ==
  ASSUME IInv, NEW c \in Channels, Unregister(c) PROVE IInv'
<1> USE DEF Unregister, Drop, sender
<1>1. TypeOK'
  BY DEF IInv, TypeOK
<1>2. Numbering' /\ Expecting'
  BY DEF IInv, TypeOK, Numbering, Expecting
<1>3. \A d \in Channels : parked'[d] = parked[d] \/ parked'[d] = {}
  BY DEF IInv, TypeOK
<1> QED BY <1>1, <1>2, <1>3, FewerInFlight

\* A dying leg only loses the frames it carries.
LEMMA LegDownIInv ==
  ASSUME IInv, NEW l \in Legs, LegDown(l) PROVE IInv'
<1> USE DEF LegDown, sender, receiver
<1>1. TypeOK'
  BY EmptySeq DEF IInv, TypeOK
<1>2. Numbering' /\ Expecting'
  BY DEF IInv, Numbering, Expecting
<1>3. \A m \in Legs : wire'[m] = wire[m] \/ wire'[m] = <<>>
  BY DEF IInv, TypeOK
<1> QED BY <1>1, <1>2, <1>3, FewerInFlight

\* The sender's teardown (sendSeq.clear) leaves the frames in flight alone.
LEMMA SenderDownIInv ==
  ASSUME IInv, SenderDown PROVE IInv'
<1> USE DEF SenderDown, receiver
<1>1. TypeOK'
  <2>1. nextSeq' \in [Channels -> 0..MaxFrames]
    BY DEF Zero
  <2>2. sndUp' \in BOOLEAN
    OBVIOUS
  <2> QED BY <2>1, <2>2 DEF IInv, TypeOK
<1>2. Numbering' /\ Expecting'
  BY DEF IInv, Numbering, Expecting
<1> QED BY <1>1, <1>2, FewerInFlight

\* The shape of the receiver's state after its teardown.
LEMMA TearDownShape ==
  ASSUME IInv, TearDown, UNCHANGED <<sndUp, nextSeq, produced, handed>>
  PROVE  /\ Numbering' /\ Expecting'
         /\ rcvUp' \in BOOLEAN
         /\ chan' \in [Channels -> {"none", "open", "gone"}]
         /\ held' \in SUBSET Channels
         /\ expected' \in [Channels -> 0..MaxFrames]
         /\ parked' \in [Channels -> SUBSET Frame]
         /\ buffered' \in [Channels -> Int]
         /\ \A c \in Channels : parked'[c] = {}
<1> USE DEF TearDown, Reset, Zero, Nothing, AllGone
<1>1. Numbering'
  BY DEF IInv, Numbering
<1>2. Expecting'
  BY DEF IInv, Expecting
<1>3. expected' \in [Channels -> 0..MaxFrames] /\ buffered' \in [Channels -> Int]
  OBVIOUS
<1>4. parked' \in [Channels -> SUBSET Frame] /\ \A c \in Channels : parked'[c] = {}
  OBVIOUS
<1>5. chan' \in [Channels -> {"none", "open", "gone"}]
  BY DEF IInv, TypeOK
<1> QED BY <1>1, <1>2, <1>3, <1>4, <1>5

\* The receiver's teardown (teardown, abortAllChannels) only forgets frames.
LEMMA ReceiverDownIInv ==
  ASSUME IInv, ReceiverDown PROVE IInv'
<1> USE DEF ReceiverDown, sender
<1>1. \A l \in Legs : wire'[l] = wire[l] \/ wire'[l] = <<>>
  BY DEF Quiet
<1>2. wire' \in [Legs -> Seq(Frame)]
  BY EmptySeq DEF IInv, TypeOK, Quiet
<1>3. TypeOK' /\ Numbering' /\ Expecting'
  BY <1>2, TearDownShape DEF IInv, TypeOK
<1> QED BY <1>1, <1>3, TearDownShape, FewerInFlight

\* A rebuilt group starts with nothing in flight and every counter at zero.
LEMMA RebuildIInv ==
  ASSUME IInv, Rebuild PROVE IInv'
<1> USE DEF Rebuild, FreshSession, Reset, Zero, Nothing, reseq
<1>1. /\ nextSeq' = Zero /\ expected' = Zero
      /\ parked' = Nothing /\ buffered' = Zero /\ held' = {}
  BY DEF ClientDown, IInv, Numbering, Zero, Nothing
<1>2. TypeOK'
  BY <1>1, EmptySeq DEF TypeOK, Anew, Quiet
<1>3. \A l \in Legs : Len(wire'[l]) = 0
  BY EmptySeq DEF Quiet
<1>4. \A c \in Channels : Len(handed'[c]) = 0 /\ handed'[c] = <<>>
  BY EmptySeq
<1>5. Numbering' /\ Expecting'
  BY <1>1, <1>4 DEF Numbering, Expecting
<1>6. WireFresh' /\ WireUnique'
  BY <1>3 DEF WireFresh, WireUnique
<1>7. ParkedFresh' /\ ParkedUnique'
  BY <1>1, FS_EmptySet DEF ParkedFresh, ParkedUnique
<1>8. HandedInOrder'
  BY <1>4 DEF HandedInOrder
<1> QED BY <1>2, <1>5, <1>6, <1>7, <1>8 DEF IInv

\* A sent frame (sendControl, sendData) carries the next number of its channel
\* and is in one place.
LEMMA SendIInv ==
  ASSUME IInv, NEW c \in Channels, NEW l \in Legs, NEW k \in Kinds, Send(c, l, k)
  PROVE  IInv'
<1> DEFINE f == Numbered(c, k)
<1>1. /\ nextSeq[c] = produced[c] /\ f \in Frame
      /\ f.ch = c /\ f.seq = produced[c] /\ f.n = produced[c]
      /\ produced[c] \in Nat /\ produced[c] < MaxFrames
      /\ sndUp
  BY DEF IInv, TypeOK, Numbering, Numbered, Frame, Seqs, Send
<1>2. /\ produced' = [produced EXCEPT ![c] = @ + 1]
      /\ nextSeq' = [nextSeq EXCEPT ![c] = @ + 1]
      /\ UNCHANGED <<sndUp, legState, rcvUp, chan, held, expected, parked,
                     buffered, handed>>
      /\ wire' = wire \/ wire' = [wire EXCEPT ![l] = Append(@, f)]
  BY DEF Send, receiver
<1> HIDE DEF f
<1>3. wire' \in [Legs -> Seq(Frame)]
  <2>1. wire \in [Legs -> Seq(Frame)]
    BY DEF IInv, TypeOK
  <2>2. Append(wire[l], f) \in Seq(Frame)
    BY <2>1, <1>1, AppendProperties
  <2> QED BY <1>2, <2>1, <2>2
<1>4. TypeOK'
  BY <1>1, <1>2, <1>3, SMTT(60) DEF IInv, TypeOK
<1>5. \A m \in Legs : \A i \in 1..Len(wire'[m]) :
         \/ i \in 1..Len(wire[m]) /\ wire'[m][i] = wire[m][i]
         \/ m = l /\ i = Len(wire[l]) + 1 /\ wire'[m][i] = f
  <2> SUFFICES ASSUME NEW m \in Legs, NEW i \in 1..Len(wire'[m])
               PROVE  \/ i \in 1..Len(wire[m]) /\ wire'[m][i] = wire[m][i]
                      \/ m = l /\ i = Len(wire[l]) + 1 /\ wire'[m][i] = f
    OBVIOUS
  <2>1. CASE wire'[m] = wire[m]
    BY <2>1
  <2>2. CASE m = l /\ wire'[m] = Append(wire[l], f)
    <3>1. wire[l] \in Seq(Frame)
      BY DEF IInv, TypeOK
    <3>2. /\ Len(wire[l]) \in Nat
          /\ Len(wire'[m]) = Len(wire[l]) + 1
          /\ \A j \in 1..Len(wire[l]) : wire'[m][j] = wire[l][j]
          /\ wire'[m][Len(wire[l]) + 1] = f
      BY <2>2, <3>1, <1>1, AppendProperties, LenProperties
    <3> QED BY <2>2, <3>2
  <2> QED BY <1>2, <2>1, <2>2 DEF IInv, TypeOK
<1>6. Numbering'
  BY <1>1, <1>2 DEF IInv, TypeOK, Numbering
<1>7. Expecting'
  BY <1>1, <1>2 DEF IInv, TypeOK, Expecting
<1>8. \A g \in Frame : Fresh(g) =>
         g.seq < produced'[g.ch] /\ ~SameFrame(g, f) /\ ~SameFrame(f, g)
  BY <1>1, <1>2, SMTT(60) DEF IInv, TypeOK, Fresh, SameFrame, Frame, Seqs
<1>9. f.n = f.seq /\ Len(handed'[f.ch]) <= f.seq /\ f.seq < produced'[f.ch]
  BY <1>1, <1>2, LenProperties DEF IInv, TypeOK, Expecting
<1>10. \A m \in Legs : \A i \in 1..Len(wire[m]) :
          wire[m][i] \in Frame /\ Fresh(wire[m][i])
  BY ElementOfSeq DEF IInv, TypeOK, WireFresh
<1>11. \A d \in Channels : \A g \in parked[d] : g \in Frame /\ g.ch = d /\ Fresh(g)
  BY DEF IInv, TypeOK, ParkedFresh
<1>12. WireFresh'
  <2> SUFFICES ASSUME NEW m \in Legs, NEW i \in 1..Len(wire'[m])
               PROVE  /\ wire'[m][i].n = wire'[m][i].seq
                      /\ Len(handed'[wire'[m][i].ch]) <= wire'[m][i].seq
                      /\ wire'[m][i].seq < produced'[wire'[m][i].ch]
    BY DEF WireFresh, Fresh
  <2>1. CASE i \in 1..Len(wire[m]) /\ wire'[m][i] = wire[m][i]
    <3>1. wire[m][i] \in Frame /\ Fresh(wire[m][i])
      BY <1>10, <2>1
    <3>2. wire[m][i].seq < produced'[wire[m][i].ch]
      BY <1>8, <3>1
    <3> QED BY <1>2, <2>1, <3>1, <3>2 DEF Fresh
  <2>2. CASE wire'[m][i] = f
    BY <1>9, <2>2
  <2> QED BY <1>5, <2>1, <2>2
<1>13. WireUnique'
  <2> SUFFICES ASSUME NEW m \in Legs, NEW p \in Legs,
                      NEW i \in 1..Len(wire'[m]), NEW j \in 1..Len(wire'[p]),
                      SameFrame(wire'[m][i], wire'[p][j])
               PROVE  m = p /\ i = j
    BY DEF WireUnique, SameFrame
  <2>1. CASE /\ i \in 1..Len(wire[m]) /\ wire'[m][i] = wire[m][i]
             /\ j \in 1..Len(wire[p]) /\ wire'[p][j] = wire[p][j]
    BY <2>1 DEF IInv, WireUnique
  <2>2. CASE /\ m = l /\ i = Len(wire[l]) + 1 /\ wire'[m][i] = f
             /\ j \in 1..Len(wire[p]) /\ wire'[p][j] = wire[p][j]
    BY <2>2, <1>8, <1>10
  <2>3. CASE /\ i \in 1..Len(wire[m]) /\ wire'[m][i] = wire[m][i]
             /\ p = l /\ j = Len(wire[l]) + 1 /\ wire'[p][j] = f
    BY <2>3, <1>8, <1>10
  <2>4. CASE /\ m = l /\ i = Len(wire[l]) + 1
             /\ p = l /\ j = Len(wire[l]) + 1
    BY <2>4
  <2> QED BY <1>5, <2>1, <2>2, <2>3, <2>4
<1>14. ParkedFresh'
  <2> SUFFICES ASSUME NEW d \in Channels
               PROVE  /\ IsFiniteSet(parked'[d])
                      /\ \A g \in parked'[d] :
                           /\ g.ch = d /\ g.n = g.seq
                           /\ Len(handed'[g.ch]) <= g.seq
                           /\ g.seq < produced'[g.ch]
    BY DEF ParkedFresh, Fresh
  <2> QED BY <1>2, <1>8, <1>11 DEF IInv, ParkedFresh, Fresh
<1>15. ParkedUnique'
  <2> SUFFICES ASSUME NEW d \in Channels
               PROVE  /\ \A g, h \in parked'[d] : g.seq = h.seq => g = h
                      /\ \A g \in parked'[d], m \in Legs : \A i \in 1..Len(wire'[m]) :
                           ~SameFrame(wire'[m][i], g)
    BY DEF ParkedUnique, SameFrame
  <2>1. \A g \in parked[d] : ~SameFrame(f, g)
    BY <1>8, <1>11
  <2> QED BY <1>2, <1>5, <2>1 DEF IInv, ParkedUnique
<1>16. HandedInOrder'
  BY <1>2 DEF IInv, HandedInOrder
<1> QED BY <1>4, <1>6, <1>7, <1>12, <1>13, <1>14, <1>15, <1>16 DEF IInv

\* Taking the first frame off a leg: it knows its turn, and nothing else in
\* flight is a copy of it.
LEMMA TakeHead ==
  ASSUME IInv, NEW l \in Legs, wire[l] # <<>>,
         wire' = [wire EXCEPT ![l] = Tail(@)]
  PROVE  LET f == Head(wire[l])
         IN /\ f \in Frame /\ Fresh(f)
            /\ wire' \in [Legs -> Seq(Frame)]
            /\ WireUnique'
            /\ \A m \in Legs : \A i \in 1..Len(wire'[m]) :
                 /\ wire'[m][i] \in Frame
                 /\ Fresh(wire'[m][i])
                 /\ ~SameFrame(wire'[m][i], f)
                 /\ \A d \in Channels : \A g \in parked[d] :
                      ~SameFrame(wire'[m][i], g)
            /\ \A d \in Channels : \A g \in parked[d] : ~SameFrame(f, g)
<1> DEFINE f == Head(wire[l])
<1>1. wire \in [Legs -> Seq(Frame)]
  BY DEF IInv, TypeOK
<1>2. /\ f = wire[l][1] /\ f \in Frame
      /\ Len(wire[l]) \in Nat /\ Len(wire[l]) >= 1
      /\ Tail(wire[l]) \in Seq(Frame)
      /\ Len(Tail(wire[l])) = Len(wire[l]) - 1
      /\ \A i \in 1..(Len(wire[l]) - 1) : Tail(wire[l])[i] = wire[l][i + 1]
  BY <1>1, HeadTailProperties, EmptySeq, LenProperties
<1>3. wire' \in [Legs -> Seq(Frame)]
  BY <1>1, <1>2
<1>4. Fresh(f)
  BY <1>2 DEF IInv, WireFresh
<1> DEFINE old(m, i) == IF m = l THEN i + 1 ELSE i
<1>5. \A m \in Legs : \A i \in 1..Len(wire'[m]) :
         /\ old(m, i) \in 1..Len(wire[m])
         /\ wire'[m][i] = wire[m][old(m, i)]
         /\ ~(m = l /\ old(m, i) = 1)
  <2> SUFFICES ASSUME NEW m \in Legs, NEW i \in 1..Len(wire'[m])
               PROVE  /\ old(m, i) \in 1..Len(wire[m])
                      /\ wire'[m][i] = wire[m][old(m, i)]
                      /\ ~(m = l /\ old(m, i) = 1)
    OBVIOUS
  <2>1. CASE m = l
    <3>1. wire'[m] = Tail(wire[l])
      BY <1>1, <2>1
    <3>2. Len(wire'[m]) = Len(wire[l]) - 1
      BY <1>2, <3>1
    <3>3. i \in 1..(Len(wire[l]) - 1) /\ wire'[m][i] = wire[l][i + 1]
      BY <1>2, <3>1, <3>2
    <3> QED BY <1>2, <2>1, <3>3
  <2>2. CASE m # l
    <3>1. wire'[m] = wire[m]
      BY <1>1, <2>2
    <3> QED BY <2>2, <3>1
  <2> QED BY <2>1, <2>2
<1>6. WireUnique'
  <2> SUFFICES ASSUME NEW m \in Legs, NEW p \in Legs,
                      NEW i \in 1..Len(wire'[m]), NEW j \in 1..Len(wire'[p]),
                      SameFrame(wire'[m][i], wire'[p][j])
               PROVE  m = p /\ i = j
    BY DEF WireUnique, SameFrame
  <2>1. m = p /\ old(m, i) = old(p, j)
    BY <1>5, SMTT(60) DEF IInv, WireUnique
  <2> QED BY <2>1
<1>7. \A m \in Legs : \A i \in 1..Len(wire'[m]) : ~SameFrame(wire'[m][i], f)
  BY <1>2, <1>5 DEF IInv, WireUnique
<1>8. \A m \in Legs : \A i \in 1..Len(wire[m]) :
         wire[m][i] \in Frame /\ Fresh(wire[m][i])
  <2>1. \A m \in Legs : \A i \in 1..Len(wire[m]) : wire[m][i] \in Frame
    BY <1>1, ElementOfSeq
  <2> QED BY <2>1 DEF IInv, WireFresh
<1>9. \A m \in Legs : \A i \in 1..Len(wire'[m]) :
         wire'[m][i] \in Frame /\ Fresh(wire'[m][i])
  BY <1>5, <1>8
<1>10. \A m \in Legs : \A i \in 1..Len(wire'[m]) :
         \A d \in Channels : \A g \in parked[d] : ~SameFrame(wire'[m][i], g)
  BY <1>5 DEF IInv, ParkedUnique
<1>11. \A d \in Channels : \A g \in parked[d] : ~SameFrame(f, g)
  BY <1>2 DEF IInv, ParkedUnique
<1> QED BY <1>2, <1>3, <1>4, <1>6, <1>7, <1>9, <1>10, <1>11

\* A channel's entry that expects f's seq expects the next frame in order.
LEMMA NextInOrder ==
  ASSUME IInv, NEW f \in Frame, Fresh(f), f.seq = expected[f.ch]
  PROVE  Len(handed[f.ch]) = f.seq
<1>1. Len(handed[f.ch]) \in Nat /\ f.seq \in Nat /\ f.ch \in Channels
  BY LenProperties DEF IInv, TypeOK, Frame, Seqs
<1> QED BY <1>1 DEF IInv, Expecting, Fresh

\* What a sweep hands over: consecutive frames from f on, none beyond what
\* was produced, each at its true place.
LEMMA RunInOrder ==
  ASSUME IInv, NEW f \in Frame, Fresh(f), NEW e \in 1..MaxFrames,
         SweepEnd(f.ch, f.seq, e)
  PROVE  /\ e <= produced[f.ch]
         /\ e - f.seq \in Nat
         /\ Run(f, e) \in [1..(e - f.seq) -> Frame]
         /\ \A i \in 1..(e - f.seq) : Run(f, e)[i].n = f.seq + i - 1
<1> DEFINE c == f.ch  s == f.seq
<1>1. /\ c \in Channels /\ s \in Nat /\ e \in Nat /\ s < e
      /\ f.n = s /\ s < produced[c] /\ produced[c] \in Nat
  BY DEF IInv, TypeOK, Frame, Seqs, Fresh, SweepEnd
<1>2. \A k \in (s + 1)..(e - 1) : \E g \in parked[c] : g.seq = k
  BY DEF SweepEnd, ParkedSeqs
<1>3. \A g \in parked[c] : g \in Frame /\ g.n = g.seq /\ g.seq < produced[c]
  BY <1>1 DEF IInv, TypeOK, ParkedFresh, Fresh
<1>4. e <= produced[c]
  <2>1. CASE e = s + 1
    BY <1>1, <2>1
  <2>2. CASE e > s + 1
    <3>1. PICK g \in parked[c] : g.seq = e - 1
      BY <1>1, <1>2, <2>2
    <3> QED BY <1>1, <1>3, <3>1
  <2> QED BY <1>1, <2>1, <2>2
<1>5. \A i \in 1..(e - s) :
        LET r == IF i = 1 THEN f ELSE CHOOSE g \in parked[c] : g.seq = s + i - 1
        IN r \in Frame /\ r.n = s + i - 1
  <2> SUFFICES ASSUME NEW i \in 1..(e - s)
               PROVE LET r == IF i = 1 THEN f
                              ELSE CHOOSE g \in parked[c] : g.seq = s + i - 1
                     IN r \in Frame /\ r.n = s + i - 1
    OBVIOUS
  <2>1. CASE i = 1
    BY <1>1, <2>1
  <2>2. CASE i # 1
    <3>1. s + i - 1 \in (s + 1)..(e - 1)
      BY <1>1, <2>2
    <3>2. \E g \in parked[c] : g.seq = s + i - 1
      BY <1>2, <3>1
    <3> QED BY <1>3, <2>2, <3>2
  <2> QED BY <2>1, <2>2
<1> QED BY <1>1, <1>4, <1>5 DEF Run

\* What the deliver callback is called with in a sweep continues the log in
\* order.
LEMMA LogInOrder ==
  ASSUME NEW f \in Frame, NEW k \in Nat, NEW run \in [1..k -> Frame],
         NEW cut \in Cuts(f, run)
  PROVE  /\ Log(f, run, cut) \in Seq(Handed)
         /\ Len(Log(f, run, cut)) = k
         /\ \A i \in 1..k : Log(f, run, cut)[i].n = run[i].n
<1>1. cut \in Nat
  BY DEF Cuts
<1>2. \A i \in 1..k : Fate(f, run, i, cut) \in Fates
  <2> SUFFICES ASSUME NEW i \in 1..k PROVE Fate(f, run, i, cut) \in Fates
    OBVIOUS
  <2>1. CASE ~HasChannel(f) \/ (cut # 0 /\ i > cut)
    BY <1>1, <2>1 DEF Fate, Fates
  <2>2. CASE HasChannel(f) /\ (cut = 0 \/ i <= cut)
    BY <1>1, <2>2 DEF Fate, Fates
  <2> QED BY <1>1, <2>1, <2>2
<1>3. Log(f, run, cut) = [i \in 1..k |->
        [n |-> run[i].n, kind |-> run[i].kind, fate |-> Fate(f, run, i, cut)]]
  BY DEF Log
<1>4. \A i \in 1..k :
        [n |-> run[i].n, kind |-> run[i].kind, fate |-> Fate(f, run, i, cut)]
          \in Handed
  BY <1>2 DEF Frame, Handed
<1>5. Log(f, run, cut) \in [1..k -> Handed]
  BY <1>3, <1>4
<1> QED BY <1>3, <1>5

\* The hypotheses the receive cases share: f was taken off a leg.
TakenOff(f) ==
  /\ f \in Frame /\ Fresh(f)
  /\ wire' \in [Legs -> Seq(Frame)]
  /\ WireUnique'
  /\ \A m \in Legs : \A i \in 1..Len(wire'[m]) :
       /\ wire'[m][i] \in Frame
       /\ Fresh(wire'[m][i])
       /\ ~SameFrame(wire'[m][i], f)
       /\ \A d \in Channels : \A g \in parked[d] : ~SameFrame(wire'[m][i], g)
  /\ \A d \in Channels : \A g \in parked[d] : ~SameFrame(f, g)
  /\ legState' \in [Legs -> {"absent", "up", "down"}]
  /\ UNCHANGED <<sndUp, nextSeq, produced>>
  /\ Side = "client" => rcvUp

\* A receive that hands nothing over and parks at most f.
LEMMA ParkOrDropIInv ==
  ASSUME IInv, NEW f, TakenOff(f),
         UNCHANGED handed,
         rcvUp' \in BOOLEAN,
         chan' \in [Channels -> {"none", "open", "gone"}],
         held' \in SUBSET Channels,
         expected' \in [Channels -> 0..MaxFrames],
         \A c \in Channels : expected'[c] \in {expected[c], 0},
         parked' \in [Channels -> SUBSET Frame],
         \A c \in Channels : \/ parked'[c] = parked[c]
                             \/ parked'[c] = {}
                             \/ c = f.ch /\ parked'[c] = parked[c] \cup {f},
         buffered' \in [Channels -> Int],
         Numbering'
  PROVE  IInv'
<1>1. TypeOK'
  BY DEF IInv, TypeOK, TakenOff
<1>2. Expecting'
  BY DEF IInv, Expecting, TakenOff
<1>3. WireFresh'
  BY DEF TakenOff, WireFresh, Fresh
<1>4. \A c \in Channels : \A g \in parked'[c] :
         g \in Frame /\ g.ch = c /\ Fresh(g) /\ (g \in parked[c] \/ g = f)
  <2> SUFFICES ASSUME NEW c \in Channels, NEW g \in parked'[c]
               PROVE  g \in Frame /\ g.ch = c /\ Fresh(g) /\ (g \in parked[c] \/ g = f)
    OBVIOUS
  <2>1. CASE g \in parked[c]
    BY <2>1 DEF IInv, TypeOK, ParkedFresh
  <2>2. CASE g = f /\ c = f.ch
    BY <2>2 DEF TakenOff
  <2> QED BY <2>1, <2>2
<1>5. ParkedFresh'
  <2>1. \A c \in Channels : IsFiniteSet(parked'[c])
    <3> SUFFICES ASSUME NEW c \in Channels PROVE IsFiniteSet(parked'[c])
      OBVIOUS
    <3>1. IsFiniteSet(parked[c])
      BY DEF IInv, ParkedFresh
    <3>2. IsFiniteSet(parked[c] \cup {f})
      BY <3>1, FS_AddElement
    <3> QED BY <3>1, <3>2, FS_EmptySet
  <2> QED BY <1>4, <2>1 DEF ParkedFresh, Fresh, TakenOff
<1>6. ParkedUnique'
  <2> SUFFICES ASSUME NEW c \in Channels
               PROVE  /\ \A g, h \in parked'[c] : g.seq = h.seq => g = h
                      /\ \A g \in parked'[c], m \in Legs : \A i \in 1..Len(wire'[m]) :
                           ~SameFrame(wire'[m][i], g)
    BY DEF ParkedUnique, SameFrame
  <2>1. \A g, h \in parked'[c] : g.seq = h.seq => g = h
    <3> SUFFICES ASSUME NEW g \in parked'[c], NEW h \in parked'[c], g.seq = h.seq
                 PROVE  g = h
      OBVIOUS
    <3>1. g.ch = c /\ h.ch = c
      BY <1>4
    <3>2. CASE g \in parked[c] /\ h \in parked[c]
      BY <3>2 DEF IInv, ParkedUnique
    <3>3. CASE g = f /\ h \in parked[c]
      BY <3>1, <3>3 DEF TakenOff, SameFrame
    <3>4. CASE g \in parked[c] /\ h = f
      BY <3>1, <3>4 DEF TakenOff, SameFrame
    <3> QED BY <1>4, <3>2, <3>3, <3>4
  <2>2. \A g \in parked'[c], m \in Legs : \A i \in 1..Len(wire'[m]) :
           ~SameFrame(wire'[m][i], g)
    <3> SUFFICES ASSUME NEW g \in parked'[c], NEW m \in Legs, NEW i \in 1..Len(wire'[m])
                 PROVE  ~SameFrame(wire'[m][i], g)
      OBVIOUS
    <3>1. CASE g \in parked[c]
      BY <3>1 DEF TakenOff
    <3>2. CASE g = f
      BY <3>2 DEF TakenOff
    <3> QED BY <1>4, <3>1, <3>2
  <2> QED BY <2>1, <2>2
<1>7. HandedInOrder'
  BY DEF IInv, HandedInOrder
<1> QED BY <1>1, <1>2, <1>3, <1>5, <1>6, <1>7, Zenon DEF IInv, TakenOff

\* feed with an old seq keeps the invariant (the frame is dropped).
LEMMA FeedOldIInv ==
  ASSUME IInv, NEW f, TakenOff(f), FeedOld(f) PROVE IInv'
<1>1. Numbering'
  BY DEF IInv, Numbering, TakenOff, FeedOld
<1>2. held' \in SUBSET Channels
  BY DEF IInv, TypeOK, TakenOff, FeedOld, Frame
<1> QED BY <1>1, <1>2, ParkOrDropIInv DEF IInv, TypeOK, FeedOld

\* feed with a seq ahead keeps the invariant (the frame is parked).
LEMMA FeedAheadIInv ==
  ASSUME IInv, NEW f, TakenOff(f), FeedAhead(f) PROVE IInv'
<1>1. Numbering'
  BY DEF IInv, Numbering, TakenOff, FeedAhead
<1>2. held' \in SUBSET Channels /\ f.ch \in Channels /\ f \in Frame
  BY DEF IInv, TypeOK, TakenOff, FeedAhead, Frame
<1>3. ItemBytes({f}) \in Nat
  BY BytesAreInt, FS_Singleton
<1>4. parked' \in [Channels -> SUBSET Frame] /\ buffered' \in [Channels -> Int]
  <2>1. CASE f.seq \in ParkedSeqs(f.ch)
    BY <2>1 DEF IInv, TypeOK, FeedAhead
  <2>2. CASE f.seq \notin ParkedSeqs(f.ch)
    <3>1. parked' = [parked EXCEPT ![f.ch] = @ \cup {f}]
      BY <2>2 DEF FeedAhead
    <3>2. buffered' = [buffered EXCEPT ![f.ch] = @ + ItemBytes({f})]
      BY <2>2 DEF FeedAhead
    <3>3. parked' \in [Channels -> SUBSET Frame]
      BY <1>2, <3>1 DEF IInv, TypeOK
    <3>4. buffered' \in [Channels -> Int]
      BY <1>2, <1>3, <3>2 DEF IInv, TypeOK
    <3> QED BY <3>3, <3>4
  <2> QED BY <2>1, <2>2
<1>5. \A c \in Channels : \/ parked'[c] = parked[c]
                          \/ c = f.ch /\ parked'[c] = parked[c] \cup {f}
  <2>1. \/ parked' = parked
        \/ parked' = [parked EXCEPT ![f.ch] = @ \cup {f}]
    BY DEF FeedAhead
  <2> QED BY <1>2, <2>1 DEF IInv, TypeOK
<1> QED BY <1>1, <1>2, <1>4, <1>5, ParkOrDropIInv DEF IInv, TypeOK, FeedAhead

\* feed over the limit keeps the invariant (the entry is dropped, or all).
LEMMA FeedOverflowIInv ==
  ASSUME IInv, NEW f, TakenOff(f), FeedOverflow(f) PROVE IInv'
<1>1. UNCHANGED handed
  BY DEF FeedOverflow
<1>2. CASE TearDown
  <2>1. \A c \in Channels : expected'[c] = 0
    BY <1>2 DEF TearDown, Reset, Zero
  <2> QED BY <1>1, <1>2, <2>1, TearDownShape, ParkOrDropIInv DEF TakenOff
<1>3. CASE Drop(f.ch) /\ UNCHANGED <<rcvUp, chan>>
  <2>1. f.ch \in Channels
    BY DEF TakenOff, Frame
  <2>2. Numbering'
    BY <1>3 DEF IInv, Numbering, TakenOff
  <2>3. /\ held' \in SUBSET Channels
        /\ expected' \in [Channels -> 0..MaxFrames]
        /\ \A c \in Channels : expected'[c] \in {expected[c], 0}
        /\ buffered' \in [Channels -> Int]
    BY <1>3, <2>1 DEF IInv, TypeOK, Drop
  <2>4. /\ parked' \in [Channels -> SUBSET Frame]
        /\ \A c \in Channels : parked'[c] = parked[c] \/ parked'[c] = {}
    BY <1>3, <2>1 DEF IInv, TypeOK, Drop
  <2> QED BY <1>1, <1>3, <2>2, <2>3, <2>4, ParkOrDropIInv DEF IInv, TypeOK
<1> QED BY <1>2, <1>3 DEF FeedOverflow

\* The frame a channel waits for arrives and the sweep follows.
LEMMA FeedExpectedIInv ==
  ASSUME IInv, NEW f, TakenOff(f), f.seq = expected[f.ch], FeedExpected(f)
  PROVE  IInv'
<1> DEFINE c == f.ch  s == f.seq
<1>1. /\ f \in Frame /\ Fresh(f) /\ c \in Channels /\ s \in Nat
      /\ Len(handed[c]) = s /\ handed[c] \in Seq(Handed)
  <2>1. f \in Frame /\ Fresh(f)
    BY DEF TakenOff
  <2>2. c \in Channels /\ s \in Nat
    BY <2>1 DEF Frame, Seqs
  <2>3. Len(handed[c]) = s
    BY <2>1, NextInOrder
  <2> QED BY <2>1, <2>2, <2>3 DEF IInv, TypeOK
<1>2. PICK e \in 1..MaxFrames :
        /\ SweepEnd(c, s, e)
        /\ LET run   == Run(f, e)
               swept == {g \in parked[c] : g.seq < e}
           IN \E cut \in Cuts(f, run) :
                /\ handed' = [handed EXCEPT ![c] = @ \o Log(f, run, cut)]
                /\ chan' = ChanAfter(f, cut)
                /\ IF cut # 0
                   THEN Drop(c)
                   ELSE /\ held' = held \cup {c}
                        /\ expected' = [expected EXCEPT ![c] = e]
                        /\ parked' = [parked EXCEPT ![c] = @ \ swept]
                        /\ buffered' = [buffered EXCEPT ![c] = @ - ItemBytes(swept)]
  BY DEF FeedExpected
<1> DEFINE run == Run(f, e)  swept == {g \in parked[c] : g.seq < e}
<1>3. PICK cut \in Cuts(f, run) :
        /\ handed' = [handed EXCEPT ![c] = @ \o Log(f, run, cut)]
        /\ chan' = ChanAfter(f, cut)
        /\ IF cut # 0
           THEN Drop(c)
           ELSE /\ held' = held \cup {c}
                /\ expected' = [expected EXCEPT ![c] = e]
                /\ parked' = [parked EXCEPT ![c] = @ \ swept]
                /\ buffered' = [buffered EXCEPT ![c] = @ - ItemBytes(swept)]
  BY <1>2
<1>4. /\ e <= produced[c] /\ e - s \in Nat /\ s < e /\ e \in Nat
      /\ run \in [1..(e - s) -> Frame]
      /\ \A i \in 1..(e - s) : run[i].n = s + i - 1
  <2>1. SweepEnd(f.ch, f.seq, e)
    BY <1>2
  <2>2. s < e /\ e \in Nat
    BY <1>1, <2>1 DEF SweepEnd
  <2>3. /\ e <= produced[f.ch] /\ e - f.seq \in Nat
        /\ Run(f, e) \in [1..(e - f.seq) -> Frame]
        /\ \A i \in 1..(e - f.seq) : Run(f, e)[i].n = f.seq + i - 1
    BY <1>1, <2>1, RunInOrder
  <2> QED BY <2>2, <2>3
<1>5. \A k \in (s + 1)..(e - 1) : \E g \in parked[c] : g.seq = k
  BY <1>2 DEF SweepEnd, ParkedSeqs
<1>6. UNCHANGED rcvUp
  BY DEF FeedExpected
<1> DEFINE log == Log(f, run, cut)
<1>7. /\ log \in Seq(Handed) /\ Len(log) = e - s
      /\ \A i \in 1..(e - s) : log[i].n = s + i - 1
  BY <1>1, <1>4, LogInOrder
<1>8. handed'[c] = handed[c] \o log /\ \A d \in Channels \ {c} : handed'[d] = handed[d]
  BY <1>1, <1>3 DEF IInv, TypeOK
<1> HIDE DEF run, log
<1>9. /\ handed'[c] \in Seq(Handed) /\ Len(handed'[c]) = e
      /\ \A i \in 1..e : handed'[c][i] = IF i <= s THEN handed[c][i] ELSE log[i - s]
  <2>1. /\ handed[c] \o log \in Seq(Handed)
        /\ Len(handed[c] \o log) = Len(handed[c]) + Len(log)
        /\ \A i \in 1..(Len(handed[c]) + Len(log)) : (handed[c] \o log)[i] =
             IF i <= Len(handed[c]) THEN handed[c][i] ELSE log[i - Len(handed[c])]
    BY <1>1, <1>7, ConcatProperties
  <2>2. Len(handed[c]) + Len(log) = e
    BY <1>1, <1>4, <1>7
  <2> QED BY <1>1, <1>8, <2>1, <2>2
<1>10. handed' \in [Channels -> Seq(Handed)]
  <2>1. handed[c] \o log \in Seq(Handed)
    BY <1>8, <1>9
  <2> QED BY <1>3, <2>1 DEF IInv, TypeOK, log
<1>11. HandedInOrder'
  <2> SUFFICES ASSUME NEW d \in Channels, NEW i \in DOMAIN handed'[d]
               PROVE  handed'[d][i].n = i - 1
    BY DEF HandedInOrder
  <2>1. CASE d # c
    BY <1>8, <2>1 DEF IInv, HandedInOrder
  <2>2. CASE d = c
    <3>1. i \in 1..e
      BY <1>9, <2>2, LenProperties
    <3>2. CASE i <= s
      <4>1. i \in DOMAIN handed[c]
        BY <1>1, <3>1, <3>2, LenProperties
      <4> QED BY <1>9, <2>2, <3>1, <3>2, <4>1, <1>1 DEF IInv, HandedInOrder
    <3>3. CASE i > s
      <4>1. i - s \in 1..(e - s) /\ s + (i - s) - 1 = i - 1
        BY <1>1, <1>4, <3>1, <3>3
      <4>2. handed'[c][i] = log[i - s]
        BY <1>1, <1>9, <3>1, <3>3
      <4> QED BY <1>7, <2>2, <4>1, <4>2
    <3> QED BY <1>1, <3>1, <3>2, <3>3
  <2> QED BY <2>1, <2>2
<1>12. chan' \in [Channels -> {"none", "open", "gone"}]
  BY <1>1, <1>3 DEF IInv, TypeOK, ChanAfter
<1>13. /\ held' \in SUBSET Channels
       /\ expected' \in [Channels -> 0..MaxFrames]
       /\ \A d \in Channels : expected'[d] = IF d = c THEN expected'[c] ELSE expected[d]
       /\ expected'[c] \in {0, e}
       /\ parked' \in [Channels -> SUBSET Frame]
       /\ \A d \in Channels : IF d = c THEN parked'[c] \in {{}, parked[c] \ swept}
                                       ELSE parked'[d] = parked[d]
       /\ buffered' \in [Channels -> Int]
  <2>1. CASE cut # 0
    <3>1. Drop(c)
      BY <1>3, <2>1
    <3>2. parked' = [parked EXCEPT ![c] = {}]
      BY <3>1 DEF Drop
    <3>3. /\ parked' \in [Channels -> SUBSET Frame]
          /\ parked'[c] = {} /\ \A d \in Channels : d # c => parked'[d] = parked[d]
      BY <1>1, <3>2 DEF IInv, TypeOK
    <3>4. /\ held' \in SUBSET Channels
          /\ expected' \in [Channels -> 0..MaxFrames]
          /\ expected'[c] = 0 /\ \A d \in Channels : d # c => expected'[d] = expected[d]
          /\ buffered' \in [Channels -> Int]
      BY <1>1, <3>1 DEF Drop, IInv, TypeOK
    <3> QED BY <3>3, <3>4
  <2>2. CASE cut = 0
    <3>1. IsFiniteSet(swept)
      <4>1. IsFiniteSet(parked[c]) /\ swept \in SUBSET parked[c]
        BY <1>1 DEF IInv, ParkedFresh
      <4> QED BY <4>1, FS_Subset
    <3>2. ItemBytes(swept) \in Nat
      BY <3>1, BytesAreInt
    <3> HIDE DEF swept
    <3>3. /\ held' = held \cup {c}
          /\ expected' = [expected EXCEPT ![c] = e]
          /\ parked' = [parked EXCEPT ![c] = @ \ swept]
          /\ buffered' = [buffered EXCEPT ![c] = @ - ItemBytes(swept)]
      BY <1>3, <2>2
    <3>4. buffered' \in [Channels -> Int]
      BY <1>1, <3>2, <3>3 DEF IInv, TypeOK
    <3>5. parked' \in [Channels -> SUBSET Frame]
      BY <1>1, <3>3 DEF IInv, TypeOK
    <3> QED BY <1>1, <1>2, <3>3, <3>4, <3>5 DEF IInv, TypeOK
  <2> QED BY <2>1, <2>2
<1>14. TypeOK'
  BY <1>6, <1>10, <1>12, <1>13 DEF IInv, TypeOK, TakenOff
<1>15. Expecting'
  <2> SUFFICES ASSUME NEW d \in Channels
               PROVE  /\ expected'[d] \in {0, Len(handed'[d])}
                      /\ Len(handed'[d]) <= produced'[d]
    BY DEF Expecting
  <2>1. CASE d = c
    BY <1>4, <1>9, <1>13, <2>1 DEF TakenOff
  <2>2. CASE d # c
    BY <1>8, <1>13, <2>2 DEF TakenOff, IInv, Expecting
  <2> QED BY <2>1, <2>2
<1>16. Numbering'
  BY <1>6 DEF IInv, Numbering, TakenOff
\* What is still in flight is at or after the new end of the sweep.
<1>17. \A g \in Frame :
         /\ Fresh(g) /\ ~SameFrame(g, f)
         /\ \A h \in parked[c] : SameFrame(g, h) => g.seq >= e
         => Len(handed'[g.ch]) <= g.seq
  <2> SUFFICES ASSUME NEW g \in Frame, Fresh(g), ~SameFrame(g, f),
                      \A h \in parked[c] : SameFrame(g, h) => g.seq >= e
               PROVE  Len(handed'[g.ch]) <= g.seq
    OBVIOUS
  <2>1. CASE g.ch # c
    BY <1>8, <2>1 DEF Fresh, Frame
  <2>2. CASE g.ch = c
    <3>1. g.seq \in Nat /\ g.seq >= s /\ g.seq # s
      BY <1>1, <2>2 DEF Fresh, SameFrame, Frame, Seqs
    <3>2. CASE g.seq < e
      <4>1. PICK h \in parked[c] : h.seq = g.seq
        <5>1. g.seq \in (s + 1)..(e - 1)
          BY <1>1, <1>4, <3>1, <3>2
        <5> QED BY <1>5, <5>1
      <4>2. h.ch = c
        BY <1>1 DEF IInv, ParkedFresh
      <4>3. SameFrame(g, h)
        BY <2>2, <4>1, <4>2 DEF SameFrame
      <4> QED BY <1>4, <3>1, <3>2, <4>3
    <3> QED BY <1>4, <1>9, <2>2, <3>1, <3>2
  <2> QED BY <2>1, <2>2
<1>18. WireFresh'
  <2> SUFFICES ASSUME NEW m \in Legs, NEW i \in 1..Len(wire'[m])
               PROVE  /\ wire'[m][i].n = wire'[m][i].seq
                      /\ Len(handed'[wire'[m][i].ch]) <= wire'[m][i].seq
                      /\ wire'[m][i].seq < produced'[wire'[m][i].ch]
    BY DEF WireFresh, Fresh
  <2>1. /\ wire'[m][i] \in Frame /\ Fresh(wire'[m][i])
        /\ ~SameFrame(wire'[m][i], f)
        /\ \A h \in parked[c] : ~SameFrame(wire'[m][i], h)
    BY <1>1 DEF TakenOff
  <2>2. Len(handed'[wire'[m][i].ch]) <= wire'[m][i].seq
    BY <1>17, <2>1
  <2> QED BY <2>1, <2>2 DEF Fresh, TakenOff
<1>19. \A d \in Channels : \A g \in parked'[d] :
          /\ g \in parked[d] /\ g \in Frame /\ g.ch = d /\ Fresh(g)
          /\ d = c => g.seq >= e
  <2> SUFFICES ASSUME NEW d \in Channels, NEW g \in parked'[d]
               PROVE  /\ g \in parked[d] /\ g \in Frame /\ g.ch = d /\ Fresh(g)
                      /\ d = c => g.seq >= e
    OBVIOUS
  <2>1. g \in parked[d]
    BY <1>13
  <2>2. g \in Frame /\ g.ch = d /\ Fresh(g) /\ g.seq \in Nat
    BY <2>1 DEF IInv, TypeOK, ParkedFresh, Frame, Seqs
  <2>3. ASSUME d = c PROVE g.seq >= e
    <3>1. g \in parked[c] \ swept
      BY <1>1, <1>13, <2>3
    <3> QED BY <1>4, <2>2, <3>1
  <2> QED BY <2>1, <2>2, <2>3
<1>20. ParkedFresh'
  <2> SUFFICES ASSUME NEW d \in Channels
               PROVE  /\ IsFiniteSet(parked'[d])
                      /\ \A g \in parked'[d] :
                           /\ g.ch = d /\ g.n = g.seq
                           /\ Len(handed'[g.ch]) <= g.seq
                           /\ g.seq < produced'[g.ch]
    BY DEF ParkedFresh, Fresh
  <2>1. IsFiniteSet(parked'[d])
    <3>1. IsFiniteSet(parked[d]) /\ parked'[d] \in SUBSET parked[d]
      BY <1>19 DEF IInv, ParkedFresh
    <3> QED BY <3>1, FS_Subset
  <2>2. ASSUME NEW g \in parked'[d]
        PROVE  /\ g.ch = d /\ g.n = g.seq
               /\ Len(handed'[g.ch]) <= g.seq
               /\ g.seq < produced'[g.ch]
    <3>1. g \in parked[d] /\ g \in Frame /\ g.ch = d /\ Fresh(g) /\ (d = c => g.seq >= e)
      BY <1>19, <2>2
    <3>2. ~SameFrame(g, f)
      BY <3>1 DEF TakenOff, SameFrame
    <3>3. ASSUME NEW h \in parked[c], SameFrame(g, h) PROVE g.seq >= e
      <4>1. h.ch = c
        BY <1>1 DEF IInv, ParkedFresh
      <4> QED BY <3>1, <3>3, <4>1 DEF SameFrame
    <3>4. Len(handed'[g.ch]) <= g.seq
      BY <1>17, <3>1, <3>2, <3>3
    <3> QED BY <3>1, <3>4 DEF Fresh, TakenOff
  <2> QED BY <2>1, <2>2
<1>21. ParkedUnique'
  <2> SUFFICES ASSUME NEW d \in Channels
               PROVE  /\ \A g, h \in parked'[d] : g.seq = h.seq => g = h
                      /\ \A g \in parked'[d], m \in Legs : \A i \in 1..Len(wire'[m]) :
                           ~SameFrame(wire'[m][i], g)
    BY DEF ParkedUnique, SameFrame
  <2>1. \A g, h \in parked'[d] : g.seq = h.seq => g = h
    BY <1>19 DEF IInv, ParkedUnique
  <2>2. \A g \in parked'[d], m \in Legs : \A i \in 1..Len(wire'[m]) :
           ~SameFrame(wire'[m][i], g)
    BY <1>19 DEF TakenOff
  <2> QED BY <2>1, <2>2
<1> QED BY <1>11, <1>14, <1>15, <1>16, <1>18, <1>20, <1>21, Zenon DEF IInv, TakenOff

\* Receiving a frame, whichever way feed goes, keeps the invariant.
LEMMA ReceiveIInv ==
  ASSUME IInv, NEW l \in Legs, Receive(l) PROVE IInv'
<1> DEFINE f == Head(wire[l])
<1>1. /\ wire[l] # <<>> /\ Feed(f) /\ (Side = "client" => rcvUp)
      /\ UNCHANGED <<sndUp, nextSeq, produced>>
  BY DEF Receive, sender
<1>2. CASE ~ClientOverflow(f)
  <2>1. wire' = [wire EXCEPT ![l] = Tail(@)] /\ UNCHANGED legState
    BY <1>2 DEF Receive
  <2>2. TakenOff(f)
    BY <1>1, <2>1, TakeHead DEF TakenOff, IInv, TypeOK
  <2> HIDE DEF f
  <2>3. CASE f.seq < expected[f.ch]
    BY <1>1, <2>2, <2>3, FeedOldIInv DEF Feed
  <2>4. CASE f.seq = expected[f.ch]
    <3>1. ~(f.seq < expected[f.ch])
      BY <2>2, <2>4 DEF TakenOff, Frame, Seqs
    <3> QED BY <1>1, <2>2, <2>4, <3>1, FeedExpectedIInv DEF Feed
  <2>5. CASE ~(f.seq < expected[f.ch]) /\ f.seq # expected[f.ch]
    BY <1>1, <2>2, <2>5, FeedOverflowIInv, FeedAheadIInv DEF Feed
  <2> QED BY <2>3, <2>4, <2>5
<1>3. CASE ClientOverflow(f)
  <2> DEFINE c == f.ch
  <2>1. f \in Frame /\ c \in Channels
    <3>1. wire[l] \in Seq(Frame)
      BY DEF IInv, TypeOK
    <3>2. f \in Frame
      BY <1>1, <3>1, HeadTailProperties
    <3> QED BY <3>2 DEF Frame
  <2>2. /\ wire' = Quiet /\ Side = "client" /\ rcvUp
        /\ legState' \in [Legs -> {"absent", "up", "down"}]
    BY <1>1, <1>3 DEF Receive, ClientOverflow, IInv, TypeOK
  <2>3. f.seq > expected[c] /\ Overflows(f) /\ f.seq \in Nat /\ expected[c] \in Nat
    BY <1>3, <2>1 DEF ClientOverflow, IInv, TypeOK, Frame, Seqs
  <2> HIDE DEF f
  <2>4. FeedOverflow(f)
    <3>1. ~(f.seq < expected[c]) /\ f.seq # expected[c]
      BY <2>3
    <3> QED BY <1>1, <2>3, <3>1 DEF Feed
  <2>5. Drop(c) /\ UNCHANGED <<rcvUp, chan, handed>>
    BY <2>2, <2>4 DEF FeedOverflow
  <2>6. TypeOK'
    <3>1. wire' \in [Legs -> Seq(Frame)]
      BY <2>2, EmptySeq DEF Quiet
    <3>2. expected' \in [Channels -> 0..MaxFrames] /\ held' \in SUBSET Channels
      BY <2>1, <2>5 DEF Drop, IInv, TypeOK
    <3>3. parked' \in [Channels -> SUBSET Frame] /\ buffered' \in [Channels -> Int]
      BY <2>1, <2>5 DEF Drop, IInv, TypeOK
    <3> QED BY <1>1, <2>2, <2>5, <3>1, <3>2, <3>3 DEF IInv, TypeOK
  <2>7. Numbering' /\ Expecting'
    BY <1>1, <2>1, <2>2, <2>5 DEF Drop, IInv, TypeOK, Numbering, Expecting
  <2>8. \A m \in Legs : wire'[m] = <<>>
    BY <2>2 DEF Quiet
  <2>9. \A d \in Channels : parked'[d] = parked[d] \/ parked'[d] = {}
    BY <2>1, <2>5 DEF Drop, IInv, TypeOK
  <2> QED BY <1>1, <2>5, <2>6, <2>7, <2>8, <2>9, FewerInFlight
<1> QED BY <1>2, <1>3

\* Every step keeps the inductive invariant.
LEMMA NextIInv == IInv /\ [Next]_vars => IInv'
<1> SUFFICES ASSUME IInv, [Next]_vars PROVE IInv'
  OBVIOUS
<1>1. CASE UNCHANGED vars
  <2>1. TypeOK' /\ Numbering' /\ Expecting'
    BY <1>1 DEF vars, IInv, TypeOK, Numbering, Expecting
  <2> QED BY <1>1, <2>1, FewerInFlight DEF vars
<1>2. CASE Next
  BY <1>2, AttachIInv, RegisterIInv, SendIInv, ReceiveIInv, UnregisterIInv,
     LegDownIInv, SenderDownIInv, ReceiverDownIInv, RebuildIInv DEF Next
<1> QED BY <1>1, <1>2

\* The inductive invariant holds in every reachable state, whatever the
\* number of channels and legs, the frame bound and the parking limit.
THEOREM InductiveInvariant == Spec => []IInv
<1> QED BY InitIInv, NextIInv, PTL DEF Spec

\* The state keeps its types.
THEOREM TypeCorrect == Spec => []TypeOK
<1>1. IInv => TypeOK
  BY DEF IInv
<1> QED BY <1>1, InductiveInvariant, PTL

\* Whichever legs carry a channel's frames, and across any number of broken
\* legs and rebuilt groups, they reach the deliver callback in the order of
\* emission, none twice, none before its predecessors.
THEOREM DeliveredInOrder == Spec => []HandedInOrder
<1>1. IInv => HandedInOrder
  BY DEF IInv
<1> QED BY <1>1, InductiveInvariant, PTL

\* The case "seq < expected", which resequencer.ts calls impossible, is.
THEOREM OldSeqImpossible == Spec => []NoOldSeq
<1>1. IInv => NoOldSeq
  <2> SUFFICES ASSUME IInv, NEW l \in Legs, NEW i \in DOMAIN wire[l]
               PROVE  wire[l][i].seq >= expected[wire[l][i].ch]
    BY DEF NoOldSeq
  <2>1. wire[l] \in Seq(Frame)
    BY DEF IInv, TypeOK
  <2>2. i \in 1..Len(wire[l]) /\ wire[l][i] \in Frame
    BY <2>1, LenProperties, ElementOfSeq
  <2> DEFINE f == wire[l][i]
  <2>3. Fresh(f) /\ f.ch \in Channels /\ f.seq \in Nat
    BY <2>2 DEF IInv, WireFresh, Frame, Seqs
  <2>4. Len(handed[f.ch]) \in Nat /\ expected[f.ch] \in {0, Len(handed[f.ch])}
    BY <2>3, LenProperties DEF IInv, TypeOK, Expecting
  <2> QED BY <2>3, <2>4 DEF Fresh
<1> QED BY <1>1, InductiveInvariant, PTL

-----------------------------------------------------------------------------
\* The byte counter (bufferedBytes).

\* itemBytes counts nothing in an empty buffer.
LEMMA BytesOfNone == ItemBytes({}) = 0
<1>1. {f \in {} : f.kind = "data"} = {}
  OBVIOUS
<1> QED BY <1>1, FS_EmptySet DEF ItemBytes

\* Parking one more frame adds its size.
LEMMA BytesAdded ==
  ASSUME NEW F, IsFiniteSet(F), NEW f, f \notin F
  PROVE  ItemBytes(F \cup {f}) = ItemBytes(F) + ItemBytes({f})
<1> DEFINE D(G) == {g \in G : g.kind = "data"}
<1>1. IsFiniteSet(D(F)) /\ IsFiniteSet(D({f}))
  <2>1. D(F) \in SUBSET F /\ D({f}) \in SUBSET {f} /\ IsFiniteSet({f})
    BY FS_Singleton
  <2> QED BY <2>1, FS_Subset
<1>2. D(F \cup {f}) = D(F) \cup D({f}) /\ D(F) \cap D({f}) = {}
  OBVIOUS
<1>3. Cardinality(D(F \cup {f})) = Cardinality(D(F)) + Cardinality(D({f})) - 0
  BY <1>1, <1>2, FS_Union, FS_EmptySet
<1>4. Cardinality(D(F)) \in Nat /\ Cardinality(D({f})) \in Nat
  BY <1>1, FS_CardinalityType
<1> QED BY <1>3, <1>4 DEF ItemBytes

\* Taking parked frames out subtracts theirs.
LEMMA BytesRemoved ==
  ASSUME NEW F, IsFiniteSet(F), NEW S \in SUBSET F
  PROVE  ItemBytes(F \ S) = ItemBytes(F) - ItemBytes(S)
<1> DEFINE D(G) == {g \in G : g.kind = "data"}
<1>1. IsFiniteSet(D(F))
  <2>1. D(F) \in SUBSET F
    OBVIOUS
  <2> QED BY <2>1, FS_Subset
<1>2. D(F \ S) = D(F) \ D(S) /\ D(F) \cap D(S) = D(S)
  OBVIOUS
<1> HIDE DEF D
<1>3. Cardinality(D(F \ S)) = Cardinality(D(F)) - Cardinality(D(S))
  <2>1. Cardinality(D(F) \ D(S)) = Cardinality(D(F)) - Cardinality(D(F) \cap D(S))
    BY <1>1, FS_Difference
  <2> QED BY <1>2, <2>1
<1> USE DEF D
<1> QED BY <1>3 DEF ItemBytes

\* The sweep, as a fact about its end e and the frame cut on which the channel
\* ended itself.
LEMMA SweepShape ==
  ASSUME IInv, NEW f \in Frame, Fresh(f), f.seq = expected[f.ch], FeedExpected(f)
  PROVE  \E e \in 1..MaxFrames : \E cut \in Cuts(f, Run(f, e)) :
           /\ SweepEnd(f.ch, f.seq, e)
           /\ f.ch \in Channels /\ f.seq \in Nat /\ f.seq < e /\ e <= produced[f.ch]
           /\ Len(handed[f.ch]) = f.seq
           /\ Run(f, e) \in [1..(e - f.seq) -> Frame]
           /\ \A i \in 1..(e - f.seq) : Run(f, e)[i].n = f.seq + i - 1
           /\ handed' = [handed EXCEPT ![f.ch] = @ \o Log(f, Run(f, e), cut)]
           /\ chan' = ChanAfter(f, cut)
           /\ IF cut # 0
              THEN Drop(f.ch)
              ELSE /\ held' = held \cup {f.ch}
                   /\ expected' = [expected EXCEPT ![f.ch] = e]
                   /\ parked' = [parked EXCEPT ![f.ch] = @ \ {g \in parked[f.ch] : g.seq < e}]
                   /\ buffered' = [buffered EXCEPT
                        ![f.ch] = @ - ItemBytes({g \in parked[f.ch] : g.seq < e})]
           /\ UNCHANGED rcvUp
<1>1. f.ch \in Channels /\ f.seq \in Nat /\ Len(handed[f.ch]) = f.seq
  BY NextInOrder DEF Frame, Seqs
<1>2. \A e \in 1..MaxFrames : SweepEnd(f.ch, f.seq, e) =>
        /\ f.seq < e /\ e <= produced[f.ch]
        /\ Run(f, e) \in [1..(e - f.seq) -> Frame]
        /\ \A i \in 1..(e - f.seq) : Run(f, e)[i].n = f.seq + i - 1
  <2> SUFFICES ASSUME NEW e \in 1..MaxFrames, SweepEnd(f.ch, f.seq, e)
               PROVE  /\ f.seq < e /\ e <= produced[f.ch]
                      /\ Run(f, e) \in [1..(e - f.seq) -> Frame]
                      /\ \A i \in 1..(e - f.seq) : Run(f, e)[i].n = f.seq + i - 1
    OBVIOUS
  <2>1. f.seq < e
    BY <1>1 DEF SweepEnd
  <2> QED BY <2>1, RunInOrder
<1> QED BY <1>1, <1>2, Zenon DEF FeedExpected

\* Every step keeps the counter of each entry the size of what is parked.
LEMMA BufferStep == IInv /\ BufferAccounted /\ [Next]_vars => BufferAccounted'
<1> SUFFICES ASSUME IInv, BufferAccounted, [Next]_vars
             PROVE  \A c \in Channels : /\ buffered'[c] = ItemBytes(parked'[c])
                                        /\ buffered'[c] <= MaxParked
  BY DEF BufferAccounted
<1>1. CASE UNCHANGED <<parked, buffered>>
  BY <1>1 DEF BufferAccounted
<1>2. ASSUME NEW d \in Channels, Drop(d)
      PROVE  \A c \in Channels : /\ buffered'[c] = ItemBytes(parked'[c])
                                 /\ buffered'[c] <= MaxParked
  <2>1. /\ parked' = [parked EXCEPT ![d] = {}]
        /\ buffered' = [buffered EXCEPT ![d] = 0]
    BY <1>2 DEF Drop
  <2> QED BY <2>1, BytesOfNone DEF BufferAccounted, IInv, TypeOK
<1>3. ASSUME Reset
      PROVE  \A c \in Channels : /\ buffered'[c] = ItemBytes(parked'[c])
                                 /\ buffered'[c] <= MaxParked
  BY <1>3, BytesOfNone DEF Reset, Nothing, Zero
<1>4. ASSUME NEW l \in Legs, Receive(l)
      PROVE  \A c \in Channels : /\ buffered'[c] = ItemBytes(parked'[c])
                                 /\ buffered'[c] <= MaxParked
  <2> DEFINE f == Head(wire[l])
  <2>1. f \in Frame /\ Fresh(f) /\ Feed(f)
    <3>1. wire[l] \in Seq(Frame) /\ wire[l] # <<>>
      BY <1>4 DEF Receive, IInv, TypeOK
    <3>2. f \in Frame /\ f = wire[l][1] /\ 1 \in 1..Len(wire[l])
      BY <3>1, HeadTailProperties, EmptySeq, LenProperties
    <3> QED BY <1>4, <3>2 DEF Receive, IInv, WireFresh
  <2>2. /\ f.ch \in Channels /\ f.seq \in Nat /\ expected[f.ch] \in Nat
        /\ IsFiniteSet(parked[f.ch])
        /\ parked \in [Channels -> SUBSET Frame] /\ buffered \in [Channels -> Int]
    <3> HIDE DEF f
    <3>1. f.ch \in Channels /\ f.seq \in Nat
      BY <2>1 DEF Frame, Seqs
    <3> QED BY <3>1 DEF IInv, TypeOK, ParkedFresh
  <2> HIDE DEF f
  <2>3. CASE FeedOld(f)
    BY <1>1, <2>3 DEF FeedOld
  <2>4. CASE FeedExpected(f) /\ f.seq = expected[f.ch]
    <3> DEFINE c == f.ch
    <3>1. PICK e \in 1..MaxFrames :
            LET run   == Run(f, e)
                swept == {g \in parked[f.ch] : g.seq < e}
            IN \E cut \in Cuts(f, run) :
                 IF cut # 0
                 THEN Drop(f.ch)
                 ELSE /\ parked' = [parked EXCEPT ![f.ch] = @ \ swept]
                      /\ buffered' = [buffered EXCEPT ![f.ch] = @ - ItemBytes(swept)]
      BY <2>4 DEF FeedExpected
    <3> DEFINE swept == {g \in parked[c] : g.seq < e}
    <3>2. CASE Drop(c)
      BY <1>2, <2>2, <3>2
    <3>3. CASE /\ parked' = [parked EXCEPT ![c] = @ \ swept]
               /\ buffered' = [buffered EXCEPT ![c] = @ - ItemBytes(swept)]
      <4>1. ItemBytes(parked[c] \ swept) = ItemBytes(parked[c]) - ItemBytes(swept)
        BY <2>2, BytesRemoved
      <4>2. ItemBytes(swept) \in Nat
        <5>1. swept \in SUBSET parked[c]
          OBVIOUS
        <5> QED BY <2>2, <5>1, FS_Subset, BytesAreInt
      <4> HIDE DEF swept
      <4>3. buffered[c] = ItemBytes(parked[c]) /\ buffered[c] <= MaxParked
        BY <2>2 DEF BufferAccounted
      <4>4. /\ parked'[c] = parked[c] \ swept
            /\ buffered'[c] = buffered[c] - ItemBytes(swept)
            /\ \A d \in Channels \ {c} : parked'[d] = parked[d] /\ buffered'[d] = buffered[d]
        BY <2>2, <3>3
      <4>5. buffered'[c] = ItemBytes(parked'[c]) /\ buffered'[c] <= MaxParked
        <5>1. buffered'[c] = ItemBytes(parked'[c])
          <6>1. ItemBytes(parked'[c]) = ItemBytes(parked[c] \ swept)
            BY <4>4
          <6> QED BY <4>1, <4>3, <4>4, <6>1
        <5>2. buffered'[c] <= MaxParked
          BY <2>2, <4>2, <4>3, <4>4
        <5> QED BY <5>1, <5>2
      <4> QED BY <4>4, <4>5 DEF BufferAccounted
    <3> QED BY <3>1, <3>2, <3>3
  <2>5. CASE FeedOverflow(f)
    BY <1>2, <1>3, <2>2, <2>5 DEF FeedOverflow, TearDown
  <2>6. CASE FeedAhead(f) /\ ~Overflows(f)
    <3> DEFINE c == f.ch
    <3>1. CASE f.seq \in ParkedSeqs(c)
      BY <1>1, <2>6, <3>1 DEF FeedAhead
    <3>2. CASE f.seq \notin ParkedSeqs(c)
      <4>1. /\ parked' = [parked EXCEPT ![c] = @ \cup {f}]
            /\ buffered' = [buffered EXCEPT ![c] = @ + ItemBytes({f})]
            /\ ~(buffered[c] + ItemBytes({f}) > MaxParked)
        BY <2>6, <3>2 DEF FeedAhead, Overflows
      <4>2. f \notin parked[c]
        BY <3>2 DEF ParkedSeqs
      <4>3. ItemBytes(parked[c] \cup {f}) = ItemBytes(parked[c]) + ItemBytes({f})
        BY <2>2, <4>2, BytesAdded
      <4>4. ItemBytes({f}) \in Nat
        BY BytesAreInt, FS_Singleton
      <4>5. /\ parked'[c] = parked[c] \cup {f}
            /\ buffered'[c] = buffered[c] + ItemBytes({f})
            /\ \A d \in Channels \ {c} : parked'[d] = parked[d] /\ buffered'[d] = buffered[d]
        BY <2>2, <4>1
      <4>6. buffered[c] = ItemBytes(parked[c]) /\ buffered[c] \in Int
        BY <2>2 DEF BufferAccounted
      <4>7. buffered'[c] = ItemBytes(parked'[c]) /\ buffered'[c] <= MaxParked
        <5>1. ItemBytes(parked'[c]) = ItemBytes(parked[c] \cup {f})
          BY <4>5
        <5>2. buffered'[c] = ItemBytes(parked'[c])
          BY <4>3, <4>5, <4>6, <5>1
        <5>3. buffered'[c] <= MaxParked
          BY <4>1, <4>4, <4>5, <4>6
        <5> QED BY <5>2, <5>3
      <4> QED BY <4>5, <4>7 DEF BufferAccounted
    <3> QED BY <3>1, <3>2
  <2> QED BY <2>1, <2>2, <2>3, <2>4, <2>5, <2>6 DEF Feed
<1>5. CASE ReceiverDown
  BY <1>3, <1>5 DEF ReceiverDown, TearDown
<1>6. CASE Rebuild
  BY <1>1, <1>3, <1>6 DEF Rebuild, FreshSession, reseq
<1>7. ASSUME NEW c \in Channels, Unregister(c) PROVE Drop(c)
  BY <1>7 DEF Unregister
<1>8. CASE Next
  <2>1. CASE \/ \E l \in Legs : Attach(l) \/ LegDown(l)
             \/ \E c \in Channels : Register(c)
             \/ \E c \in Channels, l \in Legs, k \in Kinds : Send(c, l, k)
             \/ SenderDown
    BY <1>1, <2>1 DEF Attach, LegDown, Register, Send, SenderDown, receiver, reseq
  <2> QED BY <1>2, <1>4, <1>5, <1>6, <1>7, <1>8, <2>1 DEF Next
<1>9. CASE UNCHANGED vars
  BY <1>1, <1>9 DEF vars
<1> QED BY <1>8, <1>9

\* The overflow check of feed reads the true size of what is parked, and no
\* entry's buffer is ever over MAX_CHANNEL_BUFFER_BYTES.
THEOREM BufferAlways == Spec => []BufferAccounted
<1>1. Init => BufferAccounted
  BY BytesOfNone DEF Init, Zero, Nothing, BufferAccounted
<1> QED BY <1>1, BufferStep, InductiveInvariant, PTL DEF Spec

-----------------------------------------------------------------------------
\* No hole that nobody carries.

InFlight(c, n) ==
  \E l \in Legs : \E i \in 1..Len(wire[l]) : wire[l][i].ch = c /\ wire[l][i].seq = n

Unbroken == sndUp /\ rcvUp /\ ~SomeLegDown

\* Every frame of c that was sent and not handed over is parked or on a leg.
Whole(c) ==
  chan[c] # "gone" =>
    /\ expected[c] = Len(handed[c])
    /\ \A n \in Len(handed[c])..(produced[c] - 1) : n \in ParkedSeqs(c) \/ InFlight(c, n)

\* HoleInFlight needs it of all frames, not only the next; that the next one is
\* never the one parked; and that a client's channel is opened by its first
\* frame, so that one which is gone is not opened again.
NoneMissing ==
  /\ legState[Primary] # "absent"
  /\ \A c \in Channels : expected[c] \notin ParkedSeqs(c)
  /\ Side = "client" => \A c \in Channels : chan[c] # "none" => Len(handed[c]) > 0
  /\ Unbroken => \A c \in Channels : Whole(c)

\* Taking the head off a leg leaves every other frame in flight.
LEMMA OthersInFlight ==
  ASSUME IInv, NEW l \in Legs, wire[l] # <<>>,
         wire' = [wire EXCEPT ![l] = Tail(@)],
         NEW c \in Channels, NEW n, InFlight(c, n)
  PROVE  InFlight(c, n)' \/ (Head(wire[l]).ch = c /\ Head(wire[l]).seq = n)
<1>1. wire \in [Legs -> Seq(Frame)]
  BY DEF IInv, TypeOK
<1>2. PICK m \in Legs : \E i \in 1..Len(wire[m]) :
          wire[m][i].ch = c /\ wire[m][i].seq = n
  BY DEF InFlight
<1> PICK i \in 1..Len(wire[m]) : wire[m][i].ch = c /\ wire[m][i].seq = n
  BY <1>2
<1>3. CASE m # l
  <2>1. wire'[m] = wire[m]
    BY <1>1, <1>3
  <2> QED BY <2>1 DEF InFlight
<1>4. CASE m = l /\ i = 1
  BY <1>1, <1>4, HeadTailProperties
<1>5. CASE m = l /\ i # 1
  <2>1. /\ wire'[l] = Tail(wire[l])
        /\ Len(Tail(wire[l])) = Len(wire[l]) - 1 /\ Len(wire[l]) \in Nat
        /\ \A j \in 1..(Len(wire[l]) - 1) : Tail(wire[l])[j] = wire[l][j + 1]
    BY <1>1, HeadTailProperties, LenProperties
  <2>2. i \in 1..Len(wire[l]) /\ i - 1 \in 1..(Len(wire[l]) - 1) /\ (i - 1) + 1 = i
    BY <1>5, <2>1
  <2>3. i - 1 \in 1..Len(wire'[l]) /\ wire'[l][i - 1] = wire[l][i]
    BY <2>1, <2>2
  <2> QED BY <1>5, <2>3 DEF InFlight
<1> QED BY <1>3, <1>4, <1>5

\* A sent frame is on its leg, and what was in flight still is.
LEMMA SendInFlight ==
  ASSUME IInv, NEW c \in Channels, NEW l \in Legs, NEW k \in Kinds, Send(c, l, k),
         legState[l] = "up"
  PROVE  /\ \A n : n = produced[c] => InFlight(c, n)'
         /\ \A d \in Channels, n \in Nat : InFlight(d, n) => InFlight(d, n)'
<1> DEFINE f == Numbered(c, k)
<1>1. /\ f \in Frame /\ f.ch = c /\ f.seq = produced[c] /\ produced[c] \in Nat
      /\ produced[c] < MaxFrames
  BY DEF IInv, TypeOK, Numbering, Numbered, Frame, Seqs, Send
<1>2. wire' = [wire EXCEPT ![l] = Append(@, f)]
  BY DEF Send
<1> HIDE DEF f
<1>3. wire \in [Legs -> Seq(Frame)]
  BY DEF IInv, TypeOK
<1>4. /\ wire'[l] = Append(wire[l], f) /\ Len(wire[l]) \in Nat
      /\ Len(wire'[l]) = Len(wire[l]) + 1
      /\ \A i \in 1..Len(wire[l]) : wire'[l][i] = wire[l][i]
      /\ wire'[l][Len(wire[l]) + 1] = f
  BY <1>1, <1>2, <1>3, AppendProperties, LenProperties
<1>5. \A m \in Legs \ {l} : wire'[m] = wire[m]
  BY <1>2, <1>3
<1>6. \E m \in Legs : \E i \in 1..Len(wire'[m]) :
         wire'[m][i].ch = c /\ wire'[m][i].seq = produced[c]
  <2>1. Len(wire[l]) + 1 \in 1..Len(wire'[l])
    BY <1>4
  <2> QED BY <1>1, <1>4, <2>1
<1>7. ASSUME NEW d \in Channels, NEW n \in Nat, InFlight(d, n) PROVE InFlight(d, n)'
  <2>1. PICK m \in Legs : \E i \in 1..Len(wire[m]) :
           wire[m][i].ch = d /\ wire[m][i].seq = n
    BY <1>7 DEF InFlight
  <2> PICK i \in 1..Len(wire[m]) : wire[m][i].ch = d /\ wire[m][i].seq = n
    BY <2>1
  <2>2. i \in 1..Len(wire'[m]) /\ wire'[m][i] = wire[m][i]
    BY <1>4, <1>5
  <2> QED BY <2>2 DEF InFlight
<1> QED BY <1>6, <1>7 DEF InFlight

\* A channel none of whose frames moved is whole still.
LEMMA WholeStays ==
  ASSUME NEW c \in Channels, Whole(c),
         chan'[c] # "gone" => chan[c] # "gone",
         expected'[c] = expected[c], handed'[c] = handed[c], produced'[c] = produced[c],
         \A g \in parked[c] : g \in parked'[c],
         \A n : InFlight(c, n) => InFlight(c, n)' \/ \E g \in parked'[c] : g.seq = n
  PROVE  Whole(c)'
BY DEF Whole, ParkedSeqs

\* Receiving a frame strands none of the others.
LEMMA ReceiveNoneMissing ==
  ASSUME IInv, NoneMissing, NEW l \in Legs, Receive(l)
  PROVE  NoneMissing'
<1> DEFINE f == Head(wire[l])
<1>1. /\ wire[l] # <<>> /\ Feed(f) /\ (Side = "client" => rcvUp)
      /\ UNCHANGED <<sndUp, nextSeq, produced>>
  BY DEF Receive, sender
<1>2. f \in Frame /\ Fresh(f)
  <2>1. wire[l] \in Seq(Frame)
    BY DEF IInv, TypeOK
  <2>2. f \in Frame /\ f = wire[l][1] /\ 1 \in 1..Len(wire[l])
    BY <1>1, <2>1, HeadTailProperties, EmptySeq, LenProperties
  <2> QED BY <2>2 DEF IInv, WireFresh
<1>3. CASE ClientOverflow(f)
  <2> HIDE DEF f
  <2>1. /\ legState' = [m \in Legs |-> IF legState[m] = "absent" THEN "absent" ELSE "down"]
        /\ Side = "client" /\ Overflows(f) /\ f.seq > expected[f.ch]
    BY <1>3 DEF Receive, ClientOverflow, f
  <2>2. f.ch \in Channels /\ f.seq \in Nat /\ expected[f.ch] \in Nat
    BY <1>2 DEF Frame, Seqs, IInv, TypeOK
  <2>3. Drop(f.ch) /\ UNCHANGED <<rcvUp, chan, handed>>
    <3>1. FeedOverflow(f)
      BY <1>1, <2>1, <2>2 DEF Feed
    <3> QED BY <2>1, <3>1 DEF FeedOverflow
  <2>4. legState'[Primary] = "down"
    BY <2>1 DEF NoneMissing
  <2>5. ~Unbroken'
    BY <2>4 DEF Unbroken, SomeLegDown
  <2>6. \A c \in Channels : expected'[c] \notin {g.seq : g \in parked'[c]}
    BY <2>2, <2>3 DEF Drop, NoneMissing, ParkedSeqs, IInv, TypeOK
  <2> QED BY <2>3, <2>4, <2>5, <2>6 DEF NoneMissing, ParkedSeqs
<1>4. CASE ~ClientOverflow(f)
  <2>1. wire' = [wire EXCEPT ![l] = Tail(@)] /\ UNCHANGED legState
    BY <1>4 DEF Receive
  <2>2. \A c \in Channels : \A n : InFlight(c, n) =>
          InFlight(c, n)' \/ (f.ch = c /\ f.seq = n)
    BY <1>1, <2>1, OthersInFlight
  <2> HIDE DEF f
  <2>3. /\ f.ch \in Channels /\ f.seq \in Nat /\ expected[f.ch] \in Nat
        /\ Len(handed[f.ch]) \in Nat /\ Len(handed[f.ch]) <= f.seq
        /\ f.n = f.seq /\ ~(f.seq < expected[f.ch])
    <3>1. f.ch \in Channels /\ f.seq \in Nat /\ expected[f.ch] \in Nat
      BY <1>2 DEF Frame, Seqs, IInv, TypeOK
    <3>2. Len(handed[f.ch]) \in Nat /\ Len(handed[f.ch]) <= f.seq /\ f.n = f.seq
      BY <1>2, <3>1, LenProperties DEF Fresh, IInv, TypeOK
    <3> QED BY <3>1, <3>2 DEF IInv, Expecting
  <2>4. legState'[Primary] # "absent"
    BY <2>1 DEF NoneMissing
  <2>5. Unbroken' => sndUp /\ rcvUp' /\ ~SomeLegDown
    BY <1>1, <2>1 DEF Unbroken, SomeLegDown
  <2>6. CASE f.seq = expected[f.ch] /\ FeedExpected(f)
    <3> DEFINE c == f.ch
    <3>1. PICK e \in 1..MaxFrames : \E cut \in Cuts(f, Run(f, e)) :
            /\ SweepEnd(f.ch, f.seq, e)
            /\ f.ch \in Channels /\ f.seq \in Nat /\ f.seq < e /\ e <= produced[f.ch]
            /\ Len(handed[f.ch]) = f.seq
            /\ Run(f, e) \in [1..(e - f.seq) -> Frame]
            /\ \A i \in 1..(e - f.seq) : Run(f, e)[i].n = f.seq + i - 1
            /\ handed' = [handed EXCEPT ![f.ch] = @ \o Log(f, Run(f, e), cut)]
            /\ chan' = ChanAfter(f, cut)
            /\ IF cut # 0
               THEN Drop(f.ch)
               ELSE /\ held' = held \cup {f.ch}
                    /\ expected' = [expected EXCEPT ![f.ch] = e]
                    /\ parked' = [parked EXCEPT ![f.ch] = @ \ {g \in parked[f.ch] : g.seq < e}]
                    /\ buffered' = [buffered EXCEPT
                         ![f.ch] = @ - ItemBytes({g \in parked[f.ch] : g.seq < e})]
            /\ UNCHANGED rcvUp
      BY <1>2, <2>6, SweepShape
    <3> DEFINE run == Run(f, e)
    <3>2. PICK cut \in Cuts(f, run) :
            /\ handed' = [handed EXCEPT ![c] = @ \o Log(f, run, cut)]
            /\ chan' = ChanAfter(f, cut)
            /\ IF cut # 0
               THEN Drop(c)
               ELSE /\ expected' = [expected EXCEPT ![c] = e]
                    /\ parked' = [parked EXCEPT ![c] = @ \ {g \in parked[c] : g.seq < e}]
      BY <3>1
    <3>3. /\ SweepEnd(c, f.seq, e) /\ f.seq < e /\ e <= produced[c]
          /\ Len(handed[c]) = f.seq /\ UNCHANGED rcvUp
          /\ run \in [1..(e - f.seq) -> Frame] /\ e - f.seq \in Nat
      BY <3>1, <2>3
    <3>4. Log(f, run, cut) \in Seq(Handed) /\ Len(Log(f, run, cut)) = e - f.seq
      BY <1>2, <3>3, LogInOrder
    <3> HIDE DEF run
    <3>5. /\ handed'[c] = handed[c] \o Log(f, run, cut)
          /\ \A d \in Channels \ {c} : handed'[d] = handed[d]
      BY <2>3, <3>2 DEF IInv, TypeOK
    <3>6. Len(handed'[c]) = e
      <4>1. handed[c] \in Seq(Handed)
        BY <2>3 DEF IInv, TypeOK
      <4>2. Len(handed'[c]) = Len(handed[c]) + Len(Log(f, run, cut))
        BY <3>4, <3>5, <4>1, ConcatProperties
      <4> QED BY <2>3, <3>3, <3>4, <4>2
    <3>7. \A d \in Channels \ {c} : chan'[d] = chan[d]
      BY <3>2 DEF ChanAfter, IInv, TypeOK
    <3>8. \A d \in Channels \ {c} : expected'[d] = expected[d] /\ parked'[d] = parked[d]
      BY <2>3, <3>2 DEF Drop, IInv, TypeOK
    <3>9. Side = "client" => \A d \in Channels : chan'[d] # "none" => Len(handed'[d]) > 0
      BY <2>3, <3>3, <3>5, <3>6, <3>7 DEF NoneMissing
    <3>10. CASE cut # 0
      <4>1. chan'[c] = "gone"
        BY <2>3, <3>2, <3>10 DEF ChanAfter, IInv, TypeOK
      <4>2. expected'[c] = 0 /\ parked'[c] = {}
        BY <2>3, <3>2, <3>10 DEF Drop, IInv, TypeOK
      <4>3. \A d \in Channels : expected'[d] \notin {g.seq : g \in parked'[d]}
        BY <3>8, <4>2 DEF NoneMissing, ParkedSeqs
      <4>4. ASSUME Unbroken', NEW d \in Channels PROVE Whole(d)'
        <5>1. CASE d = c
          BY <4>1, <5>1 DEF Whole
        <5>2. CASE d # c
          <6>1. Whole(d)
            BY <2>5, <3>3, <4>4 DEF NoneMissing, Unbroken
          <6> QED BY <1>1, <2>2, <3>5, <3>7, <3>8, <5>2, <6>1, WholeStays
        <5> QED BY <5>1, <5>2
      <4> QED BY <2>4, <3>9, <4>3, <4>4 DEF NoneMissing, ParkedSeqs
    <3>11. CASE cut = 0
      <4>1. expected'[c] = e /\ parked'[c] = parked[c] \ {g \in parked[c] : g.seq < e}
        BY <2>3, <3>2, <3>11 DEF IInv, TypeOK
      <4>2. e \notin ParkedSeqs(c)
        BY <3>3 DEF SweepEnd
      <4>3. \A d \in Channels : expected'[d] \notin {g.seq : g \in parked'[d]}
        BY <3>8, <4>1, <4>2 DEF NoneMissing, ParkedSeqs
      <4>4. ASSUME Unbroken', NEW d \in Channels PROVE Whole(d)'
        <5>1. Whole(d)
          BY <2>5, <3>3, <4>4 DEF NoneMissing, Unbroken
        <5>2. CASE d = c
          <6>1. chan'[c] # "gone" => chan[c] # "gone"
            <7>1. CASE Opens(f)
              BY <2>3, <3>3, <7>1 DEF Opens, NoneMissing
            <7>2. CASE ~Opens(f)
              BY <2>3, <3>2, <3>11, <7>2 DEF ChanAfter, IInv, TypeOK
            <7> QED BY <7>1, <7>2
          <6>2. ASSUME chan[d] # "gone", NEW n \in e..(produced[d] - 1)
                PROVE  n \in {g.seq : g \in parked'[d]} \/ InFlight(d, n)'
            <7>1. n \in Nat /\ e <= n /\ n \in Len(handed[d])..(produced[d] - 1)
              BY <2>3, <3>3, <5>2, <6>2
            <7>2. n \in ParkedSeqs(d) \/ InFlight(d, n)
              BY <5>1, <6>2, <7>1 DEF Whole
            <7>3. CASE n \in ParkedSeqs(d)
              BY <4>1, <5>2, <7>1, <7>3 DEF ParkedSeqs
            <7>4. CASE InFlight(d, n)
              <8>1. f.seq # n
                BY <2>3, <3>3, <7>1
              <8> QED BY <2>2, <7>4, <8>1
            <7> QED BY <7>2, <7>3, <7>4
          <6>3. ASSUME chan'[d] # "gone", NEW n \in e..(produced'[d] - 1)
                PROVE  n \in ParkedSeqs(d)' \/ InFlight(d, n)'
            BY <1>1, <5>2, <6>1, <6>2, <6>3 DEF ParkedSeqs
          <6> QED BY <3>6, <4>1, <5>2, <6>3 DEF Whole
        <5>3. CASE d # c
          BY <1>1, <2>2, <3>5, <3>7, <3>8, <5>1, <5>3, WholeStays
        <5> QED BY <5>2, <5>3
      <4> QED BY <2>4, <3>9, <4>3, <4>4 DEF NoneMissing, ParkedSeqs
    <3> QED BY <3>10, <3>11
  <2>7. CASE FeedAhead(f) /\ f.seq # expected[f.ch]
    <3>1. /\ UNCHANGED <<rcvUp, chan, expected, handed>>
          /\ \A c \in Channels : \A g \in parked[c] : g \in parked'[c]
          /\ \E g \in parked'[f.ch] : g.seq = f.seq
          /\ \A c \in Channels : \A g \in parked'[c] :
               g \in parked[c] \/ (c = f.ch /\ g = f)
      <4>1. CASE f.seq \in ParkedSeqs(f.ch)
        BY <2>7, <4>1 DEF FeedAhead, ParkedSeqs
      <4>2. CASE f.seq \notin ParkedSeqs(f.ch)
        <5>1. parked' = [parked EXCEPT ![f.ch] = @ \cup {f}]
          BY <2>7, <4>2 DEF FeedAhead
        <5>2. /\ parked'[f.ch] = parked[f.ch] \cup {f}
              /\ \A c \in Channels \ {f.ch} : parked'[c] = parked[c]
          BY <2>3, <5>1 DEF IInv, TypeOK
        <5> QED BY <2>7, <5>2 DEF FeedAhead
      <4> QED BY <4>1, <4>2
    <3>2. \A c \in Channels : expected'[c] \notin {g.seq : g \in parked'[c]}
      BY <2>7, <3>1 DEF NoneMissing, ParkedSeqs
    <3>3. ASSUME Unbroken', NEW c \in Channels PROVE Whole(c)'
      <4>1. Whole(c)
        BY <2>5, <3>1, <3>3 DEF NoneMissing, Unbroken
      <4>2. \A n : InFlight(c, n) => InFlight(c, n)' \/ \E g \in parked'[c] : g.seq = n
        BY <2>2, <3>1
      <4> QED BY <1>1, <3>1, <4>1, <4>2, WholeStays
    <3> QED BY <2>4, <3>1, <3>2, <3>3 DEF NoneMissing, ParkedSeqs
  <2>8. CASE FeedOverflow(f) /\ Overflows(f) /\ f.seq # expected[f.ch]
    <3>1. Side = "server"
      BY <1>4, <2>3, <2>8, SideAssumption DEF ClientOverflow
    <3>2. \A c \in Channels : expected'[c] \notin {g.seq : g \in parked'[c]}
      <4>1. CASE TearDown
        BY <4>1 DEF TearDown, Reset, Nothing
      <4>2. CASE Drop(f.ch)
        BY <2>3, <4>2 DEF Drop, NoneMissing, ParkedSeqs, IInv, TypeOK
      <4> QED BY <2>8, <4>1, <4>2 DEF FeedOverflow
    <3>3. ~rcvUp'
      BY <2>8, <3>1 DEF FeedOverflow, TearDown, IInv, TypeOK
    <3> QED BY <2>4, <3>1, <3>2, <3>3 DEF NoneMissing, ParkedSeqs, Unbroken
  <2> QED BY <1>1, <2>3, <2>6, <2>7, <2>8 DEF Feed
<1> QED BY <1>3, <1>4

\* Sending adds a frame to what is under way, and it is on its leg.
LEMMA SendNoneMissing ==
  ASSUME IInv, NoneMissing,
         NEW c \in Channels, NEW l \in Legs, NEW k \in Kinds, Send(c, l, k)
  PROVE  NoneMissing'
<1>1. /\ produced' = [produced EXCEPT ![c] = @ + 1] /\ legState[l] # "absent"
      /\ UNCHANGED <<sndUp, legState, rcvUp, chan, held, expected, parked, buffered, handed>>
  BY DEF Send, receiver
<1>2. produced \in [Channels -> Nat] /\ handed \in [Channels -> Seq(Handed)]
  BY DEF IInv, TypeOK
<1>3. ASSUME Unbroken', NEW d \in Channels PROVE Whole(d)'
  <2>1. Unbroken /\ legState[l] = "up"
    BY <1>1, <1>3 DEF Unbroken, SomeLegDown, IInv, TypeOK
  <2>2. /\ \A n : n = produced[c] => InFlight(c, n)'
        /\ \A b \in Channels, n \in Nat : InFlight(b, n) => InFlight(b, n)'
    BY <2>1, SendInFlight
  <2>3. Whole(d)
    BY <2>1 DEF NoneMissing
  <2>4. Len(handed[d]) \in Nat /\ produced[d] \in Nat
    BY <1>2, LenProperties
  <2>5. ASSUME chan'[d] # "gone", NEW n \in Len(handed'[d])..(produced'[d] - 1)
        PROVE  n \in ParkedSeqs(d)' \/ InFlight(d, n)'
    <3>1. n \in Nat /\ (n \in Len(handed[d])..(produced[d] - 1) \/ (d = c /\ n = produced[c]))
      BY <1>1, <1>2, <2>4, <2>5
    <3>2. n \in ParkedSeqs(d) \/ InFlight(d, n) \/ (d = c /\ n = produced[c])
      BY <1>1, <2>3, <2>5, <3>1 DEF Whole
    <3> QED BY <1>1, <2>2, <3>1, <3>2 DEF ParkedSeqs
  <2> QED BY <1>1, <2>3, <2>5 DEF Whole
<1> QED BY <1>1, <1>3 DEF NoneMissing, ParkedSeqs

\* No step leaves a hole that nobody carries.
LEMMA NoneMissingStep == IInv /\ NoneMissing /\ [Next]_vars => NoneMissing'
<1> SUFFICES ASSUME IInv, NoneMissing, [Next]_vars PROVE NoneMissing'
  OBVIOUS
<1>1. /\ legState \in [Legs -> {"absent", "up", "down"}] /\ sndUp \in BOOLEAN /\ rcvUp \in BOOLEAN
      /\ chan \in [Channels -> {"none", "open", "gone"}]
      /\ expected \in [Channels -> 0..MaxFrames] /\ parked \in [Channels -> SUBSET Frame]
  BY DEF IInv, TypeOK
\* What moves no frame leaves every channel whole.
<1>2. ASSUME UNCHANGED <<sndUp, rcvUp, wire, expected, produced, handed, parked>>,
             SomeLegDown => SomeLegDown', NEW c \in Channels,
             chan'[c] # "gone" => chan[c] # "gone", Unbroken'
      PROVE  Whole(c)'
  <2>1. Whole(c)
    BY <1>2 DEF NoneMissing, Unbroken
  <2>2. \A n : InFlight(c, n) => InFlight(c, n)'
    BY <1>2 DEF InFlight
  <2> QED BY <1>2, <2>1, <2>2, WholeStays
<1>3. ASSUME NEW l \in Legs, Attach(l) PROVE NoneMissing'
  <2>1. /\ legState' = [legState EXCEPT ![l] = "up"] /\ legState[l] = "absent"
        /\ UNCHANGED <<sndUp, rcvUp, chan, wire, expected, produced, handed, parked>>
    BY <1>3 DEF Attach, receiver
  <2>2. SomeLegDown => SomeLegDown'
    BY <1>1, <2>1 DEF SomeLegDown
  <2>3. \A c \in Channels : Unbroken' => Whole(c)'
    BY <1>2, <2>1, <2>2
  <2> QED BY <1>1, <2>1, <2>3 DEF NoneMissing, ParkedSeqs
<1>4. ASSUME NEW d \in Channels, Register(d) PROVE NoneMissing'
  <2>1. /\ chan' = [chan EXCEPT ![d] = "open"] /\ chan[d] = "none" /\ Side = "server"
        /\ UNCHANGED <<sndUp, rcvUp, legState, wire, expected, produced, handed, parked>>
    BY <1>4 DEF Register, sender, reseq
  <2>2. SomeLegDown => SomeLegDown'
    BY <2>1 DEF SomeLegDown
  <2>3. \A c \in Channels : chan'[c] # "gone" => chan[c] # "gone"
    BY <1>1, <2>1
  <2>4. \A c \in Channels : Unbroken' => Whole(c)'
    BY <1>2, <2>1, <2>2, <2>3
  <2> QED BY <2>1, <2>4 DEF NoneMissing, ParkedSeqs
<1>5. ASSUME NEW d \in Channels, Unregister(d) PROVE NoneMissing'
  <2>1. /\ chan' = [chan EXCEPT ![d] = "gone"] /\ chan[d] = "open"
        /\ expected' = [expected EXCEPT ![d] = 0] /\ parked' = [parked EXCEPT ![d] = {}]
        /\ UNCHANGED <<sndUp, rcvUp, legState, wire, produced, handed>>
    BY <1>5 DEF Unregister, Drop, sender
  <2>2. Side = "client" => \A c \in Channels : chan'[c] # "none" => Len(handed'[c]) > 0
    BY <1>1, <2>1 DEF NoneMissing
  <2>3. \A c \in Channels : expected'[c] \notin {g.seq : g \in parked'[c]}
    BY <1>1, <2>1 DEF NoneMissing, ParkedSeqs
  <2>4. ASSUME Unbroken', NEW c \in Channels PROVE Whole(c)'
    <3>1. CASE c = d
      BY <1>1, <2>1, <3>1 DEF Whole
    <3>2. CASE c # d
      <4>1. Whole(c)
        BY <2>1, <2>4 DEF NoneMissing, Unbroken, SomeLegDown
      <4>2. \A n : InFlight(c, n) => InFlight(c, n)'
        BY <2>1 DEF InFlight
      <4> QED BY <1>1, <2>1, <3>2, <4>1, <4>2, WholeStays
    <3> QED BY <3>1, <3>2
  <2> QED BY <2>1, <2>2, <2>3, <2>4 DEF NoneMissing, ParkedSeqs
<1>6. ASSUME NEW l \in Legs, LegDown(l) PROVE NoneMissing'
  <2>1. /\ legState' = [legState EXCEPT ![l] = "down"]
        /\ UNCHANGED <<chan, expected, handed, parked>>
    BY <1>6 DEF LegDown, sender, receiver
  <2>2. ~Unbroken'
    BY <1>1, <2>1 DEF Unbroken, SomeLegDown
  <2> QED BY <1>1, <2>1, <2>2 DEF NoneMissing, ParkedSeqs
<1>7. CASE SenderDown
  <2>1. ~Unbroken' /\ UNCHANGED <<legState, chan, expected, handed, parked>>
    BY <1>7 DEF SenderDown, receiver, Unbroken
  <2> QED BY <2>1 DEF NoneMissing, ParkedSeqs
<1>8. CASE ReceiverDown
  <2>1. /\ ~Unbroken' /\ UNCHANGED <<legState, handed>>
        /\ chan' = AllGone /\ parked' = Nothing
    BY <1>8 DEF ReceiverDown, TearDown, Reset, Unbroken
  <2>2. Side = "client" => \A c \in Channels : chan'[c] # "none" => Len(handed'[c]) > 0
    BY <2>1 DEF NoneMissing, AllGone
  <2>3. \A c \in Channels : expected'[c] \notin {g.seq : g \in parked'[c]}
    BY <2>1 DEF Nothing
  <2> QED BY <2>1, <2>2, <2>3 DEF NoneMissing, ParkedSeqs
<1>9. CASE Rebuild
  <2>1. /\ legState' = Anew /\ chan' = [c \in Channels |-> "none"]
        /\ produced' = Zero /\ handed' = [c \in Channels |-> <<>>]
        /\ parked' = Nothing /\ expected' = Zero
    BY <1>9 DEF Rebuild, FreshSession, Reset, reseq, ClientDown, IInv, Numbering
  <2>2. \A c \in Channels : Len(handed'[c]) = 0
    BY <2>1, EmptySeq
  <2>3. \A c \in Channels : expected'[c] \notin {g.seq : g \in parked'[c]}
    BY <2>1 DEF Nothing
  <2>4. \A c \in Channels : Whole(c)'
    BY <2>1, <2>2 DEF Whole, Zero
  <2>5. legState'[Primary] # "absent"
    BY <2>1, PrimaryAssumption DEF Anew
  <2> QED BY <2>1, <2>3, <2>4, <2>5 DEF NoneMissing, ParkedSeqs
<1>10. CASE UNCHANGED vars
  <2>1. UNCHANGED <<sndUp, rcvUp, legState, chan, wire, expected, produced, handed, parked>>
    BY <1>10 DEF vars
  <2>2. SomeLegDown => SomeLegDown'
    BY <2>1 DEF SomeLegDown
  <2>3. \A c \in Channels : Unbroken' => Whole(c)'
    BY <1>2, <2>1, <2>2
  <2> QED BY <2>1, <2>3 DEF NoneMissing, ParkedSeqs
<1>11. CASE Next
  BY <1>3, <1>4, <1>5, <1>6, <1>7, <1>8, <1>9, <1>11, SendNoneMissing,
     ReceiveNoneMissing DEF Next
<1> QED BY <1>10, <1>11

\* The group starts with nothing sent.
LEMMA InitNoneMissing == Init => NoneMissing
<1> SUFFICES ASSUME Init PROVE NoneMissing
  OBVIOUS
<1>1. \A c \in Channels : Len(handed[c]) = 0
  BY EmptySeq DEF Init
<1>2. \A c \in Channels : Whole(c)
  BY <1>1 DEF Init, Whole, Zero
<1> QED BY <1>2, PrimaryAssumption DEF Init, NoneMissing, ParkedSeqs, Nothing, Anew

\* While all legs live, the frame a channel waits for is on a leg: it has not
\* been consumed, dropped or parked, whatever legs were attached and whichever
\* other channels ended meanwhile.
THEOREM HoleAlways == Spec => []HoleInFlight
<1>1. Spec => []NoneMissing
  BY InitNoneMissing, NoneMissingStep, InductiveInvariant, PTL DEF Spec
<1>2. IInv /\ NoneMissing => HoleInFlight
  <2> SUFFICES ASSUME IInv, NoneMissing, NEW c \in Channels,
                      chan[c] = "open", parked[c] # {}, rcvUp, sndUp, ~SomeLegDown
               PROVE  \E l \in Legs : \E i \in DOMAIN wire[l] :
                        wire[l][i].ch = c /\ wire[l][i].seq = expected[c]
    BY DEF HoleInFlight
  <2>1. PICK g \in parked[c] : TRUE
    OBVIOUS
  <2>2. g \in Frame /\ g.ch = c /\ Fresh(g) /\ g.seq \in Nat /\ produced[c] \in Nat
    BY DEF IInv, TypeOK, ParkedFresh, Frame, Seqs
  <2>3. Whole(c)
    BY DEF NoneMissing, Unbroken
  <2>4. Len(handed[c]) \in Nat /\ Len(handed[c]) <= g.seq /\ g.seq < produced[c]
    BY <2>2, LenProperties DEF Fresh, IInv, TypeOK
  <2>5. expected[c] \in Len(handed[c])..(produced[c] - 1) /\ expected[c] \notin ParkedSeqs(c)
    BY <2>2, <2>3, <2>4 DEF Whole, NoneMissing
  <2>6. InFlight(c, expected[c])
    BY <2>3, <2>5 DEF Whole
  <2>7. \A l \in Legs : DOMAIN wire[l] = 1..Len(wire[l])
    BY LenProperties DEF IInv, TypeOK
  <2> QED BY <2>6, <2>7 DEF InFlight
<1> QED BY <1>1, <1>2, InductiveInvariant, PTL

-----------------------------------------------------------------------------
\* StripedTunnel implements OrderedChannels.

\* What the abstract log is (the substitution of the refinement).
StreamLog ==
  [c \in Channels |->
    [i \in DOMAIN handed[c] |->
       [n |-> handed[c][i].n, lost |-> handed[c][i].fate = "mismatch"]]]

View(h) ==
  [i \in DOMAIN h |-> [n |-> h[i].n, lost |-> h[i].fate = "mismatch"]]

LogEntry == [n : Int, lost : BOOLEAN]

\* A function on 1..k is a sequence of length k.
LEMMA FunctionIsSeq ==
  ASSUME NEW S, NEW k \in Nat, NEW b \in [1..k -> S]
  PROVE  b \in Seq(S) /\ Len(b) = k
OBVIOUS

\* The abstract log has an entry for each frame handed over.
LEMMA ViewProperties ==
  ASSUME NEW h \in Seq(Handed)
  PROVE  /\ View(h) \in Seq(LogEntry) /\ Len(View(h)) = Len(h)
         /\ \A i \in 1..Len(h) :
              View(h)[i] = [n |-> h[i].n, lost |-> h[i].fate = "mismatch"]
<1>1. DOMAIN h = 1..Len(h) /\ Len(h) \in Nat /\ h \in [1..Len(h) -> Handed]
  BY LenProperties
<1>2. \A i \in 1..Len(h) : [n |-> h[i].n, lost |-> h[i].fate = "mismatch"] \in LogEntry
  BY <1>1, SMTT(60) DEF Handed, Seqs, LogEntry
<1>3. View(h) \in [1..Len(h) -> LogEntry]
  BY <1>1, <1>2 DEF View
<1> QED BY <1>1, <1>3 DEF View

\* A fresh group is a fresh stream.
LEMMA InitRefines == Init => Stream!Init
<1> SUFFICES ASSUME Init PROVE Stream!Init
  OBVIOUS
<1>1. \A c \in Channels : StreamLog[c] = <<>>
  BY DEF Init, StreamLog
<1> QED BY <1>1 DEF Init, Stream!Init, Zero, StreamLog

\* Sending a frame produces it.
LEMMA SendProduces ==
  ASSUME IInv, NEW c \in Channels, NEW l \in Legs, NEW k \in Kinds, Send(c, l, k)
  PROVE  Stream!Produce(c)
BY DEF Send, receiver, Stream!Produce

\* A new generation restarts every stream.
LEMMA RebuildRestarts == Rebuild => Stream!Restart
<1> SUFFICES ASSUME Rebuild PROVE Stream!Restart
  OBVIOUS
<1>1. \A c \in Channels : DOMAIN handed'[c] = {}
  BY DEF Rebuild
<1> QED BY <1>1 DEF Rebuild, Stream!Restart, Zero

\* One sweep hands over a batch of its channel; only frames after the first may
\* be lost, the first is of the kind its callback was made for.
LEMMA SweepHands ==
  ASSUME IInv, NEW f \in Frame, Fresh(f), f.seq = expected[f.ch], FeedExpected(f),
         UNCHANGED produced
  PROVE  \E c \in Channels : Stream!Hand(c)
<1> DEFINE c == f.ch
<1>1. PICK e \in 1..MaxFrames : \E cut \in Cuts(f, Run(f, e)) :
        /\ SweepEnd(f.ch, f.seq, e)
        /\ f.ch \in Channels /\ f.seq \in Nat /\ f.seq < e /\ e <= produced[f.ch]
        /\ Len(handed[f.ch]) = f.seq
        /\ Run(f, e) \in [1..(e - f.seq) -> Frame]
        /\ \A i \in 1..(e - f.seq) : Run(f, e)[i].n = f.seq + i - 1
        /\ handed' = [handed EXCEPT ![f.ch] = @ \o Log(f, Run(f, e), cut)]
  BY SweepShape
<1> DEFINE run == Run(f, e)  k == e - f.seq
<1>2. PICK cut \in Cuts(f, run) :
        /\ c \in Channels /\ f.seq \in Nat /\ f.seq < e /\ e <= produced[c]
        /\ Len(handed[c]) = f.seq
        /\ run \in [1..k -> Frame]
        /\ \A i \in 1..k : run[i].n = f.seq + i - 1
        /\ handed' = [handed EXCEPT ![c] = @ \o Log(f, run, cut)]
  BY <1>1
<1>3. run[1] = f
  BY <1>2 DEF Run
<1> HIDE DEF run
<1> DEFINE log == Log(f, run, cut)
<1>4. /\ log \in Seq(Handed) /\ Len(log) = k /\ k \in Nat /\ k >= 1
      /\ \A i \in 1..k : log[i].n = f.seq + i - 1
  <2>1. k \in Nat /\ k >= 1
    BY <1>2
  <2>2. /\ log \in Seq(Handed) /\ Len(log) = k
        /\ \A i \in 1..k : log[i].n = run[i].n
    BY <1>2, <2>1, LogInOrder
  <2> QED BY <1>2, <2>1, <2>2
<1>5. log[1].fate # "mismatch"
  <2>1. 1 \in DOMAIN run
    BY <1>2, <1>4
  <2>2. log[1].fate = Fate(f, run, 1, cut)
    BY <2>1 DEF Log
  <2>3. Fate(f, run, 1, cut) # "mismatch"
    <3>1. cut \in Int
      BY <1>2 DEF Cuts
    <3>2. CASE ~HasChannel(f) \/ (cut # 0 /\ 1 > cut)
      BY <3>1, <3>2 DEF Fate
    <3>3. CASE HasChannel(f) /\ (cut = 0 \/ 1 <= cut)
      BY <1>3, <3>1, <3>3 DEF Fate
    <3> QED BY <3>1, <3>2, <3>3
  <2> QED BY <2>2, <2>3
<1> HIDE DEF log
<1> DEFINE losses == {i \in 2..k : log[i].fate = "mismatch"}
<1>6. \A i \in 1..k : (i \in losses) = (log[i].fate = "mismatch")
  BY <1>4, <1>5
<1>7. handed \in [Channels -> Seq(Handed)] /\ handed[c] \in Seq(Handed)
  BY <1>2 DEF IInv, TypeOK
<1>8. /\ handed'[c] = handed[c] \o log
      /\ \A d \in Channels \ {c} : handed'[d] = handed[d]
  BY <1>2, <1>7 DEF log
<1>9. /\ handed'[c] \in Seq(Handed) /\ Len(handed'[c]) = f.seq + k
      /\ \A i \in 1..(f.seq + k) :
           handed'[c][i] = IF i <= f.seq THEN handed[c][i] ELSE log[i - f.seq]
  <2>1. /\ handed[c] \o log \in Seq(Handed)
        /\ Len(handed[c] \o log) = Len(handed[c]) + Len(log)
        /\ \A i \in 1..(Len(handed[c]) + Len(log)) : (handed[c] \o log)[i] =
             IF i <= Len(handed[c]) THEN handed[c][i] ELSE log[i - Len(handed[c])]
    BY <1>4, <1>7, ConcatProperties
  <2> QED BY <1>2, <1>4, <1>8, <2>1
<1> DEFINE batch == [i \in 1..k |-> [n |-> f.seq + i - 1, lost |-> i \in losses]]
<1>10. batch \in Seq(LogEntry) /\ Len(batch) = k
  <2>1. \A i \in 1..k : [n |-> f.seq + i - 1, lost |-> i \in losses] \in LogEntry
    BY <1>2, <1>4 DEF LogEntry
  <2>2. batch \in [1..k -> LogEntry]
    BY <2>1
  <2> HIDE DEF batch
  <2> QED BY <1>4, <2>2, FunctionIsSeq
<1>11. View(handed'[c]) = View(handed[c]) \o batch
  <2> HIDE DEF batch
  <2>1. /\ View(handed'[c]) \in Seq(LogEntry) /\ Len(View(handed'[c])) = f.seq + k
        /\ \A i \in 1..(f.seq + k) : View(handed'[c])[i] =
             [n |-> handed'[c][i].n, lost |-> handed'[c][i].fate = "mismatch"]
    BY <1>9, ViewProperties
  <2>2. /\ View(handed[c]) \in Seq(LogEntry) /\ Len(View(handed[c])) = f.seq
        /\ \A i \in 1..f.seq : View(handed[c])[i] =
             [n |-> handed[c][i].n, lost |-> handed[c][i].fate = "mismatch"]
    BY <1>2, <1>7, ViewProperties
  <2>3. /\ View(handed[c]) \o batch \in Seq(LogEntry)
        /\ Len(View(handed[c]) \o batch) = f.seq + k
        /\ \A i \in 1..(f.seq + k) : (View(handed[c]) \o batch)[i] =
             IF i <= f.seq THEN View(handed[c])[i] ELSE batch[i - f.seq]
    <3>1. /\ View(handed[c]) \o batch \in Seq(LogEntry)
          /\ Len(View(handed[c]) \o batch) = Len(View(handed[c])) + Len(batch)
          /\ \A i \in 1..(Len(View(handed[c])) + Len(batch)) :
               (View(handed[c]) \o batch)[i] =
                 IF i <= Len(View(handed[c])) THEN View(handed[c])[i]
                 ELSE batch[i - Len(View(handed[c]))]
      BY <1>10, <2>2, ConcatProperties
    <3> QED BY <1>10, <2>2, <3>1
  <2>4. ASSUME NEW i \in 1..(f.seq + k)
        PROVE  View(handed'[c])[i] = (View(handed[c]) \o batch)[i]
    <3>1. CASE i <= f.seq
      <4>1. i \in 1..f.seq /\ handed'[c][i] = handed[c][i]
        BY <1>2, <1>4, <1>9, <3>1
      <4> QED BY <2>1, <2>2, <2>3, <3>1, <4>1
    <3>2. CASE ~(i <= f.seq)
      <4> DEFINE j == i - f.seq
      <4>1. j \in 1..k /\ f.seq + j - 1 = i - 1
        <5>1. k \in Nat /\ f.seq \in Nat
          BY <1>2, <1>4
        <5> HIDE DEF k
        <5> QED BY <3>2, <5>1
      <4>2. handed'[c][i] = log[j]
        BY <1>9, <3>2
      <4>3. log[j].n = f.seq + j - 1 /\ (j \in losses) = (log[j].fate = "mismatch")
        BY <1>4, <1>6, <4>1
      <4>4. batch[j] = [n |-> f.seq + j - 1, lost |-> j \in losses]
        BY <4>1 DEF batch
      <4>5. (View(handed[c]) \o batch)[i] = batch[j]
        BY <2>3, <3>2
      <4> QED BY <2>1, <4>2, <4>3, <4>4, <4>5
    <3> QED BY <3>1, <3>2
  <2> QED BY <2>1, <2>3, <2>4, SeqEqual
<1>12. \A d \in Channels : StreamLog[d] = View(handed[d])
  BY DEF StreamLog, View
<1>13. \A d \in Channels : StreamLog'[d] = View(handed'[d])
  BY DEF StreamLog, View
<1>14. Len(StreamLog[c]) = f.seq
  BY <1>2, <1>7, <1>12, ViewProperties
<1>15. StreamLog' = [StreamLog EXCEPT ![c] = @ \o batch]
  <2> HIDE DEF batch
  <2>1. StreamLog' = [d \in Channels |-> View(handed'[d])]
    BY DEF StreamLog, View
  <2>2. StreamLog = [d \in Channels |-> View(handed[d])]
    BY DEF StreamLog, View
  <2>3. PICK G : G = StreamLog
    OBVIOUS
  <2>4. /\ G = [d \in Channels |-> View(handed[d])]
        /\ \A d \in Channels : View(handed'[d]) = IF d = c THEN G[c] \o batch ELSE G[d]
    <3>1. G = [d \in Channels |-> View(handed[d])]
      BY <2>2, <2>3, Zenon
    <3>2. \A d \in Channels : G[d] = View(handed[d])
      BY <3>1
    <3>3. ASSUME NEW d \in Channels
          PROVE  View(handed'[d]) = IF d = c THEN G[c] \o batch ELSE G[d]
      <4>1. CASE d = c
        BY <1>2, <1>11, <3>2, <4>1
      <4>2. CASE d # c
        <5>1. handed'[d] = handed[d]
          BY <1>8, <4>2
        <5> QED BY <3>2, <4>2, <5>1
      <4> QED BY <4>1, <4>2
    <3> QED BY <3>1, <3>3
  <2>5. [G EXCEPT ![c] = G[c] \o batch]
          = [d \in Channels |-> IF d = c THEN G[c] \o batch ELSE G[d]]
    BY <1>2, <2>4
  <2>6. [d \in Channels |-> View(handed'[d])]
          = [d \in Channels |-> IF d = c THEN G[c] \o batch ELSE G[d]]
    BY <2>4
  <2> QED BY <2>1, <2>3, <2>5, <2>6, Zenon
<1>16. Stream!Batch(c, k, losses) = batch
  BY <1>14 DEF Stream!Batch, StreamLog
<1>17. k \in 1..(produced[c] - f.seq) /\ losses \in SUBSET (2..k)
  BY <1>2, <1>4 DEF IInv, TypeOK
<1>18. Stream!Hand(c)
  <2> HIDE DEF batch, losses
  <2>1. k \in 1..(produced[c] - Len(StreamLog[c]))
    BY <1>14, <1>17
  <2>2. StreamLog' = [StreamLog EXCEPT ![c] = @ \o Stream!Batch(c, k, losses)]
    BY <1>15, <1>16
  <2> QED BY <1>17, <2>1, <2>2 DEF Stream!Hand, StreamLog
<1> QED BY <1>2, <1>18

\* What neither produces nor hands over is a stutter of the stream.
LEMMA QuietStutters == UNCHANGED <<produced, handed>> => UNCHANGED Stream!vars
BY DEF Stream!vars

\* Receiving a frame hands over a batch, or nothing.
LEMMA ReceiveRefines ==
  ASSUME IInv, NEW l \in Legs, Receive(l)
  PROVE  (\E c \in Channels : Stream!Hand(c)) \/ UNCHANGED Stream!vars
<1> DEFINE f == Head(wire[l])
<1>1. /\ wire[l] # <<>> /\ Feed(f) /\ UNCHANGED produced
  BY DEF Receive
<1>2. f \in Frame /\ Fresh(f)
  <2>1. wire[l] \in Seq(Frame)
    BY DEF IInv, TypeOK
  <2>2. f \in Frame /\ f = wire[l][1] /\ 1 \in 1..Len(wire[l])
    BY <1>1, <2>1, HeadTailProperties, EmptySeq, LenProperties
  <2> QED BY <2>2 DEF IInv, WireFresh
<1> HIDE DEF f
<1>3. CASE f.seq = expected[f.ch] /\ FeedExpected(f)
  BY <1>1, <1>2, <1>3, SweepHands
<1>4. CASE FeedOld(f) \/ FeedAhead(f) \/ FeedOverflow(f)
  BY <1>1, <1>4, QuietStutters DEF FeedOld, FeedAhead, FeedOverflow
<1>5. f.seq \in Int /\ expected[f.ch] \in Int
  BY <1>2 DEF IInv, TypeOK, Frame, Seqs
<1> QED BY <1>1, <1>3, <1>4, <1>5 DEF Feed

\* Every step of the group is a step of the stream, or a stutter.
LEMMA StepRefines == IInv /\ [Next]_vars => [Stream!Next]_(Stream!vars)
<1> SUFFICES ASSUME IInv, [Next]_vars PROVE Stream!Next \/ UNCHANGED Stream!vars
  OBVIOUS
<1>1. ASSUME NEW c \in Channels, NEW l \in Legs, NEW k \in Kinds, Send(c, l, k)
      PROVE  Stream!Next
  BY <1>1, SendProduces DEF Stream!Next
<1>2. ASSUME NEW l \in Legs, Receive(l) PROVE Stream!Next \/ UNCHANGED Stream!vars
  BY <1>2, ReceiveRefines DEF Stream!Next
<1>3. CASE Rebuild
  BY <1>3, RebuildRestarts DEF Stream!Next
<1>4. CASE \/ \E l \in Legs : Attach(l) \/ LegDown(l)
           \/ \E c \in Channels : Register(c) \/ Unregister(c)
           \/ SenderDown \/ ReceiverDown
  BY <1>4, QuietStutters
     DEF Attach, LegDown, Register, Unregister, SenderDown, ReceiverDown
<1>5. CASE UNCHANGED vars
  BY <1>5, QuietStutters DEF vars
<1> QED BY <1>1, <1>2, <1>3, <1>4, <1>5 DEF Next

\* The group implements an order-preserving, at-most-once stream per channel:
\* each step of either end and of the legs is a step of that stream or no step
\* of it at all.
THEOREM Implements == Spec => ImplementsOrdered
<1> QED BY InitRefines, StepRefines, InductiveInvariant, PTL
       DEF Spec, ImplementsOrdered, Stream!Spec
=============================================================================

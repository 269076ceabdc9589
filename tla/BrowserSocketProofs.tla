------------------------ MODULE BrowserSocketProofs ------------------------
(***************************************************************************)
(* Proofs about BrowserSocket, for any number of messages and whatever     *)
(* protocols, limits and graces: what the two halves of a channel know of  *)
(* each other through the frames between them.                             *)
(*                                                                         *)
(* The invariant describes each half alone (Handler, Channel), what each   *)
(* frame on the way says of both halves (Downlink, Uplink), and how many   *)
(* messages are on the way as long as nothing has been lost.               *)
(***************************************************************************)
EXTENDS BrowserSocket, SequenceTheorems, TLAPS

USE SocketAssumption

Before == {"arriving", "waiting", "refused"}

Srv == [phase : Before \union {"open", "finished"}, timer : BOOLEAN,
        raw : {"open", "cut", "answered", "upgraded", "closed"}, replies : Nat,
        ws : Sockets \ {"connecting"}, code : {"none", "app", "normal", "toobig", "failed"},
        left : PeerCodes, paused : BOOLEAN, sent : 0..MaxMsgs]

Cli == [phase : {"none", "auth", "dialled", "finished"}, accepted : BOOLEAN,
        closing : BOOLEAN, pending : {<<>>}, ups : Sockets,
        code : {"none", "app", "normal", "toobig"}, left : PeerCodes, paused : BOOLEAN,
        sent : 0..MaxMsgs]

\* The gateway's half: it answers once, and what it still holds.
Handler(s) ==
  /\ s.replies <= 1
  /\ s.raw \in {"open", "cut"} => s.replies = 0
  /\ s.raw = "upgraded" <=> s.ws # "none"
  /\ s.timer => s.phase = "open" /\ s.ws = "none"
  /\ s.phase = "arriving" => s.raw = "open"
  /\ s.phase \in Before => s.ws = "none"
  /\ s.phase = "open" => s.ws \in {"none", "open", "leaving"}
  /\ s.phase \in {"refused", "finished"} => s.raw # "open" /\ s.ws \in {"none", "closing", "closed"}
  /\ s.ws = "none" => s.sent = 0
  /\ s.code # "none" => s.phase = "finished"

\* The client's half.
Channel(c) ==
  /\ c.phase \in {"none", "auth"} => c.ups = "none" /\ ~c.accepted
  /\ c.phase = "dialled" => /\ c.ups \in {"connecting", "open", "leaving"}
                            /\ c.accepted <=> c.ups # "connecting"
  /\ c.phase = "finished" => c.ups \in {"none", "closing", "closed"}
  /\ c.code # "none" => c.phase = "finished"
  /\ ~c.accepted => c.sent = 0

\* What one half being where it is says of the other.
Joint(s, c, t) ==
  /\ s.phase \in Before => c.phase = "none"
  /\ s.ws # "none" => c.accepted
  /\ t = "offline" => s.phase \in Before

\* A frame to the client, the i-th of n on the way; k messages have arrived.
DownFrame(f, i, n, s, c, k) ==
  /\ f.type \in {"open", "close", "message"}
  /\ f.type = "open" => i = 1 /\ c.phase = "none"
  /\ f.type = "close" => i = n /\ s.phase = "finished"
  /\ f.type = "message" => c.accepted /\ (c.ups = "open" => f.n = k + i)
  /\ f.type = "close" /\ f.code = "app" =>
       s.left = "app" /\ c.accepted /\ (c.ups = "open" => s.sent + 1 = k + n)

Downlink(d, s, c, k, t) ==
  /\ s.phase \in Before => d = <<>>
  /\ \A i \in 1..Len(d) : DownFrame(d[i], i, Len(d), s, c, k)
  /\ t = "up" /\ s.phase = "open" /\ c.ups = "open" => s.sent = k + Len(d)
  /\ ~c.accepted => k = 0
  /\ c.code = "app" => s.left = "app" /\ s.phase = "finished" /\ k = s.sent

\* The frames on the way up matter to the browser: ws.accept is among them or
\* has upgraded it.
Counts(u, s) == s.ws = "open" \/ (u # <<>> /\ u[1].type = "accept")

\* Frames that have arrived, ws.accept included.
Arrived(s, k) == IF s.ws = "open" THEN k + 1 ELSE 0

\* A frame to the gateway.
UpFrame(f, i, u, s, c, k) ==
  /\ f.type \in {"accept", "reject", "error", "close", "message"}
  /\ f.type = "accept" => i = 1 /\ c.accepted /\ s.ws = "none"
  /\ f.type = "reject" => ~c.accepted
  /\ f.type \in {"reject", "error", "close"} => i = Len(u) /\ c.phase = "finished"
  /\ f.type = "message" => (Counts(u, s) => f.n + 1 = Arrived(s, k) + i)
  /\ f.type = "close" /\ f.code = "app" =>
       c.left = "app" /\ (Counts(u, s) => c.sent + 2 = Arrived(s, k) + Len(u))

Uplink(u, s, c, k, t) ==
  /\ s.phase \in Before => u = <<>>
  /\ c.phase # "finished" /\ ~c.accepted => u = <<>>
  /\ \A i \in 1..Len(u) : UpFrame(u[i], i, u, s, c, k)
  /\ t = "up" /\ c.phase = "dialled" /\ c.accepted /\ Counts(u, s) =>
       c.sent + 1 = Arrived(s, k) + Len(u)
  /\ s.ws = "none" => k = 0
  /\ s.code = "app" => c.left = "app" /\ c.phase = "finished" /\ k = c.sent

InOrder(q) == q = Counted(Len(q))

Typed ==
  /\ srv \in Srv /\ cli \in Cli
  /\ tunnel \in {"offline", "up", "broken"} /\ knows \subseteq {"server", "client"}
  /\ down \in Seq(Frames) /\ up \in Seq(Frames)
  /\ got \in [browser : Seq(Nat), upstream : Seq(Nat)]

IInv ==
  /\ Typed
  /\ Handler(srv) /\ Channel(cli) /\ Joint(srv, cli, tunnel)
  /\ Downlink(down, srv, cli, Len(got.upstream), tunnel)
  /\ Uplink(up, srv, cli, Len(got.browser), tunnel)
  /\ InOrder(got.upstream) /\ InOrder(got.browser)

-----------------------------------------------------------------------------
\* Frames and queues.

LEMMA FrameFields ==
  ASSUME NEW f \in Frames
  PROVE  /\ f.type = "message" => f.n \in Nat
         /\ f.type = "close" => f.code \in PeerCodes
BY DEF Frames, PeerCodes

LEMMA FrameKinds ==
  /\ \A t \in {"open", "reject", "error"} :
       Plain(t) \in Frames /\ Plain(t).type = t /\ Plain(t).code = "none"
  /\ \A c \in PeerCodes :
       Close(c) \in Frames /\ Close(c).type = "close" /\ Close(c).code = c
  /\ \A n \in Nat :
       Message(n) \in Frames /\ Message(n).type = "message" /\ Message(n).n = n
BY DEF Frames, Plain, Close, Message

LEMMA HeadTail ==
  ASSUME NEW S, NEW q \in Seq(S), q # <<>>
  PROVE  /\ Len(q) \in Nat /\ Len(q) >= 1 /\ 1 \in 1..Len(q)
         /\ Head(q) = q[1] /\ Head(q) \in S
         /\ Tail(q) \in Seq(S) /\ Len(Tail(q)) = Len(q) - 1
         /\ \A i \in 1..Len(Tail(q)) : i + 1 \in 1..Len(q) /\ Tail(q)[i] = q[i + 1]
<1>1. Len(q) \in Nat /\ Len(q) # 0
  BY EmptySeq, LenProperties
<1>2. Tail(q) \in Seq(S) /\ Len(Tail(q)) = Len(q) - 1
  BY HeadTailProperties
<1>3. \A i \in 1..Len(Tail(q)) : Tail(q)[i] = q[i + 1]
  BY HeadTailProperties
<1>4. \A i \in 1..Len(Tail(q)) : i + 1 \in 1..Len(q)
  BY <1>1, <1>2
<1>5. Head(q) = q[1] /\ Head(q) \in S
  BY HeadTailProperties
<1>6. Len(q) >= 1 /\ 1 \in 1..Len(q)
  BY <1>1
<1> QED BY <1>1, <1>2, <1>3, <1>4, <1>5, <1>6

LEMMA InOrderAppend ==
  ASSUME NEW q \in Seq(Nat), InOrder(q), NEW n \in Nat, n = Len(q) + 1
  PROVE  InOrder(Append(q, n)) /\ Append(q, n) \in Seq(Nat) /\ Len(Append(q, n)) = Len(q) + 1
<1>1. PICK a : a = Append(q, n)
  OBVIOUS
<1>2. PICK k : k = Len(q)
  OBVIOUS
<1>3. /\ k \in Nat /\ a \in Seq(Nat) /\ Len(a) = k + 1 /\ a[k + 1] = k + 1
      /\ \A i \in 1..k : a[i] = q[i]
  BY <1>1, <1>2, AppendProperties, LenProperties
<1>4. q = [i \in 1..k |-> i]
  BY <1>2, Zenon DEF InOrder, Counted
<1>5. PICK g : g = [i \in 1..k + 1 |-> i]
  OBVIOUS
<1>6. g \in Seq(Nat) /\ Len(g) = k + 1
  <2>1. \A i \in 1..k + 1 : i \in Nat
    BY <1>3
  <2> QED BY <1>3, <1>5, <2>1
<1>7. \A i \in 1..k + 1 : a[i] = g[i]
  BY <1>3, <1>4, <1>5
<1>8. a = g
  BY <1>3, <1>6, <1>7, SeqEqual
<1>9. InOrder(a)
  BY <1>3, <1>5, <1>8 DEF InOrder, Counted
<1> QED BY <1>1, <1>2, <1>3, <1>9

-----------------------------------------------------------------------------
\* The downlink.

\* It is not affected by a half that neither sends nor receives.
LEMMA DownStays ==
  ASSUME NEW d \in Seq(Frames), NEW s \in Srv, NEW c \in Cli, NEW k \in Nat, NEW t,
         Downlink(d, s, c, k, t), NEW s2 \in Srv, NEW c2 \in Cli, NEW t2,
         s2.phase \in Before => s.phase \in Before,
         s.phase = "finished" => s2.phase = "finished" /\ s2.left = s.left /\ s2.sent = s.sent,
         t2 = "up" /\ s2.phase = "open" => t = "up" /\ s.phase = "open" /\ s2.sent = s.sent,
         \/ c.phase = "none" => c2.phase = "none"
         \/ \A i \in 1..Len(d) : d[i].type # "open",
         c2.accepted <=> c.accepted,
         c2.ups = "open" => c.ups = "open",
         c2.code = "app" => c.code = "app"
  PROVE  Downlink(d, s2, c2, k, t2)
<1>1. ASSUME NEW i \in 1..Len(d)
      PROVE  DownFrame(d[i], i, Len(d), s2, c2, k)
  <2>1. DownFrame(d[i], i, Len(d), s, c, k)
    BY DEF Downlink
  <2> QED BY <2>1 DEF DownFrame
<1>2. t2 = "up" /\ s2.phase = "open" /\ c2.ups = "open" => s2.sent = k + Len(d)
  BY DEF Downlink
<1>3. c2.code = "app" => s2.left = "app" /\ s2.phase = "finished" /\ k = s2.sent
  BY DEF Downlink
<1> QED BY <1>1, <1>2, <1>3 DEF Downlink

\* A message is read by an open upstream, or any frame by no one.
LEMMA DownTail ==
  ASSUME NEW d \in Seq(Frames), NEW s \in Srv, NEW c \in Cli, NEW k \in Nat, NEW t,
         Downlink(d, s, c, k, t), d # <<>>, NEW k2 \in Nat,
         \/ c.ups # "open" /\ k2 = k
         \/ d[1].type = "message" /\ k2 = k + 1,
         ~c.accepted => k2 = 0,
         c.code = "app" => k2 = k
  PROVE  /\ Downlink(Tail(d), s, c, k2, t)
         /\ \A i \in 1..Len(Tail(d)) : Tail(d)[i].type # "open"
<1>1. PICK e : e = Tail(d)
  OBVIOUS
<1>2. PICK n : n = Len(d)
  OBVIOUS
<1>3. /\ n \in Nat /\ n >= 1 /\ 1 \in 1..n /\ e \in Seq(Frames) /\ Len(e) = n - 1
      /\ \A i \in 1..Len(e) : i + 1 \in 1..n /\ e[i] = d[i + 1]
  BY <1>1, <1>2, HeadTail
<1>4. ASSUME NEW i \in 1..Len(e)
      PROVE  DownFrame(e[i], i, Len(e), s, c, k2) /\ e[i].type # "open"
  <2>1. DownFrame(e[i], i + 1, n, s, c, k) /\ i \in Nat /\ i >= 1
    BY <1>2, <1>3 DEF Downlink
  <2>2. e[i].type # "open"
    BY <2>1 DEF DownFrame
  <2>3. e[i].type = "close" => i = Len(e)
    BY <1>3, <2>1 DEF DownFrame
  <2>4. c.ups = "open" => k2 + i = k + (i + 1) /\ k2 + Len(e) = k + n
    <3>1. CASE c.ups = "open"
      <4>1. k2 = k + 1
        BY <3>1
      <4> QED BY <1>3, <2>1, <4>1
    <3> QED BY <3>1
  <2> QED BY <2>1, <2>2, <2>3, <2>4 DEF DownFrame
<1>5. c.ups = "open" => k2 + Len(e) = k + n
  BY <1>3
<1>6. s.phase \notin Before
  BY DEF Downlink
<1>7. Downlink(e, s, c, k2, t)
  BY <1>2, <1>4, <1>5, <1>6 DEF Downlink
<1> QED BY <1>1, <1>4, <1>7

\* A frame is sent: a message, or the close that ends the handler.
LEMMA DownAppend ==
  ASSUME NEW d \in Seq(Frames), NEW s \in Srv, NEW c \in Cli, NEW k \in Nat, NEW t,
         Downlink(d, s, c, k, t), t = "up", s.phase = "open", c.code # "app",
         NEW s2 \in Srv, NEW f \in Frames,
         \/ /\ f.type = "message" /\ f.n = s.sent + 1 /\ c.accepted
            /\ s2.phase = "open" /\ s2.sent = s.sent + 1
         \/ /\ f.type = "close" /\ s2.phase = "finished" /\ s2.sent = s.sent
            /\ f.code = "app" => s2.left = "app" /\ c.accepted
  PROVE  Downlink(Append(d, f), s2, c, k, t)
<1>1. PICK e : e = Append(d, f)
  OBVIOUS
<1>2. PICK n : n = Len(d)
  OBVIOUS
<1>3. /\ n \in Nat /\ e \in Seq(Frames) /\ Len(e) = n + 1 /\ e[n + 1] = f
      /\ \A i \in 1..n : e[i] = d[i]
  BY <1>1, <1>2, AppendProperties, LenProperties
<1>4. c.ups = "open" => s.sent = k + n
  BY <1>2 DEF Downlink
<1>5. s.sent \in Nat
  BY DEF Srv
<1>6. ASSUME NEW i \in 1..n
      PROVE  DownFrame(e[i], i, n + 1, s2, c, k)
  <2>1. DownFrame(e[i], i, n, s, c, k)
    BY <1>2, <1>3 DEF Downlink
  <2>2. e[i].type # "close"
    BY <2>1 DEF DownFrame
  <2> QED BY <2>1, <2>2 DEF DownFrame
<1>7. DownFrame(f, n + 1, n + 1, s2, c, k)
  <2>1. c.ups = "open" => s.sent + 1 = k + (n + 1)
    BY <1>3, <1>4, <1>5
  <2> QED BY <2>1 DEF DownFrame
<1>8. \A i \in 1..n + 1 : DownFrame(e[i], i, n + 1, s2, c, k)
  BY <1>3, <1>6, <1>7
<1>9. s2.phase \notin Before
  BY DEF Before
<1>10. s2.phase = "open" /\ c.ups = "open" => s2.sent = k + (n + 1)
  BY <1>3, <1>4, <1>5
<1>11. Downlink(e, s2, c, k, t)
  BY <1>3, <1>8, <1>9, <1>10 DEF Downlink
<1> QED BY <1>1, <1>11

-----------------------------------------------------------------------------
\* The uplink.

LEMMA UpStays ==
  ASSUME NEW u \in Seq(Frames), NEW s \in Srv, NEW c \in Cli, NEW k \in Nat, NEW t,
         Uplink(u, s, c, k, t), NEW s2 \in Srv, NEW c2 \in Cli, NEW t2,
         s2.phase \in Before => s.phase \in Before,
         s2.ws = "none" <=> s.ws = "none", s2.ws = "open" => s.ws = "open",
         s2.code = "app" => s.code = "app",
         c2.phase # "finished" /\ ~c2.accepted => (c.phase # "finished" /\ ~c.accepted) \/ u = <<>>,
         c.accepted => c2.accepted,
         c.phase = "finished" => /\ c2.phase = "finished" /\ c2.left = c.left
                                 /\ c2.sent = c.sent /\ (c2.accepted => c.accepted),
         t2 = "up" /\ c2.phase = "dialled" /\ c2.accepted =>
           t = "up" /\ c.phase = "dialled" /\ c.accepted /\ c2.sent = c.sent
  PROVE  Uplink(u, s2, c2, k, t2)
<1>1. ASSUME Counts(u, s2)
      PROVE  Counts(u, s) /\ Arrived(s2, k) = Arrived(s, k)
  <2>1. CASE s2.ws = "open"
    BY <2>1 DEF Counts, Arrived
  <2>2. CASE s2.ws # "open"
    <3>1. u # <<>> /\ u[1].type = "accept"
      BY <1>1, <2>2 DEF Counts
    <3>2. 1 \in 1..Len(u)
      BY <3>1, HeadTail
    <3>3. s.ws = "none"
      BY <3>1, <3>2 DEF Uplink, UpFrame
    <3> QED BY <2>2, <3>1, <3>3 DEF Counts, Arrived
  <2> QED BY <2>1, <2>2
<1>2. ASSUME NEW i \in 1..Len(u)
      PROVE  UpFrame(u[i], i, u, s2, c2, k)
  <2>1. UpFrame(u[i], i, u, s, c, k)
    BY DEF Uplink
  <2> QED BY <1>1, <2>1 DEF UpFrame
<1>3. t2 = "up" /\ c2.phase = "dialled" /\ c2.accepted /\ Counts(u, s2) =>
        c2.sent + 1 = Arrived(s2, k) + Len(u)
  BY <1>1 DEF Uplink
<1>4. s2.code = "app" => c2.left = "app" /\ c2.phase = "finished" /\ k = c2.sent
  BY DEF Uplink
<1>5. c2.phase # "finished" /\ ~c2.accepted => u = <<>>
  BY DEF Uplink
<1> QED BY <1>2, <1>3, <1>4, <1>5 DEF Uplink

\* A message is read by an open browser, or any frame by no one.
LEMMA UpTail ==
  ASSUME NEW u \in Seq(Frames), NEW s \in Srv, NEW c \in Cli, NEW k \in Nat, NEW t,
         Uplink(u, s, c, k, t), u # <<>>, NEW k2 \in Nat,
         \/ s.ws # "open" /\ k2 = k
         \/ s.ws = "open" /\ u[1].type = "message" /\ k2 = k + 1,
         s.code = "app" => k2 = k
  PROVE  /\ Uplink(Tail(u), s, c, k2, t)
         /\ \A i \in 1..Len(Tail(u)) : Tail(u)[i].type # "accept"
<1>1. PICK e : e = Tail(u)
  OBVIOUS
<1>2. PICK n : n = Len(u)
  OBVIOUS
<1>3. /\ n \in Nat /\ n >= 1 /\ 1 \in 1..n /\ e \in Seq(Frames) /\ Len(e) = n - 1
      /\ \A i \in 1..Len(e) : i + 1 \in 1..n /\ e[i] = u[i + 1]
  BY <1>1, <1>2, HeadTail
<1>4. ASSUME NEW i \in 1..Len(e)
      PROVE  UpFrame(e[i], i + 1, u, s, c, k) /\ i \in Nat /\ i >= 1 /\ e[i].type # "accept"
  <2>1. UpFrame(e[i], i + 1, u, s, c, k) /\ i \in Nat /\ i >= 1
    BY <1>2, <1>3 DEF Uplink
  <2> QED BY <2>1 DEF UpFrame
<1>5. Counts(e, s) => s.ws = "open"
  <2>1. e # <<>> => 1 \in 1..Len(e)
    BY <1>3, HeadTail
  <2> QED BY <1>4, <2>1 DEF Counts
<1>6. s.ws = "open" => /\ k2 = k + 1 /\ Counts(u, s)
                       /\ Arrived(s, k) = k + 1 /\ Arrived(s, k2) = k + 2
  BY DEF Counts, Arrived
<1>7. ASSUME NEW i \in 1..Len(e)
      PROVE  UpFrame(e[i], i, e, s, c, k2)
  <2>1. UpFrame(e[i], i + 1, u, s, c, k) /\ i \in Nat /\ i >= 1 /\ e[i].type # "accept"
    BY <1>4
  <2>2. i + 1 = n => i = Len(e)
    BY <1>3, <2>1
  <2>3. e[i].type = "message" => (Counts(e, s) => e[i].n + 1 = Arrived(s, k2) + i)
    <3> SUFFICES ASSUME e[i].type = "message", Counts(e, s)
                 PROVE  e[i].n + 1 = Arrived(s, k2) + i
      OBVIOUS
    <3>1. e[i].n + 1 = (k + 1) + (i + 1)
      BY <1>5, <1>6, <2>1 DEF UpFrame
    <3> QED BY <1>5, <1>6, <2>1, <3>1
  <2>4. e[i].type = "close" /\ e[i].code = "app" =>
          c.left = "app" /\ (Counts(e, s) => c.sent + 2 = Arrived(s, k2) + Len(e))
    <3> SUFFICES ASSUME e[i].type = "close", e[i].code = "app"
                 PROVE  c.left = "app" /\ (Counts(e, s) => c.sent + 2 = Arrived(s, k2) + Len(e))
      OBVIOUS
    <3>1. c.left = "app"
      BY <2>1 DEF UpFrame
    <3>2. Counts(e, s) => c.sent + 2 = (k + 1) + n
      BY <1>2, <1>5, <1>6, <2>1 DEF UpFrame
    <3> QED BY <1>3, <1>5, <1>6, <3>1, <3>2
  <2> QED BY <1>2, <2>1, <2>2, <2>3, <2>4 DEF UpFrame
<1>8. t = "up" /\ c.phase = "dialled" /\ c.accepted /\ Counts(e, s) =>
        c.sent + 1 = Arrived(s, k2) + Len(e)
  <2> SUFFICES ASSUME t = "up", c.phase = "dialled", c.accepted, Counts(e, s)
               PROVE  c.sent + 1 = Arrived(s, k2) + Len(e)
    OBVIOUS
  <2>1. c.sent + 1 = (k + 1) + n
    BY <1>2, <1>5, <1>6 DEF Uplink
  <2> QED BY <1>3, <1>5, <1>6, <2>1
<1>9. s.phase \notin Before /\ (c.phase = "finished" \/ c.accepted)
  BY DEF Uplink
<1>10. s.ws = "none" => k2 = 0
  BY DEF Uplink
<1>11. Uplink(e, s, c, k2, t)
  BY <1>7, <1>8, <1>9, <1>10 DEF Uplink
<1> QED BY <1>1, <1>4, <1>11

\* ws.accept, a message, or the frame that ends the channel.
LEMMA UpAppend ==
  ASSUME NEW u \in Seq(Frames), NEW s \in Srv, NEW c \in Cli, NEW k \in Nat, NEW t,
         Uplink(u, s, c, k, t), t = "up", c.phase # "finished", s.phase \notin Before,
         s.code # "app", s.ws # "none" => c.accepted, NEW c2 \in Cli, NEW f \in Frames,
         \/ /\ f.type = "accept" /\ ~c.accepted /\ c.sent = 0
            /\ c2.accepted /\ c2.phase = "dialled" /\ c2.sent = 0
         \/ /\ f.type = "message" /\ f.n = c.sent + 1 /\ c.phase = "dialled" /\ c.accepted
            /\ c2.accepted /\ c2.phase = "dialled" /\ c2.sent = c.sent + 1
         \/ /\ f.type \in {"reject", "error", "close"} /\ c2.phase = "finished"
            /\ c2.sent = c.sent /\ c2.accepted = c.accepted
            /\ f.type = "reject" => ~c.accepted
            /\ f.type = "close" /\ f.code = "app" =>
                 c.phase = "dialled" /\ c.accepted /\ c2.left = "app"
  PROVE  Uplink(Append(u, f), s, c2, k, t)
<1>1. PICK e : e = Append(u, f)
  OBVIOUS
<1>2. PICK n : n = Len(u)
  OBVIOUS
<1>3. /\ n \in Nat /\ e \in Seq(Frames) /\ Len(e) = n + 1 /\ e[n + 1] = f /\ e # <<>>
      /\ \A i \in 1..n : e[i] = u[i]
  BY <1>1, <1>2, AppendProperties, LenProperties
<1>4. c.sent \in Nat /\ c2.sent \in Nat
  BY DEF Cli
<1>5. n = 0 <=> u = <<>>
  BY <1>2, EmptySeq
<1>6. CASE ~c.accepted
  <2>1. n = 0 /\ s.ws = "none" /\ k = 0
    BY <1>5, <1>6 DEF Uplink
  <2>2. UpFrame(f, 1, e, s, c2, k)
    <3>1. f.type # "message" /\ ~(f.type = "close" /\ f.code = "app")
      BY <1>6
    <3>2. Len(e) = 1
      BY <1>3, <2>1
    <3> QED BY <1>6, <2>1, <3>1, <3>2 DEF UpFrame
  <2>3. \A i \in 1..Len(e) : UpFrame(e[i], i, e, s, c2, k)
    BY <1>3, <2>1, <2>2
  <2>4. c2.phase = "dialled" /\ c2.accepted => c2.sent + 1 = Arrived(s, k) + Len(e)
    BY <1>3, <1>6, <2>1 DEF Arrived
  <2>5. s.phase \notin Before /\ (c2.phase = "finished" \/ c2.accepted)
    OBVIOUS
  <2>6. Uplink(e, s, c2, k, t)
    BY <2>1, <2>3, <2>4, <2>5 DEF Uplink
  <2> QED BY <1>1, <2>6
<1>7. CASE c.accepted
  <2>1. f.type \in {"message", "reject", "error", "close"} /\ f.type # "accept"
        /\ c2.accepted
    BY <1>7 DEF Cli
  <2>2. Counts(e, s) => Counts(u, s)
    <3>1. CASE s.ws = "open"
      BY <3>1 DEF Counts
    <3>2. CASE n = 0
      BY <1>3, <2>1, <3>2 DEF Counts
    <3>3. CASE n # 0
      <4>1. e[1] = u[1] /\ u # <<>>
        BY <1>3, <1>5, <3>3
      <4> QED BY <4>1 DEF Counts
    <3> QED BY <3>2, <3>3
  <2>3. ASSUME NEW i \in 1..n
        PROVE  UpFrame(e[i], i, e, s, c2, k)
    <3>1. UpFrame(e[i], i, u, s, c, k)
      BY <1>2, <1>3 DEF Uplink
    <3>2. e[i].type \in {"accept", "message"}
      BY <3>1 DEF UpFrame
    <3> QED BY <2>1, <2>2, <3>1, <3>2 DEF UpFrame
  <2>4. ASSUME c.phase = "dialled", Counts(e, s)
        PROVE  c.sent + 1 = Arrived(s, k) + n
    BY <1>2, <1>7, <2>2, <2>4 DEF Uplink
  <2>5. Arrived(s, k) \in Nat
    BY DEF Arrived
  <2>6. UpFrame(f, n + 1, e, s, c2, k)
    <3>1. f.type = "message" => (Counts(e, s) => f.n + 1 = Arrived(s, k) + (n + 1))
      <4> SUFFICES ASSUME f.type = "message", Counts(e, s)
                   PROVE  f.n + 1 = Arrived(s, k) + (n + 1)
        OBVIOUS
      <4>1. f.n = c.sent + 1 /\ c.phase = "dialled"
        BY <1>7
      <4> QED BY <1>3, <1>4, <2>4, <2>5, <4>1
    <3>2. f.type = "close" /\ f.code = "app" =>
            c2.left = "app" /\ (Counts(e, s) => c2.sent + 2 = Arrived(s, k) + (n + 1))
      <4> SUFFICES ASSUME f.type = "close", f.code = "app"
                   PROVE  c2.left = "app"
                          /\ (Counts(e, s) => c2.sent + 2 = Arrived(s, k) + (n + 1))
        OBVIOUS
      <4>1. c2.left = "app" /\ c2.sent = c.sent /\ c.phase = "dialled"
        OBVIOUS
      <4> QED BY <1>3, <1>4, <2>4, <2>5, <4>1
    <3>3. f.type \in {"reject", "error", "close"} => c2.phase = "finished"
      OBVIOUS
    <3>4. f.type # "reject"
      BY <1>7
    <3> QED BY <1>3, <2>1, <3>1, <3>2, <3>3, <3>4 DEF UpFrame
  <2>7. \A i \in 1..n + 1 : UpFrame(e[i], i, e, s, c2, k)
    BY <1>3, <2>3, <2>6
  <2>8. c2.phase = "dialled" /\ Counts(e, s) => c2.sent + 1 = Arrived(s, k) + (n + 1)
    <3> SUFFICES ASSUME c2.phase = "dialled", Counts(e, s)
                 PROVE  c2.sent + 1 = Arrived(s, k) + (n + 1)
      OBVIOUS
    <3>1. c2.sent = c.sent + 1 /\ c.phase = "dialled"
      BY <1>7
    <3> QED BY <1>3, <1>4, <2>4, <2>5, <3>1
  <2>9. s.ws = "none" => k = 0
    BY DEF Uplink
  <2>10. Uplink(e, s, c2, k, t)
    BY <1>3, <2>1, <2>7, <2>8, <2>9 DEF Uplink
  <2> QED BY <1>1, <2>10
<1> QED BY <1>6, <1>7

\* ws.accept is read, and upgrades the browser.
LEMMA UpUpgrade ==
  ASSUME NEW u \in Seq(Frames), NEW s \in Srv, NEW c \in Cli, NEW k \in Nat, NEW t,
         Uplink(u, s, c, k, t), u # <<>>, u[1].type = "accept", NEW s2 \in Srv,
         s2.ws = "open", s2.phase = "open", s2.code # "app"
  PROVE  Uplink(Tail(u), s2, c, k, t)
<1>1. PICK e : e = Tail(u)
  OBVIOUS
<1>2. PICK n : n = Len(u)
  OBVIOUS
<1>3. /\ n \in Nat /\ n >= 1 /\ 1 \in 1..n /\ e \in Seq(Frames) /\ Len(e) = n - 1
      /\ \A i \in 1..Len(e) : i + 1 \in 1..n /\ e[i] = u[i + 1]
  BY <1>1, <1>2, HeadTail
<1>4. s.ws = "none" /\ k = 0 /\ c.accepted
  <2>1. UpFrame(u[1], 1, u, s, c, k)
    BY <1>2, <1>3 DEF Uplink
  <2>2. s.ws = "none" /\ c.accepted
    BY <2>1 DEF UpFrame
  <2> QED BY <2>2 DEF Uplink
<1>5. Counts(u, s) /\ Arrived(s, k) = 0 /\ Arrived(s2, k) = 1
  BY <1>4 DEF Counts, Arrived
<1>6. ASSUME NEW i \in 1..Len(e)
      PROVE  UpFrame(e[i], i, e, s2, c, k)
  <2>1. UpFrame(e[i], i + 1, u, s, c, k) /\ i \in Nat /\ i >= 1
    <3>1. i \in Nat /\ i >= 1 /\ i + 1 \in 1..n /\ e[i] = u[i + 1]
      BY <1>3
    <3>2. \A j \in 1..n : UpFrame(u[j], j, u, s, c, k)
      BY <1>2 DEF Uplink
    <3> QED BY <3>1, <3>2
  <2>2. e[i].type # "accept"
    BY <2>1 DEF UpFrame
  <2>3. i + 1 = n => i = Len(e)
    BY <1>3, <2>1
  <2>4. e[i].type = "message" => e[i].n + 1 = 1 + i
    BY <1>5, <2>1 DEF UpFrame
  <2>5. e[i].type = "close" /\ e[i].code = "app" => c.left = "app" /\ c.sent + 2 = n
    <3>1. Arrived(s, k) + n = n
      BY <1>3, <1>5
    <3> QED BY <1>2, <1>5, <2>1, <3>1 DEF UpFrame
  <2>6. n = 1 + Len(e)
    BY <1>3
  <2> QED BY <1>2, <1>5, <2>1, <2>2, <2>3, <2>4, <2>5, <2>6 DEF UpFrame
<1>7. t = "up" /\ c.phase = "dialled" /\ c.accepted => c.sent + 1 = 1 + Len(e)
  <2>1. Arrived(s, k) + n = 1 + Len(e)
    BY <1>3, <1>5
  <2> QED BY <1>2, <1>5, <2>1 DEF Uplink
<1>8. Uplink(e, s2, c, k, t)
  BY <1>4, <1>5, <1>6, <1>7 DEF Uplink, Before
<1> QED BY <1>1, <1>8

\* The frame that ends the channel is the last one.
LEMMA UpLast ==
  ASSUME NEW u \in Seq(Frames), NEW s \in Srv, NEW c \in Cli, NEW k \in Nat, NEW t,
         Uplink(u, s, c, k, t), u # <<>>, u[1].type \in {"reject", "error", "close"}
  PROVE  /\ Tail(u) = <<>> /\ c.phase = "finished" /\ s.phase \notin Before
         /\ u[1].type = "reject" => ~c.accepted
         /\ u[1].type = "close" /\ u[1].code = "app" /\ s.ws = "open" =>
              c.left = "app" /\ c.sent = k
<1>1. /\ Len(u) \in Nat /\ Len(u) >= 1 /\ 1 \in 1..Len(u) /\ Tail(u) \in Seq(Frames)
      /\ Len(Tail(u)) = Len(u) - 1
  BY HeadTail
<1>2. UpFrame(u[1], 1, u, s, c, k)
  BY <1>1 DEF Uplink
<1>3. Len(u) = 1 /\ c.phase = "finished" /\ (u[1].type = "reject" => ~c.accepted)
  BY <1>2 DEF UpFrame
<1>4. Tail(u) = <<>>
  <2>1. Len(Tail(u)) = 0
    BY <1>1, <1>3
  <2> QED BY <1>1, <2>1, EmptySeq
<1>5. u[1].type = "close" /\ u[1].code = "app" /\ s.ws = "open" => c.left = "app" /\ c.sent = k
  <2> SUFFICES ASSUME u[1].type = "close", u[1].code = "app", s.ws = "open"
               PROVE  c.left = "app" /\ c.sent = k
    OBVIOUS
  <2>1. c.left = "app" /\ c.sent + 2 = (k + 1) + 1
    BY <1>2, <1>3 DEF UpFrame, Counts, Arrived
  <2>2. c.sent \in Nat
    BY DEF Cli
  <2> QED BY <2>1, <2>2
<1>6. s.phase \notin Before
  BY DEF Uplink
<1> QED BY <1>3, <1>4, <1>5, <1>6

\* So it is on the downlink.
LEMMA DownLast ==
  ASSUME NEW d \in Seq(Frames), NEW s \in Srv, NEW c \in Cli, NEW k \in Nat, NEW t,
         Downlink(d, s, c, k, t), d # <<>>, d[1].type = "close"
  PROVE  /\ Tail(d) = <<>> /\ s.phase = "finished"
         /\ d[1].code = "app" /\ c.ups = "open" => s.left = "app" /\ s.sent = k
<1>1. /\ Len(d) \in Nat /\ Len(d) >= 1 /\ 1 \in 1..Len(d) /\ Tail(d) \in Seq(Frames)
      /\ Len(Tail(d)) = Len(d) - 1
  BY HeadTail
<1>2. DownFrame(d[1], 1, Len(d), s, c, k)
  BY <1>1 DEF Downlink
<1>3. Len(d) = 1 /\ s.phase = "finished"
  BY <1>2 DEF DownFrame
<1>4. Tail(d) = <<>>
  <2>1. Len(Tail(d)) = 0
    BY <1>1, <1>3
  <2> QED BY <1>1, <2>1, EmptySeq
<1>5. d[1].code = "app" /\ c.ups = "open" => s.left = "app" /\ s.sent = k
  <2>1. s.sent \in Nat
    BY DEF Srv
  <2> QED BY <1>2, <1>3, <2>1 DEF DownFrame
<1> QED BY <1>3, <1>4, <1>5

\* Nothing is on the way.
LEMMA DownEmpty ==
  ASSUME NEW s \in Srv, NEW c \in Cli, NEW k \in Nat, NEW t,
         t = "up" /\ s.phase = "open" /\ c.ups = "open" => s.sent = k,
         ~c.accepted => k = 0,
         c.code = "app" => s.left = "app" /\ s.phase = "finished" /\ k = s.sent
  PROVE  Downlink(<<>>, s, c, k, t)
<1>1. Len(<<>>) = 0 /\ k + 0 = k
  BY EmptySeq
<1>2. \A i \in 1..Len(<<>>) : FALSE
  BY <1>1
<1>3. t = "up" /\ s.phase = "open" /\ c.ups = "open" => s.sent = k + Len(<<>>)
  BY <1>1
<1> QED BY <1>2, <1>3 DEF Downlink

LEMMA UpEmpty ==
  ASSUME NEW s \in Srv, NEW c \in Cli, NEW k \in Nat, NEW t,
         t # "up" \/ c.phase # "dialled" \/ s.ws # "open",
         s.ws = "none" => k = 0,
         s.code = "app" => c.left = "app" /\ c.phase = "finished" /\ k = c.sent
  PROVE  Uplink(<<>>, s, c, k, t)
<1>1. \A i \in 1..Len(<<>>) : FALSE
  <2>1. Len(<<>>) = 0
    BY EmptySeq
  <2> QED BY <2>1
<1>2. t = "up" /\ c.phase = "dialled" => ~Counts(<<>>, s)
  BY DEF Counts
<1> QED BY <1>1, <1>2 DEF Uplink

-----------------------------------------------------------------------------
\* The operators of the gateway's half.

\* Two handlers that differ in their phase, timer, answer and codes at most.
SameBut(s2, s) ==
  /\ s2 \in Srv /\ s2.left = s.left /\ s2.paused = s.paused /\ s2.sent = s.sent

\* writeRawResponse.
LEMMA AnswerFields ==
  ASSUME NEW s \in Srv
  PROVE  LET a == Answer(s)
         IN /\ SameBut(a, s) /\ a.phase = s.phase /\ a.timer = s.timer /\ a.ws = s.ws
            /\ a.code = s.code
            /\ IF s.raw \in {"open", "upgraded"}
               THEN a.raw = "answered" /\ a.replies = s.replies + 1
               ELSE a.raw = s.raw /\ a.replies = s.replies
<1>1. PICK r : r = s.replies + 1
  OBVIOUS
<1>2. r \in Nat
  BY <1>1 DEF Srv
<1>3. PICK b : b = [s EXCEPT !.raw = "answered", !.replies = r]
  OBVIOUS
<1>4. /\ SameBut(b, s) /\ b.phase = s.phase /\ b.timer = s.timer /\ b.ws = s.ws
      /\ b.code = s.code /\ b.raw = "answered" /\ b.replies = r
  BY <1>2, <1>3 DEF Srv, SameBut
<1>5. PICK a : a = Answer(s)
  OBVIOUS
<1>6. a = IF s.raw \in {"cut", "answered", "closed"} THEN s ELSE b
  BY <1>1, <1>3, <1>5, Zenon DEF Answer
<1>7. s.raw \in {"cut", "answered", "closed"} \/ s.raw \in {"open", "upgraded"}
  BY DEF Srv
<1>8. SameBut(s, s)
  BY DEF SameBut
<1> QED BY <1>1, <1>4, <1>5, <1>6, <1>7, <1>8

\* finish.
LEMMA FinishFields ==
  ASSUME NEW s \in Srv
  PROVE  LET f == Finish(s)
         IN /\ SameBut(f, s) /\ f.phase = "finished" /\ f.timer = FALSE
            /\ f.ws = s.ws /\ f.code = s.code /\ f.raw = s.raw /\ f.replies = s.replies
<1>1. PICK f : f = [s EXCEPT !.phase = "finished", !.timer = FALSE]
  OBVIOUS
<1>2. /\ SameBut(f, s) /\ f.phase = "finished" /\ f.timer = FALSE
      /\ f.ws = s.ws /\ f.code = s.code /\ f.raw = s.raw /\ f.replies = s.replies
  BY <1>1 DEF Srv, SameBut
<1>3. f = Finish(s)
  BY <1>1, Zenon DEF Finish
<1> QED BY <1>2, <1>3

\* A handler that has not upgraded answers and finishes.
LEMMA AnswerFinishes ==
  ASSUME NEW s \in Srv, Handler(s), s.ws = "none"
  PROVE  LET f == Finish(Answer(s))
         IN /\ SameBut(f, s) /\ Handler(f) /\ f.phase = "finished" /\ f.ws = "none"
            /\ f.code = s.code
<1>1. PICK a : a = Answer(s)
  OBVIOUS
<1>2. /\ SameBut(a, s) /\ a.phase = s.phase /\ a.timer = s.timer /\ a.ws = s.ws
      /\ a.code = s.code
      /\ IF s.raw \in {"open", "upgraded"}
         THEN a.raw = "answered" /\ a.replies = s.replies + 1
         ELSE a.raw = s.raw /\ a.replies = s.replies
  BY <1>1, AnswerFields
<1>3. a \in Srv
  BY <1>2 DEF SameBut
<1>4. PICK f : f = Finish(a)
  OBVIOUS
<1>5. /\ SameBut(f, a) /\ f.phase = "finished" /\ f.timer = FALSE
      /\ f.ws = a.ws /\ f.code = a.code /\ f.raw = a.raw /\ f.replies = a.replies
  BY <1>3, <1>4, FinishFields
<1>6. SameBut(f, s)
  BY <1>2, <1>5 DEF SameBut
<1>7. f.raw \notin {"open", "cut", "upgraded"} \/ (f.raw = "cut" /\ f.replies = 0)
  BY <1>2, <1>5 DEF Handler
<1>8. f.replies <= 1 /\ f.raw # "open" /\ f.raw # "upgraded"
  BY <1>2, <1>5 DEF Handler
<1>9. Handler(f)
  BY <1>2, <1>5, <1>6, <1>7, <1>8 DEF Handler, SameBut, Before
<1> QED BY <1>1, <1>2, <1>4, <1>5, <1>6, <1>9

\* The end reported by the client or by the loss of the tunnel.
LEMMA FinishWithGood ==
  ASSUME NEW s \in Srv, Handler(s), s.phase = "open",
         NEW code \in {"app", "normal", "toobig", "failed"}
  PROVE  LET f == FinishWith(s, code)
         IN /\ SameBut(f, s) /\ Handler(f) /\ f.phase = "finished"
            /\ f.ws = "none" <=> s.ws = "none"
            /\ f.code = "app" => code = "app" /\ s.ws = "open"
<1>1. PICK f : f = FinishWith(s, code)
  OBVIOUS
<1>2. s.code = "none"
  BY DEF Handler
<1>3. CASE s.ws = "none"
  <2>1. f = Finish(Answer(s))
    BY <1>1, <1>3, Zenon DEF FinishWith
  <2> QED BY <1>1, <1>2, <1>3, <2>1, AnswerFinishes
<1>4. CASE s.ws # "none"
  <2>1. PICK x : x = IF s.ws = "closed" THEN s.ws ELSE "closing"
    OBVIOUS
  <2>2. PICK y : y = IF s.ws = "open" THEN code ELSE s.code
    OBVIOUS
  <2>3. PICK b : b = [s EXCEPT !.ws = x, !.code = y]
    OBVIOUS
  <2>4. f = Finish(b)
    BY <1>1, <1>4, <2>1, <2>2, <2>3, Zenon DEF FinishWith
  <2>5. x \in {"closing", "closed"} /\ y \in {"none", "app", "normal", "toobig", "failed"}
        /\ (y = "app" => code = "app" /\ s.ws = "open")
    BY <1>2, <2>1, <2>2
  <2>6. /\ SameBut(b, s) /\ b.phase = s.phase /\ b.timer = s.timer /\ b.ws = x
        /\ b.code = y /\ b.raw = s.raw /\ b.replies = s.replies
    BY <2>3, <2>5 DEF Srv, SameBut, Sockets
  <2>7. b \in Srv
    BY <2>6 DEF SameBut
  <2>8. /\ SameBut(f, b) /\ f.phase = "finished" /\ f.timer = FALSE
        /\ f.ws = x /\ f.code = y /\ f.raw = s.raw /\ f.replies = s.replies
    BY <2>4, <2>6, <2>7, FinishFields
  <2>9. SameBut(f, s)
    BY <2>6, <2>8 DEF SameBut
  <2>10. s.raw = "upgraded"
    BY <1>4 DEF Handler
  <2>11. Handler(f)
    BY <2>5, <2>8, <2>10 DEF Handler, Before
  <2> QED BY <1>1, <1>4, <2>5, <2>8, <2>9, <2>11
<1> QED BY <1>3, <1>4

-----------------------------------------------------------------------------
\* Steps of the gateway's half.

\* It sends and receives nothing.
LEMMA SrvLocal ==
  ASSUME IInv, srv' \in Srv, Handler(srv'),
         srv'.phase \in Before <=> srv.phase \in Before,
         srv.phase = "finished" => /\ srv'.phase = "finished" /\ srv'.left = srv.left
                                   /\ srv'.sent = srv.sent,
         srv'.phase = "open" => srv.phase = "open" /\ srv'.sent = srv.sent,
         srv'.ws = "none" <=> srv.ws = "none", srv'.ws = "open" => srv.ws = "open",
         srv'.code = "app" => srv.code = "app",
         UNCHANGED <<cli, tunnel, knows, down, up, got>>
  PROVE  IInv'
<1> DEFINE k == Len(got.upstream)
           m == Len(got.browser)
<1>1. /\ Typed /\ Channel(cli) /\ Joint(srv, cli, tunnel)
      /\ Downlink(down, srv, cli, k, tunnel) /\ Uplink(up, srv, cli, m, tunnel)
      /\ InOrder(got.upstream) /\ InOrder(got.browser)
  BY DEF IInv
<1>2. /\ srv \in Srv /\ cli \in Cli /\ down \in Seq(Frames) /\ up \in Seq(Frames)
      /\ k \in Nat /\ m \in Nat
  BY <1>1, LenProperties DEF Typed
<1> HIDE DEF k, m
<1>3. Downlink(down, srv', cli, k, tunnel)
  BY <1>1, <1>2, DownStays
<1>4. Uplink(up, srv', cli, m, tunnel)
  BY <1>1, <1>2, UpStays
<1>5. Joint(srv', cli, tunnel)
  BY <1>1 DEF Joint
<1>6. Typed'
  BY <1>1 DEF Typed
<1> QED BY <1>1, <1>3, <1>4, <1>5, <1>6 DEF IInv, k, m

\* Its last frame, unless the tunnel has broken.
LEMMA SrvCloses ==
  ASSUME IInv, srv.phase = "open", srv' \in Srv, Handler(srv'), srv'.phase = "finished",
         srv'.sent = srv.sent, srv'.ws = "none" <=> srv.ws = "none", srv'.ws # "open",
         srv'.code # "app", NEW code \in PeerCodes,
         code = "app" => srv'.left = "app" /\ srv.ws # "none",
         SendDown(Close(code)), UNCHANGED <<cli, tunnel, knows, up, got>>
  PROVE  IInv'
<1> DEFINE k == Len(got.upstream)
           m == Len(got.browser)
<1>1. /\ Typed /\ Channel(cli) /\ Joint(srv, cli, tunnel)
      /\ Downlink(down, srv, cli, k, tunnel) /\ Uplink(up, srv, cli, m, tunnel)
      /\ InOrder(got.upstream) /\ InOrder(got.browser)
  BY DEF IInv
<1>2. /\ srv \in Srv /\ cli \in Cli /\ down \in Seq(Frames) /\ up \in Seq(Frames)
      /\ k \in Nat /\ m \in Nat
  BY <1>1, LenProperties DEF Typed
<1> HIDE DEF k, m
<1>3. PICK f : f = Close(code)
  OBVIOUS
<1>4. f \in Frames /\ f.type = "close" /\ f.code = code
  BY <1>3, FrameKinds
<1>5. srv'.phase \notin Before /\ srv.phase \notin Before
  BY DEF Before
<1>6. cli.code # "app" /\ (srv.ws # "none" => cli.accepted)
  BY <1>1 DEF Downlink, Joint
<1>7. down' \in Seq(Frames) /\ Downlink(down', srv', cli, k, tunnel)
  <2>1. CASE tunnel = "up"
    <3>1. down' = Append(down, f)
      BY <1>3, <2>1 DEF SendDown
    <3>2. Downlink(Append(down, f), srv', cli, k, tunnel)
      BY <1>1, <1>2, <1>4, <1>6, <2>1, DownAppend
    <3> QED BY <1>2, <1>4, <3>1, <3>2, AppendProperties
  <2>2. CASE tunnel # "up"
    <3>1. down' = down
      BY <2>2 DEF SendDown
    <3>2. Downlink(down, srv', cli, k, tunnel)
      BY <1>1, <1>2, <1>5, <2>2, DownStays
    <3> QED BY <1>2, <3>1, <3>2
  <2> QED BY <2>1, <2>2
<1>8. Uplink(up, srv', cli, m, tunnel)
  BY <1>1, <1>2, <1>5, UpStays
<1>9. Joint(srv', cli, tunnel)
  BY <1>1, <1>5 DEF Joint
<1>10. Typed'
  BY <1>1, <1>7 DEF Typed
<1> QED BY <1>1, <1>7, <1>8, <1>9, <1>10 DEF IInv, k, m

\* The channel is opened.
LEMMA OpenedKeeps ==
  ASSUME IInv, srv.phase \in Before, srv' = Opened(srv), srv.phase # "refused",
         tunnel' \in {"up", "broken"},
         down' = <<>> \/ down' = <<Plain("open")>>, UNCHANGED <<cli, knows, up, got>>
  PROVE  IInv'
<1> DEFINE k == Len(got.upstream)
           m == Len(got.browser)
<1>1. /\ Typed /\ Handler(srv) /\ Channel(cli) /\ Joint(srv, cli, tunnel)
      /\ Downlink(down, srv, cli, k, tunnel) /\ Uplink(up, srv, cli, m, tunnel)
      /\ InOrder(got.upstream) /\ InOrder(got.browser)
  BY DEF IInv
<1>2. /\ srv \in Srv /\ cli \in Cli /\ k \in Nat /\ m \in Nat
  BY <1>1, LenProperties DEF Typed
<1> HIDE DEF k, m
<1>3. srv' = [srv EXCEPT !.phase = "open", !.timer = TRUE]
  BY DEF Opened
<1>4. /\ srv' \in Srv /\ srv'.phase = "open" /\ srv'.timer = TRUE /\ srv'.ws = srv.ws
      /\ srv'.code = srv.code /\ srv'.raw = srv.raw /\ srv'.replies = srv.replies
      /\ srv'.sent = srv.sent
  BY <1>2, <1>3 DEF Srv
<1>5. /\ cli.phase = "none" /\ up = <<>> /\ k = 0 /\ srv.ws = "none" /\ srv.code = "none"
      /\ cli.code = "none" /\ cli.ups = "none" /\ ~cli.accepted /\ m = 0 /\ srv.sent = 0
  <2>1. cli.phase = "none" /\ srv.ws = "none" /\ up = <<>>
    BY <1>1 DEF Joint, Handler, Uplink
  <2>2. cli.ups = "none" /\ ~cli.accepted /\ cli.code = "none"
    BY <1>1, <2>1 DEF Channel
  <2>3. k = 0 /\ m = 0 /\ srv.sent = 0
    BY <1>1, <2>1, <2>2 DEF Downlink, Uplink, Handler
  <2>4. srv.code = "none"
    BY <1>1 DEF Handler, Before
  <2> QED BY <2>1, <2>2, <2>3, <2>4
<1>6. Handler(srv')
  BY <1>1, <1>4, <1>5 DEF Handler, Before
<1>7. down' \in Seq(Frames) /\ Downlink(down', srv', cli, k, tunnel')
  <2>1. CASE down' = <<>>
    <3>1. Downlink(<<>>, srv', cli, k, tunnel')
      BY <1>2, <1>4, <1>5, DownEmpty
    <3>2. <<>> \in Seq(Frames)
      BY EmptySeq
    <3> QED BY <2>1, <3>1, <3>2
  <2>2. CASE down' = <<Plain("open")>>
    <3>1. PICK f : f = Plain("open")
      OBVIOUS
    <3>2. f \in Frames /\ f.type = "open"
      BY <3>1, FrameKinds
    <3>3. down' \in Seq(Frames) /\ Len(down') = 1 /\ down'[1] = f
      BY <2>2, <3>1, <3>2
    <3>4. DownFrame(f, 1, 1, srv', cli, k)
      BY <1>5, <3>2 DEF DownFrame
    <3>5. \A i \in 1..Len(down') : DownFrame(down'[i], i, Len(down'), srv', cli, k)
      BY <3>3, <3>4
    <3> QED BY <1>4, <1>5, <3>3, <3>5 DEF Downlink, Before
  <2> QED BY <2>1, <2>2
<1>8. Uplink(up, srv', cli, m, tunnel')
  BY <1>2, <1>4, <1>5, UpEmpty
<1>9. Joint(srv', cli, tunnel')
  BY <1>4, <1>5 DEF Joint, Before
<1>10. Typed'
  BY <1>1, <1>4, <1>7 DEF Typed
<1> QED BY <1>1, <1>6, <1>7, <1>8, <1>9, <1>10 DEF IInv, k, m

\* Unauthorised, Arrive, GraceOver and TunnelRestored.
LEMMA ArrivalKeeps ==
  ASSUME IInv, Unauthorised \/ Arrive \/ GraceOver \/ TunnelRestored
  PROVE  IInv'
<1>1. /\ srv \in Srv /\ Handler(srv) /\ Joint(srv, cli, tunnel)
      /\ Downlink(down, srv, cli, Len(got.upstream), tunnel)
  BY DEF IInv, Typed
<1>2. ASSUME srv.phase \in {"arriving", "waiting"}, srv' = [Answer(srv) EXCEPT !.phase = "refused"],
             UNCHANGED <<cli, tunnel, knows, down, up, got>>
      PROVE  IInv'
  <2>1. PICK a : a = Answer(srv)
    OBVIOUS
  <2>2. /\ SameBut(a, srv) /\ a.timer = srv.timer /\ a.ws = srv.ws
        /\ a.code = srv.code
        /\ IF srv.raw \in {"open", "upgraded"}
           THEN a.raw = "answered" /\ a.replies = srv.replies + 1
           ELSE a.raw = srv.raw /\ a.replies = srv.replies
    BY <1>1, <2>1, AnswerFields
  <2>3. srv' = [a EXCEPT !.phase = "refused"]
    BY <1>2, <2>1
  <2>4. /\ srv' \in Srv /\ srv'.phase = "refused" /\ srv'.timer = a.timer /\ srv'.ws = a.ws
        /\ srv'.code = a.code /\ srv'.raw = a.raw /\ srv'.replies = a.replies
        /\ srv'.sent = a.sent
    BY <2>2, <2>3 DEF Srv, SameBut, Before
  <2>5. srv.ws = "none" /\ srv.raw # "upgraded" /\ ~srv.timer /\ srv.code = "none"
    BY <1>1, <1>2 DEF Handler, Before
  <2>6. srv'.sent = srv.sent
    BY <2>2, <2>4 DEF SameBut
  <2>7. srv'.raw # "open" /\ srv'.raw # "upgraded" /\ srv'.replies <= 1
        /\ (srv'.raw = "cut" => srv'.replies = 0)
    BY <1>1, <2>2, <2>4, <2>5 DEF Handler
  <2>8. Handler(srv')
    BY <1>1, <2>2, <2>4, <2>5, <2>6, <2>7 DEF Handler, Before
  <2> QED BY <1>2, <2>2, <2>4, <2>5, <2>8, SrvLocal DEF Before
<1>3. CASE Unauthorised \/ GraceOver
  BY <1>2, <1>3 DEF Unauthorised, GraceOver
<1>4. CASE Arrive
  <2>1. CASE InRegistry /\ srv' = Opened(srv) /\ SendDown(Plain("open"))
    <3>1. down = <<>>
      BY <1>1, <1>4 DEF Downlink, Arrive, Before
    <3>2. down' = <<>> \/ down' = <<Plain("open")>>
      BY <2>1, <3>1 DEF SendDown
    <3>3. tunnel' \in {"up", "broken"} /\ UNCHANGED <<cli, knows, up, got>>
      BY <1>4, <2>1 DEF Arrive, InRegistry, IInv, Typed
    <3>4. srv.phase \in Before /\ srv.phase # "refused"
      BY <1>4 DEF Arrive, Before
    <3> QED BY <2>1, <3>2, <3>3, <3>4, OpenedKeeps
  <2>2. CASE ~InRegistry /\ Grace
    <3>1. srv' = [srv EXCEPT !.phase = "waiting"] /\ UNCHANGED <<cli, tunnel, knows, down, up, got>>
          /\ srv.phase = "arriving"
      BY <1>4, <2>2 DEF Arrive
    <3>2. /\ srv' \in Srv /\ srv'.phase = "waiting" /\ srv'.timer = srv.timer /\ srv'.ws = srv.ws
          /\ srv'.code = srv.code /\ srv'.raw = srv.raw /\ srv'.replies = srv.replies
          /\ srv'.sent = srv.sent
      BY <1>1, <3>1 DEF Srv, Before
    <3>3. Handler(srv')
      BY <1>1, <3>1, <3>2 DEF Handler, Before
    <3> QED BY <3>1, <3>2, <3>3, SrvLocal DEF Before
  <2>3. CASE ~InRegistry /\ ~Grace
    BY <1>2, <1>4, <2>3 DEF Arrive
  <2> QED BY <1>4, <2>1, <2>2, <2>3 DEF Arrive
<1>5. CASE TunnelRestored
  <2>1. srv.phase \in Before /\ tunnel' = "up" /\ UNCHANGED <<cli, knows, up, got>>
        /\ tunnel = "offline"
    BY <1>1, <1>5 DEF TunnelRestored, Joint
  <2>2. CASE srv.phase = "waiting"
    BY <1>5, <2>1, <2>2, OpenedKeeps DEF TunnelRestored
  <2>3. CASE srv.phase # "waiting"
    <3> DEFINE k == Len(got.upstream)
               m == Len(got.browser)
    <3>1. UNCHANGED <<srv, down>>
      BY <1>5, <2>3 DEF TunnelRestored
    <3>2. /\ Typed /\ Channel(cli) /\ Uplink(up, srv, cli, m, tunnel)
          /\ Downlink(down, srv, cli, k, tunnel) /\ Joint(srv, cli, tunnel)
          /\ cli \in Cli /\ down \in Seq(Frames) /\ up \in Seq(Frames)
          /\ k \in Nat /\ m \in Nat
      BY LenProperties DEF IInv, Typed
    <3> HIDE DEF k, m
    <3>3. Downlink(down, srv, cli, k, tunnel')
      BY <1>1, <2>1, <3>2, DownStays DEF Before
    <3>4. Uplink(up, srv, cli, m, tunnel')
      <4>1. cli.phase = "none"
        BY <2>1, <3>2 DEF Joint
      <4> QED BY <1>1, <3>2, <4>1, UpStays
    <3>5. Joint(srv, cli, tunnel') /\ Typed'
      BY <2>1, <3>1, <3>2 DEF Joint, Typed
    <3> QED BY <2>1, <3>1, <3>3, <3>4, <3>5 DEF IInv, k, m
  <2> QED BY <2>2, <2>3
<1> QED BY <1>3, <1>4, <1>5

LEMMA BrowserCutKeeps ==
  ASSUME IInv, BrowserCut
  PROVE  IInv'
<1>1. srv \in Srv /\ Handler(srv)
  BY DEF IInv, Typed
<1>2. /\ srv' = [srv EXCEPT !.raw = "cut"] /\ srv.raw = "open" /\ srv.phase # "arriving"
      /\ UNCHANGED <<cli, tunnel, knows, down, up, got>>
  BY DEF BrowserCut
<1>3. /\ srv' \in Srv /\ srv'.phase = srv.phase /\ srv'.timer = srv.timer /\ srv'.ws = srv.ws
      /\ srv'.code = srv.code /\ srv'.raw = "cut" /\ srv'.replies = srv.replies
      /\ srv'.sent = srv.sent /\ srv'.left = srv.left
  BY <1>1, <1>2 DEF Srv
<1>4. Handler(srv')
  BY <1>1, <1>2, <1>3 DEF Handler
<1> QED BY <1>2, <1>3, <1>4, SrvLocal

LEMMA RawClosedKeeps ==
  ASSUME IInv, RawClosed
  PROVE  IInv'
<1>1. srv \in Srv /\ Handler(srv) /\ srv.raw \in {"cut", "answered"}
  BY DEF IInv, Typed, RawClosed
<1>2. PICK c : c = [srv EXCEPT !.raw = "closed"]
  OBVIOUS
<1>3. /\ SameBut(c, srv) /\ c.phase = srv.phase /\ c.timer = srv.timer /\ c.ws = srv.ws
      /\ c.code = srv.code /\ c.raw = "closed" /\ c.replies = srv.replies
  BY <1>1, <1>2 DEF Srv, SameBut
<1>4. c \in Srv
  BY <1>3 DEF SameBut
<1>5. srv.ws = "none"
  BY <1>1 DEF Handler
<1>6. UNCHANGED <<cli, tunnel, knows, up, got>>
  BY DEF RawClosed
<1>7. CASE srv.phase = "waiting"
  <2>1. srv' = [c EXCEPT !.phase = "refused"] /\ UNCHANGED down
    BY <1>2, <1>7 DEF RawClosed
  <2>2. /\ srv' \in Srv /\ srv'.phase = "refused" /\ srv'.timer = c.timer /\ srv'.ws = c.ws
        /\ srv'.code = c.code /\ srv'.raw = c.raw /\ srv'.replies = c.replies
        /\ srv'.sent = c.sent
    BY <1>4, <2>1 DEF Srv, Before
  <2>3. srv'.sent = srv.sent
    BY <1>3, <2>2 DEF SameBut
  <2>4. Handler(srv')
    BY <1>1, <1>3, <1>5, <1>7, <2>2, <2>3 DEF Handler, Before
  <2> QED BY <1>3, <1>6, <1>7, <2>1, <2>2, <2>4, SrvLocal DEF Before
<1>8. CASE srv.phase = "open"
  <2>1. srv' = Finish(c) /\ SendDown(Close("none"))
    BY <1>2, <1>5, <1>8 DEF RawClosed
  <2>2. /\ SameBut(srv', c) /\ srv'.phase = "finished" /\ srv'.timer = FALSE
        /\ srv'.ws = c.ws /\ srv'.code = c.code /\ srv'.raw = c.raw /\ srv'.replies = c.replies
    BY <1>4, <2>1, FinishFields
  <2>3. srv' \in Srv /\ srv'.sent = srv.sent
    BY <1>3, <2>2 DEF SameBut
  <2>4. srv.code = "none"
    BY <1>1, <1>8 DEF Handler
  <2>5. Handler(srv')
    BY <1>1, <1>3, <1>5, <2>2, <2>3 DEF Handler, Before
  <2>6. "none" \in PeerCodes
    BY DEF PeerCodes
  <2> QED BY <1>3, <1>5, <1>6, <1>8, <2>1, <2>2, <2>3, <2>4, <2>5, <2>6, SrvCloses
<1>9. CASE srv.phase \notin {"waiting", "open"}
  <2>1. srv' = c /\ UNCHANGED down
    BY <1>2, <1>9 DEF RawClosed
  <2>2. srv.phase # "arriving" /\ c.left = srv.left /\ c.sent = srv.sent
    BY <1>1, <1>3 DEF Handler, SameBut
  <2>3. Handler(c)
    BY <1>1, <1>3, <1>5, <2>2 DEF Handler
  <2> QED BY <1>3, <1>4, <1>6, <1>9, <2>1, <2>2, <2>3, SrvLocal
<1> QED BY <1>7, <1>8, <1>9

LEMMA AcceptTimeoutKeeps ==
  ASSUME IInv, AcceptTimeout
  PROVE  IInv'
<1>1. /\ srv \in Srv /\ Handler(srv) /\ srv.timer /\ srv' = Finish(Answer(srv))
      /\ SendDown(Close("none")) /\ UNCHANGED <<cli, tunnel, knows, up, got>>
  BY DEF IInv, Typed, AcceptTimeout
<1>2. srv.phase = "open" /\ srv.ws = "none" /\ srv.code = "none"
  BY <1>1 DEF Handler
<1>3. /\ SameBut(srv', srv) /\ Handler(srv') /\ srv'.phase = "finished" /\ srv'.ws = "none"
      /\ srv'.code = srv.code
  BY <1>1, <1>2, AnswerFinishes
<1>4. srv' \in Srv /\ srv'.sent = srv.sent
  BY <1>3 DEF SameBut
<1>5. "none" \in PeerCodes
  BY DEF PeerCodes
<1> QED BY <1>1, <1>2, <1>3, <1>4, <1>5, SrvCloses

\* browserWs: it pauses, is resumed, begins to leave.
LEMMA BrowserEventKeeps ==
  ASSUME IInv, BrowserLeaves \/ BrowserResumes
  PROVE  IInv'
<1>1. srv \in Srv /\ Handler(srv) /\ UNCHANGED <<cli, tunnel, knows, down, up, got>>
  BY DEF IInv, Typed, BrowserLeaves, BrowserResumes
<1>2. CASE BrowserLeaves
  <2>1. srv' = [srv EXCEPT !.ws = "leaving"] /\ srv.ws = "open"
    BY <1>2 DEF BrowserLeaves
  <2>2. /\ srv' \in Srv /\ srv'.phase = srv.phase /\ srv'.timer = srv.timer
        /\ srv'.ws = "leaving" /\ srv'.code = srv.code /\ srv'.raw = srv.raw
        /\ srv'.replies = srv.replies /\ srv'.sent = srv.sent /\ srv'.left = srv.left
    BY <1>1, <2>1 DEF Srv, Sockets
  <2>3. Handler(srv')
    BY <1>1, <2>1, <2>2 DEF Handler
  <2> QED BY <1>1, <2>1, <2>2, <2>3, SrvLocal
<1>3. CASE BrowserResumes
  <2>1. srv' = [srv EXCEPT !.paused = FALSE]
    BY <1>3 DEF BrowserResumes
  <2>2. /\ srv' \in Srv /\ srv'.phase = srv.phase /\ srv'.timer = srv.timer
        /\ srv'.ws = srv.ws /\ srv'.code = srv.code /\ srv'.raw = srv.raw
        /\ srv'.replies = srv.replies /\ srv'.sent = srv.sent /\ srv'.left = srv.left
    BY <1>1, <2>1 DEF Srv
  <2>3. Handler(srv')
    BY <1>1, <2>2 DEF Handler
  <2> QED BY <1>1, <2>2, <2>3, SrvLocal
<1> QED BY <1>2, <1>3

LEMMA BrowserClosedKeeps ==
  ASSUME IInv, BrowserClosed
  PROVE  IInv'
<1>1. /\ srv \in Srv /\ Handler(srv) /\ srv.ws \in {"leaving", "closing"}
      /\ UNCHANGED <<cli, tunnel, knows, up, got>>
  BY DEF IInv, Typed, BrowserClosed
<1>2. CASE srv.phase = "open"
  <2>1. PICK code \in PeerCodes : /\ srv' = Finish([srv EXCEPT !.ws = "closed", !.left = code])
                                  /\ SendDown(Close(code))
    BY <1>2 DEF BrowserClosed
  <2>2. PICK c : c = [srv EXCEPT !.ws = "closed", !.left = code]
    OBVIOUS
  <2>3. /\ c \in Srv /\ c.phase = srv.phase /\ c.timer = srv.timer /\ c.ws = "closed"
        /\ c.code = srv.code /\ c.raw = srv.raw /\ c.replies = srv.replies
        /\ c.sent = srv.sent /\ c.left = code
    BY <1>1, <2>2 DEF Srv, Sockets
  <2>4. /\ SameBut(srv', c) /\ srv'.phase = "finished" /\ srv'.timer = FALSE
        /\ srv'.ws = c.ws /\ srv'.code = c.code /\ srv'.raw = c.raw /\ srv'.replies = c.replies
    BY <2>1, <2>2, <2>3, FinishFields
  <2>5. srv' \in Srv /\ srv'.sent = srv.sent /\ srv'.left = code
    BY <2>3, <2>4 DEF SameBut
  <2>6. srv.code = "none" /\ srv.raw = "upgraded"
    BY <1>1, <1>2 DEF Handler
  <2>7. Handler(srv')
    BY <1>1, <2>3, <2>4, <2>6 DEF Handler, Before
  <2> QED BY <1>1, <1>2, <2>1, <2>3, <2>4, <2>5, <2>6, <2>7, SrvCloses
<1>3. CASE srv.phase # "open"
  <2>1. srv' = [srv EXCEPT !.ws = "closed"] /\ UNCHANGED down
    BY <1>3 DEF BrowserClosed, PeerCodes
  <2>2. /\ srv' \in Srv /\ srv'.phase = srv.phase /\ srv'.timer = srv.timer
        /\ srv'.ws = "closed" /\ srv'.code = srv.code /\ srv'.raw = srv.raw
        /\ srv'.replies = srv.replies /\ srv'.sent = srv.sent /\ srv'.left = srv.left
    BY <1>1, <2>1 DEF Srv, Sockets
  <2>3. Handler(srv')
    BY <1>1, <1>3, <2>2 DEF Handler
  <2> QED BY <1>1, <1>3, <2>1, <2>2, <2>3, SrvLocal
<1> QED BY <1>2, <1>3

LEMMA BrowserMessageKeeps ==
  ASSUME IInv, BrowserMessage
  PROVE  IInv'
<1> DEFINE k == Len(got.upstream)
           m == Len(got.browser)
<1>1. /\ Typed /\ Handler(srv) /\ Channel(cli) /\ Joint(srv, cli, tunnel)
      /\ Downlink(down, srv, cli, k, tunnel) /\ Uplink(up, srv, cli, m, tunnel)
      /\ InOrder(got.upstream) /\ InOrder(got.browser)
  BY DEF IInv
<1>2. /\ srv \in Srv /\ cli \in Cli /\ down \in Seq(Frames) /\ up \in Seq(Frames)
      /\ k \in Nat /\ m \in Nat
  BY <1>1, LenProperties DEF Typed
<1> HIDE DEF k, m
<1>3. /\ srv.phase = "open" /\ srv.ws \in {"open", "leaving"} /\ srv.sent < MaxMsgs
      /\ SendDown(Message(srv.sent + 1)) /\ UNCHANGED <<cli, tunnel, knows, up, got>>
  BY DEF BrowserMessage
<1>4. PICK n : n = srv.sent + 1
  OBVIOUS
<1>5. n \in Nat /\ n \in 0..MaxMsgs
  BY <1>2, <1>3, <1>4 DEF Srv
<1>6. PICK pause \in BOOLEAN : srv' = [srv EXCEPT !.sent = n, !.paused = pause]
  BY <1>4 DEF BrowserMessage, Passed
<1>7. /\ srv' \in Srv /\ srv'.phase = srv.phase /\ srv'.timer = srv.timer
      /\ srv'.ws = srv.ws /\ srv'.code = srv.code /\ srv'.raw = srv.raw
      /\ srv'.replies = srv.replies /\ srv'.sent = n /\ srv'.left = srv.left
  BY <1>2, <1>5, <1>6 DEF Srv
<1>8. Handler(srv')
  BY <1>1, <1>3, <1>7 DEF Handler
<1>9. PICK f : f = Message(n)
  OBVIOUS
<1>10. f \in Frames /\ f.type = "message" /\ f.n = n
  BY <1>5, <1>9, FrameKinds
<1>11. cli.code # "app" /\ cli.accepted
  BY <1>1, <1>3 DEF Downlink, Joint
<1>12. down' \in Seq(Frames) /\ Downlink(down', srv', cli, k, tunnel)
  <2>1. CASE tunnel = "up"
    <3>1. down' = Append(down, f)
      BY <1>3, <1>4, <1>9, <2>1 DEF SendDown
    <3>2. Downlink(Append(down, f), srv', cli, k, tunnel)
      BY <1>1, <1>2, <1>3, <1>4, <1>7, <1>10, <1>11, <2>1, DownAppend
    <3> QED BY <1>2, <1>10, <3>1, <3>2, AppendProperties
  <2>2. CASE tunnel # "up"
    <3>1. down' = down
      BY <1>3, <2>2 DEF SendDown
    <3>2. Downlink(down, srv', cli, k, tunnel)
      BY <1>1, <1>2, <1>3, <1>7, <2>2, DownStays
    <3> QED BY <1>2, <3>1, <3>2
  <2> QED BY <2>1, <2>2
<1>13. Uplink(up, srv', cli, m, tunnel)
  BY <1>1, <1>2, <1>7, UpStays
<1>14. Joint(srv', cli, tunnel)
  BY <1>1, <1>7 DEF Joint
<1>15. Typed'
  BY <1>1, <1>3, <1>7, <1>12 DEF Typed
<1> QED BY <1>1, <1>3, <1>8, <1>12, <1>13, <1>14, <1>15 DEF IInv, k, m

LEMMA BrowserMessageTooBigKeeps ==
  ASSUME IInv, BrowserMessageTooBig
  PROVE  IInv'
<1>1. /\ srv \in Srv /\ Handler(srv) /\ srv.phase = "open" /\ srv' = FinishWith(srv, "toobig")
      /\ SendDown(Close("none")) /\ UNCHANGED <<cli, tunnel, knows, up, got>>
  BY DEF IInv, Typed, BrowserMessageTooBig
<1>2. /\ SameBut(srv', srv) /\ Handler(srv') /\ srv'.phase = "finished"
      /\ srv'.ws = "none" <=> srv.ws = "none"
      /\ srv'.code # "app"
  BY <1>1, FinishWithGood
<1>3. srv' \in Srv /\ srv'.sent = srv.sent /\ srv'.ws # "open"
  BY <1>2 DEF SameBut, Handler
<1>4. "none" \in PeerCodes
  BY DEF PeerCodes
<1> QED BY <1>1, <1>2, <1>3, <1>4, SrvCloses

-----------------------------------------------------------------------------
\* The gateway reads the uplink.

\* What a step that reads the uplink and sends nothing has to show.
LEMMA ReadUp ==
  ASSUME IInv, srv' \in Srv, Handler(srv'), up' \in Seq(Frames),
         srv'.phase \in Before <=> srv.phase \in Before,
         srv.phase = "finished" => /\ srv'.phase = "finished" /\ srv'.left = srv.left
                                   /\ srv'.sent = srv.sent,
         srv'.phase = "open" => srv.phase = "open" /\ srv'.sent = srv.sent,
         srv'.ws # "none" => cli.accepted,
         got'.browser \in Seq(Nat), InOrder(got'.browser), got' = [got EXCEPT !.browser = got'.browser],
         Uplink(up', srv', cli, Len(got'.browser), tunnel),
         UNCHANGED <<cli, tunnel, knows, down>>
  PROVE  IInv'
<1> DEFINE k == Len(got.upstream)
<1>1. /\ Typed /\ Channel(cli) /\ Joint(srv, cli, tunnel)
      /\ Downlink(down, srv, cli, k, tunnel) /\ InOrder(got.upstream)
  BY DEF IInv
<1>2. srv \in Srv /\ cli \in Cli /\ down \in Seq(Frames) /\ k \in Nat
  BY <1>1, LenProperties DEF Typed
<1>3. got'.upstream = got.upstream /\ got' \in [browser : Seq(Nat), upstream : Seq(Nat)]
  <2>1. PICK b : b = got'.browser
    OBVIOUS
  <2>2. got' = [got EXCEPT !.browser = b] /\ b \in Seq(Nat)
    BY <2>1
  <2> QED BY <1>1, <2>2 DEF Typed
<1> HIDE DEF k
<1>4. Downlink(down, srv', cli, k, tunnel)
  BY <1>1, <1>2, DownStays
<1>5. Joint(srv', cli, tunnel)
  BY <1>1 DEF Joint
<1>6. Typed'
  BY <1>1, <1>3 DEF Typed
<1> QED BY <1>1, <1>3, <1>4, <1>5, <1>6 DEF IInv, k

\* The head of the uplink.
LEMMA HeadUp ==
  ASSUME IInv, up # <<>>
  PROVE  /\ Head(up) = up[1] /\ up[1] \in Frames /\ Tail(up) \in Seq(Frames)
         /\ UpFrame(up[1], 1, up, srv, cli, Len(got.browser))
         /\ Len(got.browser) \in Nat /\ got.browser \in Seq(Nat)
         /\ got = [got EXCEPT !.browser = got.browser]
         /\ srv.ws # "none" => cli.accepted
<1>1. /\ up \in Seq(Frames) /\ got \in [browser : Seq(Nat), upstream : Seq(Nat)]
      /\ Uplink(up, srv, cli, Len(got.browser), tunnel) /\ Joint(srv, cli, tunnel)
  BY DEF IInv, Typed
<1>2. /\ 1 \in 1..Len(up) /\ Head(up) = up[1] /\ up[1] \in Frames /\ Tail(up) \in Seq(Frames)
  BY <1>1, HeadTail
<1>3. UpFrame(up[1], 1, up, srv, cli, Len(got.browser))
  BY <1>1, <1>2 DEF Uplink
<1>4. got.browser \in Seq(Nat) /\ Len(got.browser) \in Nat
  BY <1>1, LenProperties
<1>5. got = [got EXCEPT !.browser = got.browser]
  BY <1>1
<1>6. srv.ws # "none" => cli.accepted
  BY <1>1 DEF Joint
<1> QED BY <1>2, <1>3, <1>4, <1>5, <1>6

LEMMA DropUpKeeps ==
  ASSUME IInv, DropUp
  PROVE  IInv'
<1>1. /\ up # <<>> /\ srv.phase # "open" /\ up' = Tail(up)
      /\ UNCHANGED <<srv, cli, tunnel, knows, down, got>>
  BY DEF DropUp
<1>2. /\ srv \in Srv /\ cli \in Cli /\ up \in Seq(Frames) /\ Handler(srv)
      /\ Uplink(up, srv, cli, Len(got.browser), tunnel) /\ InOrder(got.browser)
  BY DEF IInv, Typed
<1>3. srv.ws # "open"
  BY <1>1, <1>2 DEF Handler, Srv, Before
<1>4. Uplink(Tail(up), srv, cli, Len(got.browser), tunnel)
  BY <1>1, <1>2, <1>3, HeadUp, UpTail
<1> QED BY <1>1, <1>2, <1>4, HeadUp, ReadUp

LEMMA MessageUpKeeps ==
  ASSUME IInv, MessageUp
  PROVE  IInv'
<1>1. /\ up # <<>> /\ Head(up).type = "message" /\ up' = Tail(up) /\ srv.phase = "open"
      /\ UNCHANGED <<srv, cli, tunnel, knows, down>>
  BY DEF MessageUp, FromClient
<1>2. /\ srv \in Srv /\ cli \in Cli /\ up \in Seq(Frames) /\ Handler(srv)
      /\ Uplink(up, srv, cli, Len(got.browser), tunnel) /\ InOrder(got.browser)
      /\ got \in [browser : Seq(Nat), upstream : Seq(Nat)]
  BY DEF IInv, Typed
<1>3. PICK m : m = Len(got.browser)
  OBVIOUS
<1>4. /\ Head(up) = up[1] /\ up[1] \in Frames /\ Tail(up) \in Seq(Frames)
      /\ UpFrame(up[1], 1, up, srv, cli, m) /\ m \in Nat /\ got.browser \in Seq(Nat)
      /\ (srv.ws # "none" => cli.accepted)
  BY <1>1, <1>3, HeadUp
<1>5. CASE srv.ws # "open"
  <2>1. got' = got
    BY <1>5 DEF MessageUp
  <2>2. Uplink(Tail(up), srv, cli, m, tunnel)
    BY <1>1, <1>2, <1>3, <1>4, <1>5, UpTail
  <2> QED BY <1>1, <1>2, <1>3, <1>4, <2>1, <2>2, HeadUp, ReadUp
<1>6. CASE srv.ws = "open"
  <2>1. PICK n : n = up[1].n
    OBVIOUS
  <2>2. n \in Nat
    BY <1>1, <1>4, <2>1, FrameFields
  <2>3. n + 1 = (m + 1) + 1
    BY <1>1, <1>4, <1>6, <2>1 DEF UpFrame, Counts, Arrived
  <2>4. n = m + 1
    BY <1>4, <2>2, <2>3
  <2>5. PICK q : q = Append(got.browser, n)
    OBVIOUS
  <2>6. InOrder(q) /\ q \in Seq(Nat) /\ Len(q) = m + 1
    BY <1>2, <1>3, <1>4, <2>2, <2>4, <2>5, InOrderAppend
  <2>7. got' = [got EXCEPT !.browser = q]
    BY <1>4, <1>6, <2>1, <2>5 DEF MessageUp
  <2>8. got'.browser = q
    BY <1>2, <2>7
  <2>9. srv.code # "app"
    BY <1>1, <1>2 DEF Handler
  <2>10. Uplink(Tail(up), srv, cli, m + 1, tunnel)
    <3>1. m + 1 \in Nat
      BY <1>4
    <3> QED BY <1>1, <1>2, <1>3, <1>4, <1>6, <2>9, <3>1, UpTail
  <2> QED BY <1>1, <1>2, <1>4, <2>6, <2>7, <2>8, <2>10, ReadUp
<1> QED BY <1>5, <1>6

LEMMA EndsKeeps ==
  ASSUME IInv, Reject \/ EndedByClient
  PROVE  IInv'
<1>1. /\ up # <<>> /\ Head(up).type \in {"reject", "error", "close"} /\ up' = Tail(up)
      /\ srv.phase = "open" /\ UNCHANGED <<cli, tunnel, knows, down, got>>
  BY DEF Reject, EndedByClient, FromClient
<1>2. /\ srv \in Srv /\ cli \in Cli /\ up \in Seq(Frames) /\ Handler(srv)
      /\ Uplink(up, srv, cli, Len(got.browser), tunnel) /\ InOrder(got.browser)
  BY DEF IInv, Typed
<1>3. PICK m : m = Len(got.browser)
  OBVIOUS
<1>4. /\ Head(up) = up[1] /\ up[1] \in Frames /\ m \in Nat
      /\ (srv.ws # "none" => cli.accepted)
  BY <1>1, <1>3, HeadUp
<1>5. /\ Tail(up) = <<>> /\ cli.phase = "finished"
      /\ up[1].type = "reject" => ~cli.accepted
      /\ up[1].type = "close" /\ up[1].code = "app" /\ srv.ws = "open" =>
           cli.left = "app" /\ cli.sent = m
  BY <1>1, <1>2, <1>3, <1>4, UpLast
<1>6. /\ SameBut(srv', srv) /\ Handler(srv') /\ srv'.phase = "finished"
      /\ srv'.ws = "none" <=> srv.ws = "none"
      /\ srv'.code = "app" => cli.left = "app" /\ cli.sent = m
  <2>1. CASE Reject
    <3>1. srv.ws = "none" /\ srv.code = "none"
      BY <1>1, <1>2, <1>4, <1>5, <2>1 DEF Reject, FromClient, Handler
    <3> QED BY <1>2, <2>1, <3>1, AnswerFinishes DEF Reject
  <2>2. CASE EndedByClient
    <3>1. CASE up[1].type = "error" /\ srv' = FinishWith(srv, "failed")
      BY <1>1, <1>2, <3>1, FinishWithGood
    <3>2. CASE up[1].type = "close" /\ srv' = FinishWith(srv, Sanitize(up[1].code))
      <4>1. PICK code : code = Sanitize(up[1].code)
        OBVIOUS
      <4>2. code \in {"app", "normal"} /\ (code = "app" => up[1].code = "app")
        BY <4>1 DEF Sanitize
      <4>3. srv' = FinishWith(srv, code)
        BY <3>2, <4>1
      <4> QED BY <1>1, <1>2, <1>5, <3>2, <4>2, <4>3, FinishWithGood
    <3> QED BY <1>4, <2>2, <3>1, <3>2 DEF EndedByClient, FromClient
  <2> QED BY <2>1, <2>2
<1>7. srv' \in Srv /\ srv'.ws # "open"
  BY <1>6 DEF SameBut, Handler
<1>8. srv'.ws = "none" => m = 0
  BY <1>2, <1>3, <1>6 DEF Uplink
<1>9. Uplink(<<>>, srv', cli, m, tunnel)
  BY <1>2, <1>4, <1>5, <1>6, <1>7, <1>8, UpEmpty
<1>10. <<>> \in Seq(Frames)
  BY EmptySeq
<1>11. got.browser \in Seq(Nat) /\ got = [got EXCEPT !.browser = got.browser]
  BY <1>1, HeadUp
<1>12. srv'.phase \in Before <=> srv.phase \in Before
  BY <1>1, <1>6 DEF Before
<1> QED BY <1>1, <1>2, <1>3, <1>4, <1>5, <1>6, <1>7, <1>9, <1>10, <1>11, <1>12, ReadUp

LEMMA AcceptKeeps ==
  ASSUME IInv, Accept
  PROVE  IInv'
<1>1. /\ up # <<>> /\ Head(up).type = "accept" /\ up' = Tail(up)
      /\ srv.phase = "open" /\ UNCHANGED <<cli, tunnel, knows, got>>
  BY DEF Accept, FromClient
<1>2. /\ srv \in Srv /\ cli \in Cli /\ up \in Seq(Frames) /\ Handler(srv)
      /\ Uplink(up, srv, cli, Len(got.browser), tunnel) /\ InOrder(got.browser)
  BY DEF IInv, Typed
<1>3. PICK m : m = Len(got.browser)
  OBVIOUS
<1>4. /\ Head(up) = up[1] /\ up[1] \in Frames /\ Tail(up) \in Seq(Frames)
      /\ UpFrame(up[1], 1, up, srv, cli, m) /\ m \in Nat /\ got.browser \in Seq(Nat)
      /\ got = [got EXCEPT !.browser = got.browser]
  BY <1>1, <1>3, HeadUp
<1>5. srv.ws = "none" /\ cli.accepted /\ srv.raw # "upgraded" /\ srv.code = "none"
  BY <1>1, <1>2, <1>4 DEF UpFrame, Handler
<1>6. Uplink(Tail(up), srv, cli, m, tunnel)
  BY <1>1, <1>2, <1>3, <1>4, <1>5, UpTail
<1>7. ASSUME srv' \in Srv, srv'.phase = "open", srv'.ws = "none", srv'.timer = FALSE,
             srv'.code = srv.code, srv'.sent = srv.sent, srv'.replies <= 1,
             srv'.raw \in {"open", "cut"} => srv'.replies = 0, srv'.raw # "upgraded",
             UNCHANGED down
      PROVE  IInv'
  <2>1. Handler(srv')
    BY <1>2, <1>5, <1>7 DEF Handler, Before
  <2>2. Uplink(Tail(up), srv', cli, m, tunnel)
    BY <1>1, <1>2, <1>4, <1>5, <1>6, <1>7, UpStays DEF Before
  <2> QED BY <1>1, <1>2, <1>3, <1>4, <1>7, <2>1, <2>2, ReadUp DEF Before
<1>8. CASE srv' = Finish([srv EXCEPT !.raw = "closed"]) /\ SendDown(Close("none"))
  <2>1. PICK c : c = [srv EXCEPT !.raw = "closed"]
    OBVIOUS
  <2>2. /\ SameBut(c, srv) /\ c.phase = srv.phase /\ c.timer = srv.timer /\ c.ws = srv.ws
        /\ c.code = srv.code /\ c.raw = "closed" /\ c.replies = srv.replies
    BY <1>2, <2>1 DEF Srv, SameBut
  <2>3. c \in Srv
    BY <2>2 DEF SameBut
  <2>4. /\ SameBut(srv', c) /\ srv'.phase = "finished" /\ srv'.timer = FALSE
        /\ srv'.ws = c.ws /\ srv'.code = c.code /\ srv'.raw = c.raw /\ srv'.replies = c.replies
    BY <1>8, <2>1, <2>3, FinishFields
  <2>5. srv' \in Srv /\ srv'.sent = srv.sent
    BY <2>2, <2>4 DEF SameBut
  <2>6. Handler(srv')
    BY <1>2, <1>5, <2>2, <2>4, <2>5 DEF Handler, Before
  <2>7. PICK f : f = Close("none")
    OBVIOUS
  <2>8. f \in Frames /\ f.type = "close" /\ f.code = "none"
    BY <2>7, FrameKinds DEF PeerCodes
  <2>9. /\ down \in Seq(Frames) /\ Downlink(down, srv, cli, Len(got.upstream), tunnel)
        /\ Len(got.upstream) \in Nat /\ Joint(srv, cli, tunnel) /\ Typed /\ Channel(cli)
        /\ InOrder(got.upstream)
    BY LenProperties DEF IInv, Typed
  <2>10. cli.code # "app"
    BY <1>1, <2>9 DEF Downlink
  <2>11. down' \in Seq(Frames) /\ Downlink(down', srv', cli, Len(got.upstream), tunnel)
    <3>1. CASE tunnel = "up"
      <4>1. down' = Append(down, f)
        BY <1>8, <2>7, <3>1 DEF SendDown
      <4>2. Downlink(Append(down, f), srv', cli, Len(got.upstream), tunnel)
        BY <1>1, <1>2, <2>4, <2>5, <2>8, <2>9, <2>10, <3>1, DownAppend
      <4> QED BY <2>8, <2>9, <4>1, <4>2, AppendProperties
    <3>2. CASE tunnel # "up"
      <4>1. down' = down
        BY <1>8, <3>2 DEF SendDown
      <4>2. Downlink(down, srv', cli, Len(got.upstream), tunnel)
        BY <1>1, <1>2, <2>4, <2>5, <2>9, <3>2, DownStays DEF Before
      <4> QED BY <2>9, <4>1, <4>2
    <3> QED BY <3>1, <3>2
  <2>12. Uplink(Tail(up), srv', cli, m, tunnel)
    BY <1>1, <1>2, <1>4, <1>5, <1>6, <2>2, <2>4, <2>5, UpStays, ZenonT(60) DEF Before
  <2>13. Joint(srv', cli, tunnel)
    BY <1>1, <2>4, <2>9, <1>5 DEF Joint, Before
  <2>14. Typed'
    BY <1>1, <1>4, <2>5, <2>9, <2>11 DEF Typed
  <2> QED BY <1>1, <1>2, <1>3, <2>6, <2>9, <2>11, <2>12, <2>13, <2>14 DEF IInv
<1>9. CASE srv.raw = "open" /\ srv' = Upgraded(srv) /\ UNCHANGED down
  <2>1. PICK r : r = srv.replies + 1
    OBVIOUS
  <2>2. r = 1
    BY <1>2, <1>9, <2>1 DEF Handler
  <2>3. PICK b : b = [srv EXCEPT !.timer = FALSE, !.raw = "upgraded"]
    OBVIOUS
  <2>4. /\ SameBut(b, srv) /\ b.phase = srv.phase /\ b.timer = FALSE /\ b.ws = srv.ws
        /\ b.code = srv.code /\ b.raw = "upgraded" /\ b.replies = srv.replies
    BY <1>2, <2>3 DEF Srv, SameBut
  <2>5. srv' = [b EXCEPT !.ws = "open", !.replies = r]
    <3>1. srv' = [srv EXCEPT !.timer = FALSE, !.raw = "upgraded", !.ws = "open",
                             !.replies = srv.replies + 1]
      BY <1>9 DEF Upgraded
    <3> QED BY <2>1, <2>3, <3>1, Zenon
  <2>6. b \in Srv
    BY <2>4 DEF SameBut
  <2>7. /\ srv' \in Srv /\ srv'.phase = b.phase /\ srv'.timer = b.timer /\ srv'.ws = "open"
        /\ srv'.code = b.code /\ srv'.raw = b.raw /\ srv'.replies = 1 /\ srv'.sent = b.sent
        /\ srv'.left = b.left
    BY <2>2, <2>5, <2>6 DEF Srv, Sockets
  <2>8. srv'.sent = srv.sent
    BY <2>4, <2>7 DEF SameBut
  <2>9. Handler(srv')
    BY <1>1, <1>2, <1>5, <2>4, <2>7 DEF Handler, Before
  <2>10. Uplink(Tail(up), srv', cli, m, tunnel)
    BY <1>1, <1>2, <1>3, <1>4, <1>5, <2>4, <2>7, UpUpgrade
  <2>11. srv'.phase \in Before <=> srv.phase \in Before
    BY <2>4, <2>7
  <2> QED BY <1>1, <1>2, <1>3, <1>4, <1>5, <1>9, <2>4, <2>7, <2>8, <2>9, <2>10, <2>11, ReadUp
<1>10. CASE srv.raw = "open" /\ srv' = [Answer(srv) EXCEPT !.timer = FALSE] /\ UNCHANGED down
  <2>1. PICK a : a = Answer(srv)
    OBVIOUS
  <2>2. /\ SameBut(a, srv) /\ a.phase = srv.phase /\ a.ws = srv.ws /\ a.code = srv.code
        /\ a.raw = "answered" /\ a.replies = srv.replies + 1
    BY <1>2, <1>10, <2>1, AnswerFields
  <2>3. a \in Srv /\ srv' = [a EXCEPT !.timer = FALSE]
    BY <1>10, <2>1, <2>2 DEF SameBut
  <2>4. /\ srv' \in Srv /\ srv'.phase = a.phase /\ srv'.timer = FALSE /\ srv'.ws = a.ws
        /\ srv'.code = a.code /\ srv'.raw = a.raw /\ srv'.replies = a.replies /\ srv'.sent = a.sent
    BY <2>3 DEF Srv
  <2>5. srv.replies = 0 /\ a.sent = srv.sent
    BY <1>2, <1>10, <2>2 DEF Handler, SameBut
  <2> QED BY <1>1, <1>5, <1>7, <1>10, <2>2, <2>4, <2>5
<1>11. CASE srv' = [srv EXCEPT !.timer = FALSE] /\ UNCHANGED down
  <2>1. /\ srv' \in Srv /\ srv'.phase = srv.phase /\ srv'.timer = FALSE /\ srv'.ws = srv.ws
        /\ srv'.code = srv.code /\ srv'.raw = srv.raw /\ srv'.replies = srv.replies
        /\ srv'.sent = srv.sent
    BY <1>2, <1>11 DEF Srv
  <2>2. srv.replies <= 1 /\ (srv.raw \in {"open", "cut"} => srv.replies = 0)
    BY <1>2 DEF Handler
  <2> QED BY <1>1, <1>5, <1>7, <1>11, <2>1, <2>2
<1> QED BY <1>8, <1>9, <1>10, <1>11 DEF Accept

-----------------------------------------------------------------------------
\* Steps of the client's half.

\* Done and abort.
LEMMA AbortedFields ==
  ASSUME NEW c \in Cli, ~c.accepted => c.sent = 0
  PROVE  LET a == Aborted(c)
         IN /\ a \in Cli /\ a.phase = "finished" /\ a.ups \in {"none", "closed"}
            /\ a.accepted = c.accepted /\ a.closing = c.closing /\ a.code = c.code
            /\ a.left = c.left /\ a.sent = c.sent /\ Channel(a)
<1>1. PICK x : x = IF c.ups = "none" THEN "none" ELSE "closed"
  OBVIOUS
<1>2. x \in {"none", "closed"}
  BY <1>1
<1>3. PICK b : b = [c EXCEPT !.ups = x]
  OBVIOUS
<1>4. /\ b \in Cli /\ b.ups = x /\ b.accepted = c.accepted /\ b.closing = c.closing
      /\ b.code = c.code /\ b.left = c.left /\ b.sent = c.sent
  BY <1>2, <1>3 DEF Cli, Sockets
<1>5. PICK a : a = [b EXCEPT !.phase = "finished"]
  OBVIOUS
<1>6. /\ a \in Cli /\ a.phase = "finished" /\ a.ups = b.ups /\ a.accepted = b.accepted
      /\ a.closing = b.closing /\ a.code = b.code /\ a.left = b.left /\ a.sent = b.sent
  BY <1>4, <1>5 DEF Cli
<1>7. Channel(a)
  BY <1>2, <1>4, <1>6 DEF Channel
<1>8. a = Aborted(c)
  BY <1>1, <1>3, <1>5, Zenon DEF Aborted, Done
<1> QED BY <1>2, <1>4, <1>6, <1>7, <1>8

LEMMA DoneFields ==
  ASSUME NEW c \in Cli
  PROVE  LET d == Done(c)
         IN /\ d \in Cli /\ d.phase = "finished" /\ d.ups = c.ups
            /\ d.accepted = c.accepted /\ d.closing = c.closing /\ d.code = c.code
            /\ d.left = c.left /\ d.sent = c.sent
<1>1. PICK d : d = [c EXCEPT !.phase = "finished"]
  OBVIOUS
<1>2. /\ d \in Cli /\ d.phase = "finished" /\ d.ups = c.ups
      /\ d.accepted = c.accepted /\ d.closing = c.closing /\ d.code = c.code
      /\ d.left = c.left /\ d.sent = c.sent
  BY <1>1 DEF Cli
<1>3. d = Done(c)
  BY <1>1, Zenon DEF Done
<1> QED BY <1>2, <1>3

\* It sends and receives nothing, or into a tunnel that is gone.
LEMMA CliLocal ==
  ASSUME IInv, cli' \in Cli, Channel(cli'),
         cli.phase = "none" <=> cli'.phase = "none",
         cli'.accepted = cli.accepted, cli'.ups = "open" => cli.ups = "open",
         cli'.code = "app" => cli.code = "app",
         cli.phase = "finished" => /\ cli'.phase = "finished" /\ cli'.left = cli.left
                                   /\ cli'.sent = cli.sent,
         tunnel = "up" /\ cli'.phase = "dialled" /\ cli'.accepted =>
           cli.phase = "dialled" /\ cli'.sent = cli.sent,
         UNCHANGED <<srv, tunnel, knows, down, up, got>>
  PROVE  IInv'
<1> DEFINE k == Len(got.upstream)
           m == Len(got.browser)
<1>1. /\ Typed /\ Handler(srv) /\ Joint(srv, cli, tunnel)
      /\ Downlink(down, srv, cli, k, tunnel) /\ Uplink(up, srv, cli, m, tunnel)
      /\ InOrder(got.upstream) /\ InOrder(got.browser)
  BY DEF IInv
<1>2. /\ srv \in Srv /\ cli \in Cli /\ down \in Seq(Frames) /\ up \in Seq(Frames)
      /\ k \in Nat /\ m \in Nat
  BY <1>1, LenProperties DEF Typed
<1> HIDE DEF k, m
<1>3. Downlink(down, srv, cli', k, tunnel)
  BY <1>1, <1>2, DownStays
<1>4. Uplink(up, srv, cli', m, tunnel)
  BY <1>1, <1>2, UpStays
<1>5. Joint(srv, cli', tunnel)
  BY <1>1 DEF Joint
<1>6. Typed'
  BY <1>1 DEF Typed
<1> QED BY <1>1, <1>3, <1>4, <1>5, <1>6 DEF IInv, k, m

LEMMA CliAborts ==
  ASSUME IInv, cli.phase # "none", cli' = Aborted(cli),
         UNCHANGED <<srv, tunnel, knows, down, up, got>>
  PROVE  IInv'
<1>1. cli \in Cli /\ (~cli.accepted => cli.sent = 0)
  BY DEF IInv, Typed, Channel
<1>2. /\ cli' \in Cli /\ cli'.phase = "finished" /\ cli'.ups \in {"none", "closed"}
      /\ cli'.accepted = cli.accepted /\ cli'.code = cli.code
      /\ cli'.left = cli.left /\ cli'.sent = cli.sent /\ Channel(cli')
  BY <1>1, AbortedFields
<1> QED BY <1>2, CliLocal

\* trySend: the frame goes out, or into a tunnel that is gone, or aborts.
LEMMA TrySendCases ==
  ASSUME NEW f, NEW next, TrySend(f, next)
  PROVE  \/ tunnel = "up" /\ up' = Append(up, f) /\ cli' = next
         \/ tunnel # "up" /\ up' = up /\ cli' = next
         \/ up' = up /\ cli' = Aborted(cli)
BY DEF TrySend, SendUp

\* The client's last frame.
LEMMA CliEnds ==
  ASSUME IInv, cli.phase \in {"auth", "dialled"}, NEW next \in Cli, Channel(next),
         next.phase = "finished", next.accepted = cli.accepted, next.sent = cli.sent,
         next.code # "app", NEW f \in Frames, f.type \in {"reject", "error", "close"},
         f.type = "reject" => ~cli.accepted,
         f.type = "close" /\ f.code = "app" =>
           cli.phase = "dialled" /\ cli.accepted /\ next.left = "app",
         TrySend(f, next), UNCHANGED <<srv, tunnel, knows, down, got>>
  PROVE  IInv'
<1> DEFINE k == Len(got.upstream)
           m == Len(got.browser)
<1>1. /\ Typed /\ Handler(srv) /\ Joint(srv, cli, tunnel)
      /\ Downlink(down, srv, cli, k, tunnel) /\ Uplink(up, srv, cli, m, tunnel)
      /\ InOrder(got.upstream) /\ InOrder(got.browser)
  BY DEF IInv
<1>2. /\ srv \in Srv /\ cli \in Cli /\ down \in Seq(Frames) /\ up \in Seq(Frames)
      /\ k \in Nat /\ m \in Nat
  BY <1>1, LenProperties DEF Typed
<1> HIDE DEF k, m
<1>3. next.ups # "open" /\ srv.phase \notin Before
  BY <1>1 DEF Channel, Joint
<1>4. CASE up' = up /\ cli' = Aborted(cli)
  BY <1>4, CliAborts
<1>5. CASE tunnel # "up" /\ up' = up /\ cli' = next
  BY <1>3, <1>5, CliLocal
<1>6. CASE tunnel = "up" /\ up' = Append(up, f) /\ cli' = next
  <2>1. Downlink(down, srv, next, k, tunnel)
    BY <1>1, <1>2, <1>3, DownStays
  <2>2. Uplink(Append(up, f), srv, next, m, tunnel)
    <3>1. srv.code # "app" /\ (srv.ws # "none" => cli.accepted)
      BY <1>1 DEF Uplink, Joint
    <3> QED BY <1>1, <1>2, <1>3, <1>6, <3>1, UpAppend
  <2>3. Joint(srv, next, tunnel)
    BY <1>1, <1>3 DEF Joint
  <2>4. up' \in Seq(Frames)
    BY <1>2, <1>6, AppendProperties
  <2>5. Typed'
    BY <1>1, <1>6, <2>4 DEF Typed
  <2> QED BY <1>1, <1>6, <2>1, <2>2, <2>3, <2>5 DEF IInv, k, m
<1> QED BY <1>4, <1>5, <1>6, TrySendCases

LEMMA AuthSettlesKeeps ==
  ASSUME IInv, AuthSettles
  PROVE  IInv'
<1>1. /\ cli \in Cli /\ Channel(cli) /\ cli.phase = "auth" /\ ~cli.accepted /\ cli.ups = "none"
      /\ cli.code = "none" /\ UNCHANGED <<srv, tunnel, knows, down, got>>
  BY DEF IInv, Typed, AuthSettles, Channel
<1>2. CASE TrySend(Plain("reject"), Done(cli))
  <2>1. PICK f : f = Plain("reject")
    OBVIOUS
  <2>2. f \in Frames /\ f.type = "reject"
    BY <2>1, FrameKinds
  <2>3. PICK d : d = Done(cli)
    OBVIOUS
  <2>4. /\ d \in Cli /\ d.phase = "finished" /\ d.ups = cli.ups
        /\ d.accepted = cli.accepted /\ d.code = cli.code /\ d.sent = cli.sent
    BY <1>1, <2>3, DoneFields
  <2>5. Channel(d)
    BY <1>1, <2>4 DEF Channel
  <2> QED BY <1>1, <1>2, <2>1, <2>2, <2>3, <2>4, <2>5, CliEnds
<1>3. CASE cli' = Aborted(cli) /\ UNCHANGED up
  BY <1>1, <1>3, CliAborts
<1>4. CASE cli' = [cli EXCEPT !.phase = "dialled", !.ups = "connecting"] /\ UNCHANGED up
  <2>1. /\ cli' \in Cli /\ cli'.phase = "dialled" /\ cli'.ups = "connecting"
        /\ cli'.accepted = cli.accepted /\ cli'.code = cli.code
        /\ cli'.left = cli.left /\ cli'.sent = cli.sent
    BY <1>1, <1>4 DEF Cli, Sockets
  <2>2. Channel(cli')
    BY <1>1, <2>1 DEF Channel
  <2> QED BY <1>1, <1>4, <2>1, <2>2, CliLocal
<1> QED BY <1>2, <1>3, <1>4 DEF AuthSettles

LEMMA UpstreamFailsKeeps ==
  ASSUME IInv, UpstreamFails
  PROVE  IInv'
<1>1. /\ cli \in Cli /\ Channel(cli) /\ cli.phase = "dialled" /\ cli.code = "none"
      /\ UNCHANGED <<srv, tunnel, knows, down, got>>
  BY DEF IInv, Typed, UpstreamFails, Channel
<1>2. PICK y : y = IF cli.accepted THEN "error" ELSE "reject"
  OBVIOUS
<1>3. y \in {"error", "reject"} /\ (y = "reject" => ~cli.accepted)
  BY <1>2
<1>4. PICK f : f = Plain(y)
  OBVIOUS
<1>5. f \in Frames /\ f.type = y
  BY <1>3, <1>4, FrameKinds
<1>6. PICK b : b = [cli EXCEPT !.ups = "closing"]
  OBVIOUS
<1>7. /\ b \in Cli /\ b.ups = "closing" /\ b.accepted = cli.accepted
      /\ b.code = cli.code /\ b.sent = cli.sent
  BY <1>1, <1>6 DEF Cli, Sockets
<1>8. PICK d : d = Done(b)
  OBVIOUS
<1>9. /\ d \in Cli /\ d.phase = "finished" /\ d.ups = "closing"
      /\ d.accepted = cli.accepted /\ d.code = cli.code /\ d.sent = cli.sent
  BY <1>7, <1>8, DoneFields
<1>10. Channel(d)
  BY <1>1, <1>9 DEF Channel
<1>11. TrySend(f, d)
  BY <1>2, <1>4, <1>6, <1>8 DEF UpstreamFails
<1> QED BY <1>1, <1>3, <1>5, <1>9, <1>10, <1>11, CliEnds

LEMMA UpstreamTooBigKeeps ==
  ASSUME IInv, UpstreamMessageTooBig
  PROVE  IInv'
<1>1. /\ cli \in Cli /\ Channel(cli) /\ cli.phase = "dialled"
      /\ UNCHANGED <<srv, tunnel, knows, down, got>>
  BY DEF IInv, Typed, UpstreamMessageTooBig
<1>2. PICK f : f = Close("none")
  OBVIOUS
<1>3. f \in Frames /\ f.type = "close" /\ f.code = "none"
  BY <1>2, FrameKinds DEF PeerCodes
<1>4. PICK b : b = [cli EXCEPT !.ups = "closing", !.code = "toobig"]
  OBVIOUS
<1>5. /\ b \in Cli /\ b.ups = "closing" /\ b.accepted = cli.accepted
      /\ b.code = "toobig" /\ b.sent = cli.sent
  BY <1>1, <1>4 DEF Cli, Sockets
<1>6. PICK d : d = Done(b)
  OBVIOUS
<1>7. /\ d \in Cli /\ d.phase = "finished" /\ d.ups = "closing"
      /\ d.accepted = cli.accepted /\ d.code = "toobig" /\ d.sent = cli.sent
  BY <1>5, <1>6, DoneFields
<1>8. Channel(d)
  BY <1>1, <1>7 DEF Channel
<1>9. TrySend(f, d)
  BY <1>2, <1>4, <1>6 DEF UpstreamMessageTooBig
<1> QED BY <1>1, <1>3, <1>7, <1>8, <1>9, CliEnds

\* The upstream begins to leave, is resumed, or the client closes.
LEMMA UpstreamEventKeeps ==
  ASSUME IInv, UpstreamLeaves \/ UpstreamResumes \/ ClientCloses
  PROVE  IInv'
<1>1. cli \in Cli /\ Channel(cli) /\ UNCHANGED <<srv, tunnel, knows, down, up, got>>
  BY DEF IInv, Typed, UpstreamLeaves, UpstreamResumes, ClientCloses
<1>2. CASE UpstreamLeaves
  <2>1. cli' = [cli EXCEPT !.ups = "leaving"] /\ cli.ups = "open"
    BY <1>2 DEF UpstreamLeaves
  <2>2. /\ cli' \in Cli /\ cli'.phase = cli.phase /\ cli'.ups = "leaving"
        /\ cli'.accepted = cli.accepted /\ cli'.code = cli.code
        /\ cli'.left = cli.left /\ cli'.sent = cli.sent
    BY <1>1, <2>1 DEF Cli, Sockets
  <2>3. Channel(cli')
    BY <1>1, <2>1, <2>2 DEF Channel
  <2> QED BY <1>1, <2>2, <2>3, CliLocal
<1>3. CASE UpstreamResumes \/ ClientCloses
  <2>1. cli' = [cli EXCEPT !.paused = FALSE] \/ cli' = [cli EXCEPT !.closing = TRUE]
    BY <1>3 DEF UpstreamResumes, ClientCloses
  <2>2. /\ cli' \in Cli /\ cli'.phase = cli.phase /\ cli'.ups = cli.ups
        /\ cli'.accepted = cli.accepted /\ cli'.code = cli.code
        /\ cli'.left = cli.left /\ cli'.sent = cli.sent
    BY <1>1, <2>1 DEF Cli
  <2>3. Channel(cli')
    BY <1>1, <2>2 DEF Channel
  <2> QED BY <1>1, <2>2, <2>3, CliLocal
<1> QED BY <1>2, <1>3

LEMMA UpstreamClosedKeeps ==
  ASSUME IInv, UpstreamClosed
  PROVE  IInv'
<1>1. /\ cli \in Cli /\ Channel(cli) /\ cli.ups \in {"leaving", "closing"}
      /\ UNCHANGED <<srv, tunnel, knows, down, got>>
  BY DEF IInv, Typed, UpstreamClosed
<1>2. CASE cli.phase = "dialled"
  <2>1. PICK code \in PeerCodes :
          TrySend(Close(code), Done([cli EXCEPT !.ups = "closed", !.left = code]))
    BY <1>2 DEF UpstreamClosed
  <2>2. PICK f : f = Close(code)
    OBVIOUS
  <2>3. f \in Frames /\ f.type = "close" /\ f.code = code
    BY <2>2, FrameKinds
  <2>4. PICK b : b = [cli EXCEPT !.ups = "closed", !.left = code]
    OBVIOUS
  <2>5. /\ b \in Cli /\ b.ups = "closed" /\ b.accepted = cli.accepted
        /\ b.code = cli.code /\ b.sent = cli.sent /\ b.left = code
    BY <1>1, <2>4 DEF Cli, Sockets
  <2>6. PICK d : d = Done(b)
    OBVIOUS
  <2>7. /\ d \in Cli /\ d.phase = "finished" /\ d.ups = "closed"
        /\ d.accepted = cli.accepted /\ d.code = cli.code /\ d.sent = cli.sent /\ d.left = code
    BY <2>5, <2>6, DoneFields
  <2>8. Channel(d)
    BY <1>1, <2>7 DEF Channel
  <2>9. TrySend(f, d)
    BY <2>1, <2>2, <2>4, <2>6
  <2>10. cli.accepted /\ cli.code = "none"
    BY <1>1, <1>2 DEF Channel
  <2> QED BY <1>1, <1>2, <2>3, <2>7, <2>8, <2>9, <2>10, CliEnds
<1>3. CASE cli.phase # "dialled"
  <2>1. cli' = [cli EXCEPT !.ups = "closed"] /\ UNCHANGED up
    BY <1>3 DEF UpstreamClosed
  <2>2. /\ cli' \in Cli /\ cli'.phase = cli.phase /\ cli'.ups = "closed"
        /\ cli'.accepted = cli.accepted /\ cli'.code = cli.code
        /\ cli'.left = cli.left /\ cli'.sent = cli.sent
    BY <1>1, <2>1 DEF Cli, Sockets
  <2>3. Channel(cli')
    BY <1>1, <1>3, <2>2 DEF Channel
  <2> QED BY <1>1, <1>3, <2>1, <2>2, <2>3, CliLocal
<1> QED BY <1>2, <1>3

LEMMA UpstreamMessageKeeps ==
  ASSUME IInv, UpstreamMessage
  PROVE  IInv'
<1> DEFINE k == Len(got.upstream)
           m == Len(got.browser)
<1>1. /\ Typed /\ Handler(srv) /\ Channel(cli) /\ Joint(srv, cli, tunnel)
      /\ Downlink(down, srv, cli, k, tunnel) /\ Uplink(up, srv, cli, m, tunnel)
      /\ InOrder(got.upstream) /\ InOrder(got.browser)
  BY DEF IInv
<1>2. /\ srv \in Srv /\ cli \in Cli /\ down \in Seq(Frames) /\ up \in Seq(Frames)
      /\ k \in Nat /\ m \in Nat
  BY <1>1, LenProperties DEF Typed
<1> HIDE DEF k, m
<1>3. /\ cli.phase = "dialled" /\ cli.ups \in {"open", "leaving"} /\ cli.sent < MaxMsgs
      /\ UNCHANGED <<srv, tunnel, knows, down, got>>
  BY DEF UpstreamMessage
<1>4. cli.accepted /\ cli.code = "none" /\ srv.phase \notin Before
  BY <1>1, <1>3 DEF Channel, Joint
<1>5. PICK n : n = cli.sent + 1
  OBVIOUS
<1>6. n \in Nat /\ n \in 0..MaxMsgs
  BY <1>2, <1>3, <1>5 DEF Cli
<1>7. PICK pause \in BOOLEAN : TrySend(Message(n), [cli EXCEPT !.sent = n, !.paused = pause])
  BY <1>5 DEF UpstreamMessage, Passed
<1>8. PICK d : d = [cli EXCEPT !.sent = n, !.paused = pause]
  OBVIOUS
<1>9. /\ d \in Cli /\ d.phase = cli.phase /\ d.ups = cli.ups
      /\ d.accepted = cli.accepted /\ d.code = cli.code /\ d.left = cli.left /\ d.sent = n
  BY <1>2, <1>6, <1>8 DEF Cli
<1>10. Channel(d)
  BY <1>1, <1>4, <1>9 DEF Channel
<1>11. PICK f : f = Message(n)
  OBVIOUS
<1>12. f \in Frames /\ f.type = "message" /\ f.n = n
  BY <1>6, <1>11, FrameKinds
<1>13. CASE up' = up /\ cli' = Aborted(cli)
  BY <1>3, <1>13, CliAborts
<1>14. CASE tunnel # "up" /\ up' = up /\ cli' = d
  BY <1>3, <1>9, <1>10, <1>14, CliLocal
<1>15. CASE tunnel = "up" /\ up' = Append(up, f) /\ cli' = d
  <2>1. Downlink(down, srv, d, k, tunnel)
    BY <1>1, <1>2, <1>9, DownStays
  <2>2. Uplink(Append(up, f), srv, d, m, tunnel)
    <3>1. srv.code # "app"
      BY <1>1, <1>3 DEF Uplink
    <3> QED BY <1>1, <1>2, <1>3, <1>4, <1>5, <1>9, <1>12, <1>15, <3>1, UpAppend
  <2>3. Joint(srv, d, tunnel)
    BY <1>1, <1>4, <1>9 DEF Joint
  <2>4. up' \in Seq(Frames)
    BY <1>2, <1>12, <1>15, AppendProperties
  <2>5. Typed'
    BY <1>1, <1>3, <1>9, <1>15, <2>4 DEF Typed
  <2> QED BY <1>1, <1>3, <1>10, <1>15, <2>1, <2>2, <2>3, <2>5 DEF IInv, k, m
<1> QED BY <1>7, <1>8, <1>11, <1>13, <1>14, <1>15, TrySendCases

\* The upstream accepts: nothing but an end can have come before.
LEMMA UpstreamOpensKeeps ==
  ASSUME IInv, UpstreamOpens
  PROVE  IInv'
<1> DEFINE k == Len(got.upstream)
           m == Len(got.browser)
<1>1. /\ Typed /\ Handler(srv) /\ Channel(cli) /\ Joint(srv, cli, tunnel)
      /\ Downlink(down, srv, cli, k, tunnel) /\ Uplink(up, srv, cli, m, tunnel)
      /\ InOrder(got.upstream) /\ InOrder(got.browser)
  BY DEF IInv
<1>2. /\ srv \in Srv /\ cli \in Cli /\ down \in Seq(Frames) /\ up \in Seq(Frames)
      /\ k \in Nat /\ m \in Nat /\ got \in [browser : Seq(Nat), upstream : Seq(Nat)]
  BY <1>1, LenProperties DEF Typed
<1>3. UNCHANGED <<srv, tunnel, knows, down, got>>
  <2>1. cli.pending = <<>> /\ got.upstream \in Seq(Nat)
    BY <1>2 DEF Cli
  <2>2. got.upstream \o cli.pending = got.upstream
    BY <2>1, ConcatEmptySeq
  <2>3. got = [got EXCEPT !.upstream = got.upstream]
    BY <1>2
  <2> QED BY <2>2, <2>3 DEF UpstreamOpens
<1> HIDE DEF k, m
<1>4. cli.phase = "dialled" /\ cli.ups = "connecting"
  BY DEF UpstreamOpens
<1>5. ~cli.accepted /\ cli.code = "none" /\ cli.sent = 0 /\ srv.phase \notin Before
  BY <1>1, <1>4 DEF Channel, Joint
<1>6. srv.ws = "none" /\ srv.sent = 0 /\ srv.code # "app" /\ k = 0 /\ m = 0 /\ up = <<>>
  BY <1>1, <1>4, <1>5 DEF Joint, Handler, Downlink, Uplink
<1>7. PICK p \in Protocols :
        TrySend([type |-> "accept", code |-> p],
                [cli EXCEPT !.ups = "open", !.accepted = TRUE, !.pending = <<>>])
  BY DEF UpstreamOpens
<1>8. PICK f : f = [type |-> "accept", code |-> p]
  OBVIOUS
<1>9. f \in Frames /\ f.type = "accept"
  BY <1>8 DEF Frames
<1>10. PICK d : d = [cli EXCEPT !.ups = "open", !.accepted = TRUE, !.pending = <<>>]
  OBVIOUS
<1>11. /\ d \in Cli /\ d.phase = "dialled" /\ d.ups = "open" /\ d.accepted
       /\ d.code = "none" /\ d.left = cli.left /\ d.sent = 0
  BY <1>2, <1>4, <1>5, <1>10 DEF Cli, Sockets
<1>12. Channel(d)
  BY <1>11 DEF Channel
<1>13. Downlink(down, srv, d, k, tunnel)
  <2>1. ASSUME NEW i \in 1..Len(down)
        PROVE  /\ DownFrame(down[i], i, Len(down), srv, d, k)
               /\ srv.phase = "finished"
    <3>1. DownFrame(down[i], i, Len(down), srv, cli, k)
      BY <1>1 DEF Downlink
    <3> QED BY <1>4, <1>5, <3>1 DEF DownFrame
  <2>2. srv.phase = "open" => srv.sent = k + Len(down)
    <3>1. Len(down) \in Nat
      BY <1>2, LenProperties
    <3>2. srv.phase = "open" => Len(down) = 0
      BY <2>1, <3>1
    <3> QED BY <1>6, <3>2
  <2> QED BY <1>5, <1>11, <2>1, <2>2 DEF Downlink
<1>14. Joint(srv, d, tunnel)
  BY <1>1, <1>5, <1>11 DEF Joint
<1>15. CASE up' = up /\ cli' = Aborted(cli)
  BY <1>3, <1>4, <1>15, CliAborts
<1>16. CASE tunnel # "up" /\ up' = up /\ cli' = d
  <2>1. Uplink(<<>>, srv, d, m, tunnel)
    BY <1>2, <1>6, <1>11, <1>16, UpEmpty
  <2>2. Typed'
    BY <1>1, <1>3, <1>11, <1>16 DEF Typed
  <2> QED BY <1>1, <1>3, <1>6, <1>12, <1>13, <1>14, <1>16, <2>1, <2>2 DEF IInv, k, m
<1>17. CASE tunnel = "up" /\ up' = Append(up, f) /\ cli' = d
  <2>1. Uplink(Append(up, f), srv, d, m, tunnel)
    BY <1>1, <1>2, <1>4, <1>5, <1>6, <1>9, <1>11, <1>17, UpAppend
  <2>2. up' \in Seq(Frames)
    BY <1>2, <1>9, <1>17, AppendProperties
  <2>3. Typed'
    BY <1>1, <1>3, <1>11, <1>17, <2>2 DEF Typed
  <2> QED BY <1>1, <1>3, <1>12, <1>13, <1>14, <1>17, <2>1, <2>3 DEF IInv, k, m
<1> QED BY <1>7, <1>8, <1>10, <1>15, <1>16, <1>17, TrySendCases

-----------------------------------------------------------------------------
\* The client reads the downlink.

\* What a step that reads the downlink has to show.
LEMMA ReadDown ==
  ASSUME IInv, cli' \in Cli, Channel(cli'), down' \in Seq(Frames), up' \in Seq(Frames),
         cli'.phase = cli.phase \/ srv.phase \notin Before,
         cli'.accepted = cli.accepted,
         got'.upstream \in Seq(Nat), InOrder(got'.upstream),
         got' = [got EXCEPT !.upstream = got'.upstream],
         Downlink(down', srv, cli', Len(got'.upstream), tunnel),
         Uplink(up', srv, cli', Len(got.browser), tunnel),
         UNCHANGED <<srv, tunnel, knows>>
  PROVE  IInv'
<1>1. Typed /\ Handler(srv) /\ Joint(srv, cli, tunnel) /\ InOrder(got.browser)
  BY DEF IInv
<1>2. got'.browser = got.browser /\ got' \in [browser : Seq(Nat), upstream : Seq(Nat)]
  <2>1. PICK q : q = got'.upstream
    OBVIOUS
  <2>2. got' = [got EXCEPT !.upstream = q] /\ q \in Seq(Nat)
    BY <2>1
  <2> QED BY <1>1, <2>2 DEF Typed
<1>3. Joint(srv, cli', tunnel)
  BY <1>1 DEF Joint
<1>4. Typed'
  BY <1>1, <1>2 DEF Typed
<1> QED BY <1>1, <1>2, <1>3, <1>4 DEF IInv

\* The head of the downlink.
LEMMA HeadDown ==
  ASSUME IInv, down # <<>>
  PROVE  /\ Head(down) = down[1] /\ down[1] \in Frames /\ Tail(down) \in Seq(Frames)
         /\ DownFrame(down[1], 1, Len(down), srv, cli, Len(got.upstream))
         /\ Len(got.upstream) \in Nat /\ got.upstream \in Seq(Nat)
         /\ got = [got EXCEPT !.upstream = got.upstream]
         /\ srv.phase \notin Before
<1>1. /\ down \in Seq(Frames) /\ got \in [browser : Seq(Nat), upstream : Seq(Nat)]
      /\ Downlink(down, srv, cli, Len(got.upstream), tunnel)
  BY DEF IInv, Typed
<1>2. /\ 1 \in 1..Len(down) /\ Head(down) = down[1] /\ down[1] \in Frames
      /\ Tail(down) \in Seq(Frames)
  BY <1>1, HeadTail
<1>3. DownFrame(down[1], 1, Len(down), srv, cli, Len(got.upstream)) /\ srv.phase \notin Before
  BY <1>1, <1>2 DEF Downlink
<1>4. got.upstream \in Seq(Nat) /\ Len(got.upstream) \in Nat
  BY <1>1, LenProperties
<1>5. got = [got EXCEPT !.upstream = got.upstream]
  BY <1>1
<1> QED BY <1>2, <1>3, <1>4, <1>5

LEMMA OpenWsKeeps ==
  ASSUME IInv, OpenWs
  PROVE  IInv'
<1> DEFINE k == Len(got.upstream)
           m == Len(got.browser)
<1>1. /\ Typed /\ Handler(srv) /\ Channel(cli) /\ Joint(srv, cli, tunnel)
      /\ Downlink(down, srv, cli, k, tunnel) /\ Uplink(up, srv, cli, m, tunnel)
      /\ InOrder(got.upstream)
  BY DEF IInv
<1>2. /\ srv \in Srv /\ cli \in Cli /\ down \in Seq(Frames) /\ up \in Seq(Frames)
      /\ k \in Nat /\ m \in Nat
  BY <1>1, LenProperties DEF Typed
<1>3. /\ down # <<>> /\ Head(down).type = "open" /\ down' = Tail(down)
      /\ UNCHANGED <<srv, tunnel, knows, got>>
  BY DEF OpenWs, FromServer
<1>4. /\ Head(down) = down[1] /\ Tail(down) \in Seq(Frames)
      /\ DownFrame(down[1], 1, Len(down), srv, cli, k)
      /\ got.upstream \in Seq(Nat) /\ got = [got EXCEPT !.upstream = got.upstream]
      /\ srv.phase \notin Before
  BY <1>3, HeadDown
<1> HIDE DEF k, m
<1>5. cli.phase = "none"
  BY <1>3, <1>4 DEF DownFrame
<1>6. /\ ~cli.accepted /\ cli.ups = "none" /\ cli.code = "none" /\ k = 0 /\ up = <<>>
      /\ srv.ws = "none"
  BY <1>1, <1>5 DEF Channel, Downlink, Uplink, Joint
<1>7. /\ Downlink(Tail(down), srv, cli, k, tunnel)
      /\ \A i \in 1..Len(Tail(down)) : Tail(down)[i].type # "open"
  BY <1>1, <1>2, <1>3, <1>6, DownTail
<1>8. ASSUME cli' \in Cli, cli'.accepted = cli.accepted, cli'.ups = cli.ups,
             cli'.code = cli.code, up' \in Seq(Frames), Channel(cli'),
             Uplink(up', srv, cli', m, tunnel)
      PROVE  IInv'
  <2>1. Downlink(Tail(down), srv, cli', k, tunnel)
    BY <1>2, <1>4, <1>6, <1>7, <1>8, DownStays
  <2> QED BY <1>1, <1>3, <1>4, <1>8, <2>1, ReadDown DEF k, m
<1>9. CASE cli.closing
  <2>1. cli' = Done(cli) /\ SendUp(Plain("error"))
    BY <1>9 DEF OpenWs
  <2>2. /\ cli' \in Cli /\ cli'.phase = "finished" /\ cli'.ups = cli.ups
        /\ cli'.accepted = cli.accepted /\ cli'.code = cli.code
        /\ cli'.left = cli.left /\ cli'.sent = cli.sent
    BY <1>2, <2>1, DoneFields
  <2>3. Channel(cli')
    BY <1>1, <1>6, <2>2 DEF Channel
  <2>4. PICK f : f = Plain("error")
    OBVIOUS
  <2>5. f \in Frames /\ f.type = "error"
    BY <2>4, FrameKinds
  <2>6. CASE tunnel = "up"
    <3>1. up' = Append(up, f)
      BY <2>1, <2>4, <2>6 DEF SendUp
    <3>2. srv.code # "app"
      BY <1>1, <1>5 DEF Uplink
    <3>3. Uplink(Append(up, f), srv, cli', m, tunnel)
      BY <1>1, <1>2, <1>4, <1>5, <1>6, <2>2, <2>5, <2>6, <3>2, UpAppend
    <3>4. up' \in Seq(Frames)
      BY <1>2, <2>5, <3>1, AppendProperties
    <3> QED BY <1>8, <2>2, <2>3, <3>1, <3>3, <3>4
  <2>7. CASE tunnel # "up"
    <3>1. up' = up
      BY <2>1, <2>7 DEF SendUp
    <3>2. Uplink(up, srv, cli', m, tunnel)
      BY <1>1, <1>2, <1>5, <1>6, <2>2, UpStays
    <3> QED BY <1>2, <1>8, <2>2, <2>3, <3>1, <3>2
  <2> QED BY <2>6, <2>7
<1>10. CASE ~cli.closing
  <2>1. cli' = [cli EXCEPT !.phase = "auth"] /\ up' = up
    BY <1>10 DEF OpenWs
  <2>2. /\ cli' \in Cli /\ cli'.phase = "auth" /\ cli'.ups = cli.ups
        /\ cli'.accepted = cli.accepted /\ cli'.code = cli.code
        /\ cli'.left = cli.left /\ cli'.sent = cli.sent
    BY <1>2, <2>1 DEF Cli
  <2>3. Channel(cli')
    BY <1>1, <1>6, <2>2 DEF Channel
  <2>4. Uplink(up, srv, cli', m, tunnel)
    BY <1>1, <1>2, <1>5, <1>6, <2>2, UpStays
  <2> QED BY <1>2, <1>8, <2>1, <2>2, <2>3, <2>4
<1> QED BY <1>9, <1>10

LEMMA DropDownKeeps ==
  ASSUME IInv, DropDown
  PROVE  IInv'
<1>1. /\ down # <<>> /\ cli.phase \in {"none", "finished"} /\ down' = Tail(down)
      /\ UNCHANGED <<srv, cli, tunnel, knows, up, got>>
  BY DEF DropDown
<1>2. /\ srv \in Srv /\ cli \in Cli /\ down \in Seq(Frames) /\ up \in Seq(Frames)
      /\ Channel(cli) /\ Downlink(down, srv, cli, Len(got.upstream), tunnel)
      /\ Uplink(up, srv, cli, Len(got.browser), tunnel) /\ InOrder(got.upstream)
  BY DEF IInv, Typed
<1>3. PICK k : k = Len(got.upstream)
  OBVIOUS
<1>4. /\ Tail(down) \in Seq(Frames) /\ k \in Nat /\ got.upstream \in Seq(Nat)
      /\ got = [got EXCEPT !.upstream = got.upstream]
  BY <1>1, <1>3, HeadDown
<1>5. cli.ups # "open" /\ (~cli.accepted => k = 0)
  BY <1>1, <1>2, <1>3 DEF Channel, Downlink
<1>6. Downlink(Tail(down), srv, cli, k, tunnel)
  BY <1>1, <1>2, <1>3, <1>4, <1>5, DownTail
<1> QED BY <1>1, <1>2, <1>3, <1>4, <1>6, ReadDown

LEMMA MessageDownKeeps ==
  ASSUME IInv, MessageDown
  PROVE  IInv'
<1>1. /\ down # <<>> /\ Head(down).type = "message" /\ down' = Tail(down)
      /\ cli.phase \in {"auth", "dialled"} /\ UNCHANGED <<srv, tunnel, knows, up>>
  BY DEF MessageDown, FromServer
<1>2. /\ srv \in Srv /\ cli \in Cli /\ down \in Seq(Frames) /\ up \in Seq(Frames)
      /\ Channel(cli) /\ Downlink(down, srv, cli, Len(got.upstream), tunnel)
      /\ Uplink(up, srv, cli, Len(got.browser), tunnel) /\ InOrder(got.upstream)
      /\ got \in [browser : Seq(Nat), upstream : Seq(Nat)]
  BY DEF IInv, Typed
<1>3. PICK k : k = Len(got.upstream)
  OBVIOUS
<1>4. /\ Head(down) = down[1] /\ down[1] \in Frames /\ Tail(down) \in Seq(Frames)
      /\ DownFrame(down[1], 1, Len(down), srv, cli, k) /\ k \in Nat
      /\ got.upstream \in Seq(Nat) /\ got = [got EXCEPT !.upstream = got.upstream]
      /\ srv.phase \notin Before
  BY <1>1, <1>3, HeadDown
<1>5. cli.accepted /\ cli.code = "none" /\ cli' = cli
  <2>1. cli.accepted
    BY <1>1, <1>4 DEF DownFrame
  <2> QED BY <1>1, <1>2, <2>1 DEF MessageDown, Channel
<1>6. CASE cli.ups # "open"
  <2>1. got' = got
    BY <1>6 DEF MessageDown
  <2>2. Downlink(Tail(down), srv, cli, k, tunnel)
    BY <1>1, <1>2, <1>3, <1>4, <1>5, <1>6, DownTail
  <2> QED BY <1>1, <1>2, <1>3, <1>4, <1>5, <2>1, <2>2, ReadDown
<1>7. CASE cli.ups = "open"
  <2>1. PICK n : n = down[1].n
    OBVIOUS
  <2>2. n \in Nat /\ n = k + 1
    BY <1>1, <1>4, <1>7, <2>1, FrameFields DEF DownFrame
  <2>3. PICK q : q = Append(got.upstream, n)
    OBVIOUS
  <2>4. InOrder(q) /\ q \in Seq(Nat) /\ Len(q) = k + 1
    BY <1>2, <1>3, <1>4, <2>2, <2>3, InOrderAppend
  <2>5. got' = [got EXCEPT !.upstream = q]
    BY <1>4, <1>7, <2>1, <2>3 DEF MessageDown
  <2>6. got'.upstream = q
    BY <1>2, <2>5
  <2>7. Downlink(Tail(down), srv, cli, k + 1, tunnel)
    <3>1. k + 1 \in Nat
      BY <1>4
    <3> QED BY <1>1, <1>2, <1>3, <1>4, <1>5, <3>1, DownTail
  <2> QED BY <1>1, <1>2, <1>4, <1>5, <2>4, <2>5, <2>6, <2>7, ReadDown
<1> QED BY <1>6, <1>7

LEMMA PeerCloseKeeps ==
  ASSUME IInv, PeerClose
  PROVE  IInv'
<1>1. /\ down # <<>> /\ Head(down).type = "close" /\ down' = Tail(down)
      /\ cli.phase \in {"auth", "dialled"} /\ cli' = ClosedByPeer(cli, Head(down).code)
      /\ UNCHANGED <<srv, tunnel, knows, up, got>>
  BY DEF PeerClose, FromServer
<1>2. /\ srv \in Srv /\ cli \in Cli /\ down \in Seq(Frames) /\ up \in Seq(Frames)
      /\ Channel(cli) /\ Downlink(down, srv, cli, Len(got.upstream), tunnel)
      /\ Uplink(up, srv, cli, Len(got.browser), tunnel) /\ InOrder(got.upstream)
      /\ Len(got.browser) \in Nat
  BY LenProperties DEF IInv, Typed
<1>3. PICK k : k = Len(got.upstream)
  OBVIOUS
<1>4. /\ Head(down) = down[1] /\ k \in Nat /\ got.upstream \in Seq(Nat)
      /\ got = [got EXCEPT !.upstream = got.upstream] /\ srv.phase \notin Before
  BY <1>1, <1>3, HeadDown
<1>5. /\ Tail(down) = <<>> /\ srv.phase = "finished"
      /\ down[1].code = "app" /\ cli.ups = "open" => srv.left = "app" /\ srv.sent = k
  BY <1>1, <1>2, <1>3, <1>4, DownLast
<1>6. PICK x : x = IF cli.ups \in {"none", "closed"} THEN cli.ups ELSE "closing"
  OBVIOUS
<1>7. PICK y : y = IF cli.ups = "open" THEN Sanitize(down[1].code) ELSE cli.code
  OBVIOUS
<1>8. /\ x \in {"none", "closing", "closed"} /\ y \in {"none", "app", "normal", "toobig"}
      /\ y = "app" => down[1].code = "app" /\ cli.ups = "open"
  BY <1>1, <1>2, <1>6, <1>7 DEF Sanitize, Channel
<1>9. PICK b : b = [cli EXCEPT !.ups = x, !.code = y]
  OBVIOUS
<1>10. /\ b \in Cli /\ b.ups = x /\ b.accepted = cli.accepted
       /\ b.code = y /\ b.sent = cli.sent /\ b.left = cli.left
  BY <1>2, <1>8, <1>9 DEF Cli, Sockets
<1>11. cli' = Done(b)
  <2>1. ClosedByPeer(cli, down[1].code) = Done(b)
    BY <1>6, <1>7, <1>9, Zenon DEF ClosedByPeer
  <2> QED BY <1>1, <1>4, <2>1
<1>12. /\ cli' \in Cli /\ cli'.phase = "finished" /\ cli'.ups = x
       /\ cli'.accepted = cli.accepted /\ cli'.code = y /\ cli'.sent = cli.sent
       /\ cli'.left = cli.left
  BY <1>10, <1>11, DoneFields
<1>13. Channel(cli')
  BY <1>2, <1>8, <1>12 DEF Channel
<1>14. Downlink(<<>>, srv, cli', k, tunnel)
  <2>1. ~cli'.accepted => k = 0
    BY <1>2, <1>3, <1>12 DEF Downlink
  <2> QED BY <1>2, <1>4, <1>5, <1>8, <1>12, <2>1, DownEmpty
<1>15. Uplink(up, srv, cli', Len(got.browser), tunnel)
  <2>1. up = <<>> \/ cli'.accepted \/ cli'.phase = "finished"
    BY <1>12
  <2> QED BY <1>1, <1>2, <1>12, <2>1, UpStays
<1>16. <<>> \in Seq(Frames)
  BY EmptySeq
<1> QED BY <1>1, <1>2, <1>3, <1>4, <1>5, <1>12, <1>13, <1>14, <1>15, <1>16, ReadDown

-----------------------------------------------------------------------------
\* The tunnel.

LEMMA TunnelBreaksKeeps ==
  ASSUME IInv, TunnelBreaks
  PROVE  IInv'
<1> DEFINE k == Len(got.upstream)
           m == Len(got.browser)
<1>1. /\ Typed /\ Handler(srv) /\ Channel(cli) /\ Joint(srv, cli, tunnel)
      /\ Downlink(down, srv, cli, k, tunnel) /\ Uplink(up, srv, cli, m, tunnel)
      /\ InOrder(got.upstream) /\ InOrder(got.browser)
  BY DEF IInv
<1>2. /\ srv \in Srv /\ cli \in Cli /\ down \in Seq(Frames) /\ up \in Seq(Frames)
      /\ k \in Nat /\ m \in Nat
  BY <1>1, LenProperties DEF Typed
<1> HIDE DEF k, m
<1>3. tunnel' = "broken" /\ UNCHANGED <<srv, cli, knows, down, up, got>>
  BY DEF TunnelBreaks
<1>4. Downlink(down, srv, cli, k, "broken")
  BY <1>1, <1>2, DownStays
<1>5. Uplink(up, srv, cli, m, "broken")
  BY <1>1, <1>2, UpStays
<1>6. Joint(srv, cli, "broken")
  BY <1>1 DEF Joint
<1>7. Typed'
  BY <1>1, <1>3 DEF Typed
<1> QED BY <1>1, <1>3, <1>4, <1>5, <1>6, <1>7 DEF IInv, k, m

LEMMA TornKeeps ==
  ASSUME IInv, TunnelDown \/ ServerCloses
  PROVE  IInv'
<1> DEFINE k == Len(got.upstream)
           m == Len(got.browser)
<1>1. /\ Typed /\ Handler(srv) /\ Channel(cli) /\ Joint(srv, cli, tunnel)
      /\ Downlink(down, srv, cli, k, tunnel) /\ Uplink(up, srv, cli, m, tunnel)
      /\ InOrder(got.upstream) /\ InOrder(got.browser)
  BY DEF IInv
<1>2. /\ srv \in Srv /\ cli \in Cli /\ down \in Seq(Frames) /\ up \in Seq(Frames)
      /\ k \in Nat /\ m \in Nat
  BY <1>1, LenProperties DEF Typed
<1> HIDE DEF k, m
<1>3. /\ tunnel' = "broken" /\ knows' = knows \union {"server"} /\ up' = <<>>
      /\ UNCHANGED <<cli, down, got>>
  BY DEF TunnelDown, ServerCloses, Torn
<1>4. /\ srv' \in Srv /\ Handler(srv') /\ srv'.sent = srv.sent /\ srv'.left = srv.left
      /\ srv'.phase \in Before <=> srv.phase \in Before
      /\ srv.phase = "finished" => srv'.phase = "finished"
      /\ srv'.ws = "none" <=> srv.ws = "none"
      /\ srv'.code = "app" => srv.code = "app"
  <2>1. CASE srv.phase = "open"
    <3>1. srv' = FinishWith(srv, "failed")
      BY <2>1 DEF TunnelDown, ServerCloses, Torn
    <3>2. /\ SameBut(srv', srv) /\ Handler(srv') /\ srv'.phase = "finished"
          /\ srv'.ws = "none" <=> srv.ws = "none"
          /\ srv'.code # "app"
      BY <1>1, <1>2, <2>1, <3>1, FinishWithGood
    <3> QED BY <2>1, <3>2 DEF SameBut, Before
  <2>2. CASE srv.phase # "open"
    <3>1. srv' = srv
      BY <2>2 DEF TunnelDown, ServerCloses, Torn
    <3> QED BY <1>1, <1>2, <3>1
  <2> QED BY <2>1, <2>2
<1>5. Downlink(down, srv', cli, k, "broken")
  BY <1>1, <1>2, <1>4, DownStays
<1>6. Uplink(<<>>, srv', cli, m, "broken")
  <2>1. /\ srv'.ws = "none" => m = 0
        /\ srv'.code = "app" => cli.left = "app" /\ cli.phase = "finished" /\ m = cli.sent
    BY <1>1, <1>4 DEF Uplink
  <2> QED BY <1>2, <1>4, <2>1, UpEmpty
<1>7. Joint(srv', cli, "broken")
  BY <1>1, <1>4 DEF Joint
<1>8. Typed'
  <2>1. up' \in Seq(Frames)
    BY <1>3, EmptySeq
  <2> QED BY <1>1, <1>3, <1>4, <2>1 DEF Typed
<1> QED BY <1>1, <1>3, <1>4, <1>5, <1>6, <1>7, <1>8 DEF IInv, k, m

LEMMA DisconnectedKeeps ==
  ASSUME IInv, Disconnected
  PROVE  IInv'
<1> DEFINE k == Len(got.upstream)
           m == Len(got.browser)
<1>1. /\ Typed /\ Handler(srv) /\ Channel(cli) /\ Joint(srv, cli, tunnel)
      /\ Downlink(down, srv, cli, k, tunnel) /\ Uplink(up, srv, cli, m, tunnel)
      /\ InOrder(got.upstream) /\ InOrder(got.browser)
  BY DEF IInv
<1>2. /\ srv \in Srv /\ cli \in Cli /\ down \in Seq(Frames) /\ up \in Seq(Frames)
      /\ k \in Nat /\ m \in Nat
  BY <1>1, LenProperties DEF Typed
<1> HIDE DEF k, m
<1>3. /\ tunnel' = "broken" /\ knows' = knows \union {"client"} /\ down' = <<>>
      /\ UNCHANGED <<srv, up, got>>
  BY DEF Disconnected
<1>4. /\ cli' \in Cli /\ Channel(cli') /\ cli'.accepted = cli.accepted
      /\ cli'.left = cli.left /\ cli'.sent = cli.sent /\ cli'.code = cli.code
      /\ cli'.phase # cli.phase => cli.phase \in {"auth", "dialled"} /\ cli'.phase = "finished"
  <2>1. CASE cli.phase \in {"auth", "dialled"}
    <3>1. cli' = Aborted(cli)
      BY <2>1 DEF Disconnected
    <3>2. ~cli.accepted => cli.sent = 0
      BY <1>1 DEF Channel
    <3> QED BY <1>2, <2>1, <3>1, <3>2, AbortedFields
  <2>2. CASE cli.phase \notin {"auth", "dialled"}
    <3>1. cli' = cli
      BY <2>2 DEF Disconnected
    <3> QED BY <1>1, <1>2, <3>1
  <2> QED BY <2>1, <2>2
<1>5. Downlink(<<>>, srv, cli', k, "broken")
  <2>1. /\ ~cli'.accepted => k = 0
        /\ cli'.code = "app" => srv.left = "app" /\ srv.phase = "finished" /\ k = srv.sent
    BY <1>1, <1>4 DEF Downlink
  <2> QED BY <1>2, <1>4, <2>1, DownEmpty
<1>6. Uplink(up, srv, cli', m, "broken")
  BY <1>1, <1>2, <1>4, UpStays
<1>7. Joint(srv, cli', "broken")
  BY <1>1, <1>4 DEF Joint
<1>8. Typed'
  <2>1. down' \in Seq(Frames)
    BY <1>3, EmptySeq
  <2> QED BY <1>1, <1>3, <1>4, <2>1 DEF Typed
<1> QED BY <1>1, <1>3, <1>4, <1>5, <1>6, <1>7, <1>8 DEF IInv, k, m

-----------------------------------------------------------------------------
\* The specification.

LEMMA InitIInv == Init => IInv
<1> SUFFICES ASSUME Init PROVE IInv
  OBVIOUS
<1>1. srv \in Srv /\ cli \in Cli
  <2>1. srv \in Srv
    BY DEF Init, Srv, Before, Sockets, PeerCodes
  <2>2. cli \in Cli
    <3>1. PICK e : e = <<>>
      OBVIOUS
    <3>2. cli = [phase |-> "none", accepted |-> FALSE, closing |-> FALSE, pending |-> e,
                 ups |-> "none", code |-> "none", left |-> "none", paused |-> FALSE, sent |-> 0]
      BY <3>1 DEF Init
    <3>3. Cli = [phase : {"none", "auth", "dialled", "finished"}, accepted : BOOLEAN,
                 closing : BOOLEAN, pending : {e}, ups : Sockets,
                 code : {"none", "app", "normal", "toobig"}, left : PeerCodes, paused : BOOLEAN,
                 sent : 0..MaxMsgs]
      BY <3>1 DEF Cli
    <3> QED BY <3>2, <3>3, SMTT(60) DEF Sockets, PeerCodes
  <2> QED BY <2>1, <2>2
<1>2. /\ srv.phase = "arriving" /\ srv.timer = FALSE /\ srv.raw = "open" /\ srv.replies = 0
      /\ srv.ws = "none" /\ srv.code = "none" /\ srv.sent = 0
      /\ cli.phase = "none" /\ cli.accepted = FALSE /\ cli.ups = "none" /\ cli.code = "none"
      /\ cli.sent = 0
  BY DEF Init
<1>3. Handler(srv) /\ Channel(cli) /\ Joint(srv, cli, tunnel)
  BY <1>2 DEF Handler, Channel, Joint, Before
<1>4. /\ down = <<>> /\ up = <<>> /\ got.upstream = <<>> /\ got.browser = <<>>
      /\ <<>> \in Seq(Frames) /\ <<>> \in Seq(Nat) /\ Len(<<>>) = 0
  BY EmptySeq DEF Init
<1>5. Downlink(down, srv, cli, Len(got.upstream), tunnel)
  BY <1>1, <1>2, <1>4, DownEmpty
<1>6. Uplink(up, srv, cli, Len(got.browser), tunnel)
  BY <1>1, <1>2, <1>4, UpEmpty
<1>7. InOrder(<<>>)
  <2>1. PICK g : g = [i \in 1..0 |-> i]
    OBVIOUS
  <2>2. g \in Seq(Nat) /\ Len(g) = 0
    <3>1. \A i \in 1..0 : i \in Nat
      OBVIOUS
    <3> QED BY <2>1, <3>1
  <2>3. g = <<>>
    BY <2>2, EmptySeq
  <2> QED BY <1>4, <2>1, <2>3 DEF InOrder, Counted
<1>8. Typed
  <2>1. got \in [browser : Seq(Nat), upstream : Seq(Nat)]
    <3>1. PICK e : e = <<>>
      OBVIOUS
    <3>2. got = [browser |-> e, upstream |-> e] /\ e \in Seq(Nat)
      BY <1>4, <3>1 DEF Init
    <3> QED BY <3>2
  <2> QED BY <1>1, <1>4, <2>1 DEF Typed, Init
<1> QED BY <1>3, <1>4, <1>5, <1>6, <1>7, <1>8 DEF IInv

LEMMA StepIInv == IInv /\ [Next]_vars => IInv'
<1> SUFFICES ASSUME IInv, [Next]_vars PROVE IInv'
  OBVIOUS
<1>1. CASE UNCHANGED vars
  BY <1>1 DEF vars, IInv, Typed
<1>2. CASE Server
  BY <1>2, ArrivalKeeps, BrowserCutKeeps, RawClosedKeeps, AcceptTimeoutKeeps, DropUpKeeps,
     AcceptKeeps, EndsKeeps, MessageUpKeeps, BrowserMessageKeeps, BrowserMessageTooBigKeeps,
     BrowserEventKeeps, BrowserClosedKeeps, TornKeeps DEF Server
<1>3. CASE Client
  BY <1>3, OpenWsKeeps, AuthSettlesKeeps, UpstreamOpensKeeps, UpstreamFailsKeeps,
     UpstreamMessageKeeps, UpstreamTooBigKeeps, UpstreamEventKeeps, UpstreamClosedKeeps,
     DropDownKeeps, MessageDownKeeps, PeerCloseKeeps, DisconnectedKeeps DEF Client
<1> QED BY <1>1, <1>2, <1>3, TunnelBreaksKeeps DEF Next

\* The two halves and the frames between them stay in agreement, whatever
\* ends first and however the tunnel breaks.
THEOREM IInvAlways == Spec => []IInv
BY InitIInv, StepIInv, PTL DEF Spec

\* Neither half gives a WebSocket a close code it would throw at, queues a
\* message past ws.accept, or ends while it holds a socket open (RelayInv).
THEOREM RelayAlways == Spec => []RelayInv
<1>1. IInv => RelayInv
  <2> SUFFICES ASSUME IInv PROVE RelayInv
    OBVIOUS
  <2>1. Typed /\ Handler(srv) /\ Channel(cli)
    BY DEF IInv
  <2>2. EndsReleased
    BY <2>1 DEF EndsReleased, Handler, Channel
  <2>3. TypeOK
    BY <2>1 DEF TypeOK, Typed, Srv, Cli, Before
  <2> QED BY <2>2, <2>3 DEF RelayInv
<1> QED BY <1>1, IInvAlways, PTL

\* The upgrade request gets one answer at most, HTTP or 101 (OneAnswer).
THEOREM OneAnswerAlways == Spec => []OneAnswer
<1>1. IInv => OneAnswer
  BY DEF IInv, Handler, OneAnswer
<1> QED BY <1>1, IInvAlways, PTL

\* A WebSocket closed with the application's code has been handed every
\* message the other side sent before its close (CloseIsComplete).
THEOREM CloseAlways == Spec => []CloseIsComplete
<1>1. IInv => CloseIsComplete
  <2> SUFFICES ASSUME IInv PROVE CloseIsComplete
    OBVIOUS
  <2>1. /\ srv.code = "app" => cli.left = "app" /\ Len(got.browser) = cli.sent
        /\ cli.code = "app" => srv.left = "app" /\ Len(got.upstream) = srv.sent
    BY DEF IInv, Downlink, Uplink
  <2>2. got.browser = Counted(Len(got.browser)) /\ got.upstream = Counted(Len(got.upstream))
    BY DEF IInv, InOrder
  <2> QED BY <2>1, <2>2, Zenon DEF CloseIsComplete
<1> QED BY <1>1, IInvAlways, PTL
=============================================================================

-------------------------- MODULE TunnelGroupProofs --------------------------
(***************************************************************************)
(* Proofs about TunnelGroup, for any number of connections, attempts,      *)
(* sockets, ids and faults.                                                *)
(*                                                                         *)
(* The invariant speaks of one socket (SocketGood), of the sockets and the *)
(* sessions of the server (ServerSide), and of the sockets and the tables  *)
(* of the client (ClientSide).  Most steps only let sockets fade: they     *)
(* take something of what is on them, and add no hello, ack or session.    *)
(***************************************************************************)
EXTENDS TunnelGroup, SequenceTheorems, FiniteSetTheorems, TLAPS

USE ConnectionsAssumption, ServerMaxAssumption, AttemptsAssumption, BoundsAssumption

\* The hello has not been read.
Unread(q) == \E i \in 1..Len(q) : q[i].type = "hello"
Acks(q) == {t \in TunnelIds : \E i \in 1..Len(q) : q[i].type = "ack" /\ q[i].tid = t}

SocketGood(r) ==
  /\ r.srv = "closed" => r.up = <<>> /\ r.sess = None
  /\ r.cli = "dialing" => r.srv = "closed" /\ r.down = <<>>
  /\ r.cli # "closed" => r.role # "none"
  /\ r.role = "attach" => r.want \in TunnelIds
  /\ Unread(r.up) => r.sess = None /\ Acks(r.down) = {} /\ r.cli # "ready"
  /\ \A i \in 1..Len(r.up) : r.up[i].type = "hello" => i = 1

AllGood(S) == S \in [Sockets -> Socket] /\ \A c \in Sockets : SocketGood(S[c])

\* What the server knows: a session is the one registered under its id, and is
\* its primary socket's; an attach leg belongs to the session it asked for.
ServerSide ==
  /\ SessionsExclusive
  /\ \A s \in Sockets : session[s] # None =>
       /\ sock[s].sess = s /\ sock[s].role = "primary"
       /\ Acks(sock[s].down) \subseteq {session[s]}
       /\ Cardinality(LegsOf(s)) <= MaxLegs
  /\ \A c \in Sockets : sock[c].sess # None =>
       /\ ~Unread(sock[sock[c].sess].up) /\ sock[sock[c].sess].cli # "dialing"
       /\ sock[c].role = "primary" => sock[c].sess = c
       /\ sock[c].role = "attach" /\ session[sock[c].sess] # None =>
            session[sock[c].sess] = sock[c].want

\* What the client holds: its attach legs and its retries belong to a primary
\* that is ready, and nothing else of it is open.
ClientSide ==
  /\ \A i \in Slots : slot[i] # None /\ ~closing =>
       /\ PrimaryReady
       /\ sock[slot[i]].role = "attach" /\ sock[slot[i]].want = lastId
       /\ sock[slot[i]].cli \in {"dialing", "hello", "ready"}
  /\ \A i, j \in Slots : slot[i] # None /\ slot[i] = slot[j] => i = j
  /\ \A c \in Sockets : sock[c].cli # "closed" =>
       ~closing /\ IF sock[c].role = "attach" THEN c \in Attached ELSE c = primary.ws
  /\ primary.ws # None =>
       ~closing /\ sock[primary.ws].role = "primary" /\ sock[primary.ws].cli # "closed"
  /\ primary.timer => primary.ws = None /\ ~closing
  /\ \A i \in Slots : timer[i] # Unarmed => ~closing /\ timer[i].tid \in TunnelIds
  /\ PrimaryReady => ~disconnected /\ ~primary.promise
  /\ LatchReleased /\ TimersCurrent

\* The primary's session, while there is one, has the id that the client knows.
SameId == PrimaryReady /\ session[primary.ws] # None => session[primary.ws] = lastId

IInv == TypeOK /\ AllGood(sock) /\ ServerSide /\ ClientSide /\ SameId

-----------------------------------------------------------------------------
\* Messages and queues.

LEMMA Messages ==
  /\ \A t \in {"hello", "fin", "refusal", "cut"} : Msg(t) \in Message /\ Msg(t).type = t
  /\ \A t \in TunnelIds : [type |-> "ack", tid |-> t] \in Message
  /\ \A m \in Message : m.type = "ack" => m.tid \in TunnelIds
BY DEF Message, Msg

LEMMA QueueAppend ==
  ASSUME NEW q \in Seq(Message), NEW m \in Message, m.type # "hello"
  PROVE  LET e == Append(q, m)
         IN /\ e \in Seq(Message) /\ Len(e) = Len(q) + 1
            /\ \A i \in 1..Len(q) : e[i] = q[i]
            /\ e[Len(q) + 1] = m
            /\ Unread(e) => Unread(q)
            /\ (\A i \in 1..Len(q) : q[i].type = "hello" => i = 1) =>
                 \A i \in 1..Len(e) : e[i].type = "hello" => i = 1
            /\ m.type # "ack" => Acks(e) \subseteq Acks(q)
            /\ m.type = "ack" => Acks(e) \subseteq Acks(q) \cup {m.tid}
<1>1. PICK e : e = Append(q, m)
  OBVIOUS
<1>2. PICK n : n = Len(q)
  OBVIOUS
<1>3. /\ n \in Nat /\ e \in Seq(Message) /\ Len(e) = n + 1 /\ e[n + 1] = m
      /\ \A i \in 1..n : e[i] = q[i]
  BY <1>1, <1>2, AppendProperties, LenProperties
<1>4. \A i \in 1..Len(e) : i \in 1..n \/ i = n + 1
  BY <1>3
<1>5. Unread(e) => Unread(q)
  BY <1>2, <1>3, <1>4 DEF Unread
<1>6. (\A i \in 1..n : q[i].type = "hello" => i = 1) =>
        \A i \in 1..Len(e) : e[i].type = "hello" => i = 1
  BY <1>3, <1>4
<1>7. m.type # "ack" => Acks(e) \subseteq Acks(q)
  BY <1>2, <1>3, <1>4 DEF Acks
<1>8. m.type = "ack" => Acks(e) \subseteq Acks(q) \cup {m.tid}
  BY <1>2, <1>3, <1>4 DEF Acks
<1> QED BY <1>1, <1>2, <1>3, <1>5, <1>6, <1>7, <1>8

LEMMA QueueTail ==
  ASSUME NEW q \in Seq(Message), q # <<>>
  PROVE  LET e == Tail(q)
         IN /\ e \in Seq(Message) /\ Head(q) \in Message
            /\ Unread(e) => Unread(q)
            /\ Head(q).type = "hello" => Unread(q)
            /\ Head(q).type = "ack" => Head(q).tid \in Acks(q)
            /\ (\A i \in 1..Len(q) : q[i].type = "hello" => i = 1) => ~Unread(e)
            /\ Acks(e) \subseteq Acks(q)
<1>1. PICK e : e = Tail(q)
  OBVIOUS
<1>2. PICK n : n = Len(q)
  OBVIOUS
<1>3. n \in Nat /\ n >= 1 /\ 1 \in 1..n
  BY <1>2, EmptySeq, LenProperties
<1>4. /\ e \in Seq(Message) /\ Len(e) = n - 1
      /\ \A i \in 1..Len(e) : e[i] = q[i + 1]
      /\ Head(q) = q[1] /\ Head(q) \in Message
  BY <1>1, <1>2, <1>3, HeadTailProperties
<1>5. \A i \in 1..Len(e) : i + 1 \in 1..n /\ i + 1 # 1
  BY <1>3, <1>4
<1>6. Unread(e) => Unread(q)
  BY <1>2, <1>4, <1>5 DEF Unread
<1>7. Head(q).type = "hello" => Unread(q)
  BY <1>2, <1>3, <1>4 DEF Unread
<1>8. Head(q).type = "ack" => Head(q).tid \in Acks(q)
  BY <1>2, <1>3, <1>4, Messages DEF Acks
<1>9. (\A i \in 1..n : q[i].type = "hello" => i = 1) => ~Unread(e)
  BY <1>4, <1>5 DEF Unread
<1>10. Acks(e) \subseteq Acks(q)
  BY <1>2, <1>4, <1>5 DEF Acks
<1> QED BY <1>1, <1>2, <1>4, <1>6, <1>7, <1>8, <1>9, <1>10

LEMMA QueueEmpty ==
  /\ <<>> \in Seq(Message) /\ ~Unread(<<>>) /\ Acks(<<>>) = {}
  /\ \A i \in 1..Len(<<>>) : FALSE
<1>1. Len(<<>>) = 0 /\ <<>> \in Seq(Message)
  BY EmptySeq
<1>2. \A i \in 1..Len(<<>>) : FALSE
  BY <1>1
<1> QED BY <1>1, <1>2 DEF Unread, Acks

LEMMA QueueOne ==
  ASSUME NEW m \in Message
  PROVE  LET e == <<m>>
         IN /\ e \in Seq(Message) /\ Head(e) = m /\ e # <<>>
            /\ \A i \in 1..Len(e) : i = 1 /\ e[i] = m
            /\ m.type # "hello" => ~Unread(e)
            /\ m.type # "ack" => Acks(e) = {}
<1>1. PICK e : e = <<m>>
  OBVIOUS
<1>2. e \in Seq(Message) /\ Len(e) = 1 /\ e[1] = m /\ Head(e) = m /\ e # <<>>
  BY <1>1
<1>3. \A i \in 1..Len(e) : i = 1
  BY <1>2
<1> QED BY <1>1, <1>2, <1>3 DEF Unread, Acks

-----------------------------------------------------------------------------
\* Sockets that fade.

Fades(r, r2) ==
  /\ r2 \in Socket /\ SocketGood(r2)
  /\ \/ r2.role = r.role /\ r2.want = r.want
     \/ r2.cli = "closed" /\ r2.role = "none" /\ r2.sess = None
  /\ r2.sess \in {r.sess, None}
  /\ Unread(r2.up) => Unread(r.up)
  /\ Acks(r2.down) \subseteq Acks(r.down)
  /\ r2.cli \in {r.cli, "closed", "dying"}

LEMMA FadesTrans ==
  ASSUME NEW r, NEW r2, NEW r3, Fades(r, r2), Fades(r2, r3),
         r.role = "none" => r.cli = "closed"
  PROVE  Fades(r, r3)
BY DEF Fades, SocketGood

LEMMA FadesSelf ==
  ASSUME NEW r \in Socket, SocketGood(r)
  PROVE  Fades(r, r)
BY DEF Fades

LEMMA BlankGood ==
  /\ Blank \in Socket /\ SocketGood(Blank)
  /\ Blank.role = "none" /\ Blank.want = None /\ Blank.cli = "closed" /\ Blank.srv = "closed"
  /\ Blank.sess = None /\ Blank.up = <<>> /\ Blank.down = <<>>
<1>1. PICK e : e = <<>>
  OBVIOUS
<1>2. e \in Seq(Message) /\ ~Unread(e) /\ \A i \in 1..Len(e) : FALSE
  BY <1>1, QueueEmpty
<1>3. PICK b : b = [role |-> "none", want |-> None, cli |-> "closed", srv |-> "closed",
                    sess |-> None, up |-> e, down |-> e]
  OBVIOUS
<1>4. /\ b.role = "none" /\ b.want = None /\ b.cli = "closed" /\ b.srv = "closed"
      /\ b.sess = None /\ b.up = e /\ b.down = e
  BY <1>3
<1>5. b \in Socket
  BY <1>2, <1>3 DEF Socket
<1>6. SocketGood(b)
  BY <1>1, <1>2, <1>4 DEF SocketGood
<1>7. b = Blank
  BY <1>1, <1>3, Zenon DEF Blank
<1> QED BY <1>1, <1>4, <1>5, <1>6, <1>7

\* What close(), its close event, and the server's close and close event do.
LEMMA EndedFields ==
  ASSUME NEW r \in Socket, SocketGood(r), NEW u,
         u = r.up \/ (r.srv # "closed" /\ u = Append(r.up, Msg("fin")))
  PROVE  LET f == [r EXCEPT !.cli = "closed", !.down = <<>>, !.up = u]
         IN Fades(r, f) /\ f.sess = r.sess /\ f.srv = r.srv /\ f.cli = "closed"
<1>1. PICK e : e = <<>>
  OBVIOUS
<1>2. PICK f : f = [r EXCEPT !.cli = "closed", !.down = e, !.up = u]
  OBVIOUS
<1>3. r.up \in Seq(Message) /\ e \in Seq(Message) /\ Acks(e) = {}
  BY <1>1, QueueEmpty DEF Socket
<1>4. /\ u \in Seq(Message) /\ (Unread(u) => Unread(r.up))
      /\ \A i \in 1..Len(u) : u[i].type = "hello" => i = 1
  <2>1. CASE u = r.up
    BY <1>3, <2>1 DEF SocketGood
  <2>2. CASE u = Append(r.up, Msg("fin"))
    <3>1. PICK m : m = Msg("fin")
      OBVIOUS
    <3>2. m \in Message /\ m.type = "fin"
      BY <3>1, Messages
    <3>3. \A i \in 1..Len(r.up) : r.up[i].type = "hello" => i = 1
      BY DEF SocketGood
    <3> QED BY <1>3, <2>2, <3>1, <3>2, <3>3, QueueAppend
  <2> QED BY <2>1, <2>2
<1>5. /\ f.cli = "closed" /\ f.down = e /\ f.up = u /\ f.role = r.role /\ f.want = r.want
      /\ f.srv = r.srv /\ f.sess = r.sess /\ f \in Socket
  BY <1>2, <1>3, <1>4 DEF Socket
<1>6. SocketGood(f)
  BY <1>3, <1>4, <1>5 DEF SocketGood
<1>7. Fades(r, f)
  BY <1>3, <1>4, <1>5, <1>6 DEF Fades
<1> QED BY <1>1, <1>2, <1>5, <1>7

LEMMA ClosingFields ==
  ASSUME NEW r \in Socket, SocketGood(r), r.srv \in {"prehello", "joined"},
         NEW d, d = r.down \/ \E m \in {"fin", "refusal"} : d = Append(r.down, Msg(m))
  PROVE  LET f == [r EXCEPT !.srv = "closing", !.down = d]
         IN Fades(r, f) /\ f.sess = r.sess /\ f.cli = r.cli /\ f.srv = "closing"
            /\ f.role = r.role /\ f.want = r.want /\ f.up = r.up
<1>1. PICK f : f = [r EXCEPT !.srv = "closing", !.down = d]
  OBVIOUS
<1>2. r.down \in Seq(Message)
  BY DEF Socket
<1>3. d \in Seq(Message) /\ Acks(d) \subseteq Acks(r.down)
  <2>1. CASE d = r.down
    BY <1>2, <2>1
  <2>2. ASSUME NEW m \in {"fin", "refusal"}, d = Append(r.down, Msg(m))
        PROVE  d \in Seq(Message) /\ Acks(d) \subseteq Acks(r.down)
    <3>1. PICK x : x = Msg(m)
      OBVIOUS
    <3>2. x \in Message /\ x.type \notin {"hello", "ack"}
      BY <3>1, Messages
    <3> QED BY <1>2, <2>2, <3>1, <3>2, QueueAppend
  <2> QED BY <2>1, <2>2
<1>4. /\ f.srv = "closing" /\ f.down = d /\ f.up = r.up /\ f.role = r.role
      /\ f.want = r.want /\ f.cli = r.cli /\ f.sess = r.sess /\ f \in Socket
  BY <1>1, <1>3 DEF Socket
<1>5. SocketGood(f)
  BY <1>3, <1>4 DEF SocketGood
<1>6. Fades(r, f)
  BY <1>3, <1>4, <1>5 DEF Fades
<1> QED BY <1>1, <1>4, <1>6

LEMMA GoneFields ==
  ASSUME NEW r \in Socket, SocketGood(r), r.srv # "closed", NEW d,
         d = r.down \/ d = Append(r.down, Msg("fin"))
  PROVE  LET f == [r EXCEPT !.srv = "closed", !.sess = None, !.up = <<>>, !.down = d]
         IN Fades(r, f) /\ f.sess = None /\ f.cli = r.cli
<1>1. PICK e : e = <<>>
  OBVIOUS
<1>2. e \in Seq(Message) /\ ~Unread(e) /\ \A i \in 1..Len(e) : FALSE
  BY <1>1, QueueEmpty
<1>3. PICK g : g = [r EXCEPT !.srv = "closed", !.sess = None]
  OBVIOUS
<1>4. /\ g.srv = "closed" /\ g.sess = None /\ g.up = r.up /\ g.down = r.down
      /\ g.role = r.role /\ g.want = r.want /\ g.cli = r.cli /\ g \in Socket
  BY <1>3 DEF Socket
<1>5. r.down \in Seq(Message)
  BY DEF Socket
<1>6. d \in Seq(Message) /\ Acks(d) \subseteq Acks(r.down)
  <2>1. PICK x : x = Msg("fin")
    OBVIOUS
  <2>2. x \in Message /\ x.type = "fin"
    BY <2>1, Messages
  <2>3. PICK a : a = Append(r.down, x)
    OBVIOUS
  <2>4. a \in Seq(Message) /\ Acks(a) \subseteq Acks(r.down)
    BY <1>5, <2>2, <2>3, QueueAppend
  <2> QED BY <1>5, <2>1, <2>3, <2>4
<1>7. PICK f : f = [g EXCEPT !.up = e, !.down = d]
  OBVIOUS
<1>8. /\ f.srv = "closed" /\ f.sess = None /\ f.up = e /\ f.down = d
      /\ f.role = r.role /\ f.want = r.want /\ f.cli = r.cli /\ f \in Socket
  BY <1>2, <1>4, <1>6, <1>7 DEF Socket
<1>9. f = [r EXCEPT !.srv = "closed", !.sess = None, !.up = <<>>, !.down = d]
  BY <1>1, <1>3, <1>7
<1>10. r.cli # "dialing"
  BY DEF SocketGood
<1>11. SocketGood(f)
  BY <1>1, <1>2, <1>8, <1>10 DEF SocketGood
<1>12. Fades(r, f)
  BY <1>2, <1>6, <1>8, <1>11 DEF Fades
<1> QED BY <1>8, <1>9, <1>12

\* A step lets all sockets fade.
AllFade(S, T) ==
  T \in [Sockets -> Socket] /\ \A c \in Sockets : Fades(S[c], T[c])

LEMMA FadeGood ==
  ASSUME NEW S, NEW T, AllFade(S, T)
  PROVE  AllGood(T)
BY DEF AllFade, AllGood, Fades

LEMMA FadeTrans ==
  ASSUME NEW S, NEW T, NEW U, AllGood(S), AllFade(S, T), AllFade(T, U)
  PROVE  AllFade(S, U)
<1> SUFFICES ASSUME NEW c \in Sockets PROVE Fades(S[c], U[c])
  BY DEF AllFade
<1>1. Fades(S[c], T[c]) /\ Fades(T[c], U[c]) /\ (S[c].role = "none" => S[c].cli = "closed")
  BY DEF AllFade, AllGood, SocketGood
<1> QED BY <1>1, FadesTrans

LEMMA SweptSpec ==
  ASSUME NEW S, AllGood(S)
  PROVE  /\ AllFade(S, Swept(S))
         /\ \A c \in Sockets :
              /\ Swept(S)[c].sess = S[c].sess /\ Swept(S)[c].cli = S[c].cli
              /\ S[c].cli # "closed" => Swept(S)[c] = S[c]
<1>1. PICK T : T = Swept(S)
  OBVIOUS
<1>2. PICK b : b = Blank
  OBVIOUS
<1>3. T = [c \in Sockets |-> IF S[c].cli = "closed" /\ S[c].srv = "closed" THEN b ELSE S[c]]
  BY <1>1, <1>2 DEF Swept
<1>4. b \in Socket /\ SocketGood(b) /\ b.role = "none" /\ b.cli = "closed" /\ b.sess = None
      /\ ~Unread(b.up) /\ Acks(b.down) = {}
  BY <1>2, BlankGood, QueueEmpty
<1>5. ASSUME NEW c \in Sockets
      PROVE  /\ T[c] \in Socket /\ Fades(S[c], T[c]) /\ T[c].sess = S[c].sess
             /\ T[c].cli = S[c].cli
             /\ S[c].cli # "closed" => T[c] = S[c]
  <2>1. S[c] \in Socket /\ SocketGood(S[c])
    BY DEF AllGood
  <2>2. CASE S[c].cli = "closed" /\ S[c].srv = "closed"
    <3>1. T[c] = b /\ S[c].sess = None
      BY <1>3, <2>1, <2>2 DEF SocketGood
    <3>2. Fades(S[c], b)
      BY <1>4, <2>2 DEF Fades
    <3> QED BY <1>4, <2>2, <3>1, <3>2
  <2>3. CASE ~(S[c].cli = "closed" /\ S[c].srv = "closed")
    <3>1. T[c] = S[c]
      BY <1>3, <2>3
    <3> QED BY <2>1, <3>1, FadesSelf
  <2> QED BY <2>2, <2>3
<1>6. T \in [Sockets -> Socket]
  BY <1>3, <1>5
<1> QED BY <1>1, <1>5, <1>6 DEF AllFade

LEMMA ClientEndsSpec ==
  ASSUME NEW S, AllGood(S), NEW C
  PROVE  /\ AllFade(S, ClientEnds(S, C))
         /\ \A c \in Sockets :
              /\ ClientEnds(S, C)[c].sess = S[c].sess
              /\ c \in C => ClientEnds(S, C)[c].cli = "closed"
              /\ c \notin C => ClientEnds(S, C)[c].cli = S[c].cli
              /\ c \notin C /\ S[c].cli # "closed" => ClientEnds(S, C)[c] = S[c]
<1>1. PICK T : T = [c \in Sockets |->
        IF c \notin C \/ S[c].cli = "closed" THEN S[c]
        ELSE [S[c] EXCEPT !.cli = "closed", !.down = <<>>,
                !.up = IF S[c].srv = "closed" \/ Cut(S, c)
                          \/ Msg("fin") \in {@[i] : i \in DOMAIN @}
                       THEN @ ELSE Append(@, Msg("fin"))]]
  OBVIOUS
<1>2. ClientEnds(S, C) = Swept(T)
  BY <1>1 DEF ClientEnds
<1>3. ASSUME NEW c \in Sockets
      PROVE  /\ T[c] \in Socket /\ Fades(S[c], T[c]) /\ T[c].sess = S[c].sess
             /\ c \in C => T[c].cli = "closed"
             /\ c \notin C => T[c] = S[c]
  <2>1. S[c] \in Socket /\ SocketGood(S[c])
    BY DEF AllGood
  <2>2. CASE c \notin C \/ S[c].cli = "closed"
    <3>1. T[c] = S[c]
      BY <1>1, <2>2
    <3> QED BY <2>1, <2>2, <3>1, FadesSelf
  <2>3. CASE ~(c \notin C \/ S[c].cli = "closed")
    <3>1. PICK u : u = IF S[c].srv = "closed" \/ Cut(S, c)
                          \/ Msg("fin") \in {S[c].up[i] : i \in DOMAIN S[c].up}
                       THEN S[c].up ELSE Append(S[c].up, Msg("fin"))
      OBVIOUS
    <3>2. T[c] = [S[c] EXCEPT !.cli = "closed", !.down = <<>>, !.up = u]
      BY <1>1, <2>3, <3>1
    <3>3. u = S[c].up \/ (S[c].srv # "closed" /\ u = Append(S[c].up, Msg("fin")))
      BY <3>1
    <3>4. PICK r \in Socket : r = S[c] /\ SocketGood(r)
      BY <2>1
    <3>5. PICK f : f = [r EXCEPT !.cli = "closed", !.down = <<>>, !.up = u]
      OBVIOUS
    <3>6. Fades(r, f) /\ f.sess = r.sess /\ f.cli = "closed"
      BY <3>3, <3>4, <3>5, EndedFields
    <3>7. T[c] = f
      BY <3>2, <3>4, <3>5
    <3> QED BY <2>3, <3>4, <3>6, <3>7 DEF Fades
  <2> QED BY <2>2, <2>3
<1>4. AllFade(S, T)
  BY <1>1, <1>3 DEF AllFade
<1>5. AllGood(T)
  BY <1>4, FadeGood
<1>6. /\ AllFade(T, Swept(T))
      /\ \A c \in Sockets :
           /\ Swept(T)[c].sess = T[c].sess /\ Swept(T)[c].cli = T[c].cli
           /\ T[c].cli # "closed" => Swept(T)[c] = T[c]
  BY <1>5, SweptSpec
<1>7. AllFade(S, Swept(T))
  BY <1>4, <1>6, FadeTrans
<1> QED BY <1>2, <1>3, <1>6, <1>7

LEMMA ServerClosesSpec ==
  ASSUME NEW S, AllGood(S), NEW C, NEW m \in {"fin", "refusal"}
  PROVE  /\ AllFade(S, ServerCloses(S, C, m))
         /\ \A c \in Sockets :
              /\ ServerCloses(S, C, m)[c].sess = S[c].sess
              /\ ServerCloses(S, C, m)[c].cli = S[c].cli
              /\ ServerCloses(S, C, m)[c].role = S[c].role
              /\ ServerCloses(S, C, m)[c].want = S[c].want
<1>1. PICK T : T = ServerCloses(S, C, m)
  OBVIOUS
<1>2. T = [c \in Sockets |->
             IF c \notin C \/ S[c].srv \notin {"prehello", "joined"} THEN S[c]
             ELSE [S[c] EXCEPT !.srv = "closing",
                     !.down = IF S[c].cli = "closed" THEN @ ELSE Append(@, Msg(m))]]
  BY <1>1 DEF ServerCloses
<1>3. ASSUME NEW c \in Sockets
      PROVE  /\ T[c] \in Socket /\ Fades(S[c], T[c]) /\ T[c].sess = S[c].sess
             /\ T[c].cli = S[c].cli /\ T[c].role = S[c].role /\ T[c].want = S[c].want
  <2>1. S[c] \in Socket /\ SocketGood(S[c])
    BY DEF AllGood
  <2>2. CASE c \notin C \/ S[c].srv \notin {"prehello", "joined"}
    <3>1. T[c] = S[c]
      BY <1>2, <2>2
    <3> QED BY <2>1, <3>1, FadesSelf
  <2>3. CASE ~(c \notin C \/ S[c].srv \notin {"prehello", "joined"})
    <3>1. PICK d : d = IF S[c].cli = "closed" THEN S[c].down ELSE Append(S[c].down, Msg(m))
      OBVIOUS
    <3>2. T[c] = [S[c] EXCEPT !.srv = "closing", !.down = d]
      BY <1>2, <2>3, <3>1
    <3>3. PICK r \in Socket : r = S[c] /\ SocketGood(r)
      BY <2>1
    <3>4. PICK f : f = [r EXCEPT !.srv = "closing", !.down = d]
      OBVIOUS
    <3>5. /\ r.srv \in {"prehello", "joined"}
          /\ d = r.down \/ \E x \in {"fin", "refusal"} : d = Append(r.down, Msg(x))
      BY <2>3, <3>1, <3>3
    <3>6. /\ Fades(r, f) /\ f.sess = r.sess /\ f.cli = r.cli
          /\ f.role = r.role /\ f.want = r.want
      BY <3>3, <3>4, <3>5, ClosingFields
    <3>7. T[c] = f
      BY <3>2, <3>3, <3>4
    <3> QED BY <3>3, <3>6, <3>7 DEF Fades
  <2> QED BY <2>2, <2>3
<1>4. AllFade(S, T)
  BY <1>2, <1>3 DEF AllFade
<1> QED BY <1>1, <1>3, <1>4

LEMMA ServerEndsSpec ==
  ASSUME NEW S, AllGood(S), NEW c \in Sockets, S[c].srv # "closed"
  PROVE  /\ AllFade(S, ServerEnds(S, c))
         /\ \A d \in Sockets : /\ ServerEnds(S, c)[d].cli = S[d].cli
                               /\ ServerEnds(S, c)[d].sess = IF d = c THEN None ELSE S[d].sess
<1>1. PICK x : x = IF S[c].srv = "closing" \/ S[c].cli = "closed"
                   THEN S[c].down ELSE Append(S[c].down, Msg("fin"))
  OBVIOUS
<1>2. PICK f : f = [S[c] EXCEPT !.srv = "closed", !.sess = None, !.up = <<>>, !.down = x]
  OBVIOUS
<1>3. PICK T : T = [S EXCEPT ![c] = f]
  OBVIOUS
<1>4. ServerEnds(S, c) = Swept(T)
  <2>1. [S EXCEPT ![c].srv = "closed", ![c].sess = None, ![c].up = <<>>,
           ![c].down = IF S[c].srv = "closing" \/ S[c].cli = "closed"
                       THEN @ ELSE Append(@, Msg("fin"))] = T
    BY <1>1, <1>2, <1>3 DEF AllGood
  <2> QED BY <2>1 DEF ServerEnds
<1>5. S \in [Sockets -> Socket] /\ S[c] \in Socket /\ SocketGood(S[c])
  BY DEF AllGood
<1>6. Fades(S[c], f) /\ f.sess = None /\ f.cli = S[c].cli
  BY <1>1, <1>2, <1>5, GoneFields, ZenonT(60)
<1>7. \A d \in Sockets : T[d] = IF d = c THEN f ELSE S[d]
  BY <1>3, <1>5
<1>8. AllFade(S, T)
  <2>1. f \in Socket
    BY <1>6 DEF Fades
  <2>2. T \in [Sockets -> Socket]
    BY <1>3, <1>5, <2>1
  <2>3. \A d \in Sockets : Fades(S[d], S[d])
    BY FadesSelf DEF AllGood
  <2> QED BY <1>6, <1>7, <2>2, <2>3 DEF AllFade
<1>9. AllGood(T)
  BY <1>8, FadeGood
<1>10. /\ AllFade(T, Swept(T))
       /\ \A d \in Sockets : Swept(T)[d].sess = T[d].sess /\ Swept(T)[d].cli = T[d].cli
  BY <1>9, SweptSpec
<1>11. AllFade(S, Swept(T))
  BY <1>8, <1>10, FadeTrans
<1> QED BY <1>4, <1>6, <1>7, <1>10, <1>11

LEMMA TerminateSpec ==
  ASSUME NEW S, AllGood(S), NEW c \in Sockets \cup {None}
  PROVE  /\ AllFade(S, Terminate(S, c))
         /\ \A d \in Sockets :
              /\ Terminate(S, c)[d].sess = S[d].sess
              /\ Terminate(S, c)[d].role = S[d].role
              /\ d # c => Terminate(S, c)[d] = S[d]
              /\ Terminate(S, c)[d].cli = "closed" <=> S[d].cli = "closed"
         /\ c # None => Terminate(S, c)[c].cli \in {"closed", "dying"}
<1>0. None \notin Sockets
  BY DEF None, Sockets
<1>1. S \in [Sockets -> Socket] /\ \A d \in Sockets : S[d] \in Socket /\ SocketGood(S[d])
  BY DEF AllGood
<1>2. \A d \in Sockets : Fades(S[d], S[d])
  BY <1>1, FadesSelf
<1>3. CASE c # None /\ S[c].cli \in {"dialing", "hello", "ready"}
  <2>1. c \in Sockets
    BY <1>3
  <2>2. PICK f : f = [S[c] EXCEPT !.cli = "dying"]
    OBVIOUS
  <2>3. Terminate(S, c) = [S EXCEPT ![c] = f]
    BY <1>3, <2>2 DEF Terminate
  <2>4. /\ f \in Socket /\ f.cli = "dying" /\ f.sess = S[c].sess /\ f.role = S[c].role
        /\ f.want = S[c].want /\ f.srv = S[c].srv /\ f.up = S[c].up /\ f.down = S[c].down
    BY <1>1, <2>1, <2>2 DEF Socket
  <2>5. SocketGood(f)
    BY <1>1, <1>3, <2>1, <2>4 DEF SocketGood
  <2>6. Fades(S[c], f)
    BY <2>4, <2>5 DEF Fades
  <2>7. PICK T : T = [S EXCEPT ![c] = f]
    OBVIOUS
  <2>8. T \in [Sockets -> Socket] /\ \A d \in Sockets : T[d] = IF d = c THEN f ELSE S[d]
    BY <1>1, <2>4, <2>7
  <2>9. AllFade(S, T)
    BY <1>2, <2>6, <2>8 DEF AllFade
  <2> QED BY <1>3, <2>1, <2>3, <2>4, <2>7, <2>8, <2>9
<1>4. CASE ~(c # None /\ S[c].cli \in {"dialing", "hello", "ready"})
  <2>1. Terminate(S, c) = S
    BY <1>4 DEF Terminate
  <2>2. c # None => S[c].cli \in {"closed", "dying"}
    BY <1>1, <1>4 DEF Socket
  <2>3. AllFade(S, S)
    BY <1>1, <1>2 DEF AllFade
  <2> QED BY <2>1, <2>2, <2>3
<1> QED BY <1>3, <1>4

-----------------------------------------------------------------------------
\* Steps that let sockets fade.

LEMMA LegsFinite ==
  ASSUME NEW s
  PROVE  IsFiniteSet(LegsOf(s)) /\ Cardinality(LegsOf(s)) \in Nat
<1>1. IsFiniteSet(Sockets)
  BY FS_Interval DEF Sockets
<1>2. LegsOf(s) \in SUBSET Sockets
  BY DEF LegsOf
<1> QED BY <1>1, <1>2, FS_Subset, FS_CardinalityType

\* Sessions end, and no socket leaves a session that lives.
LEMMA ServerFades ==
  ASSUME TypeOK, AllGood(sock), ServerSide, AllFade(sock, sock'), SessionsExclusive',
         \A s \in Sockets : /\ session'[s] \in {session[s], None}
                            /\ session'[s] # None => sock'[s].sess = sock[s].sess
  PROVE  ServerSide'
<1>0. None \notin Sockets
  BY DEF None, Sockets
<1>1. \A c \in Sockets : Fades(sock[c], sock'[c]) /\ sock[c].sess \in Sockets \cup {None}
  BY DEF AllFade, TypeOK, Socket
<1>2. \A c \in Sockets : sock'[c].sess # None =>
        /\ sock'[c].sess = sock[c].sess /\ sock[c].sess \in Sockets
        /\ sock'[c].role = sock[c].role /\ sock'[c].want = sock[c].want
  BY <1>1 DEF Fades
<1>3. \A c \in Sockets : /\ Unread(sock'[c].up) => Unread(sock[c].up)
                         /\ Acks(sock'[c].down) \subseteq Acks(sock[c].down)
                         /\ sock'[c].cli = "dialing" => sock[c].cli = "dialing"
  BY <1>1 DEF Fades
<1>4. ASSUME NEW s \in Sockets, session'[s] # None
      PROVE  /\ sock'[s].sess = s /\ sock'[s].role = "primary"
             /\ Acks(sock'[s].down) \subseteq {session'[s]}
             /\ Cardinality(LegsOf(s)') <= MaxLegs
  <2>1. /\ session[s] = session'[s] /\ sock[s].sess = s /\ sock[s].role = "primary"
        /\ Acks(sock[s].down) \subseteq {session[s]} /\ Cardinality(LegsOf(s)) <= MaxLegs
    BY <1>4 DEF ServerSide
  <2>2. sock'[s].sess = s /\ sock'[s].role = "primary"
    BY <1>0, <1>2, <1>4, <2>1
  <2>3. LegsOf(s)' \in SUBSET LegsOf(s)
    BY <1>0, <1>2 DEF LegsOf
  <2>4. /\ Cardinality(LegsOf(s)') \in Nat /\ Cardinality(LegsOf(s)) \in Nat
        /\ Cardinality(LegsOf(s)') <= Cardinality(LegsOf(s))
    BY <2>3, LegsFinite, FS_Subset, FS_CardinalityType
  <2>5. MaxLegs \in Nat
    BY DEF MaxLegs
  <2>6. Cardinality(LegsOf(s)') <= MaxLegs
    BY <2>1, <2>4, <2>5
  <2> QED BY <1>3, <2>1, <2>2, <2>6
<1>5. ASSUME NEW c \in Sockets, sock'[c].sess # None
      PROVE  /\ ~Unread(sock'[sock'[c].sess].up) /\ sock'[sock'[c].sess].cli # "dialing"
             /\ sock'[c].role = "primary" => sock'[c].sess = c
             /\ sock'[c].role = "attach" /\ session'[sock'[c].sess] # None =>
                  session'[sock'[c].sess] = sock'[c].want
  <2>1. PICK s \in Sockets : s = sock[c].sess /\ sock'[c].sess = s
    BY <1>2, <1>5
  <2>2. /\ ~Unread(sock[s].up) /\ sock[s].cli # "dialing"
        /\ sock[c].role = "primary" => s = c
        /\ sock[c].role = "attach" /\ session[s] # None => session[s] = sock[c].want
    BY <1>0, <2>1 DEF ServerSide
  <2>3. ~Unread(sock'[s].up) /\ sock'[s].cli # "dialing"
    BY <1>3, <2>2
  <2>4. sock'[c].role = sock[c].role /\ sock'[c].want = sock[c].want
    BY <1>2, <1>5
  <2> QED BY <2>1, <2>2, <2>3, <2>4
<1> QED BY <1>4, <1>5 DEF ServerSide

\* The client's tables say the same of sockets that stay open.
LEMMA ClientSame ==
  ASSUME ClientSide, TypeOK, UNCHANGED client, PrimaryReady' <=> PrimaryReady,
         \A c \in Sockets :
           /\ sock'[c].cli = "closed" <=> sock[c].cli = "closed"
           /\ sock[c].cli # "closed" =>
                sock'[c].role = sock[c].role /\ sock'[c].want = sock[c].want
           /\ sock[c].cli \in {"dialing", "hello", "ready"} =>
                sock'[c].cli \in {"dialing", "hello", "ready"}
  PROVE  ClientSide'
<1>0. None \notin Sockets
  BY DEF None, Sockets
<1>1. UNCHANGED <<primary, lastId, disconnected, rebuilding, generation, closing, slot, attempt,
                  timer>>
  BY DEF client, groupVars, slotVars
<1>2. /\ primary.ws \in Sockets \cup {None} /\ \A i \in Slots : slot[i] \in Sockets \cup {None}
  BY DEF TypeOK
<1>4. ASSUME NEW i \in Slots, slot'[i] # None, ~closing'
      PROVE  /\ PrimaryReady'
             /\ sock'[slot'[i]].role = "attach" /\ sock'[slot'[i]].want = lastId'
             /\ sock'[slot'[i]].cli \in {"dialing", "hello", "ready"}
  <2>1. PICK c \in Sockets : c = slot[i] /\ slot'[i] = c
    BY <1>1, <1>2, <1>4
  <2>2. /\ PrimaryReady /\ sock[c].role = "attach" /\ sock[c].want = lastId
        /\ sock[c].cli \in {"dialing", "hello", "ready"}
    BY <1>1, <1>4, <2>1 DEF ClientSide
  <2>3. sock'[c].role = "attach" /\ sock'[c].want = lastId'
        /\ sock'[c].cli \in {"dialing", "hello", "ready"}
    BY <1>1, <2>2
  <2> QED BY <2>1, <2>2, <2>3
<1>5. ASSUME NEW c \in Sockets, sock'[c].cli # "closed"
      PROVE  ~closing' /\ IF sock'[c].role = "attach" THEN c \in Attached' ELSE c = primary'.ws
  BY <1>1, <1>5 DEF ClientSide, Attached
<1>6. primary'.ws # None =>
        ~closing' /\ sock'[primary'.ws].role = "primary" /\ sock'[primary'.ws].cli # "closed"
  BY <1>1, <1>2 DEF ClientSide
<1>7. /\ LatchReleased' /\ TimersCurrent'
      /\ PrimaryReady' => ~disconnected' /\ ~primary'.promise
  BY <1>1 DEF ClientSide, LatchReleased, TimersCurrent
<1>8. /\ \A i, j \in Slots : slot'[i] # None /\ slot'[i] = slot'[j] => i = j
      /\ primary'.timer => primary'.ws = None /\ ~closing'
      /\ \A i \in Slots : timer'[i] # Unarmed => ~closing' /\ timer'[i].tid \in TunnelIds
  BY <1>1 DEF ClientSide
<1> QED BY <1>4, <1>5, <1>6, <1>7, <1>8 DEF ClientSide

\* The client has not touched its ends of the sockets.
LEMMA ClientStays ==
  ASSUME ClientSide, TypeOK, UNCHANGED client,
         \A c \in Sockets : /\ sock'[c].cli = sock[c].cli
                            /\ sock[c].cli # "closed" =>
                                 sock'[c].role = sock[c].role /\ sock'[c].want = sock[c].want
  PROVE  ClientSide' /\ (PrimaryReady' <=> PrimaryReady)
<1>1. primary' = primary /\ primary.ws \in Sockets \cup {None}
  BY DEF client, TypeOK
<1>2. PrimaryReady' <=> PrimaryReady
  BY <1>1 DEF PrimaryReady, Ready
<1> QED BY <1>2, ClientSame

\* A step of the server or the network that lets sockets fade.
LEMMA ServerFadeStep ==
  ASSUME IInv, AllFade(sock, sock'), \A c \in Sockets : sock'[c].cli = sock[c].cli,
         UNCHANGED client, faults' \in 0..MaxFaults, SessionsExclusive',
         session' \in [Sockets -> TunnelIds \cup {None}],
         registry' \in [TunnelIds -> Sockets \cup {None}],
         \A s \in Sockets : /\ session'[s] \in {session[s], None}
                            /\ session'[s] # None => sock'[s].sess = sock[s].sess
  PROVE  IInv'
<1>1. TypeOK /\ AllGood(sock) /\ ServerSide /\ ClientSide /\ SameId
  BY DEF IInv
<1>2. AllGood(sock)'
  BY FadeGood DEF AllGood, AllFade, Fades
<1>3. ServerSide'
  BY <1>1, ServerFades
<1>4. \A c \in Sockets : sock[c].cli # "closed" =>
        sock'[c].role = sock[c].role /\ sock'[c].want = sock[c].want
  BY DEF AllFade, Fades
<1>5. ClientSide' /\ (PrimaryReady' <=> PrimaryReady)
  BY <1>1, <1>4, ClientStays
<1>6. UNCHANGED <<primary, lastId, disconnected, rebuilding, generation, closing, slot, attempt,
                  timer>>
  BY DEF client, groupVars, slotVars
<1>7. TypeOK'
  BY <1>1, <1>2, <1>6 DEF TypeOK, AllGood
<1>8. SameId'
  <2>1. PrimaryReady => primary.ws \in Sockets
    BY <1>1 DEF TypeOK, PrimaryReady, Ready
  <2> QED BY <1>1, <1>5, <1>6, <2>1 DEF SameId
<1> QED BY <1>2, <1>3, <1>5, <1>7, <1>8 DEF IInv

-----------------------------------------------------------------------------
\* Steps of the server and of the network.

LEMMA ReadSpec ==
  ASSUME AllGood(sock), NEW c \in Sockets, sock[c].up # <<>>
  PROVE  /\ AllFade(sock, Read(c)) /\ sock[c].srv # "closed"
         /\ \A d \in Sockets \ {c} : Read(c)[d] = sock[d]
         /\ Read(c)[c].cli = sock[c].cli /\ Read(c)[c].role = sock[c].role
         /\ Read(c)[c].want = sock[c].want /\ Read(c)[c].sess = sock[c].sess
         /\ Read(c)[c].srv = sock[c].srv /\ Read(c)[c].down = sock[c].down
         /\ ~Unread(Read(c)[c].up)
<1>1. sock \in [Sockets -> Socket] /\ \A d \in Sockets : sock[d] \in Socket /\ SocketGood(sock[d])
  BY DEF AllGood
<1>2. PICK q : q = Tail(sock[c].up)
  OBVIOUS
<1>3. \A i \in 1..Len(sock[c].up) : sock[c].up[i].type = "hello" => i = 1
  BY <1>1 DEF SocketGood
<1>4. q \in Seq(Message) /\ ~Unread(q)
  <2>1. sock[c].up \in Seq(Message)
    BY <1>1 DEF Socket
  <2> QED BY <1>2, <1>3, <2>1, QueueTail
<1>5. PICK f : f = [sock[c] EXCEPT !.up = q]
  OBVIOUS
<1>6. /\ f \in Socket /\ f.cli = sock[c].cli /\ f.role = sock[c].role /\ f.want = sock[c].want
      /\ f.sess = sock[c].sess /\ f.srv = sock[c].srv /\ f.down = sock[c].down /\ f.up = q
  BY <1>1, <1>4, <1>5 DEF Socket
<1>7. sock[c].srv # "closed" /\ f.cli # "dialing"
  BY <1>1, <1>6 DEF SocketGood
<1>8. SocketGood(f)
  <2>1. \A i \in 1..Len(q) : q[i].type # "hello"
    BY <1>4 DEF Unread
  <2> QED BY <1>1, <1>4, <1>6, <1>7, <2>1 DEF SocketGood
<1>9. Fades(sock[c], f)
  BY <1>4, <1>6, <1>8 DEF Fades
<1>10. PICK T : T = [sock EXCEPT ![c] = f]
  OBVIOUS
<1>11. T \in [Sockets -> Socket] /\ \A d \in Sockets : T[d] = IF d = c THEN f ELSE sock[d]
  BY <1>1, <1>6, <1>10
<1>12. Read(c) = T
  BY <1>1, <1>2, <1>5, <1>10 DEF Read
<1>13. AllFade(sock, T)
  BY <1>1, <1>9, <1>11, FadesSelf DEF AllFade
<1> QED BY <1>4, <1>6, <1>7, <1>11, <1>12, <1>13

LEMMA TeardownKeeps ==
  ASSUME IInv, NEW S, AllFade(sock, S), \A c \in Sockets : S[c].cli = sock[c].cli,
         NEW s \in Sockets, session[s] # None, Teardown(S, s),
         \A d \in Sockets \ {s} : session[d] # None => S[d].sess = sock[d].sess,
         UNCHANGED client, faults' \in 0..MaxFaults
  PROVE  IInv'
<1>0. None \notin Sockets /\ None \notin TunnelIds
  BY DEF None, Sockets, TunnelIds
<1>1. /\ AllGood(sock) /\ SessionsExclusive /\ session \in [Sockets -> TunnelIds \cup {None}]
      /\ registry \in [TunnelIds -> Sockets \cup {None}]
  BY DEF IInv, ServerSide, TypeOK
<1>2. PICK T : T = ServerCloses(S, {c \in Sockets : S[c].sess = s}, "fin")
  OBVIOUS
<1>3. AllFade(S, T) /\ \A c \in Sockets : T[c].sess = S[c].sess /\ T[c].cli = S[c].cli
  BY <1>2, FadeGood, ServerClosesSpec
<1>4. AllFade(T, Swept(T))
      /\ \A c \in Sockets : Swept(T)[c].sess = T[c].sess /\ Swept(T)[c].cli = T[c].cli
  BY <1>3, FadeGood, SweptSpec
<1>5. sock' = Swept(T)
  BY <1>2 DEF Teardown
<1>6. AllFade(sock, sock')
  <2>1. AllFade(sock, T)
    BY <1>1, <1>3, FadeTrans
  <2> QED BY <1>1, <1>4, <1>5, <2>1, FadeTrans
<1>7. \A c \in Sockets : sock'[c].cli = sock[c].cli /\ sock'[c].sess = S[c].sess
  BY <1>3, <1>4, <1>5
<1>8. PICK t \in TunnelIds : t = session[s] /\ registry[t] = s
  BY <1>1 DEF SessionsExclusive
<1>9. /\ session' = [session EXCEPT ![s] = None]
      /\ registry' = [u \in TunnelIds |-> IF u = t /\ registry[u] = s THEN None ELSE registry[u]]
  BY <1>8 DEF Teardown
<1>10. session' \in [Sockets -> TunnelIds \cup {None}] /\ registry' \in [TunnelIds -> Sockets \cup {None}]
  BY <1>1, <1>9
<1>11. \A d \in Sockets : session'[d] = IF d = s THEN None ELSE session[d]
  BY <1>1, <1>9
<1>12. \A u \in TunnelIds : registry'[u] = IF u = t THEN None ELSE registry[u]
  BY <1>8, <1>9
<1>13. SessionsExclusive'
  <2>1. ASSUME NEW d \in Sockets, session'[d] # None
        PROVE  registry'[session'[d]] = d
    <3>1. d # s /\ session'[d] = session[d] /\ session[d] \in TunnelIds
      BY <1>1, <1>11, <2>1
    <3>2. registry[session[d]] = d
      BY <1>1, <2>1, <3>1 DEF SessionsExclusive
    <3>3. session[d] # t
      BY <1>8, <3>1, <3>2
    <3> QED BY <1>12, <3>1, <3>2, <3>3
  <2>2. ASSUME NEW u \in TunnelIds, registry'[u] # None
        PROVE  session'[registry'[u]] = u
    <3>1. u # t /\ registry'[u] = registry[u] /\ registry[u] \in Sockets
      BY <1>1, <1>12, <2>2
    <3>2. session[registry[u]] = u
      BY <1>1, <2>2, <3>1 DEF SessionsExclusive
    <3>3. registry[u] # s
      BY <1>8, <3>1, <3>2
    <3> QED BY <1>11, <3>1, <3>2, <3>3
  <2> QED BY <2>1, <2>2 DEF SessionsExclusive
<1>14. \A d \in Sockets : /\ session'[d] \in {session[d], None}
                          /\ session'[d] # None => sock'[d].sess = sock[d].sess
  BY <1>7, <1>11
<1> QED BY <1>6, <1>7, <1>10, <1>13, <1>14, ServerFadeStep

LEMMA UnchangedServer ==
  ASSUME IInv, UNCHANGED server
  PROVE  /\ SessionsExclusive'
         /\ session' \in [Sockets -> TunnelIds \cup {None}]
         /\ registry' \in [TunnelIds -> Sockets \cup {None}]
         /\ \A s \in Sockets : session'[s] \in {session[s], None} /\ session'[s] = session[s]
         /\ faults \in 0..MaxFaults /\ ServerSide /\ AllGood(sock) /\ TypeOK
BY DEF IInv, ServerSide, TypeOK, SessionsExclusive, server

LEMMA FaultsCount ==
  ASSUME TypeOK, NEW kind, Fault(kind)
  PROVE  faults' \in 0..MaxFaults
BY DEF TypeOK, Fault

LEMMA GoneKeeps ==
  ASSUME IInv, NEW c \in Sockets, sock[c].srv # "closed", Gone(c)
  PROVE  IInv'
<1>0. None \notin Sockets
  BY DEF None, Sockets
<1>1. /\ TypeOK /\ AllGood(sock) /\ ServerSide /\ faults \in 0..MaxFaults
      /\ sock[c].sess \in Sockets \cup {None}
  BY DEF IInv, TypeOK, Socket
<1>2. PICK s : s = sock[c].sess
  OBVIOUS
<1>3. PICK S : S = ServerEnds(sock, c)
  OBVIOUS
<1>4. /\ AllFade(sock, S)
      /\ \A d \in Sockets : /\ S[d].cli = sock[d].cli
                            /\ S[d].sess = IF d = c THEN None ELSE sock[d].sess
  BY <1>1, <1>3, ServerEndsSpec
<1>5. session[c] # None => s = c
  BY <1>1, <1>2 DEF ServerSide
<1>6. UNCHANGED client /\ faults' = faults
  BY DEF Gone
<1>7. CASE s # None /\ session[s] # None
  <2>1. Teardown(S, s)
    BY <1>2, <1>3, <1>7 DEF Gone
  <2>2. \A d \in Sockets \ {s} : session[d] # None => S[d].sess = sock[d].sess
    BY <1>4, <1>5
  <2> QED BY <1>1, <1>2, <1>4, <1>6, <1>7, <2>1, <2>2, TeardownKeeps
<1>8. CASE ~(s # None /\ session[s] # None)
  <2>1. sock' = S /\ UNCHANGED server
    BY <1>2, <1>3, <1>8 DEF Gone
  <2>2. \A d \in Sockets : session'[d] # None => sock'[d].sess = sock[d].sess
    <3>1. session[c] = None
      BY <1>0, <1>5, <1>8
    <3> QED BY <1>4, <2>1, <3>1, UnchangedServer
  <2> QED BY <1>1, <1>4, <1>6, <2>1, <2>2, UnchangedServer, ServerFadeStep
<1> QED BY <1>7, <1>8

LEMMA SocketClosesKeeps ==
  ASSUME IInv, NEW c \in Sockets, ReadFin(c) \/ CloseTimeout(c)
  PROVE  IInv'
<1>1. Gone(c) /\ sock[c].srv # "closed"
  BY DEF ReadFin, CloseTimeout, IInv, AllGood, SocketGood
<1> QED BY <1>1, GoneKeeps

LEMMA HelloTimeoutKeeps ==
  ASSUME IInv, NEW c \in Sockets, HelloTimeout(c)
  PROVE  IInv'
<1>1. /\ Fault("hello timeout") /\ sock' = ServerCloses(sock, {c}, "fin")
      /\ UNCHANGED <<server, client>>
  BY DEF HelloTimeout
<1>2. /\ AllFade(sock, sock')
      /\ \A d \in Sockets : sock'[d].sess = sock[d].sess /\ sock'[d].cli = sock[d].cli
  <2>1. PICK C : C = {c}
    OBVIOUS
  <2>2. PICK m \in {"fin", "refusal"} : m = "fin"
    OBVIOUS
  <2>3. AllGood(sock)
    BY DEF IInv
  <2>4. sock' = ServerCloses(sock, C, m)
    BY <1>1, <2>1, <2>2
  <2> QED BY <2>3, <2>4, ServerClosesSpec
<1>3. faults' \in 0..MaxFaults
  BY <1>1, UnchangedServer, FaultsCount
<1> QED BY <1>1, <1>2, <1>3, UnchangedServer, ServerFadeStep

LEMMA SessionOverflowKeeps ==
  ASSUME IInv, NEW s \in Sockets, SessionOverflow(s)
  PROVE  IInv'
<1>1. /\ Fault("session overflow") /\ session[s] # None /\ Teardown(sock, s) /\ UNCHANGED client
  BY DEF SessionOverflow
<1>2. AllFade(sock, sock)
  BY FadesSelf DEF IInv, AllGood, AllFade
<1>3. faults' \in 0..MaxFaults
  BY <1>1, FaultsCount DEF IInv
<1> QED BY <1>1, <1>2, <1>3, TeardownKeeps

\* The connection breaks, and the server notices.
LEMMA BreakKeeps ==
  ASSUME IInv, NEW c \in Sockets, Break(c) \/ Noticed(c)
  PROVE  IInv'
<1>1. /\ AllGood(sock) /\ TypeOK /\ sock \in [Sockets -> Socket] /\ sock[c] \in Socket
      /\ SocketGood(sock[c]) /\ UNCHANGED <<server, client>>
  BY DEF IInv, AllGood, Break, Noticed
<1>2. PICK m \in Message : m = Msg("fin") /\ m.type = "fin"
  BY Messages
<1>3. PICK n \in Message : n = Msg("cut") /\ n.type = "cut"
  BY Messages
<1>4. PICK f : f = IF Break(c) THEN <<m>> ELSE sock[c].down
  OBVIOUS
<1>5. PICK u : u = IF Break(c) THEN <<n>> ELSE <<m>>
  OBVIOUS
<1>6. /\ f \in Seq(Message) /\ Acks(f) \subseteq Acks(sock[c].down)
      /\ u \in Seq(Message) /\ ~Unread(u)
  <2>1. <<m>> \in Seq(Message) /\ Acks(<<m>>) = {} /\ ~Unread(<<m>>)
    BY <1>2, QueueOne
  <2>2. <<n>> \in Seq(Message) /\ ~Unread(<<n>>)
    BY <1>3, QueueOne
  <2>3. sock[c].down \in Seq(Message)
    BY <1>1 DEF Socket
  <2> QED BY <1>4, <1>5, <2>1, <2>2, <2>3
<1>7. PICK g : g = [sock[c] EXCEPT !.down = f, !.up = u]
  OBVIOUS
<1>8. /\ g \in Socket /\ g.cli = sock[c].cli /\ g.role = sock[c].role /\ g.want = sock[c].want
      /\ g.sess = sock[c].sess /\ g.srv = sock[c].srv /\ g.down = f /\ g.up = u
  BY <1>1, <1>6, <1>7 DEF Socket
<1>9. sock[c].srv # "closed"
  <2>1. CASE Noticed(c)
    <3>1. sock[c].up # <<>>
      BY <2>1 DEF Noticed, Cut
    <3> QED BY <1>1, <3>1 DEF SocketGood
  <2> QED BY <2>1 DEF Break
<1>10. SocketGood(g)
  <2>1. \A i \in 1..Len(u) : u[i].type # "hello"
    BY <1>6 DEF Unread
  <2>2. sock[c].cli # "dialing"
    BY <1>1, <1>9 DEF SocketGood
  <2> QED BY <1>1, <1>6, <1>8, <1>9, <2>1, <2>2 DEF SocketGood
<1>11. Fades(sock[c], g)
  BY <1>6, <1>8, <1>10 DEF Fades
<1>12. sock' = [sock EXCEPT ![c] = g]
  <2>1. CASE Break(c)
    <3>1. sock' = [sock EXCEPT ![c].down = <<m>>, ![c].up = <<n>>]
      BY <1>2, <1>3, <2>1 DEF Break
    <3>2. f = <<m>> /\ u = <<n>>
      BY <1>4, <1>5, <2>1
    <3> QED BY <1>1, <1>7, <3>1, <3>2
  <2>2. CASE ~Break(c)
    <3>1. sock' = [sock EXCEPT ![c].up = <<m>>]
      BY <1>2, <2>2 DEF Noticed
    <3>2. f = sock[c].down /\ u = <<m>>
      BY <1>4, <1>5, <2>2
    <3>3. g = [sock[c] EXCEPT !.up = u]
      BY <1>1, <1>7, <3>2 DEF Socket
    <3> QED BY <1>1, <3>1, <3>2, <3>3
  <2> QED BY <2>1, <2>2
<1>13. sock' \in [Sockets -> Socket] /\ \A d \in Sockets : sock'[d] = IF d = c THEN g ELSE sock[d]
  BY <1>1, <1>8, <1>12
<1>14. AllFade(sock, sock')
  BY <1>1, <1>11, <1>13, FadesSelf DEF AllFade, AllGood
<1>15. \A d \in Sockets : sock'[d].cli = sock[d].cli /\ sock'[d].sess = sock[d].sess
  BY <1>8, <1>13
<1>16. faults' \in 0..MaxFaults
  BY <1>1, FaultsCount DEF Break, Noticed, TypeOK
<1> QED BY <1>1, <1>14, <1>15, <1>16, UnchangedServer, ServerFadeStep

\* What ReadPrimaryHello and ReadAttachHello make of the socket whose hello
\* joins session s with the id t.
Joined(r, s, t) ==
  [r EXCEPT !.up = Tail(r.up), !.sess = s,
            !.srv = IF r.srv = "prehello" THEN "joined" ELSE r.srv,
            !.down = IF r.srv = "prehello" /\ r.cli # "closed"
                     THEN Append(r.down, [type |-> "ack", tid |-> t]) ELSE r.down]

LEMMA JoinedFields ==
  ASSUME NEW r \in Socket, SocketGood(r), r.sess = None, Unread(r.up),
         NEW s \in Sockets, NEW t \in TunnelIds
  PROVE  /\ Joined(r, s, t) \in Socket /\ SocketGood(Joined(r, s, t))
         /\ ~Unread(Joined(r, s, t).up)
         /\ Joined(r, s, t).role = r.role /\ Joined(r, s, t).want = r.want
         /\ Joined(r, s, t).cli = r.cli /\ Joined(r, s, t).sess = s
         /\ Acks(Joined(r, s, t).down) \subseteq {t}
<1>1. PICK a : a = [type |-> "ack", tid |-> t]
  OBVIOUS
<1>2. a \in Message /\ a.type = "ack" /\ a.tid = t
  BY <1>1, Messages
<1>3. PICK d : d = IF r.srv = "prehello" /\ r.cli # "closed" THEN Append(r.down, a) ELSE r.down
  OBVIOUS
<1>4. r.up \in Seq(Message) /\ r.down \in Seq(Message) /\ Acks(r.down) = {}
  BY DEF Socket, SocketGood
<1>5. d \in Seq(Message) /\ Acks(d) \subseteq {t}
  <2>1. PICK e : e = Append(r.down, a)
    OBVIOUS
  <2>2. e \in Seq(Message) /\ Acks(e) \subseteq Acks(r.down) \cup {a.tid}
    BY <1>2, <1>4, <2>1, QueueAppend
  <2> QED BY <1>2, <1>3, <1>4, <2>1, <2>2
<1>6. PICK v : v = IF r.srv = "prehello" THEN "joined" ELSE r.srv
  OBVIOUS
<1>7. r.up # <<>>
  BY QueueEmpty
<1>8. PICK q : q = Tail(r.up)
  OBVIOUS
<1>9. q \in Seq(Message) /\ ~Unread(q)
  <2>1. \A i \in 1..Len(r.up) : r.up[i].type = "hello" => i = 1
    BY DEF SocketGood
  <2> QED BY <1>4, <1>7, <1>8, <2>1, QueueTail
<1>10. r.srv # "closed" /\ v \in {"joined", "closing"} /\ r.cli \notin {"dialing", "ready"}
  BY <1>6, <1>7 DEF Socket, SocketGood
<1>11. PICK g : g = [r EXCEPT !.up = q, !.sess = s]
  OBVIOUS
<1>12. /\ g.up = q /\ g.sess = s /\ g.role = r.role /\ g.want = r.want /\ g.cli = r.cli
       /\ g.srv = r.srv /\ g.down = r.down /\ g \in Socket
  BY <1>9, <1>11 DEF Socket
<1>13. PICK f : f = [g EXCEPT !.srv = v, !.down = d]
  OBVIOUS
<1>14. /\ f.up = q /\ f.sess = s /\ f.role = r.role /\ f.want = r.want /\ f.cli = r.cli
       /\ f.srv = v /\ f.down = d /\ f \in Socket
  BY <1>5, <1>10, <1>12, <1>13 DEF Socket
<1>15. f = Joined(r, s, t)
  BY <1>1, <1>3, <1>6, <1>8, <1>11, <1>13 DEF Joined
<1>16. \A i \in 1..Len(q) : q[i].type # "hello"
  BY <1>9 DEF Unread
<1>17. SocketGood(f)
  BY <1>9, <1>10, <1>14, <1>16 DEF SocketGood
<1> QED BY <1>5, <1>9, <1>10, <1>14, <1>15, <1>17

\* A socket whose hello is unread has no session, and none of its own either.
LEMMA UnreadIsNew ==
  ASSUME IInv, NEW c \in Sockets, sock[c].up # <<>>, Head(sock[c].up).type = "hello"
  PROVE  /\ sock[c] \in Socket /\ SocketGood(sock[c]) /\ Unread(sock[c].up)
         /\ sock[c].sess = None /\ session[c] = None /\ sock[c].cli # "ready"
         /\ \A d \in Sockets : sock[d].sess # c
<1>0. None \notin Sockets
  BY DEF None, Sockets
<1>1. sock[c] \in Socket /\ SocketGood(sock[c]) /\ ServerSide
  BY DEF IInv, AllGood
<1>2. Unread(sock[c].up)
  <2>1. sock[c].up \in Seq(Message)
    BY <1>1 DEF Socket
  <2> QED BY <2>1, QueueTail
<1>3. sock[c].sess = None /\ sock[c].cli # "ready"
  BY <1>1, <1>2 DEF SocketGood
<1> QED BY <1>0, <1>1, <1>2, <1>3 DEF ServerSide

\* Socket c joins session s, whose id is t, and s is then the session of t.
LEMMA JoinKeeps ==
  ASSUME IInv, NEW c \in Sockets, sock[c].up # <<>>, Head(sock[c].up).type = "hello",
         NEW s \in Sockets, NEW t \in TunnelIds, NEW T, T = Joined(sock[c], s, t),
         sock' = [sock EXCEPT ![c] = T],
         UNCHANGED <<client, faults>>,
         \/ /\ sock[c].role = "primary" /\ s = c /\ registry[t] = None
            /\ session' = [session EXCEPT ![c] = t]
            /\ registry' = [registry EXCEPT ![t] = c]
         \/ /\ sock[c].role = "attach" /\ sock[c].want = t /\ registry[t] = s /\ HasRoom(s)
            /\ UNCHANGED server
  PROVE  IInv'
<1>0. None \notin Sockets /\ None \notin TunnelIds
  BY DEF None, Sockets, TunnelIds
<1>1. TypeOK /\ AllGood(sock) /\ ServerSide /\ ClientSide /\ SameId /\ SessionsExclusive
  BY DEF IInv, ServerSide
<1>2. /\ sock \in [Sockets -> Socket] /\ \A d \in Sockets : sock[d] \in Socket /\ SocketGood(sock[d])
      /\ session \in [Sockets -> TunnelIds \cup {None}]
      /\ registry \in [TunnelIds -> Sockets \cup {None}]
  BY <1>1 DEF AllGood, TypeOK
<1>3. /\ Unread(sock[c].up) /\ sock[c].sess = None /\ session[c] = None /\ sock[c].cli # "ready"
      /\ \A d \in Sockets : sock[d].sess # c
  BY UnreadIsNew
<1>4. /\ T \in Socket /\ SocketGood(T) /\ ~Unread(T.up)
      /\ T.role = sock[c].role /\ T.want = sock[c].want /\ T.cli = sock[c].cli /\ T.sess = s
      /\ Acks(T.down) \subseteq {t} /\ T.cli # "dialing"
  <2>1. PICK r \in Socket : r = sock[c]
    BY <1>2
  <2>2. SocketGood(r) /\ r.sess = None /\ Unread(r.up)
    BY <1>2, <1>3, <2>1
  <2>3. T = Joined(r, s, t)
    BY <2>1
  <2>4. /\ T \in Socket /\ SocketGood(T) /\ ~Unread(T.up) /\ T.sess = s /\ T.cli = r.cli
    BY <2>1, <2>2, <2>3, JoinedFields
  <2>5. T.role = r.role /\ T.want = r.want
    BY <2>1, <2>2, <2>3, JoinedFields
  <2>6. Acks(T.down) \subseteq {t}
    <3>1. Acks(Joined(r, s, t).down) \subseteq {t}
      BY <2>1, <2>2, JoinedFields
    <3> QED BY <2>3, <3>1
  <2>7. T.cli # "dialing"
    BY <1>0, <2>4 DEF SocketGood
  <2> QED BY <2>1, <2>4, <2>5, <2>6, <2>7
<1>5. sock' \in [Sockets -> Socket] /\ \A d \in Sockets : sock'[d] = IF d = c THEN T ELSE sock[d]
  BY <1>2, <1>4
<1>6. AllGood(sock)'
  BY <1>2, <1>4, <1>5 DEF AllGood
<1>7. /\ session' \in [Sockets -> TunnelIds \cup {None}]
      /\ registry' \in [TunnelIds -> Sockets \cup {None}]
      /\ \A d \in Sockets \ {c} : session'[d] = session[d]
      /\ session'[s] = t /\ registry'[t] = s
      /\ \A u \in TunnelIds \ {t} : registry'[u] = registry[u]
  <2>1. CASE s = c /\ registry[t] = None /\ session' = [session EXCEPT ![c] = t]
             /\ registry' = [registry EXCEPT ![t] = c]
    BY <1>2, <2>1
  <2>2. CASE registry[t] = s /\ UNCHANGED server
    <3>1. session[s] = t
      BY <1>0, <1>1, <2>2 DEF SessionsExclusive
    <3> QED BY <1>2, <2>2, <3>1 DEF server
  <2> QED BY <2>1, <2>2
<1>8. SessionsExclusive'
  <2>1. CASE s = c /\ registry[t] = None /\ session' = [session EXCEPT ![c] = t]
             /\ registry' = [registry EXCEPT ![t] = c]
    <3>1. ASSUME NEW d \in Sockets, session'[d] # None
          PROVE  registry'[session'[d]] = d
      <4>1. CASE d = c
        BY <1>7, <2>1, <4>1
      <4>2. CASE d # c
        <5>1. session'[d] = session[d] /\ session[d] \in TunnelIds /\ session[d] # None
          BY <1>2, <1>7, <3>1, <4>2
        <5>2. registry[session[d]] = d
          BY <1>1, <5>1 DEF SessionsExclusive
        <5>3. session[d] # t
          BY <1>0, <2>1, <5>2
        <5> QED BY <1>7, <5>1, <5>2, <5>3
      <4> QED BY <4>1, <4>2
    <3>2. ASSUME NEW u \in TunnelIds, registry'[u] # None
          PROVE  session'[registry'[u]] = u
      <4>1. CASE u = t
        BY <1>7, <4>1
      <4>2. CASE u # t
        <5>1. registry'[u] = registry[u] /\ registry[u] \in Sockets /\ session[registry[u]] = u
          BY <1>1, <1>2, <1>7, <3>2, <4>2 DEF SessionsExclusive
        <5>2. registry[u] # c
          BY <1>0, <1>3, <5>1
        <5> QED BY <1>7, <5>1, <5>2
      <4> QED BY <4>1, <4>2
    <3> QED BY <3>1, <3>2 DEF SessionsExclusive
  <2>2. CASE UNCHANGED server
    BY <2>2, UnchangedServer
  <2> QED BY <2>1, <2>2
<1>9. sock'[s].sess = s /\ sock'[s].role = "primary" /\ ~Unread(sock'[s].up)
      /\ sock'[s].cli # "dialing" /\ Acks(sock'[s].down) \subseteq {t}
  <2>1. CASE sock[c].role = "primary" /\ s = c
    BY <1>4, <1>5, <2>1
  <2>2. CASE sock[c].role = "attach" /\ registry[t] = s
    <3>1. session[s] = t
      BY <1>0, <1>1, <2>2 DEF SessionsExclusive
    <3>2. s # c
      BY <1>0, <1>3, <3>1
    <3>3. sock[s].sess = s /\ sock[s].role = "primary" /\ Acks(sock[s].down) \subseteq {t}
      BY <1>0, <1>1, <3>1 DEF ServerSide
    <3>4. ~Unread(sock[s].up) /\ sock[s].cli # "dialing"
      BY <1>0, <1>1, <3>3 DEF ServerSide
    <3> QED BY <1>5, <3>2, <3>3, <3>4
  <2> QED BY <2>1, <2>2
<1>10. Cardinality(LegsOf(s)') <= MaxLegs
  <2>1. LegsOf(s)' = LegsOf(s) \cup {c} /\ c \notin LegsOf(s)
    BY <1>0, <1>3, <1>4, <1>5 DEF LegsOf
  <2>2. IsFiniteSet(LegsOf(s)) /\ Cardinality(LegsOf(s)) \in Nat
    BY LegsFinite
  <2>3. Cardinality(LegsOf(s)') = Cardinality(LegsOf(s)) + 1
    <3>1. PICK L : L = LegsOf(s)
      OBVIOUS
    <3>2. IsFiniteSet(L) /\ c \notin L
      BY <2>1, <2>2, <3>1
    <3>3. Cardinality(L \cup {c}) = Cardinality(L) + 1
      BY <3>2, FS_AddElement
    <3> QED BY <2>1, <3>1, <3>3
  <2>4. MaxLegs \in Nat /\ MaxLegs >= 1
    BY DEF MaxLegs
  <2>5. CASE s = c
    <3>1. LegsOf(s) = {}
      BY <1>3, <2>5 DEF LegsOf
    <3>2. Cardinality(LegsOf(s)) = 0
      BY <3>1, FS_EmptySet
    <3> QED BY <2>3, <2>4, <3>2
  <2>6. CASE HasRoom(s)
    BY <2>2, <2>3, <2>4, <2>6 DEF HasRoom
  <2>7. s = c \/ HasRoom(s)
    OBVIOUS
  <2> QED BY <2>5, <2>6, <2>7
<1>11. ASSUME NEW d \in Sockets, session'[d] # None
       PROVE  /\ sock'[d].sess = d /\ sock'[d].role = "primary"
              /\ Acks(sock'[d].down) \subseteq {session'[d]}
              /\ Cardinality(LegsOf(d)') <= MaxLegs
  <2>1. CASE d = s
    BY <1>7, <1>9, <1>10, <2>1
  <2>2. CASE d # s
    <3>1. d # c
      <4>1. CASE s # c
        <5>1. UNCHANGED server
          BY <4>1
        <5> QED BY <1>3, <1>11, <5>1 DEF server
      <4> QED BY <2>2, <4>1
    <3>2. session[d] = session'[d] /\ session[d] # None
      BY <1>7, <1>11, <3>1
    <3>3. LegsOf(d)' = LegsOf(d)
      <4>1. c \notin LegsOf(d) /\ c \notin LegsOf(d)'
        BY <1>0, <1>3, <1>4, <1>5, <2>2 DEF LegsOf
      <4> QED BY <1>5, <4>1 DEF LegsOf
    <3>4. sock'[d] = sock[d]
      BY <1>5, <3>1
    <3>5. /\ sock[d].sess = d /\ sock[d].role = "primary" /\ Acks(sock[d].down) \subseteq {session[d]}
          /\ Cardinality(LegsOf(d)) <= MaxLegs
      BY <1>1, <3>2 DEF ServerSide
    <3> QED BY <3>2, <3>3, <3>4, <3>5
  <2> QED BY <2>1, <2>2
<1>12. ASSUME NEW d \in Sockets, sock'[d].sess # None
       PROVE  /\ ~Unread(sock'[sock'[d].sess].up) /\ sock'[sock'[d].sess].cli # "dialing"
              /\ sock'[d].role = "primary" => sock'[d].sess = d
              /\ sock'[d].role = "attach" /\ session'[sock'[d].sess] # None =>
                   session'[sock'[d].sess] = sock'[d].want
  <2>1. CASE d = c
    <3>1. sock'[d].sess = s /\ sock'[d].role = sock[c].role /\ sock'[d].want = sock[c].want
      BY <1>4, <1>5, <2>1
    <3> QED BY <1>7, <1>9, <2>1, <3>1
  <2>2. CASE d # c
    <3>1. sock'[d] = sock[d]
      BY <1>5, <2>2
    <3>2. PICK x \in Sockets : x = sock[d].sess /\ x # c
      BY <1>2, <1>3, <1>12, <3>1 DEF Socket
    <3>3. sock'[x] = sock[x] /\ session'[x] = session[x]
      BY <1>5, <1>7, <3>2
    <3>4. /\ ~Unread(sock[x].up) /\ sock[x].cli # "dialing"
          /\ sock[d].role = "primary" => x = d
          /\ sock[d].role = "attach" /\ session[x] # None => session[x] = sock[d].want
      BY <1>1, <1>12, <3>1, <3>2 DEF ServerSide
    <3> QED BY <3>1, <3>2, <3>3, <3>4
  <2> QED BY <2>1, <2>2
<1>13. ServerSide'
  BY <1>8, <1>11, <1>12 DEF ServerSide
<1>14. ClientSide' /\ (PrimaryReady' <=> PrimaryReady)
  BY <1>1, <1>4, <1>5, ClientStays
<1>15. UNCHANGED <<primary, lastId, disconnected, rebuilding, generation, closing, slot, attempt,
                   timer>>
  BY DEF client, groupVars, slotVars
<1>16. TypeOK'
  BY <1>1, <1>5, <1>7, <1>15 DEF TypeOK
<1>17. SameId'
  <2>1. PrimaryReady => primary.ws \in Sockets \ {c}
    BY <1>1, <1>3 DEF TypeOK, PrimaryReady, Ready
  <2> QED BY <1>1, <1>7, <1>14, <1>15, <2>1 DEF SameId
<1> QED BY <1>6, <1>13, <1>14, <1>16, <1>17 DEF IInv

LEMMA ReadPrimaryHelloKeeps ==
  ASSUME IInv, NEW c \in Sockets, ReadPrimaryHello(c)
  PROVE  IInv'
<1>1. PICK t \in TunnelIds :
        /\ t \in Assignable(sock[c].want)
        /\ session' = [session EXCEPT ![c] = t]
        /\ registry' = [registry EXCEPT ![t] = c]
        /\ sock' = [Read(c) EXCEPT
            ![c].sess = c,
            ![c].srv = IF @ = "prehello" THEN "joined" ELSE @,
            ![c].down = IF sock[c].srv = "prehello" /\ sock[c].cli # "closed"
                        THEN Append(@, [type |-> "ack", tid |-> t]) ELSE @]
  BY DEF ReadPrimaryHello
<1>2. registry[t] = None
  BY <1>1 DEF Assignable, FreshIds
<1>3. sock \in [Sockets -> Socket] /\ sock[c] \in Socket
  BY DEF IInv, AllGood
<1>4. PICK T : T = Joined(sock[c], c, t)
  OBVIOUS
<1>5. sock' = [sock EXCEPT ![c] = T]
  BY <1>1, <1>3, <1>4 DEF Read, Socket, Joined
<1> QED BY <1>1, <1>2, <1>4, <1>5, JoinKeeps DEF ReadPrimaryHello

LEMMA ReadAttachHelloKeeps ==
  ASSUME IInv, NEW c \in Sockets, ReadAttachHello(c)
  PROVE  IInv'
<1>1. /\ sock \in [Sockets -> Socket] /\ sock[c] \in Socket /\ SocketGood(sock[c])
      /\ AllGood(sock) /\ TypeOK
  BY DEF IInv, AllGood
<1>2. PICK t \in TunnelIds : t = sock[c].want
  BY <1>1 DEF ReadAttachHello, SocketGood
<1>3. PICK s \in Sockets \cup {None} : s = registry[t]
  BY <1>1, <1>2 DEF TypeOK
<1>4. CASE s = None \/ ~HasRoom(s)
  <2>1. PICK S : S = Read(c)
    OBVIOUS
  <2>2. PICK m \in {"fin", "refusal"} : m = "refusal"
    OBVIOUS
  <2>3. PICK C : C = {c}
    OBVIOUS
  <2>4. sock' = ServerCloses(S, C, m) /\ UNCHANGED <<server, client, faults>>
    BY <1>2, <1>3, <1>4, <2>1, <2>2, <2>3 DEF ReadAttachHello
  <2>5. /\ AllFade(sock, S)
        /\ \A d \in Sockets : S[d].cli = sock[d].cli /\ S[d].sess = sock[d].sess
    BY <1>1, <2>1, ReadSpec DEF ReadAttachHello
  <2>6. /\ AllFade(S, sock')
        /\ \A d \in Sockets : sock'[d].cli = S[d].cli /\ sock'[d].sess = S[d].sess
    BY <2>4, <2>5, FadeGood, ServerClosesSpec
  <2>7. AllFade(sock, sock')
    BY <1>1, <2>5, <2>6, FadeTrans
  <2>8. faults' \in 0..MaxFaults
    BY <1>1, <2>4 DEF TypeOK
  <2> QED BY <2>4, <2>5, <2>6, <2>7, <2>8, UnchangedServer, ServerFadeStep
<1>5. CASE ~(s = None \/ ~HasRoom(s))
  <2>1. PICK T : T = Joined(sock[c], s, t)
    OBVIOUS
  <2>2. sock' = [Read(c) EXCEPT
               ![c].sess = s,
               ![c].srv = IF @ = "prehello" THEN "joined" ELSE @,
               ![c].down = IF sock[c].srv = "prehello" /\ sock[c].cli # "closed"
                           THEN Append(@, [type |-> "ack", tid |-> t]) ELSE @]
    BY <1>2, <1>3, <1>5 DEF ReadAttachHello
  <2>3. sock' = [sock EXCEPT ![c] = T]
    BY <1>1, <2>1, <2>2 DEF Read, Socket, Joined
  <2> QED BY <1>2, <1>3, <1>5, <2>1, <2>3, JoinKeeps DEF ReadAttachHello
<1> QED BY <1>4, <1>5

-----------------------------------------------------------------------------
\* Steps of the client: the server's side.

\* Nobody at the server knows of the socket.
Unused(c) ==
  sock[c].sess = None /\ session[c] = None /\ \A d \in Sockets : sock[d].sess # c

\* What the server's side of a socket needs of a step of the client.
Keeps(r, r2) ==
  /\ r2.sess = r.sess
  /\ r.sess # None => r2.role = r.role /\ r2.want = r.want
  /\ Unread(r2.up) => Unread(r.up)
  /\ Acks(r2.down) \subseteq Acks(r.down)
  /\ r2.cli = "dialing" => r.cli = "dialing"

LEMMA ServerKept ==
  ASSUME TypeOK, ServerSide, UNCHANGED server,
         \A c \in Sockets : \/ Keeps(sock[c], sock'[c])
                            \/ Unused(c) /\ sock'[c].sess = None
  PROVE  ServerSide'
<1>0. None \notin Sockets
  BY DEF None, Sockets
<1>1. SessionsExclusive' /\ session' = session /\ registry' = registry
  BY DEF server, ServerSide, SessionsExclusive
<1>2. \A c \in Sockets : sock'[c].sess = sock[c].sess /\ sock[c].sess \in Sockets \cup {None}
  BY DEF Keeps, Unused, TypeOK, Socket
<1>3. \A c \in Sockets : sock[c].sess # None \/ session[c] # None
                         \/ (\E d \in Sockets : sock[d].sess = c) => Keeps(sock[c], sock'[c])
  BY DEF Unused
<1>4. ASSUME NEW s \in Sockets, session'[s] # None
      PROVE  /\ sock'[s].sess = s /\ sock'[s].role = "primary"
             /\ Acks(sock'[s].down) \subseteq {session'[s]}
             /\ Cardinality(LegsOf(s)') <= MaxLegs
  <2>1. LegsOf(s)' = LegsOf(s)
    BY <1>2 DEF LegsOf
  <2>2. /\ sock[s].sess = s /\ sock[s].role = "primary" /\ Cardinality(LegsOf(s)) <= MaxLegs
        /\ Acks(sock[s].down) \subseteq {session[s]}
    BY <1>1, <1>4 DEF ServerSide
  <2>3. Keeps(sock[s], sock'[s])
    BY <1>1, <1>3, <1>4
  <2> QED BY <1>0, <1>1, <2>1, <2>2, <2>3 DEF Keeps
<1>5. ASSUME NEW c \in Sockets, sock'[c].sess # None
      PROVE  /\ ~Unread(sock'[sock'[c].sess].up) /\ sock'[sock'[c].sess].cli # "dialing"
             /\ sock'[c].role = "primary" => sock'[c].sess = c
             /\ sock'[c].role = "attach" /\ session'[sock'[c].sess] # None =>
                  session'[sock'[c].sess] = sock'[c].want
  <2>1. PICK s \in Sockets : s = sock[c].sess /\ sock'[c].sess = s
    BY <1>2, <1>5
  <2>2. Keeps(sock[c], sock'[c]) /\ Keeps(sock[s], sock'[s])
    BY <1>2, <1>3, <1>5, <2>1
  <2>3. /\ ~Unread(sock[s].up) /\ sock[s].cli # "dialing"
        /\ sock[c].role = "primary" => s = c
        /\ sock[c].role = "attach" /\ session[s] # None => session[s] = sock[c].want
    BY <1>0, <2>1 DEF ServerSide
  <2>4. ~Unread(sock'[s].up) /\ sock'[s].cli # "dialing"
    BY <2>2, <2>3 DEF Keeps
  <2>5. sock'[c].role = sock[c].role /\ sock'[c].want = sock[c].want
    BY <1>0, <2>1, <2>2 DEF Keeps
  <2> QED BY <1>1, <2>1, <2>3, <2>4, <2>5
<1> QED BY <1>1, <1>4, <1>5 DEF ServerSide

LEMMA FadesKeeps ==
  ASSUME NEW r, NEW r2, Fades(r, r2), r2.sess = r.sess
  PROVE  Keeps(r, r2)
BY DEF Fades, Keeps

LEMMA SelfKeeps ==
  ASSUME NEW r
  PROVE  Keeps(r, r)
BY DEF Keeps

-----------------------------------------------------------------------------
\* Free sockets and their order.

Below(T, d) == {e \in T : e < d}

LEMMA Ranks ==
  ASSUME NEW T \in SUBSET Int, IsFiniteSet(T)
  PROVE  /\ Cardinality(T) \in Nat
         /\ \A d \in T : Cardinality(Below(T, d)) \in 0..(Cardinality(T) - 1)
         /\ \A d, x \in T : Cardinality(Below(T, d)) = Cardinality(Below(T, x)) => d = x
         /\ \A k \in 0..(Cardinality(T) - 1) : \E d \in T : Cardinality(Below(T, d)) = k
<1>1. PICK n : n = Cardinality(T) /\ n \in Nat
  BY FS_CardinalityType
<1>2. PICK f : f = [d \in T |-> Cardinality(Below(T, d))]
  OBVIOUS
<1>3. \A d \in T : f[d] = Cardinality(Below(T, d))
  BY <1>2
<1>4. ASSUME NEW d \in T
      PROVE  /\ Below(T, d) \in SUBSET T /\ d \notin Below(T, d)
             /\ Below(T, d) \cup {d} \in SUBSET T
  BY DEF Below
<1>5. ASSUME NEW d \in T
      PROVE  /\ IsFiniteSet(Below(T, d)) /\ f[d] \in Nat
             /\ Cardinality(Below(T, d) \cup {d}) = f[d] + 1
  <2>1. PICK L : L = Below(T, d)
    OBVIOUS
  <2>2. L \in SUBSET T /\ d \notin L
    BY <1>4, <2>1
  <2>3. IsFiniteSet(L)
    BY <2>2, FS_Subset
  <2>4. Cardinality(L) \in Nat
    BY <2>3, FS_CardinalityType
  <2>5. Cardinality(L \cup {d}) = Cardinality(L) + 1
    BY <2>2, <2>3, FS_AddElement
  <2> QED BY <1>3, <2>1, <2>3, <2>4, <2>5
<1>6. \A d \in T : f[d] \in 0..(n - 1)
  <2> SUFFICES ASSUME NEW d \in T PROVE f[d] \in 0..(n - 1)
    OBVIOUS
  <2>1. PICK K : K = Below(T, d) \cup {d}
    OBVIOUS
  <2>2. K \in SUBSET T
    BY <1>4, <2>1
  <2>3. Cardinality(K) <= n
    BY <1>1, <2>2, FS_Subset
  <2>4. Cardinality(K) = f[d] + 1 /\ f[d] \in Nat
    BY <1>5, <2>1
  <2> QED BY <1>1, <2>3, <2>4
<1>7. ASSUME NEW d \in T, NEW x \in T, d < x
      PROVE  f[d] # f[x]
  <2>1. PICK K : K = Below(T, d) \cup {d}
    OBVIOUS
  <2>2. PICK L : L = Below(T, x)
    OBVIOUS
  <2>3. K \in SUBSET L
    <3>1. \A e \in T : e < d => e < x
      <4> SUFFICES ASSUME NEW e \in T, e < d PROVE e < x
        OBVIOUS
      <4>1. e \in Int /\ d \in Int /\ x \in Int
        OBVIOUS
      <4> QED BY <1>7, <4>1
    <3>2. ASSUME NEW e \in K PROVE e \in L
      <4>1. e \in T /\ (e < d \/ e = d)
        BY <2>1 DEF Below
      <4> QED BY <1>7, <2>2, <3>1, <4>1 DEF Below
    <3> QED BY <3>2
  <2>4. IsFiniteSet(L) /\ Cardinality(L) = f[x]
    BY <1>3, <1>5, <2>2
  <2>5. Cardinality(K) <= Cardinality(L)
    BY <2>3, <2>4, FS_Subset
  <2>6. Cardinality(K) = f[d] + 1 /\ f[d] \in Nat
    BY <1>5, <2>1
  <2> QED BY <2>4, <2>5, <2>6
<1>8. \A d, x \in T : f[d] = f[x] => d = x
  <2> SUFFICES ASSUME NEW d \in T, NEW x \in T, f[d] = f[x], d # x PROVE FALSE
    OBVIOUS
  <2>1. d < x \/ x < d
    OBVIOUS
  <2> QED BY <1>7, <2>1
<1>9. PICK R : R = 0..(n - 1)
  OBVIOUS
<1>10. IsFiniteSet(R) /\ Cardinality(R) = n
  BY <1>1, <1>9, FS_Interval
<1>11. f \in [T -> R]
  BY <1>2, <1>3, <1>6, <1>9
<1>12. f \in Injection(T, R)
  BY <1>8, <1>11 DEF Injection, IsInjective
<1>13. f \in Surjection(T, R)
  BY <1>1, <1>10, <1>12, FS_Injection
<1>14. \A k \in R : \E d \in T : f[d] = k
  BY <1>13 DEF Surjection
<1> QED BY <1>1, <1>3, <1>6, <1>8, <1>9, <1>14

LEMMA FreeFacts ==
  /\ FreeSockets(sock) \in SUBSET Int /\ IsFiniteSet(FreeSockets(sock))
  /\ \A c \in FreeSockets(sock) :
       c \in Sockets /\ sock[c] = Blank /\ sock[c].cli = "closed" /\ Unused(c)
<1>1. FreeSockets(sock) \in SUBSET Sockets /\ Sockets \in SUBSET Int
  BY DEF FreeSockets, Sockets
<1>2. IsFiniteSet(Sockets)
  BY FS_Interval DEF Sockets
<1>3. IsFiniteSet(FreeSockets(sock))
  BY <1>1, <1>2, FS_Subset
<1> QED BY <1>1, <1>3, BlankGood DEF FreeSockets, Unused

LEMMA LowestFree ==
  ASSUME FreeSockets(sock) # {}
  PROVE  Lowest(FreeSockets(sock)) \in FreeSockets(sock)
<1>1. PICK T : T = FreeSockets(sock)
  OBVIOUS
<1>2. T \in SUBSET Int /\ IsFiniteSet(T) /\ T # {}
  BY <1>1, FreeFacts
<1>3. Cardinality(T) \in Nat /\ Cardinality(T) # 0
  BY <1>2, FS_EmptySet, FS_CardinalityType
<1>4. 0 \in 0..(Cardinality(T) - 1)
  BY <1>3
<1>5. PICK d \in T : Cardinality(Below(T, d)) = 0
  BY <1>2, <1>4, Ranks
<1>6. Below(T, d) = {}
  <2>1. Below(T, d) \in SUBSET T
    BY DEF Below
  <2>2. IsFiniteSet(Below(T, d))
    BY <1>2, <2>1, FS_Subset
  <2> QED BY <1>5, <2>2, FS_EmptySet
<1>7. \A y \in T : d <= y
  BY <1>2, <1>6 DEF Below
<1>8. Lowest(T) \in T
  BY <1>7 DEF Lowest
<1> QED BY <1>1, <1>8

LEMMA DialGood ==
  ASSUME NEW role \in {"primary", "attach"}, NEW t \in TunnelIds \cup {None},
         role = "attach" => t \in TunnelIds
  PROVE  /\ Dial(role, t) \in Socket /\ SocketGood(Dial(role, t))
         /\ Dial(role, t).role = role /\ Dial(role, t).want = t
         /\ Dial(role, t).cli = "dialing" /\ Dial(role, t).sess = None
<1>1. PICK b : b = Blank
  OBVIOUS
<1>2. /\ b \in Socket /\ b.srv = "closed" /\ b.sess = None /\ b.up = <<>> /\ b.down = <<>>
  BY <1>1, BlankGood
<1>3. PICK f : f = [b EXCEPT !.role = role, !.want = t, !.cli = "dialing"]
  OBVIOUS
<1>4. /\ f \in Socket /\ f.role = role /\ f.want = t /\ f.cli = "dialing"
      /\ f.srv = b.srv /\ f.sess = b.sess /\ f.up = b.up /\ f.down = b.down
  BY <1>2, <1>3 DEF Socket
<1>5. SocketGood(f)
  BY <1>2, <1>4, QueueEmpty DEF SocketGood
<1>6. f = Dial(role, t)
  BY <1>1, <1>3, Zenon DEF Dial
<1> QED BY <1>2, <1>4, <1>5, <1>6

-----------------------------------------------------------------------------
\* Steps of the client.

\* Handshakes and acks of attach legs, which touch nothing but the socket.
LEMMA OpenKeeps ==
  ASSUME IInv, NEW c \in Sockets, Open(c)
  PROVE  IInv'
<1>0. None \notin Sockets
  BY DEF None, Sockets
<1>1. /\ TypeOK /\ AllGood(sock) /\ ServerSide /\ ClientSide /\ SameId
      /\ sock \in [Sockets -> Socket] /\ \A d \in Sockets : sock[d] \in Socket /\ SocketGood(sock[d])
  BY DEF IInv, AllGood
<1>2. PICK u : u = <<Msg("hello")>>
  OBVIOUS
<1>3. u \in Seq(Message) /\ \A i \in 1..Len(u) : i = 1
  <2>1. PICK m \in Message : m = Msg("hello")
    BY Messages
  <2> QED BY <1>2, <2>1, QueueOne
<1>4. PICK g : g = [sock[c] EXCEPT !.cli = "hello", !.srv = "prehello", !.up = u]
  OBVIOUS
<1>5. /\ g \in Socket /\ g.cli = "hello" /\ g.srv = "prehello" /\ g.up = u
      /\ g.role = sock[c].role /\ g.want = sock[c].want /\ g.sess = sock[c].sess
      /\ g.down = sock[c].down
  BY <1>1, <1>3, <1>4 DEF Socket
<1>6. sock[c].cli = "dialing" /\ sock[c].sess = None /\ sock[c].down = <<>> /\ Acks(sock[c].down) = {}
  BY <1>1, QueueEmpty DEF Open, SocketGood
<1>7. SocketGood(g)
  BY <1>1, <1>3, <1>5, <1>6 DEF SocketGood
<1>8. sock' = [sock EXCEPT ![c] = g]
  BY <1>1, <1>2, <1>4 DEF Open
<1>9. sock' \in [Sockets -> Socket] /\ \A d \in Sockets : sock'[d] = IF d = c THEN g ELSE sock[d]
  BY <1>1, <1>5, <1>8
<1>10. AllGood(sock)'
  BY <1>1, <1>5, <1>7, <1>9 DEF AllGood
<1>11. Unused(c) /\ sock'[c].sess = None
  <2>1. session[c] = None /\ \A d \in Sockets : sock[d].sess # c
    BY <1>0, <1>1, <1>6 DEF ServerSide
  <2> QED BY <1>5, <1>6, <1>9, <2>1 DEF Unused
<1>12. UNCHANGED <<server, client, faults>>
  BY DEF Open
<1>13. ServerSide'
  <2>1. ASSUME NEW d \in Sockets
        PROVE  \/ Keeps(sock[d], sock'[d])
               \/ Unused(d) /\ sock'[d].sess = None
    <3>1. CASE d = c
      BY <1>11, <3>1
    <3>2. CASE d # c
      BY <1>9, <3>2, SelfKeeps
    <3> QED BY <3>1, <3>2
  <2> QED BY <1>1, <1>12, <2>1, ServerKept
<1>14. UNCHANGED <<primary, lastId, disconnected, rebuilding, generation, closing, slot, attempt,
                   timer, session, registry>>
  BY <1>12 DEF client, groupVars, slotVars, server
<1>15. PrimaryReady' <=> PrimaryReady
  <2>1. primary.ws \in Sockets \cup {None}
    BY <1>1 DEF TypeOK
  <2> QED BY <1>5, <1>6, <1>9, <1>14, <2>1 DEF PrimaryReady, Ready
<1>16. ClientSide'
  BY <1>1, <1>5, <1>6, <1>9, <1>12, <1>15, ClientSame
<1>17. TypeOK'
  BY <1>1, <1>9, <1>12, <1>14 DEF TypeOK
<1>18. SameId'
  BY <1>1, <1>14, <1>15 DEF SameId
<1> QED BY <1>10, <1>13, <1>16, <1>17, <1>18 DEF IInv

\* What the ack of a hello does to the socket.
LEMMA ReadyFields ==
  ASSUME NEW r \in Socket, SocketGood(r), r.cli = "hello", r.down # <<>>,
         Head(r.down).type = "ack"
  PROVE  LET g == [r EXCEPT !.cli = "ready", !.down = Tail(r.down)]
         IN /\ g \in Socket /\ SocketGood(g) /\ Keeps(r, g)
            /\ g.cli = "ready" /\ g.role = r.role /\ g.want = r.want /\ g.sess = r.sess
            /\ Head(r.down).tid \in Acks(r.down)
<1>1. PICK q : q = Tail(r.down)
  OBVIOUS
<1>2. r.down \in Seq(Message)
  BY DEF Socket
<1>3. q \in Seq(Message) /\ Acks(q) \subseteq Acks(r.down) /\ Head(r.down).tid \in Acks(r.down)
  BY <1>1, <1>2, QueueTail
<1>4. PICK g : g = [r EXCEPT !.cli = "ready", !.down = q]
  OBVIOUS
<1>5. /\ g \in Socket /\ g.cli = "ready" /\ g.down = q /\ g.role = r.role /\ g.want = r.want
      /\ g.srv = r.srv /\ g.sess = r.sess /\ g.up = r.up
  BY <1>3, <1>4 DEF Socket
<1>6. ~Unread(r.up)
  BY <1>3 DEF SocketGood
<1>7. SocketGood(g)
  BY <1>3, <1>5, <1>6 DEF SocketGood
<1>8. Keeps(r, g)
  BY <1>3, <1>5 DEF Keeps
<1> QED BY <1>1, <1>3, <1>4, <1>5, <1>7, <1>8

LEMMA AttachReadyKeeps ==
  ASSUME IInv, NEW c \in Sockets, AttachReady(c)
  PROVE  IInv'
<1>0. None \notin Sockets
  BY DEF None, Sockets
<1>1. /\ TypeOK /\ AllGood(sock) /\ ServerSide /\ ClientSide /\ SameId
      /\ sock \in [Sockets -> Socket] /\ \A d \in Sockets : sock[d] \in Socket /\ SocketGood(sock[d])
  BY DEF IInv, AllGood
<1>2. PICK g : g = [sock[c] EXCEPT !.cli = "ready", !.down = Tail(sock[c].down)]
  OBVIOUS
<1>3. /\ g \in Socket /\ SocketGood(g) /\ Keeps(sock[c], g)
      /\ g.cli = "ready" /\ g.role = sock[c].role /\ g.want = sock[c].want
  <2>1. PICK r \in Socket : r = sock[c] /\ SocketGood(r)
    BY <1>1
  <2>2. r.cli = "hello" /\ r.down # <<>> /\ Head(r.down).type = "ack"
    BY <2>1 DEF AttachReady
  <2>3. PICK f : f = [r EXCEPT !.cli = "ready", !.down = Tail(r.down)]
    OBVIOUS
  <2>4. /\ f \in Socket /\ SocketGood(f) /\ Keeps(r, f)
        /\ f.cli = "ready" /\ f.role = r.role /\ f.want = r.want
    BY <2>1, <2>2, <2>3, ReadyFields
  <2> QED BY <1>2, <2>1, <2>3, <2>4
<1>4. sock' = [sock EXCEPT ![c] = g] /\ sock[c].cli = "hello"
  BY <1>1, <1>2 DEF AttachReady
<1>5. sock' \in [Sockets -> Socket] /\ \A d \in Sockets : sock'[d] = IF d = c THEN g ELSE sock[d]
  BY <1>1, <1>3, <1>4
<1>6. AllGood(sock)'
  BY <1>1, <1>3, <1>5 DEF AllGood
<1>7. UNCHANGED <<server, client, faults>>
  BY DEF AttachReady
<1>8. ServerSide'
  <2>1. \A d \in Sockets : Keeps(sock[d], sock'[d])
    BY <1>3, <1>5, SelfKeeps
  <2> QED BY <1>1, <1>7, <2>1, ServerKept
<1>9. UNCHANGED <<primary, lastId, disconnected, rebuilding, generation, closing, slot, attempt,
                  timer, session, registry>>
  BY <1>7 DEF client, groupVars, slotVars, server
<1>10. primary.ws # c
  <2>1. PICK i \in Slots : slot[i] = c
    BY DEF AttachReady, Attached
  <2>2. ~closing
    BY <1>1, <1>4 DEF ClientSide
  <2>3. sock[c].role = "attach"
    BY <1>0, <1>1, <2>1, <2>2 DEF ClientSide
  <2> QED BY <1>0, <1>1, <2>3 DEF ClientSide
<1>11. PrimaryReady' <=> PrimaryReady
  <2>1. primary.ws \in Sockets \cup {None}
    BY <1>1 DEF TypeOK
  <2> QED BY <1>5, <1>9, <1>10, <2>1 DEF PrimaryReady, Ready
<1>12. ClientSide'
  BY <1>1, <1>3, <1>4, <1>5, <1>7, <1>11, ClientSame
<1>13. TypeOK'
  BY <1>1, <1>5, <1>7, <1>9 DEF TypeOK
<1>14. SameId'
  BY <1>1, <1>9, <1>11 DEF SameId
<1> QED BY <1>6, <1>8, <1>12, <1>13, <1>14 DEF IInv

\* A group with no attach leg open, whose primary is not ready.
LEMMA NoneLeft ==
  ASSUME closing' \/ \A i \in Slots : slot'[i] = None,
         \A i, j \in Slots : slot'[i] # None /\ slot'[i] = slot'[j] => i = j,
         \A i \in Slots : timer'[i] = Unarmed,
         \A c \in Sockets : sock'[c].cli # "closed" =>
           ~closing' /\ c = primary'.ws /\ sock'[c].role # "attach",
         primary'.ws # None =>
           ~closing' /\ sock'[primary'.ws].role = "primary" /\ sock'[primary'.ws].cli # "closed",
         primary'.timer => primary'.ws = None /\ ~closing',
         ~PrimaryReady'
  PROVE  ClientSide' /\ SameId'
<1>1. LatchReleased' /\ TimersCurrent'
  BY DEF LatchReleased, TimersCurrent
<1> QED BY <1>1 DEF ClientSide, SameId

\* What the tables of a group whose primary is not ready hold, and of any group.
LEMMA ClientFacts ==
  ASSUME IInv
  PROVE  /\ ~PrimaryReady => \A i \in Slots : timer[i] = Unarmed
         /\ ~PrimaryReady /\ ~closing => \A i \in Slots : slot[i] = None
         /\ closing => \A i \in Slots : timer[i] = Unarmed
         /\ closing => \A c \in Sockets : sock[c].cli = "closed"
         /\ Attached \in SUBSET Sockets
         /\ \A c \in Sockets : sock[c].cli # "closed" => c \in Attached \cup {primary.ws}
         /\ \A c \in Attached : ~closing => sock[c].role = "attach" /\ c # primary.ws
         /\ primary.ws \in Sockets \cup {None}
         /\ \A i \in Slots : slot[i] \in Attached \cup {None}
<1>1. ClientSide /\ TypeOK /\ TimersCurrent
  BY DEF IInv, ClientSide
<1>2. Attached \in SUBSET Sockets /\ \A i \in Slots : slot[i] \in Attached \cup {None}
  BY <1>1 DEF TypeOK, Attached
<1>3. \A c \in Attached : ~closing => sock[c].role = "attach" /\ c # primary.ws
  <2> SUFFICES ASSUME NEW c \in Attached, ~closing
               PROVE  sock[c].role = "attach" /\ c # primary.ws
    OBVIOUS
  <2>1. PICK i \in Slots : slot[i] = c /\ c # None
    BY DEF Attached
  <2>2. sock[c].role = "attach"
    BY <1>1, <2>1 DEF ClientSide
  <2>3. primary.ws # None => sock[primary.ws].role = "primary"
    BY <1>1 DEF ClientSide
  <2> QED BY <2>1, <2>2, <2>3
<1>4. \A c \in Sockets : sock[c].cli # "closed" => c \in Attached \cup {primary.ws}
  BY <1>1 DEF ClientSide
<1>5. /\ ~PrimaryReady => \A i \in Slots : timer[i] = Unarmed
      /\ ~PrimaryReady /\ ~closing => \A i \in Slots : slot[i] = None
      /\ closing => \A i \in Slots : timer[i] = Unarmed
      /\ closing => \A c \in Sockets : sock[c].cli = "closed"
  BY <1>1 DEF ClientSide, TimersCurrent
<1>6. primary.ws \in Sockets \cup {None}
  BY <1>1 DEF TypeOK
<1> QED BY <1>2, <1>3, <1>4, <1>5, <1>6

LEMMA TableTypes ==
  /\ Unarmed \in [gen : 0..Generations, tid : TunnelIds \cup {None}]
  /\ Unarmed.gen = None /\ Unarmed.tid = None
  /\ 0 \in 0..(MaxAttach - 1) /\ 0 \in 0..MaxRetries
BY DEF Unarmed, None

\* The client closes every socket it has open.
LEMMA AllEnds ==
  ASSUME NEW S, AllGood(S), NEW C, \A c \in Sockets : S[c].cli # "closed" => c \in C
  PROVE  \A c \in Sockets : ClientEnds(S, C)[c].cli = "closed"
BY ClientEndsSpec

\* The client closes sockets and keeps the group's tables as NoneLeft says.
LEMMA TidyKeeps ==
  ASSUME IInv, AllFade(sock, sock'), \A c \in Sockets : sock'[c].sess = sock[c].sess,
         UNCHANGED server, TypeOK', ClientSide', SameId'
  PROVE  IInv'
<1>1. TypeOK /\ ServerSide
  BY DEF IInv
<1>2. AllGood(sock)'
  BY FadeGood DEF AllGood, AllFade, Fades
<1>3. \A c \in Sockets : Keeps(sock[c], sock'[c])
  BY FadesKeeps DEF AllFade
<1>4. ServerSide'
  BY <1>1, <1>3, ServerKept
<1> QED BY <1>2, <1>4 DEF IInv

\* The attach legs are closed and the primary is terminated.
LEMMA ForceReconnectKeeps ==
  ASSUME IInv, NEW S, AllFade(sock, S),
         \A c \in Sockets : S[c].sess = sock[c].sess,
         \A c \in Sockets : S[c].cli # "closed" => S[c] = sock[c],
         primary.ws # None => S[primary.ws] = sock[primary.ws],
         ~closing, ForceReconnect(S), UNCHANGED server, faults' \in 0..MaxFaults
  PROVE  IInv'
<1>0. None \notin Sockets
  BY DEF None, Sockets
<1>1. AllGood(sock) /\ TypeOK /\ ClientSide
  BY DEF IInv
<1>2. PICK U : U = ClientEnds(S, Attached)
  OBVIOUS
<1>3. /\ AllFade(S, U)
      /\ \A c \in Sockets :
           /\ U[c].sess = S[c].sess
           /\ c \in Attached => U[c].cli = "closed"
           /\ c \notin Attached => U[c].cli = S[c].cli
           /\ c \notin Attached /\ S[c].cli # "closed" => U[c] = S[c]
  BY <1>2, FadeGood, ClientEndsSpec
<1>4. PICK w \in Sockets \cup {None} : w = primary.ws
  BY <1>1 DEF TypeOK
<1>5. sock' = Terminate(U, w) /\ UNCHANGED <<primary, lastId, disconnected, generation, closing>>
      /\ rebuilding' = TRUE /\ NoLegs
  BY <1>2, <1>4 DEF ForceReconnect, CloseAttachLegs
<1>6. /\ AllFade(U, sock')
      /\ \A c \in Sockets :
           /\ sock'[c].sess = U[c].sess /\ sock'[c].role = U[c].role
           /\ sock'[c].cli = "closed" <=> U[c].cli = "closed"
      /\ w # None => sock'[w].cli \in {"closed", "dying"}
  BY <1>3, <1>5, FadeGood, TerminateSpec
<1>7. AllFade(sock, sock')
  <2>1. AllFade(sock, U)
    BY <1>1, <1>3, FadeTrans
  <2> QED BY <1>1, <1>6, <2>1, FadeTrans
<1>8. w # None => /\ w \in Sockets /\ w \notin Attached /\ sock[w].role = "primary"
                  /\ sock[w].cli # "closed" /\ S[w] = sock[w]
  BY <1>1, <1>4, ClientFacts DEF ClientSide
<1>9. w # None => sock'[w].role = "primary" /\ sock'[w].cli # "closed"
  BY <1>3, <1>6, <1>8
<1>10. \A c \in Sockets : sock'[c].cli # "closed" => c = w
  <2> SUFFICES ASSUME NEW c \in Sockets, sock'[c].cli # "closed" PROVE c = w
    OBVIOUS
  <2>1. c \notin Attached /\ S[c].cli # "closed"
    BY <1>3, <1>6
  <2>2. sock[c].cli # "closed"
    BY <2>1
  <2> QED BY <1>4, <2>1, <2>2, ClientFacts
<1>11. ~PrimaryReady'
  BY <1>4, <1>5, <1>6 DEF PrimaryReady, Ready
<1>12. /\ \A i \in Slots : slot'[i] = None /\ timer'[i] = Unarmed
       /\ slot' = [i \in Slots |-> None] /\ timer' = [i \in Slots |-> Unarmed]
       /\ attempt' = [i \in Slots |-> 0]
  BY <1>5 DEF NoLegs
<1>13. ClientSide' /\ SameId'
  <2>1. primary'.timer => primary'.ws = None /\ ~closing'
    BY <1>1, <1>5 DEF ClientSide
  <2>2. primary'.ws = w /\ ~closing'
    BY <1>4, <1>5
  <2>3. \A c \in Sockets : sock'[c].cli # "closed" =>
          ~closing' /\ c = primary'.ws /\ sock'[c].role # "attach"
    BY <1>0, <1>9, <1>10, <2>2
  <2> QED BY <1>9, <1>11, <1>12, <2>1, <2>2, <2>3, NoneLeft
<1>14. TypeOK'
  <2>1. sock' \in [Sockets -> Socket]
    BY <1>7 DEF AllFade
  <2>2. /\ slot' \in [Slots -> Sockets \cup {None}] /\ attempt' \in [Slots -> 0..(MaxAttach - 1)]
        /\ timer' \in [Slots -> [gen : 0..Generations, tid : TunnelIds \cup {None}]]
    BY <1>12, TableTypes
  <2> QED BY <1>1, <1>5, <2>1, <2>2 DEF TypeOK, server
<1> QED BY <1>3, <1>6, <1>7, <1>13, <1>14, TidyKeeps

\* The primary has closed, with all attach legs.
LEMMA PrimaryClosedKeeps ==
  ASSUME IInv, NEW w \in BOOLEAN, w \/ ~PrimaryReady, primary.ws # None,
         PrimaryClosed(w), PrimaryRetries,
         UNCHANGED <<server, lastId, rebuilding, generation, closing>>,
         faults' \in 0..MaxFaults
  PROVE  IInv'
<1>0. None \notin Sockets
  BY DEF None, Sockets
<1>1. AllGood(sock) /\ TypeOK /\ ClientSide /\ ~closing
  BY DEF IInv, ClientSide
<1>2. PICK P : P = {primary.ws}
  OBVIOUS
<1>3. /\ AllFade(sock, sock')
      /\ \A c \in Sockets : sock'[c].sess = sock[c].sess /\ sock'[c].cli = "closed"
      /\ disconnected' \in BOOLEAN
      /\ \/ NoLegs
         \/ ~PrimaryReady /\ UNCHANGED slotVars
  <2>1. CASE w
    <3>1. PICK U : U = ClientEnds(sock, Attached)
      OBVIOUS
    <3>2. sock' = ClientEnds(U, P) /\ NoLegs /\ disconnected' = TRUE
      BY <1>2, <2>1, <3>1 DEF PrimaryClosed, CloseAttachLegs
    <3>3. AllFade(sock, U) /\ \A c \in Sockets : U[c].sess = sock[c].sess
      BY <1>1, <3>1, ClientEndsSpec
    <3>4. \A c \in Sockets : U[c].cli # "closed" => c \in P
      <4> SUFFICES ASSUME NEW c \in Sockets, U[c].cli # "closed" PROVE c \in P
        OBVIOUS
      <4>1. c \notin Attached /\ sock[c].cli # "closed"
        BY <1>1, <3>1, ClientEndsSpec
      <4> QED BY <1>2, <4>1, ClientFacts
    <3>5. AllGood(U)
      BY <3>3, FadeGood
    <3>6. AllFade(U, sock') /\ \A c \in Sockets : sock'[c].sess = U[c].sess
      BY <3>2, <3>5, ClientEndsSpec
    <3>7. \A c \in Sockets : sock'[c].cli = "closed"
      BY <3>2, <3>4, <3>5, AllEnds
    <3>8. AllFade(sock, sock')
      BY <1>1, <3>3, <3>6, FadeTrans
    <3> QED BY <3>2, <3>3, <3>6, <3>7, <3>8
  <2>2. CASE ~w
    <3>1. sock' = ClientEnds(sock, P) /\ UNCHANGED <<disconnected, slotVars>>
      BY <1>2, <2>2 DEF PrimaryClosed
    <3>2. Attached = {}
      BY <1>1, <2>2, ClientFacts DEF Attached
    <3>3. \A c \in Sockets : sock[c].cli # "closed" => c \in P
      BY <1>2, <3>2, ClientFacts
    <3>4. AllFade(sock, sock') /\ \A c \in Sockets : sock'[c].sess = sock[c].sess
      BY <1>1, <3>1, ClientEndsSpec
    <3>5. \A c \in Sockets : sock'[c].cli = "closed"
      BY <1>1, <3>1, <3>3, AllEnds
    <3>6. disconnected' \in BOOLEAN
      BY <1>1, <3>1 DEF TypeOK
    <3> QED BY <2>2, <3>1, <3>4, <3>5, <3>6
  <2> QED BY <2>1, <2>2
<1>4. /\ \A i \in Slots : slot'[i] = None /\ timer'[i] = Unarmed
      /\ slot' \in [Slots -> Sockets \cup {None}] /\ attempt' \in [Slots -> 0..(MaxAttach - 1)]
      /\ timer' \in [Slots -> [gen : 0..Generations, tid : TunnelIds \cup {None}]]
  <2>1. CASE NoLegs
    BY <2>1, TableTypes DEF NoLegs
  <2>2. CASE ~PrimaryReady /\ UNCHANGED slotVars
    BY <1>1, <2>2, ClientFacts DEF TypeOK, slotVars
  <2> QED BY <1>3, <2>1, <2>2
<1>5. /\ primary' \in [ws : Sockets \cup {None}, timer : BOOLEAN,
                       attempts : 0..MaxRetries, promise : BOOLEAN, over : BOOLEAN]
      /\ primary'.ws = None
  <2>1. primary.attempts \in 0..MaxRetries
    BY <1>1 DEF TypeOK
  <2>2. CASE primary.attempts >= MaxRetries
    BY <1>1, <2>2 DEF PrimaryRetries, GivenUp, TypeOK
  <2>3. CASE ~(primary.attempts >= MaxRetries)
    <3>1. PICK n \in 0..MaxRetries : n = primary.attempts + 1
      BY <2>1, <2>3
    <3>2. primary' = [primary EXCEPT !.ws = None, !.timer = TRUE, !.attempts = n]
      BY <1>1, <2>3, <3>1 DEF PrimaryRetries, TypeOK
    <3> QED BY <1>1, <3>2 DEF TypeOK
  <2> QED BY <2>2, <2>3
<1>6. TypeOK'
  BY <1>1, <1>3, <1>4, <1>5 DEF TypeOK, server, AllFade
<1>7. ~PrimaryReady'
  BY <1>5 DEF PrimaryReady, Ready
<1>8. ClientSide' /\ SameId'
  BY <1>1, <1>3, <1>4, <1>5, <1>7, NoneLeft
<1> QED BY <1>3, <1>6, <1>8, TidyKeeps

\* connect() of an attach leg has failed, and the retry is armed or not.
LEMMA AttachFailedKeeps ==
  ASSUME IInv, NEW i \in Slots, slot[i] # None, sock[slot[i]].cli # "closed",
         AttachFailed(i), UNCHANGED server, faults' \in 0..MaxFaults
  PROVE  IInv'
<1>0. None \notin Sockets /\ None \notin TunnelIds
  BY DEF None, Sockets, TunnelIds
<1>1. AllGood(sock) /\ TypeOK /\ ClientSide /\ SameId /\ TimersCurrent /\ LatchReleased
  BY DEF IInv, ClientSide
<1>2. PICK c \in Sockets : c = slot[i]
  BY <1>1 DEF TypeOK
<1>3. PICK again \in BOOLEAN : again <=> (~closing /\ lastId = sock[c].want /\ MayRetry(i))
  OBVIOUS
<1>4. /\ slot' = [slot EXCEPT ![i] = None]
      /\ timer' = [timer EXCEPT ![i] =
           IF again THEN [gen |-> generation, tid |-> sock[c].want] ELSE timer[i]]
      /\ attempt' = [attempt EXCEPT ![i] = IF again THEN attempt[i] + 1 ELSE 0]
      /\ sock' = ClientEnds(sock, {c})
      /\ UNCHANGED <<primary, lastId, disconnected, rebuilding, generation, closing>>
  BY <1>1, <1>2, <1>3 DEF AttachFailed, TypeOK, groupVars
<1>5. PICK C : C = {c}
  OBVIOUS
<1>6. sock' = ClientEnds(sock, C)
  BY <1>4, <1>5
<1>7. /\ AllFade(sock, sock')
      /\ \A d \in Sockets :
           /\ sock'[d].sess = sock[d].sess
           /\ d # c => sock'[d].cli = sock[d].cli
           /\ d # c /\ sock[d].cli # "closed" => sock'[d] = sock[d]
      /\ sock'[c].cli = "closed"
  BY <1>1, <1>5, <1>6, ClientEndsSpec
<1>8. ~closing /\ sock[c].cli # "closed"
  BY <1>1, <1>2 DEF ClientSide
<1>9. PrimaryReady /\ sock[c].role = "attach" /\ sock[c].want = lastId
  BY <1>0, <1>1, <1>2, <1>8 DEF ClientSide
<1>10. lastId \in TunnelIds
  BY <1>1, <1>9 DEF AllGood, SocketGood
<1>11. PICK w \in Sockets : w = primary.ws /\ w # c /\ sock[w].cli = "ready"
  <2>1. c \in Attached
    BY <1>0, <1>2 DEF Attached
  <2> QED BY <1>8, <1>9, <2>1, ClientFacts DEF PrimaryReady, Ready
<1>12. sock'[w] = sock[w]
  BY <1>7, <1>11
<1>13. PrimaryReady' /\ primary'.ws = w /\ ~closing'
  BY <1>0, <1>4, <1>8, <1>11, <1>12 DEF PrimaryReady, Ready
<1>14. \A j \in Slots : slot'[j] = IF j = i THEN None ELSE slot[j]
  BY <1>1, <1>4 DEF TypeOK
<1>15. \A j \in Slots \ {i} : slot[j] # c
  BY <1>0, <1>1, <1>2 DEF ClientSide
<1>16. ASSUME NEW j \in Slots, slot'[j] # None
       PROVE  /\ sock'[slot'[j]].role = "attach" /\ sock'[slot'[j]].want = lastId'
              /\ sock'[slot'[j]].cli \in {"dialing", "hello", "ready"}
  <2>1. j # i /\ slot'[j] = slot[j] /\ slot[j] # None
    BY <1>14, <1>16
  <2>2. PICK d \in Sockets : d = slot[j] /\ d # c
    BY <1>1, <1>15, <2>1 DEF TypeOK
  <2>3. sock[d].role = "attach" /\ sock[d].want = lastId
        /\ sock[d].cli \in {"dialing", "hello", "ready"}
    BY <1>1, <1>8, <2>1, <2>2 DEF ClientSide
  <2>4. sock'[d] = sock[d]
    BY <1>7, <2>2, <2>3
  <2> QED BY <1>4, <2>1, <2>2, <2>3, <2>4
<1>17. \A j, k \in Slots : slot'[j] # None /\ slot'[j] = slot'[k] => j = k
  BY <1>1, <1>14 DEF ClientSide
<1>18. ASSUME NEW d \in Sockets, sock'[d].cli # "closed"
       PROVE  IF sock'[d].role = "attach" THEN d \in Attached' ELSE d = w
  <2>1. d # c /\ sock[d].cli # "closed" /\ sock'[d] = sock[d]
    BY <1>7, <1>18
  <2>2. IF sock[d].role = "attach" THEN d \in Attached ELSE d = w
    BY <1>1, <1>11, <2>1 DEF ClientSide
  <2>3. ASSUME d \in Attached PROVE d \in Attached'
    <3>1. PICK j \in Slots : slot[j] = d /\ d # None
      BY <2>3 DEF Attached
    <3>2. j # i
      BY <1>2, <2>1, <3>1
    <3> QED BY <1>14, <3>1, <3>2 DEF Attached
  <2> QED BY <2>1, <2>2, <2>3
<1>19. /\ \A j \in Slots \ {i} : timer'[j] = timer[j]
       /\ timer[i] = Unarmed
       /\ timer'[i] = IF again THEN [gen |-> generation, tid |-> lastId] ELSE Unarmed
  <2>1. timer[i] = Unarmed
    BY <1>1 DEF TimersCurrent
  <2> QED BY <1>1, <1>4, <1>9, <2>1 DEF TypeOK
<1>20. /\ \A j \in Slots : timer'[j] # Unarmed => timer'[j].tid \in TunnelIds
       /\ TimersCurrent'
  <2> SUFFICES ASSUME NEW j \in Slots, timer'[j] # Unarmed
               PROVE  /\ slot'[j] = None /\ timer'[j].gen = generation'
                      /\ timer'[j].tid = lastId' /\ timer'[j].tid \in TunnelIds
    BY <1>13 DEF TimersCurrent
  <2>1. CASE j = i
    BY <1>4, <1>10, <1>14, <1>19, <2>1
  <2>2. CASE j # i
    <3>1. timer[j] # Unarmed /\ timer'[j] = timer[j]
      BY <1>19, <2>2
    <3> QED BY <1>1, <1>4, <1>10, <1>14, <2>2, <3>1 DEF TimersCurrent
  <2> QED BY <2>1, <2>2
<1>21. LatchReleased' /\ ~disconnected' /\ ~primary'.promise
  BY <1>1, <1>4, <1>9 DEF LatchReleased, ClientSide
<1>22. sock'[w].role = "primary" /\ sock'[w].cli # "closed" /\ ~primary'.timer
  BY <1>0, <1>1, <1>4, <1>11, <1>12 DEF ClientSide
<1>23. ClientSide'
  BY <1>13, <1>16, <1>17, <1>18, <1>20, <1>21, <1>22 DEF ClientSide
<1>24. SameId'
  BY <1>1, <1>4, <1>9, <1>13 DEF SameId, server
<1>25. TypeOK'
  <2>1. slot' \in [Slots -> Sockets \cup {None}]
    BY <1>1, <1>4 DEF TypeOK
  <2>2. attempt' \in [Slots -> 0..(MaxAttach - 1)]
    <3>1. PICK n \in 0..(MaxAttach - 1) : n = IF again THEN attempt[i] + 1 ELSE 0
      <4>1. attempt[i] \in 0..(MaxAttach - 1)
        BY <1>1 DEF TypeOK
      <4> QED BY <1>3, <4>1, TableTypes DEF MayRetry
    <3> QED BY <1>1, <1>4, <3>1 DEF TypeOK
  <2>3. timer' \in [Slots -> [gen : 0..Generations, tid : TunnelIds \cup {None}]]
    BY <1>1, <1>4, <1>9 DEF TypeOK
  <2> QED BY <1>1, <1>4, <1>7, <2>1, <2>2, <2>3 DEF TypeOK, AllFade, server
<1> QED BY <1>7, <1>23, <1>24, <1>25, TidyKeeps

\* The close event of an attach leg.
LEMMA AttachClosedKeeps ==
  ASSUME IInv, NEW i \in Slots, slot[i] # None, sock[slot[i]].cli # "closed",
         AttachClosed(i), UNCHANGED server, faults' \in 0..MaxFaults
  PROVE  IInv'
<1>1. AllGood(sock) /\ TypeOK /\ ClientSide /\ LatchReleased
  BY DEF IInv, ClientSide
<1>2. PICK c \in Sockets : c = slot[i]
  BY <1>1 DEF TypeOK
<1>3. ~closing
  BY <1>1, <1>2 DEF ClientSide
<1>4. ~(closing \/ disconnected \/ rebuilding)
  BY <1>1, <1>3 DEF ClientSide, LatchReleased
<1>5. CASE sock[c].cli = "hello"
  BY <1>2, <1>5, AttachFailedKeeps DEF AttachClosed
<1>6. CASE sock[c].cli # "hello"
  <2>1. PICK C : C = {c}
    OBVIOUS
  <2>2. PICK S : S = ClientEnds(sock, C)
    OBVIOUS
  <2>3. ForceReconnect(S)
    BY <1>2, <1>4, <1>6, <2>1, <2>2 DEF AttachClosed
  <2>4. /\ AllFade(sock, S)
        /\ \A d \in Sockets :
             /\ S[d].sess = sock[d].sess
             /\ d \in C => S[d].cli = "closed"
             /\ d \notin C => S[d].cli = sock[d].cli
             /\ d \notin C /\ sock[d].cli # "closed" => S[d] = sock[d]
    BY <1>1, <2>2, ClientEndsSpec
  <2>5. \A d \in Sockets : S[d].cli # "closed" => S[d] = sock[d]
    BY <2>4
  <2>6. primary.ws # None => S[primary.ws] = sock[primary.ws]
    <3>1. c \in Attached
      BY <1>2 DEF Attached
    <3>2. primary.ws # c /\ primary.ws \in Sockets \cup {None}
      BY <1>3, <3>1, ClientFacts
    <3>3. primary.ws # None => sock[primary.ws].cli # "closed"
      BY <1>1 DEF ClientSide
    <3> QED BY <2>1, <2>4, <3>2, <3>3
  <2> QED BY <1>3, <2>3, <2>4, <2>5, <2>6, ForceReconnectKeeps
<1> QED BY <1>5, <1>6

LEMMA HandleCloseKeeps ==
  ASSUME IInv, NEW c \in Sockets, sock[c].cli # "closed", NEW w \in BOOLEAN,
         c = primary.ws => w \/ ~PrimaryReady,
         HandleClose(c, w), UNCHANGED server, faults' \in 0..MaxFaults
  PROVE  IInv'
<1>0. None \notin Sockets
  BY DEF None, Sockets
<1>1. CASE /\ c = primary.ws /\ PrimaryClosed(w) /\ PrimaryRetries
           /\ UNCHANGED <<lastId, rebuilding, generation, closing>>
  BY <1>0, <1>1, PrimaryClosedKeeps
<1>2. CASE \E i \in Slots : slot[i] = c /\ AttachClosed(i)
  BY <1>0, <1>2, AttachClosedKeeps
<1> QED BY <1>1, <1>2 DEF HandleClose

LEMMA ReadCloseKeeps ==
  ASSUME IInv, NEW c \in Sockets, ReadClose(c)
  PROVE  IInv'
<1>1. PICK w \in BOOLEAN : w <=> sock[c].cli = "ready"
  OBVIOUS
<1>2. (sock[c].cli = "ready") = w
  BY <1>1
<1>3. sock[c].cli # "closed" /\ HandleClose(c, w) /\ UNCHANGED <<server, faults>>
  BY <1>2 DEF ReadClose
<1>4. faults' \in 0..MaxFaults
  BY <1>3 DEF IInv, TypeOK
<1>5. c = primary.ws => w \/ ~PrimaryReady
  BY <1>1 DEF PrimaryReady, Ready
<1> QED BY <1>3, <1>4, <1>5, HandleCloseKeeps

LEMMA DiedKeeps ==
  ASSUME IInv, NEW c \in Sockets, Died(c)
  PROVE  IInv'
<1>0. None \notin Sockets
  BY DEF None, Sockets
<1>1. PICK w \in BOOLEAN : w <=> (~disconnected /\ ~primary.promise)
  OBVIOUS
<1>2. disconnected \in BOOLEAN /\ primary.promise \in BOOLEAN
  BY DEF IInv, TypeOK
<1>3. (~disconnected /\ ~primary.promise) = w
  BY <1>1, <1>2
<1>4. /\ c = primary.ws /\ sock[c].cli = "dying" /\ PrimaryClosed(w) /\ PrimaryRetries
      /\ UNCHANGED <<server, lastId, rebuilding, generation, closing, faults>>
  BY <1>3 DEF Died
<1>5. ~PrimaryReady /\ primary.ws # None /\ faults' \in 0..MaxFaults
  BY <1>0, <1>4 DEF PrimaryReady, Ready, IInv, TypeOK
<1> QED BY <1>4, <1>5, PrimaryClosedKeeps

LEMMA DialFailsKeeps ==
  ASSUME IInv, NEW c \in Sockets, DialFails(c)
  PROVE  IInv'
<1>0. None \notin Sockets
  BY DEF None, Sockets
<1>1. faults' \in 0..MaxFaults
  BY FaultsCount DEF DialFails, IInv
<1>2. sock[c].cli = "dialing" /\ UNCHANGED server
  BY DEF DialFails
<1>3. CASE c = primary.ws /\ HandleClose(c, FALSE)
  <2>1. ~PrimaryReady
    BY <1>2, <1>3 DEF PrimaryReady, Ready
  <2> QED BY <1>1, <1>2, <1>3, <2>1, HandleCloseKeeps
<1>4. CASE \E i \in Slots : slot[i] = c /\ AttachFailed(i)
  BY <1>0, <1>1, <1>2, <1>4, AttachFailedKeeps
<1> QED BY <1>3, <1>4 DEF DialFails

LEMMA AttachTimeoutKeeps ==
  ASSUME IInv, NEW i \in Slots, AttachTimeout(i)
  PROVE  IInv'
<1>1. faults' \in 0..MaxFaults
  BY FaultsCount DEF AttachTimeout, IInv
<1>2. slot[i] # None /\ sock[slot[i]].cli # "closed" /\ AttachFailed(i) /\ UNCHANGED server
  BY DEF AttachTimeout
<1> QED BY <1>1, <1>2, AttachFailedKeeps

LEMMA OverflowKeeps ==
  ASSUME IInv, Overflow
  PROVE  IInv'
<1>1. AllGood(sock) /\ ClientSide
  BY DEF IInv
<1>2. faults' \in 0..MaxFaults /\ UNCHANGED server /\ ForceReconnect(sock)
  BY FaultsCount DEF Overflow, IInv
<1>3. ~closing
  BY <1>1 DEF Overflow, ClientSide
<1>4. AllFade(sock, sock)
  BY <1>1, FadesSelf DEF AllFade, AllGood
<1> QED BY <1>2, <1>3, <1>4, ForceReconnectKeeps

LEMMA GivenUpType ==
  ASSUME TypeOK
  PROVE  /\ GivenUp \in [ws : Sockets \cup {None}, timer : BOOLEAN,
                         attempts : 0..MaxRetries, promise : BOOLEAN, over : BOOLEAN]
         /\ GivenUp.ws = None /\ ~GivenUp.timer
BY DEF TypeOK, GivenUp

LEMMA ConnectTimeoutKeeps ==
  ASSUME IInv, ConnectTimeout
  PROVE  IInv'
<1>1. AllGood(sock) /\ TypeOK /\ ClientSide
  BY DEF IInv
<1>2. /\ primary.promise /\ primary' = GivenUp /\ sock' = ClientEnds(sock, {primary.ws})
      /\ UNCHANGED <<server, lastId, disconnected, rebuilding, generation, closing, slot, attempt,
                     timer>>
      /\ faults' \in 0..MaxFaults
  BY <1>1, FaultsCount DEF ConnectTimeout, groupVars, slotVars
<1>3. PICK C : C = {primary.ws}
  OBVIOUS
<1>4. sock' = ClientEnds(sock, C)
  BY <1>2, <1>3
<1>5. ~PrimaryReady
  BY <1>1, <1>2 DEF ClientSide
<1>6. \A c \in Sockets : sock[c].cli # "closed" => c \in C
  <2> SUFFICES ASSUME NEW c \in Sockets, sock[c].cli # "closed" PROVE c \in C
    OBVIOUS
  <2>1. ~closing /\ c \in Attached \cup {primary.ws}
    BY ClientFacts
  <2>2. Attached = {}
    BY <1>5, <2>1, ClientFacts DEF Attached
  <2> QED BY <1>3, <2>1, <2>2
<1>7. /\ AllFade(sock, sock')
      /\ \A c \in Sockets : sock'[c].sess = sock[c].sess
  BY <1>1, <1>4, ClientEndsSpec
<1>8. \A c \in Sockets : sock'[c].cli = "closed"
  BY <1>1, <1>4, <1>6, AllEnds
<1>9. ~PrimaryReady' /\ primary'.ws = None /\ ~primary'.timer
  BY <1>1, <1>2, GivenUpType DEF PrimaryReady, Ready
<1>10. closing' \/ \A i \in Slots : slot'[i] = None
  BY <1>2, <1>5, ClientFacts
<1>11. /\ \A i, j \in Slots : slot'[i] # None /\ slot'[i] = slot'[j] => i = j
       /\ \A i \in Slots : timer'[i] = Unarmed
  BY <1>1, <1>2, <1>5, ClientFacts DEF ClientSide
<1>12. ClientSide' /\ SameId'
  BY <1>8, <1>9, <1>10, <1>11, NoneLeft
<1>13. TypeOK'
  BY <1>1, <1>2, <1>7, GivenUpType DEF TypeOK, AllFade, server
<1> QED BY <1>2, <1>7, <1>12, <1>13, TidyKeeps

LEMMA CloseKeeps ==
  ASSUME IInv, Close
  PROVE  IInv'
<1>1. AllGood(sock) /\ TypeOK /\ ClientSide
  BY DEF IInv
<1>2. /\ closing' = TRUE /\ timer' = [i \in Slots |-> Unarmed] /\ primary' = GivenUp
      /\ UNCHANGED <<server, lastId, disconnected, rebuilding, generation, slot, attempt, faults>>
  BY DEF Close
<1>3. PICK C : C = Attached \cup {primary.ws}
  OBVIOUS
<1>4. sock' = ClientEnds(sock, C)
  BY <1>3 DEF Close
<1>5. \A c \in Sockets : sock[c].cli # "closed" => c \in C
  BY <1>3, ClientFacts
<1>6. /\ AllFade(sock, sock')
      /\ \A c \in Sockets : sock'[c].sess = sock[c].sess
  BY <1>1, <1>4, ClientEndsSpec
<1>7. \A c \in Sockets : sock'[c].cli = "closed"
  BY <1>1, <1>4, <1>5, AllEnds
<1>8. ~PrimaryReady' /\ primary'.ws = None /\ ~primary'.timer
  BY <1>1, <1>2, GivenUpType DEF PrimaryReady, Ready
<1>9. /\ \A i, j \in Slots : slot'[i] # None /\ slot'[i] = slot'[j] => i = j
      /\ \A i \in Slots : timer'[i] = Unarmed
  BY <1>1, <1>2 DEF ClientSide
<1>10. ClientSide' /\ SameId'
  BY <1>2, <1>7, <1>8, <1>9, NoneLeft
<1>11. TypeOK'
  <2>1. timer' \in [Slots -> [gen : 0..Generations, tid : TunnelIds \cup {None}]]
    BY <1>2, TableTypes
  <2> QED BY <1>1, <1>2, <1>6, <2>1, GivenUpType DEF TypeOK, AllFade, server
<1> QED BY <1>2, <1>6, <1>10, <1>11, TidyKeeps

\* The primary dials again.
LEMMA RetryTimerKeeps ==
  ASSUME IInv, RetryTimer
  PROVE  IInv'
<1>0. None \notin Sockets
  BY DEF None, Sockets
<1>1. /\ AllGood(sock) /\ TypeOK /\ ServerSide /\ ClientSide /\ sock \in [Sockets -> Socket]
      /\ \A d \in Sockets : sock[d] \in Socket /\ SocketGood(sock[d])
  BY DEF IInv, AllGood
<1>2. PICK c : c = Lowest(FreeSockets(sock))
  OBVIOUS
<1>3. c \in Sockets /\ sock[c].cli = "closed" /\ Unused(c)
  BY <1>2, LowestFree, FreeFacts DEF RetryTimer
<1>4. PICK g : g = Dial("primary", lastId)
  OBVIOUS
<1>5. /\ g \in Socket /\ SocketGood(g) /\ g.role = "primary" /\ g.cli = "dialing" /\ g.sess = None
  <2>1. lastId \in TunnelIds \cup {None}
    BY <1>1 DEF TypeOK
  <2> QED BY <1>4, <2>1, DialGood
<1>6. /\ sock' = [sock EXCEPT ![c] = g] /\ primary' = [primary EXCEPT !.ws = c, !.timer = FALSE]
      /\ UNCHANGED <<server, lastId, disconnected, rebuilding, generation, closing, slot, attempt,
                     timer, faults>>
  BY <1>2, <1>4 DEF RetryTimer, groupVars, slotVars
<1>7. sock' \in [Sockets -> Socket] /\ \A d \in Sockets : sock'[d] = IF d = c THEN g ELSE sock[d]
  BY <1>1, <1>5, <1>6
<1>8. AllGood(sock)'
  BY <1>1, <1>5, <1>7 DEF AllGood
<1>9. ServerSide'
  <2>1. ASSUME NEW d \in Sockets
        PROVE  \/ Keeps(sock[d], sock'[d])
               \/ Unused(d) /\ sock'[d].sess = None
    <3>1. CASE d = c
      BY <1>3, <1>5, <1>7, <3>1
    <3>2. CASE d # c
      BY <1>7, <3>2, SelfKeeps
    <3> QED BY <3>1, <3>2
  <2> QED BY <1>1, <1>6, <2>1, ServerKept
<1>10. ~PrimaryReady /\ ~closing /\ primary.ws = None
  BY <1>1 DEF RetryTimer, ClientSide, PrimaryReady, Ready
<1>11. /\ primary'.ws = c /\ primary'.timer = FALSE
       /\ primary' \in [ws : Sockets \cup {None}, timer : BOOLEAN,
                        attempts : 0..MaxRetries, promise : BOOLEAN, over : BOOLEAN]
  BY <1>1, <1>3, <1>6 DEF TypeOK
<1>12. ~PrimaryReady' /\ sock'[primary'.ws].role = "primary" /\ sock'[primary'.ws].cli # "closed"
  BY <1>3, <1>5, <1>7, <1>11 DEF PrimaryReady, Ready
<1>13. \A d \in Sockets : sock'[d].cli # "closed" =>
         ~closing' /\ d = primary'.ws /\ sock'[d].role # "attach"
  <2> SUFFICES ASSUME NEW d \in Sockets, sock'[d].cli # "closed"
               PROVE  ~closing' /\ d = primary'.ws /\ sock'[d].role # "attach"
    OBVIOUS
  <2>1. Attached = {}
    BY <1>10, ClientFacts DEF Attached
  <2>2. d = c
    <3>1. CASE d # c
      <4>1. sock[d].cli # "closed"
        BY <1>7, <3>1
      <4> QED BY <1>0, <1>10, <2>1, <4>1, ClientFacts
    <3> QED BY <3>1
  <2> QED BY <1>5, <1>6, <1>7, <1>10, <1>11, <2>2
<1>14. /\ \A i \in Slots : slot'[i] = None /\ timer'[i] = Unarmed
  BY <1>6, <1>10, ClientFacts
<1>15. ClientSide' /\ SameId'
  BY <1>6, <1>10, <1>11, <1>12, <1>13, <1>14, NoneLeft
<1>16. TypeOK'
  BY <1>1, <1>6, <1>7, <1>11 DEF TypeOK, server
<1> QED BY <1>8, <1>9, <1>15, <1>16 DEF IInv

\* A retry timer of an attach leg fires.
LEMMA AttachTimerKeeps ==
  ASSUME IInv, NEW i \in Slots, AttachTimer(i)
  PROVE  IInv'
<1>0. None \notin Sockets
  BY DEF None, Sockets
<1>1. /\ AllGood(sock) /\ TypeOK /\ ServerSide /\ ClientSide /\ SameId /\ sock \in [Sockets -> Socket]
      /\ TimersCurrent /\ LatchReleased
      /\ \A d \in Sockets : sock[d] \in Socket /\ SocketGood(sock[d])
  BY DEF IInv, AllGood, ClientSide
<1>2. /\ slot[i] = None /\ timer[i].gen = generation /\ timer[i].tid = lastId /\ PrimaryReady
      /\ ~closing /\ ~disconnected /\ lastId \in TunnelIds
  BY <1>1 DEF AttachTimer, TimersCurrent, ClientSide
<1>3. PICK c : c = Lowest(FreeSockets(sock))
  OBVIOUS
<1>4. c \in Sockets /\ sock[c].cli = "closed" /\ Unused(c)
  BY <1>3, LowestFree, FreeFacts DEF AttachTimer
<1>5. PICK g : g = Dial("attach", lastId)
  OBVIOUS
<1>6. /\ g \in Socket /\ SocketGood(g) /\ g.role = "attach" /\ g.want = lastId
      /\ g.cli = "dialing" /\ g.sess = None
  BY <1>2, <1>5, DialGood
<1>7. /\ sock' = [sock EXCEPT ![c] = g] /\ slot' = [slot EXCEPT ![i] = c]
      /\ timer' = [timer EXCEPT ![i] = Unarmed]
      /\ UNCHANGED <<server, primary, lastId, disconnected, rebuilding, generation, closing, attempt,
                     faults>>
  BY <1>2, <1>3, <1>5 DEF AttachTimer, groupVars
<1>8. sock' \in [Sockets -> Socket] /\ \A d \in Sockets : sock'[d] = IF d = c THEN g ELSE sock[d]
  BY <1>1, <1>6, <1>7
<1>9. AllGood(sock)'
  BY <1>1, <1>6, <1>8 DEF AllGood
<1>10. ServerSide'
  <2>1. ASSUME NEW d \in Sockets
        PROVE  \/ Keeps(sock[d], sock'[d])
               \/ Unused(d) /\ sock'[d].sess = None
    <3>1. CASE d = c
      BY <1>4, <1>6, <1>8, <3>1
    <3>2. CASE d # c
      BY <1>8, <3>2, SelfKeeps
    <3> QED BY <3>1, <3>2
  <2> QED BY <1>1, <1>7, <2>1, ServerKept
<1>11. PICK w \in Sockets : w = primary.ws /\ sock[w].cli = "ready" /\ w # c
  BY <1>1, <1>2, <1>4 DEF TypeOK, PrimaryReady, Ready
<1>12. PrimaryReady' /\ primary'.ws = w /\ sock'[w] = sock[w]
  BY <1>0, <1>7, <1>8, <1>11 DEF PrimaryReady, Ready
<1>13. \A j \in Slots : /\ slot'[j] = IF j = i THEN c ELSE slot[j]
                        /\ timer'[j] = IF j = i THEN Unarmed ELSE timer[j]
  BY <1>1, <1>7 DEF TypeOK
<1>14. \A j \in Slots : slot[j] # None =>
         /\ slot[j] \in Sockets /\ slot[j] # c
         /\ sock[slot[j]].role = "attach" /\ sock[slot[j]].want = lastId
         /\ sock[slot[j]].cli \in {"dialing", "hello", "ready"}
  BY <1>1, <1>2, <1>4 DEF TypeOK, ClientSide
<1>15. ASSUME NEW j \in Slots, slot'[j] # None
       PROVE  /\ sock'[slot'[j]].role = "attach" /\ sock'[slot'[j]].want = lastId'
              /\ sock'[slot'[j]].cli \in {"dialing", "hello", "ready"}
  <2>1. CASE j = i
    BY <1>4, <1>6, <1>7, <1>8, <1>13, <2>1
  <2>2. CASE j # i
    BY <1>7, <1>8, <1>13, <1>14, <1>15, <2>2
  <2> QED BY <2>1, <2>2
<1>16. \A j, k \in Slots : slot'[j] # None /\ slot'[j] = slot'[k] => j = k
  BY <1>0, <1>1, <1>4, <1>13, <1>14 DEF ClientSide
<1>17. ASSUME NEW d \in Sockets, sock'[d].cli # "closed"
       PROVE  IF sock'[d].role = "attach" THEN d \in Attached' ELSE d = w
  <2>1. CASE d = c
    <3>1. d \in Attached'
      BY <1>0, <1>4, <1>13, <2>1 DEF Attached
    <3> QED BY <1>6, <1>8, <2>1, <3>1
  <2>2. CASE d # c
    <3>1. sock'[d] = sock[d]
      BY <1>8, <2>2
    <3>2. IF sock[d].role = "attach" THEN d \in Attached ELSE d = w
      BY <1>1, <1>11, <1>17, <3>1 DEF ClientSide
    <3>3. d \in Attached => d \in Attached'
      BY <1>2, <1>13 DEF Attached
    <3> QED BY <3>1, <3>2, <3>3
  <2> QED BY <2>1, <2>2
<1>18. /\ TimersCurrent'
       /\ \A j \in Slots : timer'[j] # Unarmed => ~closing' /\ timer'[j].tid \in TunnelIds
  <2> SUFFICES ASSUME NEW j \in Slots, timer'[j] # Unarmed
               PROVE  /\ slot'[j] = None /\ timer'[j].gen = generation'
                      /\ timer'[j].tid = lastId' /\ ~closing' /\ timer'[j].tid \in TunnelIds
    BY <1>12 DEF TimersCurrent
  <2>1. j # i /\ timer'[j] = timer[j] /\ slot'[j] = slot[j] /\ timer[j] # Unarmed
    BY <1>13
  <2>2. slot[j] = None /\ timer[j].gen = generation /\ timer[j].tid = lastId
    BY <1>1, <2>1 DEF TimersCurrent
  <2> QED BY <1>2, <1>7, <2>1, <2>2
<1>19. LatchReleased' /\ ~disconnected' /\ ~primary'.promise /\ ~closing'
  BY <1>1, <1>2, <1>7 DEF LatchReleased, ClientSide
<1>20. sock'[w].role = "primary" /\ sock'[w].cli # "closed" /\ ~primary'.timer
  BY <1>0, <1>1, <1>7, <1>11, <1>12 DEF ClientSide
<1>21. ClientSide'
  BY <1>12, <1>15, <1>16, <1>17, <1>18, <1>19, <1>20 DEF ClientSide
<1>22. SameId'
  BY <1>1, <1>2, <1>7, <1>12 DEF SameId, server
<1>23. TypeOK'
  <2>1. slot' \in [Slots -> Sockets \cup {None}]
    BY <1>1, <1>4, <1>7 DEF TypeOK
  <2>2. timer' \in [Slots -> [gen : 0..Generations, tid : TunnelIds \cup {None}]]
    BY <1>1, <1>7, TableTypes DEF TypeOK
  <2> QED BY <1>1, <1>7, <1>8, <2>1, <2>2 DEF TypeOK, server
<1> QED BY <1>9, <1>10, <1>21, <1>22, <1>23 DEF IInv

\* Every empty slot gets a socket of its own.
Placed(E, F) ==
  [i \in E |-> CHOOSE d \in F : Cardinality(Below(F, d)) = Cardinality(Below(E, i))]

LEMMA Places ==
  ASSUME NEW E \in SUBSET Int, IsFiniteSet(E), NEW F \in SUBSET Int, IsFiniteSet(F),
         Cardinality(E) <= Cardinality(F)
  PROVE  /\ \A i \in E : Placed(E, F)[i] \in F
         /\ \A i, j \in E : Placed(E, F)[i] = Placed(E, F)[j] => i = j
<1>0. PICK p : p = Placed(E, F)
  OBVIOUS
<1>1. ASSUME NEW i \in E
      PROVE  p[i] \in F /\ Cardinality(Below(F, p[i])) = Cardinality(Below(E, i))
  <2>1. PICK k : k = Cardinality(Below(E, i))
    OBVIOUS
  <2>2. k \in 0..(Cardinality(F) - 1)
    <3>1. Cardinality(E) \in Nat /\ k \in 0..(Cardinality(E) - 1)
      BY <2>1, Ranks
    <3>2. Cardinality(F) \in Nat
      BY FS_CardinalityType
    <3> QED BY <3>1, <3>2
  <2>3. \E d \in F : Cardinality(Below(F, d)) = k
    BY <2>2, Ranks
  <2>4. p[i] = CHOOSE d \in F : Cardinality(Below(F, d)) = k
    BY <1>0, <2>1 DEF Placed
  <2> QED BY <2>1, <2>3, <2>4
<1>2. ASSUME NEW i \in E, NEW j \in E, p[i] = p[j] PROVE i = j
  <2>1. Cardinality(Below(E, i)) = Cardinality(Below(E, j))
    BY <1>1, <1>2
  <2> QED BY <2>1, Ranks
<1> QED BY <1>0, <1>1, <1>2

\* The primary is ready: a new generation and new attach legs.
LEMMA ConnectedKeeps ==
  ASSUME IInv, NEW c \in Sockets, Connected(c)
  PROVE  IInv'
<1>0. None \notin Sockets /\ None \notin TunnelIds
  BY DEF None, Sockets, TunnelIds
<1>1. /\ AllGood(sock) /\ TypeOK /\ ServerSide /\ ClientSide /\ sock \in [Sockets -> Socket]
      /\ \A d \in Sockets : sock[d] \in Socket /\ SocketGood(sock[d])
  BY DEF IInv, AllGood
<1>2. /\ primary.ws = c /\ sock[c].cli = "hello" /\ ~PrimaryReady /\ ~closing
      /\ sock[c].role = "primary" /\ ~primary.timer
  BY <1>0, <1>1 DEF Connected, PrimaryReady, Ready, ClientSide
<1>3. \A i \in Slots : slot[i] = None /\ timer[i] = Unarmed
  BY <1>2, ClientFacts
<1>4. Attached = {}
  BY <1>3 DEF Attached
<1>5. PICK t : t = Head(sock[c].down).tid
  OBVIOUS
<1>6. PICK E : E = {i \in Spawned : slot[i] = None}
  OBVIOUS
<1>7. PICK F : F = FreeSockets(sock)
  OBVIOUS
<1>8. PICK p : p = Placed(E, F)
  OBVIOUS
<1>9. PICK g : g = [sock[c] EXCEPT !.cli = "ready", !.down = Tail(sock[c].down)]
  OBVIOUS
<1>10. PICK a : a = Dial("attach", t)
  OBVIOUS
<1>11. /\ Cardinality(E) <= Cardinality(F) /\ lastId' = t
       /\ primary' = [primary EXCEPT !.attempts = 0, !.promise = FALSE]
       /\ slot' = [i \in Slots |-> IF i \in E THEN p[i] ELSE slot[i]]
       /\ attempt' = [i \in Slots |-> IF i \in E THEN 0 ELSE attempt[i]]
       /\ sock' = [d \in Sockets |-> IF d = c THEN g
                                     ELSE IF \E i \in E : p[i] = d THEN a ELSE sock[d]]
  <2>1. \A i \in E : p[i] = CHOOSE d \in F : Cardinality({e \in F : e < d})
                                              = Cardinality({j \in E : j < i})
    BY <1>8 DEF Placed, Below
  <2>2. Cardinality(E) <= Cardinality(F) /\ lastId' = t
        /\ primary' = [primary EXCEPT !.attempts = 0, !.promise = FALSE]
    BY <1>5, <1>6, <1>7 DEF Connected
  <2>3. /\ slot' = [i \in Slots |->
             IF i \in E THEN CHOOSE d \in F : Cardinality({e \in F : e < d})
                                              = Cardinality({j \in E : j < i})
             ELSE slot[i]]
        /\ attempt' = [i \in Slots |-> IF i \in E THEN 0 ELSE attempt[i]]
    BY <1>6, <1>7 DEF Connected
  <2>4. sock' = [d \in Sockets |-> IF d = c THEN g
                  ELSE IF \E i \in E : (CHOOSE x \in F : Cardinality({e \in F : e < x})
                                               = Cardinality({j \in E : j < i})) = d
                       THEN a ELSE sock[d]]
    BY <1>1, <1>5, <1>6, <1>7, <1>9, <1>10 DEF Connected
  <2>5. slot' = [i \in Slots |-> IF i \in E THEN p[i] ELSE slot[i]]
    BY <2>1, <2>3
  <2>6. sock' = [d \in Sockets |-> IF d = c THEN g
                                   ELSE IF \E i \in E : p[i] = d THEN a ELSE sock[d]]
    BY <2>1, <2>4
  <2> QED BY <2>2, <2>3, <2>5, <2>6
<1>12. /\ generation' = (generation % Generations) + 1 /\ disconnected' = FALSE
       /\ rebuilding' = FALSE
       /\ UNCHANGED <<session, registry, closing, timer, faults>>
  BY DEF Connected, UpAgain, server
<1>13. E \in SUBSET Slots /\ E \in SUBSET Int /\ IsFiniteSet(E)
  <2>1. \A i \in Spawned : i \in Slots
    BY DEF Spawned, Slots, MaxLegs
  <2>2. E \in SUBSET Slots
    BY <1>6, <2>1
  <2>3. IsFiniteSet(Slots) /\ Slots \in SUBSET Int
    BY FS_Interval DEF Slots
  <2> QED BY <2>2, <2>3, FS_Subset
<1>14. /\ \A i \in E : p[i] \in F
       /\ \A i, j \in E : p[i] = p[j] => i = j
  BY <1>7, <1>8, <1>11, <1>13, FreeFacts, Places
<1>15. \A d \in F : d \in Sockets /\ sock[d].cli = "closed" /\ Unused(d) /\ d # c
  BY <1>2, <1>7, FreeFacts
<1>16. /\ g \in Socket /\ SocketGood(g) /\ Keeps(sock[c], g)
       /\ g.cli = "ready" /\ g.role = sock[c].role /\ g.sess = sock[c].sess
       /\ t \in Acks(sock[c].down)
  <2>1. PICK r \in Socket : r = sock[c] /\ SocketGood(r)
    BY <1>1
  <2>2. r.cli = "hello" /\ r.down # <<>> /\ Head(r.down).type = "ack"
    BY <2>1 DEF Connected
  <2>3. PICK f : f = [r EXCEPT !.cli = "ready", !.down = Tail(r.down)]
    OBVIOUS
  <2>4. /\ f \in Socket /\ SocketGood(f) /\ Keeps(r, f)
        /\ f.cli = "ready" /\ f.role = r.role /\ f.sess = r.sess
        /\ Head(r.down).tid \in Acks(r.down)
    BY <2>1, <2>2, <2>3, ReadyFields
  <2> QED BY <1>5, <1>9, <2>1, <2>3, <2>4
<1>17. t \in TunnelIds
  BY <1>16 DEF Acks
<1>18. /\ a \in Socket /\ SocketGood(a) /\ a.role = "attach" /\ a.want = t
       /\ a.cli = "dialing" /\ a.sess = None
  BY <1>10, <1>17, DialGood
<1>19. \A d \in Sockets : sock'[d] = IF d = c THEN g
                                     ELSE IF \E i \in E : p[i] = d THEN a ELSE sock[d]
  BY <1>11
<1>20. AllGood(sock)'
  <2>1. \A d \in Sockets : sock'[d] \in Socket /\ SocketGood(sock'[d])
    BY <1>1, <1>16, <1>18, <1>19
  <2>2. sock' \in [Sockets -> Socket]
    BY <1>11, <2>1
  <2> QED BY <2>1, <2>2 DEF AllGood
<1>21. ServerSide'
  <2>1. ASSUME NEW d \in Sockets
        PROVE  \/ Keeps(sock[d], sock'[d])
               \/ Unused(d) /\ sock'[d].sess = None
    <3>1. CASE d = c
      BY <1>16, <1>19, <3>1
    <3>2. CASE d # c /\ \E i \in E : p[i] = d
      <4>1. sock'[d] = a /\ d \in F
        BY <1>14, <1>19, <3>2
      <4> QED BY <1>15, <1>18, <4>1
    <3>3. CASE d # c /\ ~\E i \in E : p[i] = d
      <4>1. sock'[d] = sock[d]
        BY <1>19, <3>3
      <4> QED BY <4>1, SelfKeeps
    <3> QED BY <3>1, <3>2, <3>3
  <2>2. UNCHANGED server
    BY DEF Connected
  <2> QED BY <1>1, <2>1, <2>2, ServerKept
<1>22. primary'.ws = c /\ ~primary'.promise /\ ~primary'.timer
       /\ primary' \in [ws : Sockets \cup {None}, timer : BOOLEAN,
                        attempts : 0..MaxRetries, promise : BOOLEAN, over : BOOLEAN]
  BY <1>1, <1>2, <1>11, TableTypes DEF TypeOK
<1>23. PrimaryReady' /\ sock'[c] = g
  BY <1>0, <1>16, <1>19, <1>22 DEF PrimaryReady, Ready
<1>24. \A i \in Slots : slot'[i] = IF i \in E THEN p[i] ELSE None
  BY <1>3, <1>11
<1>25. ASSUME NEW i \in Slots, slot'[i] # None
       PROVE  /\ slot'[i] \in Sockets /\ sock'[slot'[i]].role = "attach"
              /\ sock'[slot'[i]].want = lastId' /\ sock'[slot'[i]].cli = "dialing"
  <2>1. i \in E /\ slot'[i] = p[i]
    BY <1>24, <1>25
  <2>2. p[i] \in Sockets /\ p[i] # c
    BY <1>14, <1>15, <2>1
  <2>3. sock'[p[i]] = a
    BY <1>19, <2>1, <2>2
  <2> QED BY <1>11, <1>18, <2>1, <2>2, <2>3
<1>26. \A i, j \in Slots : slot'[i] # None /\ slot'[i] = slot'[j] => i = j
  BY <1>14, <1>24
<1>27. ASSUME NEW d \in Sockets, sock'[d].cli # "closed"
       PROVE  IF sock'[d].role = "attach" THEN d \in Attached' ELSE d = c
  <2>1. CASE d = c
    BY <1>2, <1>16, <1>19, <2>1
  <2>2. CASE d # c /\ \E i \in E : p[i] = d
    <3>1. PICK i \in E : p[i] = d
      BY <2>2
    <3>2. slot'[i] = d /\ i \in Slots /\ d # None
      BY <1>0, <1>13, <1>24, <3>1
    <3>3. sock'[d] = a
      BY <1>19, <2>2
    <3> QED BY <1>18, <3>2, <3>3 DEF Attached
  <2>3. CASE d # c /\ ~\E i \in E : p[i] = d
    <3>1. sock[d].cli # "closed"
      BY <1>19, <1>27, <2>3
    <3> QED BY <1>2, <1>4, <2>3, <3>1, ClientFacts
  <2> QED BY <2>1, <2>2, <2>3
<1>28. /\ \A i \in Slots : timer'[i] = Unarmed
       /\ TimersCurrent' /\ LatchReleased' /\ ~disconnected' /\ ~closing'
  BY <1>2, <1>3, <1>12 DEF TimersCurrent, LatchReleased
<1>29. ClientSide'
  BY <1>2, <1>16, <1>22, <1>23, <1>25, <1>26, <1>27, <1>28 DEF ClientSide
<1>30. SameId'
  <2>1. session[c] # None => Acks(sock[c].down) \subseteq {session[c]}
    BY <1>1 DEF ServerSide
  <2> QED BY <1>11, <1>12, <1>16, <1>22, <2>1 DEF SameId
<1>31. TypeOK'
  <2>1. slot' \in [Slots -> Sockets \cup {None}] /\ attempt' \in [Slots -> 0..(MaxAttach - 1)]
    <3>1. \A i \in Slots : slot'[i] \in Sockets \cup {None}
      BY <1>25
    <3> QED BY <1>1, <1>11, <3>1, TableTypes DEF TypeOK
  <2>2. generation' \in 0..Generations
    <3>1. generation \in Nat /\ Generations \in Nat \ {0}
      BY <1>1 DEF TypeOK
    <3>2. generation % Generations \in 0..(Generations - 1)
      BY <3>1
    <3> QED BY <1>12, <3>1, <3>2
  <2>3. lastId' \in TunnelIds \cup {None} /\ disconnected' \in BOOLEAN /\ rebuilding' \in BOOLEAN
    BY <1>11, <1>12, <1>17
  <2> QED BY <1>1, <1>12, <1>20, <1>22, <2>1, <2>2, <2>3 DEF TypeOK, AllGood
<1> QED BY <1>20, <1>21, <1>29, <1>30, <1>31 DEF IInv

-----------------------------------------------------------------------------
\* The theorems.

LEMMA InitIInv == Init => IInv
<1> SUFFICES ASSUME Init PROVE IInv
  OBVIOUS
<1>0. None \notin Sockets /\ 1 \in Sockets /\ None = 0
  BY DEF None, Sockets
<1>1. PICK b : b = Blank
  OBVIOUS
<1>2. PICK a : a = Dial("primary", None)
  OBVIOUS
<1>3. /\ b \in Socket /\ SocketGood(b) /\ b.cli = "closed" /\ b.sess = None
      /\ a \in Socket /\ SocketGood(a) /\ a.role = "primary" /\ a.cli = "dialing" /\ a.sess = None
  BY <1>1, <1>2, BlankGood, DialGood
<1>4. sock = [c \in Sockets |-> IF c = 1 THEN a ELSE b]
  BY <1>1, <1>2 DEF Init
<1>5. \A c \in Sockets : sock[c] = IF c = 1 THEN a ELSE b
  BY <1>4
<1>6. AllGood(sock)
  BY <1>3, <1>4, <1>5 DEF AllGood
<1>7. /\ session = [c \in Sockets |-> None] /\ registry = [t \in TunnelIds |-> None]
      /\ primary = [ws |-> 1, timer |-> FALSE, attempts |-> 0, promise |-> TRUE, over |-> FALSE]
      /\ lastId = None /\ disconnected = FALSE /\ rebuilding = FALSE /\ closing = FALSE
      /\ generation = None /\ slot = [i \in Slots |-> None] /\ attempt = [i \in Slots |-> 0]
      /\ timer = [i \in Slots |-> Unarmed] /\ faults = 0
  BY DEF Init
<1>8. TypeOK
  <2>1. timer \in [Slots -> [gen : 0..Generations, tid : TunnelIds \cup {None}]]
    BY <1>7, TableTypes
  <2>2. attempt \in [Slots -> 0..(MaxAttach - 1)]
    BY <1>7, TableTypes
  <2>3. /\ primary \in [ws : Sockets \cup {None}, timer : BOOLEAN,
                        attempts : 0..MaxRetries, promise : BOOLEAN, over : BOOLEAN]
        /\ generation \in 0..Generations /\ faults \in 0..MaxFaults
    BY <1>0, <1>7, TableTypes
  <2> QED BY <1>6, <1>7, <2>1, <2>2, <2>3 DEF TypeOK, AllGood
<1>9. ServerSide
  <2>1. SessionsExclusive
    BY <1>7 DEF SessionsExclusive
  <2> QED BY <1>3, <1>5, <1>7, <2>1 DEF ServerSide
<1>10. ~PrimaryReady /\ primary.ws = 1 /\ primary.timer = FALSE
  BY <1>0, <1>3, <1>5, <1>7 DEF PrimaryReady, Ready
<1>11. LatchReleased /\ TimersCurrent
  BY <1>7 DEF LatchReleased, TimersCurrent
<1>12. ClientSide
  BY <1>0, <1>3, <1>5, <1>7, <1>10, <1>11 DEF ClientSide
<1> QED BY <1>6, <1>8, <1>9, <1>10, <1>12 DEF IInv, SameId

LEMMA StutterKeeps ==
  ASSUME IInv, UNCHANGED vars
  PROVE  IInv'
<1>1. AllGood(sock) /\ TypeOK
  BY DEF IInv
<1>2. UNCHANGED <<sock, server, client, faults>>
  BY DEF vars
<1>3. AllFade(sock, sock')
  BY <1>1, <1>2, FadesSelf DEF AllFade, AllGood
<1>4. faults' \in 0..MaxFaults
  BY <1>1, <1>2 DEF TypeOK
<1> QED BY <1>2, <1>3, <1>4, UnchangedServer, ServerFadeStep

LEMMA StepIInv == IInv /\ [Next]_vars => IInv'
<1> SUFFICES ASSUME IInv, [Next]_vars PROVE IInv'
  OBVIOUS
<1>1. ASSUME NEW c \in Sockets, ClientStep(c) PROVE IInv'
  BY <1>1, OpenKeeps, ConnectedKeeps, AttachReadyKeeps, ReadCloseKeeps, DiedKeeps DEF ClientStep
<1>2. ASSUME NEW c \in Sockets, ServerStep(c) PROVE IInv'
  BY <1>2, ReadPrimaryHelloKeeps, ReadAttachHelloKeeps, SocketClosesKeeps DEF ServerStep
<1>3. CASE RetryTimer
  BY <1>3, RetryTimerKeeps
<1>4. ASSUME NEW i \in Slots, AttachTimer(i) PROVE IInv'
  BY <1>4, AttachTimerKeeps
<1>5. ASSUME NEW c \in Sockets,
             HelloTimeout(c) \/ SessionOverflow(c) \/ DialFails(c) \/ Break(c) \/ Noticed(c)
      PROVE  IInv'
  BY <1>5, HelloTimeoutKeeps, SessionOverflowKeeps, DialFailsKeeps, BreakKeeps
<1>6. ASSUME NEW i \in Slots, AttachTimeout(i) PROVE IInv'
  BY <1>6, AttachTimeoutKeeps
<1>7. CASE ConnectTimeout
  BY <1>7, ConnectTimeoutKeeps
<1>8. CASE Overflow
  BY <1>8, OverflowKeeps
<1>9. CASE Close
  BY <1>9, CloseKeeps
<1>10. CASE UNCHANGED vars
  BY <1>10, StutterKeeps
<1> QED BY <1>1, <1>2, <1>3, <1>4, <1>5, <1>6, <1>7, <1>8, <1>9, <1>10 DEF Next

\* The types, the sockets and the tables of both sides agree in every state,
\* whatever faults happen and in whatever order the two event loops run.
THEOREM IInvAlways == Spec => []IInv
BY InitIInv, StepIInv, PTL DEF Spec

\* A session that is not down is the one registered under its id, and the
\* registry never hands out one that is down.
THEOREM SessionsAlways == Spec => []SessionsExclusive
<1>1. IInv => SessionsExclusive
  BY DEF IInv, ServerSide
<1> QED BY <1>1, IInvAlways, PTL

\* A session never has more legs than were negotiated.
THEOREM LegBudgetAlways == Spec => []LegBudget
<1>1. IInv => LegBudget
  BY DEF IInv, ServerSide, LegBudget
<1> QED BY <1>1, IInvAlways, PTL

LEMMA OneSessionHolds == IInv => OneSession
<1> SUFFICES ASSUME IInv, NEW i \in Slots, PrimaryReady, Live(primary.ws), Ready(slot[i]),
                    Live(slot[i])
             PROVE  sock[slot[i]].sess = sock[primary.ws].sess
  BY DEF OneSession
<1>0. None \notin Sockets
  BY DEF None, Sockets
<1>1. TypeOK /\ ServerSide /\ ClientSide /\ SameId /\ SessionsExclusive
  BY DEF IInv, ServerSide
<1>2. PICK c \in Sockets : c = slot[i] /\ sock[c].cli = "ready"
  BY <1>1 DEF Ready, TypeOK
<1>3. PICK w \in Sockets : w = primary.ws
  BY <1>1 DEF PrimaryReady, Ready, TypeOK
<1>4. sock[c].role = "attach" /\ sock[c].want = lastId
  <2>1. ~closing
    BY <1>1, <1>2 DEF ClientSide
  <2> QED BY <1>0, <1>1, <1>2, <2>1 DEF ClientSide
<1>5. PICK s \in Sockets : s = sock[c].sess /\ session[s] # None
  BY <1>1, <1>2 DEF Live, TypeOK, Socket
<1>6. session[s] = lastId
  BY <1>0, <1>1, <1>4, <1>5 DEF ServerSide
<1>7. sock[w].role = "primary" /\ sock[w].sess # None /\ session[sock[w].sess] # None
  BY <1>0, <1>1, <1>3 DEF ClientSide, Live
<1>8. sock[w].sess = w /\ session[w] # None
  BY <1>1, <1>7 DEF ServerSide
<1>9. session[w] = lastId
  BY <1>1, <1>3, <1>8 DEF SameId
<1>10. s = w
  BY <1>1, <1>5, <1>6, <1>8, <1>9 DEF SessionsExclusive
<1> QED BY <1>2, <1>3, <1>5, <1>8, <1>10

\* Frames are striped over the legs of one session only, however generations,
\* rebuilds, late acks and closes overtake each other.
THEOREM OneSessionAlways == Spec => []OneSession
BY OneSessionHolds, IInvAlways, PTL

\* No ghost legs, no stale latch and no stale retry timer, in any generation.
THEOREM GenerationAlways == Spec => []GenerationInv
<1>1. IInv => GenerationInv
  BY DEF IInv, ClientSide, GenerationInv, NoGhostLegs
<1> QED BY <1>1, IInvAlways, PTL
=============================================================================

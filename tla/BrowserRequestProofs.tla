------------------------- MODULE BrowserRequestProofs -------------------------
(***************************************************************************)
(* Proofs about BrowserRequest, for any requests and any number of         *)
(* sessions: everything the handler does with a single request keeps the   *)
(* request Good, hence every step keeps IInv, and IInv gives the safety    *)
(* properties.                                                             *)
(*                                                                         *)
(* What the operators of the model do to the fields of a request is stated *)
(* by one predicate each (Opened, Closed, Suspended, Same), so that the    *)
(* lemmas about Good need not look into the records.                       *)
(***************************************************************************)
EXTENDS BrowserRequest, TLAPS

\* p is q with a channel opened on session s.
Opened(p, q, s, isReplay) ==
  /\ p \in Request
  /\ p.pc = "running" /\ p.active = s /\ p.chan = s /\ p.opens = q.opens + 1
  /\ p.endSent = (IF isReplay /\ q.bodyEnded THEN 1 ELSE 0) /\ p.timer = TRUE
  /\ p.finished = q.finished /\ p.replayed = q.replayed /\ p.head = q.head
  /\ p.bodyEnded = q.bodyEnded /\ p.heads = q.heads

\* p is q finished, with or without a response.
Closed(p, q) ==
  /\ p \in Request
  /\ p.pc = q.pc /\ p.chan = 0 /\ p.timer = FALSE /\ p.opens = q.opens
  /\ p.endSent = q.endSent /\ p.replayed = q.replayed
  /\ p.bodyEnded = q.bodyEnded
  /\ q.heads = 1 => p.heads = 1

\* p is q waiting for its replay.
Suspended(p, q) ==
  /\ p \in Request
  /\ p.pc = "suspended" /\ p.chan = q.chan /\ p.timer = FALSE /\ p.replayed = TRUE
  /\ p.finished = q.finished /\ p.head = q.head /\ p.heads = q.heads
  /\ p.bodyEnded = q.bodyEnded /\ p.opens = q.opens /\ p.endSent = q.endSent

\* p and q differ at most in where the handler is and what the browser did.
Same(p, q) ==
  /\ p \in Request
  /\ p.active = q.active /\ p.chan = q.chan /\ p.timer = q.timer
  /\ p.finished = q.finished /\ p.head = q.head /\ p.replayed = q.replayed
  /\ p.bodyEnded = q.bodyEnded /\ p.opens = q.opens /\ p.heads = q.heads
  /\ p.endSent = q.endSent

\* q may become p: p is Good, and a head that is out stays the only one.
Goes(q, p, r, reg) ==
  /\ Good(p, r, reg)
  /\ q.heads = 1 => p.heads = 1 /\ p.opens = q.opens

-----------------------------------------------------------------------------
\* The operators of the model, field by field.

\* openChannel.
LEMMA OpenChannelFields ==
  ASSUME NEW q \in Request, q.opens <= 1, NEW s \in 0..MaxSessions,
         NEW isReplay \in BOOLEAN
  PROVE  Opened(OpenChannel(q, s, isReplay), q, s, isReplay)
<1> DEFINE p == OpenChannel(q, s, isReplay)
<1> DEFINE e == IF isReplay /\ q.bodyEnded THEN 1 ELSE 0
<1>1. e \in 0..1
  OBVIOUS
<1>2. p = [q EXCEPT !.pc = "running", !.active = s, !.chan = s,
                    !.opens = q.opens + 1, !.endSent = e, !.timer = TRUE]
  BY DEF OpenChannel
<1>3. q.opens + 1 \in 0..2
  BY DEF Request
<1> HIDE DEF e, p
<1>4. p \in Request
  BY <1>1, <1>2, <1>3 DEF Request
<1>5. /\ p.pc = "running" /\ p.active = s /\ p.chan = s /\ p.opens = q.opens + 1
      /\ p.endSent = e
  BY <1>1, <1>2, <1>3 DEF Request
<1>6. /\ p.finished = q.finished /\ p.replayed = q.replayed /\ p.head = q.head
      /\ p.timer = TRUE /\ p.bodyEnded = q.bodyEnded /\ p.heads = q.heads
  BY <1>1, <1>2, <1>3 DEF Request
<1>7. Opened(p, q, s, isReplay)
  BY <1>4, <1>5, <1>6 DEF e, Opened
<1> QED BY <1>7 DEF p

\* finish.
LEMMA FinishFields ==
  ASSUME NEW q \in Request, q.chan \in {0, q.active}
  PROVE  Closed(Finish(q), q)
<1> DEFINE p == Finish(q)
<1> DEFINE c == IF q.chan = q.active THEN 0 ELSE q.chan
<1>1. c = 0 /\ 0 \in 0..MaxSessions
  BY MaxSessionsAssumption
<1>2. p = [q EXCEPT !.finished = TRUE, !.timer = FALSE, !.chan = c]
  BY DEF Finish
<1> HIDE DEF c, p
<1>3. p \in Request
  BY <1>1, <1>2 DEF Request
<1>4. /\ p.pc = q.pc /\ p.chan = 0 /\ p.opens = q.opens
      /\ p.endSent = q.endSent /\ p.heads = q.heads
  BY <1>1, <1>2 DEF Request
<1>5. p.timer = FALSE /\ p.replayed = q.replayed /\ p.bodyEnded = q.bodyEnded
  BY <1>1, <1>2 DEF Request
<1>6. Closed(p, q)
  BY <1>3, <1>4, <1>5 DEF Closed
<1> QED BY <1>6 DEF p

\* A response: finish, and the head and the end of the response.
LEMMA RespondFields ==
  ASSUME NEW q \in Request, q.chan \in {0, q.active}
  PROVE  Closed(Respond(q), q)
<1> DEFINE f == Finish(q)
<1> DEFINE p == Respond(q)
<1>1. Closed(f, q)
  BY FinishFields
<1>2. p = [f EXCEPT !.heads = 1, !.ended = TRUE]
  BY DEF Respond
<1> HIDE DEF f, p
<1>3. f \in Request
  BY <1>1 DEF Closed
<1>4. p \in Request
  <2>1. ASSUME NEW g \in Request, NEW h \in 0..1, NEW e \in BOOLEAN
        PROVE  [g EXCEPT !.heads = h, !.ended = e] \in Request
    BY DEF Request
  <2>2. 1 \in 0..1 /\ TRUE \in BOOLEAN
    OBVIOUS
  <2> QED BY <1>2, <1>3, <2>1, <2>2
<1>5. /\ p.pc = f.pc /\ p.chan = f.chan /\ p.opens = f.opens
      /\ p.endSent = f.endSent /\ p.heads = 1
  BY <1>2, <1>3 DEF Request
<1>6. p.timer = f.timer /\ p.replayed = f.replayed /\ p.bodyEnded = f.bodyEnded
  BY <1>2, <1>3 DEF Request
<1>7. Closed(p, q)
  BY <1>1, <1>4, <1>5, <1>6 DEF Closed
<1> QED BY <1>7 DEF p

\* onActiveTunnelDown of a request that will be replayed.
LEMMA SuspendFields ==
  ASSUME NEW q \in Request
  PROVE  Suspended([q EXCEPT !.replayed = TRUE, !.timer = FALSE, !.pc = "suspended"], q)
<1> DEFINE p == [q EXCEPT !.replayed = TRUE, !.timer = FALSE, !.pc = "suspended"]
<1>1. p \in Request
  BY DEF Request
<1>2. /\ p.pc = "suspended" /\ p.chan = q.chan /\ p.heads = q.heads
      /\ p.opens = q.opens /\ p.endSent = q.endSent
  BY DEF Request
<1>3. /\ p.timer = FALSE /\ p.replayed = TRUE /\ p.finished = q.finished
      /\ p.head = q.head /\ p.bodyEnded = q.bodyEnded
  BY DEF Request
<1> HIDE DEF p
<1>4. Suspended(p, q)
  BY <1>1, <1>2, <1>3 DEF Suspended
<1> QED BY <1>4 DEF p

\* The handler moves on to v and nothing else happens.
LEMMA MoveFields ==
  ASSUME NEW q \in Request, NEW v \in {"waiting", "restoring", "running"}
  PROVE  /\ Same([q EXCEPT !.pc = v], q)
         /\ [q EXCEPT !.pc = v].pc = v
<1> DEFINE p == [q EXCEPT !.pc = v]
<1>1. p \in Request /\ p.pc = v
  BY DEF Request
<1>2. /\ p.active = q.active /\ p.chan = q.chan /\ p.heads = q.heads
      /\ p.opens = q.opens /\ p.endSent = q.endSent
  BY DEF Request
<1>3. /\ p.timer = q.timer /\ p.replayed = q.replayed /\ p.finished = q.finished
      /\ p.head = q.head /\ p.bodyEnded = q.bodyEnded
  BY DEF Request
<1> HIDE DEF p
<1>4. Same(p, q) /\ p.pc = v
  BY <1>1, <1>2, <1>3 DEF Same
<1> QED BY <1>4 DEF p

\* The browser leaves and nothing else happens.
LEMMA GoneFields ==
  ASSUME NEW q \in Request
  PROVE  /\ Same([q EXCEPT !.gone = TRUE], q)
         /\ [q EXCEPT !.gone = TRUE].pc = q.pc
<1> DEFINE p == [q EXCEPT !.gone = TRUE]
<1>1. p \in Request /\ p.pc = q.pc
  BY DEF Request
<1>2. /\ p.active = q.active /\ p.chan = q.chan /\ p.heads = q.heads
      /\ p.opens = q.opens /\ p.endSent = q.endSent
  BY DEF Request
<1>3. /\ p.timer = q.timer /\ p.replayed = q.replayed /\ p.finished = q.finished
      /\ p.head = q.head /\ p.bodyEnded = q.bodyEnded
  BY DEF Request
<1> HIDE DEF p
<1>4. Same(p, q) /\ p.pc = q.pc
  BY <1>1, <1>2, <1>3 DEF Same
<1> QED BY <1>4 DEF p

\* Offline of a request that has no channel.
LEMMA OfflineFields ==
  ASSUME NEW q \in Request
  PROVE  /\ Offline(q) \in Request
         /\ Offline(q).pc = "offline"
         /\ Offline(q).chan = q.chan /\ Offline(q).opens = q.opens
         /\ Offline(q).endSent = q.endSent
         /\ Offline(q).timer = q.timer /\ Offline(q).bodyEnded = q.bodyEnded
         /\ Offline(q).replayed = q.replayed
<1> DEFINE h == IF q.gone THEN q.heads ELSE 1
<1> DEFINE e == ~q.gone
<1> DEFINE p == [q EXCEPT !.pc = "offline", !.ended = e, !.heads = h]
<1>1. Offline(q) = p
  BY DEF Offline
<1>2. h \in 0..1 /\ e \in BOOLEAN
  BY DEF Request
<1> HIDE DEF h, e
<1>3. p \in Request
  BY <1>2 DEF Request
<1>4. p.pc = "offline" /\ p.chan = q.chan /\ p.opens = q.opens /\ p.endSent = q.endSent
  BY <1>2 DEF Request
<1>5. p.timer = q.timer /\ p.bodyEnded = q.bodyEnded /\ p.replayed = q.replayed
  BY <1>2 DEF Request
<1> QED BY <1>1, <1>3, <1>4, <1>5

-----------------------------------------------------------------------------
\* What they keep.

\* openChannel keeps a waiting request Good, the replay as well as the first.
LEMMA OpenChannelGood ==
  ASSUME NEW q \in Request, NEW r, NEW reg, Good(q, r, reg),
         NEW s \in 1..MaxSessions, NEW isReplay \in BOOLEAN,
         q.pc \in {"idle", "waiting", "suspended", "restoring"},
         isReplay <=> q.pc \in {"suspended", "restoring"}
  PROVE  Goes(q, OpenChannel(q, s, isReplay), r, s)
<1> DEFINE p == OpenChannel(q, s, isReplay)
<1>1. q.opens <= 1 /\ s \in 0..MaxSessions
  BY MaxSessionsAssumption DEF Good, CountsGood
<1>2. Opened(p, q, s, isReplay)
  BY <1>1, OpenChannelFields
<1> HIDE DEF p
<1>3. ChannelGood(p, s)
  BY <1>2 DEF Opened, Good, ChannelGood, WaitingGood, CountsGood
<1>4. WaitingGood(p)
  BY <1>2 DEF Opened, WaitingGood
<1>5. CountsGood(p, r)
  BY <1>2 DEF Opened, Good, CountsGood, Request
<1>6. p.timer => p.chan # 0 /\ ~p.head
  BY <1>2 DEF Opened, Good, WaitingGood
<1>7. q.heads = 0
  BY DEF Good, WaitingGood
<1>8. Goes(q, p, r, s)
  BY <1>2, <1>3, <1>4, <1>5, <1>6, <1>7 DEF Goes, Good, Opened
<1> QED BY <1>8 DEF p

\* A channel is given back by a request that runs or has just lost its session.
LEMMA ClosedGood ==
  ASSUME NEW q \in Request, NEW p, NEW r, NEW reg, CountsGood(q, r),
         q.pc = "running", Closed(p, q)
  PROVE  Goes(q, p, r, reg)
<1>1. ChannelGood(p, reg)
  BY DEF Closed, ChannelGood
<1>2. WaitingGood(p)
  BY DEF Closed, WaitingGood
<1>3. CountsGood(p, r)
  BY DEF Closed, CountsGood
<1>4. ~p.timer /\ p \in Request /\ p.opens = q.opens /\ (q.heads = 1 => p.heads = 1)
  BY DEF Closed
<1> QED BY <1>1, <1>2, <1>3, <1>4 DEF Goes, Good

\* finish keeps a running request Good.
LEMMA FinishGood ==
  ASSUME NEW q \in Request, NEW r, NEW reg, Good(q, r, reg), q.pc = "running"
  PROVE  Goes(q, Finish(q), r, reg)
<1>1. q.chan \in {0, q.active} /\ CountsGood(q, r)
  BY DEF Good, ChannelGood
<1>2. Closed(Finish(q), q)
  BY <1>1, FinishFields
<1> QED BY <1>1, <1>2, ClosedGood

\* A response keeps a running request Good.
LEMMA RespondGood ==
  ASSUME NEW q \in Request, NEW r, NEW reg, Good(q, r, reg), q.pc = "running"
  PROVE  Goes(q, Respond(q), r, reg)
<1>1. q.chan \in {0, q.active} /\ CountsGood(q, r)
  BY DEF Good, ChannelGood
<1>2. Closed(Respond(q), q)
  BY <1>1, RespondFields
<1> QED BY <1>1, <1>2, ClosedGood

\* The session of a request's channel has gone down.
LEMMA TornDownGood ==
  ASSUME NEW q \in Request, NEW r, NEW s \in 0..MaxSessions, Good(q, r, s)
  PROVE  Goes(q, TornDown(s, q, r), r, 0)
<1>1. CASE q.chan # s \/ s = 0
  <2>1. TornDown(s, q, r) = q
    BY <1>1 DEF TornDown
  <2>2. q.chan = 0
    BY <1>1 DEF Good, ChannelGood
  <2> QED BY <2>1, <2>2 DEF Goes, Good, ChannelGood
<1>2. CASE q.chan = s /\ s # 0
  <2> DEFINE p == [q EXCEPT !.chan = 0]
  <2>1. p \in Request /\ p.pc = q.pc /\ p.chan = 0 /\ p.opens = q.opens
    BY MaxSessionsAssumption DEF Request
  <2>2. p.endSent = q.endSent /\ p.heads = q.heads
    BY MaxSessionsAssumption DEF Request
  <2>3. p.replayed = q.replayed /\ p.bodyEnded = q.bodyEnded
    BY MaxSessionsAssumption DEF Request
  <2>4. p.finished = q.finished /\ p.head = q.head
    BY MaxSessionsAssumption DEF Request
  <2>5. TornDown(s, q, r) = TunnelDown(p, r)
    BY <1>2 DEF TornDown
  <2> HIDE DEF p
  <2>6. /\ q.pc = "running" /\ ~q.finished /\ (q.heads = 1 <=> q.head)
        /\ CountsGood(q, r)
    BY <1>2 DEF Good, ChannelGood
  <2>7. p.pc = "running" /\ CountsGood(p, r)
    BY <2>1, <2>2, <2>3, <2>6 DEF CountsGood
  <2>8. CASE NoReplay(p, r)
    <3>1. Closed(Respond(p), p)
      BY <2>1, RespondFields
    <3>2. Goes(p, Respond(p), r, 0)
      BY <2>1, <2>7, <3>1, ClosedGood
    <3>3. TornDown(s, q, r) = Respond(p)
      BY <2>5, <2>8 DEF TunnelDown
    <3> QED BY <2>1, <2>2, <3>2, <3>3 DEF Goes
  <2>9. CASE ~NoReplay(p, r)
    <3> DEFINE w == [p EXCEPT !.replayed = TRUE, !.timer = FALSE, !.pc = "suspended"]
    <3>1. Suspended(w, p)
      BY <2>1, SuspendFields
    <3>2. TornDown(s, q, r) = w
      BY <2>5, <2>9 DEF TunnelDown
    <3> HIDE DEF w
    <3>3. ~p.replayed /\ r \in Replayable /\ ~p.head
      BY <2>9 DEF NoReplay
    <3>4. q.opens = 1 /\ q.heads = 0
      <4>1. q.opens \in 0..2 /\ q.heads \in 0..1
        BY DEF Request
      <4>2. q.opens <= 1 /\ q.opens # 0
        BY <2>3, <2>6, <3>3 DEF CountsGood
      <4> QED BY <2>4, <2>6, <3>3, <4>1, <4>2
    <3>5. ChannelGood(w, 0) /\ ~w.timer
      BY <2>1, <3>1 DEF Suspended, ChannelGood
    <3>6. WaitingGood(w)
      BY <2>2, <2>4, <2>6, <3>1, <3>3, <3>4 DEF Suspended, WaitingGood
    <3>7. CountsGood(w, r)
      BY <2>1, <2>7, <3>1, <3>3, <3>4 DEF Suspended, CountsGood
    <3> QED BY <3>1, <3>2, <3>4, <3>5, <3>6, <3>7 DEF Goes, Good, Suspended
  <2> QED BY <2>8, <2>9
<1> QED BY <1>1, <1>2

\* A request in which nothing changed but the place of the handler or the
\* browser's presence.
LEMMA SameGood ==
  ASSUME NEW q \in Request, NEW p, NEW r, NEW reg, Good(q, r, reg), Same(p, q),
         \/ p.pc = q.pc
         \/ q.pc = "idle" /\ p.pc = "waiting"
         \/ q.pc = "suspended" /\ p.pc = "restoring"
         \/ q.pc = "restoring" /\ p.pc = "running"
  PROVE  Goes(q, p, r, reg)
<1>1. ChannelGood(p, reg)
  BY DEF Same, Good, ChannelGood, Request
<1>2. WaitingGood(p)
  BY DEF Same, Good, WaitingGood
<1>3. CountsGood(p, r)
  BY DEF Same, Good, CountsGood
<1>4. p.timer => p.chan # 0 /\ ~p.head
  BY DEF Same, Good
<1>5. p \in Request /\ p.heads = q.heads /\ p.opens = q.opens
  BY DEF Same
<1> QED BY <1>1, <1>2, <1>3, <1>4, <1>5 DEF Goes, Good

\* Without a session nobody has a channel, so that a new one concerns nobody.
LEMMA NoChannelStays ==
  ASSUME NEW q, NEW r, Good(q, r, 0), NEW s
  PROVE  Goes(q, q, r, s)
<1>1. q.chan = 0
  BY DEF Good, ChannelGood, Request
<1> QED BY <1>1 DEF Goes, Good, ChannelGood

\* waitFor resolved to a new session s.
LEMMA RestoredGood ==
  ASSUME NEW q \in Request, NEW r, Good(q, r, 0), NEW s \in 1..MaxSessions
  PROVE  Goes(q, Restored(q, s), r, s)
<1>1. CASE q.pc = "waiting"
  <2>1. Restored(q, s) = OpenChannel(q, s, FALSE)
    BY <1>1 DEF Restored
  <2>2. Goes(q, OpenChannel(q, s, FALSE), r, s)
    BY <1>1, OpenChannelGood
  <2> QED BY <2>1, <2>2
<1>2. CASE q.pc = "restoring"
  <2>1. Restored(q, s) = OpenChannel(q, s, TRUE)
    BY <1>2 DEF Restored
  <2>2. Goes(q, OpenChannel(q, s, TRUE), r, s)
    BY <1>2, OpenChannelGood
  <2> QED BY <2>1, <2>2
<1>3. CASE q.pc \notin {"waiting", "restoring"}
  <2>1. Restored(q, s) = q
    BY <1>3 DEF Restored
  <2> QED BY <2>1, NoChannelStays
<1> QED BY <1>1, <1>2, <1>3

\* 502 'tunnel offline' for a request that has not had a channel.
LEMMA OfflineGood ==
  ASSUME NEW q \in Request, NEW r, NEW reg, Good(q, r, reg),
         q.pc \in {"idle", "waiting"}
  PROVE  Goes(q, Offline(q), r, reg)
<1> DEFINE p == Offline(q)
<1>1. /\ p \in Request /\ p.pc = "offline" /\ p.chan = q.chan /\ p.opens = q.opens
      /\ p.endSent = q.endSent /\ p.timer = q.timer
      /\ p.bodyEnded = q.bodyEnded /\ p.replayed = q.replayed
  BY OfflineFields
<1> HIDE DEF p
<1>2. q.chan = 0 /\ q.heads = 0 /\ ~q.timer
  BY DEF Good, ChannelGood, WaitingGood, Request
<1>3. ChannelGood(p, reg) /\ WaitingGood(p) /\ ~p.timer
  BY <1>1, <1>2 DEF ChannelGood, WaitingGood
<1>4. CountsGood(p, r)
  BY <1>1 DEF Good, CountsGood
<1>5. Goes(q, p, r, reg)
  BY <1>1, <1>2, <1>3, <1>4 DEF Goes, Good
<1> QED BY <1>5 DEF p

\* waitFor resolved to null.
LEMMA NotRestoredGood ==
  ASSUME NEW q \in Request, NEW r, NEW reg, Good(q, r, reg)
  PROVE  Goes(q, NotRestored(q), r, reg)
<1>1. CASE q.pc = "waiting"
  <2>1. NotRestored(q) = Offline(q)
    BY <1>1 DEF NotRestored
  <2> QED BY <1>1, <2>1, OfflineGood
<1>2. CASE q.pc = "restoring"
  <2> DEFINE p == [q EXCEPT !.pc = "running"]
  <2>1. Same(p, q) /\ p.pc = "running"
    BY MoveFields
  <2>2. NotRestored(q) = IF q.gone THEN Finish(p) ELSE Respond(p)
    BY <1>2 DEF NotRestored
  <2> HIDE DEF p
  <2>3. Goes(q, p, r, reg)
    BY <1>2, <2>1, SameGood
  <2>4. p \in Request /\ Good(p, r, reg)
    BY <2>3 DEF Goes, Good
  <2>5. Goes(p, Finish(p), r, reg) /\ Goes(p, Respond(p), r, reg)
    BY <2>1, <2>4, FinishGood, RespondGood
  <2>6. Goes(p, NotRestored(q), r, reg)
    BY <2>2, <2>5
  <2> QED BY <2>3, <2>6 DEF Goes
<1>3. CASE q.pc \notin {"waiting", "restoring"}
  <2>1. NotRestored(q) = q
    BY <1>3 DEF NotRestored
  <2> QED BY <2>1 DEF Goes
<1> QED BY <1>1, <1>2, <1>3

-----------------------------------------------------------------------------
\* The steps.

\* Before any request has come in all is in order.
LEMMA InitIInv == Init => IInv
<1> SUFFICES ASSUME Init PROVE IInv
  OBVIOUS
<1>1. Fresh \in Request
  BY MaxSessionsAssumption DEF Fresh, Request
<1>2. ASSUME NEW r \in Requests PROVE Good(Fresh, r, 0)
  <2> DEFINE f == Fresh
  <2>1. /\ f.pc = "idle" /\ f.chan = 0 /\ f.timer = FALSE /\ f.finished = FALSE
        /\ f.head = FALSE /\ f.heads = 0 /\ f.opens = 0 /\ f.endSent = 0
        /\ f.replayed = FALSE /\ f.bodyEnded = FALSE
    BY DEF Fresh
  <2>2. f \in Request
    BY <1>1
  <2> HIDE DEF f
  <2>3. ChannelGood(f, 0) /\ WaitingGood(f) /\ CountsGood(f, r)
    BY <2>1 DEF ChannelGood, WaitingGood, CountsGood
  <2>4. f.timer => f.chan # 0 /\ ~f.head
    BY <2>1
  <2>5. Good(f, r, 0)
    BY <2>2, <2>3, <2>4 DEF Good
  <2> QED BY <2>5 DEF f
<1>3. TypeOK
  <2>1. registered \in 0..MaxSessions /\ sessions \in 0..MaxSessions
    BY MaxSessionsAssumption DEF Init
  <2>2. waiters \subseteq Requests /\ shut \in BOOLEAN
    BY DEF Init
  <2>3. req \in [Requests -> Request]
    BY <1>1 DEF Init
  <2> QED BY <2>1, <2>2, <2>3 DEF TypeOK
<1>4. ASSUME NEW r \in Requests PROVE Good(req[r], r, registered)
  <2>1. req[r] = Fresh /\ registered = 0
    BY DEF Init
  <2> QED BY <1>2, <2>1
<1> QED BY <1>3, <1>4 DEF IInv

\* A step in which no head is lost and no answered request is sent again.
HeadKept == \A r \in Requests :
  req[r].heads = 1 => req'[r].heads = 1 /\ req'[r].opens = req[r].opens

\* A step in which every request goes from Good to Good.
AllGo == \A r \in Requests : Goes(req[r], req'[r], r, registered')

\* If every request goes from Good to Good the step is in order.
LEMMA AllGoSuffices ==
  ASSUME AllGo, req' \in [Requests -> Request],
         registered' \in 0..MaxSessions, sessions' \in 0..MaxSessions,
         waiters' \subseteq Requests, shut' \in BOOLEAN
  PROVE  IInv' /\ HeadKept
BY DEF AllGo, Goes, HeadKept, IInv, TypeOK

\* A request that is left alone stays Good.
LEMMA StaysGood ==
  ASSUME NEW q, NEW r, NEW reg, Good(q, r, reg) PROVE Goes(q, q, r, reg)
BY DEF Goes

\* A step of request r alone, to q.
LEMMA OneRequest ==
  ASSUME IInv, NEW r \in Requests, NEW q, Goes(req[r], q, r, registered),
         req' = [req EXCEPT ![r] = q],
         UNCHANGED <<registered, sessions, shut>>, waiters' \subseteq Requests
  PROVE  IInv' /\ HeadKept
<1>1. q \in Request
  BY DEF Goes, Good
<1>2. req' \in [Requests -> Request]
  BY <1>1 DEF IInv, TypeOK
<1>3. ASSUME NEW x \in Requests PROVE Goes(req[x], req'[x], x, registered')
  BY StaysGood DEF IInv, TypeOK
<1> QED BY <1>2, <1>3, AllGoSuffices DEF IInv, TypeOK, AllGo

\* The actions of one request.
LEMMA RequestStep ==
  ASSUME IInv, NEW r \in Requests,
         \/ Arrive(r) \/ StartReplay(r) \/ GraceTimeout(r) \/ HeadTimeout(r)
         \/ Head(r) \/ UpstreamEnds(r) \/ RequestEnds(r) \/ BrowserGone(r)
  PROVE  IInv' /\ HeadKept
<1> DEFINE q == req[r]
<1>0. /\ q \in Request /\ Good(q, r, registered)
      /\ registered \in 0..MaxSessions /\ waiters \subseteq Requests
  BY DEF IInv, TypeOK
<1>a. registered # 0 => registered \in 1..MaxSessions
  BY <1>0, MaxSessionsAssumption
<1>1. CASE Arrive(r)
  <2>1. q.pc = "idle" /\ waiters' \subseteq Requests
    BY <1>0, <1>1 DEF Arrive
  <2>2. CASE registered # 0
    <3>1. Goes(q, OpenChannel(q, registered, FALSE), r, registered)
      BY <1>0, <1>a, <2>1, <2>2, OpenChannelGood
    <3> QED BY <1>1, <2>1, <2>2, <3>1, OneRequest DEF Arrive
  <2>3. CASE registered = 0 /\ Grace
    <3> DEFINE p == [q EXCEPT !.pc = "waiting"]
    <3>1. Same(p, q) /\ p.pc = "waiting"
      BY <1>0, MoveFields
    <3>2. req' = [req EXCEPT ![r] = p]
      BY <1>1, <2>3 DEF Arrive
    <3> HIDE DEF p
    <3>3. Goes(q, p, r, registered)
      BY <1>0, <2>1, <3>1, SameGood
    <3> QED BY <1>1, <2>1, <3>2, <3>3, OneRequest DEF Arrive
  <2>4. CASE registered = 0 /\ ~Grace
    <3>1. Goes(q, Offline(q), r, registered)
      BY <1>0, <2>1, OfflineGood
    <3> QED BY <1>1, <2>1, <2>4, <3>1, OneRequest DEF Arrive
  <2> QED BY <2>2, <2>3, <2>4
<1>2. CASE StartReplay(r)
  <2>1. q.pc = "suspended" /\ waiters' \subseteq Requests
    BY <1>0, <1>2 DEF StartReplay
  <2>2. CASE registered # 0
    <3>1. Goes(q, OpenChannel(q, registered, TRUE), r, registered)
      BY <1>0, <1>a, <2>1, <2>2, OpenChannelGood
    <3> QED BY <1>2, <2>1, <2>2, <3>1, OneRequest DEF StartReplay
  <2>3. CASE registered = 0
    <3> DEFINE p == [q EXCEPT !.pc = "restoring"]
    <3>1. Same(p, q) /\ p.pc = "restoring"
      BY <1>0, MoveFields
    <3>2. req' = [req EXCEPT ![r] = p]
      BY <1>2, <2>3 DEF StartReplay
    <3> HIDE DEF p
    <3>3. Goes(q, p, r, registered)
      BY <1>0, <2>1, <3>1, SameGood
    <3> QED BY <1>2, <2>1, <3>2, <3>3, OneRequest DEF StartReplay
  <2> QED BY <2>2, <2>3
<1>3. CASE GraceTimeout(r)
  <2>1. Goes(q, NotRestored(q), r, registered)
    BY <1>0, NotRestoredGood
  <2>2. waiters' \subseteq Requests
    BY <1>0, <1>3 DEF GraceTimeout
  <2> QED BY <1>3, <2>1, <2>2, OneRequest DEF GraceTimeout
<1>4. CASE HeadTimeout(r)
  <2>1. q.pc = "running"
    BY <1>0, <1>4 DEF HeadTimeout, Good, ChannelGood
  <2>2. Goes(q, Respond(q), r, registered)
    BY <1>0, <2>1, RespondGood
  <2> QED BY <1>0, <1>4, <2>2, OneRequest DEF HeadTimeout
<1>5. CASE Head(r)
  <2> DEFINE h == q.heads + 1
  <2> DEFINE p == [q EXCEPT !.timer = FALSE, !.head = TRUE, !.heads = h]
  <2>1. /\ q.chan # 0 /\ q.pc = "running" /\ ~q.finished /\ q.heads = 0
        /\ q.chan = registered /\ q.active = q.chan /\ CountsGood(q, r)
        /\ q.endSent = (IF q.bodyEnded THEN 1 ELSE 0)
    BY <1>0, <1>5 DEF Head, Good, ChannelGood, Request
  <2>2. req' = [req EXCEPT ![r] = p]
    BY <1>0, <1>5 DEF Head
  <2>3. h \in 0..1 /\ h = 1
    BY <2>1
  <2> HIDE DEF h
  <2>4. p \in Request
    BY <1>0, <2>3 DEF Request
  <2>5. /\ p.pc = q.pc /\ p.chan = q.chan /\ p.active = q.active
        /\ p.opens = q.opens /\ p.endSent = q.endSent /\ p.heads = 1
    BY <1>0, <2>3 DEF Request
  <2>6. /\ p.timer = FALSE /\ p.head = TRUE /\ p.finished = q.finished
        /\ p.replayed = q.replayed /\ p.bodyEnded = q.bodyEnded
    BY <1>0, <2>3 DEF Request
  <2> HIDE DEF p
  <2>7. ChannelGood(p, registered) /\ WaitingGood(p)
    BY <2>1, <2>5, <2>6 DEF ChannelGood, WaitingGood
  <2>8. CountsGood(p, r)
    BY <2>1, <2>5, <2>6 DEF CountsGood
  <2>9. Goes(q, p, r, registered)
    BY <2>1, <2>4, <2>6, <2>7, <2>8 DEF Goes, Good
  <2> QED BY <1>0, <1>5, <2>2, <2>9, OneRequest DEF Head
<1>6. CASE UpstreamEnds(r)
  <2>1. q.pc = "running"
    BY <1>0, <1>6 DEF UpstreamEnds, Good, ChannelGood
  <2>2. Goes(q, Respond(q), r, registered)
    BY <1>0, <2>1, RespondGood
  <2> QED BY <1>0, <1>6, <2>2, OneRequest DEF UpstreamEnds
<1>7. CASE RequestEnds(r)
  <2> DEFINE e == IF q.finished THEN q.endSent ELSE q.endSent + 1
  <2> DEFINE p == [q EXCEPT !.bodyEnded = TRUE, !.endSent = e]
  <2>1. q.opens > 0 /\ ~q.bodyEnded /\ q.endSent = 0
    BY <1>0, <1>7 DEF RequestEnds, Good, CountsGood
  <2>2. req' = [req EXCEPT ![r] = p]
    BY <1>0, <1>7 DEF RequestEnds
  <2>3. e \in 0..1 /\ (~q.finished => e = 1)
    BY <2>1
  <2> HIDE DEF e
  <2>4. p \in Request
    BY <1>0, <2>3 DEF Request
  <2>5. /\ p.pc = q.pc /\ p.chan = q.chan /\ p.active = q.active
        /\ p.opens = q.opens /\ p.endSent = e /\ p.heads = q.heads
    BY <1>0, <2>3 DEF Request
  <2>6. /\ p.timer = q.timer /\ p.head = q.head /\ p.finished = q.finished
        /\ p.replayed = q.replayed /\ p.bodyEnded = TRUE
    BY <1>0, <2>3 DEF Request
  <2> HIDE DEF p
  <2>7. ChannelGood(p, registered)
    BY <1>0, <2>3, <2>5, <2>6 DEF Good, ChannelGood
  <2>8. WaitingGood(p) /\ (p.timer => p.chan # 0 /\ ~p.head)
    BY <1>0, <2>5, <2>6 DEF Good, WaitingGood
  <2>9. CountsGood(p, r)
    BY <1>0, <2>1, <2>5, <2>6 DEF Good, CountsGood
  <2>10. Goes(q, p, r, registered)
    BY <2>4, <2>5, <2>7, <2>8, <2>9 DEF Goes, Good
  <2> QED BY <1>0, <1>7, <2>2, <2>10, OneRequest DEF RequestEnds
<1>8. CASE BrowserGone(r)
  <2> DEFINE g == [q EXCEPT !.gone = TRUE]
  <2> DEFINE p == CASE g.pc \in {"waiting", "restoring"}   -> NotRestored(g)
                    [] g.pc = "running" /\ ~g.finished     -> Finish(g)
                    [] OTHER                               -> g
  <2>1. req' = [req EXCEPT ![r] = p]
    BY <1>8 DEF BrowserGone
  <2>2. Same(g, q) /\ g.pc = q.pc
    BY <1>0, GoneFields
  <2> HIDE DEF g
  <2>3. Goes(q, g, r, registered)
    BY <1>0, <2>2, SameGood
  <2>4. g \in Request /\ Good(g, r, registered)
    BY <2>3 DEF Goes, Good
  <2>5. Goes(g, p, r, registered)
    <3>1. CASE g.pc \in {"waiting", "restoring"}
      BY <2>4, <3>1, NotRestoredGood
    <3>2. CASE g.pc = "running" /\ ~g.finished
      BY <2>4, <3>2, FinishGood
    <3>3. CASE ~(g.pc \in {"waiting", "restoring"}) /\ ~(g.pc = "running" /\ ~g.finished)
      BY <2>4, <3>3, StaysGood
    <3> QED BY <3>1, <3>2, <3>3
  <2> HIDE DEF p
  <2>6. Goes(q, p, r, registered)
    BY <2>3, <2>5 DEF Goes
  <2> QED BY <1>0, <1>8, <2>1, <2>6, OneRequest DEF BrowserGone
<1> QED BY <1>1, <1>2, <1>3, <1>4, <1>5, <1>6, <1>7, <1>8

\* A new session: every waiter opens its channel on it.
LEMMA RegisterStep ==
  ASSUME IInv, Register
  PROVE  IInv' /\ HeadKept
<1>1. sessions + 1 \in 1..MaxSessions
  BY MaxSessionsAssumption DEF IInv, TypeOK, Register
<1>2. ASSUME NEW r \in Requests PROVE Goes(req[r], req'[r], r, registered')
  <2>1. req[r] \in Request /\ Good(req[r], r, 0)
    BY DEF IInv, TypeOK, Register
  <2>2. /\ Goes(req[r], Restored(req[r], sessions + 1), r, sessions + 1)
        /\ Goes(req[r], req[r], r, sessions + 1)
    BY <1>1, <2>1, RestoredGood, NoChannelStays
  <2> QED BY <2>2 DEF Register
<1>3. req' \in [Requests -> Request]
  <2>1. ASSUME NEW r \in Requests PROVE req'[r] \in Request
    BY <1>2 DEF Goes, Good
  <2>2. req' = [r \in Requests |-> req'[r]]
    BY DEF Register
  <2> QED BY <2>1, <2>2
<1>4. /\ registered' \in 0..MaxSessions /\ sessions' \in 0..MaxSessions
      /\ waiters' \subseteq Requests /\ shut' \in BOOLEAN
  BY <1>1, MaxSessionsAssumption DEF IInv, TypeOK, Register
<1> QED BY <1>2, <1>3, <1>4, AllGoSuffices DEF AllGo

\* The session goes down with all its channels.
LEMMA TeardownStep ==
  ASSUME IInv, Teardown
  PROVE  IInv' /\ HeadKept
<1>1. ASSUME NEW r \in Requests PROVE Goes(req[r], req'[r], r, registered')
  <2>1. /\ req[r] \in Request /\ Good(req[r], r, registered)
        /\ registered \in 0..MaxSessions
    BY DEF IInv, TypeOK
  <2>2. Goes(req[r], TornDown(registered, req[r], r), r, 0)
    BY <2>1, TornDownGood
  <2> QED BY <2>2 DEF Teardown
<1>2. req' \in [Requests -> Request]
  <2>1. ASSUME NEW r \in Requests PROVE req'[r] \in Request
    BY <1>1 DEF Goes, Good
  <2>2. req' = [r \in Requests |-> req'[r]]
    BY DEF Teardown
  <2> QED BY <2>1, <2>2
<1>3. /\ registered' \in 0..MaxSessions /\ sessions' \in 0..MaxSessions
      /\ waiters' \subseteq Requests /\ shut' \in BOOLEAN
  BY MaxSessionsAssumption DEF IInv, TypeOK, Teardown
<1> QED BY <1>1, <1>2, <1>3, AllGoSuffices DEF AllGo

\* The waiters are failed and the session goes down, in one step.
LEMMA ShutdownStep ==
  ASSUME IInv, Shutdown
  PROVE  IInv' /\ HeadKept
<1>1. ASSUME NEW r \in Requests PROVE Goes(req[r], req'[r], r, registered')
  <2> DEFINE q == req[r]
  <2> DEFINE p == IF r \in waiters THEN NotRestored(q) ELSE q
  <2>1. q \in Request /\ Good(q, r, registered) /\ registered \in 0..MaxSessions
    BY DEF IInv, TypeOK
  <2>2. Goes(q, p, r, registered)
    BY <2>1, NotRestoredGood, StaysGood
  <2>3. req'[r] = TornDown(registered, p, r)
    BY DEF Shutdown
  <2> HIDE DEF p
  <2>4. p \in Request /\ Good(p, r, registered)
    BY <2>2 DEF Goes, Good
  <2>5. Goes(p, TornDown(registered, p, r), r, 0)
    BY <2>1, <2>4, TornDownGood
  <2>6. Goes(q, TornDown(registered, p, r), r, 0)
    BY <2>2, <2>5 DEF Goes
  <2> QED BY <2>3, <2>6 DEF Shutdown
<1>2. req' \in [Requests -> Request]
  <2>1. ASSUME NEW r \in Requests PROVE req'[r] \in Request
    BY <1>1 DEF Goes, Good
  <2>2. req' = [r \in Requests |-> req'[r]]
    BY DEF Shutdown
  <2> QED BY <2>1, <2>2
<1>3. /\ registered' \in 0..MaxSessions /\ sessions' \in 0..MaxSessions
      /\ waiters' \subseteq Requests /\ shut' \in BOOLEAN
  BY MaxSessionsAssumption DEF IInv, TypeOK, Shutdown
<1> QED BY <1>1, <1>2, <1>3, AllGoSuffices DEF AllGo

\* Every step keeps IInv and no step loses or repeats a head.
LEMMA NextIInv == IInv /\ [Next]_vars => IInv' /\ HeadKept
<1> SUFFICES ASSUME IInv, [Next]_vars PROVE IInv' /\ HeadKept
  OBVIOUS
<1>1. CASE UNCHANGED vars
  <2>1. IInv'
    BY <1>1 DEF vars, IInv, TypeOK
  <2>2. HeadKept
    BY <1>1 DEF vars, HeadKept
  <2> QED BY <2>1, <2>2
<1>2. CASE Next
  BY <1>2, RegisterStep, TeardownStep, ShutdownStep, RequestStep DEF Next
<1> QED BY <1>1, <1>2

-----------------------------------------------------------------------------
\* The theorems.

\* Every request keeps the invariant Good (http-proxy.ts:159-237), through
\* any number of sessions.
THEOREM Inductive == Spec => []IInv
<1>1. IInv /\ [Next]_vars => IInv'
  BY NextIInv
<1> QED BY InitIInv, <1>1, PTL DEF Spec

\* A request's variables stay in their ranges; in particular no request is
\* sent upstream more than twice (the one replay of http-proxy.ts:195-210).
THEOREM TypeCorrect == Spec => []TypeOK
<1>1. IInv => TypeOK
  BY DEF IInv
<1> QED BY Inductive, <1>1, PTL

\* No channel is entered in the table of a session that is down, which the
\* setImmediate of http-proxy.ts:206-210 is there for.
THEOREM ChannelsLive == Spec => []NoChannelOnCorpse
<1>1. IInv => NoChannelOnCorpse
  BY DEF IInv, Good, ChannelGood, NoChannelOnCorpse
<1> QED BY Inductive, <1>1, PTL

\* finish (http-proxy.ts:159-176) leaves no channel behind, and no replay
\* opens one for a finished request.
THEOREM FinishedReleased == Spec => []ChannelsReleased
<1>1. IInv => ChannelsReleased
  BY DEF IInv, Good, ChannelGood, ChannelsReleased
<1> QED BY Inductive, <1>1, PTL

\* Only an idempotent request is sent a second time (http-proxy.ts:146-158).
THEOREM AtMostOnce == Spec => []SentOnce
<1>1. IInv => SentOnce
  <2> SUFFICES ASSUME IInv, NEW r \in Requests
               PROVE  req[r].opens <= (IF r \in Replayable THEN 2 ELSE 1)
    BY DEF SentOnce
  <2>1. req[r] \in Request /\ CountsGood(req[r], r)
    BY DEF IInv, Good
  <2>2. req[r].opens \in 0..2
    BY <2>1 DEF Request
  <2> QED BY <2>1, <2>2 DEF CountsGood
<1> QED BY Inductive, <1>1, PTL

\* The end of the browser's request body reaches whichever channel is open
\* exactly once (http-proxy.ts:276-281, 324-329).
THEOREM EndReaches == Spec => []EndForwarded
<1>1. IInv => EndForwarded
  BY DEF IInv, Good, ChannelGood, EndForwarded
<1> QED BY Inductive, <1>1, PTL

\* Whatever has been answered is neither answered nor sent again.
THEOREM HeadOnce == Spec => OneHead
<1>1. IInv /\ [Next]_vars =>
        [\A r \in Requests : req[r].heads = 1 => /\ req'[r].heads = 1
                                                 /\ req'[r].opens = req[r].opens]_vars
  BY NextIInv DEF HeadKept
<1> QED BY Inductive, <1>1, PTL DEF Spec, OneHead
=============================================================================

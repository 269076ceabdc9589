-------------------------- MODULE UpstreamRequestProofs --------------------------
(***************************************************************************)
(* Proofs about UpstreamRequest, for any number of chunks of the request   *)
(* and of the response, whatever the hook, the upstream, the gateway and   *)
(* the tunnel do.                                                          *)
(*                                                                         *)
(* The properties read the list of frames by counting and compare bodies   *)
(* by concatenation; the invariant says what the two look like in each     *)
(* phase of the channel (Fed, Answered), which each step changes at one    *)
(* place.                                                                  *)
(***************************************************************************)
EXTENDS UpstreamRequest, FiniteSetTheorems, SequenceTheorems, TLAPS

USE RequestAssumption

Chunk == 1..MaxChunks
Frames == {"head", "body", "end", "error"}

Request == [state : {"open", "over"}, body : Seq(Chunk), ended : BOOLEAN,
            head : BOOLEAN, over : BOOLEAN]

Channel == [phase : {"none", "auth", "live", "finished"}, kind : {"plain", "foreign", "probe"},
            idempotent : BOOLEAN, queue : Seq(Chunk), direct : BOOLEAN, ended : BOOLEAN,
            written : Nat, headSent : BOOLEAN, retried : BOOLEAN, paused : BOOLEAN,
            reqs : Seq(Request), comp : {"none", "running", "ended", "destroyed"}]

\* The chunks the gateway has sent.
Chunks(r) == [i \in 1..r.chunks |-> i]

\* The upstream requests of c, in every phase.
Requests(c) ==
  /\ Len(c.reqs) <= 2
  /\ c.retried <=> Len(c.reqs) = 2
  /\ c.direct <=> c.reqs # <<>>
  /\ c.direct => c.queue = <<>>
  /\ c.phase \in {"none", "auth"} =>
       c.reqs = <<>> /\ ~c.headSent /\ c.comp = "none" /\ c.written = 0
  /\ c.phase = "live" => c.reqs # <<>>
  /\ c.comp = "running" => c.phase = "live" /\ c.headSent
  /\ c.written = 0 /\ c.reqs # <<>> => c.reqs[1].body = <<>>
  /\ Len(c.reqs) = 2 => /\ c.idempotent /\ c.reqs[1].body = <<>>
                        /\ ~c.reqs[1].head /\ c.reqs[1].state = "over"
  /\ c.phase = "finished" =>
       \A i \in 1..Len(c.reqs) : c.reqs[i].state = "open" => c.reqs[i].over

\* What the gateway has sent is queued, or given to the current request.
Fed(c, r) ==
  /\ c.written <= r.chunks
  /\ c.phase = "none" => r = [chunks |-> 0, end |-> FALSE]
  /\ c.phase \in {"none", "auth"} => c.queue = Chunks(r) /\ c.ended = r.end
  /\ c.phase = "live" =>
       /\ c.ended = r.end
       /\ Last(c.reqs).body = Chunks(r) /\ Last(c.reqs).ended = r.end
       /\ Last(c.reqs).head = c.headSent

\* A head and the data after it.
Running(o) == o # <<>> /\ o[1] = "head" /\ \A i \in 2..Len(o) : o[i] = "body"

\* What a finished channel has sent: nothing, only an error, or a head and what
\* belongs after it.
Complete(o) ==
  \/ o = <<>> \/ o = <<"error">>
  \/ /\ o # <<>> /\ o[1] = "head"
     /\ \A i \in 2..Len(o) : o[i] = "body" \/ (i = Len(o) /\ o[i] \in {"end", "error"})

Answered(c, o) ==
  CASE c.phase \in {"none", "auth"} -> o = <<>>
    [] c.phase = "live" -> IF c.headSent THEN Running(o) ELSE o = <<>>
    [] c.phase = "finished" -> Complete(o)

ChannelGood(c, r, o) == Requests(c) /\ Fed(c, r) /\ Answered(c, o)

IInv ==
  /\ hook \in [verdict : {"none", "allow", "deny"}, timer : BOOLEAN, says : 0..MaxSays]
  /\ rcvd \in [chunks : 0..MaxChunks, end : BOOLEAN]
  /\ tunnel \in {"up", "dying", "down"}
  /\ ch \in Channel /\ out \in Seq(Frames)
  /\ ChannelGood(ch, rcvd, out)

-----------------------------------------------------------------------------
\* The operators of the model, field by field.

\* d and c differ at most in their phase, requests and compressor.
Others(d, c) ==
  /\ d \in Channel
  /\ d.kind = c.kind /\ d.idempotent = c.idempotent /\ d.queue = c.queue
  /\ d.direct = c.direct /\ d.ended = c.ended /\ d.written = c.written
  /\ d.headSent = c.headSent /\ d.retried = c.retried /\ d.paused = c.paused

\* d has the requests of c but for the last one, which is r.
LastIs(d, c, r) ==
  /\ Len(d.reqs) = Len(c.reqs) /\ d.reqs # <<>>
  /\ d.reqs[Len(c.reqs)] = r
  /\ \A i \in 1..Len(c.reqs) : i # Len(c.reqs) => d.reqs[i] = c.reqs[i]

\* this.req.
LEMMA ThisRequest ==
  ASSUME NEW c \in Channel, c.reqs # <<>>
  PROVE  /\ Len(c.reqs) \in Nat /\ Len(c.reqs) >= 1
         /\ c.reqs \in Seq(Request)
         /\ Last(c.reqs) = c.reqs[Len(c.reqs)]
         /\ Last(c.reqs) \in Request
<1>1. c.reqs \in Seq(Request)
  BY DEF Channel
<1>2. Len(c.reqs) \in Nat /\ Len(c.reqs) # 0
  BY <1>1, EmptySeq, LenProperties
<1> QED BY <1>1, <1>2, ElementOfSeq DEF Last

\* SetThis.
LEMMA SetThisFields ==
  ASSUME NEW c \in Channel, c.reqs # <<>>, NEW r \in Request
  PROVE  LET d == SetThis(c, r)
         IN /\ Others(d, c) /\ d.phase = c.phase /\ d.comp = c.comp
            /\ LastIs(d, c, r)
<1>1. PICK s : s = [c.reqs EXCEPT ![Len(c.reqs)] = r]
  OBVIOUS
<1>2. SetThis(c, r) = [c EXCEPT !.reqs = s]
  BY <1>1, Zenon DEF SetThis
<1>3. /\ s \in Seq(Request) /\ Len(s) = Len(c.reqs)
      /\ \A j \in 1..Len(c.reqs) : s[j] = IF j = Len(c.reqs) THEN r ELSE c.reqs[j]
  BY <1>1, ThisRequest, ExceptSeq
<1>4. s # <<>> /\ s[Len(c.reqs)] = r
  BY <1>3, ThisRequest, EmptySeq
<1>5. PICK d : d = [c EXCEPT !.reqs = s]
  OBVIOUS
<1>6. d.reqs = s /\ d.phase = c.phase /\ d.comp = c.comp /\ Others(d, c)
  BY <1>3, <1>5 DEF Channel, Others
<1>7. LastIs(d, c, r)
  BY <1>3, <1>4, <1>6 DEF LastIs
<1>8. d = SetThis(c, r)
  BY <1>2, <1>5
<1> QED BY <1>6, <1>7, <1>8

\* The requests' records.
LEMMA RequestFields ==
  ASSUME NEW q \in Request
  PROVE  /\ LET p == [q EXCEPT !.state = "over"]
            IN p \in Request /\ p.state = "over" /\ p.body = q.body /\ p.ended = q.ended
               /\ p.head = q.head /\ p.over = q.over
         /\ LET p == [q EXCEPT !.head = TRUE]
            IN p \in Request /\ p.state = q.state /\ p.body = q.body /\ p.ended = q.ended
               /\ p.head = TRUE /\ p.over = q.over
         /\ LET p == [q EXCEPT !.over = TRUE]
            IN p \in Request /\ p.state = q.state /\ p.body = q.body /\ p.ended = q.ended
               /\ p.head = q.head /\ p.over = TRUE
         /\ LET p == [q EXCEPT !.ended = TRUE]
            IN p \in Request /\ p.state = q.state /\ p.body = q.body /\ p.ended = TRUE
               /\ p.head = q.head /\ p.over = q.over
         /\ \A b \in Seq(Chunk) :
            LET p == [q EXCEPT !.body = b]
            IN p \in Request /\ p.state = q.state /\ p.body = b
               /\ p.ended = q.ended /\ p.head = q.head /\ p.over = q.over
BY DEF Request

\* destroyUpstream and done: what a finished channel has left.
LEMMA AbortedFields ==
  ASSUME NEW c \in Channel
  PROVE  LET d == Aborted(c)
         IN /\ Others(d, c) /\ d.phase = "finished"
            /\ d.comp = (IF c.comp = "running" THEN "destroyed" ELSE c.comp)
            /\ IF c.reqs = <<>> THEN d.reqs = <<>>
               ELSE LastIs(d, c, [Last(c.reqs) EXCEPT !.state = "over"])
<1> DEFINE x == IF c.comp = "running" THEN "destroyed" ELSE c.comp
<1>1. x \in {"none", "running", "ended", "destroyed"}
  BY DEF Channel
<1>2. PICK b : b = [c EXCEPT !.comp = x]
  OBVIOUS
<1>3. PICK e : e = DestroyUpstream(c)
  OBVIOUS
<1>4. e = IF c.reqs = <<>> THEN b ELSE SetThis(b, [Last(c.reqs) EXCEPT !.state = "over"])
  BY <1>2, <1>3 DEF DestroyUpstream
<1> HIDE DEF x
<1>5. b.comp = x /\ b.phase = c.phase /\ b.reqs = c.reqs /\ Others(b, c)
  BY <1>1, <1>2 DEF Channel, Others
<1>6. b \in Channel
  BY <1>5 DEF Others
<1>7. /\ Others(e, b) /\ e.comp = x
      /\ IF c.reqs = <<>> THEN e.reqs = <<>>
         ELSE LastIs(e, b, [Last(c.reqs) EXCEPT !.state = "over"])
  <2>1. CASE c.reqs = <<>>
    BY <1>4, <1>5, <1>6, <2>1 DEF Others
  <2>2. CASE c.reqs # <<>>
    <3>1. PICK r : r = [Last(c.reqs) EXCEPT !.state = "over"]
      OBVIOUS
    <3>2. r \in Request
      BY <2>2, <3>1, ThisRequest, RequestFields
    <3>3. e = SetThis(b, r)
      BY <1>4, <2>2, <3>1, Zenon
    <3>4. Others(e, b) /\ e.comp = b.comp /\ LastIs(e, b, r)
      BY <1>5, <1>6, <2>2, <3>2, <3>3, SetThisFields
    <3> QED BY <1>5, <2>2, <3>1, <3>4
  <2> QED BY <2>1, <2>2
<1>8. e \in Channel
  BY <1>7 DEF Others
<1>9. PICK d : d = [e EXCEPT !.phase = "finished"]
  OBVIOUS
<1>10. d.phase = "finished" /\ d.comp = e.comp /\ d.reqs = e.reqs /\ Others(d, e)
  BY <1>8, <1>9 DEF Channel, Others
<1>11. d = Aborted(c)
  BY <1>3, <1>9 DEF Aborted, Done
<1>12. Others(d, c)
  BY <1>5, <1>7, <1>10 DEF Others
<1>13. c.reqs # <<>> => LastIs(d, c, [Last(c.reqs) EXCEPT !.state = "over"])
  BY <1>5, <1>7, <1>10 DEF LastIs
<1>14. c.reqs = <<>> => d.reqs = <<>>
  BY <1>7, <1>10
<1> QED BY <1>7, <1>10, <1>11, <1>12, <1>13, <1>14 DEF x

\* openUpstream.
LEMMA OpenUpstreamFields ==
  ASSUME NEW c \in Channel
  PROVE  LET d == OpenUpstream(c)
         IN /\ d \in Channel /\ d.phase = "live" /\ d.comp = c.comp
            /\ d.kind = c.kind /\ d.idempotent = c.idempotent /\ d.ended = c.ended
            /\ d.headSent = c.headSent /\ d.retried = c.retried /\ d.paused = c.paused
            /\ d.queue = <<>> /\ d.direct = TRUE /\ d.written = c.written + Len(c.queue)
            /\ \E q \in Request :
                 /\ d.reqs = Append(c.reqs, q)
                 /\ q.state = "open" /\ q.body = c.queue /\ q.ended = c.ended
                 /\ q.head = FALSE /\ q.over = FALSE
<1>1. PICK q : q = [state |-> "open", body |-> c.queue, ended |-> c.ended,
                    head |-> FALSE, over |-> FALSE]
  OBVIOUS
<1>2. /\ q \in Request /\ q.state = "open" /\ q.body = c.queue /\ q.ended = c.ended
      /\ q.head = FALSE /\ q.over = FALSE
  BY <1>1 DEF Channel, Request
<1>3. PICK s : s = Append(c.reqs, q)
  OBVIOUS
<1>4. s \in Seq(Request)
  BY <1>2, <1>3, AppendProperties DEF Channel
<1>5. PICK w : w = c.written + Len(c.queue)
  OBVIOUS
<1>6. w \in Nat
  BY <1>5, LenProperties DEF Channel
<1>7. PICK e : e = [c EXCEPT !.phase = "live", !.queue = <<>>, !.direct = TRUE]
  OBVIOUS
<1>8. /\ e \in Channel /\ e.phase = "live" /\ e.comp = c.comp
      /\ e.kind = c.kind /\ e.idempotent = c.idempotent /\ e.ended = c.ended
      /\ e.headSent = c.headSent /\ e.retried = c.retried /\ e.paused = c.paused
      /\ e.queue = <<>> /\ e.direct = TRUE
  BY <1>7, EmptySeq DEF Channel
<1>9. PICK d : d = [e EXCEPT !.written = w, !.reqs = s]
  OBVIOUS
<1>10. /\ d \in Channel /\ d.phase = "live" /\ d.comp = c.comp
       /\ d.kind = c.kind /\ d.idempotent = c.idempotent /\ d.ended = c.ended
       /\ d.headSent = c.headSent /\ d.retried = c.retried /\ d.paused = c.paused
       /\ d.queue = <<>> /\ d.direct = TRUE /\ d.written = w /\ d.reqs = s
  BY <1>4, <1>6, <1>8, <1>9 DEF Channel
<1>11. d = OpenUpstream(c)
  BY <1>1, <1>3, <1>5, <1>7, <1>9, Zenon DEF OpenUpstream
<1> QED BY <1>2, <1>3, <1>5, <1>10, <1>11

-----------------------------------------------------------------------------
\* What the parts of the invariant need of a step.

\* A channel finishes well from any phase, if its request is over or has
\* nothing more to come.
LEMMA FinishedGood ==
  ASSUME NEW c \in Channel, Requests(c), NEW r, Fed(c, r),
         NEW d, Others(d, c), d.phase = "finished", d.comp # "running",
         \/ c.reqs = <<>> /\ d.reqs = <<>>
         \/ \E q \in Request : /\ c.reqs # <<>> /\ LastIs(d, c, q)
                               /\ q.body = Last(c.reqs).body
                               /\ q.state = "open" => q.over
  PROVE  Requests(d) /\ Fed(d, r)
<1>1. Fed(d, r)
  BY DEF Fed, Others
<1>2. CASE c.reqs = <<>> /\ d.reqs = <<>>
  <2>1. Len(d.reqs) = 0
    BY <1>2, EmptySeq
  <2> QED BY <1>1, <1>2, <2>1 DEF Requests, Others
<1>3. CASE c.reqs # <<>>
  <2>1. PICK q \in Request : /\ LastIs(d, c, q) /\ q.body = Last(c.reqs).body
                             /\ q.state = "open" => q.over
    BY <1>3
  <2>2. /\ Len(c.reqs) \in {1, 2} /\ Len(d.reqs) = Len(c.reqs) /\ d.reqs # <<>>
        /\ Last(c.reqs) = c.reqs[Len(c.reqs)]
    <3>1. Len(c.reqs) \in Nat /\ Len(c.reqs) >= 1 /\ Last(c.reqs) = c.reqs[Len(c.reqs)]
      BY <1>3, ThisRequest
    <3>2. Len(c.reqs) <= 2
      BY DEF Requests
    <3>3. Len(d.reqs) = Len(c.reqs) /\ d.reqs # <<>>
      BY <2>1 DEF LastIs
    <3>4. \A n \in Nat : n >= 1 /\ n <= 2 => n \in {1, 2}
      OBVIOUS
    <3>5. Len(c.reqs) \in {1, 2}
      BY <3>1, <3>2, <3>4, Zenon
    <3> QED BY <3>1, <3>3, <3>5, Zenon
  <2>3. CASE Len(c.reqs) = 1
    <3>1. d.reqs[1] = q
      BY <2>1, <2>3 DEF LastIs
    <3> QED BY <1>1, <1>3, <2>1, <2>2, <2>3, <3>1 DEF Requests, Others
  <2>4. CASE Len(c.reqs) = 2
    <3>1. d.reqs[2] = q /\ d.reqs[1] = c.reqs[1]
      BY <2>1, <2>4 DEF LastIs
    <3>2. \A i \in 1..Len(d.reqs) : i = 1 \/ i = 2
      BY <2>2, <2>4
    <3> QED BY <1>1, <1>3, <2>1, <2>2, <2>4, <3>1, <3>2 DEF Requests, Others
  <2> QED BY <2>2, <2>3, <2>4
<1> QED BY <1>2, <1>3

\* abort, in whatever phase.
LEMMA AbortGood ==
  ASSUME NEW c \in Channel, Requests(c), NEW r, Fed(c, r)
  PROVE  LET d == Aborted(c)
         IN d \in Channel /\ d.phase = "finished" /\ Requests(d) /\ Fed(d, r)
<1>1. PICK d : d = Aborted(c)
  OBVIOUS
<1>2. PICK q : q = [Last(c.reqs) EXCEPT !.state = "over"]
  OBVIOUS
<1>3. /\ Others(d, c) /\ d.phase = "finished"
      /\ d.comp = (IF c.comp = "running" THEN "destroyed" ELSE c.comp)
      /\ IF c.reqs = <<>> THEN d.reqs = <<>> ELSE LastIs(d, c, q)
  BY <1>1, <1>2, AbortedFields
<1>4. c.reqs # <<>> => q \in Request /\ q.state = "over" /\ q.body = Last(c.reqs).body
  BY <1>2, ThisRequest, RequestFields
<1>5. Requests(d) /\ Fed(d, r)
  BY <1>3, <1>4, FinishedGood
<1> QED BY <1>1, <1>3, <1>5 DEF Others

\* done.
LEMMA DoneFields ==
  ASSUME NEW c \in Channel
  PROVE  LET d == Done(c)
         IN Others(d, c) /\ d.phase = "finished" /\ d.comp = c.comp /\ d.reqs = c.reqs
<1>1. PICK d : d = [c EXCEPT !.phase = "finished"]
  OBVIOUS
<1>2. d.phase = "finished" /\ d.comp = c.comp /\ d.reqs = c.reqs /\ Others(d, c)
  BY <1>1 DEF Channel, Others
<1>3. d = Done(c)
  BY <1>1, Zenon DEF Done
<1> QED BY <1>2, <1>3

\* done after a change of this.req that leaves it over, or with nothing to come.
LEMMA DoneGood ==
  ASSUME NEW c \in Channel, Requests(c), NEW r, Fed(c, r), c.comp # "running",
         c.reqs # <<>>, NEW q \in Request, q.body = Last(c.reqs).body,
         q.state = "open" => q.over
  PROVE  LET d == Done(SetThis(c, q))
         IN d \in Channel /\ d.phase = "finished" /\ Requests(d) /\ Fed(d, r)
<1>1. PICK e : e = SetThis(c, q)
  OBVIOUS
<1>2. Others(e, c) /\ e.comp = c.comp /\ LastIs(e, c, q)
  BY <1>1, SetThisFields
<1>3. PICK d : d = Done(e)
  OBVIOUS
<1>4. Others(d, e) /\ d.phase = "finished" /\ d.comp = e.comp /\ d.reqs = e.reqs
  BY <1>2, <1>3, DoneFields DEF Others
<1>5. Others(d, c)
  BY <1>2, <1>4 DEF Others
<1>6. LastIs(d, c, q)
  BY <1>2, <1>4 DEF LastIs
<1>7. Requests(d) /\ Fed(d, r)
  BY <1>2, <1>4, <1>5, <1>6, FinishedGood
<1> QED BY <1>1, <1>3, <1>4, <1>5, <1>7 DEF Others

\* What becomes of the request of a finished channel.
LEMMA AfterwardsGood ==
  ASSUME NEW c \in Channel, Requests(c), NEW r, Fed(c, r), c.phase = "finished",
         c.reqs # <<>>, NEW q \in Request, q.body = Last(c.reqs).body,
         q.state = "open" => q.over
  PROVE  LET d == SetThis(c, q)
         IN d \in Channel /\ d.phase = "finished" /\ Requests(d) /\ Fed(d, r)
<1>1. PICK d : d = SetThis(c, q)
  OBVIOUS
<1>2. Others(d, c) /\ d.comp = c.comp /\ d.phase = c.phase /\ LastIs(d, c, q)
  BY <1>1, SetThisFields
<1>3. d.comp # "running"
  BY <1>2 DEF Requests
<1>4. Requests(d) /\ Fed(d, r)
  BY <1>2, <1>3, FinishedGood
<1> QED BY <1>1, <1>2, <1>4 DEF Others

\* What a channel has sent in any phase will do when it is aborted.
LEMMA AnsweredComplete ==
  ASSUME NEW c \in Channel, NEW o \in Seq(Frames), Answered(c, o)
  PROVE  Complete(o)
BY DEF Answered, Complete, Running, Channel

-----------------------------------------------------------------------------
\* trySend.

\* One frame: it goes out, or the channel is aborted instead.
LEMMA SendOne ==
  ASSUME out \in Seq(Frames), NEW x \in Frames, NEW next, TrySend(<<x>>, next)
  PROVE  \/ out' = Append(out, x) /\ ch' = next
         \/ out' = out /\ ch' = Aborted(ch)
<1>1. CASE out' = out \o <<x>> /\ ch' = next
  <2>1. out \o <<x>> = Append(out, x)
    OBVIOUS
  <2> QED BY <1>1, <2>1
<1>2. CASE /\ \E n \in 0..Len(<<x>>) - 1 : out' = out \o SubSeq(<<x>>, 1, n)
           /\ ch' = Aborted(ch)
  <2>1. PICK n \in 0..Len(<<x>>) - 1 : out' = out \o SubSeq(<<x>>, 1, n)
    BY <1>2
  <2>2. n = 0
    BY <2>1
  <2>3. SubSeq(<<x>>, 1, 0) = <<>>
    OBVIOUS
  <2>4. out \o <<>> = out
    OBVIOUS
  <2> QED BY <1>2, <2>1, <2>2, <2>3, <2>4
<1> QED BY <1>1, <1>2 DEF TrySend

\* A whole answer, as the first frames: all of it, or a part and the channel is
\* aborted.
LEMMA SendAnswer ==
  ASSUME out = <<>>, NEW f \in {<<"head", "body", "end">>, <<"head", "end">>},
         NEW next, TrySend(f, next)
  PROVE  out' \in Seq(Frames) /\ Complete(out') /\ (ch' = next \/ ch' = Aborted(ch))
<1>1. \/ out' = out \o f
      \/ \E n \in 0..Len(f) - 1 : out' = out \o SubSeq(f, 1, n)
  BY DEF TrySend
<1>2. ch' = next \/ ch' = Aborted(ch)
  BY DEF TrySend
<1>3. /\ f \in Seq(Frames) /\ Len(f) \in {2, 3} /\ f[1] = "head"
      /\ \A i \in 2..Len(f) - 1 : f[i] = "body"
      /\ f[Len(f)] = "end"
  <2>1. CASE f = <<"head", "body", "end">>
    <3>1. Len(f) = 3 /\ f[1] = "head" /\ f[2] = "body" /\ f[3] = "end"
      BY <2>1
    <3>2. f \in Seq(Frames)
      BY <2>1 DEF Frames
    <3> QED BY <3>1, <3>2
  <2>2. CASE f = <<"head", "end">>
    <3>1. Len(f) = 2 /\ f[1] = "head" /\ f[2] = "end"
      BY <2>2
    <3>2. f \in Seq(Frames)
      BY <2>2 DEF Frames
    <3> QED BY <3>1, <3>2
  <2> QED BY <2>1, <2>2
<1>4. CASE out' = out \o f
  <2>1. out' = f
    BY <1>3, <1>4
  <2>2. Complete(f)
    BY <1>3 DEF Complete
  <2> QED BY <1>2, <1>3, <2>1, <2>2
<1>5. CASE \E n \in 0..Len(f) - 1 : out' = out \o SubSeq(f, 1, n)
  <2>1. PICK n \in 0..Len(f) - 1 : out' = out \o SubSeq(f, 1, n)
    BY <1>5
  <2>2. n \in Nat /\ n < Len(f) /\ n <= Len(f)
    BY <1>3, <2>1
  <2>3. PICK s : s = SubSeq(f, 1, n)
    OBVIOUS
  <2>4. /\ s \in Seq(Frames) /\ Len(s) = n
        /\ \A i \in 1..n : s[i] = f[i]
    BY <1>3, <2>2, <2>3
  <2>5. out' = s
    BY <2>1, <2>3, <2>4
  <2>6. CASE n = 0
    BY <1>2, <2>4, <2>5, <2>6, EmptySeq DEF Complete
  <2>7. CASE n # 0
    <3>1. s # <<>>
      BY <2>4, <2>7, EmptySeq
    <3>2. s[1] = "head" /\ \A i \in 2..n : s[i] = "body"
      BY <1>3, <2>2, <2>4, <2>7
    <3>3. Complete(s)
      BY <2>4, <3>1, <3>2 DEF Complete
    <3> QED BY <1>2, <2>4, <2>5, <3>3
  <2> QED BY <2>6, <2>7
<1> QED BY <1>1, <1>4, <1>5

\* One more frame of data, or the frame that ends a response.
LEMMA AppendFrame ==
  ASSUME NEW o \in Seq(Frames), Running(o), NEW x \in Frames
  PROVE  /\ Append(o, x) \in Seq(Frames)
         /\ x = "body" => Running(Append(o, x))
         /\ x \in {"end", "error"} => Complete(Append(o, x))
<1>1. PICK a : a = Append(o, x)
  OBVIOUS
<1>2. PICK n : n = Len(o)
  OBVIOUS
<1>3. /\ n \in Nat /\ a \in Seq(Frames) /\ Len(a) = n + 1 /\ a[n + 1] = x
      /\ \A i \in 1..n : a[i] = o[i]
  BY <1>1, <1>2, AppendProperties, LenProperties
<1>4. n # 0 /\ o[1] = "head" /\ \A i \in 2..n : o[i] = "body"
  BY <1>2, EmptySeq DEF Running
<1>5. a # <<>> /\ a[1] = "head"
  BY <1>3, <1>4, EmptySeq
<1>6. \A i \in 2..n + 1 : i = n + 1 \/ a[i] = "body"
  BY <1>3, <1>4
<1>7. x = "body" => Running(a)
  BY <1>3, <1>5, <1>6 DEF Running
<1>8. x \in {"end", "error"} => Complete(a)
  BY <1>3, <1>5, <1>6 DEF Complete
<1> QED BY <1>1, <1>3, <1>7, <1>8

-----------------------------------------------------------------------------
\* The steps.

LEMMA InitIInv == Init => IInv
<1> SUFFICES ASSUME Init PROVE IInv
  OBVIOUS
<1>1. /\ ch \in Channel /\ ch.phase = "none" /\ ch.queue = <<>> /\ ~ch.direct /\ ch.ended = FALSE
      /\ ch.written = 0 /\ ~ch.headSent /\ ~ch.retried /\ ch.reqs = <<>> /\ ch.comp = "none"
  <2>1. ch \in [phase : {"none"}, kind : {"plain", "foreign", "probe"}, idempotent : BOOLEAN,
                queue : {<<>>}, direct : {FALSE}, ended : {FALSE}, written : {0},
                headSent : {FALSE}, retried : {FALSE}, paused : {FALSE},
                reqs : {<<>>}, comp : {"none"}]
    BY DEF Init
  <2>2. <<>> \in Seq(Chunk) /\ <<>> \in Seq(Request)
    BY EmptySeq
  <2>3. ch \in Channel
    <3>1. PICK k \in {"plain", "foreign", "probe"}, b \in BOOLEAN :
            ch = [phase |-> "none", kind |-> k, idempotent |-> b, queue |-> <<>>,
                  direct |-> FALSE, ended |-> FALSE, written |-> 0, headSent |-> FALSE,
                  retried |-> FALSE, paused |-> FALSE, reqs |-> <<>>, comp |-> "none"]
      BY <2>1
    <3> QED BY <2>2, <3>1, SMTT(60) DEF Channel
  <2>4. /\ ch.phase = "none" /\ ch.queue = <<>> /\ ~ch.direct /\ ch.ended = FALSE
        /\ ch.written = 0 /\ ~ch.headSent /\ ~ch.retried /\ ch.reqs = <<>> /\ ch.comp = "none"
    BY <2>1
  <2> QED BY <2>3, <2>4
<1>2. Len(ch.reqs) = 0
  BY <1>1, EmptySeq
<1>3. Requests(ch)
  <2>1. Len(ch.reqs) <= 2 /\ Len(ch.reqs) # 2
    BY <1>2
  <2> QED BY <1>1, <2>1, Zenon DEF Requests
<1>4. rcvd = [chunks |-> 0, end |-> FALSE] /\ out = <<>>
  BY DEF Init
<1>5. Chunks(rcvd) = <<>>
  BY <1>4 DEF Chunks
<1>6. Fed(ch, rcvd)
  <2>1. rcvd.chunks = 0 /\ rcvd.end = FALSE
    BY <1>4
  <2>2. ch.written <= rcvd.chunks
    BY <1>1, <2>1
  <2> QED BY <1>1, <1>4, <1>5, <2>1, <2>2, Zenon DEF Fed
<1>7. Answered(ch, out)
  BY <1>1, <1>4 DEF Answered
<1>8. out \in Seq(Frames)
  BY <1>4, EmptySeq
<1>9. /\ hook \in [verdict : {"none", "allow", "deny"}, timer : BOOLEAN, says : 0..MaxSays]
      /\ rcvd \in [chunks : 0..MaxChunks, end : BOOLEAN]
      /\ tunnel \in {"up", "dying", "down"}
  BY DEF Init
<1> QED BY <1>1, <1>3, <1>6, <1>7, <1>8, <1>9 DEF IInv, ChannelGood

\* The channel finishes, whatever it does to that end.
LEMMA FinishKeeps ==
  ASSUME IInv, ch' \in Channel, ch'.phase = "finished", Requests(ch'), Fed(ch', rcvd),
         out' \in Seq(Frames), Complete(out'), UNCHANGED <<hook, rcvd>>,
         tunnel' \in {"up", "dying", "down"}
  PROVE  IInv'
<1>1. Answered(ch', out')
  BY DEF Answered
<1> QED BY <1>1 DEF IInv, ChannelGood

\* abort, and what the channel has sent ends there.
LEMMA AbortKeeps ==
  ASSUME IInv, ch' = Aborted(ch), out' \in Seq(Frames), Complete(out'),
         UNCHANGED <<hook, rcvd>>, tunnel' \in {"up", "dying", "down"}
  PROVE  IInv'
<1>1. ch \in Channel /\ Requests(ch) /\ Fed(ch, rcvd)
  BY DEF IInv, ChannelGood
<1>2. ch' \in Channel /\ ch'.phase = "finished" /\ Requests(ch') /\ Fed(ch', rcvd)
  BY <1>1, AbortGood
<1> QED BY <1>2, FinishKeeps

\* The same without a frame.
LEMMA CancelKeeps ==
  ASSUME IInv, ch' = Aborted(ch), UNCHANGED <<hook, rcvd, out>>,
         tunnel' \in {"up", "dying", "down"}
  PROVE  IInv'
<1>1. out \in Seq(Frames) /\ Complete(out)
  BY AnsweredComplete DEF IInv, ChannelGood
<1> QED BY <1>1, AbortKeeps

\* fail.
LEMMA FailKeeps ==
  ASSUME IInv, Live, ch.headSent, Fail, UNCHANGED <<hook, rcvd, tunnel>>
  PROVE  IInv'
<1>1. out \in Seq(Frames) /\ "error" \in Frames
  BY DEF IInv, Frames
<1>2. ch' = Aborted(ch) /\ (out' = Append(out, "error") \/ out' = out)
  BY <1>1, SendOne DEF Fail
<1>3. Running(out)
  BY DEF IInv, ChannelGood, Answered, Requests, Live
<1>4. tunnel' \in {"up", "dying", "down"}
  BY DEF IInv
<1>5. CASE out' = out
  BY <1>2, <1>4, <1>5, CancelKeeps
<1>6. CASE out' = Append(out, "error")
  <2>1. out' \in Seq(Frames) /\ Complete(out')
    BY <1>1, <1>3, <1>6, AppendFrame
  <2> QED BY <1>2, <1>4, <2>1, AbortKeeps
<1> QED BY <1>2, <1>5, <1>6

LEMMA OpenHttpKeeps ==
  ASSUME IInv, OpenHttp
  PROVE  IInv'
<1>1. /\ ch \in Channel /\ ch.phase = "none" /\ Requests(ch) /\ Fed(ch, rcvd)
      /\ Answered(ch, out)
  BY DEF IInv, ChannelGood, OpenHttp
<1>2. CASE ch' = [ch EXCEPT !.phase = "auth"] /\ hook' = Asked /\ UNCHANGED out
  <2>1. /\ ch' \in Channel /\ ch'.phase = "auth" /\ ch'.queue = ch.queue /\ ch'.ended = ch.ended
        /\ ch'.direct = ch.direct /\ ch'.headSent = ch.headSent /\ ch'.comp = ch.comp
        /\ ch'.reqs = ch.reqs /\ ch'.written = ch.written /\ ch'.retried = ch.retried
    BY <1>1, <1>2 DEF Channel
  <2>2. Requests(ch')
    BY <1>1, <2>1 DEF Requests
  <2>3. Fed(ch', rcvd)
    BY <1>1, <2>1 DEF Fed
  <2>4. Answered(ch', out)
    BY <1>1, <2>1 DEF Answered
  <2>5. hook' \in [verdict : {"none", "allow", "deny"}, timer : BOOLEAN, says : 0..MaxSays]
    BY <1>2 DEF IInv, Asked
  <2> QED BY <1>2, <2>1, <2>2, <2>3, <2>4, <2>5 DEF IInv, ChannelGood, OpenHttp
<1>3. CASE ch' = Done(ch) /\ out' = <<"error">> /\ UNCHANGED hook
  <2>1. ch.reqs = <<>> /\ ch.comp = "none"
    BY <1>1 DEF Requests
  <2>2. /\ Others(ch', ch) /\ ch'.phase = "finished" /\ ch'.comp = ch.comp
        /\ ch'.reqs = ch.reqs
    BY <1>1, <1>3, DoneFields
  <2>3. Requests(ch') /\ Fed(ch', rcvd)
    BY <1>1, <2>1, <2>2, FinishedGood
  <2>4. out' \in Seq(Frames) /\ Complete(out')
    BY <1>3 DEF Frames, Complete
  <2>5. ch' \in Channel
    BY <2>2 DEF Others
  <2>6. UNCHANGED rcvd /\ tunnel' \in {"up", "dying", "down"}
    BY DEF OpenHttp, IInv
  <2> QED BY <1>3, <2>2, <2>3, <2>4, <2>5, <2>6, FinishKeeps
<1> QED BY <1>2, <1>3 DEF OpenHttp

\* The hook has a say, and says no more than once what counts.
LEMMA HookKeeps ==
  ASSUME IInv, HookSays \/ HookTimeout
  PROVE  IInv'
<1>1. \A d \in {"allow", "deny"} :
        Settled(d) \in [verdict : {"none", "allow", "deny"}, timer : BOOLEAN, says : 0..MaxSays]
        /\ Settled(d).says = hook.says
  BY DEF IInv, Settled
<1>2. hook' \in [verdict : {"none", "allow", "deny"}, timer : BOOLEAN, says : 0..MaxSays]
  <2>1. CASE HookSays
    <3>1. PICK d \in {"allow", "deny"} : hook' = [Settled(d) EXCEPT !.says = @ + 1]
      BY <2>1 DEF HookSays
    <3>2. PICK h : h = Settled(d)
      OBVIOUS
    <3>3. hook' = [h EXCEPT !.says = h.says + 1]
      BY <3>1, <3>2, Zenon
    <3>4. h.says + 1 \in 0..MaxSays
      BY <1>1, <2>1, <3>2 DEF HookSays
    <3>5. h \in [verdict : {"none", "allow", "deny"}, timer : BOOLEAN, says : 0..MaxSays]
      BY <1>1, <3>2
    <3> QED BY <3>3, <3>4, <3>5
  <2>2. CASE HookTimeout
    BY <1>1, <2>2 DEF HookTimeout
  <2> QED BY <2>1, <2>2
<1>3. UNCHANGED <<ch, rcvd, out, tunnel>>
  BY DEF HookSays, HookTimeout
<1> QED BY <1>2, <1>3 DEF IInv, ChannelGood

LEMMA VerdictKeeps ==
  ASSUME IInv, Verdict
  PROVE  IInv'
<1>1. /\ ch \in Channel /\ ch.phase = "auth" /\ Requests(ch) /\ Fed(ch, rcvd)
      /\ out = <<>> /\ ch.reqs = <<>> /\ ch.comp = "none" /\ ~ch.headSent
  BY DEF IInv, ChannelGood, Verdict, Awaited, Requests, Answered
<1>2. UNCHANGED <<hook, rcvd>> /\ tunnel' \in {"up", "dying", "down"}
  BY DEF Verdict, Awaited, IInv
<1>3. ASSUME NEW f \in {<<"head", "body", "end">>, <<"head", "end">>}, TrySend(f, Done(ch))
      PROVE  IInv'
  <2>1. out' \in Seq(Frames) /\ Complete(out') /\ (ch' = Done(ch) \/ ch' = Aborted(ch))
    BY <1>1, <1>3, SendAnswer
  <2>2. CASE ch' = Done(ch)
    <3>1. /\ Others(ch', ch) /\ ch'.phase = "finished" /\ ch'.comp = ch.comp
          /\ ch'.reqs = ch.reqs
      BY <1>1, <2>2, DoneFields
    <3>2. Requests(ch') /\ Fed(ch', rcvd)
      BY <1>1, <3>1, FinishedGood
    <3>3. ch' \in Channel
      BY <3>1 DEF Others
    <3> QED BY <1>2, <2>1, <3>1, <3>2, <3>3, FinishKeeps
  <2>3. CASE ch' = Aborted(ch)
    BY <1>2, <2>1, <2>3, AbortKeeps
  <2> QED BY <2>1, <2>2, <2>3
<1>4. CASE ch' = OpenUpstream(ch) /\ UNCHANGED out
  <2>1. PICK d : d = OpenUpstream(ch)
    OBVIOUS
  <2>2. /\ d \in Channel /\ d.phase = "live" /\ d.comp = ch.comp
        /\ d.idempotent = ch.idempotent /\ d.ended = ch.ended
        /\ d.headSent = ch.headSent /\ d.retried = ch.retried
        /\ d.queue = <<>> /\ d.direct = TRUE /\ d.written = ch.written + Len(ch.queue)
    BY <1>1, <2>1, OpenUpstreamFields
  <2>3. PICK q \in Request : /\ d.reqs = Append(ch.reqs, q)
                             /\ q.state = "open" /\ q.body = ch.queue /\ q.ended = ch.ended
                             /\ q.head = FALSE /\ q.over = FALSE
    BY <1>1, <2>1, OpenUpstreamFields
  <2>4. d.reqs = <<q>>
    BY <1>1, <2>3
  <2>5. Len(d.reqs) = 1 /\ d.reqs # <<>> /\ d.reqs[1] = q /\ Last(d.reqs) = q
    BY <2>4 DEF Last
  <2>6. Len(ch.reqs) = 0 /\ ch.written = 0
    BY <1>1, EmptySeq DEF Requests
  <2>7. ch.queue = Chunks(rcvd) /\ ch.ended = rcvd.end
    BY <1>1 DEF Fed
  <2>8. ch.queue \in Seq(Chunk) /\ Len(ch.queue) \in Nat
    BY <1>1, LenProperties DEF Channel
  <2>9. Len(ch.queue) = 0 => ch.queue = <<>>
    BY <2>8, EmptySeq
  <2>10. d.written = Len(ch.queue)
    BY <2>2, <2>6, <2>8
  <2>11. ~ch.retried
    BY <1>1, <2>6 DEF Requests
  <2>12. Requests(d)
    BY <1>1, <2>2, <2>3, <2>5, <2>9, <2>10, <2>11 DEF Requests
  <2>13. Len(ch.queue) = rcvd.chunks
    BY <2>7 DEF Chunks, IInv
  <2>14. Fed(d, rcvd)
    <3>1. d.written <= rcvd.chunks
      BY <2>10, <2>13 DEF IInv
    <3>2. ch.headSent = FALSE
      BY <1>1 DEF Channel
    <3>3. d.phase # "none" /\ d.phase # "auth"
      BY <2>2
    <3> QED BY <2>2, <2>3, <2>5, <2>7, <3>1, <3>2, <3>3, Zenon DEF Fed
  <2>15. Answered(d, out)
    BY <1>1, <2>2 DEF Answered
  <2> QED BY <1>2, <1>4, <2>1, <2>2, <2>12, <2>14, <2>15 DEF IInv, ChannelGood
<1>5. CASE ch' = Aborted(ch) /\ UNCHANGED out
  BY <1>2, <1>5, CancelKeeps
<1> QED BY <1>3, <1>4, <1>5 DEF Verdict

\* this.req changes while the channel lives.
LEMMA LiveSet ==
  ASSUME NEW c \in Channel, Requests(c), c.phase = "live", NEW q \in Request,
         c.written = 0 /\ Len(c.reqs) = 1 => q.body = <<>>
  PROVE  LET d == SetThis(c, q)
         IN /\ Others(d, c) /\ d.phase = "live" /\ d.comp = c.comp
            /\ Requests(d) /\ Last(d.reqs) = q
<1>1. c.reqs # <<>>
  BY DEF Requests
<1>2. PICK d : d = SetThis(c, q)
  OBVIOUS
<1>3. Others(d, c) /\ d.phase = "live" /\ d.comp = c.comp /\ LastIs(d, c, q)
  BY <1>1, <1>2, SetThisFields
<1>4. PICK n : n = Len(c.reqs)
  OBVIOUS
<1>5. n \in Nat /\ n >= 1 /\ n <= 2
  BY <1>1, <1>4, ThisRequest DEF Requests
<1>6. /\ Len(d.reqs) = n /\ d.reqs # <<>> /\ d.reqs[n] = q
      /\ \A i \in 1..n : i # n => d.reqs[i] = c.reqs[i]
  BY <1>3, <1>4 DEF LastIs
<1>7. Last(d.reqs) = q
  BY <1>6 DEF Last
<1>8. n = 1 \/ n = 2
  BY <1>5
<1>9. CASE n = 1
  <2>1. d.written = 0 => d.reqs[1].body = <<>>
    BY <1>3, <1>4, <1>6, <1>9 DEF Others
  <2> QED BY <1>1, <1>2, <1>3, <1>4, <1>6, <1>7, <1>9, <2>1 DEF Requests, Others
<1>10. CASE n = 2
  <2>1. d.reqs[1] = c.reqs[1]
    BY <1>6, <1>10
  <2> QED BY <1>1, <1>2, <1>3, <1>4, <1>6, <1>7, <1>10, <2>1 DEF Requests, Others
<1> QED BY <1>8, <1>9, <1>10

\* A chunk more, queued or given.
LEMMA ChunksAppend ==
  ASSUME rcvd \in [chunks : 0..MaxChunks, end : BOOLEAN], rcvd.chunks < MaxChunks,
         NEW s, s = [rcvd EXCEPT !.chunks = rcvd.chunks + 1]
  PROVE  /\ s \in [chunks : 0..MaxChunks, end : BOOLEAN]
         /\ s.chunks = rcvd.chunks + 1 /\ s.end = rcvd.end
         /\ s.chunks \in Chunk /\ Chunks(rcvd) \in Seq(Chunk)
         /\ Chunks(s) = Append(Chunks(rcvd), s.chunks)
<1>1. /\ s \in [chunks : 0..MaxChunks, end : BOOLEAN]
      /\ s.chunks = rcvd.chunks + 1 /\ s.end = rcvd.end /\ s.chunks \in Chunk
  BY DEF Chunk
<1>2. PICK k : k = rcvd.chunks
  OBVIOUS
<1>3. k \in Nat /\ k < MaxChunks /\ s.chunks = k + 1
  BY <1>1, <1>2
<1>4. PICK f : f = [i \in 1..k |-> i]
  OBVIOUS
<1>5. PICK g : g = [i \in 1..k + 1 |-> i]
  OBVIOUS
<1>6. f \in Seq(Chunk) /\ Len(f) = k
  <2>1. \A i \in 1..k : i \in Chunk
    BY <1>3 DEF Chunk
  <2> QED BY <1>3, <1>4, <2>1, SMTT(60)
<1>7. g \in Seq(Chunk) /\ Len(g) = k + 1
  <2>1. \A i \in 1..k + 1 : i \in Chunk
    BY <1>3 DEF Chunk
  <2> QED BY <1>3, <1>5, <2>1
<1>8. k + 1 \in Chunk
  BY <1>3 DEF Chunk
<1>9. PICK a : a = Append(f, k + 1)
  OBVIOUS
<1>10. /\ a \in Seq(Chunk) /\ Len(a) = k + 1 /\ a[k + 1] = k + 1
       /\ \A i \in 1..k : a[i] = f[i]
  BY <1>6, <1>8, <1>9, AppendProperties
<1>11. \A i \in 1..k + 1 : a[i] = g[i]
  BY <1>3, <1>4, <1>5, <1>10
<1>12. a = g
  BY <1>7, <1>10, <1>11, SeqEqual
<1>13. Chunks(rcvd) = f /\ Chunks(s) = g
  BY <1>2, <1>3, <1>4, <1>5, Zenon DEF Chunks
<1> QED BY <1>1, <1>3, <1>6, <1>9, <1>12, <1>13

LEMMA BodyKeeps ==
  ASSUME IInv, Body
  PROVE  IInv'
<1>1. /\ ch \in Channel /\ Requests(ch) /\ Fed(ch, rcvd) /\ Answered(ch, out)
      /\ ch.phase # "none"
  BY DEF IInv, ChannelGood, Body
<1>2. PICK n : n = rcvd.chunks + 1
  OBVIOUS
<1>3. PICK s : s = [rcvd EXCEPT !.chunks = n]
  OBVIOUS
<1>4. rcvd' = s
  BY <1>2, <1>3 DEF Body
<1>5. /\ s \in [chunks : 0..MaxChunks, end : BOOLEAN]
      /\ s.chunks = n /\ s.end = rcvd.end /\ n \in Chunk
      /\ Chunks(rcvd) \in Seq(Chunk) /\ Chunks(s) = Append(Chunks(rcvd), n)
  BY <1>2, <1>3, ChunksAppend DEF Body, IInv
<1>6. rcvd.chunks \in Nat /\ ch.written \in Nat /\ ch.written <= rcvd.chunks
  BY <1>1 DEF IInv, Channel, Fed
<1>7. UNCHANGED <<hook, out, tunnel>>
  BY DEF Body
<1>8. ASSUME ch' \in Channel, Requests(ch'), Fed(ch', s), Answered(ch', out)
      PROVE  IInv'
  BY <1>4, <1>5, <1>7, <1>8 DEF IInv, ChannelGood
<1>9. CASE ~Live
  <2>1. ch' = ch
    BY <1>9 DEF Body
  <2>2. ch.phase = "finished"
    BY <1>1, <1>9 DEF Live, Channel
  <2>3. Fed(ch, s)
    BY <1>2, <1>5, <1>6, <2>2 DEF Fed
  <2> QED BY <1>1, <1>8, <2>1, <2>3
<1>10. CASE Live /\ ch.direct
  <2>1. ch.reqs # <<>> /\ ch.phase = "live"
    BY <1>1, <1>10 DEF Live, Requests
  <2>2. PICK w : w = ch.written + 1
    OBVIOUS
  <2>3. PICK e : e = [ch EXCEPT !.written = w]
    OBVIOUS
  <2>4. PICK b : b = Append(This.body, n)
    OBVIOUS
  <2>5. PICK q : q = [This EXCEPT !.body = b]
    OBVIOUS
  <2>6. ch' = SetThis(e, q)
    <3>1. ch' = SetThis([ch EXCEPT !.written = ch.written + 1],
                        [This EXCEPT !.body = Append(This.body, n)])
      BY <1>2, <1>10, Zenon DEF Body
    <3> QED BY <2>2, <2>3, <2>4, <2>5, <3>1, Zenon
  <2>7. This \in Request /\ This.body = Chunks(rcvd) /\ This.ended = rcvd.end
        /\ This.head = ch.headSent
    BY <1>1, <2>1, ThisRequest DEF This, Fed
  <2>8. b \in Seq(Chunk) /\ b = Chunks(s)
    BY <1>5, <2>4, <2>7, AppendProperties
  <2>9. /\ q \in Request /\ q.body = Chunks(s) /\ q.ended = rcvd.end
        /\ q.head = ch.headSent
    BY <2>5, <2>7, <2>8, RequestFields
  <2>10. w \in Nat /\ w # 0 /\ w <= n
    BY <1>2, <1>6, <2>2
  <2>11. /\ e \in Channel /\ e.written = w /\ e.phase = ch.phase /\ e.reqs = ch.reqs
         /\ e.comp = ch.comp /\ e.idempotent = ch.idempotent /\ e.queue = ch.queue
         /\ e.direct = ch.direct /\ e.ended = ch.ended /\ e.headSent = ch.headSent
         /\ e.retried = ch.retried
    BY <1>1, <2>3, <2>10 DEF Channel
  <2>12. Requests(e)
    BY <1>1, <2>1, <2>10, <2>11 DEF Requests
  <2>13. /\ Others(ch', e) /\ ch'.phase = "live" /\ Requests(ch') /\ Last(ch'.reqs) = q
    BY <2>1, <2>6, <2>9, <2>10, <2>11, <2>12, LiveSet
  <2>14. ch' \in Channel /\ ch'.written = w /\ ch'.ended = ch.ended
         /\ ch'.headSent = ch.headSent
    BY <2>11, <2>13 DEF Others
  <2>15. ch.ended = rcvd.end
    BY <1>1, <2>1 DEF Fed
  <2>16. Fed(ch', s)
    BY <1>5, <2>9, <2>10, <2>13, <2>14, <2>15 DEF Fed
  <2>17. Answered(ch', out)
    BY <1>1, <2>1, <2>13, <2>14 DEF Answered
  <2> QED BY <1>8, <2>13, <2>14, <2>16, <2>17
<1>11. CASE Live /\ ~ch.direct
  <2>1. ch.phase = "auth" /\ ch.reqs = <<>>
    BY <1>1, <1>11 DEF Live, Requests
  <2>2. PICK b : b = Append(ch.queue, n)
    OBVIOUS
  <2>3. ch' = [ch EXCEPT !.queue = b]
    <3>1. ch' = [ch EXCEPT !.queue = Append(ch.queue, n)]
      BY <1>2, <1>11, Zenon DEF Body
    <3> QED BY <2>2, <3>1
  <2>4. ch.queue = Chunks(rcvd) /\ ch.ended = rcvd.end
    BY <1>1, <2>1 DEF Fed
  <2>5. b \in Seq(Chunk) /\ b = Chunks(s)
    BY <1>5, <2>2, <2>4, AppendProperties
  <2>6. /\ ch' \in Channel /\ ch'.written = ch.written /\ ch'.phase = ch.phase
        /\ ch'.reqs = ch.reqs /\ ch'.comp = ch.comp /\ ch'.idempotent = ch.idempotent
        /\ ch'.queue = b /\ ch'.direct = ch.direct /\ ch'.ended = ch.ended
        /\ ch'.headSent = ch.headSent /\ ch'.retried = ch.retried
    BY <1>1, <2>3, <2>5 DEF Channel
  <2>7. Requests(ch')
    BY <1>1, <1>11, <2>1, <2>6 DEF Requests
  <2>8. ch'.written <= s.chunks
    BY <1>2, <1>5, <1>6, <2>6
  <2>9. Fed(ch', s)
    BY <1>5, <2>1, <2>4, <2>5, <2>6, <2>8 DEF Fed
  <2>10. Answered(ch', out)
    BY <1>1, <2>1, <2>6 DEF Answered
  <2> QED BY <1>8, <2>6, <2>7, <2>9, <2>10
<1> QED BY <1>9, <1>10, <1>11

LEMMA BodyEndKeeps ==
  ASSUME IInv, BodyEnd
  PROVE  IInv'
<1>1. /\ ch \in Channel /\ Requests(ch) /\ Fed(ch, rcvd) /\ Answered(ch, out)
      /\ ch.phase # "none"
  BY DEF IInv, ChannelGood, BodyEnd
<1>2. /\ rcvd' \in [chunks : 0..MaxChunks, end : BOOLEAN]
      /\ rcvd'.chunks = rcvd.chunks /\ rcvd'.end = TRUE
  BY DEF IInv, BodyEnd
<1>3. Chunks(rcvd') = Chunks(rcvd)
  BY <1>2 DEF Chunks
<1>4. UNCHANGED <<hook, out, tunnel>>
  BY DEF BodyEnd
<1>5. ASSUME ch' \in Channel, Requests(ch'), Fed(ch', rcvd'), Answered(ch', out)
      PROVE  IInv'
  BY <1>2, <1>4, <1>5 DEF IInv, ChannelGood
<1>6. ch.written <= rcvd'.chunks
  BY <1>1, <1>2 DEF Fed
<1>7. CASE ~Live
  <2>1. ch' = ch
    BY <1>7 DEF BodyEnd
  <2>2. ch.phase = "finished"
    BY <1>1, <1>7 DEF Live, Channel
  <2>3. Fed(ch, rcvd')
    BY <1>6, <2>2 DEF Fed
  <2> QED BY <1>1, <1>5, <2>1, <2>3
<1>8. PICK e : e = [ch EXCEPT !.ended = TRUE]
  OBVIOUS
<1>9. /\ e \in Channel /\ e.written = ch.written /\ e.phase = ch.phase /\ e.reqs = ch.reqs
      /\ e.comp = ch.comp /\ e.idempotent = ch.idempotent /\ e.queue = ch.queue
      /\ e.direct = ch.direct /\ e.ended = TRUE /\ e.headSent = ch.headSent
      /\ e.retried = ch.retried
  BY <1>1, <1>8 DEF Channel
<1>10. Requests(e)
  BY <1>1, <1>9 DEF Requests
<1>11. CASE Live /\ ch.direct
  <2>1. ch.reqs # <<>> /\ ch.phase = "live"
    BY <1>1, <1>11 DEF Live, Requests
  <2>2. PICK q : q = [This EXCEPT !.ended = TRUE]
    OBVIOUS
  <2>3. ch' = SetThis(e, q)
    BY <1>8, <1>11, <2>2, Zenon DEF BodyEnd
  <2>4. /\ This \in Request /\ This.body = Chunks(rcvd) /\ This.head = ch.headSent
        /\ This = ch.reqs[Len(ch.reqs)]
    BY <1>1, <2>1, ThisRequest DEF This, Fed
  <2>5. /\ q \in Request /\ q.body = This.body /\ q.ended = TRUE /\ q.head = ch.headSent
    BY <2>2, <2>4, RequestFields
  <2>6. e.written = 0 /\ Len(e.reqs) = 1 => q.body = <<>>
    BY <1>1, <1>9, <2>1, <2>4, <2>5 DEF Requests
  <2>7. /\ Others(ch', e) /\ ch'.phase = "live" /\ Requests(ch') /\ Last(ch'.reqs) = q
    BY <1>9, <1>10, <2>1, <2>3, <2>5, <2>6, LiveSet
  <2>8. ch' \in Channel /\ ch'.written = ch.written /\ ch'.ended = TRUE
        /\ ch'.headSent = ch.headSent
    BY <1>9, <2>7 DEF Others
  <2>9. Fed(ch', rcvd')
    BY <1>2, <1>3, <1>6, <2>4, <2>5, <2>7, <2>8 DEF Fed
  <2>10. Answered(ch', out)
    BY <1>1, <2>1, <2>7, <2>8 DEF Answered
  <2> QED BY <1>5, <2>7, <2>8, <2>9, <2>10
<1>12. CASE Live /\ ~ch.direct
  <2>1. ch.phase = "auth"
    BY <1>1, <1>12 DEF Live, Requests
  <2>2. ch' = e
    BY <1>8, <1>12, Zenon DEF BodyEnd
  <2>3. Fed(e, rcvd')
    BY <1>1, <1>2, <1>3, <1>6, <1>9, <2>1 DEF Fed
  <2>4. Answered(e, out)
    BY <1>1, <1>9, <2>1 DEF Answered
  <2> QED BY <1>5, <1>9, <1>10, <2>2, <2>3, <2>4
<1> QED BY <1>7, <1>11, <1>12

\* The channel is cancelled, or the tunnel goes.
LEMMA TunnelKeeps ==
  ASSUME IInv, PeerClose \/ TunnelDies \/ TunnelDown
  PROVE  IInv'
<1>1. UNCHANGED <<hook, rcvd, out>> /\ tunnel' \in {"up", "dying", "down"}
  BY DEF PeerClose, TunnelDies, TunnelDown, IInv
<1>2. ch' = ch \/ ch' = Aborted(ch)
  BY DEF PeerClose, TunnelDies, TunnelDown
<1>3. CASE ch' = ch
  BY <1>1, <1>3 DEF IInv, ChannelGood
<1> QED BY <1>1, <1>2, <1>3, CancelKeeps

-----------------------------------------------------------------------------
\* The steps of the upstream.

\* The last frame goes out and the channel is done, or the tunnel fails first.
LEMMA EndKeeps ==
  ASSUME IInv, Live, ch.headSent, NEW next \in Channel, next.phase = "finished",
         Requests(next), Fed(next, rcvd), TrySend(<<"end">>, next),
         UNCHANGED <<hook, rcvd, tunnel>>
  PROVE  IInv'
<1>1. out \in Seq(Frames) /\ "end" \in Frames
  BY DEF IInv, Frames
<1>2. \/ out' = Append(out, "end") /\ ch' = next
      \/ out' = out /\ ch' = Aborted(ch)
  BY <1>1, SendOne
<1>3. Running(out)
  BY DEF IInv, ChannelGood, Answered, Requests, Live
<1>4. tunnel' \in {"up", "dying", "down"}
  BY DEF IInv
<1>5. CASE out' = out /\ ch' = Aborted(ch)
  BY <1>4, <1>5, CancelKeeps
<1>6. CASE out' = Append(out, "end") /\ ch' = next
  <2>1. out' \in Seq(Frames) /\ Complete(out')
    BY <1>1, <1>3, <1>6, AppendFrame
  <2> QED BY <1>4, <1>6, <2>1, FinishKeeps
<1> QED BY <1>2, <1>5, <1>6

\* A frame of a channel that goes on.
LEMMA DataKeeps ==
  ASSUME IInv, NEW x \in Frames, NEW next \in Channel, TrySend(<<x>>, next),
         Requests(next), Fed(next, rcvd), Answered(next, Append(out, x)),
         UNCHANGED <<hook, rcvd, tunnel>>
  PROVE  IInv'
<1>1. out \in Seq(Frames) /\ tunnel' \in {"up", "dying", "down"}
  BY DEF IInv
<1>2. \/ out' = Append(out, x) /\ ch' = next
      \/ out' = out /\ ch' = Aborted(ch)
  BY <1>1, SendOne
<1>3. CASE out' = out /\ ch' = Aborted(ch)
  BY <1>1, <1>3, CancelKeeps
<1>4. CASE out' = Append(out, x) /\ ch' = next
  <2>1. out' \in Seq(Frames)
    BY <1>1, <1>4, AppendProperties
  <2> QED BY <1>4, <2>1 DEF IInv, ChannelGood
<1> QED BY <1>2, <1>3, <1>4

\* The request of a channel that is finished changes.
LEMMA LateKeeps ==
  ASSUME IInv, ~Live, HasRequest, NEW q \in Request, q.body = This.body,
         q.state = "open" => q.over, ch' = SetThis(ch, q),
         UNCHANGED <<hook, rcvd, out, tunnel>>
  PROVE  IInv'
<1>1. /\ ch \in Channel /\ Requests(ch) /\ Fed(ch, rcvd) /\ ch.reqs # <<>>
      /\ ch.phase = "finished"
  BY DEF IInv, ChannelGood, Live, HasRequest, Requests, Channel
<1>2. ch' \in Channel /\ ch'.phase = "finished" /\ Requests(ch') /\ Fed(ch', rcvd)
  BY <1>1, AfterwardsGood DEF This
<1>3. /\ out' \in Seq(Frames) /\ Complete(out') /\ tunnel' \in {"up", "dying", "down"}
  BY AnsweredComplete DEF IInv, ChannelGood
<1> QED BY <1>2, <1>3, FinishKeeps

\* What is known of the current request.
LEMMA CurrentRequest ==
  ASSUME IInv, HasRequest
  PROVE  /\ ch \in Channel /\ Requests(ch) /\ Fed(ch, rcvd) /\ Answered(ch, out)
         /\ ch.reqs # <<>> /\ Len(ch.reqs) \in Nat /\ Len(ch.reqs) >= 1
         /\ This \in Request /\ This = ch.reqs[Len(ch.reqs)] /\ This = Last(ch.reqs)
         /\ ch.written = 0 /\ Len(ch.reqs) = 1 => This.body = <<>>
         /\ Live => ch.phase = "live" /\ This.head = ch.headSent
         /\ ~Live => ch.phase = "finished" /\ (This.state = "open" => This.over)
<1>1. /\ ch \in Channel /\ Requests(ch) /\ Fed(ch, rcvd) /\ Answered(ch, out)
      /\ ch.reqs # <<>>
  BY DEF IInv, ChannelGood, HasRequest
<1>2. /\ Len(ch.reqs) \in Nat /\ Len(ch.reqs) >= 1
      /\ This \in Request /\ This = ch.reqs[Len(ch.reqs)] /\ This = Last(ch.reqs)
  BY <1>1, ThisRequest DEF This
<1>3. ch.written = 0 /\ Len(ch.reqs) = 1 => This.body = <<>>
  BY <1>1, <1>2 DEF Requests
<1>4. Live => ch.phase = "live"
  BY <1>1 DEF Requests, Live
<1>5. ch.phase = "live" => This.head = ch.headSent
  BY <1>1, <1>2 DEF Fed
<1>6. ~Live => ch.phase = "finished"
  BY <1>1 DEF Requests, Live, Channel
<1>7. ch.phase = "finished" => (This.state = "open" => This.over)
  <2>1. Len(ch.reqs) \in 1..Len(ch.reqs)
    BY <1>2
  <2> QED BY <1>1, <1>2, <2>1 DEF Requests
<1> QED BY <1>1, <1>2, <1>3, <1>4, <1>5, <1>6, <1>7

LEMMA UpstreamHeadKeeps ==
  ASSUME IInv, UpstreamHead
  PROVE  IInv'
<1>1. /\ HasRequest /\ This.state = "open" /\ ~This.head
      /\ UNCHANGED <<hook, rcvd, tunnel>>
  BY DEF UpstreamHead
<1>2. PICK q : q = [This EXCEPT !.head = TRUE]
  OBVIOUS
<1>3. /\ q \in Request /\ q.state = This.state /\ q.body = This.body
      /\ q.ended = This.ended /\ q.head = TRUE /\ q.over = This.over
  BY <1>1, <1>2, CurrentRequest, RequestFields
<1>4. PICK d : d = SetThis(ch, q)
  OBVIOUS
<1>5. CASE ~Live
  <2>1. ch' = d /\ UNCHANGED out
    BY <1>2, <1>4, <1>5, Zenon DEF UpstreamHead
  <2>2. q.state = "open" => q.over
    BY <1>1, <1>3, <1>5, CurrentRequest
  <2> QED BY <1>1, <1>3, <1>4, <1>5, <2>1, <2>2, LateKeeps
<1>6. CASE Live
  <2>1. PICK enc \in Encodings :
          TrySend(<<"head">>, [d EXCEPT !.headSent = TRUE,
                                        !.comp = IF enc THEN "running" ELSE "none"])
    BY <1>2, <1>4, <1>6, Zenon DEF UpstreamHead
  <2>2. PICK x : x = IF enc THEN "running" ELSE "none"
    OBVIOUS
  <2>3. PICK e : e = [d EXCEPT !.headSent = TRUE, !.comp = x]
    OBVIOUS
  <2>4. TrySend(<<"head">>, e)
    BY <2>1, <2>2, <2>3
  <2>5. /\ ch \in Channel /\ Requests(ch) /\ Fed(ch, rcvd) /\ Answered(ch, out)
        /\ ch.phase = "live" /\ ~ch.headSent /\ This = Last(ch.reqs)
        /\ ch.written = 0 /\ Len(ch.reqs) = 1 => This.body = <<>>
    BY <1>1, <1>6, CurrentRequest
  <2>6. /\ Others(d, ch) /\ d.phase = "live" /\ d.comp = ch.comp
        /\ Requests(d) /\ Last(d.reqs) = q
    BY <1>3, <1>4, <2>5, LiveSet
  <2>7. x \in {"none", "running"}
    BY <2>2
  <2>8. d \in Channel
    BY <2>6 DEF Others
  <2>9. /\ e \in Channel /\ e.written = d.written /\ e.phase = "live" /\ e.reqs = d.reqs
        /\ e.comp = x /\ e.idempotent = d.idempotent /\ e.queue = d.queue
        /\ e.direct = d.direct /\ e.ended = d.ended /\ e.headSent = TRUE
        /\ e.retried = d.retried
    BY <2>3, <2>6, <2>7, <2>8 DEF Channel
  <2>10. Requests(e)
    BY <2>6, <2>9 DEF Requests
  <2>11. e.written = ch.written /\ e.ended = ch.ended
    BY <2>6, <2>9 DEF Others
  <2>12. Fed(e, rcvd)
    BY <1>3, <2>5, <2>6, <2>9, <2>11 DEF Fed
  <2>13. out = <<>>
    BY <2>5 DEF Answered
  <2>14. Append(out, "head") = <<"head">>
    BY <2>13
  <2>15. Running(<<"head">>)
    BY DEF Running
  <2>16. Answered(e, Append(out, "head"))
    BY <2>9, <2>14, <2>15 DEF Answered
  <2>17. "head" \in Frames
    BY DEF Frames
  <2> QED BY <1>1, <2>4, <2>9, <2>10, <2>12, <2>16, <2>17, DataKeeps
<1> QED BY <1>5, <1>6

LEMMA SourceKeeps ==
  ASSUME IInv, SourceData \/ SourceResumes
  PROVE  IInv'
<1>1. /\ ch \in Channel /\ Requests(ch) /\ Fed(ch, rcvd) /\ Answered(ch, out) /\ Live
      /\ UNCHANGED <<hook, rcvd, tunnel>> /\ out \in Seq(Frames)
  BY DEF IInv, ChannelGood, SourceData, SourceResumes
<1>2. ASSUME NEW p \in BOOLEAN, NEW e, e = [ch EXCEPT !.paused = p]
      PROVE  /\ e \in Channel /\ e.phase = ch.phase /\ e.headSent = ch.headSent
             /\ Requests(e) /\ Fed(e, rcvd)
  <2>1. /\ e \in Channel /\ e.written = ch.written /\ e.phase = ch.phase
        /\ e.reqs = ch.reqs /\ e.comp = ch.comp /\ e.idempotent = ch.idempotent
        /\ e.queue = ch.queue /\ e.direct = ch.direct /\ e.ended = ch.ended
        /\ e.headSent = ch.headSent /\ e.retried = ch.retried
    BY <1>1, <1>2 DEF Channel
  <2>2. Requests(e)
    BY <1>1, <2>1 DEF Requests
  <2>3. Fed(e, rcvd)
    BY <1>1, <2>1 DEF Fed
  <2> QED BY <2>1, <2>2, <2>3
<1>3. CASE SourceResumes
  <2>1. ch' = [ch EXCEPT !.paused = FALSE] /\ UNCHANGED out
    BY <1>3 DEF SourceResumes
  <2>2. /\ ch' \in Channel /\ ch'.phase = ch.phase /\ ch'.headSent = ch.headSent
        /\ Requests(ch') /\ Fed(ch', rcvd)
    BY <1>2, <2>1
  <2>3. Answered(ch', out)
    BY <1>1, <2>2 DEF Answered
  <2> QED BY <1>1, <2>1, <2>2, <2>3 DEF IInv, ChannelGood
<1>4. CASE SourceData
  <2>1. PICK p \in BOOLEAN : TrySend(<<"body">>, [ch EXCEPT !.paused = p])
    BY <1>4 DEF SourceData
  <2>2. PICK e : e = [ch EXCEPT !.paused = p]
    OBVIOUS
  <2>3. /\ e \in Channel /\ e.phase = ch.phase /\ e.headSent = ch.headSent
        /\ Requests(e) /\ Fed(e, rcvd)
    BY <1>2, <2>2
  <2>4. ch.phase = "live" /\ ch.headSent
    BY <1>1, <1>4 DEF Requests, Live, SourceData
  <2>5. Running(out)
    BY <1>1, <2>4 DEF Answered
  <2>6. "body" \in Frames
    BY DEF Frames
  <2>7. Running(Append(out, "body"))
    BY <1>1, <2>5, <2>6, AppendFrame
  <2>8. Answered(e, Append(out, "body"))
    BY <2>3, <2>4, <2>7 DEF Answered
  <2> QED BY <1>1, <2>1, <2>2, <2>3, <2>6, <2>8, DataKeeps
<1> QED BY <1>3, <1>4

LEMMA ResponseEndsKeeps ==
  ASSUME IInv, ResponseEnds
  PROVE  IInv'
<1>1. /\ HasRequest /\ This.state = "open" /\ This.head
      /\ UNCHANGED <<hook, rcvd, tunnel>>
  BY DEF ResponseEnds
<1>2. PICK q : q = [This EXCEPT !.over = TRUE]
  OBVIOUS
<1>3. /\ q \in Request /\ q.state = This.state /\ q.body = This.body
      /\ q.ended = This.ended /\ q.head = This.head /\ q.over = TRUE
  BY <1>1, <1>2, CurrentRequest, RequestFields
<1>4. PICK d : d = SetThis(ch, q)
  OBVIOUS
<1>5. CASE ~Live
  <2>1. ch' = d /\ UNCHANGED out
    BY <1>2, <1>4, <1>5, Zenon DEF ResponseEnds
  <2> QED BY <1>1, <1>3, <1>4, <1>5, <2>1, LateKeeps
<1>6. CASE Live
  <2>1. /\ ch \in Channel /\ Requests(ch) /\ Fed(ch, rcvd) /\ Answered(ch, out)
        /\ ch.phase = "live" /\ ch.headSent /\ This = Last(ch.reqs) /\ ch.reqs # <<>>
        /\ ch.written = 0 /\ Len(ch.reqs) = 1 => This.body = <<>>
    BY <1>1, <1>6, CurrentRequest
  <2>2. CASE ch.comp = "none"
    <3>1. TrySend(<<"end">>, Done(d))
      BY <1>2, <1>4, <1>6, <2>2, Zenon DEF ResponseEnds
    <3>2. PICK e : e = Done(d)
      OBVIOUS
    <3>3. e \in Channel /\ e.phase = "finished" /\ Requests(e) /\ Fed(e, rcvd)
      BY <1>3, <1>4, <2>1, <2>2, <3>2, DoneGood
    <3> QED BY <1>1, <1>6, <2>1, <3>1, <3>2, <3>3, EndKeeps
  <2>3. CASE ch.comp # "none"
    <3>1. ch' = d /\ UNCHANGED out
      BY <1>2, <1>4, <1>6, <2>3, Zenon DEF ResponseEnds
    <3>2. /\ Others(d, ch) /\ d.phase = "live" /\ d.comp = ch.comp
          /\ Requests(d) /\ Last(d.reqs) = q
      BY <1>3, <1>4, <2>1, LiveSet
    <3>3. d \in Channel /\ d.written = ch.written /\ d.ended = ch.ended
          /\ d.headSent = ch.headSent
      BY <3>2 DEF Others
    <3>4. Fed(d, rcvd)
      BY <1>3, <2>1, <3>2, <3>3 DEF Fed
    <3>5. Answered(d, out)
      BY <2>1, <3>2, <3>3 DEF Answered
    <3> QED BY <1>1, <3>1, <3>2, <3>3, <3>4, <3>5 DEF IInv, ChannelGood
  <2> QED BY <2>2, <2>3
<1> QED BY <1>5, <1>6

LEMMA CompressorEndsKeeps ==
  ASSUME IInv, CompressorEnds
  PROVE  IInv'
<1>1. /\ ch \in Channel /\ Requests(ch) /\ Fed(ch, rcvd) /\ Live
      /\ ch.comp = "running" /\ This.over /\ UNCHANGED <<hook, rcvd, tunnel>>
  BY DEF IInv, ChannelGood, CompressorEnds
<1>2. ch.phase = "live" /\ ch.headSent /\ ch.reqs # <<>>
  BY <1>1 DEF Requests
<1>3. PICK e : e = [ch EXCEPT !.comp = "ended"]
  OBVIOUS
<1>4. e.comp = "ended" /\ e.phase = ch.phase /\ e.reqs = ch.reqs /\ Others(e, ch)
  BY <1>1, <1>3 DEF Channel, Others
<1>5. PICK d : d = Done(e)
  OBVIOUS
<1>6. Others(d, e) /\ d.phase = "finished" /\ d.comp = "ended" /\ d.reqs = ch.reqs
  BY <1>4, <1>5, DoneFields DEF Others
<1>7. Others(d, ch)
  BY <1>4, <1>6 DEF Others
<1>8. This \in Request /\ This = Last(ch.reqs) /\ This = ch.reqs[Len(ch.reqs)]
  BY <1>2, CurrentRequest DEF HasRequest
<1>9. LastIs(d, ch, This)
  BY <1>2, <1>6, <1>8 DEF LastIs
<1>10. Requests(d) /\ Fed(d, rcvd)
  BY <1>1, <1>2, <1>6, <1>7, <1>8, <1>9, FinishedGood
<1>11. d \in Channel
  BY <1>7 DEF Others
<1>12. TrySend(<<"end">>, d)
  BY <1>3, <1>5 DEF CompressorEnds
<1> QED BY <1>1, <1>2, <1>6, <1>10, <1>11, <1>12, EndKeeps

LEMMA StreamErrorKeeps ==
  ASSUME IInv, StreamError
  PROVE  IInv'
BY FailKeeps DEF StreamError

LEMMA RequestErrorKeeps ==
  ASSUME IInv, RequestError
  PROVE  IInv'
<1>1. HasRequest /\ This.state = "open" /\ UNCHANGED <<hook, rcvd, tunnel>>
  BY DEF RequestError
<1>2. PICK q : q = [This EXCEPT !.state = "over"]
  OBVIOUS
<1>3. /\ q \in Request /\ q.state = "over" /\ q.body = This.body
      /\ q.ended = This.ended /\ q.head = This.head /\ q.over = This.over
  BY <1>1, <1>2, CurrentRequest, RequestFields
<1>4. PICK c : c = SetThis(ch, q)
  OBVIOUS
<1>5. \/ ~Live /\ ch' = c /\ UNCHANGED out
      \/ /\ Live /\ MayRetry
         /\ ch' = OpenUpstream([c EXCEPT !.retried = TRUE])
         /\ UNCHANGED out
      \/ Live /\ ~ch.headSent /\ TrySend(<<"head", "body", "end">>, Done(c))
      \/ Live /\ ch.headSent /\ Fail
  BY <1>2, <1>4, Zenon DEF RequestError
<1>6. CASE ~Live /\ ch' = c /\ UNCHANGED out
  BY <1>1, <1>3, <1>4, <1>6, LateKeeps
<1>7. CASE /\ Live /\ MayRetry
           /\ ch' = OpenUpstream([c EXCEPT !.retried = TRUE])
           /\ UNCHANGED out
  <2>1. /\ ch \in Channel /\ Requests(ch) /\ Fed(ch, rcvd) /\ Answered(ch, out)
        /\ ch.reqs # <<>> /\ ch.phase = "live" /\ This = Last(ch.reqs)
        /\ This = ch.reqs[Len(ch.reqs)]
        /\ Len(ch.reqs) \in Nat /\ Len(ch.reqs) >= 1
        /\ ch.written = 0 /\ Len(ch.reqs) = 1 => This.body = <<>>
        /\ This.head = ch.headSent
    BY <1>1, <1>7, CurrentRequest
  <2>2. ch.idempotent /\ ~ch.headSent /\ ch.written = 0 /\ ~ch.retried
    BY <1>7 DEF MayRetry
  <2>3. Len(ch.reqs) = 1
    <3>1. Len(ch.reqs) <= 2 /\ Len(ch.reqs) # 2
      BY <2>1, <2>2 DEF Requests
    <3>2. \A n \in Nat : n >= 1 /\ n <= 2 /\ n # 2 => n = 1
      OBVIOUS
    <3> QED BY <2>1, <3>1, <3>2, Zenon
  <2>4. Others(c, ch) /\ c.phase = "live" /\ c.comp = ch.comp /\ LastIs(c, ch, q)
    BY <1>3, <1>4, <2>1, SetThisFields
  <2>5. c.reqs \in Seq(Request) /\ Len(c.reqs) = 1 /\ c.reqs[1] = q
    BY <2>3, <2>4 DEF LastIs, Others, Channel
  <2>6. c \in Channel
    BY <2>4 DEF Others
  <2>7. PICK e : e = [c EXCEPT !.retried = TRUE]
    OBVIOUS
  <2>8. /\ e \in Channel /\ e.written = c.written /\ e.phase = c.phase /\ e.reqs = c.reqs
        /\ e.comp = c.comp /\ e.idempotent = c.idempotent /\ e.queue = c.queue
        /\ e.ended = c.ended /\ e.headSent = c.headSent /\ e.retried = TRUE
    BY <2>6, <2>7 DEF Channel
  <2>9. PICK d : d = OpenUpstream(e)
    OBVIOUS
  <2>10. /\ d \in Channel /\ d.phase = "live" /\ d.comp = e.comp
         /\ d.idempotent = e.idempotent /\ d.ended = e.ended
         /\ d.headSent = e.headSent /\ d.retried = e.retried
         /\ d.queue = <<>> /\ d.direct = TRUE /\ d.written = e.written + Len(e.queue)
    BY <2>8, <2>9, OpenUpstreamFields
  <2>11. PICK p \in Request : /\ d.reqs = Append(e.reqs, p)
                              /\ p.state = "open" /\ p.body = e.queue /\ p.ended = e.ended
                              /\ p.head = FALSE /\ p.over = FALSE
    <3>1. e \in Channel
      BY <2>8
    <3> QED BY <2>9, <3>1, OpenUpstreamFields
  <2>12. ch' = d /\ UNCHANGED out
    BY <1>7, <2>7, <2>9, Zenon
  <2>13. /\ e.idempotent = ch.idempotent /\ e.queue = ch.queue /\ e.ended = ch.ended
         /\ e.headSent = ch.headSent /\ e.written = ch.written
    BY <2>4, <2>8 DEF Others
  <2>14. ch.queue = <<>>
    BY <2>1 DEF Requests
  <2>15. d.written = 0
    <3>1. Len(e.queue) = 0
      BY <2>13, <2>14, EmptySeq
    <3> QED BY <2>2, <2>10, <2>13, <3>1
  <2>16. /\ Len(d.reqs) = 2 /\ d.reqs[1] = q /\ d.reqs[2] = p /\ d.reqs # <<>>
    BY <2>5, <2>8, <2>11, AppendProperties
  <2>17. Last(d.reqs) = p
    BY <2>16 DEF Last
  <2>18. q.body = <<>> /\ ~q.head
    BY <1>3, <2>1, <2>2, <2>3
  <2>19. ch.comp # "running"
    BY <2>1, <2>2 DEF Requests
  <2>20. Requests(d)
    BY <1>3, <2>2, <2>4, <2>8, <2>10, <2>13, <2>15, <2>16, <2>18, <2>19 DEF Requests
  <2>21. Last(ch.reqs).body = Chunks(rcvd) /\ ch.ended = rcvd.end /\ ch.written <= rcvd.chunks
    BY <2>1 DEF Fed
  <2>22. p.body = Chunks(rcvd) /\ p.ended = rcvd.end
    BY <1>3, <2>1, <2>11, <2>13, <2>14, <2>18, <2>21
  <2>23. p.head = d.headSent
    <3>1. ch.headSent = FALSE
      BY <2>1, <2>2 DEF Channel
    <3> QED BY <2>10, <2>11, <2>13, <3>1
  <2>24. d.written <= rcvd.chunks
    BY <2>2, <2>15, <2>21
  <2>25. Fed(d, rcvd)
    BY <2>10, <2>13, <2>17, <2>21, <2>22, <2>23, <2>24 DEF Fed
  <2>26. Answered(d, out)
    BY <2>1, <2>2, <2>10, <2>13 DEF Answered
  <2> QED BY <1>1, <2>10, <2>12, <2>20, <2>25, <2>26 DEF IInv, ChannelGood
<1>8. CASE Live /\ ~ch.headSent /\ TrySend(<<"head", "body", "end">>, Done(c))
  <2>1. /\ ch \in Channel /\ Requests(ch) /\ Fed(ch, rcvd) /\ Answered(ch, out)
        /\ ch.reqs # <<>> /\ ch.phase = "live" /\ This = Last(ch.reqs)
    BY <1>1, <1>8, CurrentRequest
  <2>2. out = <<>> /\ ch.comp # "running"
    BY <1>8, <2>1 DEF Answered, Requests
  <2>3. out' \in Seq(Frames) /\ Complete(out') /\ (ch' = Done(c) \/ ch' = Aborted(ch))
    BY <1>8, <2>2, SendAnswer
  <2>4. tunnel' \in {"up", "dying", "down"} /\ UNCHANGED <<hook, rcvd>>
    BY <1>1 DEF IInv
  <2>5. CASE ch' = Done(c)
    <3>1. ch' \in Channel /\ ch'.phase = "finished" /\ Requests(ch') /\ Fed(ch', rcvd)
      BY <1>3, <1>4, <2>1, <2>2, <2>5, DoneGood
    <3> QED BY <2>3, <2>4, <3>1, FinishKeeps
  <2>6. CASE ch' = Aborted(ch)
    BY <2>3, <2>4, <2>6, AbortKeeps
  <2> QED BY <2>3, <2>5, <2>6
<1>9. CASE Live /\ ch.headSent /\ Fail
  BY <1>1, <1>9, FailKeeps
<1> QED BY <1>5, <1>6, <1>7, <1>8, <1>9

LEMMA StepIInv == IInv /\ [Next]_vars => IInv'
<1> SUFFICES ASSUME IInv, [Next]_vars PROVE IInv'
  OBVIOUS
<1>1. CASE UNCHANGED vars
  BY <1>1 DEF IInv, vars
<1>2. CASE OpenHttp
  BY <1>2, OpenHttpKeeps
<1>3. CASE HookSays \/ HookTimeout
  BY <1>3, HookKeeps
<1>4. CASE Verdict
  BY <1>4, VerdictKeeps
<1>5. CASE Body
  BY <1>5, BodyKeeps
<1>6. CASE BodyEnd
  BY <1>6, BodyEndKeeps
<1>7. CASE PeerClose \/ TunnelDies \/ TunnelDown
  BY <1>7, TunnelKeeps
<1>8. CASE UpstreamHead
  BY <1>8, UpstreamHeadKeeps
<1>9. CASE SourceData \/ SourceResumes
  BY <1>9, SourceKeeps
<1>10. CASE ResponseEnds
  BY <1>10, ResponseEndsKeeps
<1>11. CASE CompressorEnds
  BY <1>11, CompressorEndsKeeps
<1>12. CASE StreamError
  BY <1>12, StreamErrorKeeps
<1>13. CASE RequestError
  BY <1>13, RequestErrorKeeps
<1> QED
  BY <1>1, <1>2, <1>3, <1>4, <1>5, <1>6, <1>7, <1>8, <1>9, <1>10, <1>11, <1>12, <1>13 DEF Next

\* The inductive invariant: in each phase, what is queued, given and answered.
THEOREM IInvAlways == Spec => []IInv
<1>1. Init => IInv
  BY InitIInv
<1>2. IInv /\ [Next]_vars => IInv'
  BY StepIInv
<1> QED BY <1>1, <1>2, PTL DEF Spec

-----------------------------------------------------------------------------
\* What follows from the invariant.

\* Counting frames.
LEMMA CountNone ==
  ASSUME out \in Seq(Frames), NEW f, \A i \in 1..Len(out) : out[i] # f
  PROVE  Count(f) = 0
<1>1. {i \in DOMAIN out : out[i] = f} = {}
  OBVIOUS
<1> QED BY <1>1, FS_EmptySet DEF Count

LEMMA CountOne ==
  ASSUME out \in Seq(Frames), NEW f, NEW k \in 1..Len(out), out[k] = f,
         \A i \in 1..Len(out) : i # k => out[i] # f
  PROVE  Count(f) = 1
<1>1. {i \in DOMAIN out : out[i] = f} = {k}
  OBVIOUS
<1> QED BY <1>1, FS_Singleton DEF Count

\* What the channel has sent in each phase is one answer, or the start of one.
LEMMA CountAnswer ==
  ASSUME IInv
  PROVE  OneResponse
<1>1. /\ ch \in Channel /\ out \in Seq(Frames) /\ Answered(ch, out) /\ Complete(out)
  BY AnsweredComplete DEF IInv, ChannelGood
<1>2. Len(out) \in Nat /\ (out = <<>> <=> Len(out) = 0)
  BY <1>1, LenProperties, EmptySeq
<1>3. CASE out = <<>>
  <2>1. Count("head") = 0 /\ Count("end") = 0 /\ Count("error") = 0
    <3>1. \A i \in 1..Len(out) : FALSE
      BY <1>2, <1>3
    <3> QED BY <1>1, <3>1, CountNone
  <2> QED BY <1>3, <2>1 DEF OneResponse
<1>4. CASE out = <<"error">>
  <2>1. Len(out) = 1 /\ out[1] = "error" /\ Last(out) = "error"
    BY <1>4 DEF Last
  <2>2. Count("head") = 0 /\ Count("end") = 0
    <3>1. \A i \in 1..Len(out) : out[i] = "error"
      BY <2>1
    <3> QED BY <1>1, <3>1, CountNone
  <2>3. Count("error") = 1
    <3>1. \A i \in 1..Len(out) : i = 1
      BY <2>1
    <3> QED BY <1>1, <2>1, <3>1, CountOne
  <2>4. ch.phase = "finished"
    BY <1>1, <2>1, <1>4 DEF Answered, Running, Channel
  <2> QED BY <1>4, <2>1, <2>2, <2>3, <2>4 DEF OneResponse
<1>5. CASE /\ out # <<>> /\ out[1] = "head"
           /\ \A i \in 2..Len(out) :
                out[i] = "body" \/ (i = Len(out) /\ out[i] \in {"end", "error"})
  <2>1. PICK n : n = Len(out)
    OBVIOUS
  <2>2. n \in Nat /\ n >= 1 /\ 1 \in 1..n /\ n \in 1..n
    BY <1>2, <1>5, <2>1
  <2>3. \A i \in 1..n : i = 1 \/ i \in 2..n
    BY <2>2
  <2>4. Count("head") = 1
    <3>1. \A i \in 1..n : i # 1 => out[i] # "head"
      BY <1>5, <2>1, <2>3
    <3> QED BY <1>1, <1>5, <2>1, <2>2, <3>1, CountOne
  <2>5. Last(out) = out[n]
    BY <2>1 DEF Last
  <2>6. ASSUME NEW f \in {"end", "error"}, out[n] = f, NEW g \in {"end", "error"}, g # f
        PROVE  Count(f) = 1 /\ Count(g) = 0
    <3>1. \A i \in 1..n : i # n => out[i] # f
      BY <1>5, <2>1, <2>3
    <3>2. \A i \in 1..n : out[i] # g
      BY <1>5, <2>1, <2>3, <2>6
    <3>3. Count(f) = 1
      BY <1>1, <2>1, <2>2, <2>6, <3>1, CountOne
    <3>4. Count(g) = 0
      BY <1>1, <2>1, <3>2, CountNone
    <3> QED BY <3>3, <3>4
  <2>7. CASE out[n] \in {"end", "error"}
    <3>1. Count("end") + Count("error") = 1
      <4>1. CASE out[n] = "end"
        <5>1. Count("end") = 1 /\ Count("error") = 0
          BY <2>6, <4>1
        <5> QED BY <5>1
      <4>2. CASE out[n] = "error"
        <5>1. Count("error") = 1 /\ Count("end") = 0
          BY <2>6, <4>2
        <5> QED BY <5>1
      <4> QED BY <2>7, <4>1, <4>2
    <3>2. n \in 2..n
      BY <1>5, <2>2, <2>3, <2>7
    <3>3. ~Running(out)
      BY <2>1, <2>7, <3>2 DEF Running
    <3>4. ch.phase = "finished"
      BY <1>1, <1>5, <3>3 DEF Answered, Channel
    <3>5. Count("head") <= 1 /\ Count("end") + Count("error") <= 1
      BY <2>4, <3>1
    <3> QED BY <1>5, <2>5, <2>7, <3>1, <3>4, <3>5 DEF OneResponse
  <2>8. CASE out[n] \notin {"end", "error"}
    <3>1. \A i \in 1..n : out[i] # "end" /\ out[i] # "error"
      BY <1>5, <2>1, <2>3, <2>8
    <3>2. Count("end") = 0 /\ Count("error") = 0
      BY <1>1, <2>1, <3>1, CountNone
    <3> QED BY <1>5, <2>4, <3>2 DEF OneResponse
  <2> QED BY <2>7, <2>8
<1> QED BY <1>1, <1>3, <1>4, <1>5 DEF Complete

\* The channel is well-formed, a second request is made only where that cannot
\* be noticed, and the gateway gets one response.
THEOREM ChannelAlways == Spec => []ChannelInv
<1>1. IInv => ChannelInv
  <2> SUFFICES ASSUME IInv PROVE ChannelInv
    OBVIOUS
  <2>1. ch \in Channel /\ Requests(ch) /\ Fed(ch, rcvd)
    BY DEF IInv, ChannelGood
  <2>2. /\ hook.verdict \in {"none", "allow", "deny"} /\ hook.timer \in BOOLEAN
        /\ hook.says \in 0..MaxSays
    BY DEF IInv
  <2>3. /\ ch.phase \in {"none", "auth", "live", "finished"}
        /\ ch.queue \in Seq(1..MaxChunks) /\ ch.written \in Nat
        /\ ch.comp \in {"none", "running", "ended", "destroyed"} /\ ch.reqs \in Seq(Request)
    BY <2>1 DEF Channel, Chunk
  <2>4. ch.written \in 0..MaxChunks
    BY <2>1, <2>3 DEF Fed, IInv
  <2>5. \A i \in DOMAIN ch.reqs : ch.reqs[i] \in Request
    BY <2>3
  <2>6. Len(ch.reqs) <= 2 /\ RetryHarmless
    BY <2>1 DEF Requests, RetryHarmless
  <2>7. /\ rcvd \in [chunks : 0..MaxChunks, end : BOOLEAN]
        /\ out \in Seq({"head", "body", "end", "error"})
        /\ tunnel \in {"up", "dying", "down"}
    BY DEF IInv, Frames
  <2>8. TypeOK
    BY <2>2, <2>3, <2>4, <2>5, <2>6, <2>7 DEF TypeOK, Request, Chunk
  <2> QED BY <2>6, <2>8, CountAnswer DEF ChannelInv
<1> QED BY <1>1, IInvAlways, PTL

\* While the channel lives, the upstream has been given exactly the body that
\* has come, what is queued included, and its end.
THEOREM BodyAlways == Spec => []BodyFaithful
<1>1. IInv => BodyFaithful
  <2> SUFFICES ASSUME IInv, Live PROVE BodyFaithful
    BY DEF BodyFaithful
  <2>1. ch \in Channel /\ Requests(ch) /\ Fed(ch, rcvd)
    BY DEF IInv, ChannelGood
  <2>2. Chunks(rcvd) = [i \in 1..rcvd.chunks |-> i]
    BY DEF Chunks
  <2>3. CASE ch.phase = "auth"
    <3>1. ch.queue = Chunks(rcvd) /\ ch.reqs = <<>>
      BY <2>1, <2>3 DEF Fed, Requests
    <3>2. ch.queue \in Seq(Chunk)
      BY <2>1 DEF Channel
    <3>3. <<>> \o ch.queue = ch.queue
      BY <3>2, ConcatEmptySeq
    <3> QED BY <2>2, <3>1, <3>3, Zenon DEF BodyFaithful, HasRequest
  <2>4. CASE ch.phase = "live"
    <3>1. /\ HasRequest /\ This \in Request /\ This = Last(ch.reqs)
          /\ ch.queue = <<>>
      BY <2>1, <2>4, ThisRequest DEF Requests, HasRequest, This
    <3>2. This.body = Chunks(rcvd) /\ This.ended = rcvd.end /\ This.body \in Seq(Chunk)
      BY <2>1, <2>4, <3>1 DEF Fed, Request
    <3>3. This.body \o ch.queue = This.body
      BY <3>1, <3>2, ConcatEmptySeq
    <3> QED BY <2>2, <3>1, <3>2, <3>3, Zenon DEF BodyFaithful
  <2> QED BY <2>3, <2>4 DEF Live
<1> QED BY <1>1, IInvAlways, PTL

\* A finished channel leaves no compressor and no upstream request running, but
\* the one whose response has ended before the body.
THEOREM NothingLeftAlways == Spec => []NothingLeft
<1>1. IInv => NothingLeft
  <2> SUFFICES ASSUME IInv, ch.phase = "finished" PROVE NothingLeft
    BY DEF NothingLeft
  <2>1. ch.reqs \in Seq(Request) /\ Requests(ch)
    BY DEF IInv, ChannelGood, Channel
  <2>2. ch.comp # "running"
    BY <2>1 DEF Requests
  <2>3. \A i \in DOMAIN ch.reqs : ch.reqs[i].state = "open" => ch.reqs[i].over
    BY <2>1 DEF Requests
  <2> QED BY <2>2, <2>3 DEF NothingLeft
<1> QED BY <1>1, IInvAlways, PTL

\* The first word of the hook stands, and only when it is to allow a request to
\* the upstream's own origin does one reach the upstream.
THEOREM FirstWordAlways == Spec => FirstWordStands
<1>1. ASSUME IInv, [Next]_vars, hook.verdict # "none"
      PROVE  hook'.verdict = hook.verdict
  <2>1. CASE HookSays
    <3>1. PICK d \in {"allow", "deny"} : hook' = [Settled(d) EXCEPT !.says = @ + 1]
      BY <2>1 DEF HookSays
    <3>2. Settled(d) = hook
      BY <1>1 DEF Settled
    <3> QED BY <3>1, <3>2 DEF IInv
  <2>2. CASE HookTimeout
    BY <1>1, <2>2 DEF HookTimeout, Settled
  <2>3. CASE OpenHttp
    BY <1>1, <2>3 DEF OpenHttp, Asked, IInv
  <2>4. CASE UNCHANGED hook
    BY <2>4
  <2> QED
    BY <1>1, <2>1, <2>2, <2>3, <2>4
    DEF Next, vars, Verdict, Body, BodyEnd, PeerClose, TunnelDies, TunnelDown, UpstreamHead,
        SourceData, SourceResumes, ResponseEnds, CompressorEnds, StreamError, RequestError
<1>2. ASSUME IInv, [Next]_vars, ch.reqs = <<>>, ch'.reqs # <<>>
      PROVE  hook.verdict = "allow" /\ ch.kind = "plain" /\ ch.phase = "auth"
  <2>1. ch \in Channel /\ Requests(ch)
    BY <1>2 DEF IInv, ChannelGood
  <2>2. ch'.reqs # ch.reqs /\ ch' # Aborted(ch) /\ ch' # Done(ch)
    BY <1>2, <2>1, AbortedFields, DoneFields
  <2>3. ~ch.direct /\ ~HasRequest /\ (Live => ~ch.headSent) /\ ch.comp # "running"
    BY <1>2, <2>1 DEF Requests, Live, HasRequest
  <2>4. CASE Verdict
    BY <2>2, <2>4 DEF Verdict, Awaited, TrySend
  <2>5. CASE OpenHttp \/ BodyEnd \/ SourceResumes
    BY <2>1, <2>2, <2>3, <2>5 DEF OpenHttp, BodyEnd, SourceResumes, Channel
  <2>6. CASE Body
    BY <2>1, <2>2, <2>3, <2>6 DEF Body, Channel
  <2>7. CASE HookSays \/ HookTimeout \/ PeerClose \/ TunnelDies \/ TunnelDown \/ UNCHANGED vars
    BY <2>2, <2>7 DEF HookSays, HookTimeout, PeerClose, TunnelDies, TunnelDown, vars
  <2>8. ~(UpstreamHead \/ SourceData \/ ResponseEnds \/ CompressorEnds \/ StreamError
          \/ RequestError)
    BY <2>3 DEF UpstreamHead, SourceData, ResponseEnds, CompressorEnds, StreamError,
                RequestError
  <2> QED BY <1>2, <2>4, <2>5, <2>6, <2>7, <2>8 DEF Next
<1>3. IInv /\ [Next]_vars =>
        [/\ hook.verdict # "none" => hook'.verdict = hook.verdict
         /\ ch'.reqs # ch.reqs /\ ch.reqs = <<>> =>
              hook.verdict = "allow" /\ ch.kind = "plain" /\ ch.phase = "auth"]_vars
  BY <1>1, <1>2
<1> QED BY <1>3, IInvAlways, PTL DEF Spec, FirstWordStands
=============================================================================

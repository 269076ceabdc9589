-------------------------- MODULE UpstreamRequest --------------------------
(***************************************************************************)
(* One browser request at the client: Client.openHttp and its routing      *)
(* (client/src/client.ts), runAuthorization (client/src/authorize.ts) and  *)
(* HttpChannel (client/src/http-channel.ts) with its upstream requests.    *)
(*                                                                         *)
(* The gateway's frames of the channel arrive in order (StripedTunnel):    *)
(* http.open, the chunks of the body numbered 1, 2, ..., the end of the    *)
(* body, and at any time a channel.close.  The upstream and the hook are   *)
(* free: they may speak at any moment, or never.                           *)
(***************************************************************************)
EXTENDS Naturals, Sequences, FiniteSets, SequencesExt

CONSTANTS
  MaxChunks,  \* bound: chunks of the request body
  MaxData,    \* bound: chunks of the response body
  MaxSays,    \* bound: how often the hook decides (only the first counts)
  Compress    \* BOOLEAN: the client's compress option

ASSUME RequestAssumption ==
  /\ MaxChunks \in Nat /\ MaxData \in Nat /\ MaxSays \in Nat
  /\ Compress \in BOOLEAN

VARIABLES
  hook,    \* runAuthorization: its verdict, its timer, how often the hook spoke
  ch,      \* the HttpChannel
  rcvd,    \* what the gateway has sent of the request body
  out,     \* frames sent to the gateway
  tunnel   \* "up", "dying" (sends may throw), "down" (all channels aborted)

vars == <<hook, ch, rcvd, out, tunnel>>

(* ch.kind: "foreign" is an absolute URL of another origin, "probe" the     *)
(* select page's auth-check.  ch.queue is pending and ch.direct whether it  *)
(* is null; ch.reqs are the upstream requests, the last one is this.req.    *)
Init ==
  /\ hook = [verdict |-> "none", timer |-> FALSE, says |-> 0]
  /\ ch \in [phase : {"none"}, kind : {"plain", "foreign", "probe"}, idempotent : BOOLEAN,
             queue : {<<>>}, direct : {FALSE}, ended : {FALSE}, written : {0},
             headSent : {FALSE}, retried : {FALSE}, paused : {FALSE},
             reqs : {<<>>}, comp : {"none"}]
  /\ rcvd = [chunks |-> 0, end |-> FALSE]
  /\ out = <<>>
  /\ tunnel = "up"

Live == ch.phase \in {"auth", "live"}
HasRequest == ch.reqs # <<>>
This == Last(ch.reqs)
Count(f) == Cardinality({i \in DOMAIN out : out[i] = f})

-----------------------------------------------------------------------------
(* Endings. *)

SetThis(c, r) == [c EXCEPT !.reqs[Len(c.reqs)] = r]

Done(c) == [c EXCEPT !.phase = "finished"]

(* Mutant: the compressor is not destroyed with the request. *)
DestroyRequest(c) ==
  IF c.reqs = <<>> THEN c ELSE SetThis(c, [Last(c.reqs) EXCEPT !.state = "over"])
DestroyUpstream(c) ==
  LET d == [c EXCEPT !.comp = IF @ = "running" THEN "destroyed" ELSE @]
  IN  IF c.reqs = <<>> THEN d ELSE SetThis(d, [Last(c.reqs) EXCEPT !.state = "over"])

Aborted(c) == Done(DestroyUpstream(c))

(* trySend: all frames go out, or the dying tunnel throws at one of them. *)
TrySend(frames, next) ==
  \/ out' = out \o frames /\ ch' = next
  \/ /\ tunnel = "dying"
     /\ \E n \in 0..Len(frames) - 1 : out' = out \o SubSeq(frames, 1, n)
     /\ ch' = Aborted(ch)

(* Mutant: the channel does not finish with the error it reports. *)
FailUnfinished == TrySend(<<"error">>, DestroyUpstream(ch))
(* fail *)
Fail == TrySend(<<"error">>, Aborted(ch))

-----------------------------------------------------------------------------
(* Opening. *)

(* runAuthorization: the hook is called and a timer bounds it. *)
Asked == [hook EXCEPT !.timer = TRUE]

(* openHttp: a closing client refuses. *)
OpenHttp ==
  /\ ch.phase = "none"
  /\ \/ ch' = [ch EXCEPT !.phase = "auth"] /\ hook' = Asked
        /\ UNCHANGED out
     \/ ch' = Done(ch) /\ out' = <<"error">> /\ UNCHANGED hook
  /\ UNCHANGED <<rcvd, tunnel>>

(* runAuthorization's done. *)
Settled(d) ==
  IF hook.verdict = "none" THEN [hook EXCEPT !.verdict = d, !.timer = FALSE] ELSE hook

(* next(), next(err), a written response, an exception or a rejection. *)
HookSays ==
  /\ hook.timer \/ hook.verdict # "none"
  /\ hook.says < MaxSays
  /\ \E d \in {"allow", "deny"} : hook' = [Settled(d) EXCEPT !.says = @ + 1]
  /\ UNCHANGED <<ch, rcvd, out, tunnel>>

HookTimeout ==
  /\ hook.timer
  /\ hook' = Settled("deny")
  /\ UNCHANGED <<ch, rcvd, out, tunnel>>

(* Mutant: a body that has ended before is not ended on the new request. *)
OpenUpstreamEndless(c) ==
  [c EXCEPT !.phase = "live", !.queue = <<>>, !.direct = TRUE, !.written = @ + Len(c.queue),
            !.reqs = Append(@, [state |-> "open", body |-> c.queue, ended |-> FALSE,
                                head |-> FALSE, over |-> FALSE])]
(* openUpstream: a new request takes over the queue and the end. *)
OpenUpstream(c) ==
  [c EXCEPT !.phase = "live", !.queue = <<>>, !.direct = TRUE, !.written = @ + Len(c.queue),
            !.reqs = Append(@, [state |-> "open", body |-> c.queue, ended |-> c.ended,
                                head |-> FALSE, over |-> FALSE])]

(* Mutant: start goes on for a channel that was aborted during its await. *)
AwaitedUnchecked == ch.phase \in {"auth", "finished"}
(* The await in start is over, and nothing has finished the channel. *)
Awaited == ch.phase = "auth"

(* start, after its await: nothing is left to do for a finished channel. An *)
(* exception (a URL or a header Node refuses) is caught by openHttp, which   *)
(* aborts the channel and sends nothing.                                     *)
Verdict ==
  /\ Awaited /\ hook.verdict # "none"
  /\ \/ /\ hook.verdict = "deny" \/ ch.kind = "foreign"
        /\ TrySend(<<"head", "body", "end">>, Done(ch))
     \/ /\ hook.verdict = "allow" /\ ch.kind = "probe"
        /\ TrySend(<<"head", "end">>, Done(ch))
     \/ /\ hook.verdict = "allow" /\ ch.kind = "plain"
        /\ ch' = OpenUpstream(ch) /\ UNCHANGED out
     \/ hook.verdict = "allow" /\ ch' = Aborted(ch) /\ UNCHANGED out
  /\ UNCHANGED <<hook, rcvd, tunnel>>

-----------------------------------------------------------------------------
(* Frames of the gateway. *)

(* A finished channel is not in the client's table: its frames are dropped. *)
Body ==
  /\ ch.phase # "none" /\ tunnel # "down"
  /\ ~rcvd.end /\ rcvd.chunks < MaxChunks
  /\ LET n == rcvd.chunks + 1 IN
     /\ rcvd' = [rcvd EXCEPT !.chunks = n]
     /\ ch' = IF ~Live THEN ch
              ELSE IF ch.direct
                   THEN SetThis([ch EXCEPT !.written = @ + 1], [This EXCEPT !.body = Append(@, n)])
                   ELSE [ch EXCEPT !.queue = Append(@, n)]
  /\ UNCHANGED <<hook, out, tunnel>>

BodyEnd ==
  /\ ch.phase # "none" /\ tunnel # "down"
  /\ ~rcvd.end
  /\ rcvd' = [rcvd EXCEPT !.end = TRUE]
  /\ ch' = IF ~Live THEN ch
           ELSE IF ch.direct
                THEN SetThis([ch EXCEPT !.ended = TRUE], [This EXCEPT !.ended = TRUE])
                ELSE [ch EXCEPT !.ended = TRUE]
  /\ UNCHANGED <<hook, out, tunnel>>

(* channel.close and channel.error. *)
PeerClose ==
  /\ Live /\ tunnel # "down"
  /\ ch' = Aborted(ch)
  /\ UNCHANGED <<hook, rcvd, out, tunnel>>

TunnelDies ==
  /\ tunnel = "up" /\ tunnel' = "dying"
  /\ UNCHANGED <<hook, ch, rcvd, out>>

(* onDisconnected and Client.close: abortAllChannels. *)
TunnelDown ==
  /\ tunnel # "down" /\ tunnel' = "down"
  /\ ch' = IF Live THEN Aborted(ch) ELSE ch
  /\ UNCHANGED <<hook, rcvd, out>>

-----------------------------------------------------------------------------
(* The upstream.  A request's socket is free again once its response has    *)
(* come to its end and its body has been ended, or it is destroyed.         *)

Encodings == IF Compress THEN BOOLEAN ELSE {FALSE}

(* 'response' *)
UpstreamHead ==
  /\ HasRequest /\ This.state = "open" /\ ~This.head
  /\ LET r == SetThis(ch, [This EXCEPT !.head = TRUE]) IN
     IF ~Live THEN ch' = r /\ UNCHANGED out
     ELSE \E enc \in Encodings :
            TrySend(<<"head">>, [r EXCEPT !.headSent = TRUE,
                                          !.comp = IF enc THEN "running" ELSE "none"])
  /\ UNCHANGED <<hook, rcvd, tunnel>>

(* 'data' of the response, or of the compressor it is piped into. *)
SourceData ==
  /\ Live /\ ch.headSent /\ ~ch.paused
  /\ IF ch.comp = "running" THEN TRUE ELSE ~This.over
  /\ Count("body") < MaxData
  /\ \E pause \in BOOLEAN : TrySend(<<"body">>, [ch EXCEPT !.paused = pause])
  /\ UNCHANGED <<hook, rcvd, tunnel>>

(* Backpressure is over (module FlowControl). *)
SourceResumes ==
  /\ Live /\ ch.paused
  /\ ch' = [ch EXCEPT !.paused = FALSE]
  /\ UNCHANGED <<hook, rcvd, out, tunnel>>

(* The response has been read to its end: a compressor goes on from here.  *)
ResponseEnds ==
  /\ HasRequest /\ This.state = "open" /\ This.head /\ ~This.over
  /\ ch.comp = "none" => ~ch.paused
  /\ LET r == SetThis(ch, [This EXCEPT !.over = TRUE]) IN
     IF Live /\ ch.comp = "none" THEN TrySend(<<"end">>, Done(r))
     ELSE ch' = r /\ UNCHANGED out
  /\ UNCHANGED <<hook, rcvd, tunnel>>

CompressorEnds ==
  /\ Live /\ ch.comp = "running" /\ This.over /\ ~ch.paused
  /\ TrySend(<<"end">>, Done([ch EXCEPT !.comp = "ended"]))
  /\ UNCHANGED <<hook, rcvd, tunnel>>

(* 'error' of the compressor or of the response. *)
StreamError ==
  /\ Live /\ ch.headSent
  /\ \/ ch.comp = "running"
     \/ This.state = "open" /\ ~This.over
  /\ Fail
  /\ UNCHANGED <<hook, rcvd, tunnel>>

(* Mutant: a request may be retried again and again. *)
MayRetryAgain == ch.idempotent /\ ~ch.headSent /\ ch.written = 0
(* Mutant: a request may be retried though its body has been written. *)
MayRetryWritten == ch.idempotent /\ ~ch.headSent /\ ~ch.retried
MayRetry == ch.idempotent /\ ~ch.headSent /\ ch.written = 0 /\ ~ch.retried

(* 'error' of the request; stale: the reset of a kept-alive socket. *)
RequestError ==
  /\ HasRequest /\ This.state = "open" /\ ~(This.over /\ This.ended)
  /\ LET c == SetThis(ch, [This EXCEPT !.state = "over"]) IN
     \/ ~Live /\ ch' = c /\ UNCHANGED out
     \/ /\ Live /\ MayRetry
        /\ ch' = OpenUpstream([c EXCEPT !.retried = TRUE])
        /\ UNCHANGED out
     \/ /\ Live /\ ~ch.headSent
        /\ TrySend(<<"head", "body", "end">>, Done(c))
     \/ Live /\ ch.headSent /\ Fail
  /\ UNCHANGED <<hook, rcvd, tunnel>>

Next ==
  \/ OpenHttp \/ HookSays \/ HookTimeout \/ Verdict
  \/ Body \/ BodyEnd \/ PeerClose \/ TunnelDies \/ TunnelDown
  \/ UpstreamHead \/ SourceData \/ SourceResumes \/ ResponseEnds \/ CompressorEnds
  \/ StreamError \/ RequestError

Spec == Init /\ [][Next]_vars

-----------------------------------------------------------------------------
(* The state has its types; no channel has more than two upstream requests. *)
TypeOK ==
  /\ hook.verdict \in {"none", "allow", "deny"} /\ hook.timer \in BOOLEAN
  /\ hook.says \in 0..MaxSays
  /\ ch.phase \in {"none", "auth", "live", "finished"}
  /\ ch.queue \in Seq(1..MaxChunks) /\ ch.written \in 0..MaxChunks
  /\ ch.comp \in {"none", "running", "ended", "destroyed"}
  /\ Len(ch.reqs) <= 2
  /\ \A i \in DOMAIN ch.reqs :
       ch.reqs[i] \in [state : {"open", "over"}, body : Seq(1..MaxChunks),
                       ended : BOOLEAN, head : BOOLEAN, over : BOOLEAN]
  /\ rcvd \in [chunks : 0..MaxChunks, end : BOOLEAN]
  /\ out \in Seq({"head", "body", "end", "error"})
  /\ tunnel \in {"up", "dying", "down"}

(* While the channel lives, its current upstream request has been given     *)
(* exactly the body that has come from the gateway, what is queued           *)
(* included, and its end; also the request that replaced a stale one.       *)
BodyFaithful ==
  Live =>
    LET given == IF HasRequest THEN This.body ELSE <<>> IN
    /\ given \o ch.queue = [i \in 1..rcvd.chunks |-> i]
    /\ HasRequest => This.ended = rcvd.end

(* Whatever the channel writes twice is harmless: the second request is     *)
(* only made for an idempotent one of which nothing had been written and    *)
(* nothing answered.                                                        *)
RetryHarmless ==
  Len(ch.reqs) = 2 => ch.idempotent /\ ch.reqs[1].body = <<>> /\ ~ch.reqs[1].head

(* Nothing reaches the upstream unless the hook's first word was to allow   *)
(* it, for a request to the upstream's own origin that nobody has aborted   *)
(* during the await; the verdict stands, whatever the hook or the timer say *)
(* later.                                                                   *)
FirstWordStands ==
  [][/\ hook.verdict # "none" => hook'.verdict = hook.verdict
     /\ ch'.reqs # ch.reqs /\ ch.reqs = <<>> =>
          hook.verdict = "allow" /\ ch.kind = "plain" /\ ch.phase = "auth"]_vars

(* The gateway gets one response: a head, then data, then one end or error, *)
(* and the channel is finished with exactly the frame that ends it, unless  *)
(* it was cancelled or the tunnel failed.                                   *)
OneResponse ==
  /\ Count("head") <= 1 /\ Count("end") + Count("error") <= 1
  /\ out # <<>> => out[1] = "head" \/ out = <<"error">>
  /\ Count("end") + Count("error") = 1 =>
       ch.phase = "finished" /\ Last(out) \in {"end", "error"}

(* Together: the channel is well-formed, asks twice only where that cannot  *)
(* be noticed, and answers once.                                            *)
ChannelInv == TypeOK /\ RetryHarmless /\ OneResponse

(* A finished channel leaves nothing running: the compressor is ended or     *)
(* destroyed and so is every request.  The exception is the code's: a        *)
(* response that comes to its end before the request body does finishes the  *)
(* channel without destroying the request, whose end is dropped when it      *)
(* comes (onBodyEnd's guard), so the upstream socket stays taken.            *)
NothingLeft ==
  ch.phase = "finished" =>
    /\ ch.comp # "running"
    /\ \A i \in DOMAIN ch.reqs :
         LET r == ch.reqs[i] IN r.state = "open" => r.over
=============================================================================

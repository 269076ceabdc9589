--------------------------- MODULE BrowserSocket ---------------------------
(***************************************************************************)
(* One browser WebSocket through the tunnel: the gateway's handler         *)
(* (server/src/ws-proxy.ts, handleBrowserWs) and the client's WsChannel    *)
(* (client/src/ws-channel.ts) with the Client that routes to it.           *)
(*                                                                         *)
(* The tunnel carries the channel's frames in order (StripedTunnel) until  *)
(* it breaks.  Each end learns of the break in its own time, and may lose  *)
(* what was still on the way to it.                                        *)
(*                                                                         *)
(* A WebSocket ("browserWs" at the gateway, "upstream" at the client) is   *)
(* seen through its library's events.  Close codes are "app" (1000 or      *)
(* 3000-4999), "reserved" (1001-1015 as a peer may send them), "none"      *)
(* (1005, 1006), and what the two programs send themselves: "normal"       *)
(* (1000 in place of another code), "toobig" (1009), "failed" (1011).      *)
(***************************************************************************)
EXTENDS Naturals, Sequences

CONSTANTS
  MaxMsgs,    \* bound: messages each side sends
  Protocols,  \* what ws.accept may name: "listed" in ws.open or "unlisted"
  Grace,      \* BOOLEAN: tunnelRestoreGraceMs > 0
  Limit       \* BOOLEAN: a message may fit a tunnel frame, but not with its seq

ASSUME SocketAssumption ==
  /\ MaxMsgs \in Nat
  /\ Protocols \subseteq {"listed", "unlisted"}
  /\ Grace \in BOOLEAN /\ Limit \in BOOLEAN

VARIABLES
  srv,    \* the gateway's handler of this socket
  cli,    \* the client's WsChannel
  tunnel, \* "offline" before it comes up, "up", "broken"
  knows,  \* which ends have seen the break: a subset of {"server", "client"}
  down,   \* frames on their way from gateway to client
  up,     \* frames on their way from client to gateway
  got     \* messages the browser and the upstream have been handed

vars == <<srv, cli, tunnel, knows, down, up, got>>

PeerCodes == {"app", "reserved", "none"}

(* srv.raw is the socket the upgrade request came on: "open" until it is   *)
(* answered or upgraded; "cut" is a browser gone whose 'close' event the   *)
(* handler has not seen.  srv.ws is browserWs and cli.ups the upstream     *)
(* WebSocket: "leaving" once its peer has begun to close it, "closing"     *)
(* once we have.  code is what we closed it with, left what the peer did,  *)
(* sent how many of the peer's messages were passed on.  A peer that is    *)
(* leaving may have sent messages we have yet to read.                     *)
Init ==
  /\ srv = [phase |-> "arriving", timer |-> FALSE, raw |-> "open", replies |-> 0,
            ws |-> "none", code |-> "none", left |-> "none", paused |-> FALSE, sent |-> 0]
  /\ cli = [phase |-> "none", accepted |-> FALSE, closing |-> FALSE, pending |-> <<>>,
            ups |-> "none", code |-> "none", left |-> "none", paused |-> FALSE, sent |-> 0]
  /\ tunnel \in {"offline", "up"}
  /\ knows = {}
  /\ down = <<>> /\ up = <<>>
  /\ got = [browser |-> <<>>, upstream |-> <<>>]

-----------------------------------------------------------------------------
(* Sending.  The gateway's ws swallows what it is given after its close;   *)
(* the client's connection may also throw, which trySend turns into abort. *)

Close(code) == [type |-> "close", code |-> code]
Plain(t) == [type |-> t, code |-> "none"]
Message(n) == [type |-> "message", code |-> "none", n |-> n]

SendDown(f) == down' = IF tunnel = "up" THEN Append(down, f) ELSE down

(* Mutant: the peer's code goes to ws.close as it came. *)
AsItCame(code) == code
(* A legal code for ws.close; both ends agree on it. *)
Sanitize(code) == IF code = "app" THEN "app" ELSE "normal"

(* An HTTP answer on the raw socket: lost if the browser is gone, an error *)
(* that is only logged if handleUpgrade has ended the socket before.       *)
Answer(s) ==
  IF s.raw \in {"cut", "answered", "closed"} THEN s
  ELSE [s EXCEPT !.raw = "answered", !.replies = @ + 1]

(* finish: its latch is the guard of the callers, its release the phase. *)
Finish(s) == [s EXCEPT !.phase = "finished", !.timer = FALSE]

(* Mutant: a channel that ends before ws.accept leaves its raw socket alone. *)
FinishUpgradedOnly(s, code) ==
  Finish([s EXCEPT !.ws = IF @ = "open" THEN "closing" ELSE @])
(* The browser is told of the end on whatever it holds by then. *)
FinishWith(s, code) ==
  IF s.ws = "none" THEN Finish(Answer(s))
  ELSE Finish([s EXCEPT !.ws = IF @ = "closed" THEN @ ELSE "closing",
                        !.code = IF s.ws = "open" THEN code ELSE @])

-----------------------------------------------------------------------------
(* The gateway: handleBrowserWs until the channel is open. *)

(* The gateway keeps a broken tunnel's session until it hears of the break. *)
InRegistry == tunnel # "offline" /\ "server" \notin knows

(* Mutant: nothing limits the wait for ws.accept. *)
OpenedUntimed(s) == [s EXCEPT !.phase = "open"]
(* The channel is registered, ws.open sent and the accept timer set. *)
Opened(s) == [s EXCEPT !.phase = "open", !.timer = TRUE]

Unauthorised ==
  /\ srv.phase = "arriving"
  /\ srv' = [Answer(srv) EXCEPT !.phase = "refused"]
  /\ UNCHANGED <<cli, tunnel, knows, down, up, got>>

Arrive ==
  /\ srv.phase = "arriving"
  /\ \/ InRegistry /\ srv' = Opened(srv) /\ SendDown(Plain("open"))
     \/ /\ ~InRegistry
        /\ srv' = IF Grace THEN [srv EXCEPT !.phase = "waiting"]
                  ELSE [Answer(srv) EXCEPT !.phase = "refused"]
        /\ UNCHANGED down
  /\ UNCHANGED <<cli, tunnel, knows, up, got>>

(* The tunnel comes up: TunnelRegistry.set wakes the waiting handler. *)
TunnelRestored ==
  /\ tunnel = "offline"
  /\ tunnel' = "up"
  /\ IF srv.phase = "waiting"
     THEN srv' = Opened(srv) /\ down' = <<Plain("open")>>
     ELSE UNCHANGED <<srv, down>>
  /\ UNCHANGED <<cli, knows, up, got>>

GraceOver ==
  /\ srv.phase = "waiting"
  /\ srv' = [Answer(srv) EXCEPT !.phase = "refused"]
  /\ UNCHANGED <<cli, tunnel, knows, down, up, got>>

(* The browser drops the connection while it is still plain HTTP. *)
BrowserCut ==
  /\ srv.raw = "open" /\ srv.phase # "arriving"
  /\ srv' = [srv EXCEPT !.raw = "cut"]
  /\ UNCHANGED <<cli, tunnel, knows, down, up, got>>

(* The raw socket's 'close': ends the wait or, before ws.accept, the channel. *)
RawClosed ==
  /\ srv.raw \in {"cut", "answered"}
  /\ LET closed == [srv EXCEPT !.raw = "closed"] IN
     CASE srv.phase = "waiting" ->
            srv' = [closed EXCEPT !.phase = "refused"] /\ UNCHANGED down
       [] srv.phase = "open" /\ srv.ws = "none" ->
            srv' = Finish(closed) /\ SendDown(Close("none"))
       [] OTHER -> srv' = closed /\ UNCHANGED down
  /\ UNCHANGED <<cli, tunnel, knows, up, got>>

AcceptTimeout ==
  /\ srv.timer
  /\ srv' = Finish(Answer(srv))
  /\ SendDown(Close("none"))
  /\ UNCHANGED <<cli, tunnel, knows, up, got>>

-----------------------------------------------------------------------------
(* The gateway: frames of the channel.  A finished channel is not in the   *)
(* session's table: its late frames are dropped.                           *)

FromClient(t) == up # <<>> /\ Head(up).type = t /\ up' = Tail(up)

DropUp ==
  /\ up # <<>> /\ srv.phase # "open"
  /\ up' = Tail(up)
  /\ UNCHANGED <<srv, cli, tunnel, knows, down, got>>

(* Mutant: the accept timer runs on after the upgrade. *)
UpgradedTimed(s) == [s EXCEPT !.raw = "upgraded", !.ws = "open", !.replies = @ + 1]
Upgraded(s) ==
  [s EXCEPT !.timer = FALSE, !.raw = "upgraded", !.ws = "open", !.replies = @ + 1]

(* ws.accept.  handleUpgrade answers 400 itself if the browser's handshake *)
(* is no good, and does nothing for a browser already gone: either way     *)
(* browserWs stays null and the raw socket's 'close' ends the channel.     *)
Accept ==
  /\ srv.phase = "open" /\ FromClient("accept")
  /\ \/ /\ Head(up).code = "unlisted"
        /\ srv' = Finish([srv EXCEPT !.raw = "closed"])
        /\ SendDown(Close("none"))
     \/ /\ Head(up).code = "listed" /\ srv.raw = "open"
        /\ srv' \in {Upgraded(srv), [Answer(srv) EXCEPT !.timer = FALSE]}
        /\ UNCHANGED down
     \/ /\ Head(up).code = "listed" /\ srv.raw # "open"
        /\ srv' = [srv EXCEPT !.timer = FALSE]
        /\ UNCHANGED down
  /\ UNCHANGED <<cli, tunnel, knows, got>>

Reject ==
  /\ srv.phase = "open" /\ FromClient("reject")
  /\ srv' = Finish(Answer(srv))
  /\ UNCHANGED <<cli, tunnel, knows, down, got>>

(* channel.error and channel.close. *)
EndedByClient ==
  /\ srv.phase = "open"
  /\ \/ FromClient("error") /\ srv' = FinishWith(srv, "failed")
     \/ FromClient("close") /\ srv' = FinishWith(srv, Sanitize(Head(up).code))
  /\ UNCHANGED <<cli, tunnel, knows, down, got>>

MessageUp ==
  /\ srv.phase = "open" /\ FromClient("message")
  /\ got' = IF srv.ws = "open" THEN [got EXCEPT !.browser = Append(@, Head(up).n)] ELSE got
  /\ UNCHANGED <<srv, cli, tunnel, knows, down>>

(* Events of browserWs.  After a false from sendData it is paused, and has *)
(* neither messages nor its 'close' until waitDrain's resume.              *)

Passed(e, pause) == [e EXCEPT !.sent = @ + 1, !.paused = pause]

BrowserMessage ==
  /\ srv.phase = "open" /\ srv.ws \in {"open", "leaving"} /\ ~srv.paused
  /\ srv.sent < MaxMsgs
  /\ \E pause \in BOOLEAN : srv' = Passed(srv, pause)
  /\ SendDown(Message(srv.sent + 1))
  /\ UNCHANGED <<cli, tunnel, knows, up, got>>

(* A message that would not fit a tunnel frame ends this channel only. *)
BrowserMessageTooBig ==
  /\ srv.phase = "open" /\ srv.ws \in {"open", "leaving"} /\ ~srv.paused
  /\ SendDown(Close("none"))
  /\ srv' = FinishWith(srv, "toobig")
  /\ UNCHANGED <<cli, tunnel, knows, up, got>>

BrowserLeaves ==
  /\ srv.ws = "open"
  /\ srv' = [srv EXCEPT !.ws = "leaving"]
  /\ UNCHANGED <<cli, tunnel, knows, down, up, got>>

(* 'close' (and 'error', which forwards no code either way). *)
BrowserClosed ==
  /\ \/ srv.ws = "leaving" /\ ~srv.paused
     \/ srv.ws = "closing"
  /\ \E code \in PeerCodes :
       LET closed == [srv EXCEPT !.ws = "closed", !.left = code] IN
       IF srv.phase = "open" THEN srv' = Finish(closed) /\ SendDown(Close(code))
       ELSE srv' = [srv EXCEPT !.ws = "closed"] /\ UNCHANGED down
  /\ UNCHANGED <<cli, tunnel, knows, up, got>>

BrowserResumes ==
  /\ srv.paused
  /\ srv' = [srv EXCEPT !.paused = FALSE]
  /\ UNCHANGED <<cli, tunnel, knows, down, up, got>>

-----------------------------------------------------------------------------
(* The client's WsChannel. *)

Done(c) == [c EXCEPT !.phase = "finished"]
Aborted(c) == Done([c EXCEPT !.ups = IF @ = "none" THEN "none" ELSE "closed"])

(* Mutant: a close frame overtakes the messages sent before it. *)
SendUpCloseFirst(f) ==
  up' = IF tunnel # "up" THEN up ELSE IF f.type = "close" THEN <<f>> \o up ELSE Append(up, f)
SendUp(f) == up' = IF tunnel = "up" THEN Append(up, f) ELSE up

(* trySend: next if the frame went out, also into a tunnel that is gone;   *)
(* between its socket's failure and Disconnected the connection may throw. *)
(* So does encodeData for a message of the last few bytes below the limit: *)
(* its size is tested before the group adds the seq to its header.         *)
TrySend(f, next) ==
  \/ SendUp(f) /\ cli' = next
  \/ /\ tunnel = "broken" \/ (Limit /\ f.type = "message")
     /\ cli' = Aborted(cli) /\ UNCHANGED up

FromServer(t) == down # <<>> /\ Head(down).type = t /\ down' = Tail(down)

(* openWs; a closing client answers channel.error. *)
OpenWs ==
  /\ FromServer("open")
  /\ IF cli.closing
     THEN SendUp(Plain("error")) /\ cli' = Done(cli)
     ELSE cli' = [cli EXCEPT !.phase = "auth"] /\ UNCHANGED up
  /\ UNCHANGED <<srv, tunnel, knows, got>>

(* start after the verdict: refused (also a foreign origin), an exception  *)
(* of the ws constructor, which only Client.openWs catches, or dialling.   *)
AuthSettles ==
  /\ cli.phase = "auth"
  /\ \/ TrySend(Plain("reject"), Done(cli))
     \/ cli' = Aborted(cli) /\ UNCHANGED up
     \/ cli' = [cli EXCEPT !.phase = "dialled", !.ups = "connecting"] /\ UNCHANGED up
  /\ UNCHANGED <<srv, tunnel, knows, down, got>>

(* 'open': ws.accept, then the messages that waited. *)
UpstreamOpens ==
  /\ cli.phase = "dialled" /\ cli.ups = "connecting"
  /\ \E p \in Protocols :
       TrySend([type |-> "accept", code |-> p],
               [cli EXCEPT !.ups = "open", !.accepted = TRUE, !.pending = <<>>])
  /\ got' = IF cli'.ups = "open" THEN [got EXCEPT !.upstream = @ \o cli.pending] ELSE got
  /\ UNCHANGED <<srv, tunnel, knows, down>>

(* 'error': before ws.accept 502, after it channel.error; 'close' follows. *)
UpstreamFails ==
  /\ cli.phase = "dialled" /\ cli.ups \in {"connecting", "open", "leaving"}
  /\ TrySend(Plain(IF cli.accepted THEN "error" ELSE "reject"), Done([cli EXCEPT !.ups = "closing"]))
  /\ UNCHANGED <<srv, tunnel, knows, down, got>>

UpstreamMessage ==
  /\ cli.phase = "dialled" /\ cli.ups \in {"open", "leaving"} /\ ~cli.paused
  /\ cli.sent < MaxMsgs
  /\ \E pause \in BOOLEAN : TrySend(Message(cli.sent + 1), Passed(cli, pause))
  /\ UNCHANGED <<srv, tunnel, knows, down, got>>

UpstreamMessageTooBig ==
  /\ cli.phase = "dialled" /\ cli.ups \in {"open", "leaving"} /\ ~cli.paused
  /\ TrySend(Close("none"), Done([cli EXCEPT !.ups = "closing", !.code = "toobig"]))
  /\ UNCHANGED <<srv, tunnel, knows, down, got>>

UpstreamLeaves ==
  /\ cli.ups = "open"
  /\ cli' = [cli EXCEPT !.ups = "leaving"]
  /\ UNCHANGED <<srv, tunnel, knows, down, up, got>>

UpstreamClosed ==
  /\ \/ cli.ups = "leaving" /\ ~cli.paused
     \/ cli.ups = "closing"
  /\ IF cli.phase = "dialled"
     THEN \E code \in PeerCodes :
            TrySend(Close(code), Done([cli EXCEPT !.ups = "closed", !.left = code]))
     ELSE cli' = [cli EXCEPT !.ups = "closed"] /\ UNCHANGED up
  /\ UNCHANGED <<srv, tunnel, knows, down, got>>

(* A channel that has ended stays paused: its close has a timer of its own. *)
UpstreamResumes ==
  /\ cli.paused /\ cli.phase = "dialled"
  /\ cli' = [cli EXCEPT !.paused = FALSE]
  /\ UNCHANGED <<srv, tunnel, knows, down, up, got>>

(* Frames of the gateway: onMessage and onPeerClose. *)
DropDown ==
  /\ down # <<>> /\ Head(down).type # "open" /\ cli.phase \in {"none", "finished"}
  /\ down' = Tail(down)
  /\ UNCHANGED <<srv, cli, tunnel, knows, up, got>>

MessageDown ==
  /\ cli.phase \in {"auth", "dialled"} /\ FromServer("message")
  /\ cli' = IF cli.accepted THEN cli ELSE [cli EXCEPT !.pending = Append(@, Head(down).n)]
  /\ got' = IF cli.ups = "open" THEN [got EXCEPT !.upstream = Append(@, Head(down).n)] ELSE got
  /\ UNCHANGED <<srv, tunnel, knows, up>>

(* Mutant: a channel cancelled while it dials leaves the dialling alone. *)
ClosedByPeerOnceOpen(c, code) ==
  Done([c EXCEPT !.ups = IF @ \in {"open", "leaving"} THEN "closing" ELSE @])
ClosedByPeer(c, code) ==
  Done([c EXCEPT !.ups = IF @ \in {"none", "closed"} THEN @ ELSE "closing",
                 !.code = IF c.ups = "open" THEN Sanitize(code) ELSE @])

PeerClose ==
  /\ cli.phase \in {"auth", "dialled"} /\ FromServer("close")
  /\ cli' = ClosedByPeer(cli, Head(down).code)
  /\ UNCHANGED <<srv, tunnel, knows, up, got>>

-----------------------------------------------------------------------------
(* The tunnel. *)

TunnelBreaks ==
  /\ tunnel = "up"
  /\ tunnel' = "broken"
  /\ UNCHANGED <<srv, cli, knows, down, up, got>>

(* The session's teardown: onTunnelDown of a channel still in its table. *)
Torn ==
  /\ "server" \notin knows
  /\ tunnel' = "broken" /\ knows' = knows \union {"server"}
  /\ up' = <<>>
  /\ srv' = IF srv.phase = "open" THEN FinishWith(srv, "failed") ELSE srv
  /\ UNCHANGED <<cli, down, got>>

TunnelDown == tunnel = "broken" /\ Torn
ServerCloses == tunnel = "up" /\ Torn

ClientCloses ==
  /\ ~cli.closing /\ tunnel # "offline"
  /\ cli' = [cli EXCEPT !.closing = TRUE]
  /\ UNCHANGED <<srv, tunnel, knows, down, up, got>>

(* onDisconnected, and the end of Client.close: abortAllChannels. *)
Disconnected ==
  /\ (tunnel = "broken") \/ (tunnel = "up" /\ cli.closing)
  /\ "client" \notin knows
  /\ tunnel' = "broken" /\ knows' = knows \union {"client"}
  /\ down' = <<>>
  /\ cli' = IF cli.phase \in {"auth", "dialled"} THEN Aborted(cli) ELSE cli
  /\ UNCHANGED <<srv, up, got>>

Server ==
  \/ Unauthorised \/ Arrive \/ TunnelRestored \/ GraceOver
  \/ BrowserCut \/ RawClosed \/ AcceptTimeout
  \/ DropUp \/ Accept \/ Reject \/ EndedByClient \/ MessageUp
  \/ BrowserMessage \/ BrowserMessageTooBig \/ BrowserLeaves \/ BrowserClosed
  \/ BrowserResumes \/ TunnelDown \/ ServerCloses

Client ==
  \/ OpenWs \/ AuthSettles \/ UpstreamOpens \/ UpstreamFails
  \/ UpstreamMessage \/ UpstreamMessageTooBig \/ UpstreamLeaves \/ UpstreamClosed
  \/ UpstreamResumes \/ DropDown \/ MessageDown \/ PeerClose
  \/ ClientCloses \/ Disconnected

Next == Server \/ Client \/ TunnelBreaks

(* Timers fire, frames and 'close' events are handled, a verdict is given   *)
(* (runAuthorization has a timeout), paused sockets are resumed (module     *)
(* FlowControl), the ws library ends a close nobody answers, and both ends  *)
(* hear of a tunnel's end.  Nothing makes the upstream or the browser open, *)
(* send or close anything.                                                  *)
Fairness ==
  /\ WF_vars(Unauthorised \/ Arrive) /\ WF_vars(GraceOver) /\ WF_vars(RawClosed)
  /\ WF_vars(AcceptTimeout)
  /\ WF_vars(DropUp \/ Accept \/ Reject \/ EndedByClient \/ MessageUp)
  /\ WF_vars(BrowserClosed) /\ WF_vars(BrowserResumes) /\ WF_vars(TunnelDown)
  /\ WF_vars(OpenWs \/ DropDown \/ MessageDown \/ PeerClose)
  /\ WF_vars(AuthSettles) /\ WF_vars(UpstreamClosed) /\ WF_vars(UpstreamResumes)
  /\ WF_vars(Disconnected)

Spec == Init /\ [][Next]_vars /\ Fairness

-----------------------------------------------------------------------------
Sockets == {"none", "connecting", "open", "leaving", "closing", "closed"}
Frames ==
  [type : {"open", "reject", "error"}, code : {"none"}]
    \union [type : {"accept"}, code : Protocols]
    \union [type : {"close"}, code : PeerCodes]
    \union [type : {"message"}, code : {"none"}, n : Nat]

(* The state has its types; in particular neither end gives a WebSocket a   *)
(* close code that ws.close would throw at (the two sanitisers), and the    *)
(* client never queues a browser message: none can overtake ws.accept.      *)
TypeOK ==
  /\ srv.phase \in {"arriving", "waiting", "refused", "open", "finished"}
  /\ srv.raw \in {"open", "cut", "answered", "upgraded", "closed"}
  /\ srv.ws \in Sockets \ {"connecting"} /\ cli.ups \in Sockets
  /\ srv.code \in {"none", "app", "normal", "toobig", "failed"}
  /\ cli.code \in {"none", "app", "normal", "toobig"}
  /\ {srv.left, cli.left} \subseteq PeerCodes
  /\ {srv.timer, srv.paused, cli.paused, cli.accepted, cli.closing} \subseteq BOOLEAN
  /\ {srv.sent, cli.sent} \subseteq 0..MaxMsgs
  /\ cli.phase \in {"none", "auth", "dialled", "finished"} /\ cli.pending = <<>>
  /\ tunnel \in {"offline", "up", "broken"} /\ knows \subseteq {"server", "client"}
  /\ down \in Seq(Frames) /\ up \in Seq(Frames)
  /\ got \in [browser : Seq(Nat), upstream : Seq(Nat)]

(* The browser's upgrade request gets one answer at most, HTTP or 101,      *)
(* though accept, reject, error, close, timeout, disconnect and the         *)
(* tunnel's end race for it (finish's latch, and the timer ws.accept        *)
(* clears).                                                                 *)
OneAnswer == srv.replies <= 1 /\ (srv.ws # "none" => srv.raw = "upgraded")

(* However a half comes to its end, it disposes of what it holds: a         *)
(* finished handler has answered or upgraded and is closing browserWs, a    *)
(* finished channel is closing the upstream.  (The repository's review      *)
(* fixes in onControl are about the first.)                                 *)
EndsReleased ==
  /\ srv.phase \in {"refused", "finished"} => srv.raw # "open" /\ srv.ws \in {"none", "closing", "closed"}
  /\ cli.phase = "finished" => cli.ups \in {"none", "closing", "closed"}

(* Together: the two halves are well-formed and hold on to nothing. *)
RelayInv == TypeOK /\ EndsReleased

Counted(n) == [i \in 1..n |-> i]

(* A close with the application's code is the other side's own close, and   *)
(* comes after every message that was sent before it, each once and in      *)
(* order.  (1000 in place of another code promises neither.)                *)
CloseIsComplete ==
  /\ srv.code = "app" => cli.left = "app" /\ got.browser = Counted(cli.sent)
  /\ cli.code = "app" => srv.left = "app" /\ got.upstream = Counted(srv.sent)

(* Every upgrade request is answered, or its browser gone, though tunnel    *)
(* and upstream may never say a word: the grace and accept timers.          *)
UpgradeAnswered == (srv.phase = "arriving") ~> (srv.raw # "open")

ServerEnded == srv.phase \in {"refused", "finished"} /\ srv.ws \in {"none", "closed"}
ClientEnded == cli.phase \in {"none", "finished"} /\ cli.ups \in {"none", "closed"}

(* If one half of the channel comes to its end, so does the other, with     *)
(* both WebSockets closed: no path leaves a half behind, also none that     *)
(* sends no frame (an exception in start, a send into a dying tunnel).      *)
EndsTogether ==
  (srv.phase = "finished" \/ cli.phase = "finished") ~> (ServerEnded /\ ClientEnded)

(* Both halves hand close codes through: "任一侧关闭 → 透传关闭码/原因"         *)
(* (server design, section 7.2): a browser closed for the upstream's leave  *)
(* is given the code the upstream left with.                                *)
CodePassed == srv.code = "normal" /\ cli.left # "none" => cli.left = "app"
=============================================================================

# Verification of harness-gateway

TLA+ models of the tunnel gateway in `src/packages/`, the TLC runs that check
them on small instances, and TLAPS proofs of the most important results for
instances of any size. `PROJECT.json` maps every definition to the source lines
it stands for, and lists the runs, the mutants, the hazards and the theorems.

A gateway (`server`) is reachable from browsers; a client (`client`), running
beside a private web application, dials the gateway and keeps a **tunnel** open:
one WebSocket, or a **group** of several, called **legs**. Each browser request
or WebSocket becomes a numbered **channel** whose frames travel through the
tunnel to the client, which performs the request on the application. A host
plugin (`dsh-remote-access`) switches such a client on and off.

## 1. Inventory

Everything is single-threaded JavaScript: a handler runs to its end, then the
promise continuations it has resolved, then the next event. The concurrency is
that of the events: several sockets with independent queues, timers, awaits,
and two processes that see a connection end at different times.

| Component | State | Operations | What makes it correct |
|---|---|---|---|
| Striped sending, `Resequencer` (both ends) | `sendSeq` per channel; per channel `expected`, `buffer`, `bufferedBytes` | number a frame and pick a leg, `feed`, sweep, overflow, `dropChannel`, `reset` | frames handed over in order, once, without a hole that nothing will fill; the byte count true; nothing left from an older tunnel |
| `TunnelSession`, `TunnelRegistry` (`server/session.ts`) | legs, channel table, `tunnels` by id, `attachWaiters` | register, route, `attachLeg`, `legDown`, `teardown`, `set`, `delete`, `waitFor`, `closeAll` | an id has one live session and only it; teardown reaches every channel and leg once; every waiter is woken |
| Tunnel entry (`server/tunnel.ts`) | per socket: hello timer, bad-frame budget, session | `hello`, attach hello, assignment of the id, refusal 4410, close | legs join the right session, never more than negotiated |
| `TunnelGroup` (client) | `attachLegs`, `attachTimers`, `generation`, `rebuilding`, `disconnected`, `closing` | spawn, attach, retry, fold losses, force a reconnect, close | the group comes back, all its legs in one session; no leg or timer outlives its generation |
| `Connection` (client) | `ws`, `attempts`, timers, pending connect, heartbeat | dial, hello, close handling, back-off, fatal | retries end or succeed |
| Browser HTTP (`server/http-proxy.ts`) | per request: active channel, `finished`, `replayed`, `headTimer`, `headAt`, response | wait for the tunnel, open a channel, one replay, timeouts, disconnect | a response or none but never two; no second execution of a request that is not idempotent; no channel leaked; no hanging browser |
| Browser WebSocket (`server/ws-proxy.ts`, `client/ws-channel.ts`) | the raw socket, `browserWs`, accept timer, `finished`; at the client `pending`, `upstream`, `accepted`, `finished` | open, authorise, accept, reject, relay, pause, close codes | one answer to the upgrade request; one end closing closes the other, in each phase; a good close comes after every message |
| Upstream HTTP (`client/http-channel.ts`, `authorize.ts`) | queued body, `retried`, `headSent`, `bodyBytesWritten`, compressor, the await of `start` | authorise, send, retry once, stream, compress, cancel, abort | the hook decides before anything is sent; the upstream gets the body, the gateway one response; an end leaves nothing running |
| Browser sessions, select page (`browser-session.ts`, `select-page.ts`) | the map of sessions, snapshot file and its temporary file; the probe's channel and timer; the page's dialog | create, get, expire, persist, restore; submit, probe | a cookie given out survives a crash; the probe's channel is released; a submission ends |
| Flow control (`TunnelLeg`, `Connection`, `TunnelGroup.sendData`/`waitDrain`) | bytes sent, acknowledged and buffered per leg, window, drain poll and its waiters, acknowledgement timer | send, choose a leg, pause, poll, acknowledge, sample | no paused source is forgotten; counters restart with the connection |
| Host switch (`host/connection-manager.ts`) | `client`, `info` | `enable`, `disable`, client events | one client at most; the last call wins; the panel is told the truth |
| Gateway server (`server.ts`) | open sockets, registry | route, upgrade, `close` | after `close` nothing serves |
| Codec, CORS, URLs, command lines, configuration, UI, chaos proxy | none that matters here | | see section 7 |

How they interact:

- Frames go `http-proxy`/`ws-proxy` → `TunnelSession.sendControl/sendData` → a
  leg → the client's `Connection` → `TunnelGroup` → `Client.ingest*` →
  `Resequencer.feed` → channel; and back the same way. In each direction the
  sender numbers frames per channel and the receiver reorders them.
- `tunnel.ts` creates sessions and puts them in the registry; `http-proxy`,
  `ws-proxy` and `select-page` look them up by the id in a browser's cookie or
  wait for one with `waitFor`; a leg's close event tears a session down, and the
  session then calls `onTunnelDown` of every channel, inside the teardown.
- `TunnelGroup` owns the attach connections and listens to the primary's events;
  `ConnectionManager` listens to a client's.

The behaviours that are hard to test, which the properties below are for:
independent FIFO queues whose merge is arbitrary; the client's and the server's
view of the same leg's end; late hellos and closes of an older generation; the
timers of retries and attaches; a replay that begins inside a teardown;
eight callbacks that may finish the same request; awaits in `enable` and in
`start`; sends that throw into a dying tunnel; a process killed between the two
halves of an atomic write; waiters and polls over reconnections. Each is an
entry under `hazards` in `PROJECT.json`.

## 2. Modules

| Module | Models | Role |
|---|---|---|
| `OrderedChannels` | the stream the tunnel promises each channel | abstract specification |
| `StripedTunnel` | one direction of a group: numbering, legs, `Resequencer`, teardown, rebuild | detailed specification, refines `OrderedChannels` |
| `MCStripedTunnel` | | symmetry for TLC |
| `StripedTunnelProofs` | | proofs |
| `TunnelGroup` | life of a group, its sockets, sessions and the registry | |
| `TunnelGroupProofs` | | proofs |
| `BrowserRequest` | browser HTTP requests over tunnels that come and go | |
| `BrowserRequestProofs` | | proofs |
| `ConnectionManager` | the host plugin's switch | |
| `ConnectionManagerProofs` | | proofs |
| `BrowserSocket` | one browser WebSocket, both halves of the relay with the tunnel between them | composition of `ws-proxy.ts` and `ws-channel.ts` |
| `BrowserSocketProofs` | | proofs |
| `UpstreamRequest` | one request at the client, from authorisation to the last frame | |
| `UpstreamRequestProofs` | | proofs |
| `SelectLogin` | the select page, its login probe, the sessions and their snapshot | composition of page, gateway, store and disk |
| `SelectLoginProofs` | | proofs |
| `FlowControl` | back-pressure and acknowledgements over the legs of one tunnel | |
| `FlowControlProofs` | | proofs |

The modules meet at the frames. `StripedTunnel` shows that a channel's frames
come in order while the tunnel lives; `BrowserSocket`, `UpstreamRequest` and
`BrowserRequest` take that for granted and add the tunnel's end, seen by each
side in its own time. `FlowControl` shows that who pauses is resumed, which
`BrowserSocket` takes as fairness. (`striped_withheld`, section 6, is where the
first of these promises is not kept by the code.)

### StripedTunnel

One direction, because the two directions share nothing but the legs' life:
`Side = "server"` is client → gateway, `Side = "client"` the reverse. They
differ in the code and so in the model: the server's receiver (a
`TunnelSession`) is a new object each generation and has its channel in the
table before the first frame can come; the client's receiver lives on, is
cleaned by its teardown, creates the channel on the open frame, and on overflow
kills its legs instead of tearing a session down.

- `nextSeq` is `sendSeq`; `Send` is `sendControl`/`sendData` with the choice of
  a leg (by capacity in the code, any leg here); a leg that is dead but not
  noticed swallows the frame.
- `wire[l]` is the TCP stream of leg `l`, FIFO.
- `Feed` is `Resequencer.feed`, with `FeedOld`, `FeedExpected` (deliver and
  sweep), `FeedAhead` (park) and `FeedOverflow`. `held`, `expected`, `parked`,
  `buffered` are the fields of the map entries. Control frames count no bytes and
  data frames one unit, as far as the limit is concerned.
- The deliver callback that the caller gives to `feed` handles only items of the
  kind (control or data) of the frame that came in; `Fate` says what becomes of
  each item of a sweep. `cut` is the item on which a channel's own handler ends
  the channel, in mid-sweep.
- `LegDown`, `SenderDown` and `ReceiverDown` are separate: each end learns of a
  dead leg in its own time. `Rebuild` is the next generation.
- `n` in a frame, `produced` and `handed` are history the code does not have.

### TunnelGroup

Sockets are records of both ends and the two queues between them; a session is
named after the socket of its primary leg. The client's part is `Connected`,
`AttachReady`, `ReadClose`, `Died`, `AttachTimer`, `RetryTimer`, `AttachTimeout`,
`ForceReconnect` and `Close`; the server's `ReadPrimaryHello`,
`ReadAttachHello`, `ReadFin`, `CloseTimeout`, `HelloTimeout`. `Break` cuts a
connection and loses what is on it; the client notices (heartbeat), the server,
which has none, later or never (`Noticed`, no fairness). Channel frames are left
out; what they do to the group is `Overflow` and `SessionOverflow`.

### BrowserRequest

One record per request with the handler's variables and those of the response.
The operators on a record are the handler's functions (`OpenChannel`, `Finish`,
`Respond`, `TunnelDown`, ...); the actions are the events. The teardown of a
session applies `TunnelDown` to all its channels in the same step, as the code
does; `setImmediate` before `replayUntilRestore` makes `StartReplay` a step of
its own. In `waitFor` every waiter is called in the step that registers the
session.

### ConnectionManager

Each call of `enable` and `disable` is a process that runs from await to await;
a client is named after the `enable` that constructs it and has events of its
own. A call may begin at any time, since the handler of `remote-enable` does not
wait. `overlapped` records that a call began while an `enable` awaited the close
of the old client.

### BrowserSocket

`srv` holds the variables of `handleBrowserWs`, `cli` those of a `WsChannel` and
of the client that routes to it; `down` and `up` are the channel's frames under
way. A WebSocket has the states that its library reports, and a peer that has
begun to close (`leaving`) may have sent messages that are still to be read, so
that close events come late. `Answer`, `Finish` and `FinishWith` are the
functions of `ws-proxy.ts`, `Done`, `Aborted` and `ClosedByPeer` those of
`ws-channel.ts`. Close codes are the classes that `sanitizeCloseCode` tells
apart. `Limit` admits messages at the very edge of the frame limit (section 6).
Frames of a broken tunnel may still be read until an end hears of the break
(`Torn`, `Disconnected`), and then the rest is lost. `AuthSettles` includes that
`start` throws and `openWs` catches.

### UpstreamRequest

`hook` is the closure of `runAuthorization`, `ch` an `HttpChannel`; `reqs` are
the upstream requests it has made, the last one `this.req`. What the gateway
sends is `Body`, `BodyEnd` and `PeerClose`, at any time; the upstream and the
hook speak at any time or never. `TunnelDies` is the window in which a socket is
no longer open and `abortAllChannels` has not yet run: there a send may throw
(`TrySend`). A stale keep-alive socket is `RequestError` before a head;
`MayRetry` is the condition of the retry.

### SelectLogin

A login is one submission and names the uuid it may create. `Persist` splits
into `WriteTmp` and `Rename`, between which the process may be killed or the
call may throw; nothing else runs there, since both calls are synchronous
(`Idle`). `Crash`, `Damage` and `Restart` are the faults; `env.excused` are the
cookies that a damaged file has broken. The clock goes in units of which `TTL`
is two, so that a session expires before, between and after each of the steps.

### FlowControl

Bytes are counted in frames of one size. `side` is who sends: a client with
acknowledgements, a client to a gateway without them, a gateway, and a gateway
that serves a client with a single connection. Each has its own answer of
`sendData` (`MayGoOn`). A frame moves from a leg's buffer (`Written`) over the
wire to the receiver (`Receive`), from there into an acknowledgement
(`FlushTimer`, or `AckEvery` frames) and back (`AckArrives`), which also samples
the rate: the window may be any member of `Windows` after it. `Poll` is a tick of
the drain poll that finds its condition true. A client's primary keeps its poll
and its waiters over a loss (`Down`, `Redialed`); a gateway's legs wake them
(`Closed`).

## 3. Runs

| Run | Distinct states | Shows |
|---|---|---|
| `striped_uplink` | 502,890 | order, accounting, holes, refinement, and the inductive invariant |
| `striped_downlink` | 47,984 | the client's resequencer over generations; arrival |
| `group_safety` | 653,718 | ids, leg budget, one session, latches and timers |
| `group_recovers` | 30,756 | recovery and deregistration (liveness) |
| `request_replay` | 22,775 | replay, timeouts, one head, no hanging browser |
| `manager_calls` | 60,373 | the switch under any order of calls and events |
| `socket_relay` | 190,843 | one answer, complete closes, both halves end together |
| `upstream_request` | 18,288 | authorisation, the body over a retry, one response, nothing left running |
| `select_login` | 937,666 | cookies over crashes, probes released, submissions end |
| `flow_control` | 539,859 | no forgotten waiter, exact counters, no stall |
| `striped_withheld`, `request_gone` | | disagreements, section 6 |

**striped_uplink.** Two channels (interchangeable: symmetry), two legs, three
frames per channel and generation, one parked data frame allowed, and any number
of generations. Two legs are enough for every inversion, three frames for
a gap with two frames behind it of equal or different kinds, a limit of one for
overflow. `HandedInOrder`: what is handed over for a channel is 0, 1, 2, ... of
its producer's order. `NoOldSeq`: the defensive branch `seq < expected` of
`feed` is dead, also across generations. `BufferAccounted`: the byte counter is
the size of what is parked. `HoleInFlight`: while the legs live, what a channel
waits for is on a leg, never already consumed. `ImplementsOrdered`: refinement
of `OrderedChannels`, with `log` read from `handed`. `IInv`: the invariant of
the proof.

**striped_downlink.** One channel, three legs, four frames, two parked. The
receiver now outlives the generation, so that `NoOldSeq` depends on
`abortAllChannels` resetting the Resequencer. `EveryFrameArrives`: under
`FairSpec` an emitted frame is handed over unless its channel ends or the group
breaks.

**group_safety.** Two legs granted of three asked for (so that the clamp of
`connections` and the slot that stays empty occur), any two faults of all seven
kinds in any order, one reconnection attempt (so that giving up occurs), four
sockets at a time. Two faults are needed for a fault during the recovery from
another. `SessionsExclusive`: the registry and the live sessions are inverse to
each other. `LegBudget`, `OneSession`: legs of older generations that join late
neither exceed the limit nor split the group over two sessions. `GenerationInv`:
types, and what belongs to a generation ends with it: each open attach socket is
in its slot (`NoGhostLegs`), `rebuilding` is not set on a group that is up
(`LatchReleased`), an armed retry belongs to an empty slot and the current
generation (`TimersCurrent`).

**group_recovers.** One fault. `Recovers`: the group comes to rest with its
legs in one live session, or closed, or given up. This has an antecedent,
`<>[][~Overtaking]_vars`: without it TLC finds a livelock, in which in each
generation the attach hello of the previous one, whose leg the client has given
up, is read after the new session is registered under the reused id, joins it,
and takes it down when its close follows. It needs the two connections to be
overtaken in every generation; `KeepsComingBack` holds without the antecedent:
the primary is ready again and again. `CloseDeregisters`: after `close` the
registry empties, except for sessions with a leg whose break the server has not
noticed.

**request_replay.** A GET (replayable) and a POST, three sessions of the tunnel:
one lost before the replay, one during it, one after. `ChannelsReleased`,
`SentOnce`, `EndForwarded`, `OneHead` as named; `Answered`: each request gets a
head or loses its browser. `IInv` is the invariant of the proof, and implies
`NoChannelOnCorpse`: no channel is entered in a dead session.

**manager_calls.** Three enables and two disables, at any time.
`ManagerInv` (types, and `OrphanNeedsOverlap`: a client that nobody can close
comes only of overlapping calls), `LastCallWins`, `ToldTrue` and `DisableKills`
are stated for calls that do not begin while an `enable` awaits the close of an
old client (`~overlapped`): calls may come while an `enable` connects, while a
`disable` closes, while a failed connect cleans up. In the excluded window the
first three are false in the code: `manager_orphan.cfg` shows it for the orphan;
a `disable` there is lost as well. `EnableEnds` holds for all calls.

**socket_relay.** One WebSocket, two messages each way (one can be under way
behind another that has been read), with and without the subprotocol being one
that was asked for, with the grace wait; the tunnel breaks once, at any point.
`RelayInv`: the types, which include that no code is given to `ws.close` that it
would throw at and that the client's queue of early messages stays empty; and
`EndsReleased`, no half finishes without disposing of its socket. `OneAnswer`:
accept, reject, error, timeout, disconnect and tunnel loss race for the upgrade
request, one answers. `CloseIsComplete`: a close with the application's own code
comes after every message sent before it. `UpgradeAnswered`, `EndsTogether`: no
browser waits for ever, no half outlives the other, also where no frame says so.

**upstream_request.** Two chunks each way, a hook that decides twice, all kinds
of target, with compression. `ChannelInv`: types; `RetryHarmless`, a second
upstream request only where nothing was written or answered and the method is
idempotent; `OneResponse`, a head, then data, then one end or error.
`BodyFaithful`: the current upstream request has been given exactly what has
come, through queueing, the retry and the flush. `FirstWordStands`: the hook's
first word decides, nothing reaches the upstream before it, nor for a channel
that was aborted while it was awaited. `NothingLeft`: a
channel that is over has ended its requests and its compressor, with the one
exception the definition names (section 6).

**select_login.** Two logins on a page with two computers, a session lifetime of
two clock units of three, any two faults of: killed, tunnel lost, write failed,
file damaged. `CookieHonoured`: from the answer that carries the cookie to its
expiry the session is on disk, and in the map of a running gateway. `LoginInv`:
types, and a probe holds a channel and a timer exactly while it is waited for.
`SubmitEnds`: the page's button comes back.

**flow_control.** Two sources over two legs, one of them attached late; high
water 2, low water 1, an acknowledgement each 2 frames or by its timer, a window
of 3, so that a quarter of the window is less than one frame and less than an
acknowledgement's beat: the tail that would stall. One loss of the group and the
reconnection. `MaxBuf` and `MaxFlight` allow one frame above the limits: what a
full leg is still given; beyond that the model's senders wait. `WaitersInv`: the
window counts exactly what has not been acknowledged, a paused source is a
waiter of a leg that is up and has a poll, a gateway's leg takes its timers with
it. `NoStall`: a paused source is resumed, or another one goes on sending for
ever. With windows that vary between 3 and 4 the run passes as well, but takes
four times as long.

Every property has a mutant: a plausible bug in one mapped definition under
which TLC finds the property violated in the same run. Mutated forms stand
directly before the definitions they replace, each with a comment that starts
with "Mutant".

`CHECK_DEADLOCK FALSE` where the system may really stop: a group that is closed
or has given up, requests that are all answered with no session left, calls that
are all done, a socket or a request that has come to its end, a page nobody uses,
sources that are finished. `StripedTunnel` never stops and is checked for
deadlock.

Bounds: `MaxFrames`, `MaxSockets`, `MaxIds`, `MaxFaults`, `Generations` (the
counter wraps; it is only compared with armed timers of recent generations),
`MaxSessions`, `MaxMsgs`, `MaxChunks`, `MaxData`, `MaxSays`, `MaxTime`,
`MaxLosses`, `MaxWire`, `MaxBuf`, `MaxFlight`. `TTL`, `High`, `Low`, `AckEvery`,
`Windows`, `MaxParked`, `MaxAttach`, `MaxRetries` and `ServerMax` are
parameters of the code with small values.

## 4. Fairness

- `StripedTunnel`: a socket with data is eventually read. Nothing is assumed of
  senders, of legs' deaths or of rebuilds.
- `TunnelGroup`: both event loops get to each socket that has something for
  them, a dial ends, armed timers fire. No fairness for faults, timeouts of
  attach and hello, `Close`, or the server's noticing a broken connection.
- `BrowserRequest`: `setImmediate`, the grace timer and the head timer fire.
  Tunnel, upstream and browser need never do anything.
- `ConnectionManager`: the timers of `Client.close` and `Connection.close` and
  the connect timeout fire.
- `BrowserSocket`: the grace and accept timers, the handling of frames and of
  `close` events, a verdict of the hook (`runAuthorization` has a timeout), the
  resumption of paused sockets (`FlowControl`), and that each end hears of a
  broken tunnel, which TCP or the heartbeat sees to. A WebSocket that has been
  closed and whose peer does not answer, also a paused one, is ended by the
  `ws` library's own close timer. Neither the browser nor the upstream need ever
  do anything.
- `UpstreamRequest` has safety properties only; its specification needs none.
- `SelectLogin`: the gateway gets to the form and to due timers, a synchronous
  write ends, a `fetch` settles. No fairness for the client's answer, for the
  user, for a restart.
- `FlowControl`: the poll's interval and the acknowledgement timer fire, and a
  connection that is up makes progress; one that does not is ended by the
  heartbeat, and with it its waiters. Nothing is assumed of the sources.

All of it is what Node's event loop does: a timer or a readable socket that
stays is served. Each is weak fairness, since nothing disables the step again
and again without either serving it or making it obsolete.

## 5. Proofs

All for any value of the constants that satisfies the named assumptions. Every
invariant, action property and refinement that a passing run checks has a
theorem; liveness has none.

**StripedTunnelProofs** (any channels, legs, frames, parking limit, side):
`InductiveInvariant`, `TypeCorrect`, `DeliveredInOrder` (`HandedInOrder`),
`OldSeqImpossible` (`NoOldSeq`), `BufferAlways` (`BufferAccounted`),
`HoleAlways` (`HoleInFlight`), `Implements` (`ImplementsOrdered`). The first two
safety properties are not inductive: that
what is handed over next has the right place depends on the numbers of all
frames under way. `IInv` says that every frame not yet handed over is in exactly
one place (once on one leg or parked once: `WireUnique`, `ParkedUnique`), that
it carries its true place as its `seq` (`Numbering`, `Fresh`), and that an entry
expects the frame after the last one handed over, or 0 after it was dropped, in
which case no frame 0 is left (`Expecting`). The sweep is not recursive in the
model: its end `e` is characterised by what is parked (`SweepEnd`), and
`RunInOrder`/`LogInOrder` show that the items `CHOOSE` picks are those in
sequence. Then one lemma per action, `Feed` split by its four branches.

The byte count of `BufferAccounted` follows the parked set through park, sweep
and drop. `HoleInFlight` speaks of the next frame only, and a sweep makes a later
one the next; what is inductive (`NoneMissing`) is that, while nothing has broken
the stream (`Unbroken`), *every* frame after the last one handed over is under
way or parked (`Whole`), that the frame an entry expects is never the one it has
parked, and that a client's channel exists only once its first frame was handed
over. `Implements` maps `Send` to `Produce` of `OrderedChannels`, a sweep to
`Hand`, `Rebuild` to `Restart`, and every other step to a stutter.

**TunnelGroupProofs** (any number of connections, sockets, ids, retries and
faults): `SessionsAlways` (`SessionsExclusive`), `LegBudgetAlways` (`LegBudget`),
`OneSessionAlways` (`OneSession`), `GenerationAlways` (`GenerationInv`), over
`IInvAlways`. None of the four is inductive. `OneSession` follows from what the
gateway knows of a tunnel's id and what the client knows of it, and `IInv` says
both: `AllGood`, what one socket may hold (an unread hello is the first message,
and until it is read there is no session, no acknowledgement, nothing ready);
`ServerSide`, a session is that of its primary's socket and registered under its
id, acknowledgements carry that id, an attach leg belongs to the session it asked
for, and no session has more legs than negotiated; `ClientSide`, attach legs and
armed retries belong to a primary that is ready, and nothing else is open;
`SameId`, the primary's session has the id that the client knows. Most steps
only let sockets *fade* (`Fades`, `AllFade`): they lose messages, sessions,
readiness and gain none of these. So each operator on the table of sockets
(`Swept`, `ClientEnds`, `ServerCloses`, `ServerEnds`, `Terminate`) has one lemma
that it fades, and one that fading keeps the invariant. The rest are the dials
of unused sockets and the two hellos. `Ranks` and `Places` show that the sockets
`CHOOSE` gives to the empty slots exist and are distinct, by counting the unused
sockets below each.

**BrowserRequestProofs** (any requests, any number of sessions): `Inductive`,
`TypeCorrect`, `ChannelsLive` (`NoChannelOnCorpse`, which no run checks by itself
since it is a part of `IInv`), `FinishedReleased`
(`ChannelsReleased`), `AtMostOnce` (`SentOnce`), `EndReaches` (`EndForwarded`),
`HeadOnce` (`OneHead`). Requests do not touch each other, so the invariant is
about one request: `Good` says where a channel, a timer or a second opening may
exist at all (`ChannelGood`, `WaitingGood`, `CountsGood`). It is needed because
`NoChannelOnCorpse` alone is not kept by a replay: that a suspended request has
written no head and been opened once follows only from how it got there. The
predicates `Opened`, `Closed`, `Suspended` and `Same` state what the operators
do to the fields; the rest of the proof uses only them.

**SelectLoginProofs** (any submissions, computers, lifetime, number of faults):
`LoginAlways` (`LoginInv`) and `CookieAlways` (`CookieHonoured`). The second is
not inductive: between `WriteTmp` and `Rename` the promises depend on what is
about to replace the file. `SnapshotGood` says that the snapshot being written
holds every cookie that is out, and the session it will be answered for, which
the map holds too; `DamagedEmpty` says what a restart reads of a damaged file.
The steps that matter are `HeadArrives` and `Visit` (the snapshot is taken of a
map that holds every promise), `Rename` (one promise more, and the file holds
it) and `Restart` (only what has expired is dropped). One lemma per action or
group of actions with one argument; `ReplyFields` and `LoginFields` say what a
reply changes.

**FlowControlProofs** (any number of legs and producers, any watermarks,
windows, beat of the acknowledgements): `WaitersAlways` (`WaitersInv`). The
invariant is about one leg (`LegGood`): its window counts what is in the
buffer, on the wire, received and under way as an acknowledgement, its waiters
have a poll, and a gateway's leg that is down is as it was made. `PausedWait`
ties every paused producer to a leg that is up. Each operator on a leg has a
lemma (`SentGood`, `WaitsGood`, `ReceivedGood`, `AckedGood`, ...); the actions
follow from them. `PickedReady` shows that the leg `CHOOSE` picks exists, by two
least numbers (`LeastNat`, from the library's `WFMin`).

**ConnectionManagerProofs** (any number of calls): `ManagerAlways`
(`ManagerInv`), `LastCallAlways` (`LastCallWins`), `ToldAlways` (`ToldTrue`),
over `IInvAlways`. `Lifecycle` says how far a client can be with its call where
it is, and needs no condition. As long as no call has overlapped (`Apart`), the
one `enable` that may be replacing a client is the last call (`OneReplaces`),
and `this.client` is being closed by nobody but its own `enable`, after it has
died (`Owned`). The excluded window is the one of `manager_orphan.cfg`, and the
theorems have the same condition as the properties.

**UpstreamRequestProofs** (any number of chunks, any hook): `ChannelAlways`
(`ChannelInv`), `BodyAlways` (`BodyFaithful`), `NothingLeftAlways`
(`NothingLeft`), `FirstWordAlways` (`FirstWordStands`, an action property), over
`IInvAlways`. The properties count frames and compare concatenated bodies, which
says nothing of the step that comes next; the invariant says, phase by phase,
which requests exist and in which state (`Requests`), where what the gateway has
sent now is (`Fed`: the queue, or the current request, from its first chunk),
and what the response looks like so far (`Answered`). The properties are read
from it at the end, `CountAnswer` doing the counting.

**BrowserSocketProofs** (any number of messages each way, with and without the
grace wait): `RelayAlways` (`RelayInv`), `OneAnswerAlways` (`OneAnswer`),
`CloseAlways` (`CloseIsComplete`), over `IInvAlways`. `Handler` and `Channel` are
about one half each, `Joint` about where one half can be for a given place of the
other, and `Downlink` and `Uplink` say of each frame on the way what it tells of
both. `CloseIsComplete` needs the last two: whether a close has every message
before it depends on the numbers of those on the way, which are the positions
they were sent at as long as nothing has been lost.

Only model-checked is liveness under fairness (`EveryFrameArrives`, `Recovers`,
`KeepsComingBack`, `CloseDeregisters`, `Answered`, `EnableEnds`, `DisableKills`,
`UpgradeAnswered`, `EndsTogether`, `SubmitEnds`, `NoStall`), which with ENABLED
is beyond the prover. No module uses a RECURSIVE operator. `IInv` of
`StripedTunnel` and of `BrowserRequest` are also invariants of runs; those of the
other components are defined beside their proofs.

## 6. Where the code and its documentation disagree

Two are runs, each of which violates one property; `findings` has the
quotations.

- `striped_withheld`: a parked frame of the other kind than the frame that
  completes the sequence is swept out and dropped silently (`session.ts:268`).
  A tunnel with one leg is not affected.
- `request_gone`: a browser that leaves between the teardown and the start of
  the replay is not noticed; its request is sent again (`http-proxy.ts:214`).

Seven more are reproduced by configurations kept beside the runs, each with one
property that TLC finds violated (`tlc -config <name>.cfg <module>.tla`).

- `striped_leftover.cfg` (`StripedTunnel`): a frame in flight when its channel
  ends makes a new resequencing entry that stays (`resequencer.ts:43`).
- `group_attach_timeout.cfg` (`TunnelGroup`): an attach that times out at the
  client after the server has accepted it does take the group down
  (`tunnel.ts:245`).
- `group_id.cfg` (`TunnelGroup`): a rebuilt group whose hello comes before the
  close of its old primary gets another id (`tunnel.ts:83`).
- `manager_orphan.cfg` (`ConnectionManager`): two overlapping `enable` calls
  leave a client nobody can close (`connection-manager.ts:57`).
- `socket_codes.cfg` (`BrowserSocket`): a browser is closed with 1000 although
  the upstream left with a code of its own, against "任一侧关闭 →
  透传关闭码/原因" of the gateway's design document, section 7.2.
- `socket_limit.cfg` (`BrowserSocket`): a message from the upstream is tested
  against the frame limit before the group adds the `seq` to its header
  (`ws-channel.ts:108`, `tunnel-group.ts:122`). In the last few bytes below the
  limit `encodeData` throws, the channel is aborted, and no `channel.close` is
  sent: the browser's half stays open, against the client's design document
  (section 4.2), which ends both with 1009. The gateway has the same test
  (`ws-proxy.ts:231`, `session.ts:245`), and there nothing catches the exception.
- `login_dialog.cfg` (`SelectLogin`): `openDialog` clears the last error
  (`select-page.ts:114`), but an answer to the submission before it is still
  awaited and is shown in the dialog of another computer (`:167`).

Seen while modelling, and not the subject of a configuration:

- An upstream that answers in full before the request body has ended finishes
  the channel without destroying its request; the end of the body is dropped
  when it comes, and the upstream's socket stays taken until it times out
  (`http-channel.ts:252`, `:193`). `NothingLeft` names the case.
- A group sends a frame also when all its legs are full, to the first of them
  (`tunnel-group.ts:117`), so that what is in flight on it can exceed its window
  by a frame per source and refill; the client's design document says that the
  window bounds it. The window's size there (2 MiB) is also older than the
  adaptive one of the code.
- A paused source is resumed when one leg has drained to a quarter of its window;
  a source that is not paused may keep all legs above that. `NoStall` therefore
  speaks of tunnels in which nobody sends for ever.
- The drain poll of an attach connection that has been given up with more than a
  quarter of its window in flight goes on for ever, since no acknowledgement will
  come and no new attempt resets the counters (`connection.ts:738`; the comment
  at `:731` says that it stops when nobody waits).

## 7. Not modelled

Not yet, see the plan: the gateway's shutdown of sockets before their hello,
back-off and heartbeat (whether a silence is real depends on clock values), the
bad-frame budget, the single-connection mode (its frames carry no `seq`, its
stream is TCP's; only its back-pressure is in `FlowControl`), registry listing,
the configuration handlers and the panel of the host plugin.

Not at all: the frame codec, CORS and header rewriting, URLs, pages, logging,
command lines, YAML configuration and the UI (pure functions, input and output:
unit tests reach them), and the chaos proxy (a test tool; its effects are
`Break` and `LegDown`).

Abstractions to keep in mind. Payloads are sizes, numbers or nothing. Time is
modelled only where a session expires: elsewhere a timer that is armed may fire
at once or late. In `FlowControl` all frames have one size and acknowledgements
under way arrive together, and the sampled rate is any member of `Windows`. In
`SelectLogin` a login has one page; requests of the browser that come with a
cookie are `Visit`. In `StripedTunnel`
`ws.send` does not fail once a leg is chosen. In `BrowserRequest` the browsers'
connections are destroyed at shutdown by later `BrowserGone` steps rather than
in the same turn, and `Grace = FALSE` is covered by the proofs but by no run. In
`TunnelGroup` the third branch of `AttachClosed` for a group that is closing is
defensive code that no state reaches.

## 8. Plan

Done: `StripedTunnel` and `TunnelGroup` first, as everything rests on them, then
`BrowserRequest` and `ConnectionManager`, where the races are densest; then the
other ends of the channels (`UpstreamRequest`, `BrowserSocket`), the login with
its snapshot (`SelectLogin`), and `FlowControl`.

Left to model, in the order of use: `GatewayShutdown` (`server.close` against
sockets at every stage, composed with the session part of `TunnelGroup`);
`Connection` on its own (reconnection, connect timeout, heartbeat), shown to
implement what `TunnelGroup` assumes of its primary; the panel with the host's
configuration calls.

Proofs: done for every invariant, action property and refinement of the passing
runs. Left: that a group which is closed or has given up stays so, that a
`disable` which has ended leaves no client alive, and that a session which is
closed never comes back (the safety halves of `Recovers`, `DisableKills` and
`CloseDeregisters`), each from the invariant that is there; then the refinement
of the primary by `Connection`, once it is modelled, in `TunnelGroupProofs`.

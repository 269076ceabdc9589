---------------------------- MODULE BrowserRequest ----------------------------
(***************************************************************************)
(* Browser HTTP requests at the gateway while their tunnel goes and comes  *)
(* back: handleBrowserHttp (server/src/http-proxy.ts) with the grace wait  *)
(* for a tunnel that is down, the one replay of an idempotent request, the *)
(* head timeout and the browser's own disconnect, against the waiters of   *)
(* TunnelRegistry and the channel table of TunnelSession (session.ts) and  *)
(* the gateway's shutdown (server.ts).                                     *)
(*                                                                         *)
(* All requests belong to one tunnel id.  Its sessions are numbered; the   *)
(* registry holds the newest or none.  An event handler runs to its end,   *)
(* and with it every promise continuation it has resolved, before the next *)
(* event; setImmediate is a step of its own.                               *)
(***************************************************************************)
EXTENDS Integers, FiniteSets

CONSTANTS
  Requests,
  Replayable,   \* those without a body and with an idempotent method
  Grace,        \* tunnelRestoreGraceMs > 0
  MaxSessions   \* bound: sessions of the tunnel

ASSUME ReplayableAssumption == Replayable \subseteq Requests
ASSUME GraceAssumption == Grace \in BOOLEAN
ASSUME MaxSessionsAssumption == MaxSessions \in Nat

VARIABLES
  registered,   \* the session in the registry, 0 if there is none
  sessions,     \* how many there have been
  waiters,      \* attachWaiters
  shut,         \* server.close was called
  req           \* the requests, see Request

vars == <<registered, sessions, waiters, shut, req>>

\* pc: "waiting" for the tunnel at the entry, "running" once a channel was
\* opened, "suspended" until replayUntilRestore starts, "restoring" in its
\* wait, "offline" if it ended before any channel.
\* active, finished, replayed, timer (headTimer), head (headAt) and bodyEnded
\* are the handler's variables; ended and gone the response's writableEnded
\* and destroyed.  chan: the session whose channel table has the request.
\* History: opens (http.open sent), heads (response heads written), endSent
\* (http.body.end sent on the active channel).
Request == [pc : {"idle", "waiting", "running", "suspended", "restoring", "offline"},
            active : 0..MaxSessions, chan : 0..MaxSessions,
            finished : BOOLEAN, replayed : BOOLEAN, timer : BOOLEAN,
            head : BOOLEAN, bodyEnded : BOOLEAN, ended : BOOLEAN, gone : BOOLEAN,
            opens : 0..2, heads : 0..1, endSent : 0..1]

Fresh == [pc |-> "idle", active |-> 0, chan |-> 0, finished |-> FALSE,
          replayed |-> FALSE, timer |-> FALSE, head |-> FALSE,
          bodyEnded |-> FALSE, ended |-> FALSE, gone |-> FALSE,
          opens |-> 0, heads |-> 0, endSent |-> 0]

-----------------------------------------------------------------------------
\* What the handler does with one request q.

\* Mutant: a replay leaves the head timer off.
OpenChannelUntimed(q, s, isReplay) ==
  [q EXCEPT !.pc = "running", !.active = s, !.chan = s, !.opens = @ + 1,
            !.endSent = IF isReplay /\ q.bodyEnded THEN 1 ELSE 0,
            !.timer = ~isReplay]

\* Mutant: a replay does not send the http.body.end again.
OpenChannelEndless(q, s, isReplay) ==
  [q EXCEPT !.pc = "running", !.active = s, !.chan = s, !.opens = @ + 1,
            !.endSent = 0, !.timer = TRUE]

\* openChannel on session s.
OpenChannel(q, s, isReplay) ==
  [q EXCEPT !.pc = "running", !.active = s, !.chan = s, !.opens = @ + 1,
            !.endSent = IF isReplay /\ q.bodyEnded THEN 1 ELSE 0,
            !.timer = TRUE]

\* Mutant: the channel stays in the session's table.
FinishRegistered(q) == [q EXCEPT !.finished = TRUE, !.timer = FALSE]

\* finish: the first call unregisters the channel.
Finish(q) ==
  [q EXCEPT !.finished = TRUE, !.timer = FALSE,
            !.chan = IF @ = q.active THEN 0 ELSE @]

\* A response that is written (unless its head is out already) and ended.
Respond(q) == [Finish(q) EXCEPT !.heads = 1, !.ended = TRUE]

\* 502 'tunnel offline', or nothing if the browser has left.
Offline(q) == [q EXCEPT !.pc = "offline", !.ended = ~q.gone,
                        !.heads = IF q.gone THEN @ ELSE 1]

\* Mutant: a request may be replayed after its head was written.
NoReplayBlind(q, r) == q.replayed \/ r \notin Replayable \/ ~Grace \/ q.gone

\* Mutant: a request is replayed whatever its method.
NoReplayAnyMethod(q, r) == q.replayed \/ ~Grace \/ q.head \/ q.gone

\* Mutant: a replayed request is replayed again.
NoReplayRepeated(q, r) == r \notin Replayable \/ ~Grace \/ q.head \/ q.gone

NoReplay(q, r) ==
  q.replayed \/ r \notin Replayable \/ ~Grace \/ q.head \/ q.gone

\* Mutant: the wait starts inside the teardown, where the registry still has
\* the dying session.
TunnelDownAtOnce(q, r) ==
  IF NoReplay(q, r) THEN Respond(q)
  ELSE OpenChannel([q EXCEPT !.replayed = TRUE], q.active, TRUE)

\* Mutant: the dead channel's head timer goes on during the wait.
TunnelDownTimed(q, r) ==
  IF NoReplay(q, r) THEN Respond(q)
  ELSE [q EXCEPT !.replayed = TRUE, !.pc = "suspended"]

\* onActiveTunnelDown
TunnelDown(q, r) ==
  IF NoReplay(q, r) THEN Respond(q)
  ELSE [q EXCEPT !.replayed = TRUE, !.timer = FALSE, !.pc = "suspended"]

\* waitFor resolved to session s.
Restored(q, s) ==
  CASE q.pc = "waiting"   -> OpenChannel(q, s, FALSE)
    [] q.pc = "restoring" -> OpenChannel(q, s, TRUE)
    [] OTHER              -> q

\* waitFor resolved to null, by its timer or by the shutdown.
NotRestored(q) ==
  CASE q.pc = "waiting"   -> Offline(q)
    [] q.pc = "restoring" -> IF q.gone THEN Finish([q EXCEPT !.pc = "running"])
                                       ELSE Respond([q EXCEPT !.pc = "running"])
    [] OTHER              -> q

-----------------------------------------------------------------------------
Init ==
  /\ registered = 0 /\ sessions = 0 /\ waiters = {} /\ shut = FALSE
  /\ req = [r \in Requests |-> Fresh]

\* A request with a valid cookie comes in.
Arrive(r) ==
  /\ ~shut /\ req[r].pc = "idle"
  /\ req' = [req EXCEPT ![r] =
       IF registered # 0 THEN OpenChannel(@, registered, FALSE)
       ELSE IF Grace THEN [@ EXCEPT !.pc = "waiting"] ELSE Offline(@)]
  /\ waiters' = IF registered = 0 /\ Grace THEN waiters \cup {r} ELSE waiters
  /\ UNCHANGED <<registered, sessions, shut>>

\* registry.set of a new session: every waiter goes on.
Register ==
  /\ ~shut /\ registered = 0 /\ sessions < MaxSessions
  /\ sessions' = sessions + 1
  /\ registered' = sessions + 1
  /\ req' = [r \in Requests |->
       IF r \in waiters THEN Restored(req[r], sessions + 1) ELSE req[r]]
  /\ waiters' = {}
  /\ UNCHANGED shut

\* The channels of session s, with its teardown done.
TornDown(s, q, r) ==
  IF q.chan = s /\ s # 0 THEN TunnelDown([q EXCEPT !.chan = 0], r) ELSE q

Teardown ==
  /\ registered # 0
  /\ registered' = 0
  /\ req' = [r \in Requests |-> TornDown(registered, req[r], r)]
  /\ UNCHANGED <<sessions, waiters, shut>>

\* replayUntilRestore begins, after the teardown.
StartReplay(r) ==
  /\ req[r].pc = "suspended"
  /\ IF registered # 0
     THEN /\ req' = [req EXCEPT ![r] = OpenChannel(@, registered, TRUE)]
          /\ UNCHANGED waiters
     ELSE /\ req' = [req EXCEPT ![r].pc = "restoring"]
          /\ waiters' = waiters \cup {r}
  /\ UNCHANGED <<registered, sessions, shut>>

GraceTimeout(r) ==
  /\ r \in waiters
  /\ waiters' = waiters \ {r}
  /\ req' = [req EXCEPT ![r] = NotRestored(@)]
  /\ UNCHANGED <<registered, sessions, shut>>

HeadTimeout(r) ==
  /\ req[r].timer
  /\ req' = [req EXCEPT ![r] = Respond(@)]
  /\ UNCHANGED <<registered, sessions, waiters, shut>>

\* http.head
Head(r) ==
  /\ req[r].chan # 0 /\ ~req[r].head
  /\ req' = [req EXCEPT ![r].timer = FALSE, ![r].head = TRUE, ![r].heads = @ + 1]
  /\ UNCHANGED <<registered, sessions, waiters, shut>>

\* http.body.end after the head; channel.close and channel.error at any time.
UpstreamEnds(r) ==
  /\ req[r].chan # 0
  /\ req' = [req EXCEPT ![r] = Respond(@)]
  /\ UNCHANGED <<registered, sessions, waiters, shut>>

\* The browser's request body ends; http.body.end goes to the active channel,
\* into the void if its session is down.
RequestEnds(r) ==
  /\ req[r].opens > 0 /\ ~req[r].bodyEnded
  /\ req' = [req EXCEPT ![r].bodyEnded = TRUE,
                        ![r].endSent = IF req[r].finished THEN @ ELSE @ + 1]
  /\ UNCHANGED <<registered, sessions, waiters, shut>>

\* The browser disconnects.  Between the teardown and the start of the replay
\* nobody listens.
BrowserGone(r) ==
  /\ req[r].pc # "idle" /\ ~req[r].gone /\ ~req[r].ended
  /\ LET q == [req[r] EXCEPT !.gone = TRUE]
     IN req' = [req EXCEPT ![r] =
          CASE q.pc \in {"waiting", "restoring"}   -> NotRestored(q)
            [] q.pc = "running" /\ ~q.finished     -> Finish(q)
            [] OTHER                               -> q]
  /\ UNCHANGED <<registered, sessions, waiters, shut>>

\* server.close: the waiters are failed, the session is torn down, and the
\* browsers' connections are destroyed (BrowserGone follows).
Shutdown ==
  /\ ~shut
  /\ shut' = TRUE
  /\ registered' = 0
  /\ waiters' = {}
  /\ req' = [r \in Requests |->
       TornDown(registered, IF r \in waiters THEN NotRestored(req[r]) ELSE req[r], r)]
  /\ UNCHANGED sessions

Next ==
  \/ Register \/ Teardown \/ Shutdown
  \/ \E r \in Requests :
       \/ Arrive(r) \/ StartReplay(r) \/ GraceTimeout(r) \/ HeadTimeout(r)
       \/ Head(r) \/ UpstreamEnds(r) \/ RequestEnds(r) \/ BrowserGone(r)

Spec == Init /\ [][Next]_vars

\* setImmediate and the two timers fire; tunnel, upstream and browser need
\* not do anything.
FairSpec ==
  /\ Spec
  /\ \A r \in Requests : /\ WF_vars(StartReplay(r))
                         /\ WF_vars(GraceTimeout(r))
                         /\ WF_vars(HeadTimeout(r))

-----------------------------------------------------------------------------
TypeOK ==
  /\ registered \in 0..MaxSessions /\ sessions \in 0..MaxSessions
  /\ waiters \subseteq Requests /\ shut \in BOOLEAN
  /\ req \in [Requests -> Request]

\* No channel is entered in a session that is down (http-proxy.ts:206-208:
\* "the replay channel registered on a corpse, its head never comes").
NoChannelOnCorpse ==
  \A r \in Requests : req[r].chan # 0 => req[r].chan = registered

\* A finished request holds no channel, also not the one of its replay.
ChannelsReleased == \A r \in Requests : req[r].finished => req[r].chan = 0

\* The upstream sees a request that is not idempotent at most once and any
\* request at most twice (that a second time comes only before a head is
\* OneHead).
SentOnce ==
  \A r \in Requests : req[r].opens <= (IF r \in Replayable THEN 2 ELSE 1)

\* The response has one head, whatever the replay, the timeouts and the
\* errors of either channel do.
OneHead == [][\A r \in Requests :
  req[r].heads = 1 => /\ req'[r].heads = 1
                      /\ req'[r].opens = req[r].opens]_vars

\* A channel whose request body has ended was told so exactly once, also one
\* opened after the end: without it the upstream request never completes.
EndForwarded ==
  \A r \in Requests :
    req[r].chan # 0 => req[r].endSent = IF req[r].bodyEnded THEN 1 ELSE 0

-----------------------------------------------------------------------------
\* The inductive invariant behind the safety properties: what is true of one
\* request q for r while session reg is registered.

\* A channel is that of a running, unfinished request in the live session.
ChannelGood(q, reg) ==
  q.chan # 0 => /\ q.chan = reg /\ q.active = q.chan
                /\ q.pc = "running" /\ ~q.finished
                /\ q.heads = 1 <=> q.head
                /\ q.endSent = IF q.bodyEnded THEN 1 ELSE 0

\* A request that waits has written nothing and may still open a channel.
WaitingGood(q) ==
  q.pc \in {"idle", "waiting", "suspended", "restoring"}
    => ~q.finished /\ ~q.head /\ q.heads = 0

\* The second channel is the replay's.
CountsGood(q, r) ==
  /\ q.pc \in {"idle", "waiting", "offline"} => q.opens = 0
  /\ q.pc \in {"suspended", "restoring"} => q.replayed /\ q.opens = 1
  /\ q.opens = 0 => q.pc # "running" /\ ~q.bodyEnded /\ ~q.replayed
  /\ q.replayed => r \in Replayable
  /\ ~q.replayed => q.opens <= 1
  /\ ~q.bodyEnded => q.endSent = 0

Good(q, r, reg) ==
  /\ q \in Request
  /\ q.timer => q.chan # 0 /\ ~q.head
  /\ ChannelGood(q, reg)
  /\ WaitingGood(q)
  /\ CountsGood(q, r)

\* Every request is in order, of whichever generation its channel is.
IInv == TypeOK /\ \A r \in Requests : Good(req[r], r, registered)

-----------------------------------------------------------------------------
\* No request hangs: unless its browser leaves, it gets a response or at
\* least a head (a response under way has no total timeout).
Answered ==
  \A r \in Requests :
    req[r].pc # "idle" ~> (req[r].heads = 1 \/ req[r].gone)

\* http-proxy.ts:5: a browser that disconnects cancels its channel.
GoneCancelled == \A r \in Requests : req[r].gone => req[r].chan = 0
=============================================================================

----------------------------- MODULE TunnelGroup -----------------------------
(***************************************************************************)
(* The life of a tunnel group and of its sessions: the client's            *)
(* TunnelGroup with its primary Connection and one attach Connection per   *)
(* slot (client/src/tunnel-group.ts, connection.ts), the gateway's tunnel  *)
(* endpoint (server/src/tunnel.ts) and its TunnelRegistry of TunnelSessions *)
(* (session.ts), and the WebSockets between them.  The client asked for    *)
(* Connections >= 2 connections, so every tunnel is striped.               *)
(*                                                                         *)
(* A socket is a WebSocket with both its ends and what travels on it.  A   *)
(* TunnelSession is named by the socket of its primary leg.  Channel       *)
(* frames are left out (StripedTunnel has them); what they do to the group *)
(* is Overflow and SessionOverflow.                                        *)
(***************************************************************************)
EXTENDS Integers, Sequences, FiniteSets

CONSTANTS
  Connections,  \* opts.connections of the client, primary included
  ServerMax,    \* MAX_LEGS_PER_TUNNEL
  MaxAttach,    \* MAX_ATTACH_ATTEMPTS
  MaxRetries,   \* reconnect.maxRetries of the primary
  MaxSockets,   \* bound: sockets in existence at a time
  MaxIds,       \* bound: tunnel ids in use or remembered at a time
  FaultKinds,   \* the kinds of fault, timeout and overflow that may happen
  MaxFaults,    \* bound: how many happen
  Generations   \* bound: the generation counter wraps (it is only compared)

ASSUME ConnectionsAssumption == Connections \in Nat /\ Connections >= 2
ASSUME ServerMaxAssumption == ServerMax \in Nat /\ ServerMax >= 1
ASSUME AttemptsAssumption == MaxAttach \in Nat \ {0} /\ MaxRetries \in Nat
ASSUME FaultsAssumption ==
  FaultKinds \subseteq {"hello timeout", "session overflow", "dial", "break",
                        "attach timeout", "connect timeout", "overflow"}
ASSUME BoundsAssumption ==
  MaxSockets \in Nat \ {0} /\ MaxIds \in Nat \ {0} /\ MaxFaults \in Nat
  /\ Generations \in Nat \ {0}

Sockets   == 1..MaxSockets
TunnelIds == 1..MaxIds
None      == 0                           \* no socket, no id: null, undefined
Slots     == 0..(Connections - 2)        \* slots of attachLegs
MaxLegs   == IF Connections < ServerMax THEN Connections ELSE ServerMax
Spawned   == 0..(MaxLegs - 2)            \* slots spawnAttachLegs fills

VARIABLES
  sock,         \* the sockets, see Socket
  session,      \* session[s]: tunnelId of the live TunnelSession whose primary
                \* leg is s, None if there is none (or it is down)
  registry,     \* TunnelRegistry.tunnels
  primary,      \* the primary Connection: its ws, the pending reconnect timer,
                \* attempts, whether connect() is pending, whether it gave up
  lastId,       \* its lastTunnelId
  disconnected, rebuilding, generation, closing,   \* of TunnelGroup
  slot,         \* attachLegs: the socket of each slot's Connection
  attempt,      \* attemptNo of that Connection, or of the armed retry
  timer,        \* attachTimers: generation and tunnelId the retry was armed with
  faults        \* how many faults have happened

groupVars == <<disconnected, rebuilding, generation, closing>>
slotVars  == <<slot, attempt, timer>>
client    == <<primary, lastId, groupVars, slotVars>>
server    == <<session, registry>>
vars      == <<sock, server, client, faults>>

Unarmed == [gen |-> None, tid |-> None]

Message == [type : {"hello", "fin", "refusal", "cut"}, tid : {None}]
           \cup [type : {"ack"}, tid : TunnelIds]
Msg(t) == [type |-> t, tid |-> None]

\* role and want are what the client's hello declares (want: the tunnelId it
\* brings).  cli: "dialing" until open, "hello" once it is sent, "ready" after
\* hello.ack, "dying" between terminate() and the close event.  srv:
\* "prehello", "joined" (a leg of session sess), "closing" after ws.close().
Socket == [role : {"none", "primary", "attach"},
           want : TunnelIds \cup {None},
           cli : {"closed", "dialing", "hello", "ready", "dying"},
           srv : {"closed", "prehello", "joined", "closing"},
           sess : Sockets \cup {None},
           up : Seq(Message), down : Seq(Message)]

Blank == [role |-> "none", want |-> None, cli |-> "closed", srv |-> "closed",
          sess |-> None, up |-> <<>>, down |-> <<>>]

Dial(role, tid) == [Blank EXCEPT !.role = role, !.want = tid, !.cli = "dialing"]

Attached == {slot[i] : i \in Slots} \ {None}
LegsOf(s) == {c \in Sockets : sock[c].sess = s}

-----------------------------------------------------------------------------
\* The two ends of a socket.  S is a function like sock.

\* The connection is broken and the server has not noticed.
Cut(S, c) == S[c].up = <<Msg("cut")>>

\* A socket closed at both ends is forgotten.
Swept(S) == [c \in Sockets |-> IF S[c].cli = "closed" /\ S[c].srv = "closed"
                                THEN Blank ELSE S[c]]

\* The client's end is closed (close(), or its close event); the server's end
\* will learn of it.
ClientEnds(S, C) ==
  Swept([c \in Sockets |->
    IF c \notin C \/ S[c].cli = "closed" THEN S[c]
    ELSE [S[c] EXCEPT !.cli = "closed", !.down = <<>>,
            !.up = IF S[c].srv = "closed" \/ Cut(S, c)
                      \/ Msg("fin") \in {@[i] : i \in DOMAIN @}
                   THEN @ ELSE Append(@, Msg("fin"))]])

\* The server has called ws.close with a code the client acts on, or not.
ServerCloses(S, C, m) ==
  [c \in Sockets |->
    IF c \notin C \/ S[c].srv \notin {"prehello", "joined"} THEN S[c]
    ELSE [S[c] EXCEPT !.srv = "closing",
            !.down = IF S[c].cli = "closed" THEN @ ELSE Append(@, Msg(m))]]

\* The server's close event.
ServerEnds(S, c) ==
  Swept([S EXCEPT ![c].srv = "closed", ![c].sess = None, ![c].up = <<>>,
           ![c].down = IF S[c].srv = "closing" \/ S[c].cli = "closed"
                       THEN @ ELSE Append(@, Msg("fin"))])

Lowest(T) == CHOOSE x \in T : \A y \in T : x <= y

FreeSockets(S) ==
  {c \in Sockets : S[c] = Blank /\ session[c] = None
                   /\ \A d \in Sockets : S[d].sess # c}

\* randomUUID(): an id nobody holds or remembers.
FreshIds ==
  {t \in TunnelIds :
     /\ registry[t] = None /\ t # lastId
     /\ \A c \in Sockets : /\ sock[c].want # t
                           /\ \A i \in DOMAIN sock[c].down : sock[c].down[i].tid # t
     /\ \A i \in Slots : timer[i].tid # t}

Fault(kind) ==
  kind \in FaultKinds /\ faults < MaxFaults /\ faults' = faults + 1

-----------------------------------------------------------------------------
\* The server's session.

\* Mutant: the legs are left open.
TeardownLeavesLegs(S, s) ==
  /\ sock' = S
  /\ session' = [session EXCEPT ![s] = None]
  /\ registry' = [registry EXCEPT ![session[s]] = None]

\* Mutant: onDown is not called.
TeardownKeepsRegistration(S, s) ==
  /\ sock' = Swept(ServerCloses(S, {c \in Sockets : S[c].sess = s}, "fin"))
  /\ session' = [session EXCEPT ![s] = None]
  /\ UNCHANGED registry

\* A second teardown does nothing.  The first closes every leg and takes the
\* session out of the registry if it is the one registered.
Teardown(S, s) ==
  /\ sock' = Swept(ServerCloses(S, {c \in Sockets : S[c].sess = s}, "fin"))
  /\ session' = [session EXCEPT ![s] = None]
  /\ registry' = [t \in TunnelIds |->
       IF t = session[s] /\ registry[t] = s THEN None ELSE registry[t]]

\* Mutant: the requested id is taken although another tunnel holds it.
AssignableAlways(want) == IF want # None THEN {want} ELSE FreshIds

\* resolveTunnelId
Assignable(want) ==
  IF want # None /\ registry[want] = None THEN {want} ELSE FreshIds

\* Mutant: off by one.
HasRoomOffByOne(s) == Cardinality(LegsOf(s)) <= MaxLegs

HasRoom(s) == Cardinality(LegsOf(s)) < MaxLegs

Read(c) == [sock EXCEPT ![c].up = Tail(@)]

\* The first message of a socket is a hello, also one that comes after the
\* server has called ws.close (hello timeout) and before the close event.
ReadPrimaryHello(c) ==
  /\ sock[c].up # <<>> /\ Head(sock[c].up).type = "hello"
  /\ sock[c].role = "primary" /\ sock[c].sess = None
  /\ \E t \in {u \in TunnelIds : u \in Assignable(sock[c].want)
                                 /\ \A v \in Assignable(sock[c].want) : u <= v} :
       /\ session' = [session EXCEPT ![c] = t]
       /\ registry' = [registry EXCEPT ![t] = c]
       /\ sock' = [Read(c) EXCEPT
            ![c].sess = c,
            ![c].srv = IF @ = "prehello" THEN "joined" ELSE @,
            ![c].down = IF sock[c].srv = "prehello" /\ sock[c].cli # "closed"
                        THEN Append(@, [type |-> "ack", tid |-> t]) ELSE @]
  /\ UNCHANGED <<client, faults>>

\* An attach hello joins the session registered under the id it brings, or is
\* refused with 4410.
ReadAttachHello(c) ==
  /\ sock[c].up # <<>> /\ Head(sock[c].up).type = "hello"
  /\ sock[c].role = "attach" /\ sock[c].sess = None
  /\ LET s == registry[sock[c].want]
     IN IF s = None \/ ~HasRoom(s)
        THEN sock' = ServerCloses(Read(c), {c}, "refusal")
        ELSE sock' = [Read(c) EXCEPT
               ![c].sess = s,
               ![c].srv = IF @ = "prehello" THEN "joined" ELSE @,
               ![c].down = IF sock[c].srv = "prehello" /\ sock[c].cli # "closed"
                           THEN Append(@, [type |-> "ack", tid |-> sock[c].want])
                           ELSE @]
  /\ UNCHANGED <<server, client, faults>>

\* The close event at the server: any leg takes its whole session down.
Gone(c) ==
  /\ LET s == sock[c].sess
         S == ServerEnds(sock, c)
     IN IF s # None /\ session[s] # None
        THEN Teardown(S, s)
        ELSE sock' = S /\ UNCHANGED server
  /\ UNCHANGED <<client, faults>>

ReadFin(c) ==
  /\ sock[c].up # <<>> /\ Head(sock[c].up).type = "fin"
  /\ Gone(c)

\* The peer never answered the close: ws gives up.
CloseTimeout(c) ==
  /\ sock[c].srv = "closing"
  /\ sock[c].up = <<>> \/ Cut(sock, c)
  /\ Gone(c)

HelloTimeout(c) ==
  /\ Fault("hello timeout")
  /\ sock[c].srv = "prehello"
  /\ sock' = ServerCloses(sock, {c}, "fin")
  /\ UNCHANGED <<server, client>>

\* The session's parking buffer overflows: teardown, every leg closed.
SessionOverflow(s) ==
  /\ Fault("session overflow")
  /\ session[s] # None
  /\ Teardown(sock, s)
  /\ UNCHANGED client

-----------------------------------------------------------------------------
\* The client's group.

\* Mutant: the table is emptied and the Connections left open.
CloseAttachLegsForgets(S) == S

\* closeAttachLegs, as far as the sockets go; its callers clear the tables.
CloseAttachLegs(S) == ClientEnds(S, Attached)

\* Mutant: the retry timers stay armed.
NoLegsKeepsTimers == slot' = [i \in Slots |-> None] /\ UNCHANGED <<attempt, timer>>

NoLegs ==
  /\ slot' = [i \in Slots |-> None]
  /\ timer' = [i \in Slots |-> Unarmed]
  /\ attempt' = [i \in Slots |-> 0]

Terminate(S, c) ==
  IF c # None /\ S[c].cli \in {"dialing", "hello", "ready"}
  THEN [S EXCEPT ![c].cli = "dying"] ELSE S

\* forceReconnect: the attach legs are closed, the primary's ws is terminated;
\* its close event does the rest.
ForceReconnect(S) ==
  /\ rebuilding' = TRUE
  /\ sock' = Terminate(CloseAttachLegs(S), primary.ws)
  /\ NoLegs
  /\ UNCHANGED <<primary, lastId, disconnected, generation, closing>>

\* attempt(): a new socket for the primary.
RetryTimer ==
  /\ primary.timer
  /\ FreeSockets(sock) # {}
  /\ LET c == Lowest(FreeSockets(sock))
     IN /\ sock' = [sock EXCEPT ![c] = Dial("primary", lastId)]
        /\ primary' = [primary EXCEPT !.ws = c, !.timer = FALSE]
  /\ UNCHANGED <<server, lastId, groupVars, slotVars, faults>>

\* The WebSocket handshake is done: the client sends its hello.
Open(c) ==
  /\ sock[c].cli = "dialing"
  /\ sock' = [sock EXCEPT ![c].cli = "hello", ![c].srv = "prehello",
                          ![c].up = <<Msg("hello")>>]
  /\ UNCHANGED <<server, client, faults>>

\* Mutant: the rebuild latch is not released.
UpAgainKeepsLatch == disconnected' = FALSE /\ UNCHANGED rebuilding

UpAgain == disconnected' = FALSE /\ rebuilding' = FALSE

\* hello.ack on the primary: a new generation, and new attach legs in every
\* empty slot.
Connected(c) ==
  /\ primary.ws = c
  /\ sock[c].cli = "hello"
  /\ sock[c].down # <<>> /\ Head(sock[c].down).type = "ack"
  /\ LET tid   == Head(sock[c].down).tid
         empty == {i \in Spawned : slot[i] = None}
         free  == FreeSockets(sock)
         place(i) == CHOOSE d \in free : Cardinality({e \in free : e < d})
                                         = Cardinality({j \in empty : j < i})
     IN /\ Cardinality(empty) <= Cardinality(free)
        /\ lastId' = tid
        /\ primary' = [primary EXCEPT !.attempts = 0, !.promise = FALSE]
        /\ slot' = [i \in Slots |-> IF i \in empty THEN place(i) ELSE slot[i]]
        /\ attempt' = [i \in Slots |-> IF i \in empty THEN 0 ELSE attempt[i]]
        /\ sock' = [d \in Sockets |->
             IF d = c THEN [sock[c] EXCEPT !.cli = "ready", !.down = Tail(@)]
             ELSE IF \E i \in empty : place(i) = d THEN Dial("attach", tid)
             ELSE sock[d]]
  /\ generation' = (generation % Generations) + 1
  /\ UpAgain
  /\ UNCHANGED <<server, closing, timer, faults>>

\* hello.ack on an attach leg.
AttachReady(c) ==
  /\ c \in Attached
  /\ sock[c].cli = "hello"
  /\ sock[c].down # <<>> /\ Head(sock[c].down).type = "ack"
  /\ sock' = [sock EXCEPT ![c].cli = "ready", ![c].down = Tail(@)]
  /\ UNCHANGED <<server, client, faults>>

\* Mutant: one attempt too many.
MayRetryOneMore(i) == attempt[i] < MaxAttach

MayRetry(i) == attempt[i] + 1 < MaxAttach

\* connect() of slot i's leg failed: the retry is armed, unless the group has
\* another tunnel by now or the attempts are used up.
AttachFailed(i) ==
  LET c == slot[i]
      again == ~closing /\ lastId = sock[c].want /\ MayRetry(i)
  IN /\ slot' = [slot EXCEPT ![i] = None]
     /\ timer' = [timer EXCEPT ![i] =
          IF again THEN [gen |-> generation, tid |-> sock[c].want] ELSE @]
     /\ attempt' = [attempt EXCEPT ![i] = IF again THEN @ + 1 ELSE 0]
     /\ sock' = ClientEnds(sock, {c})
     /\ UNCHANGED <<primary, lastId, groupVars>>

\* The close event of an attach leg; one that was ready takes the group down.
AttachClosed(i) ==
  IF sock[slot[i]].cli = "hello" THEN AttachFailed(i)
  ELSE IF closing \/ disconnected \/ rebuilding
  THEN sock' = ClientEnds(sock, {slot[i]})
       /\ UNCHANGED <<primary, lastId, groupVars, slotVars>>
  ELSE ForceReconnect(ClientEnds(sock, {slot[i]}))

\* Mutant: only 'disconnected' is emitted, the attach legs stay.
PrimaryClosedKeepsLegs(wasReady) ==
  /\ disconnected' = IF wasReady THEN TRUE ELSE disconnected
  /\ sock' = ClientEnds(sock, {primary.ws})
  /\ UNCHANGED slotVars

\* 'disconnected' of the primary.
PrimaryClosed(wasReady) ==
  IF wasReady
  THEN /\ disconnected' = TRUE
       /\ sock' = ClientEnds(CloseAttachLegs(sock), {primary.ws})
       /\ NoLegs
  ELSE /\ sock' = ClientEnds(sock, {primary.ws})
       /\ UNCHANGED <<disconnected, slotVars>>

\* The primary stops for good.
GivenUp == [primary EXCEPT !.ws = None, !.timer = FALSE, !.promise = FALSE,
                           !.over = TRUE]

\* Mutant: no timer is set.
PrimaryNeverRetries == primary' = [primary EXCEPT !.ws = None]

\* scheduleReconnect
PrimaryRetries ==
  primary' = IF primary.attempts >= MaxRetries
             THEN GivenUp
             ELSE [primary EXCEPT !.ws = None, !.timer = TRUE, !.attempts = @ + 1]

\* Every close event of a socket the client has not given up: handleClose.
HandleClose(c, wasReady) ==
  \/ /\ c = primary.ws
     /\ PrimaryClosed(wasReady)
     /\ PrimaryRetries
     /\ UNCHANGED <<lastId, rebuilding, generation, closing>>
  \/ \E i \in Slots : slot[i] = c /\ AttachClosed(i)

ReadClose(c) ==
  /\ sock[c].cli \in {"hello", "ready"}
  /\ sock[c].down # <<>> /\ Head(sock[c].down).type \in {"fin", "refusal"}
  /\ HandleClose(c, sock[c].cli = "ready")
  /\ UNCHANGED <<server, faults>>

\* The close event after terminate(); a terminated primary that was ready has
\* disconnected = FALSE until now.
Died(c) ==
  /\ sock[c].cli = "dying"
  /\ c = primary.ws
  /\ PrimaryClosed(~disconnected /\ ~primary.promise)
  /\ PrimaryRetries
  /\ UNCHANGED <<server, lastId, rebuilding, generation, closing, faults>>

\* startAttach from the retry timer of slot i.
AttachTimer(i) ==
  /\ timer[i] # Unarmed
  /\ FreeSockets(sock) # {}
  /\ timer' = [timer EXCEPT ![i] = Unarmed]
  /\ IF timer[i].gen # generation \/ closing \/ disconnected
     THEN UNCHANGED <<sock, slot, attempt>>
     ELSE LET c == Lowest(FreeSockets(sock))
          IN /\ sock' = [sock EXCEPT ![c] = Dial("attach", timer[i].tid)]
             /\ slot' = [slot EXCEPT ![i] = c]
             /\ UNCHANGED attempt
  /\ UNCHANGED <<server, primary, lastId, groupVars, faults>>

\* connectTimeoutMs of an attach leg that has no ack yet.
AttachTimeout(i) ==
  /\ Fault("attach timeout")
  /\ slot[i] # None
  /\ sock[slot[i]].cli \in {"dialing", "hello"}
  /\ AttachFailed(i)
  /\ UNCHANGED server

\* The parking buffer of the client's Resequencer overflows.
Overflow ==
  /\ Fault("overflow")
  /\ \E c \in Sockets : sock[c].cli = "ready"
  /\ ForceReconnect(sock)
  /\ UNCHANGED server

\* connectTimeoutMs of the primary: connect() is rejected, nothing is retried.
ConnectTimeout ==
  /\ Fault("connect timeout")
  /\ primary.promise
  /\ primary' = GivenUp
  /\ sock' = ClientEnds(sock, {primary.ws})
  /\ UNCHANGED <<server, lastId, groupVars, slotVars>>

\* TunnelGroup.close
Close ==
  /\ ~closing
  /\ closing' = TRUE
  /\ timer' = [i \in Slots |-> Unarmed]
  /\ primary' = GivenUp
  /\ sock' = ClientEnds(sock, Attached \cup {primary.ws})
  /\ UNCHANGED <<server, lastId, disconnected, rebuilding, generation, slot,
                 attempt, faults>>

-----------------------------------------------------------------------------
\* The network.

\* The handshake fails.
DialFails(c) ==
  /\ Fault("dial")
  /\ sock[c].cli = "dialing"
  /\ \/ c = primary.ws /\ HandleClose(c, FALSE)
     \/ \E i \in Slots : slot[i] = c /\ AttachFailed(i)
  /\ UNCHANGED server

\* A connection breaks and what is on it is lost.  The client notices (its
\* heartbeat at the latest).
Break(c) ==
  /\ Fault("break")
  /\ sock[c].cli \in {"hello", "ready"} /\ sock[c].srv # "closed"
  /\ ~Cut(sock, c)
  /\ sock' = [sock EXCEPT ![c].down = <<Msg("fin")>>, ![c].up = <<Msg("cut")>>]
  /\ UNCHANGED <<server, client>>

\* The server, which has no heartbeat, notices at some time or never.
Noticed(c) ==
  /\ Cut(sock, c)
  /\ sock' = [sock EXCEPT ![c].up = <<Msg("fin")>>]
  /\ UNCHANGED <<server, client, faults>>

Init ==
  /\ sock = [c \in Sockets |-> IF c = 1 THEN Dial("primary", None) ELSE Blank]
  /\ session = [c \in Sockets |-> None]
  /\ registry = [t \in TunnelIds |-> None]
  /\ primary = [ws |-> 1, timer |-> FALSE, attempts |-> 0,
                promise |-> TRUE, over |-> FALSE]
  /\ lastId = None
  /\ disconnected = FALSE /\ rebuilding = FALSE /\ closing = FALSE
  /\ generation = None
  /\ slot = [i \in Slots |-> None]
  /\ attempt = [i \in Slots |-> 0]
  /\ timer = [i \in Slots |-> Unarmed]
  /\ faults = 0

\* What the client does with socket c, and what the server does with it.
ClientStep(c) ==
  Open(c) \/ Connected(c) \/ AttachReady(c) \/ ReadClose(c) \/ Died(c)
ServerStep(c) ==
  ReadPrimaryHello(c) \/ ReadAttachHello(c) \/ ReadFin(c) \/ CloseTimeout(c)

Next ==
  \/ \E c \in Sockets : ClientStep(c) \/ ServerStep(c)
  \/ RetryTimer
  \/ \E i \in Slots : AttachTimer(i)
  \/ \E c \in Sockets : \/ HelloTimeout(c) \/ SessionOverflow(c)
                        \/ DialFails(c) \/ Break(c) \/ Noticed(c)
  \/ \E i \in Slots : AttachTimeout(i)
  \/ ConnectTimeout
  \/ Overflow
  \/ Close

Spec == Init /\ [][Next]_vars

\* Both event loops get to every socket that has something for them, dials
\* end and armed timers fire.  Nothing is assumed of faults.
FairSpec ==
  /\ Spec
  /\ \A c \in Sockets : WF_vars(ClientStep(c)) /\ WF_vars(ServerStep(c))
  /\ WF_vars(RetryTimer)
  /\ \A i \in Slots : WF_vars(AttachTimer(i))

-----------------------------------------------------------------------------
Live(c) == sock[c].sess # None /\ session[sock[c].sess] # None
Ready(c) == c # None /\ sock[c].cli = "ready"
PrimaryReady == Ready(primary.ws)

TypeOK ==
  /\ sock \in [Sockets -> Socket]
  /\ session \in [Sockets -> TunnelIds \cup {None}]
  /\ registry \in [TunnelIds -> Sockets \cup {None}]
  /\ primary \in [ws : Sockets \cup {None}, timer : BOOLEAN,
                  attempts : 0..MaxRetries, promise : BOOLEAN, over : BOOLEAN]
  /\ lastId \in TunnelIds \cup {None}
  /\ disconnected \in BOOLEAN /\ rebuilding \in BOOLEAN /\ closing \in BOOLEAN
  /\ generation \in 0..Generations
  /\ slot \in [Slots -> Sockets \cup {None}]
  /\ attempt \in [Slots -> 0..(MaxAttach - 1)]
  /\ timer \in [Slots -> [gen : 0..Generations, tid : TunnelIds \cup {None}]]
  /\ faults \in 0..MaxFaults

\* tunnelId is the only routing identity: every session that is not down is
\* the one registered under its id (so no two of them share one), and the
\* registry never hands out a session that is down, whatever order hellos,
\* closes of older generations and teardowns come in (session.ts:4, :414).
SessionsExclusive ==
  /\ \A s \in Sockets : session[s] # None => registry[session[s]] = s
  /\ \A t \in TunnelIds : registry[t] # None => session[registry[t]] = t

\* A session never has more legs than were negotiated, though attach legs of
\* an older generation may join it late.
LegBudget == \A s \in Sockets : session[s] # None => Cardinality(LegsOf(s)) <= MaxLegs

\* Frames are striped over the legs of one session only: a ready attach leg of
\* the group is a leg of the session its ready primary belongs to, unless one
\* of the two sessions is down and its close on the way.
OneSession ==
  \A i \in Slots :
    (PrimaryReady /\ Live(primary.ws) /\ Ready(slot[i]) /\ Live(slot[i]))
    => sock[slot[i]].sess = sock[primary.ws].sess

\* No ghost legs (tunnel-group.ts:58, :244): every attach socket the client
\* has open is in its slot, where the group's next teardown closes it.
NoGhostLegs ==
  \A c \in Sockets :
    sock[c].role = "attach" /\ sock[c].cli # "closed" => c \in Attached

\* The rebuild latch is never left set on a group that is up: it would fold
\* the next break of a leg away for good.
LatchReleased == rebuilding => ~PrimaryReady

\* A retry timer that would fire belongs to an empty slot of this generation.
TimersCurrent ==
  \A i \in Slots : timer[i] # Unarmed =>
    /\ slot[i] = None
    /\ timer[i].gen = generation /\ timer[i].tid = lastId
    /\ PrimaryReady

\* Nothing of an older generation acts on the current one: together, that the
\* state has its types and what is said of sockets, latch and timers.
GenerationInv == TypeOK /\ NoGhostLegs /\ LatchReleased /\ TimersCurrent

Steady ==
  /\ PrimaryReady /\ Live(primary.ws)
  /\ \A i \in Spawned : \/ slot[i] = None /\ timer[i] = Unarmed
                        \/ Ready(slot[i]) /\ Live(slot[i])

\* The server reads the hello of a new generation while an attach hello of an
\* older one, whose leg the client has closed, is still on its way.  It can
\* then join the new session and, when its close follows, take it down.
Overtaking ==
  /\ \E c \in Sockets : session[c] = None /\ session'[c] # None
  /\ \E c \in Sockets : /\ sock[c].role = "attach" /\ sock[c].cli = "closed"
                        /\ Msg("hello") \in {sock[c].up[i] : i \in DOMAIN sock[c].up}

\* Once the faults are over and new generations no longer overtake their
\* predecessors' attach hellos, the group comes to rest: all its legs in one
\* live session, each slot filled or degraded, unless it was closed or gave up.
Recovers ==
  <>[][~Overtaking]_vars => <>[](closing \/ primary.over \/ Steady)

\* However the generations overtake each other, the group keeps coming back.
KeepsComingBack == []<>(closing \/ primary.over \/ PrimaryReady)

\* Closing the client ends its session on the server (client.ts:192); only one
\* with a leg that broke unnoticed may stay.
CloseDeregisters ==
  closing ~> \A t \in TunnelIds :
    registry[t] # None => \E c \in LegsOf(registry[t]) : Cut(sock, c)

\* tunnel-group.ts:8: a failing attach (4410, timeout) does not take the whole
\* group down.
AttachFailureSparesGroup ==
  [][PrimaryReady => closing' \/ PrimaryReady']_vars

\* multiconn design, section 4.4: the rebuilt group's primary brings the id
\* back and takes its tunnel over again.
IdReused == [][lastId = None]_lastId
=============================================================================

--------------------------- MODULE ConnectionManager ---------------------------
(***************************************************************************)
(* The host plugin's switch for the tunnel: enable and disable of          *)
(* ConnectionManager (dsh-remote-access/src/host/connection-manager.ts),   *)
(* called by the remote-enable and remote-disable handlers, which do not   *)
(* wait for an earlier enable, over the gateway clients they create.       *)
(*                                                                         *)
(* Every call is a process that runs from one await to the next; a client  *)
(* is named after the enable call that constructs it.  A client's events   *)
(* are steps of their own.                                                 *)
(***************************************************************************)
EXTENDS FiniteSets

CONSTANTS
  Enables,   \* calls of enable with a valid gateway address
  Disables,  \* calls of disable
  None

ASSUME CallsAssumption == Enables \cap Disables = {} /\ None \notin Enables

VARIABLES
  client,    \* this.client
  info,      \* this.info.state
  pc,        \* where each call is
  closee,    \* the client whose close the call awaits
  link,      \* the tunnel of each client
  last,      \* history: the call that began last
  overlapped \* history: a call began while an enable awaited old.close()

history == <<last, overlapped>>
vars == <<client, info, pc, closee, link, history>>

Calls == Enables \cup Disables

\* "draining": in a Client.close, before its connection is closed
\* (CLOSING_DRAIN_MS), "closing": until the WebSocket is closed.
\* "connecting": an enable awaits the first connection.
Places == {"idle", "draining", "closing", "connecting", "done"}

\* "dead": closed, given up, or failed for good.
Links == {"none", "dialing", "up", "retrying", "dead"}

Awaits(c) == pc[c] \in {"draining", "closing"}

\* An enable that awaits the close of an older client, not of its own.
Replacing(e) == Awaits(e) /\ closee[e] # e

-----------------------------------------------------------------------------
Init ==
  /\ client = None /\ info = "off" /\ last = None /\ overlapped = FALSE
  /\ pc = [c \in Calls |-> "idle"]
  /\ closee = [c \in Calls |-> None]
  /\ link = [e \in Enables |-> "none"]

Begins(c) ==
  /\ pc[c] = "idle"
  /\ last' = c
  /\ overlapped' = (overlapped \/ \E e \in Enables : Replacing(e))

\* client.close() of k by call c.
AwaitClose(c, k) ==
  /\ pc' = [pc EXCEPT ![c] = "draining"]
  /\ closee' = [closee EXCEPT ![c] = k]

\* new Client, its listeners and connect(), or the constructor's exception.
ConstructOK(e) ==
  /\ client' = e
  /\ link' = [link EXCEPT ![e] = "dialing"]
  /\ pc' = [pc EXCEPT ![e] = "connecting"]

Construct(e) ==
  \/ ConstructOK(e) /\ info' = "connecting"
  \/ /\ client' = None /\ info' = "error"
     /\ pc' = [pc EXCEPT ![e] = "done"]
     /\ UNCHANGED link

\* Mutant: the old client is not closed.
EnableLeavesOld(e) ==
  /\ Begins(e)
  /\ Construct(e) /\ UNCHANGED closee

Enable(e) ==
  /\ Begins(e)
  /\ IF client = None
     THEN Construct(e) /\ UNCHANGED closee
     ELSE /\ AwaitClose(e, client)
          /\ client' = None /\ info' = "connecting"
          /\ UNCHANGED link

\* Mutant: the state is set, the client is forgotten.
DisableForgets(d) ==
  /\ Begins(d)
  /\ client' = None /\ info' = "off"
  /\ pc' = [pc EXCEPT ![d] = "done"]
  /\ UNCHANGED <<closee, link>>

Disable(d) ==
  /\ Begins(d)
  /\ client' = None /\ info' = "off"
  /\ IF client = None THEN pc' = [pc EXCEPT ![d] = "done"] /\ UNCHANGED closee
                      ELSE AwaitClose(d, client)
  /\ UNCHANGED link

\* Mutant: a failed connect always reports its error.
RejectedAlways(e) == info' = "error"

\* The rejected connect of client e: only the current client reports.
Rejected(e) == info' = IF client = e THEN "error" ELSE info

\* Mutant: this.client, which may be null, is closed in place of client.
RejectConnectOfCurrent(e, by) ==
  /\ Rejected(e)
  /\ pc' = [pc EXCEPT ![e] = "draining", ![by] = IF by = e THEN @ ELSE "closing"]
  /\ closee' = [closee EXCEPT ![e] = client]

\* The enable call that awaits connect() goes on to close its client.
RejectConnect(e, by) ==
  /\ Rejected(e)
  /\ pc' = [pc EXCEPT ![e] = "draining", ![by] = IF by = e THEN @ ELSE "closing"]
  /\ closee' = [closee EXCEPT ![e] = e]

\* Mutant: the pending connect is not rejected (its timer is cleared).
CloseConnectionQuiet(c) ==
  /\ pc[c] = "draining"
  /\ link' = [link EXCEPT ![closee[c]] = "dead"]
  /\ pc' = [pc EXCEPT ![c] = "closing"]
  /\ UNCHANGED <<client, info, closee, history>>

\* Connection.close, CLOSING_DRAIN_MS into a Client.close.  It rejects a
\* connect that is pending.
CloseConnection(c) ==
  /\ pc[c] = "draining"
  /\ link' = [link EXCEPT ![closee[c]] = "dead"]
  /\ IF pc[closee[c]] = "connecting"
     THEN RejectConnect(closee[c], c)
     ELSE pc' = [pc EXCEPT ![c] = "closing"] /\ UNCHANGED <<info, closee>>
  /\ UNCHANGED <<client, history>>

\* The close that call c awaits is done.  An enable that replaces a client
\* constructs its own now, whatever has happened meanwhile.
ClosedForReplacement(e) ==
  /\ closee' = [closee EXCEPT ![e] = None]
  /\ \/ ConstructOK(e) /\ UNCHANGED info
     \/ /\ client' = None /\ info' = "error"
        /\ pc' = [pc EXCEPT ![e] = "done"]
        /\ UNCHANGED link

ClosedFinally(c) == client' = IF closee[c] = c /\ client = c THEN None ELSE client

Closed(c) ==
  /\ pc[c] = "closing"
  /\ IF c \in Enables /\ Replacing(c)
     THEN ClosedForReplacement(c)
     ELSE /\ pc' = [pc EXCEPT ![c] = "done"]
          /\ closee' = [closee EXCEPT ![c] = None]
          /\ ClosedFinally(c)
          /\ UNCHANGED <<info, link>>
  /\ UNCHANGED history

\* An event of client e: those of an instance that was replaced are dropped.
Report(e, state) == info' = IF client = e THEN state ELSE info

\* hello.ack: 'connected', and the first connect resolves.
Connected(e) ==
  /\ link[e] \in {"dialing", "retrying"}
  /\ link' = [link EXCEPT ![e] = "up"]
  /\ Report(e, "connected")
  /\ pc' = [pc EXCEPT ![e] = IF @ = "connecting" THEN "done" ELSE @]
  /\ UNCHANGED <<client, closee, history>>

\* The tunnel is lost; the client's own reconnection goes on.
Disconnected(e) ==
  /\ link[e] = "up"
  /\ link' = [link EXCEPT ![e] = "retrying"]
  /\ info' = IF client = e /\ info # "off" THEN "connecting" ELSE info
  /\ UNCHANGED <<client, pc, closee, history>>

\* Mutant: 'fatal' does not reach the state.
FatalUnheard(e) == UNCHANGED info

FatalHeard(e) == Report(e, "error")

\* 4409 or the retries are used up, after the client has been connected.
Fatal(e) ==
  /\ link[e] = "retrying"
  /\ link' = [link EXCEPT ![e] = "dead"]
  /\ FatalHeard(e)
  /\ UNCHANGED <<client, pc, closee, history>>

\* The first connection fails for good: 4409, retries used up or
\* connectTimeoutMs.
ConnectFails(e) ==
  /\ pc[e] = "connecting" /\ link[e] = "dialing"
  /\ link' = [link EXCEPT ![e] = "dead"]
  /\ RejectConnect(e, e)
  /\ UNCHANGED <<client, history>>

Next ==
  \/ \E e \in Enables : \/ Enable(e) \/ Connected(e) \/ Disconnected(e)
                        \/ Fatal(e) \/ ConnectFails(e)
  \/ \E d \in Disables : Disable(d)
  \/ \E c \in Calls : CloseConnection(c) \/ Closed(c)

Spec == Init /\ [][Next]_vars

\* The timers of Client.close and Connection.close, and connectTimeoutMs.
FairSpec ==
  /\ Spec
  /\ \A c \in Calls : WF_vars(CloseConnection(c)) /\ WF_vars(Closed(c))
  /\ \A e \in Enables : WF_vars(ConnectFails(e))

-----------------------------------------------------------------------------
TypeOK ==
  /\ client \in Enables \cup {None}
  /\ info \in {"off", "connecting", "connected", "error"}
  /\ pc \in [Calls -> Places]
  /\ closee \in [Calls -> Enables \cup {None}]
  /\ link \in [Enables -> Links]
  /\ \A c \in Calls : Awaits(c) <=> closee[c] # None
  /\ last \in Calls \cup {None} /\ overlapped \in BOOLEAN

Alive(e) == link[e] \in {"dialing", "up", "retrying"}

BeingClosed(e) == \E c \in Calls : Awaits(c) /\ closee[c] = e

\* No client is orphaned: one that dials or holds a tunnel is this.client or
\* on its way to be closed (connection-manager.ts:5, enable closes the old
\* instance first).
NoOrphan == \A e \in Enables : Alive(e) => client = e \/ BeingClosed(e)

\* Calls that keep out of each other's enable orphan no client, whatever the
\* clients' own events and the rejected connects do in between.
OrphanNeedsOverlap == ~overlapped => NoOrphan

\* Together: every call is where it can be, and every client has its owner.
ManagerInv == TypeOK /\ OrphanNeedsOverlap

\* The last of such calls wins: after disable nothing but closing clients is
\* left and the state stays "off", whatever older enables and their clients
\* still do; after enable no older client is this.client.
LastCallWins ==
  ~overlapped =>
    /\ last \in Disables => client = None /\ info = "off"
    /\ last \in Enables => client \in {None, last} /\ info # "off"

\* What the panel is told is the state of the tunnel: connected only on a
\* tunnel that is up, an error only when nothing dials any more, connecting
\* only while something does or an old client is being closed.
ToldTrue ==
  ~overlapped =>
    /\ info = "connected" => client # None /\ link[client] = "up"
    /\ info = "error" => client = None \/ link[client] = "dead"
    /\ info = "connecting" =>
         \/ client # None /\ link[client] \in {"dialing", "retrying"}
         \/ \E e \in Enables : Replacing(e)

\* enable always comes to its end, and with it the panel's "connecting".
EnableEnds == \A e \in Enables : pc[e] # "idle" ~> pc[e] = "done"

\* Once disable is the last word every client dies.
DisableKills ==
  (last \in Disables /\ ~overlapped)
    ~> (last \notin Disables \/ overlapped \/ \A e \in Enables : ~Alive(e))
=============================================================================

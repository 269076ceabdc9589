------------------------ MODULE ConnectionManagerProofs ------------------------
(***************************************************************************)
(* Proofs about ConnectionManager, for any number of calls of enable and   *)
(* of disable: no client is orphaned, the last call wins and the panel is  *)
(* told the truth, as long as no call begins while an enable still waits   *)
(* for the client it replaces.                                             *)
(*                                                                         *)
(* The three are not inductive.  IInv adds how far a client can be with    *)
(* its call where it is (Lifecycle, which needs no condition), that the    *)
(* one enable that may be replacing a client is the last call (OneReplaces)*)
(* and that this.client is closed by nobody but its own enable, which does *)
(* so only when it is dead (Owned).                                        *)
(***************************************************************************)
EXTENDS ConnectionManager, TLAPS

USE CallsAssumption

\* A client is constructed by its call, once the one before it is closed, and
\* is dead by the time a close of it comes to its end.
Lifecycle ==
  /\ \A e \in Enables :
       /\ pc[e] = "connecting" <=> link[e] = "dialing"
       /\ pc[e] = "idle" \/ Replacing(e) => link[e] = "none"
       /\ Awaits(e) /\ closee[e] = e => link[e] = "dead"
  /\ \A d \in Disables : pc[d] # "connecting"
  /\ \A c \in Calls : /\ Awaits(c) => link[closee[c]] # "none"
                      /\ pc[c] = "closing" => link[closee[c]] = "dead"
  /\ client # None => link[client] # "none"

OneReplaces ==
  /\ \A e \in Enables : Replacing(e) => last = e /\ client = None /\ info = "connecting"
  /\ last = None => client = None /\ info = "off"

Owned == \A c \in Calls : Awaits(c) /\ closee[c] = client => c = client

\* What holds of calls that keep out of each other's enable.
Apart == OneReplaces /\ Owned /\ NoOrphan

IInv ==
  /\ TypeOK /\ Lifecycle
  /\ ~overlapped => Apart
  /\ LastCallWins /\ ToldTrue

-----------------------------------------------------------------------------
\* Nothing is constructed at the start.
LEMMA InitIInv == Init => IInv
<1> SUFFICES ASSUME Init PROVE IInv
  OBVIOUS
<1>1. TypeOK /\ Lifecycle
  BY DEF Init, TypeOK, Lifecycle, Awaits, Replacing, Calls, Places, Links
<1>2. Apart
  BY DEF Init, Apart, OneReplaces, Owned, NoOrphan, Alive, Awaits, Replacing, Calls
<1>3. LastCallWins /\ ToldTrue
  BY DEF Init, LastCallWins, ToldTrue
<1> QED BY <1>1, <1>2, <1>3 DEF IInv

\* enable constructs a client, or takes this.client away and waits for its close.
LEMMA EnableKeeps ==
  ASSUME IInv, NEW e \in Enables, Enable(e)
  PROVE  IInv'
<1> USE DEF Enable, Begins, Construct, ConstructOK, AwaitClose, Calls
<1>1. TypeOK'
  BY DEF IInv, TypeOK, Lifecycle, Awaits, Places, Links
<1>2. Lifecycle'
  BY DEF IInv, TypeOK, Lifecycle, Awaits, Replacing, Places, Links
<1>3. ASSUME ~overlapped' PROVE OneReplaces' /\ Owned'
  <2>1. ~overlapped /\ (\A k \in Enables : ~Replacing(k))
    BY <1>3
  <2>2. OneReplaces'
    BY <2>1 DEF IInv, TypeOK, Lifecycle, Apart, OneReplaces, Awaits, Replacing
  <2>3. Owned'
    BY <1>1, <2>1 DEF IInv, TypeOK, Lifecycle, Apart, Owned, Awaits, Replacing
  <2> QED BY <2>2, <2>3
<1>4. ASSUME ~overlapped' PROVE NoOrphan'
  BY <1>4 DEF IInv, TypeOK, Lifecycle, Apart, OneReplaces, Owned, NoOrphan, Alive,
     BeingClosed, Awaits, Replacing, Places, Links
<1>5. LastCallWins'
  BY DEF IInv, TypeOK, Lifecycle, Apart, OneReplaces, Owned, LastCallWins, Awaits,
     Replacing, Places, Links
<1>6. ToldTrue'
  BY DEF IInv, TypeOK, Lifecycle, Apart, OneReplaces, Owned, LastCallWins, ToldTrue,
     Awaits, Replacing, Places, Links
<1> QED BY <1>1, <1>2, <1>3, <1>4, <1>5, <1>6 DEF IInv, Apart

\* disable takes this.client away at once, whatever it waits for then.
LEMMA DisableKeeps ==
  ASSUME IInv, NEW d \in Disables, Disable(d)
  PROVE  IInv'
<1> USE DEF Disable, Begins, AwaitClose, Calls
<1>1. TypeOK'
  BY DEF IInv, TypeOK, Lifecycle, Awaits, Places, Links
<1>2. Lifecycle'
  BY DEF IInv, TypeOK, Lifecycle, Awaits, Replacing, Places, Links
<1>3. ASSUME ~overlapped' PROVE OneReplaces' /\ Owned'
  <2>1. ~overlapped /\ (\A k \in Enables : ~Replacing(k))
    BY <1>3
  <2>2. OneReplaces'
    BY <2>1 DEF IInv, TypeOK, Lifecycle, Apart, OneReplaces, Awaits, Replacing
  <2>3. Owned'
    BY <1>1, <2>1 DEF IInv, TypeOK, Lifecycle, Apart, Owned, Awaits, Replacing
  <2> QED BY <2>2, <2>3
<1>4. ASSUME ~overlapped' PROVE NoOrphan'
  BY <1>4 DEF IInv, TypeOK, Lifecycle, Apart, OneReplaces, Owned, NoOrphan, Alive,
     BeingClosed, Awaits, Replacing, Places, Links
<1>5. LastCallWins'
  BY DEF IInv, TypeOK, Lifecycle, Apart, OneReplaces, Owned, LastCallWins, Awaits,
     Replacing, Places, Links
<1>6. ToldTrue'
  BY DEF IInv, TypeOK, Lifecycle, Apart, OneReplaces, Owned, LastCallWins, ToldTrue,
     Awaits, Replacing, Places, Links
<1> QED BY <1>1, <1>2, <1>3, <1>4, <1>5, <1>6 DEF IInv, Apart

\* Connection.close kills a client that is not this.client, or is dead already.
LEMMA CloseConnectionKeeps ==
  ASSUME IInv, NEW c \in Calls, CloseConnection(c)
  PROVE  IInv'
<1> USE DEF CloseConnection, RejectConnect, Rejected, Calls, history
<1>1. TypeOK'
  BY DEF IInv, TypeOK, Lifecycle, Awaits, Places, Links
<1>2. Lifecycle'
  BY DEF IInv, TypeOK, Lifecycle, Awaits, Replacing, Places, Links
<1>3. ASSUME ~overlapped' PROVE OneReplaces' /\ Owned'
  BY <1>3 DEF IInv, TypeOK, Lifecycle, Apart, OneReplaces, Owned, LastCallWins, Awaits,
     Replacing, Places, Links
<1>4. ASSUME ~overlapped' PROVE NoOrphan'
  BY <1>4 DEF IInv, TypeOK, Lifecycle, Apart, OneReplaces, Owned, NoOrphan, Alive,
     BeingClosed, Awaits, Replacing, Places, Links
<1>5. LastCallWins'
  BY DEF IInv, TypeOK, Lifecycle, Apart, OneReplaces, Owned, LastCallWins, Awaits,
     Replacing, Places, Links
<1>6. ToldTrue'
  BY DEF IInv, TypeOK, Lifecycle, Apart, OneReplaces, Owned, LastCallWins, ToldTrue,
     Awaits, Replacing, Places, Links
<1> QED BY <1>1, <1>2, <1>3, <1>4, <1>5, <1>6 DEF IInv, Apart

\* The call that waited for a close goes on: only one that replaces a client touches
\* this.client.
LEMMA ClosedKeeps ==
  ASSUME IInv, NEW c \in Calls, Closed(c)
  PROVE  IInv'
<1> USE DEF Closed, ClosedForReplacement, ConstructOK, ClosedFinally, Calls, history
<1>1. TypeOK'
  BY DEF IInv, TypeOK, Lifecycle, Awaits, Places, Links
<1>2. Lifecycle'
  BY DEF IInv, TypeOK, Lifecycle, Awaits, Replacing, Places, Links
<1>3. ASSUME ~overlapped' PROVE OneReplaces' /\ Owned'
  BY <1>3 DEF IInv, TypeOK, Lifecycle, Apart, OneReplaces, Owned, LastCallWins, Awaits,
     Replacing, Places, Links
<1>4. ASSUME ~overlapped' PROVE NoOrphan'
  BY <1>4 DEF IInv, TypeOK, Lifecycle, Apart, OneReplaces, Owned, NoOrphan, Alive,
     BeingClosed, Awaits, Replacing, Places, Links
<1>5. LastCallWins'
  BY DEF IInv, TypeOK, Lifecycle, Apart, OneReplaces, Owned, LastCallWins, Awaits,
     Replacing, Places, Links
<1>6. ToldTrue'
  BY DEF IInv, TypeOK, Lifecycle, Apart, OneReplaces, Owned, LastCallWins, ToldTrue,
     Awaits, Replacing, Places, Links
<1> QED BY <1>1, <1>2, <1>3, <1>4, <1>5, <1>6 DEF IInv, Apart

\* A tunnel comes up.
LEMMA ConnectedKeeps ==
  ASSUME IInv, NEW e \in Enables, Connected(e)
  PROVE  IInv'
<1> USE DEF Connected, Report, Calls, history
<1>1. TypeOK'
  BY DEF IInv, TypeOK, Lifecycle, Awaits, Places, Links
<1>2. Lifecycle'
  BY DEF IInv, TypeOK, Lifecycle, Awaits, Replacing, Places, Links
<1>3. ASSUME ~overlapped' PROVE OneReplaces' /\ Owned'
  BY <1>3 DEF IInv, TypeOK, Lifecycle, Apart, OneReplaces, Owned, LastCallWins, Awaits,
     Replacing, Places, Links
<1>4. ASSUME ~overlapped' PROVE NoOrphan'
  BY <1>4 DEF IInv, TypeOK, Lifecycle, Apart, OneReplaces, Owned, NoOrphan, Alive,
     BeingClosed, Awaits, Replacing, Places, Links
<1>5. LastCallWins'
  BY DEF IInv, TypeOK, Lifecycle, Apart, OneReplaces, Owned, LastCallWins, Awaits,
     Replacing, Places, Links
<1>6. ToldTrue'
  BY DEF IInv, TypeOK, Lifecycle, Apart, OneReplaces, Owned, LastCallWins, ToldTrue,
     Awaits, Replacing, Places, Links
<1> QED BY <1>1, <1>2, <1>3, <1>4, <1>5, <1>6 DEF IInv, Apart

\* A tunnel is lost.
LEMMA DisconnectedKeeps ==
  ASSUME IInv, NEW e \in Enables, Disconnected(e)
  PROVE  IInv'
<1> USE DEF Disconnected, Calls, history
<1>1. TypeOK'
  BY DEF IInv, TypeOK, Lifecycle, Awaits, Places, Links
<1>2. Lifecycle'
  BY DEF IInv, TypeOK, Lifecycle, Awaits, Replacing, Places, Links
<1>3. ASSUME ~overlapped' PROVE OneReplaces' /\ Owned'
  BY <1>3 DEF IInv, TypeOK, Lifecycle, Apart, OneReplaces, Owned, LastCallWins, Awaits,
     Replacing, Places, Links
<1>4. ASSUME ~overlapped' PROVE NoOrphan'
  BY <1>4 DEF IInv, TypeOK, Lifecycle, Apart, OneReplaces, Owned, NoOrphan, Alive,
     BeingClosed, Awaits, Replacing, Places, Links
<1>5. LastCallWins'
  BY DEF IInv, TypeOK, Lifecycle, Apart, OneReplaces, Owned, LastCallWins, Awaits,
     Replacing, Places, Links
<1>6. ToldTrue'
  BY DEF IInv, TypeOK, Lifecycle, Apart, OneReplaces, Owned, LastCallWins, ToldTrue,
     Awaits, Replacing, Places, Links
<1> QED BY <1>1, <1>2, <1>3, <1>4, <1>5, <1>6 DEF IInv, Apart

\* A client gives up.
LEMMA FatalKeeps ==
  ASSUME IInv, NEW e \in Enables, Fatal(e)
  PROVE  IInv'
<1> USE DEF Fatal, FatalHeard, Report, Calls, history
<1>1. TypeOK'
  BY DEF IInv, TypeOK, Lifecycle, Awaits, Places, Links
<1>2. Lifecycle'
  BY DEF IInv, TypeOK, Lifecycle, Awaits, Replacing, Places, Links
<1>3. ASSUME ~overlapped' PROVE OneReplaces' /\ Owned'
  BY <1>3 DEF IInv, TypeOK, Lifecycle, Apart, OneReplaces, Owned, LastCallWins, Awaits,
     Replacing, Places, Links
<1>4. ASSUME ~overlapped' PROVE NoOrphan'
  BY <1>4 DEF IInv, TypeOK, Lifecycle, Apart, OneReplaces, Owned, NoOrphan, Alive,
     BeingClosed, Awaits, Replacing, Places, Links
<1>5. LastCallWins'
  BY DEF IInv, TypeOK, Lifecycle, Apart, OneReplaces, Owned, LastCallWins, Awaits,
     Replacing, Places, Links
<1>6. ToldTrue'
  BY DEF IInv, TypeOK, Lifecycle, Apart, OneReplaces, Owned, LastCallWins, ToldTrue,
     Awaits, Replacing, Places, Links
<1> QED BY <1>1, <1>2, <1>3, <1>4, <1>5, <1>6 DEF IInv, Apart

\* The first connection fails: the enable that waits closes its own client.
LEMMA ConnectFailsKeeps ==
  ASSUME IInv, NEW e \in Enables, ConnectFails(e)
  PROVE  IInv'
<1> USE DEF ConnectFails, RejectConnect, Rejected, Calls, history
<1>1. TypeOK'
  BY DEF IInv, TypeOK, Lifecycle, Awaits, Places, Links
<1>2. Lifecycle'
  BY DEF IInv, TypeOK, Lifecycle, Awaits, Replacing, Places, Links
<1>3. ASSUME ~overlapped' PROVE OneReplaces' /\ Owned'
  BY <1>3 DEF IInv, TypeOK, Lifecycle, Apart, OneReplaces, Owned, LastCallWins, Awaits,
     Replacing, Places, Links
<1>4. ASSUME ~overlapped' PROVE NoOrphan'
  BY <1>4 DEF IInv, TypeOK, Lifecycle, Apart, OneReplaces, Owned, NoOrphan, Alive,
     BeingClosed, Awaits, Replacing, Places, Links
<1>5. LastCallWins'
  BY DEF IInv, TypeOK, Lifecycle, Apart, OneReplaces, Owned, LastCallWins, Awaits,
     Replacing, Places, Links
<1>6. ToldTrue'
  BY DEF IInv, TypeOK, Lifecycle, Apart, OneReplaces, Owned, LastCallWins, ToldTrue,
     Awaits, Replacing, Places, Links
<1> QED BY <1>1, <1>2, <1>3, <1>4, <1>5, <1>6 DEF IInv, Apart

\* Every step keeps the invariant.
LEMMA StepIInv == IInv /\ [Next]_vars => IInv'
<1> SUFFICES ASSUME IInv, [Next]_vars PROVE IInv'
  OBVIOUS
<1>1. CASE UNCHANGED vars
  BY <1>1 DEF IInv, vars, history, TypeOK, Lifecycle, Apart, OneReplaces, Owned, NoOrphan,
     Alive, BeingClosed, Awaits, Replacing, LastCallWins, ToldTrue
<1>2. CASE Next
  BY <1>2, EnableKeeps, DisableKeeps, CloseConnectionKeeps, ClosedKeeps, ConnectedKeeps,
     DisconnectedKeeps, FatalKeeps, ConnectFailsKeeps DEF Next
<1> QED BY <1>1, <1>2

\* The inductive invariant holds in every reachable state.
THEOREM IInvAlways == Spec => []IInv
<1> QED BY InitIInv, StepIInv, PTL DEF Spec

\* Calls that keep out of each other's enable orphan no client, whatever the
\* clients' own events and the rejected connects do in between.
THEOREM ManagerAlways == Spec => []ManagerInv
<1>1. IInv => ManagerInv
  BY DEF IInv, ManagerInv, OrphanNeedsOverlap, Apart
<1> QED BY <1>1, IInvAlways, PTL

\* After the last call the state is what it asked for: no client and "off", or
\* no client but its own.
THEOREM LastCallAlways == Spec => []LastCallWins
<1>1. IInv => LastCallWins
  BY DEF IInv
<1> QED BY <1>1, IInvAlways, PTL

\* The panel's state is the state of the tunnel.
THEOREM ToldAlways == Spec => []ToldTrue
<1>1. IInv => ToldTrue
  BY DEF IInv
<1> QED BY <1>1, IInvAlways, PTL
=============================================================================

---------------------------- MODULE SelectLogin ----------------------------
(***************************************************************************)
(* Logging in: the select page's script and its POST handler               *)
(* (server/src/select-page.ts), the probe it sends through the tunnel, and *)
(* the browser sessions with their snapshot on disk                        *)
(* (server/src/browser-session.ts).                                        *)
(*                                                                         *)
(* A login is one submission of the dialog, and the uuid of the session it *)
(* may create.  The page is one tab; a login it no longer waits for (the   *)
(* tab was reloaded) still runs at the gateway.  The gateway's process may *)
(* be killed between any two of its steps, the two halves of an atomic     *)
(* write included, and started again on the same snapshot.                 *)
(***************************************************************************)
EXTENDS Naturals, FiniteSets

CONSTANTS
  Logins,   \* the submissions
  Tunnels,  \* the computers on the page
  None,     \* no login, no computer
  TTL,      \* browserSessionTtlMs
  MaxTime,  \* bound: the clock
  MaxLosses \* bound: crashes, tunnel losses, failed writes and damaged files

ASSUME LoginAssumption ==
  /\ None \notin Logins \cup Tunnels \cup Nat
  /\ TTL \in Nat \ {0} /\ MaxTime \in Nat /\ MaxLosses \in Nat

VARIABLES
  page,    \* the tab: the dialog's computer, the login it waits for, whose error it shows
  login,   \* the gateway's side of each submission and its reply
  probes,  \* channels registered by probeAuthCheck, and its armed timers
  online,  \* computers whose tunnel is registered
  mem,     \* sessions in the store's map
  writing, \* persist: None, or the snapshot it writes, for what, and whether the file is written
  disk,    \* the snapshot file
  env      \* the process, the clock, how much has gone wrong, promises a damaged file broke

vars == <<page, login, probes, online, mem, writing, disk, env>>

Idle == env.up /\ writing = None   \* the event loop is free to run a handler
Answered(l) == login[l].reply # None

Init ==
  /\ page = [dialog |-> None, waits |-> None, error |-> None]
  /\ login = [l \in Logins |->
               [phase |-> "unused", tunnel |-> None, reply |-> None, expires |-> 0]]
  /\ probes = [channels |-> {}, timers |-> {}]
  /\ online = Tunnels
  /\ mem = {}
  /\ writing = None
  /\ disk = [ok |-> TRUE, sessions |-> {}]
  /\ env = [up |-> TRUE, now |-> 0, losses |-> 0, excused |-> {}]

Fault == env.losses < MaxLosses
Faulted == [env EXCEPT !.losses = @ + 1]

-----------------------------------------------------------------------------
(* The page. *)

(* A card is only reached when the mask of a dialog does not cover it. *)
OpenDialog ==
  /\ page.dialog = None
  /\ \E t \in Tunnels : page' = [page EXCEPT !.dialog = t, !.error = None]
  /\ UNCHANGED <<login, probes, online, mem, writing, disk, env>>

CloseDialog ==
  /\ page.dialog # None
  /\ page' = [page EXCEPT !.dialog = None]
  /\ UNCHANGED <<login, probes, online, mem, writing, disk, env>>

(* A dead gateway refuses the connection: the fetch fails at once. *)
Submit ==
  /\ page.waits = None /\ page.dialog # None
  /\ \E l \in Logins :
       /\ login[l].phase = "unused"
       /\ page' = [page EXCEPT !.waits = l]
       /\ login' = [login EXCEPT ![l].tunnel = page.dialog,
                                 ![l].phase = IF env.up THEN "posted" ELSE "done",
                                 ![l].reply = IF env.up THEN None ELSE 0]
  /\ UNCHANGED <<probes, online, mem, writing, disk, env>>

(* fetch settles: 200 leaves the page; anything else goes into whatever     *)
(* dialog is there, about the computer the form named.                      *)
PageHears ==
  /\ page.waits # None /\ Answered(page.waits)
  /\ page' = IF login[page.waits].reply = 200
             THEN [dialog |-> None, waits |-> None, error |-> None]
             ELSE [page EXCEPT !.waits = None, !.error = login[page.waits].tunnel]
  /\ UNCHANGED <<login, probes, online, mem, writing, disk, env>>

Reload ==
  /\ page.waits # None
  /\ page' = [dialog |-> None, waits |-> None, error |-> None]
  /\ UNCHANGED <<login, probes, online, mem, writing, disk, env>>

-----------------------------------------------------------------------------
(* handleSelectPost and probeAuthCheck. *)

(* Mutant: the handler goes on after its answer. *)
ReplyWithoutReturn(f, l, status) == [f EXCEPT ![l].reply = status]
Reply(f, l, status) == [f EXCEPT ![l].phase = "done", ![l].reply = status]

(* readFormBody rejects *)
BadForm ==
  /\ Idle
  /\ \E l \in Logins : login[l].phase = "posted" /\ login' = Reply(login, l, 400)
  /\ UNCHANGED <<page, probes, online, mem, writing, disk, env>>

Offline ==
  /\ Idle
  /\ \E l \in Logins : /\ login[l].phase = "posted" /\ login[l].tunnel \notin online
                       /\ login' = Reply(login, l, 409)
  /\ UNCHANGED <<page, probes, online, mem, writing, disk, env>>

(* Mutant: the probe is not timed. *)
ProbedUntimed(l) == [probes EXCEPT !.channels = @ \cup {l}]
(* register, and the timer of headTimeoutMs *)
Probed(l) == [channels |-> probes.channels \cup {l}, timers |-> probes.timers \cup {l}]
(* clearTimeout and unregister *)
Released(L) == [channels |-> probes.channels \ L, timers |-> probes.timers \ L]

Probe ==
  /\ Idle
  /\ \E l \in Logins :
       /\ login[l].phase = "posted" /\ login[l].tunnel \in online
       /\ login' = [login EXCEPT ![l].phase = "probing"]
       /\ probes' = Probed(l)
  /\ UNCHANGED <<page, online, mem, writing, disk, env>>

Unexpired(S) == {s \in S : login[s].expires > env.now}

(* persist takes what has not expired by now. *)
Persist(sessions, why) ==
  writing' = [for |-> why, sessions |-> sessions, written |-> FALSE]

(* http.head; a client that sends channel.error instead is not heard.  204  *)
(* goes on in the same turn to create, which puts the session in the map    *)
(* and begins to write; every other status refuses.                         *)
HeadArrives ==
  /\ Idle
  /\ \E l \in probes.channels :
       /\ probes' = Released({l})
       /\ \/ login' = Reply(login, l, 403) /\ UNCHANGED <<mem, writing>>
          \/ /\ login' = [login EXCEPT ![l].phase = "creating", ![l].expires = env.now + TTL]
             /\ mem' = mem \cup {l}
             /\ Persist(Unexpired(mem) \cup {l}, l)
  /\ UNCHANGED <<page, online, disk, env>>

(* Mutant: the timer does not take the channel out of the session. *)
TimedOutRegistered(l) == [probes EXCEPT !.timers = @ \ {l}]
TimedOut(l) == Released({l})

ProbeTimeout ==
  /\ Idle
  /\ \E l \in probes.timers : probes' = TimedOut(l) /\ login' = Reply(login, l, 504)
  /\ UNCHANGED <<page, online, mem, writing, disk, env>>

(* teardown of the session: every channel of it, onTunnelDown of each probe. *)
TunnelLost ==
  /\ Idle /\ Fault
  /\ \E t \in online :
       LET L == {l \in probes.channels : login[l].tunnel = t} IN
       /\ online' = online \ {t}
       /\ probes' = Released(L)
       /\ login' = [l \in Logins |->
                     IF l \in L THEN [login[l] EXCEPT !.phase = "done", !.reply = 403]
                     ELSE login[l]]
  /\ env' = Faulted
  /\ UNCHANGED <<page, mem, writing, disk>>

TunnelBack ==
  /\ Idle
  /\ \E t \in Tunnels \ online : online' = online \cup {t}
  /\ UNCHANGED <<page, login, probes, mem, writing, disk, env>>

-----------------------------------------------------------------------------
(* The store. *)

(* get: a request with the cookie of an expired session deletes it.         *)
Visit ==
  /\ Idle
  /\ \E s \in mem :
       /\ login[s].expires <= env.now
       /\ mem' = mem \ {s}
       /\ Persist(Unexpired(mem \ {s}), None)
  /\ UNCHANGED <<page, login, probes, online, disk, env>>

(* Mutant: the snapshot is written in place. *)
FileWrittenInPlace == disk' = [ok |-> FALSE, sessions |-> {}]
(* writeFileSync to the temporary file *)
FileWritten == UNCHANGED disk

WriteTmp ==
  /\ env.up /\ writing # None /\ ~writing.written
  /\ writing' = [writing EXCEPT !.written = TRUE]
  /\ FileWritten
  /\ UNCHANGED <<page, login, probes, online, mem, env>>

(* renameSync; create returns and the login is answered with its cookie.    *)
Rename ==
  /\ env.up /\ writing # None /\ writing.written
  /\ disk' = [ok |-> TRUE, sessions |-> writing.sessions]
  /\ login' = IF writing.for = None THEN login ELSE Reply(login, writing.for, 200)
  /\ writing' = None
  /\ UNCHANGED <<page, probes, online, mem, env>>

(* Either call throws: the map keeps what create or get has changed, the    *)
(* POST or the request is answered by the server's catch.                   *)
PersistThrows ==
  /\ env.up /\ writing # None /\ Fault
  /\ login' = IF writing.for = None THEN login ELSE Reply(login, writing.for, 500)
  /\ writing' = None
  /\ env' = Faulted
  /\ UNCHANGED <<page, probes, online, mem, disk>>

-----------------------------------------------------------------------------
(* The process. *)

(* Killed: every connection is reset, so is every pending submission.       *)
Crash ==
  /\ env.up /\ Fault
  /\ env' = [Faulted EXCEPT !.up = FALSE]
  /\ mem' = {} /\ writing' = None /\ online' = {}
  /\ probes' = [channels |-> {}, timers |-> {}]
  /\ login' = [l \in Logins |->
                IF login[l].phase \in {"posted", "probing", "creating"}
                THEN [login[l] EXCEPT !.phase = "done", !.reply = 0] ELSE login[l]]
  /\ UNCHANGED <<page, disk>>

(* Somebody damages the snapshot while the gateway is down. *)
Damage ==
  /\ ~env.up /\ Fault /\ disk.ok
  /\ disk' = [ok |-> FALSE, sessions |-> {}]
  /\ env' = [Faulted EXCEPT !.excused = @ \cup disk.sessions]
  /\ UNCHANGED <<page, login, probes, online, mem, writing>>

(* restore: a damaged file leaves the map empty, and stays as it is. *)
Restart ==
  /\ ~env.up
  /\ env' = [env EXCEPT !.up = TRUE]
  /\ mem' = IF disk.ok THEN Unexpired(disk.sessions) ELSE {}
  /\ UNCHANGED <<page, login, probes, online, writing, disk>>

Tick ==
  /\ env.now < MaxTime
  /\ env' = [env EXCEPT !.now = @ + 1]
  /\ UNCHANGED <<page, login, probes, online, mem, writing, disk>>

Next ==
  \/ OpenDialog \/ CloseDialog \/ Submit \/ PageHears \/ Reload
  \/ BadForm \/ Offline \/ Probe \/ HeadArrives \/ ProbeTimeout
  \/ TunnelLost \/ TunnelBack \/ Visit \/ WriteTmp \/ Rename \/ PersistThrows
  \/ Crash \/ Damage \/ Restart \/ Tick

(* The event loop gets to the posted form and to a due timer, a synchronous *)
(* write ends, a fetch that has its answer settles.  Nothing is assumed of  *)
(* the client, the tunnel, the user or a restart.                           *)
Spec ==
  Init /\ [][Next]_vars
    /\ WF_vars(Offline \/ Probe) /\ WF_vars(ProbeTimeout)
    /\ WF_vars(WriteTmp \/ Rename) /\ WF_vars(PageHears)

-----------------------------------------------------------------------------
(* The types; and a login is over exactly when it has been answered. *)
TypeOK ==
  /\ \A l \in Logins : Answered(l) = (login[l].phase = "done")
  /\ page \in [dialog : Tunnels \cup {None}, waits : Logins \cup {None},
               error : Tunnels \cup {None}]
  /\ login \in [Logins -> [phase : {"unused", "posted", "probing", "creating", "done"},
                           tunnel : Tunnels \cup {None},
                           reply : {None, 0, 200, 400, 403, 409, 500, 504},
                           expires : 0..MaxTime + TTL]]
  /\ probes.channels \subseteq Logins /\ probes.timers \subseteq Logins
  /\ online \subseteq Tunnels /\ mem \subseteq Logins
  /\ writing # None => writing.sessions \subseteq Logins
  /\ disk.sessions \subseteq Logins
  /\ env.up \in BOOLEAN /\ env.now \in 0..MaxTime

(* A cookie that has been given out is good until it expires: its session   *)
(* is in the snapshot, whatever is being written, killed or fails to be     *)
(* written since, and in the map of a running gateway.                      *)
CookieHonoured ==
  \A l \in Logins :
    login[l].reply = 200 /\ login[l].expires > env.now /\ l \notin env.excused =>
      l \in disk.sessions /\ (env.up => l \in mem)

(* A login that is not waiting for its probe holds neither a channel of the *)
(* tunnel's session nor a timer, however the probe ended; one that waits    *)
(* holds both.                                                              *)
ProbesReleased ==
  \A l \in Logins :
    LET probing == login[l].phase = "probing" IN
    (l \in probes.channels) = probing /\ (l \in probes.timers) = probing

(* Together: every login is where it can be and holds what it needs there. *)
LoginInv == TypeOK /\ ProbesReleased

(* The page's button comes back: whatever happens to the client, the tunnel *)
(* or the gateway, a submission gets an answer or an error.                 *)
SubmitEnds == (page.waits # None) ~> (page.waits = None)

(* An error the dialog shows is about the computer the dialog is for.       *)
ErrorOfThisDialog ==
  page.dialog # None /\ page.error # None => page.error = page.dialog
=============================================================================

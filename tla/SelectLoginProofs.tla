------------------------- MODULE SelectLoginProofs -------------------------
(***************************************************************************)
(* Proofs about SelectLogin, for any number of submissions and computers,  *)
(* any lifetime and any number of faults: the types and the accounting of  *)
(* probes, and that a cookie which has been given out is honoured until it *)
(* expires.                                                                *)
(*                                                                         *)
(* CookieHonoured is not inductive: the snapshot that is about to replace  *)
(* the file has to hold every promise as well, and so has what it is       *)
(* written for.  IInv adds that (SnapshotGood), and what a damaged file is *)
(* (DamagedEmpty).                                                         *)
(***************************************************************************)
EXTENDS SelectLogin, TLAPS

Replies == {None, 0, 200, 400, 403, 409, 500, 504}
Login == [phase : {"unused", "posted", "probing", "creating", "done"},
          tunnel : Tunnels \cup {None}, reply : Replies, expires : 0..MaxTime + TTL]

\* A cookie that is out, has not expired, and that no damaged file has broken.
Honoured(l) == login[l].reply = 200 /\ login[l].expires > env.now /\ l \notin env.excused

\* The parts of the state that TypeOK says less about.
Shapes ==
  /\ probes \in [channels : SUBSET Logins, timers : SUBSET Logins]
  /\ disk \in [ok : BOOLEAN, sessions : SUBSET Logins]
  /\ env \in [up : BOOLEAN, now : 0..MaxTime, losses : Nat, excused : SUBSET Logins]
  /\ writing # None =>
       writing \in [for : Logins \cup {None}, sessions : SUBSET Logins, written : BOOLEAN]

\* What persist is writing keeps every promise, and the one it will make.
SnapshotGood ==
  writing # None =>
    /\ env.up
    /\ \A l \in Logins : Honoured(l) => l \in writing.sessions
    /\ writing.for # None =>
         /\ login[writing.for].phase = "creating"
         /\ writing.for \in writing.sessions /\ writing.for \in mem

DamagedEmpty == ~disk.ok => disk.sessions = {}

IInv ==
  /\ TypeOK /\ ProbesReleased /\ CookieHonoured
  /\ Shapes /\ SnapshotGood /\ DamagedEmpty

-----------------------------------------------------------------------------
\* The operators of the model, field by field.

\* One field of a login at a time.
LEMMA LoginFields ==
  ASSUME NEW q \in Login, NEW status \in Replies
  PROVE  /\ [q EXCEPT !.phase = "done"] \in Login
         /\ [q EXCEPT !.phase = "done"].phase = "done"
         /\ [q EXCEPT !.phase = "done"].expires = q.expires
         /\ [q EXCEPT !.reply = status] \in Login
         /\ [q EXCEPT !.reply = status].phase = q.phase
         /\ [q EXCEPT !.reply = status].reply = status
         /\ [q EXCEPT !.reply = status].expires = q.expires
BY DEF Login

\* A reply is the end of its login and touches no other.
LEMMA ReplyFields ==
  ASSUME NEW f \in [Logins -> Login], NEW l \in Logins, NEW status \in Replies
  PROVE  /\ Reply(f, l, status) \in [Logins -> Login]
         /\ \A m \in Logins \ {l} : Reply(f, l, status)[m] = f[m]
         /\ Reply(f, l, status)[l].phase = "done"
         /\ Reply(f, l, status)[l].reply = status
         /\ Reply(f, l, status)[l].expires = f[l].expires
<1> DEFINE a == [f EXCEPT ![l].phase = "done"]
           b == [a EXCEPT ![l].reply = status]
<1>1. PICK q \in Login : q = f[l]
  OBVIOUS
<1>2. a = [f EXCEPT ![l] = [q EXCEPT !.phase = "done"]]
  BY <1>1, Zenon
<1>3. PICK r : r = [q EXCEPT !.phase = "done"]
  OBVIOUS
<1>4. /\ r \in Login /\ r.phase = "done" /\ r.expires = q.expires
  BY <1>3, LoginFields
<1>5. /\ a \in [Logins -> Login] /\ a[l] = r /\ \A m \in Logins \ {l} : a[m] = f[m]
  BY <1>2, <1>3, <1>4
<1>6. PICK t : t = [r EXCEPT !.reply = status]
  OBVIOUS
<1>7. t \in Login /\ t.phase = "done" /\ t.reply = status /\ t.expires = q.expires
  BY <1>4, <1>6, LoginFields
<1> HIDE DEF a
<1>8. b = [a EXCEPT ![l] = t]
  BY <1>5, <1>6, Zenon
<1>9. b \in [Logins -> Login] /\ b[l] = t /\ \A m \in Logins \ {l} : b[m] = f[m]
  BY <1>5, <1>7, <1>8
<1>10. Reply(f, l, status) = b
  BY Zenon DEF Reply, a
<1> QED
  BY <1>1, <1>7, <1>9, <1>10

-----------------------------------------------------------------------------
\* A gateway that starts with no snapshot keeps every promise: there is none.
THEOREM InitIInv == Init => IInv
<1> SUFFICES ASSUME Init PROVE IInv
  OBVIOUS
<1> USE LoginAssumption DEF Init
<1>1. TypeOK
  BY DEF TypeOK, Answered
<1>2. ProbesReleased
  BY DEF ProbesReleased
<1>3. CookieHonoured
  BY DEF CookieHonoured
<1>4. Shapes /\ SnapshotGood /\ DamagedEmpty
  BY DEF Shapes, SnapshotGood, DamagedEmpty
<1> QED
  BY <1>1, <1>2, <1>3, <1>4 DEF IInv

\* A step that answers one login with an error, one whose session nobody waits for.
LEMMA RefusalKeeps ==
  ASSUME IInv, NEW l \in Logins, NEW status \in Replies \ {None, 200},
         login[l].phase \in {"posted", "probing"},
         login' = Reply(login, l, status), probes' = Released({l}),
         UNCHANGED <<page, online, mem, writing, disk, env>>
  PROVE  IInv'
<1> USE LoginAssumption
<1>1. login \in [Logins -> Login]
  BY DEF IInv, TypeOK, Login, Replies
<1>2. /\ login' \in [Logins -> Login]
      /\ \A m \in Logins \ {l} : login'[m] = login[m]
      /\ login'[l].phase = "done" /\ login'[l].reply = status
  BY <1>1, ReplyFields
<1>3. TypeOK'
  BY <1>2 DEF IInv, TypeOK, Shapes, Answered, Login, Replies, Released
<1>4. ProbesReleased'
  BY <1>2 DEF IInv, Shapes, ProbesReleased, Released
<1>5. CookieHonoured'
  BY <1>2 DEF IInv, CookieHonoured
<1>6. Shapes' /\ DamagedEmpty'
  BY DEF IInv, Shapes, DamagedEmpty, Released
<1>7. SnapshotGood'
  BY <1>2 DEF IInv, Shapes, SnapshotGood, Honoured
<1> QED
  BY <1>3, <1>4, <1>5, <1>6, <1>7 DEF IInv

\* A step of the page, or of the registry of tunnels, that touches nothing else.
LEMMA OutsideKeeps ==
  ASSUME IInv, UNCHANGED <<login, probes, mem, writing, disk, env>>,
         online' \subseteq Tunnels,
         page' \in [dialog : Tunnels \cup {None}, waits : Logins \cup {None},
                    error : Tunnels \cup {None}]
  PROVE  IInv'
<1>1. TypeOK'
  BY DEF IInv, TypeOK, Answered
<1>2. ProbesReleased' /\ CookieHonoured'
  BY DEF IInv, ProbesReleased, CookieHonoured
<1>3. Shapes' /\ DamagedEmpty'
  BY DEF IInv, Shapes, DamagedEmpty
<1>4. SnapshotGood'
  BY DEF IInv, SnapshotGood, Honoured
<1> QED
  BY <1>1, <1>2, <1>3, <1>4 DEF IInv

-----------------------------------------------------------------------------
\* One lemma per action, or per group of actions with one argument.

\* The page's own steps and a computer's return.
LEMMA PageKeeps ==
  ASSUME IInv, OpenDialog \/ CloseDialog \/ PageHears \/ Reload \/ TunnelBack
  PROVE  IInv'
<1>1. /\ page \in [dialog : Tunnels \cup {None}, waits : Logins \cup {None},
                   error : Tunnels \cup {None}]
      /\ online \subseteq Tunnels
      /\ \A l \in Logins : login[l].tunnel \in Tunnels \cup {None}
  BY DEF IInv, TypeOK
<1>2. /\ UNCHANGED <<login, probes, mem, writing, disk, env>>
      /\ online' \subseteq Tunnels
      /\ page' \in [dialog : Tunnels \cup {None}, waits : Logins \cup {None},
                    error : Tunnels \cup {None}]
  <2>1. CASE OpenDialog
    BY <1>1, <2>1 DEF OpenDialog
  <2>2. CASE CloseDialog
    BY <1>1, <2>2 DEF CloseDialog
  <2>3. CASE PageHears
    BY <1>1, <2>3, ZenonT(60) DEF PageHears
  <2>4. CASE Reload
    BY <1>1, <2>4 DEF Reload
  <2>5. CASE TunnelBack
    BY <1>1, <2>5 DEF TunnelBack
  <2> QED
    BY <2>1, <2>2, <2>3, <2>4, <2>5
<1> QED
  BY <1>2, OutsideKeeps

\* The refusals: a bad form, an offline computer, a late probe.
LEMMA RefusalsKeep ==
  ASSUME IInv, BadForm \/ Offline \/ ProbeTimeout
  PROVE  IInv'
<1> USE LoginAssumption
<1>1. CASE BadForm
  <2>1. PICK l \in Logins : login[l].phase = "posted" /\ login' = Reply(login, l, 400)
    BY <1>1 DEF BadForm
  <2>2. probes = Released({l})
    BY <2>1 DEF IInv, Shapes, ProbesReleased, Released
  <2> QED
    BY <1>1, <2>1, <2>2, RefusalKeeps DEF BadForm, Replies
<1>2. CASE Offline
  <2>1. PICK l \in Logins : login[l].phase = "posted" /\ login' = Reply(login, l, 409)
    BY <1>2 DEF Offline
  <2>2. probes = Released({l})
    BY <2>1 DEF IInv, Shapes, ProbesReleased, Released
  <2> QED
    BY <1>2, <2>1, <2>2, RefusalKeeps DEF Offline, Replies
<1>3. CASE ProbeTimeout
  <2>1. PICK l \in probes.timers : probes' = TimedOut(l) /\ login' = Reply(login, l, 504)
    BY <1>3 DEF ProbeTimeout
  <2>2. l \in Logins /\ login[l].phase = "probing" /\ probes' = Released({l})
    BY <2>1 DEF IInv, Shapes, ProbesReleased, TimedOut
  <2> QED
    BY <1>3, <2>1, <2>2, RefusalKeeps DEF ProbeTimeout, Replies
<1> QED
  BY <1>1, <1>2, <1>3

\* The new login is posted, or over at once with a dead gateway.
LEMMA SubmitKeeps ==
  ASSUME IInv, Submit
  PROVE  IInv'
<1> USE LoginAssumption
<1> DEFINE phase == IF env.up THEN "posted" ELSE "done"
           reply == IF env.up THEN None ELSE 0
<1>1. login \in [Logins -> Login] /\ page.dialog \in Tunnels
  BY DEF IInv, TypeOK, Submit, Login, Replies
<1>2. PICK l \in Logins : /\ login[l].phase = "unused"
                          /\ page' = [page EXCEPT !.waits = l]
                          /\ login' = [login EXCEPT ![l].tunnel = page.dialog,
                                                    ![l].phase = phase, ![l].reply = reply]
  BY DEF Submit
<1>3. PICK q : q = login[l]
  OBVIOUS
<1>4. PICK r : r = [q EXCEPT !.tunnel = page.dialog, !.phase = phase, !.reply = reply]
  OBVIOUS
<1>5. r \in Login /\ r.phase = phase /\ r.reply = reply
  <2>1. q \in Login /\ phase \in {"posted", "done"} /\ reply \in Replies
    BY <1>1, <1>3 DEF Replies
  <2> HIDE DEF phase, reply
  <2> QED
    BY <1>1, <1>4, <2>1 DEF Login
<1>6. login' = [login EXCEPT ![l] = r]
  <2>1. login' = [login EXCEPT ![l] = [login[l] EXCEPT !.tunnel = page.dialog,
                                                       !.phase = phase, !.reply = reply]]
    BY <1>1, <1>2, Zenon
  <2> QED
    BY <2>1, <1>3, <1>4, Zenon
<1>7. /\ login' \in [Logins -> Login] /\ login'[l] = r
      /\ \A m \in Logins \ {l} : login'[m] = login[m]
  BY <1>1, <1>5, <1>6
<1>8. UNCHANGED <<probes, online, mem, writing, disk, env>>
  BY DEF Submit
<1>9. TypeOK'
  <2>1. (\A m \in Logins : Answered(m) = (login[m].phase = "done"))'
    BY <1>5, <1>7 DEF IInv, TypeOK, Answered
  <2>2. page' \in [dialog : Tunnels \cup {None}, waits : Logins \cup {None},
                   error : Tunnels \cup {None}]
    BY <1>2 DEF IInv, TypeOK
  <2> QED
    BY <1>7, <1>8, <2>1, <2>2 DEF IInv, TypeOK, Login, Replies
<1>10. ProbesReleased'
  BY <1>2, <1>5, <1>7, <1>8 DEF IInv, ProbesReleased
<1>11. CookieHonoured'
  BY <1>5, <1>7, <1>8 DEF IInv, CookieHonoured
<1>12. Shapes' /\ DamagedEmpty'
  BY <1>8 DEF IInv, Shapes, DamagedEmpty
<1>13. SnapshotGood'
  BY <1>2, <1>5, <1>7, <1>8 DEF IInv, Shapes, SnapshotGood, Honoured
<1> QED
  BY <1>9, <1>10, <1>11, <1>12, <1>13 DEF IInv

\* The channel and the timer are taken as the login begins to wait.
LEMMA ProbeKeeps ==
  ASSUME IInv, Probe
  PROVE  IInv'
<1> USE LoginAssumption
<1>1. login \in [Logins -> Login]
  BY DEF IInv, TypeOK, Login, Replies
<1>2. PICK l \in Logins : /\ login[l].phase = "posted"
                          /\ login' = [login EXCEPT ![l].phase = "probing"]
                          /\ probes' = Probed(l)
  BY DEF Probe
<1>3. PICK q : q = login[l]
  OBVIOUS
<1>4. PICK r : r = [q EXCEPT !.phase = "probing"]
  OBVIOUS
<1>5. r \in Login /\ r.phase = "probing" /\ r.reply = q.reply
  <2>1. q \in Login
    BY <1>1, <1>3
  <2> QED
    BY <1>4, <2>1 DEF Login
<1>6. login' = [login EXCEPT ![l] = r]
  BY <1>2, <1>3, <1>4, Zenon
<1>7. /\ login' \in [Logins -> Login] /\ login'[l] = r
      /\ \A m \in Logins \ {l} : login'[m] = login[m]
  BY <1>1, <1>5, <1>6
<1>8. UNCHANGED <<page, online, mem, writing, disk, env>>
  BY DEF Probe
<1>9. q.reply = None
  BY <1>2, <1>3 DEF IInv, TypeOK, Answered
<1>10. TypeOK'
  <2>1. (\A m \in Logins : Answered(m) = (login[m].phase = "done"))'
    BY <1>5, <1>7, <1>9 DEF IInv, TypeOK, Answered
  <2> QED
    BY <1>2, <1>7, <1>8, <2>1 DEF IInv, TypeOK, Login, Replies, Probed
<1>11. ProbesReleased'
  BY <1>2, <1>5, <1>7 DEF IInv, ProbesReleased, Probed
<1>12. CookieHonoured'
  BY <1>5, <1>7, <1>8, <1>9 DEF IInv, CookieHonoured
<1>13. Shapes' /\ DamagedEmpty'
  BY <1>2, <1>8 DEF IInv, Shapes, DamagedEmpty, Probed
<1>14. SnapshotGood'
  BY <1>8 DEF IInv, SnapshotGood, Probe, Idle
<1> QED
  BY <1>10, <1>11, <1>12, <1>13, <1>14 DEF IInv

\* The refusal is RefusalKeeps; 204 makes a session and begins its snapshot, which
\* holds every promise because the map does.
LEMMA HeadArrivesKeeps ==
  ASSUME IInv, HeadArrives
  PROVE  IInv'
<1> USE LoginAssumption
<1>1. PICK l \in probes.channels :
        /\ probes' = Released({l})
        /\ \/ login' = Reply(login, l, 403) /\ UNCHANGED <<mem, writing>>
           \/ /\ login' = [login EXCEPT ![l].phase = "creating", ![l].expires = env.now + TTL]
              /\ mem' = mem \cup {l}
              /\ Persist(Unexpired(mem) \cup {l}, l)
  BY DEF HeadArrives
<1>2. /\ l \in Logins /\ login[l].phase = "probing" /\ login \in [Logins -> Login]
      /\ env.up /\ writing = None /\ UNCHANGED <<page, online, disk, env>>
  BY <1>1 DEF IInv, TypeOK, Shapes, ProbesReleased, Login, Replies, HeadArrives, Idle
<1>3. CASE login' = Reply(login, l, 403) /\ UNCHANGED <<mem, writing>>
  BY <1>1, <1>2, <1>3, RefusalKeeps DEF Replies
<1>4. CASE /\ login' = [login EXCEPT ![l].phase = "creating", ![l].expires = env.now + TTL]
           /\ mem' = mem \cup {l}
           /\ Persist(Unexpired(mem) \cup {l}, l)
  <2>1. PICK q : q = login[l]
    OBVIOUS
  <2>2. PICK x : x = env.now + TTL
    OBVIOUS
  <2>3. PICK r : r = [q EXCEPT !.phase = "creating", !.expires = x]
    OBVIOUS
  <2>4. r \in Login /\ r.phase = "creating" /\ r.reply = None
    <3>1. q \in Login /\ x \in 0..MaxTime + TTL /\ q.reply = None
      BY <1>2, <2>1, <2>2 DEF IInv, TypeOK, Shapes, Answered
    <3> QED
      BY <2>3, <3>1 DEF Login
  <2>5. login' = [login EXCEPT ![l] = r]
    <3>1. login' = [login EXCEPT ![l] = [login[l] EXCEPT !.phase = "creating",
                                                         !.expires = env.now + TTL]]
      BY <1>2, <1>4, Zenon
    <3> QED
      BY <3>1, <2>1, <2>2, <2>3, Zenon
  <2>6. /\ login' \in [Logins -> Login] /\ login'[l] = r
        /\ \A m \in Logins \ {l} : login'[m] = login[m]
    BY <1>2, <2>4, <2>5
  <2>7. writing' = [for |-> l, sessions |-> Unexpired(mem) \cup {l}, written |-> FALSE]
    BY <1>4 DEF Persist
  <2>8. mem \subseteq Logins /\ Unexpired(mem) \cup {l} \subseteq Logins
    BY <1>2 DEF IInv, TypeOK, Unexpired
  <2>9. TypeOK'
    <3>1. (\A m \in Logins : Answered(m) = (login[m].phase = "done"))'
      BY <2>4, <2>6 DEF IInv, TypeOK, Answered
    <3> QED
      BY <1>1, <1>2, <1>4, <2>6, <2>7, <2>8, <3>1
      DEF IInv, TypeOK, Shapes, Login, Replies, Released
  <2>10. ProbesReleased'
    BY <1>1, <1>2, <2>4, <2>6 DEF IInv, Shapes, ProbesReleased, Released
  <2>11. CookieHonoured'
    <3>1. mem \subseteq mem' /\ r.reply # 200
      BY <1>4, <2>4
    <3> QED
      BY <1>2, <2>6, <3>1 DEF IInv, CookieHonoured
  <2>12. Shapes' /\ DamagedEmpty'
    BY <1>1, <1>2, <2>7, <2>8 DEF IInv, Shapes, DamagedEmpty, Released
  <2>13. SnapshotGood'
    <3>1. \A m \in Logins : Honoured(m)' => m \in Unexpired(mem) \cup {l}
      BY <1>2, <2>4, <2>6 DEF IInv, CookieHonoured, Honoured, Unexpired
    <3> QED
      BY <1>2, <1>4, <2>4, <2>6, <2>7, <3>1 DEF SnapshotGood
  <2> QED
    BY <2>9, <2>10, <2>11, <2>12, <2>13 DEF IInv
<1> QED
  BY <1>1, <1>3, <1>4

\* Many logins end at once; none of them has a session on the way.
LEMMA TunnelLostKeeps ==
  ASSUME IInv, TunnelLost
  PROVE  IInv'
<1> USE LoginAssumption
<1>1. PICK t \in online :
        LET L == {l \in probes.channels : login[l].tunnel = t} IN
        /\ online' = online \ {t}
        /\ probes' = Released(L)
        /\ login' = [l \in Logins |->
                      IF l \in L THEN [login[l] EXCEPT !.phase = "done", !.reply = 403]
                      ELSE login[l]]
  BY DEF TunnelLost
<1> DEFINE L == {l \in probes.channels : login[l].tunnel = t}
<1>2. /\ login \in [Logins -> Login] /\ L \subseteq Logins
      /\ \A l \in L : login[l].phase = "probing"
      /\ writing = None /\ UNCHANGED <<page, mem, writing, disk>>
      /\ env' = [env EXCEPT !.losses = @ + 1]
  BY ZenonT(60) DEF IInv, TypeOK, Shapes, ProbesReleased, Login, Replies, TunnelLost, Idle, Faulted
<1>3. probes' = Released(L) /\ online' \subseteq Tunnels
  BY <1>1 DEF IInv, TypeOK
<1>4. /\ login' \in [Logins -> Login]
      /\ \A l \in L : login'[l].phase = "done" /\ login'[l].reply = 403
      /\ \A l \in Logins \ L : login'[l] = login[l]
  <2> DEFINE ended(l) == [login[l] EXCEPT !.phase = "done", !.reply = 403]
  <2>1. ASSUME NEW l \in Logins
        PROVE  ended(l) \in Login /\ ended(l).phase = "done" /\ ended(l).reply = 403
    <3>1. PICK q \in Login : q = login[l]
      BY <1>2
    <3>2. PICK r : r = [q EXCEPT !.phase = "done", !.reply = 403]
      OBVIOUS
    <3>3. r \in Login /\ r.phase = "done" /\ r.reply = 403
      <4>1. q \in Login /\ 403 \in Replies
        BY <3>1 DEF Replies
      <4> QED
        BY <3>2, <4>1, ZenonT(60) DEF Login
    <3>4. ended(l) = r
      BY <3>1, <3>2, Zenon
    <3> QED
      BY <3>3, <3>4
  <2>2. login' = [l \in Logins |-> IF l \in L THEN ended(l) ELSE login[l]]
    BY <1>1, Zenon
  <2> HIDE DEF ended, L
  <2> QED
    BY <1>2, <2>1, <2>2
<1> HIDE DEF L
<1>5. /\ env' \in [up : BOOLEAN, now : 0..MaxTime, losses : Nat, excused : SUBSET Logins]
      /\ env'.up = env.up /\ env'.now = env.now /\ env'.excused = env.excused
  BY <1>2 DEF IInv, Shapes
<1>6. TypeOK'
  <2>1. (\A l \in Logins : Answered(l) = (login[l].phase = "done"))'
    BY <1>2, <1>4 DEF IInv, TypeOK, Answered
  <2> QED
    BY <1>2, <1>3, <1>4, <1>5, <2>1 DEF IInv, TypeOK, Shapes, Login, Replies, Released
<1>7. ProbesReleased'
  BY <1>2, <1>3, <1>4 DEF IInv, Shapes, ProbesReleased, Released
<1>8. CookieHonoured'
  BY <1>2, <1>4, <1>5 DEF IInv, CookieHonoured
<1>9. Shapes' /\ DamagedEmpty' /\ SnapshotGood'
  BY <1>2, <1>3, <1>5 DEF IInv, Shapes, DamagedEmpty, SnapshotGood, Released
<1> QED
  BY <1>6, <1>7, <1>8, <1>9 DEF IInv

\* The session a visit deletes has expired: no promise is about it.
LEMMA VisitKeeps ==
  ASSUME IInv, Visit
  PROVE  IInv'
<1> USE LoginAssumption
<1>1. PICK s \in mem : /\ login[s].expires <= env.now
                       /\ mem' = mem \ {s}
                       /\ Persist(Unexpired(mem \ {s}), None)
  BY DEF Visit
<1>2. UNCHANGED <<page, login, probes, online, disk, env>> /\ env.up
  BY DEF Visit, Idle
<1>3. writing' = [for |-> None, sessions |-> Unexpired(mem \ {s}), written |-> FALSE]
  BY <1>1 DEF Persist
<1>4. /\ mem \subseteq Logins /\ Unexpired(mem \ {s}) \subseteq Logins
      /\ env.now \in Nat /\ \A l \in Logins : login[l].expires \in Nat
  BY DEF IInv, TypeOK, Unexpired
<1>5. TypeOK'
  BY <1>1, <1>2, <1>3, <1>4 DEF IInv, TypeOK, Answered
<1>6. ProbesReleased'
  BY <1>2 DEF IInv, ProbesReleased
<1>7. CookieHonoured'
  BY <1>1, <1>2, <1>4 DEF IInv, CookieHonoured
<1>8. Shapes' /\ DamagedEmpty'
  BY <1>2, <1>3, <1>4 DEF IInv, Shapes, DamagedEmpty
<1>9. SnapshotGood'
  <2>1. \A l \in Logins : Honoured(l)' => l \in Unexpired(mem \ {s})
    BY <1>1, <1>2, <1>4 DEF IInv, CookieHonoured, Honoured, Unexpired
  <2> QED
    BY <1>2, <1>3, <2>1 DEF SnapshotGood
<1> QED
  BY <1>5, <1>6, <1>7, <1>8, <1>9 DEF IInv

\* The temporary file changes nothing that counts.
LEMMA WriteTmpKeeps ==
  ASSUME IInv, WriteTmp
  PROVE  IInv'
<1> USE LoginAssumption
<1>1. /\ writing # None /\ writing' = [writing EXCEPT !.written = TRUE]
      /\ UNCHANGED <<page, login, probes, online, mem, disk, env>>
  BY DEF WriteTmp, FileWritten
<1>2. /\ writing' \in [for : Logins \cup {None}, sessions : SUBSET Logins, written : BOOLEAN]
      /\ writing'.for = writing.for /\ writing'.sessions = writing.sessions
  BY <1>1 DEF IInv, Shapes
<1>3. TypeOK' /\ ProbesReleased' /\ CookieHonoured'
  BY <1>1, <1>2 DEF IInv, TypeOK, Answered, ProbesReleased, CookieHonoured
<1>4. Shapes' /\ DamagedEmpty' /\ SnapshotGood'
  BY <1>1, <1>2 DEF IInv, Shapes, DamagedEmpty, SnapshotGood, Honoured
<1> QED
  BY <1>3, <1>4 DEF IInv

\* The snapshot takes the place of the file, and the login it is for gets its cookie.
LEMMA RenameKeeps ==
  ASSUME IInv, Rename
  PROVE  IInv'
<1> USE LoginAssumption
<1>1. /\ env.up /\ writing # None /\ writing' = None
      /\ disk' = [ok |-> TRUE, sessions |-> writing.sessions]
      /\ login' = IF writing.for = None THEN login ELSE Reply(login, writing.for, 200)
      /\ UNCHANGED <<page, probes, online, mem, env>>
  BY DEF Rename
<1>2. /\ login \in [Logins -> Login] /\ writing.sessions \subseteq Logins
      /\ writing.for \in Logins \cup {None}
      /\ writing.for # None =>
           /\ login[writing.for].phase = "creating"
           /\ writing.for \in writing.sessions /\ writing.for \in mem
      /\ \A l \in Logins : Honoured(l) => l \in writing.sessions /\ l \in mem
  BY <1>1 DEF IInv, TypeOK, Shapes, SnapshotGood, CookieHonoured, Honoured, Login, Replies
<1>3. /\ login' \in [Logins -> Login]
      /\ \A l \in Logins : l # writing.for => login'[l] = login[l]
      /\ writing.for # None =>
           login'[writing.for].phase = "done" /\ login'[writing.for].reply = 200
  <2>1. CASE writing.for = None
    BY <1>1, <1>2, <2>1
  <2>2. CASE writing.for # None
    BY <1>1, <1>2, <2>2, ReplyFields DEF Replies
  <2> QED
    BY <2>1, <2>2
<1>4. TypeOK'
  <2>1. (\A l \in Logins : Answered(l) = (login[l].phase = "done"))'
    BY <1>2, <1>3 DEF IInv, TypeOK, Answered
  <2> QED
    BY <1>1, <1>2, <1>3, <2>1 DEF IInv, TypeOK, Login, Replies
<1>5. ProbesReleased'
  BY <1>1, <1>2, <1>3 DEF IInv, ProbesReleased
<1>6. CookieHonoured'
  BY <1>1, <1>2, <1>3 DEF CookieHonoured, Honoured
<1>7. Shapes' /\ DamagedEmpty' /\ SnapshotGood'
  BY <1>1, <1>2 DEF IInv, Shapes, DamagedEmpty, SnapshotGood
<1> QED
  BY <1>4, <1>5, <1>6, <1>7 DEF IInv

\* The file is as it was; the login the snapshot was for gets an error.
LEMMA PersistThrowsKeeps ==
  ASSUME IInv, PersistThrows
  PROVE  IInv'
<1> USE LoginAssumption
<1>1. /\ writing # None /\ writing' = None
      /\ login' = IF writing.for = None THEN login ELSE Reply(login, writing.for, 500)
      /\ env' = [env EXCEPT !.losses = @ + 1]
      /\ UNCHANGED <<page, probes, online, mem, disk>>
  BY DEF PersistThrows, Faulted
<1>2. /\ login \in [Logins -> Login]
      /\ writing.for \in Logins \cup {None}
      /\ writing.for # None => login[writing.for].phase = "creating"
  BY <1>1 DEF IInv, TypeOK, Shapes, SnapshotGood, Login, Replies
<1>3. /\ login' \in [Logins -> Login]
      /\ \A l \in Logins : l # writing.for => login'[l] = login[l]
      /\ writing.for # None =>
           login'[writing.for].phase = "done" /\ login'[writing.for].reply = 500
  <2>1. CASE writing.for = None
    BY <1>1, <1>2, <2>1
  <2>2. CASE writing.for # None
    BY <1>1, <1>2, <2>2, ReplyFields DEF Replies
  <2> QED
    BY <2>1, <2>2
<1>4. /\ env' \in [up : BOOLEAN, now : 0..MaxTime, losses : Nat, excused : SUBSET Logins]
      /\ env'.up = env.up /\ env'.now = env.now /\ env'.excused = env.excused
  BY <1>1 DEF IInv, Shapes
<1>5. TypeOK'
  <2>1. (\A l \in Logins : Answered(l) = (login[l].phase = "done"))'
    BY <1>2, <1>3 DEF IInv, TypeOK, Answered
  <2> QED
    BY <1>1, <1>3, <1>4, <2>1 DEF IInv, TypeOK, Login, Replies
<1>6. ProbesReleased'
  BY <1>1, <1>2, <1>3 DEF IInv, ProbesReleased
<1>7. CookieHonoured'
  BY <1>1, <1>2, <1>3, <1>4 DEF IInv, CookieHonoured
<1>8. Shapes' /\ DamagedEmpty' /\ SnapshotGood'
  BY <1>1, <1>4 DEF IInv, Shapes, DamagedEmpty, SnapshotGood
<1> QED
  BY <1>5, <1>6, <1>7, <1>8 DEF IInv

\* One more fault leaves the rest of the environment alone.
LEMMA FaultedFields ==
  ASSUME Shapes
  PROVE  /\ Faulted \in [up : BOOLEAN, now : 0..MaxTime, losses : Nat, excused : SUBSET Logins]
         /\ Faulted.up = env.up /\ Faulted.now = env.now /\ Faulted.excused = env.excused
BY DEF Shapes, Faulted

\* Every login that was under way ends without a cookie; the file survives.
LEMMA CrashKeeps ==
  ASSUME IInv, Crash
  PROVE  IInv'
<1> USE LoginAssumption
<1> DEFINE Pending == {l \in Logins : login[l].phase \in {"posted", "probing", "creating"}}
           ended(l) == [login[l] EXCEPT !.phase = "done", !.reply = 0]
<1>1. /\ env' = [Faulted EXCEPT !.up = FALSE]
      /\ mem' = {} /\ writing' = None /\ online' = {}
      /\ probes' = [channels |-> {}, timers |-> {}]
      /\ UNCHANGED <<page, disk>>
  BY DEF Crash
<1>2. login \in [Logins -> Login]
  BY DEF IInv, TypeOK, Login, Replies
<1>3. ASSUME NEW l \in Logins
      PROVE  ended(l) \in Login /\ ended(l).phase = "done" /\ ended(l).reply = 0
  <2>1. PICK q \in Login : q = login[l]
    BY <1>2
  <2>2. PICK r : r = [q EXCEPT !.phase = "done", !.reply = 0]
    OBVIOUS
  <2>3. r \in Login /\ r.phase = "done" /\ r.reply = 0
    <3>1. q \in Login /\ 0 \in Replies
      BY <2>1 DEF Replies
    <3> QED
      BY <2>2, <3>1 DEF Login
  <2>4. ended(l) = r
    BY <2>1, <2>2, Zenon
  <2> QED
    BY <2>3, <2>4
<1>4. login' = [l \in Logins |-> IF l \in Pending THEN ended(l) ELSE login[l]]
  <2>1. login' = [l \in Logins |->
                   IF login[l].phase \in {"posted", "probing", "creating"}
                   THEN ended(l) ELSE login[l]]
    BY Zenon DEF Crash
  <2> HIDE DEF ended
  <2> QED
    BY <2>1
<1>5. /\ login' \in [Logins -> Login]
      /\ \A l \in Pending : login'[l].phase = "done" /\ login'[l].reply = 0
      /\ \A l \in Logins \ Pending : login'[l] = login[l]
      /\ \A l \in Logins : login'[l].phase \notin {"posted", "probing", "creating"}
  <2>1. Pending \subseteq Logins
    OBVIOUS
  <2>2. \A l \in Logins \ Pending : login[l].phase \notin {"posted", "probing", "creating"}
    OBVIOUS
  <2> HIDE DEF ended, Pending
  <2> QED
    BY <1>2, <1>3, <1>4, <2>1, <2>2
<1> HIDE DEF ended, Pending
<1>6. /\ env' \in [up : BOOLEAN, now : 0..MaxTime, losses : Nat, excused : SUBSET Logins]
      /\ env'.up = FALSE /\ env'.now = env.now /\ env'.excused = env.excused
  BY <1>1, FaultedFields DEF IInv
<1>7. TypeOK'
  <2>1. (\A l \in Logins : Answered(l) = (login[l].phase = "done"))'
    BY <1>5 DEF IInv, TypeOK, Answered
  <2> QED
    BY <1>1, <1>5, <1>6, <2>1 DEF IInv, TypeOK, Login, Replies
<1>8. ProbesReleased'
  BY <1>1, <1>5 DEF ProbesReleased
<1>9. CookieHonoured'
  BY <1>1, <1>5, <1>6 DEF IInv, CookieHonoured
<1>10. Shapes' /\ DamagedEmpty' /\ SnapshotGood'
  BY <1>1, <1>6 DEF IInv, Shapes, DamagedEmpty, SnapshotGood
<1> QED
  BY <1>7, <1>8, <1>9, <1>10 DEF IInv

\* What the damaged file promised is excused.
LEMMA DamageKeeps ==
  ASSUME IInv, Damage
  PROVE  IInv'
<1> USE LoginAssumption
<1>1. /\ ~env.up /\ disk' = [ok |-> FALSE, sessions |-> {}]
      /\ env' = [Faulted EXCEPT !.excused = @ \cup disk.sessions]
      /\ UNCHANGED <<page, login, probes, online, mem, writing>>
  BY DEF Damage
<1>2. /\ env' \in [up : BOOLEAN, now : 0..MaxTime, losses : Nat, excused : SUBSET Logins]
      /\ ~env'.up /\ env'.now = env.now /\ env'.excused = env.excused \cup disk.sessions
  <2>1. disk.sessions \subseteq Logins
    BY DEF IInv, TypeOK
  <2> QED
    BY <1>1, <2>1, FaultedFields DEF IInv
<1>3. TypeOK' /\ ProbesReleased'
  BY <1>1, <1>2 DEF IInv, TypeOK, Answered, ProbesReleased
<1>4. CookieHonoured'
  BY <1>1, <1>2 DEF IInv, CookieHonoured
<1>5. Shapes' /\ DamagedEmpty' /\ SnapshotGood'
  BY <1>1, <1>2 DEF IInv, Shapes, DamagedEmpty, SnapshotGood
<1> QED
  BY <1>3, <1>4, <1>5 DEF IInv

\* A damaged file is read as an empty one, and has been excused.
LEMMA RestartKeeps ==
  ASSUME IInv, Restart
  PROVE  IInv'
<1> USE LoginAssumption
<1>1. /\ ~env.up /\ env' = [env EXCEPT !.up = TRUE]
      /\ mem' = IF disk.ok THEN Unexpired(disk.sessions) ELSE {}
      /\ UNCHANGED <<page, login, probes, online, writing, disk>>
  BY DEF Restart
<1>2. /\ env' \in [up : BOOLEAN, now : 0..MaxTime, losses : Nat, excused : SUBSET Logins]
      /\ env'.now = env.now /\ env'.excused = env.excused
  BY <1>1 DEF IInv, Shapes
<1>3. mem' \subseteq Logins
  BY <1>1 DEF IInv, Shapes, Unexpired
<1>4. TypeOK' /\ ProbesReleased'
  BY <1>1, <1>2, <1>3 DEF IInv, TypeOK, Answered, ProbesReleased
<1>5. CookieHonoured'
  BY <1>1, <1>2 DEF IInv, CookieHonoured, DamagedEmpty, Unexpired
<1>6. writing = None
  BY <1>1 DEF IInv, SnapshotGood
<1>7. Shapes' /\ DamagedEmpty' /\ SnapshotGood'
  BY <1>1, <1>2, <1>6 DEF IInv, Shapes, DamagedEmpty, SnapshotGood
<1> QED
  BY <1>4, <1>5, <1>7 DEF IInv

\* Time only takes promises away.
LEMMA TickKeeps ==
  ASSUME IInv, Tick
  PROVE  IInv'
<1> USE LoginAssumption
<1>1. /\ env.now < MaxTime /\ env' = [env EXCEPT !.now = @ + 1]
      /\ UNCHANGED <<page, login, probes, online, mem, writing, disk>>
  BY DEF Tick
<1>2. /\ env' \in [up : BOOLEAN, now : 0..MaxTime, losses : Nat, excused : SUBSET Logins]
      /\ env'.up = env.up /\ env'.now = env.now + 1 /\ env'.excused = env.excused
      /\ env.now \in Nat /\ \A l \in Logins : login[l].expires \in Nat
  BY <1>1 DEF IInv, Shapes, TypeOK
<1>3. TypeOK' /\ ProbesReleased'
  BY <1>1, <1>2 DEF IInv, TypeOK, Answered, ProbesReleased
<1>4. \A l \in Logins : Honoured(l)' => Honoured(l)
  BY <1>1, <1>2 DEF Honoured
<1>5. CookieHonoured'
  BY <1>1, <1>2, <1>4 DEF IInv, CookieHonoured, Honoured
<1>6. Shapes' /\ DamagedEmpty'
  BY <1>1, <1>2 DEF IInv, Shapes, DamagedEmpty
<1>7. SnapshotGood'
  BY <1>1, <1>2, <1>4 DEF IInv, SnapshotGood
<1> QED
  BY <1>3, <1>5, <1>6, <1>7 DEF IInv

-----------------------------------------------------------------------------
\* No step of the page, the gateway, the tunnels, the store or the process breaks the invariant.
THEOREM StepIInv == IInv /\ [Next]_vars => IInv'
<1> SUFFICES ASSUME IInv, [Next]_vars PROVE IInv'
  OBVIOUS
<1>1. CASE OpenDialog \/ CloseDialog \/ PageHears \/ Reload \/ TunnelBack
  BY <1>1, PageKeeps
<1>2. CASE BadForm \/ Offline \/ ProbeTimeout
  BY <1>2, RefusalsKeep
<1>3. CASE Submit \/ Probe \/ HeadArrives \/ TunnelLost
  BY <1>3, SubmitKeeps, ProbeKeeps, HeadArrivesKeeps, TunnelLostKeeps
<1>4. CASE Visit \/ WriteTmp \/ Rename \/ PersistThrows
  BY <1>4, VisitKeeps, WriteTmpKeeps, RenameKeeps, PersistThrowsKeeps
<1>5. CASE Crash \/ Damage \/ Restart \/ Tick
  BY <1>5, CrashKeeps, DamageKeeps, RestartKeeps, TickKeeps
<1>6. CASE UNCHANGED vars
  <2>1. page \in [dialog : Tunnels \cup {None}, waits : Logins \cup {None},
                  error : Tunnels \cup {None}] /\ online \subseteq Tunnels
    BY DEF IInv, TypeOK
  <2> QED
    BY <1>6, <2>1, OutsideKeeps DEF vars
<1> QED
  BY <1>1, <1>2, <1>3, <1>4, <1>5, <1>6 DEF Next

\* Every reachable state of the login satisfies the invariant.
THEOREM IInvAlways == Spec => []IInv
BY InitIInv, StepIInv, PTL DEF Spec

\* The types, and the accounting of probes: a login is over exactly when it has been
\* answered, and only one that waits for its probe holds a channel and a timer.
THEOREM LoginAlways == Spec => []LoginInv
<1>1. IInv => LoginInv
  BY DEF IInv, LoginInv
<1> QED
  BY <1>1, IInvAlways, PTL

\* A cookie that has been given out is in the snapshot, and in the map of a running
\* gateway, until it expires: crashes between the two halves of a write, failed
\* writes and restarts included.
THEOREM CookieAlways == Spec => []CookieHonoured
<1>1. IInv => CookieHonoured
  BY DEF IInv
<1> QED
  BY <1>1, IInvAlways, PTL
=============================================================================

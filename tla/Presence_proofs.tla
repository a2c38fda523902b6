-------------------------- MODULE Presence_proofs --------------------------
(***************************************************************************)
(* Theorems about Presence, for every set of connections and processes and *)
(* every placing of the ones on the others.                                *)
(***************************************************************************)
EXTENDS Presence, TLAPS

-----------------------------------------------------------------------------
(* The inductive invariant.                                                *)

\* PresenceTypeOK, in its parts.
Typed ==
    /\ sock \in [Socket -> SockType]
    /\ row \in [status : Status, fresh : BOOLEAN]
    /\ redis \in [presence : BOOLEAN, requeue : BOOLEAN]
    /\ timer \in [Process -> TimerType]
    /\ check \in [Process -> CheckType]
    /\ {holds, forgotten} \subseteq BOOLEAN
    /\ DOMAIN waits = Socket \cup Process

Focused == \A s \in Socket : sock[s].focus => s \in Live

Waiting ==
    /\ \A s \in Socket : waits[s] \subseteq Running
    /\ \A p \in Process : waits[p] \subseteq {Beat}

\* An agent is announced on behalf of a live connection, or of one whose grace
\* is not over before the announcement is.
Linked ==
    \A s \in Socket : sock[s].online # "idle" =>
        sock[s].link = "live" \/ (sock[s].link = "grace" /\ s \in waits[s])

\* From its announcement on, a tab with the focus keeps the row from both the
\* handlers of lost connections and the sweep.
RowKept ==
    \A s \in Live : sock[s].focus /\ sock[s].online # "state" =>
        row.status # "offline" /\ row.fresh

\* A handler that is to write "offline", and knows of no connection opened
\* since it looked, is right.
UpdateAlone == (\E s \in Socket : sock[s].link = "update") => Live = {}

\* Somebody is at work and the presence key is missing: every timer and
\* callback is older than its deletion, or the next beat comes first.
CrossedOut ==
    ~ redis.presence /\ Here # {} =>
        \A p \in Process :
            /\ timer[p].on => timer[p].crossed \/ Beat \in waits[p]
            /\ check[p].pc = "presence" => check[p].excused

\* Whoever set the presence key still has to go through the steps that delete
\* it and set the timer.
KeySomeone ==
    redis.presence /\ ~ forgotten =>
        \E s \in Socket : sock[s].link \notin {"off", "setex"}

\* A callback about to delete a requeue key that is not its own: somebody is
\* still on the way to set it again.
DropSomeone ==
    holds /\ ~ forgotten =>
        \A p \in Process : check[p].pc = "del" /\ ~ check[p].excused =>
            \E s \in Socket : sock[s].link # "off"

IInv ==
    /\ Typed /\ Focused /\ Waiting /\ Linked
    /\ RowKept /\ UpdateAlone
    /\ CrossedOut /\ AttendedKeep
    /\ KeySomeone /\ DropSomeone /\ GoneIsPursued

LEMMA InitIInv == Init => IInv
<1> SUFFICES ASSUME Init PROVE IInv
  OBVIOUS
<1>1. Typed /\ Focused /\ Waiting
  BY DEF Init, Typed, Focused, Waiting, SockType, Status, TimerType, CheckType,
         Closed, NoTimer, NoCheck, Link, Online
<1>2. Linked /\ RowKept /\ UpdateAlone /\ CrossedOut /\ AttendedKeep
  BY DEF Init, Linked, RowKept, UpdateAlone, CrossedOut, AttendedKeep, Closed,
         NoTimer, NoCheck, Live, Here
<1>3. KeySomeone /\ DropSomeone /\ GoneIsPursued
  BY DEF Init, KeySomeone, DropSomeone, GoneIsPursued
<1> QED
  BY <1>1, <1>2, <1>3 DEF IInv

-----------------------------------------------------------------------------
(* What a step on behalf of one connection leaves alone.                   *)

LEMMA OneSocket ==
    ASSUME Typed, NEW s \in Socket, NEW q \in SockType, sock' = [sock EXCEPT ![s] = q]
    PROVE  /\ sock' \in [Socket -> SockType]
           /\ sock'[s] = q
           /\ \A t \in Socket \ {s} : sock'[t] = sock[t]
  BY DEF Typed

\* A connection that is not live before nor after: the tabs are what they were.
LEMMA NotLive ==
    ASSUME NEW s \in Socket, sock[s].link # "live", sock'[s].link # "live",
           \A t \in Socket \ {s} : sock'[t] = sock[t]
    PROVE  Live' = Live /\ Here' = Here
  BY DEF Live, Here

-----------------------------------------------------------------------------
(* The client.                                                             *)

LEMMA ConnectKeeps ==
    ASSUME IInv, NEW s \in Socket, Connect(s)
    PROVE  IInv'
<1> USE DEF IInv, Connect
<1>1. /\ sock' \in [Socket -> SockType]
      /\ sock'[s] = [link |-> "live", focus |-> TRUE, online |-> "state"]
      /\ \A t \in Socket \ {s} :
            sock'[t] = [sock[t] EXCEPT !.link = IF @ = "update" THEN "late" ELSE @]
  BY DEF Typed, SockType, Link, Online
<1>2. Typed'
  BY <1>1 DEF Typed
<1>3. Here' = Here
  BY <1>1 DEF Here, Live, Closed, Typed, SockType
<1>4. Focused' /\ Linked' /\ RowKept' /\ UpdateAlone'
  BY <1>1 DEF Focused, Linked, RowKept, UpdateAlone, Live, Typed, SockType
<1>5. Waiting'
  BY <1>1 DEF Waiting, Running, Leaving, Announcing, Closed, Typed, SockType
<1>6. CrossedOut' /\ AttendedKeep'
  BY <1>3 DEF CrossedOut, AttendedKeep
<1>7. KeySomeone' /\ DropSomeone' /\ GoneIsPursued'
  BY <1>1 DEF KeySomeone, DropSomeone, GoneIsPursued, Live
<1> QED
  BY <1>2, <1>4, <1>5, <1>6, <1>7

LEMMA FocusKeeps ==
    ASSUME IInv, NEW s \in Socket, Focus(s)
    PROVE  IInv'
<1> USE DEF IInv, Focus
<1>1. /\ sock' \in [Socket -> SockType]
      /\ sock'[s] = [sock[s] EXCEPT !.focus = TRUE, !.online = "state"]
      /\ \A t \in Socket \ {s} : sock'[t] = sock[t]
  BY DEF Typed, SockType, Online
<1>2. Typed'
  BY <1>1 DEF Typed
<1>3. Here' = Here /\ Live' = Live
  BY <1>1 DEF Here, Live, Typed, SockType
<1>4. Focused' /\ Linked' /\ RowKept' /\ UpdateAlone'
  BY <1>1, <1>3 DEF Focused, Linked, RowKept, UpdateAlone, Live, Typed, SockType
<1>5. Waiting'
  BY <1>1 DEF Waiting, Running, Leaving, Announcing, Typed, SockType
<1>6. CrossedOut' /\ AttendedKeep'
  BY <1>3 DEF CrossedOut, AttendedKeep
<1>7. KeySomeone' /\ DropSomeone' /\ GoneIsPursued'
  BY <1>1, <1>3 DEF KeySomeone, DropSomeone, GoneIsPursued, Live, Pursuing, Typed, SockType
<1> QED
  BY <1>2, <1>4, <1>5, <1>6, <1>7

LEMMA HeartbeatKeeps ==
    ASSUME IInv, NEW s \in Socket, Heartbeat(s)
    PROVE  IInv'
<1> USE DEF IInv, Heartbeat
<1>1. Typed'
  BY DEF Typed, Ended
<1>2. \A x \in Socket \cup Process : waits'[x] = waits[x] \ {Beat}
  BY DEF Typed, Ended
<1>3. Focused' /\ Waiting' /\ Linked' /\ UpdateAlone'
  BY <1>2, PresenceAssumption DEF Focused, Waiting, Linked, UpdateAlone, Running, Leaving,
                                  Announcing, Live
<1>4. RowKept'
  BY DEF RowKept, Live, Typed
<1>5. CrossedOut' /\ AttendedKeep'
  BY DEF CrossedOut, AttendedKeep, Typed
<1>6. KeySomeone' /\ DropSomeone' /\ GoneIsPursued'
  BY DEF KeySomeone, DropSomeone, GoneIsPursued, Live
<1> QED
  BY <1>1, <1>3, <1>4, <1>5, <1>6

\* The rest of a step that takes the focus from a tab.
LEMMA UnfocusKeeps ==
    ASSUME IInv, NEW s \in Live, NEW link \in {"live", "grace"},
           sock' = [sock EXCEPT ![s] = [@ EXCEPT !.link = link, !.focus = FALSE]],
           DOMAIN waits' = Socket \cup Process,
           \A x \in (Socket \cup Process) \ {s} :
               waits'[x] = IF Here \subseteq {s} THEN waits[x] \ {Beat} ELSE waits[x],
           waits'[s] \subseteq Running,
           link = "grace" /\ sock[s].online # "idle" => s \in waits'[s],
           UNCHANGED <<row, redis, timer, check, holds, forgotten>>
    PROVE  IInv'
<1> USE DEF IInv
<1>0. s \in Socket /\ sock[s].link = "live"
  BY DEF Live
<1> DEFINE q == [sock[s] EXCEPT !.link = link, !.focus = FALSE]
<1>1. q \in SockType
  BY <1>0 DEF Typed, SockType, Link
<1>2. /\ sock' \in [Socket -> SockType]
      /\ sock'[s] = q
      /\ \A t \in Socket \ {s} : sock'[t] = sock[t]
  BY <1>0, <1>1, OneSocket
<1>3. q.link = link /\ ~ q.focus /\ q.online = sock[s].online
  BY <1>0 DEF Typed, SockType
<1> HIDE DEF q
<1>4. Typed'
  BY <1>2 DEF Typed
<1>5. Here' = Here \ {s} /\ Live' \subseteq Live
  BY <1>0, <1>2, <1>3 DEF Here, Live
<1>6. Focused' /\ RowKept' /\ UpdateAlone'
  BY <1>0, <1>2, <1>3, <1>5 DEF Focused, RowKept, UpdateAlone, Live
<1> DEFINE others == (Socket \cup Process) \ {s}
<1>6w. \A x \in others : waits'[x] = waits[x] \/ waits'[x] = waits[x] \ {Beat}
  OBVIOUS
<1>7. Linked'
  <2>1. sock[s].online # "idle" /\ link = "grace" => s \in waits'[s]
    OBVIOUS
  <2>2. \A t \in Socket \ {s} : t \in waits[t] => t \in waits'[t]
    BY <1>6w, PresenceAssumption
  <2> QED
    BY <1>0, <1>2, <1>3, <2>1, <2>2 DEF Linked
<1>8. Waiting'
  <2>1. Running \subseteq Running'
    BY <1>0, <1>2, <1>3 DEF Running, Leaving, Announcing
  <2> QED
    BY <1>0, <1>6w, <2>1, PresenceAssumption DEF Waiting
<1>9. CrossedOut' /\ AttendedKeep'
  BY <1>5, <1>0, PresenceAssumption DEF CrossedOut, AttendedKeep
<1>10. KeySomeone' /\ DropSomeone' /\ GoneIsPursued'
  BY <1>0, <1>2, <1>3 DEF KeySomeone, DropSomeone, GoneIsPursued
<1> QED
  BY <1>4, <1>6, <1>7, <1>8, <1>9, <1>10

LEMMA BlurKeeps ==
    ASSUME IInv, NEW s \in Socket, Blur(s)
    PROVE  IInv'
<1>1. s \in Live /\ UNCHANGED <<row, redis, timer, check, holds, forgotten>>
  BY DEF Blur
<1>2. sock' = [sock EXCEPT ![s] = [@ EXCEPT !.link = "live", !.focus = FALSE]]
  BY DEF Blur, Live, IInv, Typed, SockType
<1>3. waits' = IF Here \ {s} = {} THEN Ended(Beat) ELSE waits
  BY DEF Blur, Unowed
<1>4. /\ DOMAIN waits' = Socket \cup Process
      /\ \A x \in (Socket \cup Process) \ {s} :
             waits'[x] = IF Here \subseteq {s} THEN waits[x] \ {Beat} ELSE waits[x]
  BY <1>3 DEF Ended, IInv, Typed
<1>5. waits'[s] \subseteq Running
  BY <1>3 DEF Ended, IInv, Waiting, Typed
<1> QED
  BY <1>1, <1>2, <1>4, <1>5, UnfocusKeeps

LEMMA DisconnectKeeps ==
    ASSUME IInv, NEW s \in Socket, Disconnect(s)
    PROVE  IInv'
<1>1. s \in Live /\ UNCHANGED <<row, redis, timer, check, holds, forgotten>>
  BY DEF Disconnect
<1>2. sock' = [sock EXCEPT ![s] = [@ EXCEPT !.link = "grace", !.focus = FALSE]]
  BY DEF Disconnect, IInv, Typed, SockType
<1>3. waits' = [(IF Here \ {s} = {} THEN Ended(Beat) ELSE waits) EXCEPT ![s] = Running]
  BY DEF Disconnect, Unowed
<1>4. /\ DOMAIN waits' = Socket \cup Process /\ waits'[s] = Running
      /\ \A x \in (Socket \cup Process) \ {s} :
             waits'[x] = IF Here \subseteq {s} THEN waits[x] \ {Beat} ELSE waits[x]
  BY <1>3 DEF Ended, IInv, Typed
<1>5. sock[s].online # "idle" => s \in Running
  BY DEF Running, Announcing
<1> QED
  BY <1>1, <1>2, <1>4, <1>5, UnfocusKeeps

-----------------------------------------------------------------------------
(* handlePresenceOnline.                                                   *)

LEMMA SetPresenceStateKeeps ==
    ASSUME IInv, NEW s \in Socket, SetPresenceState(s)
    PROVE  IInv'
<1> USE DEF IInv, SetPresenceState
<1> DEFINE q == [sock[s] EXCEPT !.online = "key"]
<1>1. q \in SockType /\ q.link = sock[s].link /\ q.focus = sock[s].focus /\ q.online = "key"
  BY DEF Typed, SockType, Online
<1>2. sock' = [sock EXCEPT ![s] = q]
  OBVIOUS
<1> HIDE DEF q
<1>3. /\ sock' \in [Socket -> SockType] /\ sock'[s] = q
      /\ \A t \in Socket \ {s} : sock'[t] = sock[t]
  BY <1>1, <1>2, OneSocket
<1>4. Typed'
  BY <1>3 DEF Typed, Status
<1>5. Here' = Here /\ Live' = Live
  BY <1>1, <1>3 DEF Here, Live
<1>6. Focused' /\ Linked' /\ RowKept' /\ UpdateAlone'
  BY <1>1, <1>3, <1>5 DEF Focused, Linked, RowKept, UpdateAlone
<1>7. Waiting'
  BY <1>1, <1>3 DEF Waiting, Running, Leaving, Announcing
<1>8. CrossedOut' /\ AttendedKeep'
  BY <1>5 DEF CrossedOut, AttendedKeep
<1>9. KeySomeone' /\ DropSomeone' /\ GoneIsPursued'
  BY <1>1, <1>3, <1>5 DEF KeySomeone, DropSomeone, GoneIsPursued, Pursuing
<1> QED
  BY <1>4, <1>6, <1>7, <1>8, <1>9

LEMMA TouchPresenceKeyKeeps ==
    ASSUME IInv, NEW s \in Socket, TouchPresenceKey(s)
    PROVE  IInv'
<1> USE DEF IInv, TouchPresenceKey
<1> DEFINE q == [sock[s] EXCEPT !.online = "exists"]
<1>1. /\ q \in SockType /\ q.link = sock[s].link /\ q.focus = sock[s].focus
      /\ q.online = "exists" /\ redis'.presence
  BY DEF Typed, SockType, Online
<1>2. sock' = [sock EXCEPT ![s] = q]
  OBVIOUS
<1> HIDE DEF q
<1>3. /\ sock' \in [Socket -> SockType] /\ sock'[s] = q
      /\ \A t \in Socket \ {s} : sock'[t] = sock[t]
  BY <1>1, <1>2, OneSocket
<1>4. Typed'
  BY <1>3 DEF Typed
<1>5. Live' = Live /\ sock[s].link \in {"live", "grace"}
  BY <1>1, <1>3 DEF Live, Linked
<1>6. Focused' /\ Linked' /\ RowKept' /\ UpdateAlone'
  BY <1>1, <1>3, <1>5 DEF Focused, Linked, RowKept, UpdateAlone
<1>7. Waiting'
  BY <1>1, <1>3 DEF Waiting, Running, Leaving, Announcing
<1>8. CrossedOut' /\ AttendedKeep'
  BY <1>1 DEF CrossedOut, AttendedKeep
<1>9. KeySomeone' /\ DropSomeone' /\ GoneIsPursued'
  BY <1>1, <1>3, <1>5 DEF KeySomeone, DropSomeone, GoneIsPursued
<1> QED
  BY <1>4, <1>6, <1>7, <1>8, <1>9

LEMMA LookForRequeueKeeps ==
    ASSUME IInv, NEW s \in Socket, LookForRequeue(s)
    PROVE  IInv'
<1> USE DEF IInv, LookForRequeue
<1> DEFINE q == [sock[s] EXCEPT !.online = IF redis.requeue THEN "found" ELSE "missing"]
<1>1. /\ q \in SockType /\ q.link = sock[s].link /\ q.focus = sock[s].focus
      /\ q.online \in {"found", "missing"}
  BY DEF Typed, SockType, Online
<1>2. sock' = [sock EXCEPT ![s] = q]
  OBVIOUS
<1> HIDE DEF q
<1>3. /\ sock' \in [Socket -> SockType] /\ sock'[s] = q
      /\ \A t \in Socket \ {s} : sock'[t] = sock[t]
  BY <1>1, <1>2, OneSocket
<1>4. Typed'
  BY <1>3 DEF Typed
<1>5. Here' = Here /\ Live' = Live
  BY <1>1, <1>3 DEF Here, Live
<1>6. Focused' /\ Linked' /\ RowKept' /\ UpdateAlone'
  BY <1>1, <1>3, <1>5 DEF Focused, Linked, RowKept, UpdateAlone
<1>7. Waiting'
  BY <1>1, <1>3 DEF Waiting, Running, Leaving, Announcing
<1>8. CrossedOut' /\ AttendedKeep'
  BY <1>5 DEF CrossedOut, AttendedKeep
<1>9. KeySomeone' /\ DropSomeone' /\ GoneIsPursued'
  BY <1>1, <1>3, <1>5 DEF KeySomeone, DropSomeone, GoneIsPursued, Pursuing
<1> QED
  BY <1>4, <1>6, <1>7, <1>8, <1>9

LEMMA CancelPendingRequeueKeeps ==
    ASSUME IInv, NEW s \in Socket, CancelPendingRequeue(s)
    PROVE  IInv'
<1> USE DEF IInv, CancelPendingRequeue
<1> DEFINE q == [sock[s] EXCEPT !.online = "idle"]
<1>0. Host[s] \in Process /\ s \notin Process
  BY PresenceAssumption
<1>1. /\ q \in SockType /\ q.link = sock[s].link /\ q.focus = sock[s].focus
      /\ q.online = "idle" /\ redis'.presence = redis.presence
  BY DEF Typed, SockType, Online
<1>2. sock' = [sock EXCEPT ![s] = q]
  OBVIOUS
<1> HIDE DEF q
<1>3. /\ sock' \in [Socket -> SockType] /\ sock'[s] = q
      /\ \A t \in Socket \ {s} : sock'[t] = sock[t]
  BY <1>1, <1>2, OneSocket
<1>4. /\ timer' \in [Process -> TimerType] /\ ~ timer'[Host[s]].on
      /\ \A p \in Process \ {Host[s]} : timer'[p] = timer[p]
  BY <1>0 DEF Cleared, NoTimer, Typed, TimerType
<1>5. /\ DOMAIN waits' = Socket \cup Process
      /\ \A x \in Socket : waits'[x] = waits[x] \ {s}
      /\ \A p \in Process : p # Host[s] => waits'[p] = waits[p] \ {s}
      /\ waits'[Host[s]] = {}
  BY <1>0, PresenceAssumption DEF Typed
<1>6. redis' \in [presence : BOOLEAN, requeue : BOOLEAN]
  BY DEF Typed
<1>7. Typed'
  BY <1>3, <1>4, <1>5, <1>6 DEF Typed
<1>8. Here' = Here /\ Live' = Live /\ sock[s].link \in {"live", "grace"}
  BY <1>1, <1>3 DEF Here, Live, Linked
<1>9. Focused' /\ Linked' /\ RowKept' /\ UpdateAlone'
  BY <1>1, <1>3, <1>5, <1>8 DEF Focused, Linked, RowKept, UpdateAlone
<1>10. Waiting'
  <2>1. Running \ {s} \subseteq Running'
    BY <1>1, <1>3 DEF Running, Leaving, Announcing
  <2> QED
    BY <1>5, <2>1 DEF Waiting
<1>11. CrossedOut' /\ AttendedKeep'
  <2>1. \A p \in Process : Beat \in waits[p] /\ timer'[p].on => Beat \in waits'[p]
    BY <1>4, <1>5, PresenceAssumption
  <2> QED
    BY <1>1, <1>4, <1>8, <2>1 DEF CrossedOut, AttendedKeep
<1>12. KeySomeone' /\ DropSomeone' /\ GoneIsPursued'
  BY <1>1, <1>3, <1>8 DEF KeySomeone, DropSomeone, GoneIsPursued
<1> QED
  BY <1>7, <1>9, <1>10, <1>11, <1>12

-----------------------------------------------------------------------------
(* The handler of a lost connection.                                       *)

LEMMA LookAroundKeeps ==
    ASSUME IInv, NEW s \in Socket, LookAround(s)
    PROVE  IInv'
<1> USE DEF IInv, LookAround
<1>0. sock[s].link = "grace" /\ ~ sock[s].focus /\ sock[s].online = "idle"
  BY DEF Linked, Focused, Live, Typed, SockType
<1>1. CASE Live # {}
  <2>1. Closed \in SockType /\ Closed.link = "off" /\ ~ Closed.focus /\ Closed.online = "idle"
    BY DEF Closed, SockType, Link, Online
  <2>2. /\ sock' \in [Socket -> SockType] /\ sock'[s] = Closed
        /\ \A t \in Socket \ {s} : sock'[t] = sock[t]
    BY <1>1, <2>1, OneSocket
  <2>3. Live' = Live /\ Here' = Here
    BY <1>0, <2>1, <2>2, NotLive
  <2>4. PICK t \in Socket \ {s} : sock[t].link = "live" /\ sock'[t].link = "live"
    BY <1>0, <1>1, <2>2 DEF Live
  <2>5. DOMAIN waits' = Socket \cup Process /\ \A x \in DOMAIN waits : waits'[x] = waits[x] \ {s}
    BY <1>1 DEF Ended, Typed
  <2>6. Typed'
    BY <2>2, <2>5 DEF Typed
  <2>7. Focused' /\ Linked' /\ RowKept' /\ UpdateAlone'
    <3>1. Focused'
      BY <2>1, <2>2, <2>3 DEF Focused
    <3>2. Linked'
      BY <2>1, <2>2, <2>5 DEF Linked, Typed
    <3>3. RowKept'
      BY <2>3, <1>0, <2>2 DEF RowKept, Live
    <3>4. UpdateAlone'
      BY <2>1, <2>2, <2>3 DEF UpdateAlone
    <3> QED
      BY <3>1, <3>2, <3>3, <3>4
  <2>8. Waiting'
    <3>1. Running \ {s} \subseteq Running'
      BY <2>1, <2>2 DEF Running, Leaving, Announcing
    <3> QED
      BY <2>5, <3>1 DEF Waiting, Typed
  <2>9. CrossedOut' /\ AttendedKeep'
    <3>1. \A p \in Process : Beat \in waits[p] => Beat \in waits'[p]
      BY <2>5, PresenceAssumption DEF Typed
    <3> QED
      BY <2>3, <3>1 DEF CrossedOut, AttendedKeep
  <2>10. KeySomeone' /\ DropSomeone' /\ GoneIsPursued'
    BY <2>4 DEF KeySomeone, DropSomeone, GoneIsPursued
  <2> QED
    BY <2>6, <2>7, <2>8, <2>9, <2>10
<1>2. CASE Live = {}
  <2> DEFINE q == [sock[s] EXCEPT !.link = "update"]
  <2>1. q \in SockType /\ q.link = "update" /\ ~ q.focus /\ q.online = "idle"
    BY <1>0 DEF Typed, SockType, Link
  <2>2. sock' = [sock EXCEPT ![s] = q] /\ waits' = waits
    BY <1>2
  <2> HIDE DEF q
  <2>3. /\ sock' \in [Socket -> SockType] /\ sock'[s] = q
        /\ \A t \in Socket \ {s} : sock'[t] = sock[t]
    BY <2>1, <2>2, OneSocket
  <2>4. Live' = Live /\ Here' = Here
    BY <1>0, <2>1, <2>3, NotLive
  <2>5. Typed'
    BY <2>2, <2>3 DEF Typed
  <2>6. Focused' /\ Linked' /\ RowKept' /\ UpdateAlone'
    BY <1>2, <2>1, <2>2, <2>3, <2>4 DEF Focused, Linked, RowKept, UpdateAlone
  <2>7. Waiting'
    <3>1. Running \subseteq Running'
      BY <1>0, <2>1, <2>3 DEF Running, Leaving, Announcing
    <3> QED
      BY <2>2, <3>1 DEF Waiting
  <2>8. CrossedOut' /\ AttendedKeep'
    BY <2>2, <2>4 DEF CrossedOut, AttendedKeep
  <2>9. KeySomeone' /\ DropSomeone' /\ GoneIsPursued'
    BY <2>1, <2>3 DEF KeySomeone, DropSomeone, GoneIsPursued
  <2> QED
    BY <2>5, <2>6, <2>7, <2>8, <2>9
<1> QED
  BY <1>1, <1>2

LEMMA MarkOfflineKeeps ==
    ASSUME IInv, NEW s \in Socket, MarkOffline(s)
    PROVE  IInv'
<1> USE DEF IInv, MarkOffline
<1> DEFINE q == [sock[s] EXCEPT !.link = "del"]
<1>1. /\ q \in SockType /\ q.link = "del" /\ q.focus = sock[s].focus
      /\ q.online = "idle" /\ sock[s].online = "idle"
  BY DEF Typed, SockType, Link, Linked
<1>2. sock' = [sock EXCEPT ![s] = q]
  OBVIOUS
<1> HIDE DEF q
<1>3. /\ sock' \in [Socket -> SockType] /\ sock'[s] = q
      /\ \A t \in Socket \ {s} : sock'[t] = sock[t]
  BY <1>1, <1>2, OneSocket
<1>4. Live' = Live /\ Here' = Here
  BY <1>1, <1>3, NotLive
<1>5. Typed'
  BY <1>3 DEF Typed, Status
<1>6. Focused' /\ Linked' /\ UpdateAlone'
  BY <1>1, <1>3, <1>4 DEF Focused, Linked, UpdateAlone, Live
<1>7. RowKept'
  <2>1. row'.fresh = row.fresh /\ (Live # {} => row'.status # "offline")
    BY DEF UpdateAlone, Typed
  <2> QED
    BY <1>1, <1>3, <1>4, <2>1 DEF RowKept, Live
<1>8. Waiting'
  BY <1>1, <1>3 DEF Waiting, Running, Leaving, Announcing
<1>9. CrossedOut' /\ AttendedKeep'
  BY <1>4 DEF CrossedOut, AttendedKeep
<1>10. KeySomeone' /\ DropSomeone' /\ GoneIsPursued'
  BY <1>1, <1>3 DEF KeySomeone, DropSomeone, GoneIsPursued
<1> QED
  BY <1>5, <1>6, <1>7, <1>8, <1>9, <1>10

LEMMA DropPresenceKeyKeeps ==
    ASSUME IInv, NEW s \in Socket, DropPresenceKey(s)
    PROVE  IInv'
<1> USE DEF IInv, DropPresenceKey
<1> DEFINE q == [sock[s] EXCEPT !.link = "setex"]
<1>1. /\ q \in SockType /\ q.link = "setex" /\ q.focus = sock[s].focus
      /\ q.online = "idle" /\ sock[s].online = "idle"
  BY DEF Typed, SockType, Link, Linked
<1>2. sock' = [sock EXCEPT ![s] = q] /\ ~ redis'.presence
  BY DEF Typed
<1> HIDE DEF q
<1>3. /\ sock' \in [Socket -> SockType] /\ sock'[s] = q
      /\ \A t \in Socket \ {s} : sock'[t] = sock[t]
  BY <1>1, <1>2, OneSocket
<1>4. Live' = Live /\ Here' = Here
  BY <1>1, <1>3, NotLive
<1>5. /\ timer' \in [Process -> TimerType]
      /\ \A p \in Process : timer'[p].on => timer[p].on /\ (Here # {} => timer'[p].crossed)
  BY DEF Typed, TimerType
<1>6. /\ check' \in [Process -> CheckType]
      /\ \A p \in Process :
            /\ check'[p].pc = check[p].pc /\ (check[p].excused => check'[p].excused)
            /\ check[p].pc = "presence" /\ Here # {} => check'[p].excused
  BY DEF Typed, CheckType
<1>7. Typed'
  BY <1>3, <1>5, <1>6 DEF Typed
<1>8. Focused' /\ Linked' /\ RowKept' /\ UpdateAlone'
  BY <1>1, <1>3, <1>4 DEF Focused, Linked, RowKept, UpdateAlone, Live
<1>9. Waiting'
  BY <1>1, <1>3, <1>6 DEF Waiting, Running, Leaving, Announcing
<1>10. CrossedOut' /\ AttendedKeep'
  BY <1>4, <1>5, <1>6 DEF CrossedOut, AttendedKeep
<1>11. KeySomeone' /\ DropSomeone' /\ GoneIsPursued'
  BY <1>1, <1>2, <1>3 DEF KeySomeone, DropSomeone, GoneIsPursued
<1> QED
  BY <1>7, <1>8, <1>9, <1>10, <1>11

LEMMA ScheduleRequeueCheckKeeps ==
    ASSUME IInv, NEW s \in Socket, ScheduleRequeueCheck(s)
    PROVE  IInv'
<1> USE DEF IInv, ScheduleRequeueCheck
<1>0. /\ Host[s] \in Process /\ s \notin Process
      /\ sock[s].link = "setex" /\ sock[s].online = "idle"
  BY PresenceAssumption DEF Linked
<1>1. Closed \in SockType /\ Closed.link = "off" /\ ~ Closed.focus /\ Closed.online = "idle"
  BY DEF Closed, SockType, Link, Online
<1>2. /\ sock' \in [Socket -> SockType] /\ sock'[s] = Closed
      /\ \A t \in Socket \ {s} : sock'[t] = sock[t]
  BY <1>1, OneSocket
<1>3. Live' = Live /\ Here' = Here
  BY <1>0, <1>1, <1>2, NotLive
<1>4. /\ redis' \in [presence : BOOLEAN, requeue : BOOLEAN]
      /\ redis'.presence = redis.presence /\ redis'.requeue
  BY DEF Typed
<1>5. /\ timer' \in [Process -> TimerType] /\ timer'[Host[s]].on
      /\ \A p \in Process \ {Host[s]} : timer'[p] = timer[p]
  <2>1. [on |-> TRUE, crossed |-> FALSE] \in TimerType
    BY DEF TimerType
  <2> QED
    BY <1>0, <2>1 DEF Typed
<1>6. /\ DOMAIN waits' = Socket \cup Process
      /\ \A x \in Socket : waits'[x] = waits[x] \ {s}
      /\ \A p \in Process : p # Host[s] => waits'[p] = waits[p] \ {s}
      /\ waits'[Host[s]] = IF Here # {} THEN {Beat} ELSE {}
  BY <1>0, PresenceAssumption DEF Typed, Ended
<1>7. /\ check' \in [Process -> CheckType]
      /\ \A p \in Process :
            /\ check'[p].pc = check[p].pc
            /\ check[p].excused \/ check[p].pc = "del" => check'[p].excused
  BY DEF Typed, CheckType
<1>8. Typed'
  BY <1>2, <1>4, <1>5, <1>6, <1>7 DEF Typed
<1>9. Focused' /\ Linked' /\ RowKept' /\ UpdateAlone'
  <2>1. Focused' /\ Linked'
    BY <1>1, <1>2, <1>3, <1>6 DEF Focused, Linked
  <2>2. RowKept' /\ UpdateAlone'
    BY <1>0, <1>1, <1>2, <1>3 DEF RowKept, UpdateAlone, Live
  <2> QED
    BY <2>1, <2>2
<1>10. Waiting'
  <2>1. Running \ {s} \subseteq Running'
    BY <1>1, <1>2, <1>7 DEF Running, Leaving, Announcing
  <2> QED
    BY <1>6, <2>1 DEF Waiting
<1>11. CrossedOut' /\ AttendedKeep'
  <2>1. \A p \in Process : Beat \in waits[p] => Beat \in waits'[p] \/ Here = {}
    BY <1>6, PresenceAssumption
  <2>2. Here # {} => Beat \in waits'[Host[s]]
    BY <1>6
  <2> QED
    BY <1>3, <1>4, <1>5, <1>7, <2>1, <2>2 DEF CrossedOut, AttendedKeep
\* Either the key is gone, or whoever has set it is still to come.
<1>12. KeySomeone' /\ GoneIsPursued'
  <2>1. CASE redis.presence
    <3>1. ~ forgotten' => ~ forgotten
      BY <2>1 DEF Typed
    <3>2. ~ forgotten => \E t \in Socket \ {s} : sock[t].link \notin {"off", "setex"}
      BY <2>1, <1>0 DEF KeySomeone
    <3> QED
      BY <1>2, <3>1, <3>2 DEF KeySomeone, GoneIsPursued
  <2>2. CASE ~ redis.presence
    BY <2>2, <1>0, <1>4, <1>5 DEF KeySomeone, GoneIsPursued, Pursuing
  <2> QED
    BY <2>1, <2>2
<1>13. DropSomeone'
  BY <1>7 DEF DropSomeone
<1> QED
  BY <1>8, <1>9, <1>10, <1>11, <1>12, <1>13

-----------------------------------------------------------------------------
(* The requeue timer.                                                      *)

\* The connections, their tabs and the row are not touched.
LEMMA SameSockets ==
    ASSUME IInv, UNCHANGED <<sock, row>>,
           DOMAIN waits' = Socket \cup Process,
           \A s \in Socket : waits[s] \cap Socket = waits'[s] \cap Socket
    PROVE  /\ Focused' /\ Linked' /\ RowKept' /\ UpdateAlone'
           /\ Live' = Live /\ Here' = Here
  BY DEF IInv, Focused, Linked, RowKept, UpdateAlone, Live, Here

\* A callback ends, or did not get beyond the requeue key.
LEMMA FinishFacts ==
    ASSUME IInv, NEW p \in Process, Finish(p)
    PROVE  /\ check' \in [Process -> CheckType] /\ check'[p].pc = "idle"
           /\ timer' \in [Process -> TimerType] /\ ~ timer'[p].on
           /\ \A r \in Process \ {p} : check'[r] = check[r] /\ timer'[r] = timer[r]
           /\ DOMAIN waits' = Socket \cup Process
           /\ \A s \in Socket : waits'[s] = waits[s] \ {p}
           /\ \A r \in Process : waits'[r] \subseteq waits[r]
           /\ \A r \in Process : r # p /\ Beat \in waits[r] => Beat \in waits'[r]
<1>1. NoCheck \in CheckType /\ NoCheck.pc = "idle" /\ NoTimer \in TimerType /\ ~ NoTimer.on
  BY DEF NoCheck, NoTimer, CheckType, TimerType
<1>2. /\ check' = [check EXCEPT ![p] = NoCheck] /\ timer' = [timer EXCEPT ![p] = NoTimer]
      /\ waits' = [Ended(p) EXCEPT ![p] = {}]
  BY DEF Finish, Cleared
<1> QED
  BY <1>1, <1>2, PresenceAssumption DEF IInv, Typed, Ended

LEMMA DueKeeps ==
    ASSUME IInv, NEW p \in Process, Due(p)
    PROVE  IInv'
<1>0. /\ timer[p].on /\ waits[p] = {} /\ check[p].pc = "idle"
      /\ UNCHANGED <<sock, row, redis, holds, forgotten>>
  BY DEF Due
<1>1. CASE redis.requeue
  <2> DEFINE q == [pc |-> "presence", excused |-> timer[p].crossed]
  <2>1. q \in CheckType /\ q.pc = "presence" /\ q.excused = timer[p].crossed
    BY DEF IInv, Typed, CheckType, TimerType
  <2>2. NoTimer \in TimerType /\ ~ NoTimer.on
    BY DEF NoTimer, TimerType
  <2>3. /\ check' = [check EXCEPT ![p] = q] /\ timer' = [timer EXCEPT ![p] = NoTimer]
        /\ waits' = waits
    BY <1>1 DEF Due, Cleared
  <2> HIDE DEF q
  <2>4. /\ check' \in [Process -> CheckType] /\ check'[p] = q
        /\ timer' \in [Process -> TimerType] /\ ~ timer'[p].on
        /\ \A r \in Process \ {p} : check'[r] = check[r] /\ timer'[r] = timer[r]
    BY <2>1, <2>2, <2>3 DEF IInv, Typed
  <2>5. Typed'
    BY <1>0, <2>3, <2>4 DEF IInv, Typed
  <2>6. /\ Focused' /\ Linked' /\ RowKept' /\ UpdateAlone'
        /\ Live' = Live /\ Here' = Here
    BY <1>0, <2>3, SameSockets DEF IInv, Typed
  <2>7. Waiting'
    <3>1. Running \subseteq Running'
      BY <1>0, <2>1, <2>4 DEF Running, Leaving, Announcing
    <3> QED
      BY <2>3, <3>1 DEF IInv, Waiting
  <2>8. CrossedOut' /\ AttendedKeep'
    BY <1>0, <2>1, <2>3, <2>4, <2>6 DEF IInv, CrossedOut, AttendedKeep
  <2>9. KeySomeone' /\ DropSomeone'
    BY <1>0, <2>1, <2>4 DEF IInv, KeySomeone, DropSomeone
  <2>10. GoneIsPursued'
    <3>1. Pursuing(p) => check'[p].pc = "presence" /\ ~ redis'.presence
      BY <1>0, <2>1, <2>4 DEF Pursuing
    <3>2. \A r \in Process \ {p} : Pursuing(r) <=> Pursuing(r)'
      BY <1>0, <2>4 DEF Pursuing
    <3> QED
      BY <1>0, <2>6, <3>1, <3>2 DEF IInv, GoneIsPursued, Pursuing
  <2> QED
    BY <2>5, <2>6, <2>7, <2>8, <2>9, <2>10 DEF IInv
<1>2. CASE ~ redis.requeue
  <2>1. Finish(p)
    BY <1>2 DEF Due
  <2>2. Typed'
    BY <1>0, <2>1, FinishFacts DEF IInv, Typed
  <2>3. /\ Focused' /\ Linked' /\ RowKept' /\ UpdateAlone'
        /\ Live' = Live /\ Here' = Here
    BY <1>0, <2>1, FinishFacts, SameSockets, PresenceAssumption
  <2>4. Waiting'
    <3>1. Running \ {p} \subseteq Running'
      BY <1>0, <2>1, FinishFacts DEF Running, Leaving, Announcing
    <3> QED
      BY <2>1, <3>1, FinishFacts DEF IInv, Waiting
  <2>5. CrossedOut' /\ AttendedKeep'
    BY <1>0, <2>1, <2>3, FinishFacts DEF IInv, CrossedOut, AttendedKeep
  <2>6. KeySomeone' /\ DropSomeone'
    BY <1>0, <2>1, FinishFacts DEF IInv, KeySomeone, DropSomeone
  <2>7. GoneIsPursued'
    <3>1. ~ Pursuing(p) /\ \A r \in Process \ {p} : Pursuing(r) <=> Pursuing(r)'
      BY <1>0, <1>2, <2>1, FinishFacts DEF Pursuing
    <3> QED
      BY <1>0, <2>3, <3>1 DEF IInv, GoneIsPursued
  <2> QED
    BY <2>2, <2>3, <2>4, <2>5, <2>6, <2>7 DEF IInv
<1> QED
  BY <1>1, <1>2

LEMMA CheckPresenceKeyKeeps ==
    ASSUME IInv, NEW p \in Process, CheckPresenceKey(p)
    PROVE  IInv'
<1> DEFINE q == IF redis.presence THEN [pc |-> "del", excused |-> FALSE]
                ELSE [pc |-> "update", excused |-> check[p].excused \/ Here = {}]
<1>0. /\ check[p].pc = "presence"
      /\ UNCHANGED <<sock, row, redis, timer, waits, holds, forgotten>>
  BY DEF CheckPresenceKey
<1>1. /\ q \in CheckType /\ q.pc \in {"del", "update"}
      /\ q.pc = "del" => redis.presence
      /\ q.pc = "update" => ~ redis.presence /\ q.excused
  BY <1>0 DEF IInv, Typed, CheckType, CrossedOut
<1>2. check' = [check EXCEPT ![p] = q]
  BY DEF CheckPresenceKey, IInv, Typed
<1> HIDE DEF q
<1>3. /\ check' \in [Process -> CheckType] /\ check'[p] = q
      /\ \A r \in Process \ {p} : check'[r] = check[r]
  BY <1>1, <1>2 DEF IInv, Typed
<1>4. Typed'
  BY <1>0, <1>3 DEF IInv, Typed
<1>5. /\ Focused' /\ Linked' /\ RowKept' /\ UpdateAlone'
      /\ Live' = Live /\ Here' = Here
  BY <1>0, SameSockets DEF IInv, Typed
<1>6. Waiting'
  <2>1. Running \subseteq Running'
    BY <1>0, <1>1, <1>3 DEF Running, Leaving, Announcing
  <2> QED
    BY <1>0, <2>1 DEF IInv, Waiting
<1>7. CrossedOut' /\ AttendedKeep'
  BY <1>0, <1>1, <1>3, <1>5 DEF IInv, CrossedOut, AttendedKeep
<1>8. KeySomeone' /\ DropSomeone'
  BY <1>0, <1>1, <1>3 DEF IInv, KeySomeone, DropSomeone
<1>9. GoneIsPursued'
  <2>1. ~ redis.presence => Pursuing(p)'
    BY <1>0, <1>1, <1>3 DEF Pursuing
  <2>2. \A r \in Process \ {p} : Pursuing(r) <=> Pursuing(r)'
    BY <1>0, <1>3 DEF Pursuing
  <2>3. redis.presence /\ ~ forgotten => \E s \in Socket : sock[s].link # "off"
    BY DEF IInv, KeySomeone
  <2>4. redis.presence \in BOOLEAN
    BY DEF IInv, Typed
  <2> QED
    BY <1>0, <1>5, <2>1, <2>2, <2>3, <2>4 DEF IInv, GoneIsPursued
<1> QED
  BY <1>4, <1>5, <1>6, <1>7, <1>8, <1>9 DEF IInv

LEMMA RequeueKeeps ==
    ASSUME IInv, NEW p \in Process, Requeue(p)
    PROVE  IInv'
<1> DEFINE q == [pc |-> "del", excused |-> FALSE]
<1>0. /\ check[p].pc = "update" /\ holds' = FALSE
      /\ UNCHANGED <<sock, row, redis, timer, waits, forgotten>>
  BY DEF Requeue
<1>1. q \in CheckType /\ q.pc = "del"
  BY DEF CheckType
<1>2. check' = [check EXCEPT ![p] = q]
  BY DEF Requeue
<1> HIDE DEF q
<1>3. /\ check' \in [Process -> CheckType] /\ check'[p] = q
      /\ \A r \in Process \ {p} : check'[r] = check[r]
  BY <1>1, <1>2 DEF IInv, Typed
<1>4. Typed'
  BY <1>0, <1>3 DEF IInv, Typed
<1>5. /\ Focused' /\ Linked' /\ RowKept' /\ UpdateAlone'
      /\ Live' = Live /\ Here' = Here
  BY <1>0, SameSockets DEF IInv, Typed
<1>6. Waiting'
  <2>1. Running \subseteq Running'
    BY <1>0, <1>1, <1>3 DEF Running, Leaving, Announcing
  <2> QED
    BY <1>0, <2>1 DEF IInv, Waiting
<1>7. CrossedOut' /\ AttendedKeep'
  BY <1>0, <1>1, <1>3, <1>5 DEF IInv, CrossedOut, AttendedKeep
<1>8. KeySomeone' /\ DropSomeone' /\ GoneIsPursued'
  BY <1>0 DEF IInv, KeySomeone, DropSomeone, GoneIsPursued
<1> QED
  BY <1>4, <1>5, <1>6, <1>7, <1>8 DEF IInv

LEMMA DropRequeueKeyKeeps ==
    ASSUME IInv, NEW p \in Process, DropRequeueKey(p)
    PROVE  IInv'
<1>0. /\ check[p].pc = "del" /\ Finish(p)
      /\ UNCHANGED <<sock, row, holds>>
      /\ forgotten' = (forgotten \/ check[p].excused)
      /\ redis' = [redis EXCEPT !.requeue = FALSE]
  BY DEF DropRequeueKey
<1>1. /\ redis' \in [presence : BOOLEAN, requeue : BOOLEAN] /\ forgotten' \in BOOLEAN
      /\ redis'.presence = redis.presence
  BY <1>0 DEF IInv, Typed, CheckType
<1>2. Typed'
  BY <1>0, <1>1, FinishFacts DEF IInv, Typed
<1>3. /\ Focused' /\ Linked' /\ RowKept' /\ UpdateAlone'
      /\ Live' = Live /\ Here' = Here
  BY <1>0, FinishFacts, SameSockets, PresenceAssumption
<1>4. Waiting'
  <2>1. Running \ {p} \subseteq Running'
    BY <1>0, FinishFacts DEF Running, Leaving, Announcing
  <2> QED
    BY <1>0, <2>1, FinishFacts DEF IInv, Waiting
<1>5. CrossedOut' /\ AttendedKeep'
  BY <1>0, <1>1, <1>3, FinishFacts DEF IInv, CrossedOut, AttendedKeep
<1>6. KeySomeone' /\ DropSomeone'
  BY <1>0, <1>1, FinishFacts DEF IInv, KeySomeone, DropSomeone
\* The key is not p's own: somebody is still on the way, or it is history.
<1>7. GoneIsPursued'
  <2>1. holds' /\ ~ forgotten' => \E s \in Socket : sock'[s].link # "off"
    BY <1>0 DEF IInv, DropSomeone
  <2> QED
    BY <2>1 DEF GoneIsPursued
<1> QED
  BY <1>2, <1>3, <1>4, <1>5, <1>6, <1>7 DEF IInv

-----------------------------------------------------------------------------
(* Time, the sweep, conversations and restarts.                            *)

LEMMA PresenceKeyLapsesKeeps ==
    ASSUME IInv, PresenceKeyLapses
    PROVE  IInv'
<1>1. /\ Here = {} /\ ~ redis'.presence /\ redis'.requeue = redis.requeue
      /\ redis' \in [presence : BOOLEAN, requeue : BOOLEAN]
      /\ UNCHANGED <<sock, row, timer, waits, check, holds, forgotten>>
  BY DEF PresenceKeyLapses, Unattended, Here, IInv, Typed
<1>2. Typed'
  BY <1>1 DEF IInv, Typed
<1>3. /\ Focused' /\ Linked' /\ RowKept' /\ UpdateAlone'
      /\ Live' = Live /\ Here' = Here
  BY <1>1, SameSockets DEF IInv, Typed
<1>4. Waiting' /\ CrossedOut' /\ AttendedKeep'
  BY <1>1, <1>3 DEF IInv, Waiting, Running, Leaving, Announcing, CrossedOut, AttendedKeep
<1>5. KeySomeone' /\ DropSomeone' /\ GoneIsPursued'
  BY <1>1, <1>3 DEF IInv, KeySomeone, DropSomeone, GoneIsPursued, Pursuing
<1> QED
  BY <1>2, <1>3, <1>4, <1>5 DEF IInv

LEMMA RequeueKeyLapsesKeeps ==
    ASSUME IInv, RequeueKeyLapses
    PROVE  IInv'
<1>1. /\ redis'.presence = redis.presence
      /\ redis' \in [presence : BOOLEAN, requeue : BOOLEAN]
      /\ UNCHANGED <<sock, row, timer, waits, check, holds, forgotten>>
  BY DEF RequeueKeyLapses, IInv, Typed
<1>2. \A p \in Process : ~ Pursuing(p)
  BY DEF RequeueKeyLapses, Pursuing
<1>3. Typed'
  BY <1>1 DEF IInv, Typed
<1>4. /\ Focused' /\ Linked' /\ RowKept' /\ UpdateAlone'
      /\ Live' = Live /\ Here' = Here
  BY <1>1, SameSockets DEF IInv, Typed
<1>5. Waiting' /\ CrossedOut' /\ AttendedKeep'
  BY <1>1, <1>4 DEF IInv, Waiting, Running, Leaving, Announcing, CrossedOut, AttendedKeep
<1>6. KeySomeone' /\ DropSomeone' /\ GoneIsPursued'
  BY <1>1, <1>2, <1>4 DEF IInv, KeySomeone, DropSomeone, GoneIsPursued
<1> QED
  BY <1>3, <1>4, <1>5, <1>6 DEF IInv

\* last_seen_at lapses and the sweep runs while no tab has the focus.
LEMMA SweepKeeps ==
    ASSUME IInv, SeenLapses \/ CleanupStalePresence
    PROVE  IInv'
<1>1. /\ row' \in [status : Status, fresh : BOOLEAN]
      /\ UNCHANGED <<sock, redis, timer, waits, check, holds, forgotten>>
  BY DEF SeenLapses, CleanupStalePresence, IInv, Typed, Status
<1>2. Typed'
  BY <1>1 DEF IInv, Typed
<1>3. Focused' /\ Linked' /\ UpdateAlone'
  BY <1>1 DEF IInv, Focused, Linked, UpdateAlone, Live
<1>4. RowKept'
  <2>1. \A s \in Live : ~ (sock[s].focus /\ sock[s].online # "state")
    BY DEF SeenLapses, CleanupStalePresence, Unattended, IInv, RowKept
  <2> QED
    BY <1>1, <2>1 DEF RowKept, Live
<1>5. Waiting' /\ CrossedOut' /\ AttendedKeep'
  BY <1>1 DEF IInv, Waiting, Running, Leaving, Announcing, CrossedOut, AttendedKeep, Here, Live
<1>6. KeySomeone' /\ DropSomeone' /\ GoneIsPursued'
  BY <1>1 DEF IInv, KeySomeone, DropSomeone, GoneIsPursued, Pursuing, Live
<1> QED
  BY <1>2, <1>3, <1>4, <1>5, <1>6 DEF IInv

LEMMA TakeConversationKeeps ==
    ASSUME IInv, TakeConversation
    PROVE  IInv'
<1>1. /\ holds' = TRUE /\ UNCHANGED <<sock, row, redis, timer, waits, check, forgotten>>
      /\ \E s \in Socket : sock[s].link # "off"
  BY DEF TakeConversation
<1>2. Typed'
  BY <1>1 DEF IInv, Typed
<1>3. /\ Focused' /\ Linked' /\ RowKept' /\ UpdateAlone'
      /\ Live' = Live /\ Here' = Here
  BY <1>1, SameSockets DEF IInv, Typed
<1>4. Waiting' /\ CrossedOut' /\ AttendedKeep'
  BY <1>1, <1>3 DEF IInv, Waiting, Running, Leaving, Announcing, CrossedOut, AttendedKeep
<1>5. KeySomeone' /\ DropSomeone' /\ GoneIsPursued'
  BY <1>1 DEF IInv, KeySomeone, DropSomeone, GoneIsPursued
<1> QED
  BY <1>2, <1>3, <1>4, <1>5 DEF IInv

LEMMA RestartKeeps ==
    ASSUME IInv, NEW p \in Process, Restart(p)
    PROVE  IInv'
<1> DEFINE lost == {s \in Socket : Host[s] = p}
<1>1. /\ forgotten' = TRUE /\ UNCHANGED <<row, redis, holds>>
      /\ sock' = [s \in Socket |-> IF s \in lost THEN Closed ELSE sock[s]]
      /\ check' = [check EXCEPT ![p] = NoCheck]
      /\ timer' = [timer EXCEPT ![p] = NoTimer]
  BY DEF Restart, Cleared
<1>2. /\ Closed \in SockType /\ Closed.link = "off" /\ ~ Closed.focus /\ Closed.online = "idle"
      /\ NoCheck \in CheckType /\ NoCheck.pc = "idle" /\ NoTimer \in TimerType /\ ~ NoTimer.on
  BY DEF Closed, SockType, Link, Online, NoCheck, NoTimer, CheckType, TimerType
<1>3. /\ sock' \in [Socket -> SockType] /\ \A s \in lost : sock'[s] = Closed
      /\ \A s \in Socket \ lost : sock'[s] = sock[s]
  BY <1>1, <1>2 DEF IInv, Typed
<1>4. /\ check' \in [Process -> CheckType] /\ check'[p].pc = "idle"
      /\ timer' \in [Process -> TimerType] /\ ~ timer'[p].on
      /\ \A r \in Process \ {p} : check'[r] = check[r] /\ timer'[r] = timer[r]
  BY <1>1, <1>2 DEF IInv, Typed
<1>5. Live' \subseteq Live /\ Here' = Here \ lost
  BY <1>2, <1>3 DEF Live, Here
<1> DEFINE left == Unowed(Here \ lost)
<1>6. waits' = [x \in DOMAIN waits |->
                  IF x \in lost \cup {p} THEN {} ELSE left[x] \ (lost \cup {p})]
  BY DEF Restart
<1>7. \A x \in DOMAIN waits : /\ left[x] \subseteq waits[x]
                              /\ waits[x] \subseteq left[x] \cup {Beat}
                              /\ Here \ lost # {} => left[x] = waits[x]
  BY DEF Unowed, Ended
<1> HIDE DEF left
<1>8. DOMAIN waits' = Socket \cup Process /\ DOMAIN waits = Socket \cup Process
  BY <1>6 DEF IInv, Typed
<1>9. \A x \in Socket \cup Process : waits'[x] \subseteq waits[x] \ (lost \cup {p})
  BY <1>6, <1>7, <1>8
<1>10. /\ \A s \in Socket \ lost : s \in waits[s] => s \in waits'[s]
       /\ Here \ lost # {} =>
            \A r \in Process \ {p} : Beat \in waits[r] => Beat \in waits'[r]
  <2>1. \A s \in Socket \ lost : s \notin lost \cup {p} /\ s # Beat
    BY PresenceAssumption
  <2>2. Beat \notin lost \cup {p}
    BY PresenceAssumption
  <2>3. \A r \in Process \ {p} : r \notin lost \cup {p}
    BY PresenceAssumption
  <2> QED
    BY <1>6, <1>7, <1>8, <2>1, <2>2, <2>3
<1>11. Typed'
  BY <1>1, <1>3, <1>4, <1>8 DEF IInv, Typed
<1>12. Focused' /\ Linked' /\ RowKept' /\ UpdateAlone'
  <2>1. Focused'
    BY <1>2, <1>3 DEF IInv, Focused, Live
  <2>2. Linked'
    BY <1>2, <1>3, <1>10 DEF IInv, Linked
  <2>3. RowKept' /\ UpdateAlone'
    BY <1>1, <1>2, <1>3, <1>5 DEF IInv, RowKept, UpdateAlone, Live
  <2> QED
    BY <2>1, <2>2, <2>3
<1>13. Waiting'
  <2>1. Running \ (lost \cup {p}) \subseteq Running'
    BY <1>3, <1>4 DEF Running, Leaving, Announcing
  <2>2. \A s \in Socket : waits'[s] \subseteq waits[s] \ (lost \cup {p})
    BY <1>9
  <2>3. \A r \in Process : waits'[r] \subseteq waits[r]
    BY <1>9
  <2> QED
    BY <2>1, <2>2, <2>3 DEF IInv, Waiting
<1>14. CrossedOut' /\ AttendedKeep'
  BY <1>1, <1>4, <1>5, <1>10 DEF IInv, CrossedOut, AttendedKeep
<1>15. KeySomeone' /\ DropSomeone' /\ GoneIsPursued'
  BY <1>1 DEF KeySomeone, DropSomeone, GoneIsPursued
<1> QED
  BY <1>11, <1>12, <1>13, <1>14, <1>15 DEF IInv

-----------------------------------------------------------------------------
LEMMA StepKeeps ==
    ASSUME IInv, [Next]_vars
    PROVE  IInv'
<1>1. CASE UNCHANGED vars
  <2>1. /\ UNCHANGED <<sock, row, redis, timer, waits, check, holds, forgotten>>
        /\ Live' = Live /\ Here' = Here
    BY <1>1 DEF vars, Live, Here
  <2> QED
    BY <2>1 DEF IInv, Typed, Focused, Waiting, Linked, RowKept, UpdateAlone, CrossedOut,
                AttendedKeep, KeySomeone, DropSomeone, GoneIsPursued, Pursuing, Running,
                Leaving, Announcing
<1>2. CASE Client
  BY <1>2, ConnectKeeps, FocusKeeps, HeartbeatKeeps, BlurKeeps, DisconnectKeeps DEF Client
<1>3. CASE Environment
  BY <1>3, PresenceKeyLapsesKeeps, RequeueKeyLapsesKeeps, SweepKeeps, TakeConversationKeeps,
     RestartKeeps DEF Environment
<1>4. ASSUME NEW s \in Socket, PresenceOnline(s) PROVE IInv'
  BY <1>4, SetPresenceStateKeeps, TouchPresenceKeyKeeps, LookForRequeueKeeps,
     CancelPendingRequeueKeeps DEF PresenceOnline
<1>5. ASSUME NEW s \in Socket, Leave(s) PROVE IInv'
  BY <1>5, LookAroundKeeps, MarkOfflineKeeps, DropPresenceKeyKeeps,
     ScheduleRequeueCheckKeeps DEF Leave
<1>6. ASSUME NEW p \in Process, RequeueCheck(p) PROVE IInv'
  BY <1>6, DueKeeps, CheckPresenceKeyKeeps, RequeueKeeps, DropRequeueKeyKeeps DEF RequeueCheck
<1> QED
  BY <1>1, <1>2, <1>3, <1>4, <1>5, <1>6 DEF Next

LEMMA Invariance == Spec => []IInv
<1>1. IInv /\ [Next]_vars => IInv'
  BY StepKeeps
<1> QED
  BY <1>1, InitIInv, PTL DEF Spec

\* The row, the keys, the timers and the handlers stay within their types
\* whatever overlaps; only a connected tab beats, and what a lost connection
\* waits for is under way.
THEOREM PresenceTypes == Spec => []PresenceTypeOK
<1>1. IInv => PresenceTypeOK
  BY DEF IInv, Typed, Focused, Waiting, PresenceTypeOK
<1> QED
  BY <1>1, Invariance, PTL

\* Conversations are taken from an agent who is at work by a timer older than
\* a deletion of the presence key only, on any number of processes.
THEOREM AttendedAgentsKeep == Spec => []AttendedKeep
<1>1. IInv => AttendedKeep
  BY DEF IInv
<1> QED
  BY <1>1, Invariance, PTL

\* An agent at work is offline only by the UPDATE of a handler that looked
\* around before the agent was back.
THEOREM OfflineHasAReason == Spec => []OfflineExplained
<1>1. IInv => OfflineExplained
  BY DEF IInv, Typed, RowKept, OfflineExplained, Here
<1> QED
  BY <1>1, Invariance, PTL

\* The conversations of an agent who is gone are on their way back to the
\* queue: some handler, timer or callback is still to come.
THEOREM GoneArePursued == Spec => []GoneIsPursued
<1>1. IInv => GoneIsPursued
  BY DEF IInv
<1> QED
  BY <1>1, Invariance, PTL
=============================================================================

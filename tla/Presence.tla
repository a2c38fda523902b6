------------------------------ MODULE Presence ------------------------------
(***************************************************************************)
(* One agent, the connections of the tabs the agent has open, and what the *)
(* server makes of them: socket/index.ts on several processes behind a     *)
(* Redis adapter, the presence sweep, and the client's services/socket.ts. *)
(*                                                                         *)
(* Every await of a handler is the end of a step: announcing oneself       *)
(* ("online"), the handler of a lost connection ("link"), and the callback *)
(* of the requeue timer ("check") interleave with each other, on one       *)
(* process or on several.  The row and the Redis keys are shared; timers   *)
(* belong to a process and die with it.                                    *)
(*                                                                         *)
(* Time.  Three facts about durations are used, each where it is marked:   *)
(* a beat (25 s) comes before the presence key (60 s) and last_seen_at     *)
(* (3 min) lapse and before a requeue timer (5 min) that was set earlier;  *)
(* what runs when a connection is lost has ended when its grace (5 s) has; *)
(* and the requeue key (6 min) outlives every timer set with it.           *)
(***************************************************************************)
EXTENDS FiniteSets

CONSTANTS
    Socket,     \* connections of the agent; one lost may be opened again
    Process,    \* server processes
    Host,       \* Host[s]: the process that holds connection s
    Beat        \* what a timer waits for when a tab is at work

ASSUME PresenceAssumption ==
    /\ Host \in [Socket -> Process]
    /\ Socket \cap Process = {} /\ Beat \notin Socket \cup Process

VARIABLES
    sock,       \* sock[s]: the connection and the handlers run on its behalf
    row,        \* the agent's row of agent_assignments
    redis,      \* presence:<tenant>:<user> and requeue:<tenant>:<user>
    timer,      \* timer[p]: p's entry of pendingRequeueTimers
    waits,      \* waits[x]: what has to end before x's delay can be over
    check,      \* check[p]: the callback of p's timer, under way
    holds,      \* the agent has open or waiting conversations
    forgotten   \* history: since the last timer was set, a process with what it
                \* had under way was lost, or the timer's requeue key was

vars == <<sock, row, redis, timer, waits, check, holds, forgotten>>

\* "grace": lost less than 5 s ago; then the steps of the handler: the UPDATE,
\* the DEL of the presence key, the SETEX of the requeue key.  "late" is an
\* UPDATE due after a connection has opened that the handler did not see.
Link == {"off", "live", "grace", "update", "late", "del", "setex"}

\* The status as far as a connection decides it; a pause, which announcing
\* oneself and the sweep leave alone, is routing's concern.  "overtaken" is
\* an offline row written late.
Status == {"online", "offline", "overtaken"}

\* The steps of handlePresenceOnline and cancelPendingRequeue.
Online == {"idle", "state", "key", "exists", "found", "missing"}

SockType == [link : Link, focus : BOOLEAN, online : Online]
TimerType == [on : BOOLEAN, crossed : BOOLEAN]
CheckType == [pc : {"idle", "presence", "update", "del"}, excused : BOOLEAN]

Closed == [link |-> "off", focus |-> FALSE, online |-> "idle"]
NoTimer == [on |-> FALSE, crossed |-> FALSE]
NoCheck == [pc |-> "idle", excused |-> FALSE]

Init ==
    /\ sock = [s \in Socket |-> Closed]
    /\ row = [status |-> "offline", fresh |-> FALSE]
    /\ redis = [presence |-> FALSE, requeue |-> FALSE]
    /\ timer = [p \in Process |-> NoTimer]
    /\ check = [p \in Process |-> NoCheck]
    /\ waits = [x \in Socket \cup Process |-> {}]
    /\ holds = FALSE /\ forgotten = FALSE

Live == {s \in Socket : sock[s].link = "live"}

\* The tabs the agent is at work in, as far as the server has heard of it:
\* they have the focus and have announced themselves or sent a beat since.
Here == {s \in Live : sock[s].focus /\ sock[s].online \notin {"state", "key"}}
Leaving == {s \in Socket : sock[s].link \in {"update", "late", "del", "setex"}}
Announcing == {s \in Socket : sock[s].online # "idle"}
Running == Leaving \cup Announcing \cup {p \in Process : check[p].pc # "idle"}

\* x has ended: nobody waits for it any more.
Ended(x) == [y \in DOMAIN waits |-> waits[y] \ {x}]

\* Nobody is at work in any tab of "here": no timer waits for a beat.
Unowed(here) == IF here = {} THEN Ended(Beat) ELSE waits

\* clearLocalRequeueTimer.
Cleared(p) == [timer EXCEPT ![p] = NoTimer]

-----------------------------------------------------------------------------
(* The client                                                              *)

\* A connection opens; its handler announces the agent and the client starts
\* its heartbeat.
Connect(s) ==
    /\ sock[s] = Closed
    /\ sock' = [t \in Socket |->
                 IF t = s THEN [link |-> "live", focus |-> TRUE, online |-> "state"]
                 ELSE [sock[t] EXCEPT !.link = IF @ = "update" THEN "late" ELSE @]]
    /\ UNCHANGED <<row, redis, timer, waits, check, holds, forgotten>>

\* The tab gets the focus back: user:online, and the heartbeat starts again.
Focus(s) ==
    /\ s \in Live /\ ~ sock[s].focus /\ sock[s].online = "idle"
    /\ sock' = [sock EXCEPT ![s].focus = TRUE, ![s].online = "state"]
    /\ UNCHANGED <<row, redis, timer, waits, check, holds, forgotten>>

\* user:heartbeat and agent:heartbeat; the status is not touched.
Heartbeat(s) ==
    /\ s \in Live /\ sock[s].focus
    /\ row' = [row EXCEPT !.fresh = TRUE]
    /\ redis' = [redis EXCEPT !.presence = TRUE]
    /\ waits' = Ended(Beat)
    /\ UNCHANGED <<sock, timer, check, holds, forgotten>>

Blur(s) ==
    /\ s \in Live /\ sock[s].focus
    /\ sock' = [sock EXCEPT ![s].focus = FALSE]
    /\ waits' = Unowed(Here \ {s})
    /\ UNCHANGED <<row, redis, timer, check, holds, forgotten>>

\* Mutant: the client goes on beating when its connection is lost.
DisconnectBeating(s) ==
    /\ s \in Live
    /\ sock' = [sock EXCEPT ![s].link = "grace"]
    /\ waits' = [waits EXCEPT ![s] = Running]
    /\ UNCHANGED <<row, redis, timer, check, holds, forgotten>>

\* The client stops its heartbeat; the server's handler waits for the grace.
Disconnect(s) ==
    /\ s \in Live
    /\ sock' = [sock EXCEPT ![s].link = "grace", ![s].focus = FALSE]
    /\ waits' = [Unowed(Here \ {s}) EXCEPT ![s] = Running]
    /\ UNCHANGED <<row, redis, timer, check, holds, forgotten>>

-----------------------------------------------------------------------------
(* handlePresenceOnline                                                    *)

\* setAgentPresenceState and refreshAgentPresence.
SetPresenceState(s) ==
    /\ sock[s].online = "state"
    /\ sock' = [sock EXCEPT ![s].online = "key"]
    /\ row' = [status |-> "online", fresh |-> TRUE]
    /\ UNCHANGED <<redis, timer, waits, check, holds, forgotten>>

TouchPresenceKey(s) ==
    /\ sock[s].online = "key"
    /\ sock' = [sock EXCEPT ![s].online = "exists"]
    /\ redis' = [redis EXCEPT !.presence = TRUE]
    /\ UNCHANGED <<row, timer, waits, check, holds, forgotten>>

\* cancelPendingRequeue: it looks, then clears its own process's timer, and
\* the key only if it saw one.
LookForRequeue(s) ==
    /\ sock[s].online = "exists"
    /\ sock' = [sock EXCEPT ![s].online = IF redis.requeue THEN "found" ELSE "missing"]
    /\ UNCHANGED <<row, redis, timer, waits, check, holds, forgotten>>

CancelPendingRequeue(s) ==
    /\ sock[s].online \in {"found", "missing"}
    /\ timer' = Cleared(Host[s])
    /\ redis' = [redis EXCEPT !.requeue = @ /\ sock[s].online = "missing"]
    /\ sock' = [sock EXCEPT ![s].online = "idle"]
    /\ waits' = [x \in DOMAIN waits |->
                  IF x = Host[s] THEN {} ELSE waits[x] \ {s}]
    /\ UNCHANGED <<row, check, holds, forgotten>>

-----------------------------------------------------------------------------
(* The handler of a lost connection                                        *)

\* Mutant: only the process's own connections are seen, as without the adapter.
LookAroundLocal(s) ==
    /\ sock[s].link = "grace" /\ waits[s] = {}
    /\ IF \E t \in Live : Host[t] = Host[s]
       THEN sock' = [sock EXCEPT ![s] = Closed] /\ waits' = Ended(s)
       ELSE sock' = [sock EXCEPT ![s].link = "update"] /\ UNCHANGED waits
    /\ UNCHANGED <<row, redis, timer, check, holds, forgotten>>

\* The grace is over (and with it what ran when the connection was lost):
\* fetchSockets, over every process.
LookAround(s) ==
    /\ sock[s].link = "grace" /\ waits[s] = {}
    /\ IF Live # {}
       THEN sock' = [sock EXCEPT ![s] = Closed] /\ waits' = Ended(s)
       ELSE sock' = [sock EXCEPT ![s].link = "update"] /\ UNCHANGED waits
    /\ UNCHANGED <<row, redis, timer, check, holds, forgotten>>

MarkOffline(s) ==
    /\ sock[s].link \in {"update", "late"}
    /\ sock' = [sock EXCEPT ![s].link = "del"]
    /\ row' = [row EXCEPT !.status = IF sock[s].link = "late" THEN "overtaken"
                                      ELSE "offline"]
    /\ UNCHANGED <<redis, timer, waits, check, holds, forgotten>>

\* An agent who is back by now has lost the key until the next beat; timers
\* set and callbacks begun before are "crossed".
DropPresenceKey(s) ==
    /\ sock[s].link = "del"
    /\ sock' = [sock EXCEPT ![s].link = "setex"]
    /\ redis' = [redis EXCEPT !.presence = FALSE]
    /\ check' = [p \in Process |->
                  [check[p] EXCEPT !.excused = @ \/ (check[p].pc = "presence" /\ Here # {})]]
    /\ timer' = [p \in Process |->
                  [timer[p] EXCEPT !.crossed = @ \/ (timer[p].on /\ Here # {})]]
    /\ UNCHANGED <<row, waits, holds, forgotten>>

\* Mutant: the timer is set without the key it looks for.
ScheduleWithoutKey(s) ==
    /\ sock[s].link = "setex"
    /\ sock' = [sock EXCEPT ![s] = Closed]
    /\ waits' = [Ended(s) EXCEPT ![Host[s]] = IF Here # {} THEN {Beat} ELSE {}]
    /\ timer' = [timer EXCEPT ![Host[s]] = [on |-> TRUE, crossed |-> FALSE]]
    /\ UNCHANGED <<row, redis, check, holds, forgotten>>

\* The SETEX of the requeue key and scheduleRequeueCheck, which replaces the
\* process's timer.  Somebody who is here will beat before it is due.
ScheduleRequeueCheck(s) ==
    /\ sock[s].link = "setex"
    /\ sock' = [sock EXCEPT ![s] = Closed]
    /\ redis' = [redis EXCEPT !.requeue = TRUE]
    /\ timer' = [timer EXCEPT ![Host[s]] = [on |-> TRUE, crossed |-> FALSE]]
    /\ waits' = [Ended(s) EXCEPT ![Host[s]] = IF Here # {} THEN {Beat} ELSE {}]
    /\ check' = [p \in Process |-> [check[p] EXCEPT !.excused = @ \/ check[p].pc = "del"]]
    /\ forgotten' = (forgotten /\ redis.presence)
    /\ UNCHANGED <<row, holds>>

-----------------------------------------------------------------------------
(* The requeue timer                                                       *)

\* The callback returns; finally, clearLocalRequeueTimer.
Finish(p) ==
    /\ check' = [check EXCEPT ![p] = NoCheck]
    /\ timer' = Cleared(p)
    /\ waits' = [Ended(p) EXCEPT ![p] = {}]

\* The callback starts with a look at the requeue key.
Due(p) ==
    /\ timer[p].on /\ waits[p] = {} /\ check[p].pc = "idle"
    /\ IF redis.requeue
       THEN /\ check' = [check EXCEPT ![p] = [pc |-> "presence",
                                             excused |-> timer[p].crossed]]
            /\ timer' = Cleared(p)
            /\ UNCHANGED waits
       ELSE Finish(p)
    /\ UNCHANGED <<sock, row, redis, holds, forgotten>>

\* Mutant: the timer trusts the requeue key alone.
CheckNothing(p) ==
    /\ check[p].pc = "presence"
    /\ check' = [check EXCEPT ![p] = [pc |-> "update", excused |-> @.excused \/ Here = {}]]
    /\ UNCHANGED <<sock, row, redis, timer, waits, holds, forgotten>>

CheckPresenceKey(p) ==
    /\ check[p].pc = "presence"
    /\ check' = [check EXCEPT ![p] =
                   IF redis.presence THEN [pc |-> "del", excused |-> FALSE]
                   ELSE [pc |-> "update", excused |-> @.excused \/ Here = {}]]
    /\ UNCHANGED <<sock, row, redis, timer, waits, holds, forgotten>>

\* requeueAgentConversations: its SELECT and its UPDATE look for the same rows.
Requeue(p) ==
    /\ check[p].pc = "update"
    /\ holds' = FALSE
    /\ check' = [check EXCEPT ![p] = [pc |-> "del", excused |-> FALSE]]
    /\ UNCHANGED <<sock, row, redis, timer, waits, forgotten>>

\* The DEL of the requeue key, on every way out, whoever has set it since.
DropRequeueKey(p) ==
    /\ check[p].pc = "del"
    /\ redis' = [redis EXCEPT !.requeue = FALSE]
    /\ forgotten' = (forgotten \/ check[p].excused)
    /\ Finish(p)
    /\ UNCHANGED <<sock, row, holds>>

-----------------------------------------------------------------------------
(* Time, the sweep, conversations and restarts                             *)

Unattended == \A s \in Live : ~ sock[s].focus

PresenceKeyLapses ==
    /\ redis.presence /\ Unattended
    /\ redis' = [redis EXCEPT !.presence = FALSE]
    /\ UNCHANGED <<sock, row, timer, waits, check, holds, forgotten>>

RequeueKeyLapses ==
    /\ redis.requeue
    /\ \A p \in Process : ~ timer[p].on /\ check[p].pc = "idle"
    /\ redis' = [redis EXCEPT !.requeue = FALSE]
    /\ UNCHANGED <<sock, row, timer, waits, check, holds, forgotten>>

SeenLapses ==
    /\ row.fresh /\ Unattended /\ ~ redis.presence
    /\ row' = [row EXCEPT !.fresh = FALSE]
    /\ UNCHANGED <<sock, redis, timer, waits, check, holds, forgotten>>

\* presence-cleanup: a paused row stays as it is, and conversations stay put.
CleanupStalePresence ==
    /\ row = [status |-> "online", fresh |-> FALSE]
    /\ row' = [row EXCEPT !.status = "offline"]
    /\ UNCHANGED <<sock, redis, timer, waits, check, holds, forgotten>>

\* Given by routing, which looks for a connection first, or taken on a page that
\* has one; a connection lost in between is still in its grace.
TakeConversation ==
    /\ ~ holds /\ \E s \in Socket : sock[s].link \in {"live", "grace"}
    /\ holds' = TRUE
    /\ UNCHANGED <<sock, row, redis, timer, waits, check, forgotten>>

\* A process ends with its connections, handlers and timer; Redis and the
\* database remain.  Bound: once until the next timer is set.
Restart(p) ==
    LET lost == {s \in Socket : Host[s] = p}
        left == Unowed(Here \ lost)
    IN  /\ ~ forgotten /\ forgotten' = TRUE
        /\ sock' = [s \in Socket |-> IF s \in lost THEN Closed ELSE sock[s]]
        /\ check' = [check EXCEPT ![p] = NoCheck]
        /\ timer' = Cleared(p)
        /\ waits' = [x \in DOMAIN waits |->
                      IF x \in lost \cup {p} THEN {} ELSE left[x] \ (lost \cup {p})]
        /\ UNCHANGED <<row, redis, holds>>

-----------------------------------------------------------------------------
Client == \E s \in Socket : Connect(s) \/ Focus(s) \/ Heartbeat(s) \/ Blur(s) \/ Disconnect(s)

PresenceOnline(s) ==
    SetPresenceState(s) \/ TouchPresenceKey(s) \/ LookForRequeue(s) \/ CancelPendingRequeue(s)

Leave(s) ==
    LookAround(s) \/ MarkOffline(s) \/ DropPresenceKey(s) \/ ScheduleRequeueCheck(s)

RequeueCheck(p) ==
    Due(p) \/ CheckPresenceKey(p) \/ Requeue(p) \/ DropRequeueKey(p)

Environment ==
    \/ PresenceKeyLapses \/ RequeueKeyLapses \/ SeenLapses \/ CleanupStalePresence
    \/ TakeConversation
    \/ \E p \in Process : Restart(p)

Next ==
    \/ Client \/ Environment
    \/ \E s \in Socket : PresenceOnline(s) \/ Leave(s)
    \/ \E p \in Process : RequeueCheck(p)

Spec == Init /\ [][Next]_vars

-----------------------------------------------------------------------------
\* The row, the keys, the timers and the handlers stay within their types, only
\* a tab that is connected beats, and what a grace waits for is running.
PresenceTypeOK ==
    /\ sock \in [Socket -> SockType]
    /\ row \in [status : Status, fresh : BOOLEAN]
    /\ redis \in [presence : BOOLEAN, requeue : BOOLEAN]
    /\ timer \in [Process -> TimerType]
    /\ check \in [Process -> CheckType]
    /\ {holds, forgotten} \subseteq BOOLEAN
    /\ \A s \in Socket : sock[s].focus => s \in Live
    /\ \A s \in Socket : waits[s] \subseteq Running
    /\ \A p \in Process : waits[p] \subseteq {Beat}

\* A requeue callback that goes on to take the conversations away found nobody
\* at work in any tab.  The one exception is a timer or a callback older than a
\* disconnect handler that deletes the presence key of an agent who is back
\* already; the timer such a handler sets itself does the agent no harm
\* (disconnect, scheduleRequeueCheck, renewPresenceKey).
AttendedKeep ==
    \A p \in Process : check[p].pc = "update" => check[p].excused

\* An agent at work in some tab is "offline" only if a connection opened
\* between the look of a handler of a lost one and its UPDATE; whatever tabs
\* and processes come and go, no other order of steps leaves the row wrong.
OfflineExplained ==
    Here # {} => row.status # "offline"

\* A timer that will find what it looks for, or a callback that has.
Pursuing(p) ==
    \/ timer[p].on /\ redis.requeue /\ ~ redis.presence
    \/ check[p].pc = "presence" /\ ~ redis.presence
    \/ check[p].pc = "update"

\* Conversations of an agent whose last connection is gone are not forgotten:
\* the handler of some lost connection is still to come, or some process's
\* timer or callback will take them back to the queue.  The exceptions are a
\* restart, which takes timers along, and a callback that saw the agent return
\* and deletes the requeue key only after the agent has gone again
\* (disconnect, scheduleRequeueCheck, cancelPendingRequeue).
GoneIsPursued ==
    holds /\ Live = {} /\ ~ forgotten =>
        (\E s \in Socket : sock[s].link # "off") \/ (\E p \in Process : Pursuing(p))
=============================================================================

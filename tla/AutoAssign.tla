----------------------------- MODULE AutoAssign -----------------------------
(***************************************************************************)
(* auto-assign.service.ts with its callers: executions that hand queued    *)
(* conversations to agents while conversations arrive, agents come and go, *)
(* people take rows from the queue and close them.                         *)
(*                                                                         *)
(* The executions run outside any transaction (webhook tail, BullMQ jobs,  *)
(* socket handler): every statement commits by itself and every await lets *)
(* the others run, so one call of autoAssignConversation is the chain      *)
(*   sync -> select -> probe (-> demote -> probe) -> claim -> release ->   *)
(*   insert -> recount -> resync -> raise/lower                            *)
(* with one action for each statement whose place matters.  An HTTP        *)
(* handler runs in the request's transaction and is one action, committed  *)
(* as a whole.                                                             *)
(***************************************************************************)
EXTENDS Desk

CONSTANTS
    Worker,       \* executions of autoAssignConversation that may overlap
    Tiers,        \* Tiers[c]: the agent sets resolveAgentForAssignment falls through
    Qualified,    \* Qualified[c]: agents with every required skill of c's option
    Callers,      \* bound: which callers and people take part in the instance
    MaxRestarts   \* bound: restarts of the API process

ASSUME AutoAssignAssumption ==
    /\ IsFiniteSet(Worker) /\ Worker # {}
    /\ Tiers \in [Conv -> Seq(SUBSET Agent)]
    /\ \A c \in Conv : Len(Tiers[c]) \in 1..3
    /\ Qualified \in [Conv -> SUBSET Agent]
    /\ MaxRestarts \in Nat

VARIABLES
    run,          \* run[w]: where execution w stands and what it has read
    restarts

vars == <<conv, ledger, agent, run, restarts>>

Steps == {"idle", "next", "sync", "select", "probe", "demote", "claim", "release",
          "insert", "recount", "resync", "raise", "lower"}

\* loop: the caller asks for the next queued row until one call fails;
\* pref: preferredAgentId; tier/cand/agent: the query, its rows, the choice.
RunState == [pc : Steps, conv : Conv \cup {NoConv}, pref : Agent \cup {NoAgent},
             loop : BOOLEAN, tier : 0..3, cand : SUBSET Agent,
             agent : Agent \cup {NoAgent}]

At(pc, c, a, loop) == [pc |-> pc, conv |-> c, pref |-> a, loop |-> loop,
                       tier |-> 0, cand |-> {}, agent |-> NoAgent]

Idle == At("idle", NoConv, NoAgent, FALSE)

AutoAssignTypeOK ==
    /\ DeskTypeOK
    /\ run \in [Worker -> RunState]
    /\ restarts \in 0..MaxRestarts

Init ==
    /\ DeskInit
    /\ run = [w \in Worker |-> Idle]
    /\ restarts = 0

-----------------------------------------------------------------------------
(* What starts an execution.                                               *)

Call(w, c) == run' = [run EXCEPT ![w] = At("sync", c, NoAgent, FALSE)]

CallNext(w, a, loop) == run' = [run EXCEPT ![w] = At("next", NoConv, a, loop)]

\* The first message of a contact: the tenant's bot answers with its menu.
ArriveAtBot(c) ==
    /\ conv[c].status = "none"
    /\ conv' = [conv EXCEPT ![c].status = "open", ![c].stage = "menu"]
    /\ UNCHANGED <<ledger, agent, run, restarts>>

\* The same without a bot: the conversation is routed at once and is never
\* given a queue_entered_at.
ArriveAtQueue(w, c) ==
    /\ run[w].pc = "idle"
    /\ conv[c].status = "none"
    /\ conv' = [conv EXCEPT ![c].status = "open"]
    /\ Call(w, c)
    /\ UNCHANGED <<ledger, agent, restarts>>

\* The client picks a leaf of the menu: handleTransferToAgent, then routing.
BotChoice(w, c) ==
    /\ run[w].pc = "idle"
    /\ conv[c].status = "open" /\ conv[c].owner = NoAgent /\ conv[c].stage = "menu"
    /\ conv' = EnqueuedOnce([conv EXCEPT ![c].stage = "human"], c)
    /\ Call(w, c)
    /\ UNCHANGED <<ledger, agent, restarts>>

\* Mutant of RetryJob: only rows with a queue_entered_at are retried.
RetryOnlyTimed(w, c) ==
    /\ run[w].pc = "idle"
    /\ Eligible(conv[c]) /\ conv[c].routing /\ conv[c].queued
    /\ Call(w, c)
    /\ UNCHANGED <<conv, ledger, agent, restarts>>

\* conversation-routing-retry: every 30 s, each routed row still in the queue.
RetryJob(w, c) ==
    /\ run[w].pc = "idle"
    /\ Eligible(conv[c]) /\ conv[c].routing
    /\ Call(w, c)
    /\ UNCHANGED <<conv, ledger, agent, restarts>>

\* process-pending-queue: every 2 min, the head of the queue, while it succeeds.
PendingQueueJob(w) ==
    /\ run[w].pc = "idle"
    /\ QueueHead(conv) # {}
    /\ CallNext(w, NoAgent, TRUE)
    /\ UNCHANGED <<conv, ledger, agent, restarts>>

-----------------------------------------------------------------------------
(* One execution.                                                          *)

\* The caller's loop goes round after a success and ends with a null.
Succeeded(r) == IF r.loop THEN At("next", NoConv, r.pref, TRUE) ELSE Idle

\* autoAssignNextQueuedConversation reads the head of the queue.
ReadHead(w) ==
    /\ run[w].pc = "next"
    /\ \/ \E c \in QueueHead(conv) :
             run' = [run EXCEPT ![w].pc = "sync", ![w].conv = c]
       \/ QueueHead(conv) = {} /\ run' = [run EXCEPT ![w] = Idle]
    /\ UNCHANGED <<conv, ledger, agent, restarts>>

\* syncAllActiveConversationCounters (agents with open rows, then those with
\* none) and the routing_started_at mark, taken together.
Sync(w) ==
    LET c == run[w].conv IN
    /\ run[w].pc = "sync"
    /\ agent' = Recounted(agent, Agent, conv)
    /\ conv' = [conv EXCEPT ![c].routing = @ \/ conv[c].owner = NoAgent]
    /\ run' = [run EXCEPT ![w].pc = "select",
                          ![w].tier = IF run[w].pref = NoAgent THEN 1 ELSE 0]
    /\ UNCHANGED <<ledger, restarts>>

\* Mutant of Candidates: active_conversations <= the limit.
CandidatesAtLimit(tier, lapsed) ==
    {a \in tier : /\ agent[a].available
                  /\ agent[a].status = "online"
                  /\ agent[a].active <= Limit[a]} \ lapsed

\* The WHERE clause every candidate query shares.  last_seen_at of an agent
\* with a socket is kept fresh by heartbeats; without one it may have lapsed.
Candidates(tier, lapsed) ==
    {a \in tier : /\ agent[a].available
                  /\ agent[a].status = "online"
                  /\ agent[a].active < Limit[a]} \ lapsed

TierOf(r) == IF r.tier = 0 THEN {r.pref} ELSE Tiers[r.conv][r.tier]

\* No candidate of this tier was left: the next query, or null.  With both a
\* department and skills (three tiers) the fallbacks open only once the
\* routing_skill_timeout has elapsed.
TierExhausted(r) ==
    (IF r.tier < Len(Tiers[r.conv])
     THEN {[r EXCEPT !.pc = "select", !.tier = @ + 1, !.cand = {}, !.agent = NoAgent]}
     ELSE {Idle})
    \cup (IF r.tier = 1 /\ Len(Tiers[r.conv]) = 3 THEN {Idle} ELSE {})

Select(w) ==
    /\ run[w].pc = "select"
    /\ \E lapsed \in SUBSET {a \in Agent : ~ agent[a].connected} :
          LET rows == Candidates(TierOf(run[w]), lapsed) IN
          IF rows = {}
          THEN \E r \in TierExhausted(run[w]) : run' = [run EXCEPT ![w] = r]
          ELSE run' = [run EXCEPT ![w].pc = "probe", ![w].cand = rows]
    /\ UNCHANGED <<conv, ledger, agent, restarts>>

\* Mutant of Probe: the preferred agent is taken without a look at the skills.
ProbeAnySkill(w) ==
    /\ run[w].pc = "probe"
    /\ \E a \in run[w].cand :
          run' = [run EXCEPT ![w].pc = IF agent[a].connected THEN "claim" ELSE "demote",
                             ![w].agent = a]
    /\ UNCHANGED <<conv, ledger, agent, restarts>>

\* pickConnectedCandidate: the first row that has a socket; the preferred
\* agent must also have the required skills, or the tiers decide.
Probe(w) ==
    /\ run[w].pc = "probe"
    /\ \E a \in run[w].cand :
          IF ~ agent[a].connected
          THEN run' = [run EXCEPT ![w].pc = "demote", ![w].agent = a]
          ELSE IF run[w].tier = 0 /\ a \notin Qualified[run[w].conv]
          THEN \E r \in TierExhausted(run[w]) : run' = [run EXCEPT ![w] = r]
          ELSE run' = [run EXCEPT ![w].pc = "claim", ![w].agent = a]
    /\ UNCHANGED <<conv, ledger, agent, restarts>>

\* The candidate without a socket is written offline, one await after the
\* sockets were counted.
Demote(w) ==
    LET a == run[w].agent
        rest == run[w].cand \ {a} IN
    /\ run[w].pc = "demote"
    /\ agent' = IF agent[a].status = "online"
                THEN [agent EXCEPT ![a].status = "offline", ![a].available = FALSE]
                ELSE agent
    /\ IF rest = {}
       THEN \E r \in TierExhausted(run[w]) : run' = [run EXCEPT ![w] = r]
       ELSE run' = [run EXCEPT ![w].pc = "probe", ![w].cand = rest,
                               ![w].agent = NoAgent]
    /\ UNCHANGED <<conv, ledger, restarts>>

\* Mutant of Claim: the UPDATE trusts the eligibility read before.
ClaimUnchecked(w) ==
    /\ run[w].pc = "claim"
    /\ conv' = Given(conv, run[w].conv, run[w].agent, "auto")
    /\ run' = [run EXCEPT ![w].pc = "release", ![w].cand = {}]
    /\ UNCHANGED <<ledger, agent, restarts>>

\* persistAutoAssignment's UPDATE repeats the eligibility of the row.
Claim(w) ==
    LET c == run[w].conv IN
    /\ run[w].pc = "claim"
    /\ IF Eligible(conv[c])
       THEN /\ conv' = Given(conv, c, run[w].agent, "auto")
            /\ run' = [run EXCEPT ![w].pc = "release", ![w].cand = {}]
       ELSE /\ run' = [run EXCEPT ![w] = Idle]
            /\ UNCHANGED conv
    /\ UNCHANGED <<ledger, agent, restarts>>

Release(w) ==
    /\ run[w].pc = "release"
    /\ ledger' = [ledger EXCEPT ![run[w].conv] = {}]
    /\ run' = [run EXCEPT ![w].pc = "insert"]
    /\ UNCHANGED <<conv, agent, restarts>>

Insert(w) ==
    /\ run[w].pc = "insert"
    /\ ledger' = [ledger EXCEPT ![run[w].conv] = @ \cup {run[w].agent}]
    /\ run' = [run EXCEPT ![w].pc = "recount"]
    /\ UNCHANGED <<conv, agent, restarts>>

Recount(w) ==
    /\ run[w].pc = "recount"
    /\ agent' = Recounted(agent, {run[w].agent}, conv)
    /\ run' = [run EXCEPT ![w].pc = "resync"]
    /\ UNCHANGED <<conv, ledger, restarts>>

\* syncAgentAvailability outside a transaction: the recount returns the row
\* from which the availability is decided, and a second statement writes it.
Resync(w) ==
    LET a == run[w].agent
        row == [agent[a] EXCEPT !.active = Load(conv, a)]
        below == row.active < Limit[a] IN
    /\ run[w].pc = "resync"
    /\ agent' = [agent EXCEPT ![a] = row]
    /\ run' = [run EXCEPT ![w] = IF row.status # "online" \/ row.available = below
                                 THEN Succeeded(run[w])
                                 ELSE [@ EXCEPT !.pc = IF below THEN "raise" ELSE "lower"]]
    /\ UNCHANGED <<conv, ledger, restarts>>

\* Mutant of SetAvailable: written whatever the status has become.
SetAvailableAnyStatus(w) ==
    /\ run[w].pc \in {"raise", "lower"}
    /\ agent' = [agent EXCEPT ![run[w].agent].available = (run[w].pc = "raise")]
    /\ run' = [run EXCEPT ![w] = Succeeded(run[w])]
    /\ UNCHANGED <<conv, ledger, restarts>>

SetAvailable(w) ==
    LET a == run[w].agent IN
    /\ run[w].pc \in {"raise", "lower"}
    /\ agent' = IF agent[a].status = "online"
                THEN [agent EXCEPT ![a].available = (run[w].pc = "raise")]
                ELSE agent
    /\ run' = [run EXCEPT ![w] = Succeeded(run[w])]
    /\ UNCHANGED <<conv, ledger, restarts>>

-----------------------------------------------------------------------------
(* What people and sockets do meanwhile.                                   *)

\* Mutant of TakeFromQueue: the ledger is left alone.
TakeWithoutLedger(a, c) ==
    LET given == Given(conv, c, a, "person") IN
    /\ Eligible(conv[c])
    /\ conv' = given
    /\ agent' = Resynced(agent, {a}, given)
    /\ UNCHANGED <<ledger, run, restarts>>

\* POST /queue/:id/assign-me, no limit applies to a person.
TakeFromQueue(a, c) ==
    LET given == Given(conv, c, a, "person") IN
    /\ Eligible(conv[c])
    /\ conv' = given
    /\ ledger' = [ledger EXCEPT ![c] = {a}]
    /\ agent' = Resynced(agent, {a}, given)
    /\ UNCHANGED <<run, restarts>>

\* closeConversation and its route, by the owner or by an administrator; the
\* status is not asked for, and a closed conversation can be closed again.
Close(c) ==
    LET closed == Dequeued([conv EXCEPT ![c].status = "closed"], c) IN
    /\ conv[c].status # "none"
    /\ conv' = closed
    /\ ledger' = [ledger EXCEPT ![c] = {}]
    /\ agent' = Resynced(agent, {conv[c].owner}, closed)
    /\ UNCHANGED <<run, restarts>>

\* The socket connects and handlePresenceOnline runs: a pause survives it;
\* coming online from offline asks for queued rows on the agent's behalf.
GoOnline(w, a) ==
    LET status == IF agent[a].status = "paused" THEN "paused" ELSE "online" IN
    /\ run[w].pc = "idle"
    /\ agent' = [agent EXCEPT ![a].connected = TRUE, ![a].status = status,
                              ![a].available = (status = "online")]
    /\ IF agent[a].status = "offline" THEN CallNext(w, a, TRUE) ELSE UNCHANGED run
    /\ UNCHANGED <<conv, ledger, restarts>>

LoseSocket(a) ==
    /\ agent[a].connected
    /\ agent' = [agent EXCEPT ![a].connected = FALSE]
    /\ UNCHANGED <<conv, ledger, run, restarts>>

\* The 5 s grace after a disconnect ends without another socket, whatever the
\* status was; presence-cleanup does the same to a stale "online" row.
GraceOver(a) ==
    /\ ~ agent[a].connected /\ agent[a].status # "offline"
    /\ agent' = [agent EXCEPT ![a].status = "offline", ![a].available = FALSE]
    /\ UNCHANGED <<conv, ledger, run, restarts>>

StartPause(a) ==
    /\ agent[a].status # "paused"
    /\ agent' = [agent EXCEPT ![a].status = "paused", ![a].available = FALSE]
    /\ UNCHANGED <<conv, ledger, run, restarts>>

\* endPause, whatever the status was; one row is asked for.
EndPause(w, a) ==
    /\ run[w].pc = "idle"
    /\ agent' = [agent EXCEPT ![a].status = "online", ![a].available = TRUE]
    /\ CallNext(w, a, FALSE)
    /\ UNCHANGED <<conv, ledger, restarts>>

\* PUT /availability: on brings the agent online and empties the queue for
\* them; off keeps a pause.  Both recount every agent.
ToggleOn(w, a) ==
    /\ run[w].pc = "idle"
    /\ agent' = Recounted([agent EXCEPT ![a].status = "online", ![a].available = TRUE],
                          Agent, conv)
    /\ CallNext(w, a, TRUE)
    /\ UNCHANGED <<conv, ledger, restarts>>

ToggleOff(a) ==
    /\ agent' = Recounted([agent EXCEPT ![a].status = IF @ = "paused" THEN @ ELSE "offline",
                                        ![a].available = FALSE],
                          Agent, conv)
    /\ UNCHANGED <<conv, ledger, run, restarts>>

\* The API process restarts: executions in progress are lost where they stand.
Restart ==
    /\ restarts < MaxRestarts
    /\ restarts' = restarts + 1
    /\ run' = [w \in Worker |-> Idle]
    /\ agent' = [a \in Agent |-> [agent[a] EXCEPT !.connected = FALSE]]
    /\ UNCHANGED <<conv, ledger>>

-----------------------------------------------------------------------------
Execute(w) ==
    \/ ReadHead(w) \/ Sync(w) \/ Select(w) \/ Probe(w) \/ Demote(w)
    \/ Claim(w) \/ Release(w) \/ Insert(w) \/ Recount(w)
    \/ Resync(w) \/ SetAvailable(w)

Trigger(w) ==
    \/ "pending" \in Callers /\ PendingQueueJob(w)
    \/ \E c \in Conv :
          \/ "webhook" \in Callers /\ ArriveAtQueue(w, c)
          \/ "bot" \in Callers /\ BotChoice(w, c)
          \/ RetryJob(w, c)
    \/ \E a \in Agent :
          \/ "online" \in Callers /\ GoOnline(w, a)
          \/ "pause" \in Callers /\ EndPause(w, a)
          \/ "toggle" \in Callers /\ ToggleOn(w, a)

Desktop ==
    \/ \E c \in Conv :
          \/ "bot" \in Callers /\ ArriveAtBot(c)
          \/ "close" \in Callers /\ Close(c)
          \/ "take" \in Callers /\ \E a \in Agent : TakeFromQueue(a, c)
    \/ \E a \in Agent :
          \/ "drop" \in Callers /\ (LoseSocket(a) \/ GraceOver(a))
          \/ "pause" \in Callers /\ StartPause(a)
          \/ "toggle" \in Callers /\ ToggleOff(a)

Next ==
    \/ \E w \in Worker : Execute(w) \/ Trigger(w)
    \/ Desktop
    \/ Restart

Spec == Init /\ [][Next]_vars

\* The jobs are repeatable BullMQ jobs: each run walks every routed row of the
\* queue (25 at a time, oldest first), so a row that is eligible at infinitely
\* many runs is tried infinitely often; an execution that started goes on.
Fairness ==
    /\ \A w \in Worker : WF_vars(Execute(w))
    /\ \A c \in Conv : SF_vars(\E w \in Worker : RetryJob(w, c))

FairSpec == Spec /\ Fairness

-----------------------------------------------------------------------------
(* Properties.                                                             *)

\* Routing and the queue take nobody's conversation over: they give a row only
\* out of the human queue, so two executions that chose the same row, or one
\* racing a person's assign-me, end with a single winner (the re-checked WHERE
\* of persistAutoAssignment and assignQueuedConversationToMe).  Whoever means
\* to take a row over, a transfer or the requeue, is not of this module.
GivenOnlyFromQueue ==
    [][\A c \in Conv : conv'[c].owner # conv[c].owner => Eligible(conv[c])]_vars

\* The limit is read when the candidate is selected and not again when the row
\* is given, so overlapping executions can pass it; yet however their steps
\* interleave, and across a restart, routing never leaves an agent with more
\* than the limit plus one row for each other execution.
OvershootBounded ==
    \A a \in Agent :
        Cardinality(RoutedTo(conv, a)) <= Limit[a] + Cardinality(Worker) - 1

\* What the architecture document promises: the limit is a hard cap.
LimitIsHardCap ==
    \A a \in Agent : Cardinality(RoutedTo(conv, a)) <= Limit[a]

\* Once routing is done with an open, owned conversation, its one unreleased
\* row in conversation_assignments is its owner's: the handling times the
\* metrics compute are the right agent's.  This is about the writers modelled
\* here (routing, taking from the queue, closing): /assign writes no row and a
\* transfer may fall between the claim and the insert.
LedgerFollowsOwner ==
    \A c \in Conv :
        (/\ conv[c].status = "open" /\ conv[c].owner # NoAgent
         /\ \A w \in Worker : run[w].conv = c => run[w].pc \notin {"release", "insert"})
        => ledger[c] = {conv[c].owner}

\* A pause is honoured: the availability an execution decided on from an
\* earlier read is never written over a pause or over a disconnect.
AvailableOnlyOnline ==
    \A a \in Agent : agent[a].available => agent[a].status = "online"

\* An option whose only tier is its qualified agents is served by them alone:
\* the shortcut for an agent who just came online does not get round the
\* required skill, and routing does not leak into the general round robin.
SkillGate ==
    \A c \in Conv :
        (conv[c].source = "auto" /\ Tiers[c] = <<Qualified[c]>>)
        => conv[c].owner \in Qualified[c]

\* A routed row of the queue does not wait for ever while one agent of its
\* first tier stays connected, online, available and below the limit.
ReadyFor(a, c) ==
    /\ a \in Tiers[c][1]
    /\ agent[a].connected /\ agent[a].available /\ agent[a].status = "online"
    /\ Load(conv, a) < Limit[a]

RoutedIsServed ==
    \A c \in Conv, a \in Agent :
        ~ <>[](Eligible(conv[c]) /\ conv[c].routing /\ ReadyFor(a, c))

=============================================================================

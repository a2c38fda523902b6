-------------------------------- MODULE Desk --------------------------------
(***************************************************************************)
(* The rows that routing and the conversation handlers share: the          *)
(* conversations table, the open rows of conversation_assignments (the     *)
(* ledger the metrics read), and agent_assignments together with what the  *)
(* socket server knows of each agent.  The operators of this module are    *)
(* the predicates and single UPDATE statements the services have in        *)
(* common; AutoAssign gives them their callers.                            *)
(*                                                                         *)
(* A timestamp is kept only as far as code compares it: queue_entered_at   *)
(* as "queued" and the set "ahead" of conversations queued before this     *)
(* one, routing_started_at as a flag, last_assigned_at not at all (the     *)
(* round robin is a free choice among the candidates).                     *)
(***************************************************************************)
EXTENDS Integers, Sequences, FiniteSets

CONSTANTS
    Conv,       \* conversations
    Agent,      \* users with an agent_assignments row
    NoAgent,    \* assigned_to IS NULL
    NoConv,     \* no conversation in hand
    Limit       \* COALESCE(aa.max_conversations, <tenant limit>)

ASSUME DeskAssumption ==
    /\ IsFiniteSet(Conv) /\ NoConv \notin Conv
    /\ IsFiniteSet(Agent) /\ NoAgent \notin Agent
    /\ Limit \in [Agent -> Nat]

VARIABLES
    conv,       \* conv[c]   : the row of conversations
    ledger,     \* ledger[c] : agents with an unreleased row for c
    agent       \* agent[a]  : the row of agent_assignments, and the sockets

Status == {"none", "open", "waiting", "closed"}

\* "menu": bot_stage = 'waiting_choice'; "ai": ai_agent_active = true;
\* "human": neither, the only stage from which a person may be given the row.
Stage == {"menu", "ai", "human"}

ConvRow == [status : Status, owner : Agent \cup {NoAgent}, queued : BOOLEAN,
            ahead : SUBSET Conv, stage : Stage, routing : BOOLEAN,
            source : {"none", "auto", "person"}]

AgentRow == [status : {"online", "paused", "offline"}, available : BOOLEAN,
             active : Nat, connected : BOOLEAN]

DeskTypeOK ==
    /\ conv \in [Conv -> ConvRow]
    /\ ledger \in [Conv -> SUBSET Agent]
    /\ agent \in [Agent -> AgentRow]

NewConv == [status |-> "none", owner |-> NoAgent, queued |-> FALSE, ahead |-> {},
            stage |-> "human", routing |-> FALSE, source |-> "none"]

OfflineAgent == [status |-> "offline", available |-> FALSE, active |-> 0,
                 connected |-> FALSE]

DeskInit ==
    /\ conv = [c \in Conv |-> NewConv]
    /\ ledger = [c \in Conv |-> {}]
    /\ agent = [a \in Agent |-> OfflineAgent]

-----------------------------------------------------------------------------
\* The row a person may be given: humanQueueEligibilityCondition.
Eligible(r) == r.owner = NoAgent /\ r.status = "open" /\ r.stage = "human"

\* COUNT(*) WHERE assigned_to = a AND status = 'open', over the rows cs.
OpenOf(cs, a) == {c \in Conv : cs[c].owner = a /\ cs[c].status = "open"}
Load(cs, a) == Cardinality(OpenOf(cs, a))

\* The open conversations an agent holds because routing put them there, as
\* the audit log tells them apart (source: 'auto_assign').
RoutedTo(cs, a) == {c \in OpenOf(cs, a) : cs[c].source = "auto"}

\* The recount of active_conversations for the agents of S, over the rows cs.
Recounted(ag, S, cs) ==
    [a \in Agent |-> IF a \in S THEN [ag[a] EXCEPT !.active = Load(cs, a)] ELSE ag[a]]

\* Mutant of Resynced: the counter is decremented instead of recounted.
Decremented(ag, S, cs) ==
    [a \in Agent |-> IF a \in S THEN [ag[a] EXCEPT !.active = @ - 1] ELSE ag[a]]

\* syncAgentAvailability in a request's transaction: recount, then raise or
\* lower is_available of an online agent to whether it is below its limit.
Resynced(ag, S, cs) ==
    [a \in Agent |->
        IF a \notin S THEN ag[a]
        ELSE [ag[a] EXCEPT !.active = Load(cs, a),
                           !.available = IF ag[a].status = "online"
                                         THEN Load(cs, a) < Limit[a] ELSE @]]

-----------------------------------------------------------------------------
\* queue_entered_at := NULL for c; nobody waits behind it any more.
Dequeued(cs, c) ==
    [d \in Conv |-> IF d = c THEN [cs[d] EXCEPT !.queued = FALSE, !.ahead = {}]
                             ELSE [cs[d] EXCEPT !.ahead = @ \ {c}]]

\* queue_entered_at := NOW() for the rows of S: behind every other queued row.
Enqueued(cs, S) ==
    [d \in Conv |->
        IF d \in S THEN [cs[d] EXCEPT !.queued = TRUE,
                                      !.ahead = {e \in Conv \ S : cs[e].queued}]
                   ELSE [cs[d] EXCEPT !.ahead = @ \ S]]

\* COALESCE(queue_entered_at, NOW()): a row already queued keeps its place.
EnqueuedOnce(cs, c) == IF cs[c].queued THEN cs ELSE Enqueued(cs, {c})

\* ORDER BY queue_entered_at ASC NULLS LAST LIMIT 1 over the eligible rows;
\* rows that never entered the queue tie and come last.
QueueHead(cs) ==
    LET candidates == {c \in Conv : Eligible(cs[c])}
        before(d, c) == cs[d].queued /\ (~ cs[c].queued \/ d \in cs[c].ahead)
    IN  {c \in candidates : \A d \in candidates : d # c => ~ before(d, c)}

\* The UPDATE that gives a row to an agent: owned, open, out of the queue.
Given(cs, c, a, by) ==
    Dequeued([cs EXCEPT ![c].owner = a, ![c].status = "open", ![c].source = by], c)

=============================================================================

---------------------------- MODULE Conversation ----------------------------
(***************************************************************************)
(* The conversations ("protocols") of one contact on one WhatsApp channel: *)
(* what the webhook does with each of the contact's messages, what people  *)
(* do to the rows through the HTTP routes, the satisfaction survey (CSAT), *)
(* and the jobs that close rows.                                           *)
(*                                                                         *)
(* The webhook takes an advisory lock for the contact and the channel, so  *)
(* one message is handled at a time; it reads the row it will write first  *)
(* (Resolve) and locks that row only by writing it, so people and jobs     *)
(* come between.  What follows the commit -- cancelling and scheduling the *)
(* inactivity jobs, the AI agent's turn -- holds no lock at all.           *)
(***************************************************************************)
EXTENDS Naturals, FiniteSets

CONSTANTS
    Msg,            \* external ids of the contact's messages
    Goodbye,        \* those whose text is the closing keyword, "#sair"
    NoMsg,
    MaxConv,        \* bound: conversations
    MaxDeliveries,  \* bound: deliveries by Meta, repetitions included
    MaxMoves        \* bound: requests of agents

ASSUME ConversationAssumption ==
    /\ Goodbye \subseteq Msg /\ NoMsg \notin Msg
    /\ {MaxConv, MaxDeliveries, MaxMoves} \subseteq Nat

Protocol == 1..MaxConv   \* in the order of created_at

VARIABLES
    row,        \* row[v]: the row of conversations
    stored,     \* stored[m]: the conversation m is stored in, or 0
    inbox,      \* deliveries still to come
    hook,       \* the webhook's transaction: message, row read, rows expired
    after,      \* what handlers have left to do to the inactivity jobs
    thinking,   \* conversations with a turn of the AI agent under way
    away,       \* conversation the out-of-hours handler is about to close, or 0
    jobs,       \* jobs[v]: the inactivity jobs in the queue
    active,     \* the inactivity job under way
    idle,       \* idle[v]: last_message_at is so many intervals ago
    old,        \* conversation the 24 h job is about to close, or 0
    asks,       \* asks[v]: requests that closed v and have sendCsatMessage ahead
    survey,     \* rows locked by a sendCsatMessage that has sent its text
    moves,      \* requests of agents so far
    surveys,    \* history: texts of the survey sent for v
    losses,     \* history: those whose transaction failed afterwards
    excused     \* history: alive rows nobody has put under watch (see Watched)

vars == <<row, stored, inbox, hook, after, thinking, away, jobs, active, idle,
          old, asks, survey, moves, surveys, losses, excused>>

clock == <<after, jobs, active, idle, excused>>
polls == <<asks, survey, surveys, losses>>

\* An expiry column (waiting_expires_at, csat_expires_at): NULL, ahead, behind.
Deadline == {"no", "ahead", "behind"}

RowType == [status : {"none", "open", "waiting", "closed"},
            by : {"none", "agent", "system"},        \* close_type_id, closure_reason
            stage : {"none", "sent", "comment", "done"},
            csat : Deadline, wait : Deadline,
            owner : BOOLEAN, outbound : BOOLEAN,
            opener : Msg \cup {NoMsg}]               \* history: the message it was opened for

NoRow == [status |-> "none", by |-> "none", stage |-> "none", csat |-> "no", wait |-> "no",
          owner |-> FALSE, outbound |-> FALSE, opener |-> NoMsg]
NoHook == [msg |-> NoMsg, v |-> 0, saw |-> NoRow, expired |-> {}]
NoJobs == [warning |-> "no", close |-> "no"]
Idle == [v |-> 0, type |-> "close", go |-> FALSE]

Init ==
    /\ row = [v \in Protocol |-> NoRow]
    /\ stored = [m \in Msg |-> 0] /\ inbox = MaxDeliveries
    /\ hook = NoHook /\ after = {} /\ thinking = {} /\ away = 0
    /\ jobs = [v \in Protocol |-> NoJobs] /\ active = Idle
    /\ idle = [v \in Protocol |-> 0]
    /\ old = 0 /\ moves = 0
    /\ asks = [v \in Protocol |-> 0] /\ survey = {}
    /\ surveys = asks /\ losses = asks /\ excused = {}

-----------------------------------------------------------------------------
(* Rows                                                                    *)

Alive(r) == r.status \in {"open", "waiting"}
Surveying(r) == r.stage \in {"sent", "comment"}
WaitOver(r) == r.status = "waiting" /\ r.wait = "behind"

Used == {v \in Protocol : row[v].status # "none"}
Next_v == Cardinality(Used) + 1
Newest(S) == IF S = {} THEN 0 ELSE CHOOSE v \in S : \A w \in S : w <= v

\* A closing that names its own reason.
ClosedBySystem(r) == [r EXCEPT !.status = "closed", !.by = "system"]

\* Mutant: the keyword and the survey's end write their own classification.
FinishedPlainly(r) == [r EXCEPT !.status = "closed", !.by = "system"]

\* A closing of a row that may be closed already: COALESCE keeps the reason.
Finished(r) == [r EXCEPT !.status = "closed", !.by = IF @ = "none" THEN "system" ELSE @]

\* Mutant: the survey's end leaves its window open.
SurveyOverInWindow(r) == [Finished(r) EXCEPT !.stage = "done"]

SurveyOver(r) == [Finished(r) EXCEPT !.stage = "done", !.csat = "no"]

\* Rows some transaction has written or locked and not committed.
Locked == hook.expired \cup survey

-----------------------------------------------------------------------------
(* The webhook                                                             *)

\* The rows as the transaction sees them: those it has found expired closed.
Seen(expired) == [v \in Protocol |-> IF v \in expired THEN ClosedBySystem(row[v]) ELSE row[v]]

\* The lock, the expiry of waiting rows, and the row the message belongs to.
Resolve(m) ==
    /\ hook = NoHook /\ inbox > 0
    /\ LET expired == {w \in Protocol : WaitOver(row[w])}
           v == Newest({w \in Protocol : Alive(Seen(expired)[w]) \/ Surveying(row[w])})
       IN /\ expired \cap survey = {}
          /\ hook' = [msg |-> m, v |-> v, expired |-> expired,
                      saw |-> IF v = 0 THEN NoRow ELSE Seen(expired)[v]]
    /\ inbox' = inbox - 1
    /\ UNCHANGED <<row, stored, thinking, away, old, moves, clock, polls>>

\* Mutant: the message is looked for in the conversation that would receive it.
IsDuplicateHere(m) == stored[m] # 0 /\ stored[m] = hook.v

IsDuplicate(m) == stored[m] # 0

Duplicate ==
    /\ hook.msg # NoMsg /\ IsDuplicate(hook.msg)
    /\ row' = Seen(hook.expired) /\ hook' = NoHook
    /\ UNCHANGED <<stored, inbox, thinking, away, old, moves, clock, polls>>

\* Any step fails; also what a "#sair" of a contact without a conversation
\* ends in, whose farewell refers to a row not yet committed.
Rollback ==
    /\ hook.msg # NoMsg
    /\ hook' = NoHook
    /\ UNCHANGED <<row, stored, inbox, thinking, away, old, moves, clock, polls>>

\* The transaction goes on with a message seen for the first time.
Handling == hook.msg # NoMsg /\ ~ IsDuplicate(hook.msg) /\ hook.v \notin survey

Leaves == hook.msg \in Goodbye

\* "#sair" with a row: it is closed, and the message itself is not stored.
CloseByKeyword ==
    /\ Handling /\ Leaves /\ hook.v # 0
    /\ row' = [Seen(hook.expired) EXCEPT ![hook.v] = Finished(@)]
    /\ hook' = NoHook
    /\ after' = after \cup {<<hook.v, "cancel">>}
    /\ UNCHANGED <<stored, inbox, thinking, away, old, moves, jobs, active, idle, excused, polls>>

\* The message is stored in v, and v is to be watched again after the commit.
Store(v) ==
    /\ stored' = [stored EXCEPT ![hook.msg] = v]
    /\ idle' = [idle EXCEPT ![v] = 0]
    /\ after' = after \cup {<<v, "restart">>}
    /\ hook' = NoHook
    /\ UNCHANGED <<inbox, away, old, moves, jobs, active, excused, polls>>

\* The AI agent may take a turn after the commit.
MayThink(v) == \E t \in {{}, {v}} : thinking' = thinking \cup t

\* Mutant: nobody looks at the window of the survey.
LapsedNever == FALSE

\* The survey was sent and its window has closed: that row stays closed.
Lapsed == Surveying(hook.saw) /\ hook.saw.csat = "behind"

\* No row, or one whose survey has lapsed: a new conversation.
Start ==
    /\ Handling /\ ~ Leaves /\ (hook.v = 0 \/ Lapsed)
    /\ Next_v \in Protocol
    /\ row' = [v \in Protocol |->
                IF v = Next_v THEN [NoRow EXCEPT !.status = "open", !.opener = hook.msg]
                ELSE IF v = hook.v THEN SurveyOver(row[v])
                ELSE Seen(hook.expired)[v]]
    /\ Store(Next_v) /\ MayThink(Next_v)

\* What an answer to the survey makes of the row once the reply was delivered:
\* a score asks for a comment, a comment ends the survey.
Answered(r) ==
    IF hook.saw.stage = "sent" THEN {r, [r EXCEPT !.stage = "comment"]} ELSE {SurveyOver(r)}

\* A message within the survey's window; a reply that is not delivered leaves
\* the survey where it is.
AnswerSurvey ==
    /\ Handling /\ ~ Leaves /\ Surveying(hook.saw) /\ ~ Lapsed
    /\ \E r \in Answered(Seen(hook.expired)[hook.v]) \cup {Seen(hook.expired)[hook.v]} :
          row' = [Seen(hook.expired) EXCEPT ![hook.v] = r]
    /\ Store(hook.v) /\ UNCHANGED thinking

\* The customer comes back to a waiting row: to the agent who waits or another.
WaitingReturn ==
    /\ Handling /\ ~ Leaves /\ ~ Surveying(hook.saw) /\ hook.saw.status = "waiting"
    /\ \E owner \in BOOLEAN :
          row' = [Seen(hook.expired) EXCEPT ![hook.v].status = "open", ![hook.v].wait = "no",
                                            ![hook.v].owner = owner]
    /\ Store(hook.v) /\ UNCHANGED thinking

\* Mutant: as before 0.10.4, a message after the window finishes the survey and
\* goes on with the old row, where the bot writes the status.
TalkInLapsed ==
    /\ Handling /\ ~ Leaves /\ hook.v # 0
    /\ Lapsed \/ (~ Surveying(hook.saw) /\ hook.saw.status = "open")
    /\ Store(hook.v) /\ UNCHANGED thinking
    /\ row' = [Seen(hook.expired) EXCEPT ![hook.v].status = "open"]

\* A message to an open row: the agent's, or the queue's, the bot's or the AI
\* agent's; a reply of the bot writes the status.
Talk ==
    /\ Handling /\ ~ Leaves /\ ~ Surveying(hook.saw) /\ hook.saw.status = "open"
    /\ Store(hook.v)
    /\ \/ /\ row' = Seen(hook.expired)
          /\ IF hook.saw.owner THEN UNCHANGED thinking ELSE MayThink(hook.v)
       \/ /\ ~ hook.saw.owner
          /\ row' = [Seen(hook.expired) EXCEPT ![hook.v].status = "open"]
          /\ MayThink(hook.v)

\* The AI agent's turn ends, with an answer (which writes the status) or not.
AITurn(v) ==
    /\ v \in thinking /\ <<v, "restart">> \notin after /\ v \notin Locked
    /\ thinking' = thinking \ {v}
    /\ \/ UNCHANGED <<row, idle, excused>>
       \/ /\ row' = [row EXCEPT ![v].status = "open"]
          /\ idle' = [idle EXCEPT ![v] = 0]
          /\ excused' = IF row[v].status = "closed" THEN excused \cup {v} ELSE excused
    /\ UNCHANGED <<stored, inbox, hook, after, away, jobs, active, old, moves, polls>>

\* Out of business hours a message is not stored; the open conversation is
\* closed after the away message was sent, without a lock.
OutsideHours ==
    /\ away = 0 /\ inbox > 0
    /\ inbox' = inbox - 1
    /\ away' = Newest({v \in Protocol : Alive(row[v])})
    /\ UNCHANGED <<row, stored, hook, thinking, old, moves, clock, polls>>

CloseOutsideHours ==
    /\ away # 0 /\ away \notin Locked
    /\ row' = IF Alive(row[away]) THEN [row EXCEPT ![away].status = "closed"] ELSE row
    /\ jobs' = [jobs EXCEPT ![away] = NoJobs]
    /\ away' = 0
    /\ UNCHANGED <<stored, inbox, hook, after, thinking, active, idle, old, moves, excused, polls>>

-----------------------------------------------------------------------------
(* What follows the commit: cancelInactivityJobs, scheduleInactivityCheck  *)

CancelWatch(v) ==
    /\ <<v, "cancel">> \in after
    /\ after' = after \ {<<v, "cancel">>}
    /\ jobs' = [jobs EXCEPT ![v] = NoJobs]
    /\ excused' = excused \cup {v}
    /\ UNCHANGED <<row, stored, inbox, hook, thinking, away, active, idle, old, moves, polls>>

\* A job under way cannot be removed, and a job of its id is not added beside it.
UnderWay(v) == active.v = v /\ active.type = "warning"

RestartWatch(v) ==
    /\ <<v, "restart">> \in after
    /\ after' = after \ {<<v, "restart">>}
    /\ jobs' = [jobs EXCEPT ![v] =
                 [NoJobs EXCEPT !.warning = IF UnderWay(v) THEN "no" ELSE "delayed"]]
    /\ excused' = IF UnderWay(v) THEN excused \cup {v} ELSE excused \ {v}
    /\ UNCHANGED <<row, stored, inbox, hook, thinking, away, active, idle, old, moves, polls>>

-----------------------------------------------------------------------------
(* People                                                                  *)

Moved == moves < MaxMoves /\ moves' = moves + 1

\* createConversation; only an open row is a duplicate, a waiting one is not.
CreateConversation(outbound) ==
    /\ Moved /\ Next_v \in Protocol
    /\ \A v \in Protocol : row[v].status # "open"
    /\ row' = [row EXCEPT ![Next_v] =
                [NoRow EXCEPT !.status = IF outbound THEN "waiting" ELSE "open", !.owner = TRUE,
                              !.outbound = outbound, !.wait = IF outbound THEN "ahead" ELSE "no"]]
    /\ excused' = excused \cup {Next_v}
    /\ UNCHANGED <<stored, inbox, hook, after, thinking, away, jobs, active, idle, old, polls>>

\* assignConversation does not look at the status.
AssignConversation(v) ==
    /\ Moved /\ v \in Used \ Locked
    /\ row' = [row EXCEPT ![v].status = "open", ![v].owner = TRUE, ![v].wait = "no"]
    /\ excused' = IF row[v].status = "closed" THEN excused \cup {v} ELSE excused
    /\ UNCHANGED <<stored, inbox, hook, after, thinking, away, jobs, active, idle, old, polls>>

\* transferConversation finds an agent for a row of any status, and leaves the
\* status as it is.
TransferConversation(v) ==
    /\ Moved /\ v \in Used \ Locked
    /\ row' = [row EXCEPT ![v].owner = TRUE]
    /\ UNCHANGED <<stored, inbox, hook, thinking, away, old, clock, polls>>

\* closeConversation, by its agent or an administrator, then sendCsatMessage.
CloseConversation(v) ==
    /\ Moved /\ v \in Used \ Locked
    /\ row' = [row EXCEPT ![v].status = "closed", ![v].by = "agent", ![v].wait = "no"]
    /\ asks' = [asks EXCEPT ![v] = @ + 1]
    /\ UNCHANGED <<stored, inbox, hook, thinking, away, old, survey, surveys, losses, clock>>

\* PATCH of the status; only a PATCH to closed asks for the survey.
UpdateConversation(v, status) ==
    /\ Moved /\ v \in Used \ Locked
    /\ row' = [row EXCEPT ![v].status = status]
    /\ asks' = IF status = "closed" THEN [asks EXCEPT ![v] = @ + 1] ELSE asks
    /\ excused' = IF row[v].status = "closed" THEN excused \cup {v} ELSE excused
    /\ UNCHANGED <<stored, inbox, hook, after, thinking, away, jobs, active, idle, old,
                   survey, surveys, losses>>

\* An agent writes; the status is not looked at.
SendMessage(v) ==
    /\ Moved /\ v \in Used \ Locked
    /\ idle' = [idle EXCEPT ![v] = 0]
    /\ after' = after \cup {<<v, "restart">>}
    /\ UNCHANGED <<row, stored, inbox, hook, thinking, away, jobs, active, old, excused, polls>>

-----------------------------------------------------------------------------
(* sendCsatMessage                                                         *)

\* Mutant: the row is read without FOR UPDATE.
SendCsatUnlocked(v) ==
    /\ asks[v] > 0
    /\ asks' = [asks EXCEPT ![v] = @ - 1]
    /\ IF row[v].stage = "none" /\ ~ row[v].outbound
       THEN survey' = survey \cup {v} /\ surveys' = [surveys EXCEPT ![v] = @ + 1]
       ELSE UNCHANGED <<survey, surveys>>
    /\ UNCHANGED <<row, stored, inbox, hook, thinking, away, old, moves, losses, clock>>

\* The row is locked and looked at, and the text sent (or not, and that is all).
SendCsat(v) ==
    /\ asks[v] > 0 /\ v \notin Locked
    /\ asks' = [asks EXCEPT ![v] = @ - 1]
    /\ \/ UNCHANGED <<survey, surveys>>
       \/ /\ row[v].stage = "none" /\ ~ row[v].outbound
          /\ survey' = survey \cup {v}
          /\ surveys' = [surveys EXCEPT ![v] = @ + 1]
    /\ UNCHANGED <<row, stored, inbox, hook, thinking, away, old, moves, losses, clock>>

RecordCsat(v) ==
    /\ v \in survey
    /\ survey' = survey \ {v}
    /\ row' = [row EXCEPT ![v].stage = "sent", ![v].csat = "ahead"]
    /\ UNCHANGED <<stored, inbox, hook, thinking, away, old, moves, asks, surveys, losses, clock>>

\* The transaction fails after the text has gone out.
LoseCsat(v) ==
    /\ v \in survey
    /\ survey' = survey \ {v}
    /\ losses' = [losses EXCEPT ![v] = @ + 1]
    /\ UNCHANGED <<row, stored, inbox, hook, thinking, away, old, moves, asks, surveys, clock>>

-----------------------------------------------------------------------------
(* Time and the jobs                                                       *)

Later(d) == IF d = "delayed" THEN "due" ELSE d

\* One interval of inactivity passes: the warning's and, after it, the closing's.
\* A turn of the AI agent is shorter than that.
Tick ==
    /\ thinking = {}
    /\ idle' = [v \in Protocol |-> IF idle[v] < 2 THEN idle[v] + 1 ELSE 2]
    /\ jobs' = [v \in Protocol |-> [warning |-> Later(jobs[v].warning), close |-> Later(jobs[v].close)]]
    /\ <<idle, jobs>>' # <<idle, jobs>>
    /\ UNCHANGED <<row, stored, inbox, hook, after, thinking, away, active, old, moves, excused, polls>>

\* waiting_expires_at or csat_expires_at is reached.
DeadlinePasses(v) ==
    /\ v \notin Locked
    /\ \/ row[v].wait = "ahead" /\ row' = [row EXCEPT ![v].wait = "behind"]
       \/ row[v].csat = "ahead" /\ row' = [row EXCEPT ![v].csat = "behind"]
    /\ UNCHANGED <<stored, inbox, hook, thinking, away, old, moves, clock, polls>>

\* processInactivity takes a due job and reads the row.
StartJob(v, type) ==
    /\ active = Idle /\ jobs[v][type] = "due"
    /\ jobs' = [jobs EXCEPT ![v][type] = "no"]
    /\ active' = [v |-> v, type |-> type,
                  go |-> Alive(row[v]) /\ idle[v] >= (IF type = "warning" THEN 1 ELSE 2)]
    /\ UNCHANGED <<row, stored, inbox, hook, after, thinking, away, idle, old, moves, excused, polls>>

\* Mutant: the closing does not look at the status again.
CloseInactiveAlways(v) == [row EXCEPT ![v] = [ClosedBySystem(@) EXCEPT !.wait = "no"]]

CloseInactive(v) ==
    IF Alive(row[v]) THEN [row EXCEPT ![v] = [ClosedBySystem(@) EXCEPT !.wait = "no"]] ELSE row

\* Mutant: the warning leaves no closing behind.
FinishWithoutClosing ==
    /\ active # Idle /\ active.v \notin Locked
    /\ active' = Idle
    /\ row' = IF active.go /\ active.type = "close" THEN CloseInactive(active.v) ELSE row
    /\ UNCHANGED <<stored, inbox, hook, after, thinking, away, jobs, idle, old, moves, excused, polls>>

\* It ends: a warning that was sent is followed by a closing, a closing closes
\* the row, and a job that came too early leaves nothing behind.
FinishJob ==
    /\ active # Idle
    /\ active' = Idle
    /\ \/ ~ active.go /\ UNCHANGED <<row, jobs>>
       \/ /\ active.go /\ active.type = "warning"
          /\ jobs' = [jobs EXCEPT ![active.v].close = IF @ = "no" THEN "delayed" ELSE @]
          /\ UNCHANGED row
       \/ /\ active.go /\ active.type = "close" /\ active.v \notin Locked
          /\ row' = CloseInactive(active.v)
          /\ UNCHANGED jobs
    /\ UNCHANGED <<stored, inbox, hook, after, thinking, away, idle, old, moves, excused, polls>>

\* closeExpiredWaitingConversations.
WaitingExpiry ==
    /\ \E v \in Protocol : WaitOver(row[v]) /\ v \notin Locked
    /\ row' = [v \in Protocol |->
                IF WaitOver(row[v]) /\ v \notin Locked
                THEN [ClosedBySystem(row[v]) EXCEPT !.wait = "no"] ELSE row[v]]
    /\ UNCHANGED <<stored, inbox, hook, thinking, away, old, moves, clock, polls>>

\* cleanupExpiredCsat.
CleanupCsat ==
    /\ \E v \in Protocol : Surveying(row[v]) /\ row[v].csat = "behind" /\ v \notin Locked
    /\ row' = [v \in Protocol |->
                IF Surveying(row[v]) /\ row[v].csat = "behind" /\ v \notin Locked
                THEN SurveyOver(row[v]) ELSE row[v]]
    /\ UNCHANGED <<stored, inbox, hook, thinking, away, old, moves, clock, polls>>

\* handle24hWindowExpiration: a row of the queue, a day old, is told so ...
SelectOld(v) ==
    /\ old = 0 /\ row[v].status = "open" /\ ~ row[v].owner /\ v \notin thinking
    /\ old' = v
    /\ UNCHANGED <<row, stored, inbox, hook, thinking, away, moves, clock, polls>>

\* ... and closed, if it is open still.
CloseOld ==
    /\ old # 0 /\ old \notin Locked
    /\ row' = IF row[old].status = "open" THEN [row EXCEPT ![old] = ClosedBySystem(@)] ELSE row
    /\ old' = 0
    /\ UNCHANGED <<stored, inbox, hook, thinking, away, moves, clock, polls>>

-----------------------------------------------------------------------------
Webhook ==
    \/ \E m \in Msg : Resolve(m)
    \/ Duplicate \/ Rollback \/ CloseByKeyword \/ Start \/ AnswerSurvey \/ WaitingReturn \/ Talk
    \/ OutsideHours \/ CloseOutsideHours

ByHand ==
    \/ \E outbound \in BOOLEAN : CreateConversation(outbound)
    \/ \E v \in Protocol :
          \/ AssignConversation(v) \/ TransferConversation(v) \/ CloseConversation(v)
          \/ SendMessage(v)
          \/ \E status \in {"open", "waiting", "closed"} : UpdateConversation(v, status)

Sweeps ==
    \/ Tick \/ FinishJob \/ WaitingExpiry \/ CleanupCsat \/ CloseOld
    \/ \E v \in Protocol :
          \/ DeadlinePasses(v) \/ SelectOld(v)
          \/ \E type \in {"warning", "close"} : StartJob(v, type)

Next ==
    \/ Webhook \/ ByHand \/ Sweeps
    \/ \E v \in Protocol :
          \/ CancelWatch(v) \/ RestartWatch(v) \/ AITurn(v)
          \/ SendCsat(v) \/ RecordCsat(v) \/ LoseCsat(v)

Spec == Init /\ [][Next]_vars

-----------------------------------------------------------------------------
(* Properties                                                              *)

\* Rows, messages, jobs and handlers stay within their types; in particular a
\* survey that is over (recordCsat's end, finalizeExpiredCsat, the cleanup) has
\* no window left open.
ConversationTypeOK ==
    /\ row \in [Protocol -> RowType]
    /\ stored \in [Msg -> 0..MaxConv] /\ inbox \in 0..MaxDeliveries
    /\ hook \in [msg : Msg \cup {NoMsg}, v : 0..MaxConv, saw : RowType, expired : SUBSET Protocol]
    /\ after \subseteq Protocol \X {"cancel", "restart"}
    /\ {thinking, survey, excused} \subseteq SUBSET Protocol
    /\ {away, old} \subseteq 0..MaxConv
    /\ jobs \in [Protocol -> [{"warning", "close"} -> {"no", "delayed", "due"}]]
    /\ active \in [v : 0..MaxConv, type : {"warning", "close"}, go : BOOLEAN]
    /\ idle \in [Protocol -> 0..2] /\ moves \in 0..MaxMoves
    /\ {asks, surveys, losses} \subseteq [Protocol -> 0..MaxMoves]
    \* A survey that is over has no window: nothing would close it.
    /\ \A v \in Protocol : row[v].stage = "done" => row[v].csat = "no"

\* However many requests close a conversation, and at the same time, its
\* contact is asked once; only a transaction that fails after the text has gone
\* out makes room for a second text.
SurveyedOnce == \A v \in Protocol : surveys[v] <= 1 + losses[v]

\* However often Meta delivers a message, and whatever has become of the
\* conversation it was stored in, it opens one conversation at most: a
\* redelivery leaves no orphan.
OpenedOnce ==
    \A v, w \in Protocol : row[v].opener # NoMsg /\ row[v].opener = row[w].opener => v = w

\* What an agent said when closing a conversation is not overwritten by the
\* keyword, the survey's end or a sweep that comes later.
ClassificationKept ==
    [][\A v \in Protocol :
         row[v].status = "closed" /\ row[v].by = "agent" => row'[v].by = "agent"]_vars

\* No message of the contact is stored in a closed conversation, where nobody
\* would see it, but an answer within the survey's window; unless somebody
\* closes the conversation while the message is being handled.
NotBuried ==
    [][\A m \in Msg : stored[m] = 0 /\ stored'[m] # 0 =>
         \/ Alive(row'[stored'[m]])
         \/ Surveying(hook.saw) /\ hook.saw.csat # "behind"
         \/ Alive(hook.saw)]_vars

\* A closed conversation ("protocolos encerrados nao reabrem") comes back to life
\* only by the hand of an agent, or because it was closed under a message or a
\* turn of the AI agent that had found it alive.
StaysClosed ==
    [][\A v \in Protocol : row[v].status = "closed" /\ Alive(row'[v]) =>
         moves' # moves \/ (hook.v = v /\ Alive(hook.saw)) \/ v \in thinking]_vars

\* A conversation that is alive has an inactivity job in the queue or under way,
\* or a handler that will put one there: it cannot stay open for ever.  Excused
\* are those that were created or brought back by hand (nobody schedules them),
\* or whose closing cancelled the jobs, and those whose message was scheduled
\* while their warning was being sent (scheduleInactivityCheck, processInactivity).
Watched ==
    \A v \in Protocol : Alive(row[v]) =>
       \/ v \in excused \/ jobs[v] # NoJobs
       \/ active.v = v /\ active.go
       \/ <<v, "restart">> \in after
=============================================================================

------------------------------ MODULE Tickets ------------------------------
(***************************************************************************)
(* One ticket: the handlers of tickets.service.ts, the portal, the inbound *)
(* e-mail, the Redmine webhook and the two SLA jobs.                       *)
(*                                                                         *)
(* A handler reads the row without a lock, decides, and its UPDATE ...     *)
(* WHERE id appears when the transaction of the request commits; only a    *)
(* claim locks the row it reads.  The jobs read and write in the same way. *)
(* So a task has a step that reads and keeps what the UPDATE will assign   *)
(* ("set"), and a step that commits and applies it to the row of that      *)
(* moment; the prompt task, which nothing overlaps, does both in one.      *)
(*                                                                         *)
(* The due date is kept as how far it is off (Tick), not counting the time *)
(* the clock was paused.  Priorities, types, categories and texts are left *)
(* out: they can only make a request fail.                                 *)
(***************************************************************************)
EXTENDS Integers, FiniteSets

CONSTANTS
    Agent,
    NoAgent,      \* assigned_to IS NULL
    Admin,        \* a user whose role is owner or admin
    Dept,
    NoDept,       \* department_id IS NULL
    Member,       \* Member[d]: agent_departments
    Task,         \* requests and job runs that other steps may overlap
    Prompt,       \* one that nothing overlaps
    Edits,        \* bound: the fields a PATCH of the instance may carry
    AutoAssign,   \* tenant.settings.ticket_auto_assign
    AutoSla,      \* tenant.settings.sla_auto_enabled
    MaxLevel      \* N1 .. N3

ASSUME TicketAssumption ==
    /\ NoAgent \notin Agent /\ Admin \notin Agent /\ NoDept \notin Dept
    /\ Prompt \notin Task
    /\ Member \in [Dept -> SUBSET Agent]
    /\ Edits \subseteq {"status", "owner", "due", "dept", "both"}
    /\ {AutoAssign, AutoSla} \subseteq BOOLEAN
    /\ MaxLevel \in Nat \ {0}

VARIABLES
    row,        \* the row of tickets
    task,       \* task[r]: what r has read and is about to write
    mails,      \* history: warnings mailed since the last re-arming, or since
                \* a restart lost the mark of one
    forced      \* history: a write asked nothing of the row as it was

vars == <<row, task, mails, forced>>
history == <<mails, forced>>

Status == {"queued", "open", "in_progress", "waiting", "resolved", "closed"}
Reason == {"none", "customer", "internal"}
Due == {"none", "far", "near", "past"}

RowType == [status : Status \cup {"none"}, owner : Agent \cup {NoAgent},
            dept : Dept \cup {NoDept}, level : 1 .. MaxLevel, reason : Reason,
            paused : BOOLEAN, due : Due, manual : BOOLEAN, escalated : BOOLEAN,
            warned : BOOLEAN, resolved : BOOLEAN, closed : BOOLEAN]

\* paused: sla_paused_at; warned: sla_warning_sent_at; resolved: resolved_at;
\* closed: closed_at; manual: a person set the due date.
NoRow == [status |-> "none", owner |-> NoAgent, dept |-> NoDept, level |-> 1,
          reason |-> "none", paused |-> FALSE, due |-> "none", manual |-> FALSE,
          escalated |-> FALSE, warned |-> FALSE, resolved |-> FALSE,
          closed |-> FALSE]

\* What an UPDATE assigns is a function on some of the columns: none, or those
\* of s and of t, where s goes first.
Nothing == [f \in {} |-> TRUE]
s ++ t == [f \in DOMAIN s \cup DOMAIN t |-> IF f \in DOMAIN s THEN s[f] ELSE t[f]]

Jobs == {"breach", "warn", "mark"}
Idle == [op |-> "idle", set |-> Nothing, stale |-> FALSE]

Init ==
    /\ row = NoRow
    /\ task = [r \in Task |-> Idle]
    /\ mails = 0 /\ forced = FALSE

Exists == row.status # "none"
Active == Exists /\ row.status \notin {"resolved", "closed"}

\* pickNextAgentForDepartment: a member who is online and available, or none.
Candidates(d) == IF AutoAssign THEN Member[d] \cup {NoAgent} ELSE {NoAgent}

\* Mutant: a date already there is not looked at.
ComputedDueAlways == IF AutoSla THEN [due |-> "far", manual |-> FALSE] ELSE Nothing

\* computeSlaHours: the date a claim or an acceptance adds to a ticket
\* without one, as an assignment.
ComputedDue == IF row.due = "none" /\ AutoSla
               THEN [due |-> "far", manual |-> FALSE] ELSE Nothing

\* The part of the row the handlers decide on.
Basis(x) == <<x.status, x.owner, x.dept, x.level, x.reason, x.paused,
              x.due = "none">>

\* The row becomes "new", the tasks in "done" are over, and what the others
\* have read is out of date.
Write(new, done) ==
    /\ row' = new
    /\ task' = [q \in Task |->
                 IF q \in done THEN Idle
                 ELSE IF task[q].op = "idle" \/ Basis(new) = Basis(row) THEN task[q]
                 ELSE [task[q] EXCEPT !.stale = TRUE]]

\* The UPDATE "set" of a handler.
Effect(op, set, stale, done) ==
    /\ Write([f \in DOMAIN row |-> IF f \in DOMAIN set THEN set[f] ELSE row[f]], done)
    /\ forced' = (forced \/ (stale /\ op \notin Jobs))
    /\ mails' = IF op = "transfer" THEN 0 ELSE mails

Handle(r, op, set) ==
    /\ Exists
    /\ IF r = Prompt THEN Effect(op, set, FALSE, {})
       ELSE /\ task[r].op = "idle"
            /\ task' = [task EXCEPT ![r] = [op |-> op, set |-> set, stale |-> FALSE]]
            /\ UNCHANGED <<row, history>>

Commit(r) ==
    LET q == task[r]
    IN  q.op \notin {"idle", "warn"} /\ Effect(q.op, q.set, q.stale, {r})

-----------------------------------------------------------------------------
(* Creation: createTicket, the portal and an e-mail without a department.  *)

Insert(new) ==
    /\ ~ Exists
    /\ row' = new
    /\ UNCHANGED <<task, history>>

CreateTicket ==
    \E st \in Status \ {"resolved", "closed"}, a \in Agent \cup {NoAgent},
       d \in Dept \cup {NoDept}, due \in {"none", "far"} :
      \E pick \in IF a # NoAgent THEN {a}
                  ELSE IF d # NoDept THEN Candidates(d) ELSE {} :
        Insert([NoRow EXCEPT !.status = IF pick = NoAgent THEN "queued" ELSE st,
                             !.owner = pick, !.dept = d, !.due = due,
                             !.manual = due # "none"])

CreateUnrouted == Insert([NoRow EXCEPT !.status = "open"])

\* Tasks under way find no row, and so do the jobs.
DeleteTicket ==
    /\ Exists
    /\ row' = NoRow
    /\ task' = [r \in Task |-> Idle]
    /\ mails' = 0 /\ forced' = FALSE

-----------------------------------------------------------------------------
(* updateTicket                                                            *)

\* Mutant: a ticket is resolved while it waits.
AllowedWaiting(from, to) ==
    \/ from = to
    \/ to \in CASE from = "queued"      -> {"open", "in_progress"}
                [] from = "open"        -> {"in_progress", "waiting"}
                [] from = "in_progress" -> {"open", "waiting", "resolved"}
                [] from = "waiting"     -> {"open", "in_progress", "resolved"}
                [] from = "resolved"    -> {"open", "in_progress", "closed"}
                [] from = "closed"      -> {"open"}

\* ensureValidStatusTransition
Allowed(from, to) ==
    \/ from = to
    \/ to \in CASE from = "queued"      -> {"open", "in_progress"}
                [] from = "open"        -> {"in_progress", "waiting"}
                [] from = "in_progress" -> {"open", "waiting", "resolved"}
                [] from = "waiting"     -> {"open", "in_progress"}
                [] from = "resolved"    -> {"open", "in_progress", "closed"}
                [] from = "closed"      -> {"open"}

\* What a PATCH may carry, as assignments (updateTicketSchema: "waiting"
\* comes with a reason).
StatusEdit == {[status |-> s] : s \in Status \ {"waiting"}}
                \cup {[status |-> "waiting", reason |-> w] : w \in Reason \ {"none"}}
OwnerEdit == {[owner |-> a] : a \in Agent \cup {NoAgent}}
DueEdit == {[due |-> "far", manual |-> TRUE]}
DeptEdit == {[dept |-> d] : d \in Dept \cup {NoDept}}
PatchesOf == [status |-> StatusEdit, owner |-> OwnerEdit, due |-> DueEdit, dept |-> DeptEdit,
              both |-> {s ++ o : s \in StatusEdit, o \in OwnerEdit}]
Patches == UNION {PatchesOf[f] : f \in Edits}

\* slaPausedAt and accumulateSlaPausedDuration
PauseSet(patch, to) ==
    IF row.status # "waiting" /\ to = "waiting" /\ patch.reason = "customer"
    THEN [paused |-> TRUE]
    ELSE IF row.status = "waiting" /\ row.reason = "customer" /\ to # "waiting" /\ row.paused
    THEN [paused |-> FALSE] ELSE Nothing

ReasonSet(patch) == IF "status" \in DOMAIN patch /\ patch.status # "waiting"
                    THEN [reason |-> "none"] ELSE Nothing

\* Mutant: closing a resolved ticket is taken for leaving "resolved".
StampSetClears(to) ==
    (IF to = "resolved" /\ row.status # "resolved" THEN [resolved |-> TRUE]
     ELSE IF row.status = "resolved" /\ to # "resolved"
     THEN [resolved |-> FALSE] ELSE Nothing)
    ++ (IF to = "closed" /\ row.status # "closed" THEN [closed |-> TRUE]
        ELSE IF row.status = "closed" /\ to # "closed" THEN [closed |-> FALSE] ELSE Nothing)

StampSet(to) ==
    (IF to = "resolved" /\ row.status # "resolved" THEN [resolved |-> TRUE]
     ELSE IF row.status = "resolved" /\ to \notin {"resolved", "closed"}
     THEN [resolved |-> FALSE] ELSE Nothing)
    ++ (IF to = "closed" /\ row.status # "closed" THEN [closed |-> TRUE]
        ELSE IF row.status = "closed" /\ to # "closed" THEN [closed |-> FALSE] ELSE Nothing)

UpdateTicket(r) ==
    \E who \in Agent \cup {Admin} :
      /\ Exists
      /\ who # Admin => /\ row.owner = who
                        /\ row.status \in {"in_progress", "waiting", "resolved"}
      /\ \E patch \in Patches :
           LET to == IF "status" \in DOMAIN patch THEN patch.status ELSE row.status
           IN  /\ Allowed(row.status, to)
               /\ Handle(r, "update", patch ++ ReasonSet(patch) ++ PauseSet(patch, to)
                                            ++ StampSet(to))

-----------------------------------------------------------------------------
(* The other handlers.                                                     *)

\* assignTicket asks nothing of the row.
AssignTicket ==
    \E a \in Agent :
      /\ Exists
      /\ Write([row EXCEPT !.owner = a], {})
      /\ UNCHANGED history

\* claimTicketFromQueue: SELECT ... FOR UPDATE, so read and write are a step.
ClaimTicketFromQueue ==
    \E a \in Agent :
      /\ row.status = "queued"
      /\ row.dept # NoDept => a \in Member[row.dept]
      /\ Write(ComputedDue ++ [row EXCEPT !.owner = a, !.status = "open"], {})
      /\ UNCHANGED history

AcceptTicket(r) ==
    /\ row.owner # NoAgent
    /\ row.status \in {"queued", "open"}
    /\ Handle(r, "accept", [status |-> "in_progress"] ++ ComputedDue)

\* transferTicketDepartment; escalateTicket calls it with the department of a
\* higher level, which may be the one the ticket is in.
\* Mutant: LEVEL_ORDER is walked one level too far.
TransferBeyondLevels(r) ==
    \E who \in Agent \cup {Admin}, d \in Dept, lv \in row.level .. MaxLevel + 1 :
      /\ who # Admin => row.owner = who
      /\ Active
      /\ lv = row.level => row.dept # d
      /\ \E pick \in Candidates(d) :
           Handle(r, "transfer",
                [dept |-> d, owner |-> pick, warned |-> FALSE,
                 status |-> IF pick = NoAgent THEN "queued" ELSE "open"]
                ++ (IF lv > row.level THEN [level |-> lv] ELSE Nothing))

TransferTicketDepartment(r) ==
    \E who \in Agent \cup {Admin}, d \in Dept, lv \in row.level .. MaxLevel :
      /\ who # Admin => row.owner = who
      /\ Active
      /\ lv = row.level => row.dept # d
      /\ \E pick \in Candidates(d) :
           Handle(r, "transfer",
                [dept |-> d, owner |-> pick, warned |-> FALSE,
                 status |-> IF pick = NoAgent THEN "queued" ELSE "open"]
                ++ (IF lv > row.level THEN [level |-> lv] ELSE Nothing))

\* addPortalComment and reopenTicketByContact on a resolved ticket.
ReopenByContact(r) ==
    /\ row.status = "resolved"
    /\ Handle(r, "reopen", [status |-> "open", resolved |-> FALSE])

\* handleRedmineWebhook: any status of status_map, unchecked.
RedmineSync ==
    \E s \in Status \ {"queued"} :
      /\ Exists
      /\ Write([row EXCEPT !.status = s], {})
      /\ forced' = TRUE
      /\ UNCHANGED mails

-----------------------------------------------------------------------------
(* Time, the SLA jobs and restarts.                                        *)

Tick ==
    /\ ~ row.paused /\ row.due \in {"far", "near"}
    /\ row' = [row EXCEPT !.due = IF row.due = "far" THEN "near" ELSE "past"]
    /\ UNCHANGED <<task, history>>

\* The two SELECTs.
Overdue == Active /\ row.due = "past" /\ ~ row.escalated /\ ~ row.paused
\* Mutant: tickets already warned are not left out.
NearBreachAgain == Active /\ row.due = "near" /\ ~ row.paused

NearBreach == Active /\ row.due = "near" /\ ~ row.paused /\ ~ row.warned

\* Each job is one run at a time.
Running(op) == \E r \in Task : task[r].op = op

\* Mutant: a ticket nobody is to be told about is passed over before the
\* UPDATE, as the warning job does.
SlaBreachTold(r) ==
    /\ Overdue /\ row.owner # NoAgent /\ ~ Running("breach")
    /\ Handle(r, "breach", [escalated |-> TRUE])

SlaBreach(r) ==
    /\ Overdue /\ ~ Running("breach")
    /\ Handle(r, "breach", [escalated |-> TRUE])

\* A ticket without an assignee has nobody to be warned and is passed over.
WarnSelect(r) ==
    /\ NearBreach /\ row.owner # NoAgent /\ ~ Running("warn") /\ ~ Running("mark")
    /\ task[r].op = "idle"
    /\ task' = [task EXCEPT ![r] = [op |-> "warn", set |-> Nothing, stale |-> FALSE]]
    /\ UNCHANGED <<row, history>>

WarnSend(r) ==
    /\ task[r].op = "warn"
    /\ \/ /\ task' = [task EXCEPT ![r].op = "mark", ![r].set = [warned |-> TRUE]]
          /\ mails' = mails + 1
       \/ /\ task' = [task EXCEPT ![r] = Idle]          \* the mail failed
          /\ UNCHANGED mails
    /\ UNCHANGED <<row, forced>>

\* Transactions under way are rolled back; what was detached is lost.
Restart ==
    /\ \E r \in Task : task[r].op # "idle"
    /\ task' = [r \in Task |-> Idle]
    /\ mails' = IF Running("mark") THEN 0 ELSE mails
    /\ UNCHANGED <<row, forced>>

-----------------------------------------------------------------------------
Handler(r) ==
    \/ UpdateTicket(r) \/ AcceptTicket(r) \/ TransferTicketDepartment(r)
    \/ ReopenByContact(r) \/ SlaBreach(r)

Next ==
    \/ CreateTicket \/ CreateUnrouted \/ DeleteTicket
    \/ \E r \in Task \cup {Prompt} : Handler(r)
    \/ \E r \in Task : Commit(r) \/ WarnSelect(r) \/ WarnSend(r)
    \/ AssignTicket \/ ClaimTicketFromQueue \/ RedmineSync
    \/ Tick \/ Restart

Spec == Init /\ [][Next]_vars

\* ticket-sla.job runs every hour, and restarts do not hit every run of it.
FairSpec ==
    /\ Spec
    /\ WF_vars(\E r \in Task \cup {Prompt} : SlaBreach(r))
    /\ \A r \in Task : SF_vars(task[r].op = "breach" /\ Commit(r))

-----------------------------------------------------------------------------
\* The row and the tasks stay within their types; in particular escalateTicket
\* and transferTicketDepartment lead no ticket past the highest level.
TicketTypeOK ==
    /\ row \in RowType
    /\ \A r \in Task : /\ task[r].op \in {"idle", "update", "accept", "transfer", "reopen"} \cup Jobs
                       /\ task[r].stale \in BOOLEAN
    /\ mails \in Nat /\ forced \in BOOLEAN

\* The stamps the reports read agree with the status along any sequence of
\* calls, of whichever handlers, as long as none of them writes over a row it
\* has not seen: resolved_at of a ticket that is resolved or closed is set,
\* and closed_at is set exactly when the ticket is closed.
StampsAgree ==
    ~ forced => /\ row.status \in {"resolved", "closed"} => row.resolved
                /\ row.closed <=> row.status = "closed"

\* A due date a person set gives way to a computed one only when the agent
\* accepts a ticket whose date was set after the acceptance read it.
ManualDueKept ==
    [][row.manual /\ Exists' /\ ~ row'.manual
         => \E r \in Task : task[r].op = "accept" /\ task[r].stale]_vars

\* The team of the ticket is warned of the same deadline once: a second mail
\* takes a restart between the mail and the mark.
WarnedOnce == mails <= 1

\* A deadline that is missed is escalated, whatever is done to the ticket in
\* the meantime and whether or not anybody is there to be told.
OverdueEscalated == Overdue ~> ~ Overdue

\* The status follows STATUS_TRANSITIONS, through every handler.
Lifecycle == INSTANCE TicketLifecycle WITH status <- row.status, forced <- forced
TableKept == Lifecycle!Spec

\* "alerta de SLA rearmado para o novo time": a ticket a transfer has put in
\* the queue of a department has its clock running.
TransferRearms == row.status = "queued" /\ ~ forced => ~ row.paused
=============================================================================

--------------------------- MODULE Tickets_proofs ---------------------------
(***************************************************************************)
(* Theorems about Tickets, for every set of agents, departments and        *)
(* overlapping tasks, every membership, number of levels and setting.      *)
(***************************************************************************)
EXTENDS Tickets, FiniteSetTheorems, TLAPS

-----------------------------------------------------------------------------
(* Assignments: functions on some of the columns.                          *)

Column == {"status", "owner", "dept", "level", "reason", "paused", "due",
           "manual", "escalated", "warned", "resolved", "closed"}

\* Every column that is assigned gets a value of its type.
Assignments == {[f \in F |-> x[f]] : F \in SUBSET Column, x \in RowType}

Applied(s, x) == [f \in DOMAIN x |-> IF f \in DOMAIN s THEN s[f] ELSE x[f]]

LEMMA NoRowType == NoRow \in RowType
  BY TicketAssumption DEF NoRow, RowType, Reason, Due

LEMMA AppliedType ==
    ASSUME NEW s \in Assignments, NEW x \in RowType
    PROVE  /\ Applied(s, x) \in RowType
           /\ DOMAIN s \subseteq Column
           /\ \A f \in Column : Applied(s, x)[f] = IF f \in DOMAIN s THEN s[f] ELSE x[f]
<1>1. PICK F \in SUBSET Column, y \in RowType : s = [f \in F |-> y[f]]
  BY DEF Assignments
<1>2. DOMAIN s = F /\ \A f \in F : s[f] = y[f]
  BY <1>1
<1>3. DOMAIN x = Column
  BY DEF Column, RowType
<1>4. Applied(s, x) = [f \in Column |-> IF f \in F THEN y[f] ELSE x[f]]
  BY <1>2, <1>3 DEF Applied
<1>5. Applied(s, x) \in RowType
  BY <1>4 DEF RowType, Column
<1> QED
  BY <1>2, <1>3, <1>5 DEF Applied

LEMMA BothAssign ==
    ASSUME NEW s \in Assignments, NEW t \in Assignments
    PROVE  /\ s ++ t \in Assignments
           /\ DOMAIN (s ++ t) = DOMAIN s \cup DOMAIN t
           /\ \A f \in DOMAIN s : (s ++ t)[f] = s[f]
           /\ \A f \in DOMAIN t \ DOMAIN s : (s ++ t)[f] = t[f]
<1>1. PICK F \in SUBSET Column, x \in RowType : s = [f \in F |-> x[f]]
  BY DEF Assignments
<1>2. PICK G \in SUBSET Column, y \in RowType : t = [f \in G |-> y[f]]
  BY DEF Assignments
<1> DEFINE z == [f \in Column |-> IF f \in F THEN x[f] ELSE y[f]]
<1>3. z \in RowType
  BY DEF RowType, Column
<1>4. s ++ t = [f \in F \cup G |-> z[f]]
  BY <1>1, <1>2 DEF ++
<1> HIDE DEF z
<1>5. s ++ t \in Assignments
  BY <1>3, <1>4 DEF Assignments
<1> QED
  BY <1>5 DEF ++

\* The columns F of a row are an assignment.
LEMMA PartAssigns ==
    ASSUME NEW F \in SUBSET Column, NEW x \in RowType, NEW s, s = [f \in F |-> x[f]]
    PROVE  s \in Assignments
  BY DEF Assignments

LEMMA NothingAssigns == Nothing \in Assignments /\ DOMAIN Nothing = {}
<1>1. Nothing = [f \in {} |-> NoRow[f]]
  BY DEF Nothing
<1> QED
  BY <1>1, PartAssigns, NoRowType DEF Nothing

\* The assignments the handlers are built from.
LEMMA ColumnAssigns ==
    ASSUME NEW x \in RowType
    PROVE  /\ [status |-> x.status] \in Assignments
           /\ [status |-> x.status, reason |-> x.reason] \in Assignments
           /\ [status |-> x.status, resolved |-> x.resolved] \in Assignments
           /\ [dept |-> x.dept, owner |-> x.owner, warned |-> x.warned,
                          status |-> x.status] \in Assignments
           /\ [due |-> x.due, manual |-> x.manual] \in Assignments
           /\ [owner |-> x.owner] \in Assignments
           /\ [dept |-> x.dept] \in Assignments
           /\ [level |-> x.level] \in Assignments
           /\ [reason |-> x.reason] \in Assignments
           /\ [paused |-> x.paused] \in Assignments
           /\ [resolved |-> x.resolved] \in Assignments
           /\ [closed |-> x.closed] \in Assignments
           /\ [escalated |-> x.escalated] \in Assignments
           /\ [warned |-> x.warned] \in Assignments
<1>1. /\ [status |-> x.status] = [f \in {"status"} |-> x[f]]
      /\ [status |-> x.status, reason |-> x.reason] = [f \in {"status", "reason"} |-> x[f]]
      /\ [status |-> x.status, resolved |-> x.resolved]
            = [f \in {"status", "resolved"} |-> x[f]]
      /\ [dept |-> x.dept, owner |-> x.owner, warned |-> x.warned, status |-> x.status]
            = [f \in {"dept", "owner", "warned", "status"} |-> x[f]]
      /\ [due |-> x.due, manual |-> x.manual] = [f \in {"due", "manual"} |-> x[f]]
  OBVIOUS
<1>2. /\ [owner |-> x.owner] = [f \in {"owner"} |-> x[f]]
      /\ [dept |-> x.dept] = [f \in {"dept"} |-> x[f]]
      /\ [level |-> x.level] = [f \in {"level"} |-> x[f]]
      /\ [reason |-> x.reason] = [f \in {"reason"} |-> x[f]]
      /\ [paused |-> x.paused] = [f \in {"paused"} |-> x[f]]
      /\ [resolved |-> x.resolved] = [f \in {"resolved"} |-> x[f]]
      /\ [closed |-> x.closed] = [f \in {"closed"} |-> x[f]]
      /\ [escalated |-> x.escalated] = [f \in {"escalated"} |-> x[f]]
      /\ [warned |-> x.warned] = [f \in {"warned"} |-> x[f]]
      /\ [status |-> x.status] = [f \in {"status"} |-> x[f]]
  OBVIOUS
<1>3. \A F \in SUBSET Column : [f \in F |-> x[f]] \in Assignments
  BY PartAssigns
<1>4. /\ {"status"} \in SUBSET Column /\ {"status", "reason"} \in SUBSET Column
      /\ {"status", "resolved"} \in SUBSET Column
      /\ {"dept", "owner", "warned", "status"} \in SUBSET Column
      /\ {"due", "manual"} \in SUBSET Column
      /\ \A f \in Column : {f} \in SUBSET Column
  BY DEF Column
<1>5. \A f \in Column : [g \in {f} |-> x[g]] \in Assignments
  BY <1>3, <1>4
<1>6. /\ "owner" \in Column /\ "dept" \in Column /\ "level" \in Column
      /\ "reason" \in Column /\ "paused" \in Column /\ "resolved" \in Column
      /\ "closed" \in Column /\ "escalated" \in Column /\ "warned" \in Column
      /\ "status" \in Column
  BY DEF Column
<1> HIDE DEF Column
<1>7. /\ [f \in {"owner"} |-> x[f]] \in Assignments /\ [f \in {"dept"} |-> x[f]] \in Assignments
      /\ [f \in {"level"} |-> x[f]] \in Assignments /\ [f \in {"reason"} |-> x[f]] \in Assignments
      /\ [f \in {"paused"} |-> x[f]] \in Assignments /\ [f \in {"resolved"} |-> x[f]] \in Assignments
      /\ [f \in {"closed"} |-> x[f]] \in Assignments /\ [f \in {"escalated"} |-> x[f]] \in Assignments
      /\ [f \in {"warned"} |-> x[f]] \in Assignments /\ [f \in {"status"} |-> x[f]] \in Assignments
  BY <1>5, <1>6
<1> QED
  BY <1>1, <1>2, <1>3, <1>4, <1>7

-----------------------------------------------------------------------------
(* The inductive invariant.                                                *)

Ops == {"idle", "update", "accept", "transfer", "reopen"} \cup Jobs

TaskType == [op : Ops, set : Assignments, stale : BOOLEAN]

\* A ticket that does not exist leaves no trace; a date set by a person is a date.
RowOK ==
    /\ row \in RowType
    /\ row.status = "none" => /\ row = NoRow /\ mails = 0
                              /\ \A r \in Task : task[r] = Idle
    /\ row.manual => row.due # "none"

\* What tasks of each kind assign: only transfers and warnings write the mark
\* of the warning, the jobs nothing but marks, only an acceptance a computed
\* date, and nobody deletes the row.
Carried(op, s) ==
    /\ op \in Jobs \cup {"idle"} => DOMAIN s \subseteq {"escalated", "warned"}
    /\ op \notin {"transfer", "mark"} => "warned" \notin DOMAIN s
    /\ op = "mark" => "warned" \in DOMAIN s /\ s["warned"] = TRUE
    /\ "status" \in DOMAIN s => s["status"] # "none"
    /\ "due" \in DOMAIN s <=> "manual" \in DOMAIN s
    /\ "due" \in DOMAIN s => s["due"] # "none"
    /\ op # "accept" /\ "manual" \in DOMAIN s => s["manual"] = TRUE

Stamped(x) == /\ x.status \in {"resolved", "closed"} => x.resolved
              /\ x.closed <=> x.status = "closed"

Unresolved == {"queued", "open", "in_progress", "waiting"}

\* The move from one status to another is one of the table, or a transfer.
MayMove(from, to) == \/ to = from
                     \/ <<from, to>> \in Lifecycle!Transitions
                     \/ from \in Unresolved /\ to \in {"queued", "open"}

\* What a handler has made sure of for the row x it decided on.
Lawful(op, s, x) ==
    LET y == Applied(s, x)
    IN  /\ MayMove(x.status, y.status)
        /\ Stamped(x) => Stamped(y)
        /\ op = "accept" /\ "manual" \in DOMAIN s => x.due = "none"

\* It holds of every row that reads the same, as long as none other was written.
Sound(q) ==
    \/ q.op \in Jobs \cup {"idle"} \/ q.stale
    \/ \A x \in RowType : Basis(x) = Basis(row) => Lawful(q.op, q.set, x)

TasksOK ==
    /\ task \in [Task -> TaskType]
    /\ \A r \in Task : Carried(task[r].op, task[r].set) /\ Sound(task[r])

\* One warning at a time is under way; a mail that was sent is marked, or its
\* mark is to be written.
MailsOK ==
    /\ mails \in {0, 1}
    /\ mails = 1 => row.warned \/ Running("mark")
    /\ Running("warn") => mails = 0
    /\ \A q, r \in Task :
          task[q].op \in {"warn", "mark"} /\ task[r].op \in {"warn", "mark"} => q = r

IInv == RowOK /\ TasksOK /\ MailsOK /\ forced \in BOOLEAN /\ StampsAgree

\* What every step is shown to do: keep the invariant, give a manual date up
\* only as ManualDueKept says, and be a step of the life cycle.
ManualStep ==
    row.manual /\ Exists' /\ ~ row'.manual
        => \E r \in Task : task[r].op = "accept" /\ task[r].stale

LifeStep == [Lifecycle!Next]_<<row.status, forced>>

Good == IInv' /\ ManualStep /\ LifeStep

\* The row of the initial state and the tasks that do nothing.
LEMMA IdleTask ==
    /\ Idle \in TaskType /\ Idle.op = "idle" /\ Idle.stale = FALSE
    /\ Carried(Idle.op, Idle.set) /\ Sound(Idle)
  BY NothingAssigns DEF Idle, TaskType, Ops, Jobs, Carried, Sound

LEMMA InitIInv == Init => IInv
<1> SUFFICES ASSUME Init PROVE IInv
  OBVIOUS
<1>1. RowOK
  BY NoRowType DEF Init, RowOK, NoRow
<1>2. TasksOK
  BY IdleTask DEF Init, TasksOK
<1>3. MailsOK
  <2>1. \A r \in Task : task[r].op = "idle"
    BY IdleTask DEF Init
  <2> QED
    BY <2>1 DEF Init, MailsOK, Running
<1>4. StampsAgree
  BY DEF Init, StampsAgree, NoRow
<1> QED
  BY <1>1, <1>2, <1>3, <1>4 DEF Init, IInv

-----------------------------------------------------------------------------
(* Writes.                                                                 *)

\* A write of the row keeps the tasks that do not end, and marks what they
\* have read as stale if they could have decided otherwise.
LEMMA WriteTasks ==
    ASSUME TasksOK, NEW new \in RowType, NEW done \in SUBSET Task, Write(new, done)
    PROVE  /\ TasksOK'
           /\ \A r \in done : task'[r].op = "idle"
           /\ \A r \in Task \ done : task'[r].op = task[r].op
<1>1. /\ row' = new
      /\ task' = [q \in Task |->
                 IF q \in done THEN Idle
                 ELSE IF task[q].op = "idle" \/ Basis(new) = Basis(row) THEN task[q]
                 ELSE [task[q] EXCEPT !.stale = TRUE]]
  BY DEF Write
<1>2. ASSUME NEW r \in Task
      PROVE  /\ task'[r] \in TaskType
             /\ Carried(task'[r].op, task'[r].set)
             /\ Sound(task[r])' 
             /\ r \in done => task'[r].op = "idle"
             /\ r \notin done => task'[r].op = task[r].op
  <2>1. task[r] \in TaskType /\ Carried(task[r].op, task[r].set) /\ Sound(task[r])
    BY DEF TasksOK
  <2>2. CASE r \in done
    <3>1. task'[r] = Idle
      BY <1>1, <2>2
    <3> QED
      BY <2>2, <3>1, IdleTask DEF Sound
  <2>3. CASE r \notin done /\ task[r].op = "idle"
    <3>1. task'[r] = task[r]
      BY <1>1, <2>3
    <3> QED
      BY <2>1, <2>3, <3>1 DEF Sound
  <2>4. CASE r \notin done /\ Basis(new) = Basis(row)
    <3>1. task'[r] = task[r] /\ Basis(row') = Basis(row)
      BY <1>1, <2>4
    <3> QED
      BY <2>1, <2>4, <3>1 DEF Sound
  <2>5. CASE r \notin done /\ task[r].op # "idle" /\ Basis(new) # Basis(row)
    <3>1. task'[r] = [task[r] EXCEPT !.stale = TRUE]
      BY <1>1, <2>5
    <3>2. /\ task'[r] \in TaskType /\ task'[r].op = task[r].op
          /\ task'[r].set = task[r].set /\ task'[r].stale = TRUE
      BY <2>1, <3>1 DEF TaskType
    <3> QED
      BY <2>1, <2>5, <3>2 DEF Sound
  <2> QED
    BY <2>2, <2>3, <2>4, <2>5
<1>3. task' \in [Task -> TaskType]
  BY <1>1, <1>2
<1> QED
  BY <1>2, <1>3 DEF TasksOK

\* A write that leaves the mark of the warning alone, and ends no task of it.
LEMMA WriteMails ==
    ASSUME MailsOK, NEW done \in SUBSET Task, row'.warned = row.warned, UNCHANGED mails,
           \A r \in done : task'[r].op = "idle" /\ task[r].op \notin {"warn", "mark"},
           \A r \in Task \ done : task'[r].op = task[r].op
    PROVE  MailsOK'
<1>1. \A r \in Task, op \in {"warn", "mark"} : task'[r].op = op <=> task[r].op = op
  OBVIOUS
<1> QED
  BY <1>1 DEF MailsOK, Running

\* An UPDATE keeps the invariant if what it assigns was decided on the row as
\* it is, is the mark of a job, or is known to be decided on an older row.
LEMMA EffectGood ==
    ASSUME IInv, Exists, NEW op \in Ops \ {"idle", "warn"}, NEW set \in Assignments,
           Carried(op, set), NEW stale \in BOOLEAN, NEW done \in SUBSET Task,
           \A r \in done : task[r].op = op,
           op \in Jobs \/ stale \/ Lawful(op, set, row),
           stale /\ op = "accept" => \E r \in Task : task[r].op = "accept" /\ task[r].stale,
           op = "mark" => \E r \in done : TRUE,
           Effect(op, set, stale, done)
    PROVE  Good
<1> DEFINE new == Applied(set, row)
<1>1. row \in RowType
  BY DEF IInv, RowOK
<1>2. /\ new \in RowType /\ DOMAIN set \subseteq Column
      /\ \A f \in Column : new[f] = IF f \in DOMAIN set THEN set[f] ELSE row[f]
  BY <1>1, AppliedType
<1>3. /\ Write(new, done)
      /\ forced' = (forced \/ (stale /\ op \notin Jobs))
      /\ mails' = IF op = "transfer" THEN 0 ELSE mails
  BY DEF Effect, Applied
<1>4. row' = new
  BY <1>3 DEF Write
<1>5. /\ new.status = IF "status" \in DOMAIN set THEN set["status"] ELSE row.status
      /\ new.resolved = IF "resolved" \in DOMAIN set THEN set["resolved"] ELSE row.resolved
      /\ new.closed = IF "closed" \in DOMAIN set THEN set["closed"] ELSE row.closed
      /\ new.due = IF "due" \in DOMAIN set THEN set["due"] ELSE row.due
      /\ new.manual = IF "manual" \in DOMAIN set THEN set["manual"] ELSE row.manual
      /\ new.warned = IF "warned" \in DOMAIN set THEN set["warned"] ELSE row.warned
  BY <1>2 DEF Column
<1> HIDE DEF new
<1>6. new.status # "none"
  BY <1>5 DEF Exists, Carried
<1>7. new.manual => new.due # "none"
  BY <1>5 DEF Carried, IInv, RowOK
<1>8. TasksOK' /\ (\A r \in done : task'[r].op = "idle")
      /\ \A r \in Task \ done : task'[r].op = task[r].op
  BY <1>2, <1>3, WriteTasks DEF IInv
<1>9. RowOK'
  BY <1>2, <1>4, <1>6, <1>7 DEF RowOK
<1>10. MailsOK'
  <2>1. CASE op = "transfer"
    <3>1. mails' = 0
      BY <1>3, <2>1
    <3>2. \A r \in Task : task'[r].op \in {"warn", "mark"} => task[r].op \in {"warn", "mark"}
      BY <1>8
    <3> QED
      BY <3>1, <3>2 DEF MailsOK, IInv
  <2>2. CASE op = "mark"
    <3>1. mails' = mails /\ row'.warned
      BY <1>3, <1>4, <1>5, <2>2 DEF Carried
    <3>2. PICK q \in done : TRUE
      BY <2>2
    <3>3. task[q].op = "mark" /\ task'[q].op = "idle"
      BY <1>8, <2>2
    <3>4. \A r \in Task : task'[r].op \notin {"warn", "mark"}
      BY <1>8, <3>3 DEF MailsOK, IInv
    <3> QED
      BY <3>1, <3>4 DEF MailsOK, IInv, Running
  <2>3. CASE op \notin {"transfer", "mark"}
    <3>1. row'.warned = row.warned /\ mails' = mails
      BY <1>3, <1>4, <1>5, <2>3 DEF Carried
    <3> QED
      BY <1>8, <2>3, <3>1, WriteMails DEF IInv
  <2> QED
    BY <2>1, <2>2, <2>3
<1>11. CASE op \in Jobs
  <2>1. /\ new.status = row.status /\ new.resolved = row.resolved
        /\ new.closed = row.closed /\ new.manual = row.manual
        /\ forced' = forced
    BY <1>3, <1>5, <1>11 DEF Carried, IInv
  <2>2. StampsAgree' /\ ManualStep /\ LifeStep
    BY <1>4, <2>1 DEF IInv, StampsAgree, ManualStep, LifeStep
  <2> QED
    BY <1>8, <1>9, <1>10, <2>1, <2>2 DEF Good, IInv
<1>12. CASE op \notin Jobs /\ stale
  <2>1. forced' = TRUE
    BY <1>3, <1>12
  <2>2. LifeStep
    <3>1. new.status \in Lifecycle!Status \ {"none"}
      BY <1>2, <1>6 DEF RowType, Status, Lifecycle!Status
    <3> QED
      BY <1>4, <2>1, <3>1 DEF LifeStep, Lifecycle!Next, Lifecycle!Force
  <2>3. StampsAgree'
    BY <2>1 DEF StampsAgree
  <2>4. ManualStep
    BY <1>4, <1>5, <1>12 DEF ManualStep, Carried
  <2> QED
    BY <1>8, <1>9, <1>10, <2>1, <2>2, <2>3, <2>4 DEF Good, IInv
<1>13. CASE op \notin Jobs /\ ~ stale
  <2>1. forced' = forced /\ Lawful(op, set, row)
    BY <1>3, <1>13 DEF IInv
  <2>2. /\ MayMove(row.status, new.status)
        /\ Stamped(row) => Stamped(new)
        /\ op = "accept" /\ "manual" \in DOMAIN set => row.due = "none"
    BY <2>1 DEF Lawful, new
  <2>3. StampsAgree'
    BY <1>4, <2>1, <2>2 DEF StampsAgree, Stamped, IInv
  <2>4. LifeStep
    <3>1. CASE new.status = row.status
      BY <1>4, <2>1, <3>1 DEF LifeStep
    <3>2. CASE <<row.status, new.status>> \in Lifecycle!Transitions
      BY <1>4, <2>1, <3>2 DEF LifeStep, Lifecycle!Next, Lifecycle!Move
    <3>3. CASE row.status \in Unresolved /\ new.status \in {"queued", "open"}
      BY <1>4, <2>1, <3>3 DEF LifeStep, Lifecycle!Next, Lifecycle!Transfer, Unresolved
    <3> QED
      BY <2>2, <3>1, <3>2, <3>3 DEF MayMove
  <2>5. ManualStep
    BY <1>4, <1>5, <2>2 DEF ManualStep, Carried, IInv, RowOK
  <2> QED
    BY <1>8, <1>9, <1>10, <2>1, <2>3, <2>4, <2>5 DEF Good, IInv
<1> QED
  BY <1>11, <1>12, <1>13

\* A handler that has decided on the row as it is writes it, or keeps what it
\* will write.
LEMMA HandleGood ==
    ASSUME IInv, NEW r \in Task \cup {Prompt},
           NEW op \in {"update", "accept", "transfer", "reopen", "breach"},
           NEW set \in Assignments, Carried(op, set),
           op = "breach" \/ \A x \in RowType : Basis(x) = Basis(row) => Lawful(op, set, x),
           Handle(r, op, set)
    PROVE  Good
<1>1. op \in Ops \ {"idle", "warn", "mark"} /\ Exists /\ row \in RowType
  BY DEF Ops, Jobs, Handle, IInv, RowOK
<1>2. CASE r = Prompt
  <2>1. Effect(op, set, FALSE, {})
    BY <1>2 DEF Handle
  <2>2. op \in Jobs \/ Lawful(op, set, row)
    BY <1>1 DEF Jobs
  <2>3. {} \in SUBSET Task /\ FALSE \in BOOLEAN /\ op # "mark" /\ \A p \in {} : task[p].op = op
    BY <1>1
  <2> HIDE DEF Effect
  <2> QED
    BY <1>1, <2>1, <2>2, <2>3, EffectGood
<1>3. CASE r # Prompt
  <2> DEFINE q == [op |-> op, set |-> set, stale |-> FALSE]
  <2>1. /\ r \in Task /\ task[r].op = "idle"
        /\ task' = [task EXCEPT ![r] = q] /\ UNCHANGED <<row, history>>
    BY <1>3 DEF Handle
  <2>2. q \in TaskType /\ q.op = op /\ q.set = set
    BY <1>1 DEF TaskType
  <2>3. Sound(q)
    BY <2>2 DEF Sound, Jobs
  <2>4. Sound(q)'
    BY <2>1, <2>3 DEF Sound
  <2> HIDE DEF q
  <2>5. /\ task'[r] = q
        /\ \A p \in Task \ {r} : task'[p] = task[p]
        /\ task' \in [Task -> TaskType]
    BY <2>1, <2>2 DEF IInv, TasksOK
  <2>6. TasksOK'
    <3>1. ASSUME NEW p \in Task
          PROVE  Carried(task'[p].op, task'[p].set) /\ Sound(task[p])'
      <4>1. CASE p = r
        BY <2>2, <2>4, <2>5, <4>1
      <4>2. CASE p # r
        BY <2>1, <2>5, <4>2 DEF IInv, TasksOK, Sound
      <4> QED
        BY <4>1, <4>2
    <3> QED
      BY <2>5, <3>1 DEF TasksOK
  <2>7. RowOK'
    BY <1>1, <2>1 DEF IInv, RowOK, Exists, history
  <2>8. MailsOK'
    <3>1. \A p \in Task, o \in {"warn", "mark"} : task'[p].op = o <=> task[p].op = o
      BY <1>1, <2>1, <2>2, <2>5
    <3> QED
      BY <2>1, <3>1 DEF IInv, MailsOK, Running, history
  <2>9. StampsAgree' /\ ManualStep /\ LifeStep
    BY <2>1 DEF IInv, StampsAgree, ManualStep, LifeStep, history
  <2> QED
    BY <2>1, <2>6, <2>7, <2>8, <2>9 DEF Good, IInv, history
<1> QED
  BY <1>2, <1>3

-----------------------------------------------------------------------------
(* updateTicket.                                                           *)

\* The fields a PATCH assigns.
LEMMA PatchForm ==
    ASSUME NEW patch \in Patches
    PROVE  /\ patch \in Assignments
           /\ DOMAIN patch \subseteq {"status", "reason", "owner", "due", "manual", "dept"}
           /\ "status" \in DOMAIN patch => patch["status"] \in Status
           /\ "due" \in DOMAIN patch <=> "manual" \in DOMAIN patch
           /\ "due" \in DOMAIN patch => patch["due"] = "far" /\ patch["manual"] = TRUE
<1> DEFINE ok(p) == /\ p \in Assignments
                    /\ DOMAIN p \subseteq {"status", "reason", "owner", "due", "manual", "dept"}
                    /\ "status" \in DOMAIN p => p["status"] \in Status
                    /\ "due" \in DOMAIN p <=> "manual" \in DOMAIN p
                    /\ "due" \in DOMAIN p => p["due"] = "far" /\ p["manual"] = TRUE
<1>1. ASSUME NEW p \in StatusEdit
      PROVE  ok(p) /\ DOMAIN p \subseteq {"status", "reason"}
  <2>1. ASSUME NEW s \in Status, p = [status |-> s]
        PROVE  ok(p) /\ DOMAIN p \subseteq {"status", "reason"}
    <3>1. [NoRow EXCEPT !.status = s] \in RowType /\ [NoRow EXCEPT !.status = s].status = s
      BY NoRowType DEF RowType
    <3>2. p \in Assignments
      BY <2>1, <3>1, ColumnAssigns
    <3> QED
      BY <2>1, <3>2
  <2>2. ASSUME NEW w \in Reason, p = [status |-> "waiting", reason |-> w]
        PROVE  ok(p) /\ DOMAIN p \subseteq {"status", "reason"}
    <3> DEFINE x == [NoRow EXCEPT !.status = "waiting", !.reason = w]
    <3>1. x \in RowType /\ x.status = "waiting" /\ x.reason = w
      BY NoRowType DEF RowType, Status
    <3> HIDE DEF x
    <3>2. p \in Assignments
      BY <2>2, <3>1, ColumnAssigns
    <3> QED
      BY <2>2, <3>2 DEF Status
  <2> QED
    BY <2>1, <2>2 DEF StatusEdit
<1>2. ASSUME NEW p \in OwnerEdit
      PROVE  ok(p) /\ DOMAIN p = {"owner"}
  <2>1. PICK a \in Agent \cup {NoAgent} : p = [owner |-> a]
    BY DEF OwnerEdit
  <2>2. [NoRow EXCEPT !.owner = a] \in RowType /\ [NoRow EXCEPT !.owner = a].owner = a
    BY NoRowType DEF RowType
  <2>3. p \in Assignments
    BY <2>1, <2>2, ColumnAssigns
  <2> QED
    BY <2>1, <2>3
<1>3. ASSUME NEW p \in DueEdit
      PROVE  ok(p)
  <2>1. p = [due |-> "far", manual |-> TRUE]
    BY DEF DueEdit
  <2> DEFINE x == [NoRow EXCEPT !.due = "far", !.manual = TRUE]
  <2>2. x \in RowType /\ x.due = "far" /\ x.manual = TRUE
    BY NoRowType DEF RowType, Due
  <2> HIDE DEF x
  <2>3. p \in Assignments
    BY <2>1, <2>2, ColumnAssigns
  <2> QED
    BY <2>1, <2>3
<1>4. ASSUME NEW p \in DeptEdit
      PROVE  ok(p)
  <2>1. PICK d \in Dept \cup {NoDept} : p = [dept |-> d]
    BY DEF DeptEdit
  <2>2. [NoRow EXCEPT !.dept = d] \in RowType /\ [NoRow EXCEPT !.dept = d].dept = d
    BY NoRowType DEF RowType
  <2>3. p \in Assignments
    BY <2>1, <2>2, ColumnAssigns
  <2> QED
    BY <2>1, <2>3
<1>5. ASSUME NEW s \in StatusEdit, NEW o \in OwnerEdit
      PROVE  ok(s ++ o)
  <2>1. ok(s) /\ DOMAIN s \subseteq {"status", "reason"} /\ ok(o) /\ DOMAIN o = {"owner"}
    BY <1>1, <1>2
  <2>2. /\ s ++ o \in Assignments /\ DOMAIN (s ++ o) = DOMAIN s \cup {"owner"}
        /\ \A f \in DOMAIN s : (s ++ o)[f] = s[f]
    BY <2>1, BothAssign
  <2> QED
    BY <2>1, <2>2
<1> HIDE DEF ok
<1>6. /\ \A p \in StatusEdit \cup OwnerEdit \cup DueEdit \cup DeptEdit : ok(p)
      /\ \A p \in {s ++ o : s \in StatusEdit, o \in OwnerEdit} : ok(p)
  BY <1>1, <1>2, <1>3, <1>4, <1>5
<1>7. \/ patch \in StatusEdit \cup OwnerEdit \cup DueEdit \cup DeptEdit
      \/ patch \in {s ++ o : s \in StatusEdit, o \in OwnerEdit}
  <2>1. PICK f \in Edits : patch \in PatchesOf[f]
    BY DEF Patches
  <2>2. f \in {"status", "owner", "due", "dept", "both"}
    BY TicketAssumption
  <2> DEFINE both == {s ++ o : s \in StatusEdit, o \in OwnerEdit}
  <2>3. PatchesOf = [status |-> StatusEdit, owner |-> OwnerEdit, due |-> DueEdit,
                     dept |-> DeptEdit, both |-> both]
    BY DEF PatchesOf
  <2> HIDE DEF both
  <2>4. patch \in StatusEdit \cup OwnerEdit \cup DueEdit \cup DeptEdit \/ patch \in both
    BY <2>1, <2>2, <2>3
  <2> QED
    BY <2>4 DEF both
<1>8. ok(patch)
  BY <1>6, <1>7
<1> QED
  BY <1>8 DEF ok

\* What the transition table allows is in the abstract table.
LEMMA AllowedMoves ==
    ASSUME NEW from \in Status, NEW to \in Status, Allowed(from, to)
    PROVE  MayMove(from, to)
  BY DEF Allowed, MayMove, Status, Lifecycle!Transitions

\* The stamps updateTicket sets: those of "to", from those of the row's status.
LEMMA StampForm ==
    ASSUME NEW to \in Status
    PROVE  /\ StampSet(to) \in Assignments
           /\ DOMAIN StampSet(to) \subseteq {"resolved", "closed"}
           /\ "resolved" \in DOMAIN StampSet(to) <=>
                 \/ to = "resolved" /\ row.status # "resolved"
                 \/ row.status = "resolved" /\ to \notin {"resolved", "closed"}
           /\ "closed" \in DOMAIN StampSet(to) <=> (to = "closed") # (row.status = "closed")
           /\ "resolved" \in DOMAIN StampSet(to)
                 => StampSet(to)["resolved"] = (to = "resolved")
           /\ "closed" \in DOMAIN StampSet(to) => StampSet(to)["closed"] = (to = "closed")
<1> DEFINE one == IF to = "resolved" /\ row.status # "resolved" THEN [resolved |-> TRUE]
                  ELSE IF row.status = "resolved" /\ to \notin {"resolved", "closed"}
                  THEN [resolved |-> FALSE] ELSE Nothing
           two == IF to = "closed" /\ row.status # "closed" THEN [closed |-> TRUE]
                  ELSE IF row.status = "closed" /\ to # "closed" THEN [closed |-> FALSE]
                  ELSE Nothing
<1>1. \A b \in BOOLEAN : [resolved |-> b] \in Assignments /\ [closed |-> b] \in Assignments
  <2> TAKE b \in BOOLEAN
  <2> DEFINE x == [NoRow EXCEPT !.resolved = b, !.closed = b]
  <2>1. x \in RowType /\ x.resolved = b /\ x.closed = b
    BY NoRowType DEF RowType
  <2> HIDE DEF x
  <2> QED
    BY <2>1, ColumnAssigns
<1>2. /\ one \in Assignments /\ DOMAIN one \subseteq {"resolved"}
      /\ "resolved" \in DOMAIN one <=> \/ to = "resolved" /\ row.status # "resolved"
                                       \/ row.status = "resolved" /\ to \notin {"resolved", "closed"}
      /\ "resolved" \in DOMAIN one => one["resolved"] = (to = "resolved")
  BY <1>1, NothingAssigns
<1>3. /\ two \in Assignments /\ DOMAIN two \subseteq {"closed"}
      /\ "closed" \in DOMAIN two <=> (to = "closed") # (row.status = "closed")
      /\ "closed" \in DOMAIN two => two["closed"] = (to = "closed")
  BY <1>1, NothingAssigns
<1>4. StampSet(to) = one ++ two
  BY DEF StampSet
<1> HIDE DEF one, two
<1>5. /\ one ++ two \in Assignments
      /\ DOMAIN (one ++ two) = DOMAIN one \cup DOMAIN two
      /\ \A f \in DOMAIN one : (one ++ two)[f] = one[f]
      /\ \A f \in DOMAIN two \ DOMAIN one : (one ++ two)[f] = two[f]
  BY <1>2, <1>3, BothAssign
<1> QED
  BY <1>2, <1>3, <1>4, <1>5

LEMMA PauseForm ==
    ASSUME NEW patch, NEW to
    PROVE  /\ PauseSet(patch, to) \in Assignments
           /\ DOMAIN PauseSet(patch, to) \subseteq {"paused"}
<1>1. \A b \in BOOLEAN : [paused |-> b] \in Assignments
  <2> TAKE b \in BOOLEAN
  <2>1. [NoRow EXCEPT !.paused = b] \in RowType /\ [NoRow EXCEPT !.paused = b].paused = b
    BY NoRowType DEF RowType
  <2> QED
    BY <2>1, ColumnAssigns
<1> QED
  BY <1>1, NothingAssigns DEF PauseSet

LEMMA ReasonForm ==
    ASSUME NEW patch
    PROVE  ReasonSet(patch) \in Assignments /\ DOMAIN ReasonSet(patch) \subseteq {"reason"}
<1>1. [reason |-> "none"] \in Assignments
  <2>1. NoRow.reason = "none"
    BY DEF NoRow
  <2> QED
    BY <2>1, NoRowType, ColumnAssigns
<1> QED
  BY <1>1, NothingAssigns DEF ReasonSet

LEMMA UpdateGood ==
    ASSUME IInv, NEW r \in Task \cup {Prompt}, UpdateTicket(r)
    PROVE  Good
<1>1. PICK patch \in Patches :
         LET to == IF "status" \in DOMAIN patch THEN patch.status ELSE row.status
         IN  /\ Allowed(row.status, to)
             /\ Handle(r, "update", patch ++ ReasonSet(patch) ++ PauseSet(patch, to)
                                          ++ StampSet(to))
  BY DEF UpdateTicket
<1> DEFINE to == IF "status" \in DOMAIN patch THEN patch.status ELSE row.status
           rs == ReasonSet(patch)
           ps == PauseSet(patch, to)
           ss == StampSet(to)
           one == patch ++ rs
           two == one ++ ps
           set == two ++ ss
<1>2. /\ patch \in Assignments
      /\ DOMAIN patch \subseteq {"status", "reason", "owner", "due", "manual", "dept"}
      /\ "status" \in DOMAIN patch => patch["status"] \in Status
      /\ "due" \in DOMAIN patch <=> "manual" \in DOMAIN patch
      /\ "due" \in DOMAIN patch => patch["due"] = "far" /\ patch["manual"] = TRUE
  BY PatchForm
<1>3. Exists /\ row \in RowType /\ row.status \in Status
  BY <1>1 DEF Handle, IInv, RowOK, Exists, RowType
<1>4. to \in Status /\ Allowed(row.status, to)
  BY <1>1, <1>2, <1>3
<1>5. Handle(r, "update", set)
  BY <1>1
<1>6. rs \in Assignments /\ DOMAIN rs \subseteq {"reason"}
  BY ReasonForm
<1>7. ps \in Assignments /\ DOMAIN ps \subseteq {"paused"}
  BY PauseForm
<1>8. /\ ss \in Assignments /\ DOMAIN ss \subseteq {"resolved", "closed"}
      /\ "resolved" \in DOMAIN ss <=>
            \/ to = "resolved" /\ row.status # "resolved"
            \/ row.status = "resolved" /\ to \notin {"resolved", "closed"}
      /\ "closed" \in DOMAIN ss <=> (to = "closed") # (row.status = "closed")
      /\ "resolved" \in DOMAIN ss => ss["resolved"] = (to = "resolved")
      /\ "closed" \in DOMAIN ss => ss["closed"] = (to = "closed")
  BY <1>4, StampForm
<1>9. /\ "status" \in DOMAIN patch => to = patch["status"]
      /\ "status" \notin DOMAIN patch => to = row.status
  OBVIOUS
<1> HIDE DEF to, rs, ps, ss
<1>10. /\ one \in Assignments /\ DOMAIN one = DOMAIN patch \cup DOMAIN rs
       /\ \A f \in DOMAIN patch : one[f] = patch[f]
       /\ \A f \in DOMAIN rs \ DOMAIN patch : one[f] = rs[f]
  BY <1>2, <1>6, BothAssign
<1> HIDE DEF one
<1>11. /\ two \in Assignments /\ DOMAIN two = DOMAIN one \cup DOMAIN ps
       /\ \A f \in DOMAIN one : two[f] = one[f]
  BY <1>7, <1>10, BothAssign
<1> HIDE DEF two
<1>12. /\ set \in Assignments /\ DOMAIN set = DOMAIN two \cup DOMAIN ss
       /\ \A f \in DOMAIN two : set[f] = two[f]
       /\ \A f \in DOMAIN ss \ DOMAIN two : set[f] = ss[f]
  BY <1>8, <1>11, BothAssign
<1> HIDE DEF set
<1>13. /\ "status" \in DOMAIN set <=> "status" \in DOMAIN patch
       /\ "status" \in DOMAIN set => set["status"] = to
       /\ "resolved" \in DOMAIN set <=> "resolved" \in DOMAIN ss
       /\ "resolved" \in DOMAIN set => set["resolved"] = (to = "resolved")
       /\ "closed" \in DOMAIN set <=> "closed" \in DOMAIN ss
       /\ "closed" \in DOMAIN set => set["closed"] = (to = "closed")
       /\ "warned" \notin DOMAIN set
       /\ "due" \in DOMAIN set <=> "due" \in DOMAIN patch
       /\ "manual" \in DOMAIN set <=> "manual" \in DOMAIN patch
       /\ "due" \in DOMAIN set => set["due"] = "far" /\ set["manual"] = TRUE
  BY <1>2, <1>6, <1>7, <1>8, <1>9, <1>10, <1>11, <1>12
<1>14. Carried("update", set)
  BY <1>2, <1>4, <1>13 DEF Carried, Jobs, Status
<1>15. ASSUME NEW x \in RowType, Basis(x) = Basis(row)
       PROVE  Lawful("update", set, x)
  <2> DEFINE y == Applied(set, x)
  <2>1. x.status = row.status
    BY <1>15 DEF Basis
  <2>2. \A f \in Column : y[f] = IF f \in DOMAIN set THEN set[f] ELSE x[f]
    BY <1>12, AppliedType
  <2>3. /\ y.status = IF "status" \in DOMAIN set THEN set["status"] ELSE x.status
        /\ y.resolved = IF "resolved" \in DOMAIN set THEN set["resolved"] ELSE x.resolved
        /\ y.closed = IF "closed" \in DOMAIN set THEN set["closed"] ELSE x.closed
    BY <2>2 DEF Column
  <2> HIDE DEF y
  <2>4. y.status = to
    BY <1>9, <1>13, <2>1, <2>3
  <2>5. MayMove(x.status, y.status)
    BY <1>3, <1>4, <2>1, <2>4, AllowedMoves
  <2>6. x.closed \in BOOLEAN /\ x.resolved \in BOOLEAN
    BY DEF RowType
  <2>7. row.status # "resolved" /\ to = "closed" => row.status = "closed"
    BY <1>3, <1>4 DEF Allowed, Status
  <2>8. Stamped(x) => Stamped(y)
    BY <1>8, <1>13, <2>1, <2>3, <2>4, <2>6, <2>7 DEF Stamped
  <2> QED
    BY <2>5, <2>8 DEF Lawful, y
<1> QED
  BY <1>5, <1>12, <1>14, <1>15, HandleGood

-----------------------------------------------------------------------------
(* The other handlers.                                                     *)

LEMMA ComputedForm ==
    /\ ComputedDue \in Assignments
    /\ DOMAIN ComputedDue \subseteq {"due", "manual"}
    /\ "due" \in DOMAIN ComputedDue <=> "manual" \in DOMAIN ComputedDue
    /\ "due" \in DOMAIN ComputedDue => row.due = "none" /\ ComputedDue["due"] = "far"
                                       /\ ComputedDue["manual"] = FALSE
<1> DEFINE x == [NoRow EXCEPT !.due = "far", !.manual = FALSE]
<1>1. x \in RowType /\ x.due = "far" /\ x.manual = FALSE
  BY NoRowType DEF RowType, Due
<1> HIDE DEF x
<1>2. [due |-> "far", manual |-> FALSE] \in Assignments
  BY <1>1, ColumnAssigns
<1> QED
  BY <1>2, NothingAssigns DEF ComputedDue

LEMMA AcceptGood ==
    ASSUME IInv, NEW r \in Task \cup {Prompt}, AcceptTicket(r)
    PROVE  Good
<1> DEFINE one == [status |-> "in_progress"]
           set == one ++ ComputedDue
<1>1. Handle(r, "accept", set) /\ row.status \in {"queued", "open"}
  BY DEF AcceptTicket
<1>2. one \in Assignments /\ DOMAIN one = {"status"} /\ one["status"] = "in_progress"
  <2>1. /\ [NoRow EXCEPT !.status = "in_progress"] \in RowType
        /\ [NoRow EXCEPT !.status = "in_progress"].status = "in_progress"
    BY NoRowType DEF RowType, Status
  <2> QED
    BY <2>1, ColumnAssigns
<1> HIDE DEF one
<1>3. /\ set \in Assignments /\ DOMAIN set = {"status"} \cup DOMAIN ComputedDue
      /\ set["status"] = "in_progress"
      /\ \A f \in DOMAIN ComputedDue : f # "status" => set[f] = ComputedDue[f]
  <2>1. ComputedDue \in Assignments
    BY ComputedForm
  <2>2. /\ set \in Assignments /\ DOMAIN set = DOMAIN one \cup DOMAIN ComputedDue
        /\ \A f \in DOMAIN one : set[f] = one[f]
        /\ \A f \in DOMAIN ComputedDue \ DOMAIN one : set[f] = ComputedDue[f]
    BY <1>2, <2>1, BothAssign
  <2> HIDE DEF set
  <2> QED
    BY <1>2, <2>2
<1> HIDE DEF set
<1>4. /\ "due" \in DOMAIN set <=> "manual" \in DOMAIN set
      /\ "due" \in DOMAIN set => row.due = "none" /\ set["due"] = "far"
      /\ "warned" \notin DOMAIN set /\ "resolved" \notin DOMAIN set
      /\ "closed" \notin DOMAIN set /\ "status" \in DOMAIN set
  BY <1>3, ComputedForm
<1>5. Carried("accept", set)
  BY <1>3, <1>4 DEF Carried, Jobs
<1>6. ASSUME NEW x \in RowType, Basis(x) = Basis(row)
      PROVE  Lawful("accept", set, x)
  <2> DEFINE y == Applied(set, x)
  <2>1. x.status = row.status /\ (x.due = "none" <=> row.due = "none")
    BY <1>6 DEF Basis
  <2>2. \A f \in Column : y[f] = IF f \in DOMAIN set THEN set[f] ELSE x[f]
    BY <1>3, AppliedType
  <2>3. y.status = "in_progress" /\ y.resolved = x.resolved /\ y.closed = x.closed
    BY <1>3, <1>4, <2>2 DEF Column
  <2> HIDE DEF y
  <2>4. MayMove(x.status, y.status)
    BY <1>1, <2>1, <2>3 DEF MayMove, Lifecycle!Transitions
  <2>5. Stamped(x) => Stamped(y)
    BY <1>1, <2>1, <2>3 DEF Stamped
  <2> QED
    BY <1>4, <2>1, <2>4, <2>5 DEF Lawful, y
<1> QED
  BY <1>1, <1>3, <1>5, <1>6, HandleGood

LEMMA TransferGood ==
    ASSUME IInv, NEW r \in Task \cup {Prompt}, TransferTicketDepartment(r)
    PROVE  Good
<1>0. PICK d \in Dept, lv \in row.level .. MaxLevel :
         /\ Active
         /\ \E pick \in Candidates(d) :
              Handle(r, "transfer",
                [dept |-> d, owner |-> pick, warned |-> FALSE,
                 status |-> IF pick = NoAgent THEN "queued" ELSE "open"]
                ++ (IF lv > row.level THEN [level |-> lv] ELSE Nothing))
  BY DEF TransferTicketDepartment
<1>1. PICK pick \in Candidates(d) :
              Handle(r, "transfer",
                [dept |-> d, owner |-> pick, warned |-> FALSE,
                 status |-> IF pick = NoAgent THEN "queued" ELSE "open"]
                ++ (IF lv > row.level THEN [level |-> lv] ELSE Nothing))
  BY <1>0
<1> DEFINE st == IF pick = NoAgent THEN "queued" ELSE "open"
           one == [dept |-> d, owner |-> pick, warned |-> FALSE, status |-> st]
           two == IF lv > row.level THEN [level |-> lv] ELSE Nothing
           set == one ++ two
<1>2. Handle(r, "transfer", set) /\ row \in RowType /\ row.status \in Unresolved
  BY <1>0, <1>1 DEF IInv, RowOK, Active, Exists, RowType, Status, Unresolved
<1>3. st \in {"queued", "open"} /\ pick \in Agent \cup {NoAgent} /\ lv \in 1 .. MaxLevel
  <2>1. pick \in Agent \cup {NoAgent}
    BY TicketAssumption DEF Candidates
  <2>2. row.level \in 1 .. MaxLevel /\ lv \in row.level .. MaxLevel
    BY <1>2 DEF RowType
  <2>3. lv \in 1 .. MaxLevel
    BY <2>2, TicketAssumption
  <2> QED
    BY <2>1, <2>3
<1> HIDE DEF st
<1>4. /\ one \in Assignments /\ DOMAIN one = {"dept", "owner", "warned", "status"}
      /\ one["status"] = st
  <2> DEFINE x == [NoRow EXCEPT !.dept = d, !.owner = pick, !.warned = FALSE, !.status = st]
  <2>1. x \in RowType /\ x.dept = d /\ x.owner = pick /\ x.warned = FALSE /\ x.status = st
    BY <1>3, NoRowType DEF RowType, Status
  <2> HIDE DEF x
  <2> QED
    BY <2>1, ColumnAssigns
<1>5. two \in Assignments /\ DOMAIN two \subseteq {"level"}
  <2>1. [NoRow EXCEPT !.level = lv] \in RowType /\ [NoRow EXCEPT !.level = lv].level = lv
    BY <1>3, NoRowType DEF RowType
  <2>2. [level |-> lv] \in Assignments
    BY <2>1, ColumnAssigns
  <2> QED
    BY <2>2, NothingAssigns
<1> HIDE DEF one, two
<1>6. /\ set \in Assignments /\ DOMAIN set = DOMAIN one \cup DOMAIN two
      /\ set["status"] = st
  BY <1>4, <1>5, BothAssign
<1> HIDE DEF set
<1>7. /\ "status" \in DOMAIN set /\ "due" \notin DOMAIN set /\ "manual" \notin DOMAIN set
      /\ "resolved" \notin DOMAIN set /\ "closed" \notin DOMAIN set
  BY <1>4, <1>5, <1>6
<1>8. Carried("transfer", set)
  BY <1>3, <1>6, <1>7 DEF Carried, Jobs
<1>9. ASSUME NEW x \in RowType, Basis(x) = Basis(row)
      PROVE  Lawful("transfer", set, x)
  <2> DEFINE y == Applied(set, x)
  <2>1. x.status = row.status
    BY <1>9 DEF Basis
  <2>2. \A f \in Column : y[f] = IF f \in DOMAIN set THEN set[f] ELSE x[f]
    BY <1>6, AppliedType
  <2>3. y.status = st /\ y.resolved = x.resolved /\ y.closed = x.closed
    BY <1>6, <1>7, <2>2 DEF Column
  <2> HIDE DEF y
  <2>4. MayMove(x.status, y.status)
    BY <1>2, <1>3, <2>1, <2>3 DEF MayMove
  <2>5. Stamped(x) => Stamped(y)
    BY <1>2, <1>3, <2>1, <2>3 DEF Stamped, Unresolved
  <2> QED
    BY <2>4, <2>5 DEF Lawful, y
<1> QED
  BY <1>2, <1>6, <1>8, <1>9, HandleGood

LEMMA ReopenGood ==
    ASSUME IInv, NEW r \in Task \cup {Prompt}, ReopenByContact(r)
    PROVE  Good
<1> DEFINE set == [status |-> "open", resolved |-> FALSE]
<1>1. Handle(r, "reopen", set) /\ row.status = "resolved"
  BY DEF ReopenByContact
<1>2. /\ set \in Assignments /\ DOMAIN set = {"status", "resolved"}
      /\ set["status"] = "open" /\ set["resolved"] = FALSE
  <2> DEFINE x == [NoRow EXCEPT !.status = "open", !.resolved = FALSE]
  <2>1. x \in RowType /\ x.status = "open" /\ x.resolved = FALSE
    BY NoRowType DEF RowType, Status
  <2> HIDE DEF x
  <2> QED
    BY <2>1, ColumnAssigns
<1> HIDE DEF set
<1>3. Carried("reopen", set)
  BY <1>2 DEF Carried, Jobs
<1>4. ASSUME NEW x \in RowType, Basis(x) = Basis(row)
      PROVE  Lawful("reopen", set, x)
  <2> DEFINE y == Applied(set, x)
  <2>1. x.status = "resolved"
    BY <1>1, <1>4 DEF Basis
  <2>2. \A f \in Column : y[f] = IF f \in DOMAIN set THEN set[f] ELSE x[f]
    BY <1>2, AppliedType
  <2>3. y.status = "open" /\ y.closed = x.closed
    BY <1>2, <2>2 DEF Column
  <2> HIDE DEF y
  <2>4. MayMove(x.status, y.status)
    BY <2>1, <2>3 DEF MayMove, Lifecycle!Transitions
  <2>5. Stamped(x) => Stamped(y)
    BY <2>1, <2>3 DEF Stamped
  <2> QED
    BY <1>2, <2>4, <2>5 DEF Lawful, y
<1> QED
  BY <1>1, <1>2, <1>3, <1>4, HandleGood

LEMMA BreachGood ==
    ASSUME IInv, NEW r \in Task \cup {Prompt}, SlaBreach(r)
    PROVE  Good
<1>1. Handle(r, "breach", [escalated |-> TRUE])
  BY DEF SlaBreach
<1>2. [escalated |-> TRUE] \in Assignments
  <2>1. [NoRow EXCEPT !.escalated = TRUE] \in RowType /\ [NoRow EXCEPT !.escalated = TRUE].escalated = TRUE
    BY NoRowType DEF RowType
  <2> QED
    BY <2>1, ColumnAssigns
<1>3. Carried("breach", [escalated |-> TRUE])
  BY DEF Carried, Jobs
<1> QED
  BY <1>1, <1>2, <1>3, HandleGood

\* A task applies what it has kept.
LEMMA CommitGood ==
    ASSUME IInv, NEW r \in Task, Commit(r)
    PROVE  Good
<1> DEFINE q == task[r]
<1>1. q \in TaskType /\ Carried(q.op, q.set) /\ Sound(q)
  BY DEF IInv, TasksOK
<1>2. q.op \notin {"idle", "warn"} /\ Effect(q.op, q.set, q.stale, {r})
  BY DEF Commit
<1>3. Exists /\ row \in RowType
  BY <1>2, IdleTask DEF IInv, RowOK, Exists
<1>4. q.op \in Jobs \/ q.stale \/ Lawful(q.op, q.set, row)
  BY <1>1, <1>2, <1>3 DEF Sound
<1>5. q.stale /\ q.op = "accept" => \E p \in Task : task[p].op = "accept" /\ task[p].stale
  OBVIOUS
<1>6. q.op \in Ops \ {"idle", "warn"} /\ q.set \in Assignments /\ q.stale \in BOOLEAN
  BY <1>1, <1>2 DEF TaskType
<1>7. {r} \in SUBSET Task /\ (\A p \in {r} : task[p].op = q.op) /\ \E p \in {r} : TRUE
  OBVIOUS
<1> HIDE DEF q
<1> QED
  BY <1>1, <1>2, <1>3, <1>4, <1>5, <1>6, <1>7, EffectGood

-----------------------------------------------------------------------------
(* Writes in one step, time, the warning and restarts.                     *)

\* A row written in one step, the mark of its warning left alone.
LEMMA DirectWrite ==
    ASSUME IInv, Exists, NEW new \in RowType, new.status # "none",
           new.manual => new.due # "none", new.warned = row.warned,
           Write(new, {}), UNCHANGED mails
    PROVE  RowOK' /\ TasksOK' /\ MailsOK'
<1>1. row' = new
  BY DEF Write
<1>2. TasksOK' /\ \A r \in Task \ {} : task'[r].op = task[r].op
  BY WriteTasks DEF IInv
<1>3. MailsOK'
  BY <1>1, <1>2, WriteMails DEF IInv
<1>4. RowOK'
  BY <1>1 DEF RowOK
<1> QED
  BY <1>2, <1>3, <1>4

LEMMA InsertGood ==
    ASSUME IInv, NEW new \in RowType, new.status \in {"queued", "open", "in_progress", "waiting"},
           new.manual => new.due # "none", ~ new.warned, ~ new.resolved, ~ new.closed,
           Insert(new)
    PROVE  Good
<1>1. /\ row.status = "none" /\ row' = new /\ UNCHANGED <<task, mails, forced>>
      /\ row = NoRow /\ mails = 0 /\ \A r \in Task : task[r] = Idle
  BY DEF Insert, Exists, history, IInv, RowOK
<1>2. RowOK'
  BY <1>1 DEF RowOK
<1>3. TasksOK'
  BY <1>1, IdleTask DEF IInv, TasksOK, Sound
<1>4. MailsOK'
  <2>1. \A r \in Task : task'[r].op = "idle"
    BY <1>1, IdleTask
  <2> QED
    BY <1>1, <2>1 DEF MailsOK, Running
<1>5. StampsAgree'
  BY <1>1 DEF StampsAgree
<1>6. ManualStep
  BY <1>1 DEF ManualStep, NoRow
<1>7. LifeStep
  BY <1>1 DEF LifeStep, Lifecycle!Next, Lifecycle!Create, Lifecycle!Status
<1> QED
  BY <1>1, <1>2, <1>3, <1>4, <1>5, <1>6, <1>7 DEF Good, IInv

LEMMA CreateGood ==
    ASSUME IInv, CreateTicket \/ CreateUnrouted
    PROVE  Good
<1>1. CASE CreateTicket
  <2>1. PICK st \in Status \ {"resolved", "closed"}, a \in Agent \cup {NoAgent},
             d \in Dept \cup {NoDept}, due \in {"none", "far"} :
          \E pick \in IF a # NoAgent THEN {a}
                      ELSE IF d # NoDept THEN Candidates(d) ELSE {} :
            Insert([NoRow EXCEPT !.status = IF pick = NoAgent THEN "queued" ELSE st,
                                 !.owner = pick, !.dept = d, !.due = due,
                                 !.manual = due # "none"])
    BY <1>1 DEF CreateTicket
  <2>2. PICK pick \in IF a # NoAgent THEN {a}
                      ELSE IF d # NoDept THEN Candidates(d) ELSE {} :
            Insert([NoRow EXCEPT !.status = IF pick = NoAgent THEN "queued" ELSE st,
                                 !.owner = pick, !.dept = d, !.due = due,
                                 !.manual = due # "none"])
    BY <2>1
  <2>3. pick \in Agent \cup {NoAgent}
    <3>1. d # NoDept => Candidates(d) \subseteq Agent \cup {NoAgent}
      BY TicketAssumption DEF Candidates
    <3> QED
      BY <2>2, <3>1
  <2> DEFINE s == IF pick = NoAgent THEN "queued" ELSE st
             m == due # "none"
             new == [NoRow EXCEPT !.status = s, !.owner = pick, !.dept = d, !.due = due,
                                  !.manual = m]
  <2>4. s \in Unresolved /\ m \in BOOLEAN /\ (m => due # "none")
    BY DEF Status, Unresolved
  <2>5. Insert(new)
    BY <2>2
  <2> HIDE DEF s, m
  <2>6. /\ new \in RowType /\ new.status = s /\ new.manual = m /\ new.due = due
        /\ ~ new.warned /\ ~ new.resolved /\ ~ new.closed
    <3>1. s \in Status \cup {"none"} /\ due \in Due
      BY <2>4 DEF Unresolved, Status, Due
    <3> QED
      BY <2>3, <2>4, <3>1, NoRowType DEF NoRow, RowType
  <2> HIDE DEF new
  <2> QED
    BY <2>4, <2>5, <2>6, InsertGood DEF Unresolved
<1>2. CASE CreateUnrouted
  <2> DEFINE new == [NoRow EXCEPT !.status = "open"]
  <2>1. Insert(new)
    BY <1>2 DEF CreateUnrouted
  <2>2. /\ new \in RowType /\ new.status = "open" /\ ~ new.manual
        /\ ~ new.warned /\ ~ new.resolved /\ ~ new.closed
    BY NoRowType DEF NoRow, RowType, Status
  <2> HIDE DEF new
  <2> QED
    BY <2>1, <2>2, InsertGood
<1> QED
  BY <1>1, <1>2

LEMMA DeleteGood ==
    ASSUME IInv, DeleteTicket
    PROVE  Good
<1>1. /\ row.status # "none" /\ row' = NoRow /\ task' = [r \in Task |-> Idle]
      /\ mails' = 0 /\ forced' = FALSE
  BY DEF DeleteTicket, Exists
<1>2. RowOK' /\ TasksOK'
  BY <1>1, NoRowType, IdleTask DEF RowOK, TasksOK, NoRow, Sound
<1>3. MailsOK'
  <2>1. \A r \in Task : task'[r].op = "idle"
    BY <1>1, IdleTask
  <2> QED
    BY <1>1, <2>1 DEF MailsOK, Running
<1>4. StampsAgree' /\ ManualStep
  BY <1>1 DEF StampsAgree, ManualStep, Exists, NoRow
<1>5. LifeStep
  BY <1>1 DEF LifeStep, Lifecycle!Next, Lifecycle!Delete, NoRow
<1> QED
  BY <1>1, <1>2, <1>3, <1>4, <1>5 DEF Good, IInv

LEMMA AssignGood ==
    ASSUME IInv, AssignTicket
    PROVE  Good
<1>1. PICK a \in Agent : Exists /\ Write([row EXCEPT !.owner = a], {}) /\ UNCHANGED history
  BY DEF AssignTicket
<1> DEFINE new == [row EXCEPT !.owner = a]
<1>2. row \in RowType /\ (row.manual => row.due # "none") /\ row.status # "none"
  BY <1>1 DEF IInv, RowOK, Exists
<1>3. /\ new \in RowType /\ new.status = row.status /\ new.manual = row.manual
      /\ new.due = row.due /\ new.warned = row.warned
      /\ new.resolved = row.resolved /\ new.closed = row.closed
  BY <1>2 DEF RowType
<1>4. Write(new, {}) /\ UNCHANGED <<mails, forced>>
  BY <1>1 DEF history
<1> HIDE DEF new
<1>5. row' = new
  BY <1>4 DEF Write
<1>6. RowOK' /\ TasksOK' /\ MailsOK'
  BY <1>1, <1>2, <1>3, <1>4, DirectWrite
<1>7. StampsAgree' /\ ManualStep /\ LifeStep
  BY <1>3, <1>4, <1>5 DEF StampsAgree, ManualStep, LifeStep, IInv
<1> QED
  BY <1>4, <1>6, <1>7 DEF Good, IInv

LEMMA ClaimGood ==
    ASSUME IInv, ClaimTicketFromQueue
    PROVE  Good
<1>1. PICK a \in Agent :
         /\ row.status = "queued"
         /\ Write(ComputedDue ++ [row EXCEPT !.owner = a, !.status = "open"], {})
         /\ UNCHANGED history
  BY DEF ClaimTicketFromQueue
<1> DEFINE old == [row EXCEPT !.owner = a, !.status = "open"]
           new == ComputedDue ++ old
<1>2. row \in RowType /\ (row.manual => row.due # "none") /\ Exists
  BY <1>1 DEF IInv, RowOK, Exists
<1>3. /\ old \in RowType /\ DOMAIN old = Column /\ old.status = "open"
      /\ old.manual = row.manual /\ old.due = row.due /\ old.warned = row.warned
      /\ old.resolved = row.resolved /\ old.closed = row.closed
  BY <1>2 DEF RowType, Status, Column
<1>4. Write(new, {}) /\ UNCHANGED <<mails, forced>>
  BY <1>1 DEF history
<1> HIDE DEF old
<1>5. Applied(ComputedDue, old) = new
  <2>1. DOMAIN ComputedDue \subseteq Column
    BY ComputedForm DEF Column
  <2>2. DOMAIN ComputedDue \cup DOMAIN old = DOMAIN old
    BY <1>3, <2>1
  <2> QED
    BY <2>2 DEF Applied, ++
<1>6. /\ new \in RowType
      /\ \A f \in Column : new[f] = IF f \in DOMAIN ComputedDue THEN ComputedDue[f] ELSE old[f]
  <2>1. ComputedDue \in Assignments
    BY ComputedForm
  <2> HIDE DEF new
  <2> QED
    BY <1>3, <1>5, <2>1, AppliedType
<1> HIDE DEF new
<1>7. /\ new.status = "open" /\ new.warned = row.warned
      /\ new.resolved = row.resolved /\ new.closed = row.closed
      /\ "due" \in DOMAIN ComputedDue => row.due = "none" /\ new.due = "far"
      /\ "due" \notin DOMAIN ComputedDue => new.manual = row.manual /\ new.due = row.due
  BY <1>3, <1>6, ComputedForm DEF Column
<1>8. row' = new
  BY <1>4 DEF Write
<1>9. (new.manual => new.due # "none") /\ (row.manual => new.manual)
  BY <1>2, <1>7
<1>10. RowOK' /\ TasksOK' /\ MailsOK'
  BY <1>2, <1>4, <1>6, <1>7, <1>9, DirectWrite
<1>11. StampsAgree' /\ ManualStep
  BY <1>1, <1>4, <1>7, <1>8, <1>9 DEF StampsAgree, ManualStep, IInv
<1>12. LifeStep
  BY <1>1, <1>4, <1>7, <1>8
     DEF LifeStep, Lifecycle!Next, Lifecycle!Move, Lifecycle!Transitions
<1> QED
  BY <1>4, <1>10, <1>11, <1>12 DEF Good, IInv

LEMMA RedmineGood ==
    ASSUME IInv, RedmineSync
    PROVE  Good
<1>1. PICK s \in Status \ {"queued"} :
         /\ Exists /\ Write([row EXCEPT !.status = s], {})
         /\ forced' = TRUE /\ UNCHANGED mails
  BY DEF RedmineSync
<1> DEFINE new == [row EXCEPT !.status = s]
<1>2. row \in RowType /\ (row.manual => row.due # "none") /\ s # "none"
  BY DEF IInv, RowOK, Status
<1>3. /\ new \in RowType /\ new.status = s /\ new.manual = row.manual
      /\ new.due = row.due /\ new.warned = row.warned
  BY <1>2 DEF RowType
<1>4. Write(new, {}) /\ row' = new
  BY <1>1 DEF Write
<1> HIDE DEF new
<1>5. RowOK' /\ TasksOK' /\ MailsOK'
  BY <1>1, <1>2, <1>3, <1>4, DirectWrite
<1>6. StampsAgree' /\ ManualStep
  BY <1>1, <1>3, <1>4 DEF StampsAgree, ManualStep
<1>7. LifeStep
  <2>1. row'.status \in Lifecycle!Status \ {"none"}
    BY <1>2, <1>3, <1>4 DEF Status, Lifecycle!Status
  <2> QED
    BY <1>1, <2>1 DEF LifeStep, Lifecycle!Next, Lifecycle!Force
<1> QED
  BY <1>1, <1>5, <1>6, <1>7 DEF Good, IInv

\* Time moves the due date on and nothing a task decides on.
LEMMA TickGood ==
    ASSUME IInv, Tick
    PROVE  Good
<1> DEFINE due == IF row.due = "far" THEN "near" ELSE "past"
           new == [row EXCEPT !.due = due]
<1>1. row.due \in {"far", "near"} /\ row' = new /\ UNCHANGED <<task, mails, forced>>
  BY DEF Tick, history
<1>2. row \in RowType /\ due \in Due /\ due # "none"
  BY DEF IInv, RowOK, Due
<1> HIDE DEF due
<1>3. /\ new \in RowType /\ DOMAIN new = DOMAIN row
      /\ new.due # "none" /\ new.status = row.status /\ new.owner = row.owner
      /\ new.dept = row.dept /\ new.level = row.level /\ new.reason = row.reason
      /\ new.paused = row.paused /\ new.manual = row.manual /\ new.warned = row.warned
      /\ new.resolved = row.resolved /\ new.closed = row.closed
  BY <1>2 DEF RowType
<1>4. Basis(new) = Basis(row)
  BY <1>1, <1>3 DEF Basis
<1> HIDE DEF new
<1>5. row.status # "none"
  BY <1>1 DEF IInv, RowOK, NoRow
<1>6. RowOK'
  BY <1>1, <1>3, <1>5 DEF RowOK
<1>7. TasksOK'
  BY <1>1, <1>4 DEF IInv, TasksOK, Sound
<1>8. MailsOK'
  BY <1>1, <1>3 DEF IInv, MailsOK, Running
<1>9. StampsAgree' /\ ManualStep /\ LifeStep
  BY <1>1, <1>3 DEF IInv, StampsAgree, ManualStep, LifeStep
<1> QED
  BY <1>1, <1>6, <1>7, <1>8, <1>9 DEF Good, IInv

\* Steps that leave the row and "forced" as they are.
LEMMA RowKept ==
    ASSUME IInv, UNCHANGED <<row, forced>>,
           row.status = "none" => mails' = 0 /\ \A r \in Task : task'[r] = Idle,
           TasksOK', MailsOK'
    PROVE  Good
<1>1. RowOK'
  BY DEF IInv, RowOK
<1>2. StampsAgree' /\ ManualStep /\ LifeStep
  BY DEF IInv, StampsAgree, ManualStep, LifeStep
<1> QED
  BY <1>1, <1>2 DEF Good, IInv

LEMMA WarnGood ==
    ASSUME IInv, NEW r \in Task, WarnSelect(r) \/ WarnSend(r)
    PROVE  Good
<1>0. /\ task[r] \in TaskType /\ task \in [Task -> TaskType]
      /\ \A p \in Task : Carried(task[p].op, task[p].set) /\ Sound(task[p])
  BY DEF IInv, TasksOK
<1>1. row.status # "none"
  <2>1. WarnSelect(r) => row.status # "none"
    BY DEF WarnSelect, NearBreach, Active, Exists
  <2>2. WarnSend(r) => task[r] # Idle
    BY IdleTask DEF WarnSend
  <2> QED
    BY <2>1, <2>2 DEF IInv, RowOK
<1>2. CASE WarnSelect(r)
  <2> DEFINE q == [op |-> "warn", set |-> Nothing, stale |-> FALSE]
  <2>1. /\ ~ row.warned /\ ~ Running("warn") /\ ~ Running("mark")
        /\ task' = [task EXCEPT ![r] = q] /\ UNCHANGED <<row, mails, forced>>
    BY <1>2 DEF WarnSelect, NearBreach, history
  <2>2. /\ q \in TaskType /\ q.op = "warn" /\ Carried(q.op, q.set) /\ Sound(q)'
    BY NothingAssigns DEF TaskType, Ops, Jobs, Carried, Sound
  <2> HIDE DEF q
  <2>3. task'[r] = q /\ \A p \in Task \ {r} : task'[p] = task[p]
    BY <1>0, <2>1
  <2>4. TasksOK'
    <3>1. ASSUME NEW p \in Task
          PROVE  Carried(task'[p].op, task'[p].set) /\ Sound(task[p])'
      BY <1>0, <2>1, <2>2, <2>3 DEF Sound
    <3> QED
      BY <1>0, <2>1, <2>2, <3>1 DEF TasksOK
  <2>5. MailsOK'
    <3>1. mails = 0
      BY <2>1 DEF IInv, MailsOK
    <3>2. \A p \in Task \ {r} : task'[p].op \notin {"warn", "mark"}
      BY <2>1, <2>3 DEF Running
    <3> QED
      BY <2>1, <3>1, <3>2 DEF MailsOK
  <2> QED
    BY <1>1, <2>1, <2>4, <2>5, RowKept
<1>3. CASE /\ task[r].op = "warn" /\ mails' = mails + 1
           /\ task' = [task EXCEPT ![r].op = "mark", ![r].set = [warned |-> TRUE]]
           /\ UNCHANGED <<row, forced>>
  <2> DEFINE q == [task[r] EXCEPT !.op = "mark", !.set = [warned |-> TRUE]]
  <2>1. task' = [task EXCEPT ![r] = q]
    BY <1>0, <1>3 DEF TaskType
  <2>2. [warned |-> TRUE] \in Assignments
    <3>1. [NoRow EXCEPT !.warned = TRUE] \in RowType /\ [NoRow EXCEPT !.warned = TRUE].warned = TRUE
      BY NoRowType DEF RowType
    <3> QED
      BY <3>1, ColumnAssigns
  <2>3. q \in TaskType /\ q.op = "mark" /\ q.set = [warned |-> TRUE]
    BY <1>0, <2>2 DEF TaskType, Ops, Jobs
  <2> HIDE DEF q
  <2>4. task'[r] = q /\ \A p \in Task \ {r} : task'[p] = task[p]
    BY <1>0, <2>1
  <2>5. Carried(task'[r].op, task'[r].set) /\ Sound(task[r])'
    BY <2>3, <2>4 DEF Carried, Sound, Jobs
  <2>6. TasksOK'
    <3>1. ASSUME NEW p \in Task
          PROVE  Carried(task'[p].op, task'[p].set) /\ Sound(task[p])'
      BY <1>0, <1>3, <2>4, <2>5 DEF Sound
    <3> QED
      BY <1>0, <2>1, <2>3, <3>1 DEF TasksOK
  <2>7. MailsOK'
    <3>1. mails = 0 /\ mails' = 1
      BY <1>3 DEF IInv, MailsOK, Running
    <3>2. \A p \in Task \ {r} : task'[p].op \notin {"warn", "mark"}
      BY <1>3, <2>4 DEF IInv, MailsOK
    <3>3. task'[r].op = "mark"
      BY <2>3, <2>4
    <3> QED
      BY <3>1, <3>2, <3>3 DEF MailsOK, Running
  <2> QED
    BY <1>1, <1>3, <2>6, <2>7, RowKept
<1>4. CASE task[r].op = "warn" /\ task' = [task EXCEPT ![r] = Idle]
           /\ UNCHANGED <<mails, row, forced>>
  <2>1. task'[r] = Idle /\ \A p \in Task \ {r} : task'[p] = task[p]
    BY <1>0, <1>4
  <2>2. TasksOK'
    <3>1. ASSUME NEW p \in Task
          PROVE  Carried(task'[p].op, task'[p].set) /\ Sound(task[p])'
      BY <1>0, <1>4, <2>1, IdleTask DEF Sound
    <3> QED
      BY <1>0, <1>4, <3>1, IdleTask DEF TasksOK
  <2>3. MailsOK'
    <3>1. mails = 0
      BY <1>4 DEF IInv, MailsOK, Running
    <3>2. \A p \in Task : task'[p].op \notin {"warn", "mark"}
      BY <1>4, <2>1, IdleTask DEF IInv, MailsOK
    <3> QED
      BY <1>4, <3>1, <3>2 DEF MailsOK, Running
  <2> QED
    BY <1>1, <1>4, <2>2, <2>3, RowKept
<1> QED
  BY <1>2, <1>3, <1>4 DEF WarnSend

LEMMA RestartGood ==
    ASSUME IInv, Restart
    PROVE  Good
<1>1. /\ task' = [r \in Task |-> Idle] /\ UNCHANGED <<row, forced>>
      /\ mails' = IF Running("mark") THEN 0 ELSE mails
  BY DEF Restart
<1>2. \A r \in Task : task'[r] = Idle /\ task'[r].op = "idle"
  BY <1>1, IdleTask
<1>3. TasksOK'
  BY <1>1, <1>2, IdleTask DEF TasksOK, Sound
<1>4. MailsOK'
  BY <1>1, <1>2 DEF IInv, MailsOK, Running
<1>5. row.status = "none" => mails' = 0
  BY <1>1 DEF IInv, RowOK
<1> QED
  BY <1>1, <1>2, <1>3, <1>4, <1>5, RowKept

-----------------------------------------------------------------------------
\* Every step is good.
LEMMA StepGood ==
    ASSUME IInv, [Next]_vars
    PROVE  Good
<1>1. CASE UNCHANGED vars
  <2>1. UNCHANGED <<row, task, mails, forced>>
    BY <1>1 DEF vars
  <2> QED
    BY <2>1 DEF Good, IInv, RowOK, TasksOK, Sound, MailsOK, Running, StampsAgree,
                ManualStep, LifeStep
<1>2. ASSUME NEW r \in Task \cup {Prompt}, Handler(r)
      PROVE  Good
  BY <1>2, UpdateGood, AcceptGood, TransferGood, ReopenGood, BreachGood DEF Handler
<1>3. ASSUME NEW r \in Task, Commit(r) \/ WarnSelect(r) \/ WarnSend(r)
      PROVE  Good
  BY <1>3, CommitGood, WarnGood
<1>4. CASE CreateTicket \/ CreateUnrouted \/ DeleteTicket \/ AssignTicket
           \/ ClaimTicketFromQueue \/ RedmineSync \/ Tick \/ Restart
  BY <1>4, CreateGood, DeleteGood, AssignGood, ClaimGood, RedmineGood, TickGood, RestartGood
<1> QED
  BY <1>1, <1>2, <1>3, <1>4 DEF Next

LEMMA Invariance == Spec => []IInv
<1>1. IInv /\ [Next]_vars => IInv'
  BY StepGood DEF Good
<1> QED
  BY <1>1, InitIInv, PTL DEF Spec

\* Whatever tasks overlap, the row, what tasks have read and the counts stay
\* within their types; a ticket is led past no level.
THEOREM TicketTypes == Spec => []TicketTypeOK
<1>1. IInv => TicketTypeOK
  BY DEF IInv, RowOK, TasksOK, MailsOK, TaskType, Ops, TicketTypeOK
<1> QED
  BY <1>1, Invariance, PTL

\* resolved_at and closed_at agree with the status through every handler, as
\* long as nobody has written over a row unseen.
THEOREM StampsFollowStatus == Spec => []StampsAgree
<1>1. IInv => StampsAgree
  BY DEF IInv
<1> QED
  BY <1>1, Invariance, PTL

\* However many tasks and warning runs overlap, one mail per deadline.
THEOREM WarnedOncePerDeadline == Spec => []WarnedOnce
<1>1. IInv => WarnedOnce
  BY DEF IInv, MailsOK, WarnedOnce
<1> QED
  BY <1>1, Invariance, PTL

\* A date set by a person is given up to a stale acceptance only.
THEOREM ManualDueIsKept == Spec => ManualDueKept
<1>1. IInv /\ [Next]_vars => [ManualStep]_vars
  BY StepGood DEF Good
<1>2. [ManualStep]_vars => [row.manual /\ Exists' /\ ~ row'.manual
         => \E r \in Task : task[r].op = "accept" /\ task[r].stale]_vars
  BY DEF ManualStep
<1> QED
  BY <1>1, <1>2, Invariance, PTL DEF Spec, ManualDueKept

\* Tickets implements TicketLifecycle: the status of a ticket moves along the
\* table of transitions through every handler, job and overlap.
THEOREM FollowsTable == Spec => TableKept
<1>1. Init => Lifecycle!Init
  BY DEF Init, NoRow, Lifecycle!Init
<1>2. IInv /\ [Next]_vars => [Lifecycle!Next]_<<row.status, forced>>
  BY StepGood DEF Good, LifeStep
<1> QED
  BY <1>1, <1>2, Invariance, PTL DEF Spec, TableKept, Lifecycle!Spec
=============================================================================

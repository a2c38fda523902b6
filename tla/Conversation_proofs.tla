------------------------ MODULE Conversation_proofs ------------------------
(***************************************************************************)
(* Theorems about Conversation, for every set of messages, whichever of    *)
(* them are goodbyes, and every bound.                                     *)
(***************************************************************************)
EXTENDS Conversation, FiniteSetTheorems, WellFoundedInduction, TLAPS

-----------------------------------------------------------------------------
(* The inductive invariant.                                                *)

\* Conversations are numbered as they are created.
Numbered == Used = 1..Cardinality(Used)

\* Nobody holds, thinks about or has asked for a conversation not yet created.
Fresh ==
    \A v \in Protocol \ Used :
        /\ row[v] = NoRow /\ asks[v] = 0 /\ surveys[v] = 0 /\ losses[v] = 0
        /\ v \notin (survey \cup thinking \cup hook.expired)
        /\ v # hook.v /\ v # away /\ v # old

\* A transaction has read the row it names, and the rows it has found expired
\* are locked: they stay so, and no survey holds them.
Reading ==
    /\ hook.msg = NoMsg => hook = NoHook
    /\ hook.v = 0 => hook.saw = NoRow
    /\ \A v \in hook.expired : WaitOver(row[v]) /\ v \notin survey

\* Each text of the survey was asked for by a request; while one is under way
\* the row has no survey, and every earlier text was lost.
Polled(v) ==
    /\ asks[v] + surveys[v] <= moves
    /\ v \in survey => row[v].stage = "none" /\ surveys[v] = losses[v] + 1
    /\ v \notin survey /\ row[v].stage = "none" => surveys[v] = losses[v]
    /\ losses[v] <= surveys[v] /\ surveys[v] <= losses[v] + 1

Polls == \A v \in Protocol : Polled(v)

\* The message a conversation was opened for is stored somewhere.
Opened == \A v \in Protocol : row[v].opener # NoMsg => stored[row[v].opener] # 0

\* A closing for inactivity comes two intervals after the last message, its
\* warning one; a turn of the AI agent is over before either.
Watching(v) ==
    Alive(row[v]) /\ v \notin excused /\ <<v, "restart">> \notin after =>
        /\ jobs[v] # NoJobs \/ (active.v = v /\ active.go)
        /\ jobs[v].warning = "due" \/ jobs[v].close = "delayed" => idle[v] >= 1
        /\ jobs[v].close = "due" => idle[v] >= 2
        /\ UnderWay(v) => idle[v] >= 1
        /\ v \in thinking => /\ jobs[v].warning # "due" /\ jobs[v].close = "no"
                             /\ ~ UnderWay(v)

InTime == \A v \in Protocol : Watching(v)

\* The types, variable by variable.
RowsTyped ==
    /\ row \in [Protocol -> RowType]
    /\ \A v \in Protocol : row[v].stage = "done" => row[v].csat = "no"
HookTyped ==
    hook \in [msg : Msg \cup {NoMsg}, v : 0..MaxConv, saw : RowType, expired : SUBSET Protocol]
MessagesTyped == stored \in [Msg -> 0..MaxConv] /\ inbox \in 0..MaxDeliveries
PollsTyped ==
    /\ survey \subseteq Protocol /\ moves \in 0..MaxMoves
    /\ asks \in [Protocol -> 0..MaxMoves] /\ surveys \in [Protocol -> 0..MaxMoves]
    /\ losses \in [Protocol -> 0..MaxMoves]
ClockTyped ==
    /\ after \subseteq Protocol \X {"cancel", "restart"}
    /\ thinking \subseteq Protocol /\ excused \subseteq Protocol
    /\ away \in 0..MaxConv /\ old \in 0..MaxConv
    /\ jobs \in [Protocol -> [{"warning", "close"} -> {"no", "delayed", "due"}]]
    /\ active \in [v : 0..MaxConv, type : {"warning", "close"}, go : BOOLEAN]
    /\ idle \in [Protocol -> 0..2]

IInv ==
    /\ RowsTyped /\ HookTyped /\ MessagesTyped /\ PollsTyped /\ ClockTyped
    /\ Numbered /\ Fresh /\ Reading /\ Polls /\ Opened /\ OpenedOnce /\ InTime

LEMMA InitIInv == Init => IInv
<1> SUFFICES ASSUME Init PROVE IInv
  OBVIOUS
<1>0. /\ NoRow \in RowType /\ NoRow.status = "none" /\ NoRow.stage = "none"
      /\ NoRow.opener = NoMsg
  BY DEF NoRow, RowType, Deadline
<1>1. RowsTyped
  BY <1>0 DEF Init, RowsTyped
<1>2. HookTyped
  BY <1>0, ConversationAssumption DEF Init, HookTyped, NoHook
<1>3. MessagesTyped /\ PollsTyped
  BY ConversationAssumption DEF Init, MessagesTyped, PollsTyped
<1>4. ClockTyped
  BY ConversationAssumption DEF Init, ClockTyped, NoJobs, Idle
<1>5. Used = {}
  BY <1>0 DEF Init, Used
<1>6. Numbered
  <2>1. Cardinality({}) = 0
    BY FS_EmptySet
  <2> QED
    BY <1>5, <2>1 DEF Numbered
<1>7. Fresh /\ Reading
  BY <1>5 DEF Init, Fresh, Reading, NoHook, Protocol
<1>8. Polls
  BY <1>0, ConversationAssumption DEF Init, Polls, Polled
<1>9. Opened /\ OpenedOnce /\ InTime
  BY <1>0 DEF Init, Opened, OpenedOnce, InTime, Watching, Alive
<1> QED
  BY <1>1, <1>2, <1>3, <1>4, <1>6, <1>7, <1>8, <1>9 DEF IInv

-----------------------------------------------------------------------------
(* Rows.                                                                   *)

\* What a statement may make of a row x.
Wrote(x, y) ==
    /\ y \in RowType
    /\ x.status = "none" => y = x
    /\ x.status # "none" => y.status # "none"
    /\ y.opener = x.opener
    /\ y.stage = "none" => x.stage = "none"
    /\ y.stage = "done" => y.csat = "no"
    /\ x.status = "closed" /\ x.by = "agent" => y.by = "agent"

LEMMA SameRow ==
    ASSUME RowsTyped, NEW v \in Protocol
    PROVE  row[v] \in RowType /\ Wrote(row[v], row[v])
  BY DEF RowsTyped, Wrote

LEMMA StatusWritten ==
    ASSUME NEW x \in RowType, x.stage = "done" => x.csat = "no", x.status # "none",
           NEW s \in {"open", "waiting", "closed"}, NEW w \in Deadline, NEW o \in BOOLEAN
    PROVE  Wrote(x, [x EXCEPT !.status = s, !.wait = w, !.owner = o])
  BY DEF RowType, Wrote

LEMMA ClosedBySystemRow ==
    ASSUME NEW x \in RowType, x.stage = "done" => x.csat = "no", Alive(x)
    PROVE  /\ Wrote(x, ClosedBySystem(x)) /\ ClosedBySystem(x).status = "closed"
           /\ ClosedBySystem(x).stage = x.stage
           /\ Wrote(x, [ClosedBySystem(x) EXCEPT !.wait = "no"])
           /\ [ClosedBySystem(x) EXCEPT !.wait = "no"].status = "closed"
           /\ [ClosedBySystem(x) EXCEPT !.wait = "no"].stage = x.stage
  BY DEF RowType, Wrote, Alive, ClosedBySystem, Deadline

LEMMA FinishedRow ==
    ASSUME NEW x \in RowType, x.stage = "done" => x.csat = "no", x.status # "none"
    PROVE  /\ Finished(x) \in RowType /\ Wrote(x, Finished(x))
           /\ Finished(x).status = "closed" /\ Finished(x).stage = x.stage
  BY DEF RowType, Wrote, Finished

LEMMA SurveyOverRow ==
    ASSUME NEW x \in RowType, x.stage = "done" => x.csat = "no", x.status # "none"
    PROVE  Wrote(x, SurveyOver(x)) /\ SurveyOver(x).status = "closed"
<1>1. Finished(x) \in RowType /\ Wrote(x, Finished(x)) /\ Finished(x).status = "closed"
  BY FinishedRow
<1> DEFINE f == Finished(x)
<1>2. /\ f \in RowType /\ Wrote(x, f) /\ f.status = "closed"
      /\ SurveyOver(x) = [f EXCEPT !.stage = "done", !.csat = "no"]
  BY <1>1 DEF SurveyOver
<1> HIDE DEF f
<1> QED
  BY <1>2 DEF RowType, Wrote, Deadline

\* What an agent said when closing a conversation stays.
Classified ==
    \A v \in Protocol : row[v].status = "closed" /\ row[v].by = "agent" => row'[v].by = "agent"

\* A step that creates no row rewrites rows.
Rewritten ==
    row' \in [Protocol -> RowType] /\ \A v \in Protocol : Wrote(row[v], row'[v])

LEMMA SameRows == RowsTyped /\ UNCHANGED row => Rewritten
  BY DEF RowsTyped, Rewritten, Wrote

LEMMA OneRow ==
    ASSUME RowsTyped, NEW v \in Protocol, NEW y, Wrote(row[v], y), row' = [row EXCEPT ![v] = y]
    PROVE  /\ Rewritten /\ row'[v] = y
           /\ \A w \in Protocol : w # v => row'[w] = row[w]
<1>1. y \in RowType /\ row \in [Protocol -> RowType]
  BY DEF Wrote, RowsTyped
<1>2. /\ row' \in [Protocol -> RowType] /\ row'[v] = y
      /\ \A w \in Protocol : w # v => row'[w] = row[w]
  BY <1>1
<1> QED
  BY <1>2, SameRow DEF Rewritten

LEMMA RowsHold ==
    ASSUME RowsTyped, MessagesTyped, Numbered, Opened, OpenedOnce, Rewritten,
           \A m \in Msg : stored[m] # 0 => stored'[m] # 0
    PROVE  RowsTyped' /\ Used' = Used /\ Numbered' /\ Opened' /\ OpenedOnce'
<1>1. \A v \in Protocol : row'[v].status = "none" <=> row[v].status = "none"
  BY DEF Rewritten, Wrote
<1>2. Used' = Used
  BY <1>1 DEF Used
<1>3. RowsTyped' /\ Numbered'
  BY <1>2 DEF Rewritten, Wrote, RowsTyped, Numbered
<1>4. \A v \in Protocol : row'[v].opener = row[v].opener /\ row[v].opener \in Msg \cup {NoMsg}
  BY DEF Rewritten, Wrote, RowsTyped, RowType
<1>5. Opened'
  BY <1>4 DEF Opened
<1>6. OpenedOnce'
  BY <1>4 DEF OpenedOnce
<1> QED
  BY <1>2, <1>3, <1>5, <1>6

\* What is left to show of a step that begins no transaction, no survey and
\* no conversation.
LEMMA Frame ==
    ASSUME IInv, Rewritten,
           \A v \in survey : row'[v].stage = row[v].stage,
           hook' = NoHook \/ (hook' = hook /\ \A v \in hook.expired : row'[v] = row[v]),
           stored' \in [Msg -> 0..MaxConv], \A m \in Msg : stored[m] # 0 => stored'[m] # 0,
           inbox' \in 0..MaxDeliveries,
           moves' \in 0..MaxMoves, UNCHANGED <<survey, surveys, losses>>,
           asks' \in [Protocol -> 0..MaxMoves], \A v \in Protocol \ Used : asks'[v] = 0,
           \A v \in Protocol : asks'[v] + moves <= asks[v] + moves',
           thinking' \subseteq Used,
           away' \in Used \cup {0, away}, old' \in Used \cup {0, old},
           ClockTyped', InTime'
    PROVE  IInv' /\ Classified
<1>1. RowsTyped' /\ Used' = Used /\ Numbered' /\ Opened' /\ OpenedOnce'
  BY RowsHold DEF IInv
<1>2. HookTyped'
  <2>1. NoRow \in RowType
    BY DEF NoRow, RowType, Deadline
  <2> QED
    BY <2>1, ConversationAssumption DEF IInv, HookTyped, NoHook
<1>3. MessagesTyped' /\ PollsTyped'
  BY DEF IInv, MessagesTyped, PollsTyped
<1>4. Fresh'
  <2> SUFFICES ASSUME NEW v \in Protocol \ Used
               PROVE  /\ row'[v] = NoRow /\ asks'[v] = 0 /\ surveys'[v] = 0 /\ losses'[v] = 0
                      /\ v \notin (survey' \cup thinking' \cup hook'.expired)
                      /\ v # hook'.v /\ v # away' /\ v # old'
    BY <1>1 DEF Fresh
  <2>1. /\ row[v] = NoRow /\ asks[v] = 0 /\ surveys[v] = 0 /\ losses[v] = 0
        /\ v \notin (survey \cup thinking \cup hook.expired)
        /\ v # hook.v /\ v # away /\ v # old
    BY DEF IInv, Fresh
  <2>2. row'[v] = NoRow
    BY <2>1 DEF Rewritten, Wrote, NoRow
  <2>3. v \notin hook'.expired /\ v # hook'.v /\ v # 0
    BY <2>1 DEF NoHook, Protocol
  <2> QED
    BY <2>1, <2>2, <2>3
<1>5. Reading'
  BY DEF IInv, Reading, NoHook, WaitOver
<1>6. Polls'
  <2> SUFFICES ASSUME NEW v \in Protocol PROVE Polled(v)'
    BY DEF Polls
  <2>1. Polled(v) /\ asks'[v] + moves <= asks[v] + moves'
    BY DEF IInv, Polls
  <2>2. /\ asks[v] \in Nat /\ surveys[v] \in Nat /\ losses[v] \in Nat /\ moves \in Nat
        /\ asks'[v] \in Nat /\ moves' \in Nat
    BY ConversationAssumption DEF IInv, PollsTyped
  <2>3. /\ row'[v].stage = "none" => row[v].stage = "none"
        /\ v \in survey => row'[v].stage = row[v].stage
    BY DEF Rewritten, Wrote
  <2>4. asks'[v] + surveys'[v] <= moves'
    BY <2>1, <2>2 DEF Polled
  <2> QED
    BY <2>1, <2>2, <2>3, <2>4 DEF Polled
<1>7. Classified
  BY DEF Rewritten, Wrote, Classified
<1> QED
  BY <1>1, <1>2, <1>3, <1>4, <1>5, <1>6, <1>7 DEF IInv

-----------------------------------------------------------------------------
(* The watch.                                                              *)

\* A step after which each row is excused, about to be watched again, not
\* alive, or as well watched as before.
LEMMA StillInTime ==
    ASSUME InTime, UNCHANGED active,
           \A v \in Protocol :
              \/ v \in excused' \/ <<v, "restart">> \in after' \/ ~ Alive(row'[v])
              \/ /\ Alive(row[v]) /\ v \notin excused /\ <<v, "restart">> \notin after
                 /\ idle'[v] = idle[v] /\ jobs'[v] = jobs[v]
                 /\ v \in thinking' => v \in thinking
    PROVE  InTime'
  BY DEF InTime, Watching, UnderWay

LEMMA Undisturbed ==
    ASSUME InTime, UNCHANGED <<jobs, active, idle>>, excused \subseteq excused',
           after \subseteq after', thinking' \subseteq thinking,
           \A v \in Protocol : Alive(row'[v]) => Alive(row[v]) \/ v \in excused'
                                                 \/ <<v, "restart">> \in after'
    PROVE  InTime'
<1>1. \A v \in Protocol : \/ v \in excused' \/ <<v, "restart">> \in after' \/ ~ Alive(row'[v])
              \/ /\ Alive(row[v]) /\ v \notin excused /\ <<v, "restart">> \notin after
                 /\ idle'[v] = idle[v] /\ jobs'[v] = jobs[v]
                 /\ v \in thinking' => v \in thinking
  OBVIOUS
<1> QED
  BY <1>1, StillInTime
\* The same, for the rest of the invariant: a step of somebody who touches no
\* clock and brings no row back to life.
LEMMA Aside ==
    ASSUME IInv, Rewritten,
           \A v \in Protocol : Alive(row'[v]) => Alive(row[v]),
           \A v \in survey : row'[v].stage = row[v].stage,
           hook' = NoHook \/ (hook' = hook /\ \A v \in hook.expired : row'[v] = row[v]),
           inbox' \in 0..MaxDeliveries, moves' = moves,
           UNCHANGED <<stored, thinking, clock, polls>>,
           away' \in Used \cup {0, away}, old' \in Used \cup {0, old}
    PROVE  IInv' /\ Classified
<1>1. UNCHANGED <<after, jobs, active, idle, excused, asks, survey, surveys, losses>>
  BY DEF clock, polls
<1>2. InTime'
  BY <1>1, Undisturbed DEF IInv
<1>3. away' \in 0..MaxConv /\ old' \in 0..MaxConv
  BY ConversationAssumption DEF Used, Protocol, IInv, ClockTyped
<1>4. ClockTyped'
  BY <1>1, <1>3 DEF IInv, ClockTyped
<1>5. thinking' \subseteq Used
  BY DEF IInv, Fresh, ClockTyped
<1>6. /\ asks' \in [Protocol -> 0..MaxMoves] /\ \A v \in Protocol \ Used : asks'[v] = 0
      /\ \A v \in Protocol : asks'[v] + moves <= asks[v] + moves'
  <2>1. \A v \in Protocol : asks[v] \in Nat /\ moves \in Nat
    BY DEF IInv, PollsTyped
  <2> QED
    BY <1>1, <2>1 DEF IInv, Fresh, PollsTyped
<1>7. stored' \in [Msg -> 0..MaxConv] /\ moves' \in 0..MaxMoves
  BY DEF IInv, MessagesTyped, PollsTyped
<1> QED
  BY <1>1, <1>2, <1>4, <1>5, <1>6, <1>7, Frame

LEMMA UsedKnown ==
    ASSUME IInv, NEW v \in Protocol, row[v].status # "none" \/ Alive(row[v]) \/ v \in thinking
                                     \/ v \in survey \/ v = hook.v \/ v = away \/ v = old
                                     \/ v \in hook.expired \/ asks[v] > 0
    PROVE  v \in Used
  BY DEF IInv, Fresh, Used, Alive

\* The rows found expired, closed; the others as they are.
LEMMA SeenRows ==
    ASSUME IInv
    PROVE  /\ Seen(hook.expired) \in [Protocol -> RowType]
           /\ \A v \in Protocol :
                 /\ Wrote(row[v], Seen(hook.expired)[v])
                 /\ Seen(hook.expired)[v].stage = row[v].stage
                 /\ Alive(Seen(hook.expired)[v]) => Alive(row[v])
                 /\ row[v].status # "none" => Seen(hook.expired)[v].status # "none"
                 /\ Seen(hook.expired)[v].stage = "done" => Seen(hook.expired)[v].csat = "no"
                 /\ v \notin hook.expired \/ row[v].status = "closed" =>
                      Seen(hook.expired)[v] = row[v]
           /\ hook.expired \cap survey = {}
<1>1. ASSUME NEW v \in hook.expired
      PROVE  v \in Protocol /\ Wrote(row[v], ClosedBySystem(row[v]))
             /\ ClosedBySystem(row[v]).stage = row[v].stage
             /\ ClosedBySystem(row[v]).status = "closed" /\ row[v].status # "closed"
  <2>1. v \in Protocol /\ WaitOver(row[v])
    BY DEF IInv, Reading, HookTyped
  <2>2. row[v] \in RowType /\ (row[v].stage = "done" => row[v].csat = "no") /\ Alive(row[v])
    BY <2>1 DEF IInv, RowsTyped, WaitOver, Alive
  <2>3. row[v].status # "closed"
    BY <2>1 DEF WaitOver
  <2> QED
    BY <2>1, <2>2, <2>3, ClosedBySystemRow
<1>2. \A v \in Protocol : row[v] \in RowType /\ Wrote(row[v], row[v])
                          /\ (row[v].stage = "done" => row[v].csat = "no")
  BY SameRow DEF IInv, RowsTyped
<1>3. \A v \in Protocol : Seen(hook.expired)[v]
                            = IF v \in hook.expired THEN ClosedBySystem(row[v]) ELSE row[v]
  BY DEF Seen
<1>4. ASSUME NEW v \in Protocol
      PROVE  /\ Wrote(row[v], Seen(hook.expired)[v])
             /\ Seen(hook.expired)[v].stage = row[v].stage
             /\ Alive(Seen(hook.expired)[v]) => Alive(row[v])
             /\ v \notin hook.expired \/ row[v].status = "closed" =>
                  Seen(hook.expired)[v] = row[v]
  BY <1>1, <1>2, <1>3 DEF Alive
<1>5. Seen(hook.expired) \in [Protocol -> RowType]
  BY <1>4 DEF Seen, Wrote
<1>6. hook.expired \cap survey = {}
  BY DEF IInv, Reading
<1> QED
  BY <1>4, <1>5, <1>6 DEF Wrote

\* The end of a transaction that writes row v besides.
LEMMA SeenAnd ==
    ASSUME IInv, NEW v \in Protocol, NEW y, Wrote(Seen(hook.expired)[v], y),
           row' = [Seen(hook.expired) EXCEPT ![v] = y], v \notin survey
    PROVE  /\ Rewritten /\ row'[v] = y
           /\ \A w \in Protocol : w # v => row'[w] = Seen(hook.expired)[w]
           /\ \A w \in Protocol : Alive(row'[w]) => Alive(row[w]) \/ w = v
           /\ \A w \in survey : row'[w].stage = row[w].stage
<1>1. /\ row' \in [Protocol -> RowType] /\ row'[v] = y
      /\ \A w \in Protocol : w # v => row'[w] = Seen(hook.expired)[w]
  <2>1. y \in RowType
    BY DEF Wrote
  <2> QED
    BY <2>1, SeenRows
<1>2. Wrote(row[v], y)
  BY SeenRows DEF Wrote
<1>3. survey \subseteq Protocol
  BY DEF IInv, PollsTyped
<1> QED
  BY <1>1, <1>2, <1>3, SeenRows DEF Rewritten

LEMMA DuplicateKeeps == ASSUME IInv, Duplicate PROVE IInv' /\ Classified
<1>1. row' = Seen(hook.expired) /\ hook' = NoHook
  BY DEF Duplicate
<1>2. Rewritten /\ \A v \in Protocol : Alive(row'[v]) => Alive(row[v])
  BY <1>1, SeenRows DEF Rewritten
<1>3. \A v \in survey : row'[v].stage = row[v].stage
  BY <1>1, SeenRows DEF IInv, PollsTyped
<1>4. inbox' \in 0..MaxDeliveries
  BY DEF Duplicate, IInv, MessagesTyped
<1> QED
  BY <1>1, <1>2, <1>3, <1>4, Aside DEF Duplicate

LEMMA RollbackKeeps == ASSUME IInv, Rollback PROVE IInv' /\ Classified
<1>1. Rewritten
  BY SameRows DEF Rollback, IInv
<1>2. inbox' \in 0..MaxDeliveries
  BY DEF Rollback, IInv, MessagesTyped
<1> QED
  BY <1>1, <1>2, Aside DEF Rollback
LEMMA HookRow ==
    ASSUME IInv
    PROVE  /\ hook.saw.status \in {"open", "waiting"} \/ Surveying(hook.saw) => hook.v # 0
           /\ hook.v # 0 => /\ hook.v \in Protocol /\ hook.v \in Used
                            /\ Seen(hook.expired)[hook.v] \in RowType
                            /\ Seen(hook.expired)[hook.v].status # "none"
<1>1. hook.saw.status \in {"open", "waiting"} \/ Surveying(hook.saw) => hook.v # 0
  BY DEF IInv, Reading, NoRow, Surveying
<1>2. ASSUME hook.v # 0 PROVE hook.v \in Protocol
  BY <1>2, ConversationAssumption DEF IInv, HookTyped, Protocol
<1>3. ASSUME hook.v # 0 PROVE hook.v \in Used /\ row[hook.v].status # "none"
  BY <1>2, <1>3, UsedKnown DEF Used
<1> QED
  BY <1>1, <1>2, <1>3, SeenRows

LEMMA CloseByKeywordKeeps == ASSUME IInv, CloseByKeyword PROVE IInv' /\ Classified
<1>1. /\ hook.v \in Protocol /\ Seen(hook.expired)[hook.v] \in RowType
      /\ Seen(hook.expired)[hook.v].status # "none" /\ hook.v \notin survey
  BY HookRow DEF CloseByKeyword, Handling
<1> DEFINE x == Seen(hook.expired)[hook.v]
           y == Finished(x)
<1>2. Wrote(x, y) /\ y.status = "closed"
  BY <1>1, SeenRows, FinishedRow
<1>3. row' = [Seen(hook.expired) EXCEPT ![hook.v] = y]
  BY DEF CloseByKeyword
<1> HIDE DEF y
<1>4. /\ Rewritten /\ row'[hook.v] = y
      /\ \A w \in Protocol : Alive(row'[w]) => Alive(row[w]) \/ w = hook.v
      /\ \A w \in survey : row'[w].stage = row[w].stage
  BY <1>1, <1>2, <1>3, SeenAnd
<1>5. /\ hook' = NoHook /\ after' = after \cup {<<hook.v, "cancel">>}
      /\ UNCHANGED <<stored, inbox, thinking, away, old, moves, jobs, active, idle, excused,
                     asks, survey, surveys, losses>>
  BY DEF CloseByKeyword, polls
<1>6. InTime'
  BY <1>1, <1>2, <1>4, <1>5, Undisturbed DEF IInv, Alive
<1>7. ClockTyped'
  BY <1>1, <1>5 DEF IInv, ClockTyped
<1>8. thinking' \subseteq Used
  BY <1>5 DEF IInv, Fresh, ClockTyped
<1>9. /\ asks' \in [Protocol -> 0..MaxMoves] /\ \A v \in Protocol \ Used : asks'[v] = 0
      /\ \A v \in Protocol : asks'[v] + moves <= asks[v] + moves'
      /\ moves' \in 0..MaxMoves
  BY <1>5 DEF IInv, Fresh, PollsTyped
<1>10. stored' \in [Msg -> 0..MaxConv] /\ inbox' \in 0..MaxDeliveries
  BY <1>5 DEF IInv, MessagesTyped
<1> QED
  BY <1>4, <1>5, <1>6, <1>7, <1>8, <1>9, <1>10, Frame

\* What storing the message in a conversation does to everything but the rows.
LEMMA Stored ==
    ASSUME IInv, Handling, NEW v \in Protocol, Store(v), thinking' \subseteq thinking \cup {v},
           \A w \in Protocol : Alive(row'[w]) => Alive(row[w]) \/ w = v
    PROVE  /\ stored' \in [Msg -> 0..MaxConv] /\ inbox' \in 0..MaxDeliveries
           /\ \A m \in Msg : stored[m] # 0 => stored'[m] # 0
           /\ hook.msg \in Msg /\ stored[hook.msg] = 0 /\ stored'[hook.msg] # 0
           /\ hook' = NoHook /\ UNCHANGED <<away, old, moves, asks, survey, surveys, losses>>
           /\ ClockTyped' /\ InTime'
<1>1. /\ stored' = [stored EXCEPT ![hook.msg] = v] /\ idle' = [idle EXCEPT ![v] = 0]
      /\ after' = after \cup {<<v, "restart">>} /\ hook' = NoHook
      /\ UNCHANGED <<inbox, away, old, moves, jobs, active, excused, asks, survey, surveys,
                     losses>>
  BY DEF Store, polls
<1>2. hook.msg \in Msg /\ stored[hook.msg] = 0
  BY DEF Handling, IsDuplicate, IInv, HookTyped
<1>3. v \in 1..MaxConv /\ stored \in [Msg -> 0..MaxConv] /\ inbox \in 0..MaxDeliveries
  BY DEF Protocol, IInv, MessagesTyped
<1>4. /\ stored' \in [Msg -> 0..MaxConv] /\ stored'[hook.msg] # 0
      /\ \A m \in Msg : stored[m] # 0 => stored'[m] # 0
  BY <1>1, <1>2, <1>3, ConversationAssumption
<1>5. ClockTyped'
  BY <1>1 DEF IInv, ClockTyped
<1>6. \A w \in Protocol : w # v => idle'[w] = idle[w]
  BY <1>1 DEF IInv, ClockTyped
<1>7. InTime'
  <2>1. \A w \in Protocol :
           \/ w \in excused' \/ <<w, "restart">> \in after' \/ ~ Alive(row'[w])
           \/ /\ Alive(row[w]) /\ w \notin excused /\ <<w, "restart">> \notin after
              /\ idle'[w] = idle[w] /\ jobs'[w] = jobs[w]
              /\ w \in thinking' => w \in thinking
    BY <1>1, <1>6
  <2> QED
    BY <1>1, <2>1, StillInTime DEF IInv
<1> QED
  BY <1>1, <1>2, <1>3, <1>4, <1>5, <1>7

\* The message is stored in a conversation there is.
LEMMA StoreKeeps ==
    ASSUME IInv, Handling, NEW v \in Protocol, row[v].status # "none", Store(v),
           thinking' \subseteq thinking \cup {v}, Rewritten,
           \A w \in Protocol : Alive(row'[w]) => Alive(row[w]) \/ w = v,
           \A w \in survey : row'[w].stage = row[w].stage
    PROVE  IInv' /\ Classified
<1>1. v \in Used
  BY UsedKnown
<1>2. thinking' \subseteq Used
  BY <1>1 DEF IInv, Fresh, ClockTyped
<1>3. /\ stored' \in [Msg -> 0..MaxConv] /\ inbox' \in 0..MaxDeliveries
      /\ \A m \in Msg : stored[m] # 0 => stored'[m] # 0
      /\ hook' = NoHook /\ UNCHANGED <<away, old, moves, asks, survey, surveys, losses>>
      /\ ClockTyped' /\ InTime'
  BY Stored
<1>4. /\ asks' \in [Protocol -> 0..MaxMoves] /\ \A w \in Protocol \ Used : asks'[w] = 0
      /\ \A w \in Protocol : asks'[w] + moves <= asks[w] + moves'
      /\ moves' \in 0..MaxMoves
  BY <1>3 DEF IInv, Fresh, PollsTyped
<1> QED
  BY <1>2, <1>3, <1>4, Frame

LEMMA AnswerSurveyKeeps == ASSUME IInv, AnswerSurvey PROVE IInv' /\ Classified
<1>1. Handling /\ Surveying(hook.saw)
  BY DEF AnswerSurvey
<1>2. /\ hook.v \in Protocol /\ Seen(hook.expired)[hook.v] \in RowType
      /\ Seen(hook.expired)[hook.v].status # "none" /\ hook.v \notin survey
      /\ row[hook.v].status # "none"
  BY <1>1, HookRow DEF Handling, Used
<1> DEFINE x == Seen(hook.expired)[hook.v]
<1>3. PICK y \in Answered(x) \cup {x} : row' = [Seen(hook.expired) EXCEPT ![hook.v] = y]
  BY DEF AnswerSurvey
<1>4. x.stage = "done" => x.csat = "no"
  BY <1>2, SeenRows
<1>5. Wrote(x, y)
  <2>1. y = x \/ y = [x EXCEPT !.stage = "comment"] \/ y = SurveyOver(x)
    BY <1>3 DEF Answered
  <2>2. Wrote(x, x) /\ Wrote(x, [x EXCEPT !.stage = "comment"])
    BY <1>2, <1>4 DEF Wrote, RowType
  <2>3. Wrote(x, SurveyOver(x))
    BY <1>2, <1>4, SurveyOverRow
  <2> QED
    BY <2>1, <2>2, <2>3
<1> HIDE DEF x
<1>6. /\ Rewritten /\ \A w \in Protocol : Alive(row'[w]) => Alive(row[w]) \/ w = hook.v
      /\ \A w \in survey : row'[w].stage = row[w].stage
  BY <1>2, <1>3, <1>5, SeenAnd DEF x
<1>7. Store(hook.v) /\ thinking' \subseteq thinking \cup {hook.v}
  BY DEF AnswerSurvey
<1> QED
  BY <1>1, <1>2, <1>6, <1>7, StoreKeeps

LEMMA WaitingReturnKeeps == ASSUME IInv, WaitingReturn PROVE IInv' /\ Classified
<1>1. Handling /\ hook.saw.status = "waiting"
  BY DEF WaitingReturn
<1>2. /\ hook.v \in Protocol /\ Seen(hook.expired)[hook.v] \in RowType
      /\ Seen(hook.expired)[hook.v].status # "none" /\ hook.v \notin survey
      /\ row[hook.v].status # "none"
  BY <1>1, HookRow DEF Handling, Used
<1> DEFINE x == Seen(hook.expired)[hook.v]
<1>3. PICK owner \in BOOLEAN :
         row' = [Seen(hook.expired) EXCEPT ![hook.v].status = "open", ![hook.v].wait = "no",
                                           ![hook.v].owner = owner]
  BY DEF WaitingReturn
<1> DEFINE y == [x EXCEPT !.status = "open", !.wait = "no", !.owner = owner]
<1>4. row' = [Seen(hook.expired) EXCEPT ![hook.v] = y]
  BY <1>2, <1>3, SeenRows
<1>5. Wrote(x, y)
  BY <1>2, SeenRows, StatusWritten DEF Deadline
<1> HIDE DEF x, y
<1>6. /\ Rewritten /\ \A w \in Protocol : Alive(row'[w]) => Alive(row[w]) \/ w = hook.v
      /\ \A w \in survey : row'[w].stage = row[w].stage
  BY <1>2, <1>4, <1>5, SeenAnd DEF x
<1>7. Store(hook.v) /\ thinking' \subseteq thinking \cup {hook.v}
  BY DEF WaitingReturn
<1> QED
  BY <1>1, <1>2, <1>6, <1>7, StoreKeeps

LEMMA TalkKeeps == ASSUME IInv, Talk PROVE IInv' /\ Classified
<1>1. Handling /\ hook.saw.status = "open" /\ Store(hook.v)
  BY DEF Talk
<1>2. /\ hook.v \in Protocol /\ Seen(hook.expired)[hook.v] \in RowType
      /\ Seen(hook.expired)[hook.v].status # "none" /\ hook.v \notin survey
      /\ row[hook.v].status # "none"
  BY <1>1, HookRow DEF Handling, Used
<1> DEFINE x == Seen(hook.expired)[hook.v]
           y == [x EXCEPT !.status = "open"]
<1>3. Wrote(x, y)
  BY <1>2, SeenRows DEF Wrote, RowType
<1>4. thinking' \subseteq thinking \cup {hook.v}
  BY DEF Talk, MayThink
<1>5. \/ row' = Seen(hook.expired)
      \/ row' = [Seen(hook.expired) EXCEPT ![hook.v] = y]
  BY <1>2, SeenRows DEF Talk
<1> HIDE DEF x, y
<1>6. /\ Rewritten /\ \A w \in Protocol : Alive(row'[w]) => Alive(row[w]) \/ w = hook.v
      /\ \A w \in survey : row'[w].stage = row[w].stage
  <2>1. CASE row' = Seen(hook.expired)
    BY <2>1, SeenRows DEF Rewritten, IInv, PollsTyped
  <2>2. CASE row' = [Seen(hook.expired) EXCEPT ![hook.v] = y]
    BY <1>2, <1>3, <2>2, SeenAnd DEF x
  <2> QED
    BY <1>5, <2>1, <2>2
<1> QED
  BY <1>1, <1>2, <1>4, <1>6, StoreKeeps
LEMMA NextIsNew ==
    ASSUME IInv
    PROVE  Next_v \notin Used /\ Cardinality(Used) \in Nat
           /\ Used \cup {Next_v} = 1..Cardinality(Used \cup {Next_v})
<1>1. Used = 1..Cardinality(Used) /\ IsFiniteSet(Used)
  <2>1. IsFiniteSet(Protocol)
    BY FS_Interval, ConversationAssumption DEF Protocol
  <2> QED
    BY <2>1, FS_Subset DEF IInv, Numbered, Used
<1>2. Cardinality(Used) \in Nat
  BY <1>1, FS_CardinalityType
<1> DEFINE n == Cardinality(Used)
<1>3. Used = 1..n /\ n \in Nat /\ Next_v = n + 1
  BY <1>1, <1>2 DEF Next_v
<1> HIDE DEF n
<1>4. Used \cup {Next_v} = 1..(n + 1) /\ Next_v \notin Used
  BY <1>3
<1>5. Cardinality(1..(n + 1)) = n + 1
  BY <1>3, FS_Interval
<1> QED
  BY <1>2, <1>4, <1>5

\* What is left to show of a step that creates a conversation.
LEMMA Created ==
    ASSUME IInv, Next_v \in Protocol, NEW y \in RowType,
           y.status # "none", y.stage = "none",
           row' \in [Protocol -> RowType], row'[Next_v] = y,
           \A v \in Protocol : v # Next_v => Wrote(row[v], row'[v]),
           \A v \in survey : row'[v].stage = row[v].stage,
           stored' \in [Msg -> 0..MaxConv], \A m \in Msg : stored[m] # 0 => stored'[m] # 0,
           y.opener # NoMsg => stored[y.opener] = 0 /\ stored'[y.opener] # 0,
           hook' = NoHook \/ (hook' = hook /\ \A v \in hook.expired : row'[v] = row[v]),
           inbox' \in 0..MaxDeliveries,
           moves' \in 0..MaxMoves, moves <= moves', UNCHANGED polls,
           thinking' \subseteq Used \cup {Next_v}, UNCHANGED <<away, old>>,
           ClockTyped', InTime'
    PROVE  IInv' /\ Classified
<1> DEFINE n == Next_v
<1>1. /\ n \in Protocol /\ n \notin Used /\ row[n] = NoRow
      /\ asks[n] = 0 /\ surveys[n] = 0 /\ losses[n] = 0 /\ n \notin survey
  BY NextIsNew DEF IInv, Fresh
<1>2. Used' = Used \cup {n}
  <2>1. \A v \in Protocol : v # n => (row'[v].status = "none" <=> row[v].status = "none")
    BY DEF Wrote
  <2> QED
    BY <1>1, <2>1 DEF Used
<1>3. Numbered'
  BY <1>2, NextIsNew DEF Numbered
<1> HIDE DEF n
<1>4. RowsTyped'
  BY DEF RowsTyped, Wrote, n
<1>5. \A v \in Protocol : v # n => row'[v].opener = row[v].opener
                                   /\ row[v].opener \in Msg \cup {NoMsg}
  BY DEF Wrote, IInv, RowsTyped, RowType, n
<1>6. y.opener \in Msg \cup {NoMsg} /\ row'[n] = y
  BY DEF RowType, n
<1>7. Opened'
  BY <1>5, <1>6 DEF IInv, Opened
<1>8. OpenedOnce'
  <2> SUFFICES ASSUME NEW v \in Protocol, NEW w \in Protocol,
                      row'[v].opener # NoMsg, row'[v].opener = row'[w].opener
               PROVE  v = w
    BY DEF OpenedOnce
  <2>1. CASE v # n /\ w # n
    BY <1>5, <2>1 DEF IInv, OpenedOnce
  <2>2. CASE v = n /\ w # n
    BY <1>5, <1>6, <2>2 DEF IInv, Opened
  <2>3. CASE v # n /\ w = n
    BY <1>5, <1>6, <2>3 DEF IInv, Opened
  <2> QED
    BY <2>1, <2>2, <2>3
<1>9. HookTyped' /\ MessagesTyped' /\ PollsTyped'
  <2>1. NoRow \in RowType
    BY DEF NoRow, RowType, Deadline
  <2> QED
    BY <2>1, ConversationAssumption DEF IInv, HookTyped, NoHook, MessagesTyped, PollsTyped,
       polls
<1>10. Fresh'
  <2> SUFFICES ASSUME NEW v \in Protocol \ Used, v # n
               PROVE  /\ row'[v] = NoRow /\ asks'[v] = 0 /\ surveys'[v] = 0 /\ losses'[v] = 0
                      /\ v \notin (survey' \cup thinking' \cup hook'.expired)
                      /\ v # hook'.v /\ v # away' /\ v # old'
    BY <1>2 DEF Fresh
  <2>1. /\ row[v] = NoRow /\ asks[v] = 0 /\ surveys[v] = 0 /\ losses[v] = 0
        /\ v \notin (survey \cup thinking \cup hook.expired)
        /\ v # hook.v /\ v # away /\ v # old
    BY DEF IInv, Fresh
  <2>2. row'[v] = NoRow
    BY <2>1 DEF Wrote, NoRow, n
  <2>3. v \notin hook'.expired /\ v # hook'.v /\ v # 0
    BY <2>1 DEF NoHook, Protocol
  <2> QED
    BY <2>1, <2>2, <2>3 DEF polls, n
<1>11. Reading'
  BY DEF IInv, Reading, NoHook, WaitOver, polls
<1>12. Polls'
  <2> SUFFICES ASSUME NEW v \in Protocol PROVE Polled(v)'
    BY DEF Polls
  <2>0. /\ asks[v] \in Nat /\ surveys[v] \in Nat /\ losses[v] \in Nat /\ moves \in Nat
        /\ moves' \in Nat /\ UNCHANGED <<asks, surveys, losses, survey>>
    BY DEF IInv, PollsTyped, polls
  <2>1. CASE v = n
    BY <1>1, <1>6, <2>0, <2>1 DEF Polled
  <2>2. CASE v # n
    <3>1. Polled(v)
      BY DEF IInv, Polls
    <3>2. /\ row'[v].stage = "none" => row[v].stage = "none"
          /\ v \in survey => row'[v].stage = row[v].stage
      BY <2>2 DEF Wrote, n
    <3> QED
      BY <2>0, <3>1, <3>2 DEF Polled
  <2> QED
    BY <2>1, <2>2
<1>13. Classified
  BY <1>1 DEF Wrote, NoRow, Classified, n
<1> QED
  BY <1>3, <1>4, <1>7, <1>8, <1>9, <1>10, <1>11, <1>12, <1>13 DEF IInv

LEMMA StartKeeps == ASSUME IInv, Start PROVE IInv' /\ Classified
<1>1. /\ Handling /\ Next_v \in Protocol /\ Store(Next_v) /\ (hook.v = 0 \/ Lapsed)
      /\ \E t \in {{}, {Next_v}} : thinking' = thinking \cup t
      /\ row' = [v \in Protocol |->
                  IF v = Next_v THEN [NoRow EXCEPT !.status = "open", !.opener = hook.msg]
                  ELSE IF v = hook.v THEN SurveyOver(row[v]) ELSE Seen(hook.expired)[v]]
  BY DEF Start, MayThink
<1> DEFINE n == Next_v
           y == [NoRow EXCEPT !.status = "open", !.opener = hook.msg]
<1>2. /\ n \notin Used /\ n \in Protocol /\ n \notin survey /\ hook.msg \in Msg
      /\ thinking' \subseteq thinking \cup {n}
  BY <1>1, NextIsNew DEF IInv, Fresh, Handling, HookTyped
<1>3. y \in RowType /\ y.status = "open" /\ y.stage = "none" /\ y.opener = hook.msg
  BY <1>2 DEF NoRow, RowType, Deadline
<1> HIDE DEF y, n
<1>4. \A v \in Protocol : row'[v] = IF v = n THEN y ELSE IF v = hook.v THEN SurveyOver(row[v])
                                    ELSE Seen(hook.expired)[v]
  BY <1>1 DEF y, n
<1>5. ASSUME NEW v \in Protocol, v # n
      PROVE  /\ Wrote(row[v], row'[v]) /\ (Alive(row'[v]) => Alive(row[v]))
             /\ v \in survey => row'[v].stage = row[v].stage
  <2>1. CASE v = hook.v
    <3>1. /\ row[v] \in RowType /\ (row[v].stage = "done" => row[v].csat = "no")
          /\ row[v].status # "none" /\ v \notin survey
      <4>1. v \in Used /\ v \notin survey
        BY <2>1, <1>1, ConversationAssumption, UsedKnown DEF Handling
      <4> QED
        BY <4>1 DEF Used, IInv, RowsTyped
    <3>2. Wrote(row[v], SurveyOver(row[v])) /\ SurveyOver(row[v]).status = "closed"
      BY <3>1, SurveyOverRow
    <3> QED
      BY <1>4, <1>5, <2>1, <3>1, <3>2 DEF Alive
  <2>2. CASE v # hook.v
    BY <1>4, <1>5, <2>2, SeenRows
  <2> QED
    BY <2>1, <2>2
<1>6. row' \in [Protocol -> RowType] /\ row'[n] = y
  <2>1. \A v \in Protocol : row'[v] \in RowType
    BY <1>2, <1>3, <1>4, <1>5 DEF Wrote
  <2> QED
    BY <1>1, <1>2, <1>4, <2>1
<1>7. /\ stored' \in [Msg -> 0..MaxConv] /\ inbox' \in 0..MaxDeliveries
      /\ \A m \in Msg : stored[m] # 0 => stored'[m] # 0
      /\ stored[hook.msg] = 0 /\ stored'[hook.msg] # 0
      /\ hook' = NoHook /\ UNCHANGED <<away, old, moves, asks, survey, surveys, losses>>
      /\ ClockTyped' /\ InTime'
  <2>1. Store(n) /\ n \in Protocol /\ \A w \in Protocol : Alive(row'[w]) => Alive(row[w]) \/ w = n
    BY <1>1, <1>2, <1>5 DEF n
  <2> QED
    BY <1>1, <1>2, <2>1, Stored
<1>8. thinking' \subseteq Used \cup {n}
  BY <1>2 DEF IInv, Fresh, ClockTyped
<1>9. moves' \in 0..MaxMoves /\ moves <= moves' /\ UNCHANGED polls
  BY <1>7 DEF IInv, PollsTyped, polls
<1>10. \A v \in survey : v \in Protocol /\ v # n
  BY <1>2 DEF IInv, PollsTyped
<1> QED
  BY <1>1, <1>2, <1>3, <1>5, <1>6, <1>7, <1>8, <1>9, <1>10, Created DEF n

LEMMA CreateConversationKeeps ==
    ASSUME IInv, NEW outbound \in BOOLEAN, CreateConversation(outbound)
    PROVE  IInv' /\ Classified
<1> DEFINE n == Next_v
           y == [NoRow EXCEPT !.status = IF outbound THEN "waiting" ELSE "open", !.owner = TRUE,
                              !.outbound = outbound, !.wait = IF outbound THEN "ahead" ELSE "no"]
<1>1. /\ n \in Protocol /\ row' = [row EXCEPT ![n] = y] /\ excused' = excused \cup {n}
      /\ moves < MaxMoves /\ moves' = moves + 1
      /\ UNCHANGED <<stored, inbox, hook, after, thinking, away, jobs, active, idle, old, polls>>
  BY DEF CreateConversation, Moved
<1>2. n \notin Used /\ n \notin survey /\ n \notin hook.expired /\ survey \subseteq Protocol
      /\ hook.expired \subseteq Protocol
  BY <1>1, NextIsNew DEF IInv, Fresh, PollsTyped, HookTyped
<1>3. y \in RowType /\ y.status # "none" /\ y.stage = "none" /\ y.opener = NoMsg
  BY DEF NoRow, RowType, Deadline
<1> HIDE DEF y, n
<1>4. /\ row' \in [Protocol -> RowType] /\ row'[n] = y
      /\ \A v \in Protocol : v # n => row'[v] = row[v]
  BY <1>1, <1>3 DEF IInv, RowsTyped
<1>5. \A v \in Protocol : v # n => Wrote(row[v], row'[v])
  BY <1>4, SameRow DEF IInv
<1>6. InTime'
  BY <1>1, <1>4, Undisturbed DEF IInv
<1>7. ClockTyped' /\ moves' \in 0..MaxMoves /\ moves <= moves'
  BY <1>1, ConversationAssumption DEF IInv, ClockTyped, PollsTyped
<1>8. stored' \in [Msg -> 0..MaxConv] /\ inbox' \in 0..MaxDeliveries
  BY <1>1 DEF IInv, MessagesTyped
<1>9. thinking' \subseteq Used \cup {n}
  BY <1>1 DEF IInv, Fresh, ClockTyped
<1>10. /\ \A v \in survey : row'[v].stage = row[v].stage
       /\ \A v \in hook.expired : row'[v] = row[v]
  BY <1>2, <1>4
<1> QED
  BY <1>1, <1>3, <1>4, <1>5, <1>6, <1>7, <1>8, <1>9, <1>10, Created DEF n
-----------------------------------------------------------------------------
(* The webhook reads.                                                      *)

LEMMA NewestIs ==
    ASSUME NEW S \in SUBSET Protocol
    PROVE  /\ S = {} => Newest(S) = 0
           /\ S # {} => Newest(S) \in S /\ \A w \in S : w <= Newest(S)
<1>1. CASE S # {}
  <2> DEFINE R == {ss \in Nat \X Nat : ss[1] < ss[2]}
             T == {n \in Nat : \E s \in S : n = MaxConv - s}
  <2>0. IsWellFoundedOn(R, Nat)
    BY NatLessThanWellFounded DEF OpToRel
  <2>1. T \subseteq Nat
    OBVIOUS
  <2>1a. T # {}
    <3>1. PICK s \in S : TRUE
      BY <1>1
    <3>2. MaxConv - s \in T
      BY ConversationAssumption DEF Protocol
    <3> QED
      BY <3>2
  <2>2. \E n \in T : \A m \in T : ~ (<<m, n>> \in R)
    <3> HIDE DEF R, T
    <3> QED
     BY <2>0, <2>1, <2>1a, WFMin
  <2>3. PICK n \in T : \A m \in T : ~ (<<m, n>> \in R)
    BY <2>2
  <2>4. PICK v \in S : n = MaxConv - v
    OBVIOUS
  <2>5. \A w \in S : w <= v
    <3> TAKE w \in S
    <3>1. MaxConv - w \in T
      BY ConversationAssumption DEF Protocol
    <3>2. ~ (<<MaxConv - w, n>> \in R)
      BY <2>3, <3>1
    <3>3. MaxConv - w \in Nat /\ n \in Nat
      BY ConversationAssumption DEF Protocol
    <3>4. ~ (MaxConv - w < n)
      BY <3>2, <3>3
    <3> QED
      BY <2>4, <3>4, ConversationAssumption DEF Protocol
  <2> QED
    BY <1>1, <2>5 DEF Newest
<1> QED
  BY <1>1 DEF Newest

LEMMA ResolveKeeps == ASSUME IInv, NEW m \in Msg, Resolve(m) PROVE IInv' /\ Classified
<1> DEFINE expired == {w \in Protocol : WaitOver(row[w])}
           found == {w \in Protocol : Alive(Seen(expired)[w]) \/ Surveying(row[w])}
           v == Newest(found)
           saw == IF v = 0 THEN NoRow ELSE Seen(expired)[v]
<1>1. /\ hook = NoHook /\ expired \cap survey = {}
      /\ hook' = [msg |-> m, v |-> v, expired |-> expired, saw |-> saw]
      /\ inbox > 0 /\ inbox' = inbox - 1
      /\ UNCHANGED <<row, stored, thinking, away, old, moves, clock, polls>>
  BY DEF Resolve
<1>2. UNCHANGED <<after, jobs, active, idle, excused, asks, survey, surveys, losses>>
  BY <1>1 DEF clock, polls
<1>3. expired \subseteq Used
  BY DEF WaitOver, Used
<1>4. found \subseteq Used
  <2>1. \A w \in Protocol : Seen(expired)[w] = IF w \in expired THEN ClosedBySystem(row[w])
                                               ELSE row[w]
    BY DEF Seen
  <2>2. \A w \in Protocol : row[w] \in RowType
    BY DEF IInv, RowsTyped
  <2>3. \A w \in Protocol : Surveying(row[w]) => w \in Used
    BY DEF IInv, Fresh, NoRow, Surveying
  <2>4. \A w \in expired : ClosedBySystem(row[w]).status = "closed"
    BY <2>2 DEF ClosedBySystem, RowType
  <2>5. \A w \in Protocol : Alive(Seen(expired)[w]) => Alive(row[w])
    BY <2>1, <2>4 DEF Alive
  <2> QED
    BY <2>3, <2>5 DEF Alive, Used
<1>5. v = 0 \/ v \in Used
  BY <1>4, NewestIs DEF Used
<1>6. saw \in RowType
  <2>1. NoRow \in RowType
    BY DEF NoRow, RowType, Deadline
  <2>2. ASSUME v # 0 PROVE Seen(expired)[v] \in RowType
    <3>1. v \in Protocol /\ row[v] \in RowType
      BY <1>5, <2>2 DEF Used, IInv, RowsTyped
    <3>2. ClosedBySystem(row[v]) \in RowType
      BY <3>1 DEF ClosedBySystem, RowType
    <3>3. Seen(expired)[v] = IF v \in expired THEN ClosedBySystem(row[v]) ELSE row[v]
      BY <3>1 DEF Seen
    <3> QED
      BY <3>1, <3>2, <3>3
  <2> QED
    BY <2>1, <2>2
<1>7. /\ \A w \in expired : WaitOver(row[w])
      /\ v = 0 => saw = NoRow
  OBVIOUS
<1> HIDE DEF v, saw, expired
<1>8. hook'.msg = m /\ hook'.v = v /\ hook'.expired = expired /\ hook'.saw = saw
  BY <1>1
<1>9. RowsTyped' /\ Used' = Used /\ Numbered' /\ Opened' /\ OpenedOnce'
  BY <1>1, RowsHold, SameRows DEF IInv
<1>10. HookTyped'
  <2>1. v \in 0..MaxConv /\ expired \in SUBSET Protocol
    BY <1>3, <1>5, ConversationAssumption DEF Used, Protocol
  <2> QED
    BY <1>1, <1>6, <2>1 DEF HookTyped
<1>11. MessagesTyped' /\ PollsTyped' /\ ClockTyped'
  BY <1>1, <1>2, ConversationAssumption DEF IInv, MessagesTyped, PollsTyped, ClockTyped
<1>12. Fresh'
  BY <1>1, <1>2, <1>3, <1>5, <1>8, <1>9 DEF IInv, Fresh, Protocol
<1>13. Reading'
  BY <1>1, <1>2, <1>7, <1>8, ConversationAssumption DEF Reading
<1>14. Polls'
  BY <1>1, <1>2 DEF IInv, Polls, Polled
<1>15. InTime'
  BY <1>1, <1>2, Undisturbed DEF IInv
<1> QED
  BY <1>1, <1>9, <1>10, <1>11, <1>12, <1>13, <1>14, <1>15 DEF IInv, Classified

LEMMA OutsideHoursKeeps == ASSUME IInv, OutsideHours PROVE IInv' /\ Classified
<1> DEFINE found == {w \in Protocol : Alive(row[w])}
<1>1. found \subseteq Used
  BY DEF Alive, Used
<1>2. Newest(found) \in Used \cup {0}
  BY <1>1, NewestIs DEF Used
<1> HIDE DEF found
<1>3. /\ away' \in Used \cup {0} /\ inbox' \in 0..MaxDeliveries
  BY <1>2, ConversationAssumption DEF OutsideHours, found, IInv, MessagesTyped
<1>4. Rewritten
  BY SameRows DEF OutsideHours, IInv
<1>5. UNCHANGED <<row, stored, hook, thinking, old, moves, clock, polls>>
  BY DEF OutsideHours
<1> QED
  BY <1>3, <1>4, <1>5, Aside

\* What a step that touches no survey and no request leaves as it is.
LEMMA NoRequest ==
    ASSUME IInv, UNCHANGED <<stored, inbox, moves, polls>>
    PROVE  /\ stored' \in [Msg -> 0..MaxConv] /\ inbox' \in 0..MaxDeliveries
           /\ \A m \in Msg : stored[m] # 0 => stored'[m] # 0
           /\ moves' \in 0..MaxMoves /\ UNCHANGED <<survey, surveys, losses>>
           /\ asks' \in [Protocol -> 0..MaxMoves] /\ \A v \in Protocol \ Used : asks'[v] = 0
           /\ \A v \in Protocol : asks'[v] + moves <= asks[v] + moves'
<1>1. \A v \in Protocol : asks[v] \in Nat /\ moves \in Nat
  BY DEF IInv, PollsTyped
<1> QED
  BY <1>1 DEF IInv, Fresh, MessagesTyped, PollsTyped, polls

LEMMA CloseOutsideHoursKeeps == ASSUME IInv, CloseOutsideHours PROVE IInv' /\ Classified
<1>1. /\ away # 0 /\ away \notin Locked /\ away' = 0
      /\ row' = IF Alive(row[away]) THEN [row EXCEPT ![away].status = "closed"] ELSE row
      /\ jobs' = [jobs EXCEPT ![away] = NoJobs]
      /\ UNCHANGED <<stored, inbox, hook, after, thinking, active, idle, old, moves, excused,
                     polls>>
  BY DEF CloseOutsideHours
<1>2. away \in Protocol /\ away \in Used
  BY <1>1, ConversationAssumption, UsedKnown DEF IInv, ClockTyped, Protocol
<1> DEFINE x == row[away]
           y == [x EXCEPT !.status = "closed"]
<1>3. Wrote(x, y) /\ y.status = "closed" /\ y.stage = x.stage
  BY <1>2 DEF IInv, RowsTyped, RowType, Wrote, Used
<1>4. row' = [row EXCEPT ![away] = y] \/ (row' = row /\ ~ Alive(x))
  BY <1>1, <1>2
<1> HIDE DEF y
<1>5. /\ Rewritten /\ ~ Alive(row'[away]) /\ row'[away].stage = row[away].stage
      /\ \A w \in Protocol : w # away => row'[w] = row[w]
  <2>1. CASE row' = [row EXCEPT ![away] = y]
    BY <1>2, <1>3, <2>1, OneRow DEF IInv, Alive
  <2>2. CASE row' = row /\ ~ Alive(x)
    BY <2>2, SameRows DEF IInv
  <2> QED
    BY <1>4, <2>1, <2>2
<1>6. \A w \in Protocol : w # away => jobs'[w] = jobs[w]
  BY <1>1 DEF IInv, ClockTyped
<1>7. InTime'
  <2>1. \A w \in Protocol :
           \/ w \in excused' \/ <<w, "restart">> \in after' \/ ~ Alive(row'[w])
           \/ /\ Alive(row[w]) /\ w \notin excused /\ <<w, "restart">> \notin after
              /\ idle'[w] = idle[w] /\ jobs'[w] = jobs[w]
              /\ w \in thinking' => w \in thinking
    BY <1>1, <1>5, <1>6
  <2> QED
    BY <1>1, <2>1, StillInTime DEF IInv
<1>8. ClockTyped'
  <2>1. jobs' \in [Protocol -> [{"warning", "close"} -> {"no", "delayed", "due"}]]
    BY <1>1, <1>2 DEF IInv, ClockTyped, NoJobs
  <2>2. away' \in 0..MaxConv
    BY <1>1, ConversationAssumption
  <2> QED
    BY <1>1, <2>1, <2>2 DEF IInv, ClockTyped
<1>9. thinking' \subseteq Used
  BY <1>1 DEF IInv, Fresh, ClockTyped
<1>10. /\ \A w \in survey : row'[w].stage = row[w].stage
       /\ \A w \in hook.expired : row'[w] = row[w]
  BY <1>1, <1>5 DEF Locked, IInv, PollsTyped, HookTyped
<1> QED
  BY <1>1, <1>5, <1>7, <1>8, <1>9, <1>10, NoRequest, Frame

LEMMA AITurnKeeps == ASSUME IInv, NEW v \in Protocol, AITurn(v) PROVE IInv' /\ Classified
<1> DEFINE y == [row[v] EXCEPT !.status = "open"]
<1>1. /\ v \in thinking /\ <<v, "restart">> \notin after /\ v \notin Locked
      /\ thinking' = thinking \ {v}
      /\ UNCHANGED <<stored, inbox, hook, after, away, jobs, active, old, moves, polls>>
      /\ \/ UNCHANGED <<row, idle, excused>>
         \/ /\ row' = [row EXCEPT ![v] = y] /\ idle' = [idle EXCEPT ![v] = 0]
            /\ excused' = IF row[v].status = "closed" THEN excused \cup {v} ELSE excused
  BY DEF AITurn
<1>2. row[v] \in RowType /\ row[v].status # "none"
  BY <1>1, UsedKnown DEF IInv, RowsTyped, Used
<1>3. Wrote(row[v], y) /\ y.status = "open" /\ y.stage = row[v].stage
  BY <1>2 DEF IInv, RowsTyped, RowType, Wrote
<1> HIDE DEF y
<1>4. /\ Rewritten /\ row'[v].stage = row[v].stage
      /\ \A w \in Protocol : w # v => row'[w] = row[w]
  BY <1>1, <1>3, OneRow, SameRows DEF IInv
<1>5. \A w \in Protocol : w # v => idle'[w] = idle[w]
  BY <1>1 DEF IInv, ClockTyped
<1>6. ClockTyped'
  BY <1>1, ConversationAssumption DEF IInv, ClockTyped
<1>7. InTime'
  <2> SUFFICES ASSUME NEW w \in Protocol PROVE Watching(w)'
    BY DEF InTime
  <2>0. Watching(w)
    BY DEF IInv, InTime
  <2>1. CASE w # v \/ UNCHANGED <<row, idle, excused>>
    BY <1>1, <1>4, <1>5, <2>0, <2>1 DEF Watching, UnderWay
  <2>2. CASE w = v /\ row[v].status = "closed" /\ v \in excused'
    BY <2>2 DEF Watching
  <2>3. CASE w = v /\ row[v].status # "closed" /\ excused' = excused
    <3>1. Alive(row[v])
      BY <1>2, <2>3 DEF Alive, RowType
    <3>2. v \in excused \/ (jobs[v].warning # "due" /\ jobs[v].close = "no" /\ ~ UnderWay(v)
                            /\ (jobs[v] # NoJobs \/ (active.v = v /\ active.go)))
      BY <1>1, <2>0, <2>3, <3>1 DEF Watching
    <3> QED
      BY <1>1, <2>3, <3>2 DEF Watching, UnderWay
  <2> QED
    BY <1>1, <2>1, <2>2, <2>3
<1>8. thinking' \subseteq Used
  BY <1>1 DEF IInv, Fresh, ClockTyped
<1>9. /\ \A w \in survey : row'[w].stage = row[w].stage
      /\ \A w \in hook.expired : row'[w] = row[w]
  BY <1>1, <1>4 DEF Locked, IInv, PollsTyped, HookTyped
<1> QED
  BY <1>1, <1>4, <1>6, <1>7, <1>8, <1>9, NoRequest, Frame
\* What a step that writes no row, stores nothing and asks for nothing leaves.
LEMMA OnlyTheClock ==
    ASSUME IInv, UNCHANGED <<row, stored, inbox, hook, moves, polls>>,
           thinking' \subseteq thinking, UNCHANGED <<away, old>>, ClockTyped', InTime'
    PROVE  IInv' /\ Classified
<1>1. thinking' \subseteq Used
  BY DEF IInv, Fresh, ClockTyped
<1>2. Rewritten
  BY SameRows DEF IInv
<1> QED
  BY <1>1, <1>2, NoRequest, Frame

LEMMA CancelWatchKeeps == ASSUME IInv, NEW v \in Protocol, CancelWatch(v) PROVE IInv' /\ Classified
<1>1. /\ after' = after \ {<<v, "cancel">>} /\ jobs' = [jobs EXCEPT ![v] = NoJobs]
      /\ excused' = excused \cup {v}
      /\ UNCHANGED <<row, stored, inbox, hook, thinking, away, active, idle, old, moves, polls>>
  BY DEF CancelWatch
<1>2. jobs' \in [Protocol -> [{"warning", "close"} -> {"no", "delayed", "due"}]]
      /\ \A w \in Protocol : w # v => jobs'[w] = jobs[w]
  BY <1>1 DEF IInv, ClockTyped, NoJobs
<1>3. ClockTyped'
  BY <1>1, <1>2 DEF IInv, ClockTyped
<1>4. \A w : <<w, "restart">> \in after' <=> <<w, "restart">> \in after
  BY <1>1
<1>5. InTime'
  BY <1>1, <1>2, <1>4 DEF IInv, InTime, Watching, UnderWay
<1> QED
  BY <1>1, <1>3, <1>5, OnlyTheClock

LEMMA RestartWatchKeeps == ASSUME IInv, NEW v \in Protocol, RestartWatch(v) PROVE IInv' /\ Classified
<1> DEFINE j == [NoJobs EXCEPT !.warning = IF UnderWay(v) THEN "no" ELSE "delayed"]
<1>1. /\ after' = after \ {<<v, "restart">>} /\ jobs' = [jobs EXCEPT ![v] = j]
      /\ excused' = IF UnderWay(v) THEN excused \cup {v} ELSE excused \ {v}
      /\ UNCHANGED <<row, stored, inbox, hook, thinking, away, active, idle, old, moves, polls>>
  BY DEF RestartWatch
<1>2. /\ j \in [{"warning", "close"} -> {"no", "delayed", "due"}] /\ j.close = "no"
      /\ ~ UnderWay(v) => j.warning = "delayed" /\ j # NoJobs
  BY DEF NoJobs
<1> HIDE DEF j
<1>3. jobs' \in [Protocol -> [{"warning", "close"} -> {"no", "delayed", "due"}]]
      /\ jobs'[v] = j /\ \A w \in Protocol : w # v => jobs'[w] = jobs[w]
  BY <1>1, <1>2 DEF IInv, ClockTyped
<1>4. ClockTyped'
  BY <1>1, <1>3 DEF IInv, ClockTyped
<1>5. \A w : w # v => (<<w, "restart">> \in after' <=> <<w, "restart">> \in after)
  BY <1>1
<1>6. \A w \in Protocol : w # v => Watching(w)'
  BY <1>1, <1>3, <1>5 DEF IInv, InTime, Watching, UnderWay
<1>7. Watching(v)'
  <2>1. CASE UnderWay(v)
    BY <1>1, <2>1 DEF Watching
  <2>2. CASE ~ UnderWay(v)
    BY <1>1, <1>2, <1>3, <2>2 DEF Watching, UnderWay
  <2> QED
    BY <2>1, <2>2
<1> QED
  BY <1>1, <1>4, <1>6, <1>7, OnlyTheClock DEF InTime

-----------------------------------------------------------------------------
(* People.                                                                 *)

LEMMA Requested ==
    ASSUME IInv, Moved
    PROVE  moves' \in 0..MaxMoves /\ moves \in Nat /\ moves' = moves + 1
  BY ConversationAssumption DEF IInv, PollsTyped, Moved

\* A request writes row v, with its excuse if it may bring the row back to life.
LEMMA RequestKeeps ==
    ASSUME IInv, Moved, NEW v \in Used \ Locked, NEW y, Wrote(row[v], y), y.stage = row[v].stage,
           row' = [row EXCEPT ![v] = y], Alive(y) => Alive(row[v]) \/ v \in excused',
           excused \subseteq excused', excused' \subseteq Protocol,
           asks' \in {asks, [asks EXCEPT ![v] = @ + 1]},
           UNCHANGED <<stored, inbox, hook, after, thinking, away, jobs, active, idle, old,
                       survey, surveys, losses>>
    PROVE  IInv' /\ Classified
<1>1. v \in Protocol /\ v \notin survey /\ v \notin hook.expired
  BY DEF Used, Locked
<1>2. /\ Rewritten /\ row'[v] = y /\ \A w \in Protocol : w # v => row'[w] = row[w]
  BY <1>1, OneRow DEF IInv
<1>3. InTime'
  BY <1>2, Undisturbed DEF IInv
<1>4. ClockTyped'
  BY DEF IInv, ClockTyped
<1>5. /\ \A w \in survey : row'[w].stage = row[w].stage
      /\ \A w \in hook.expired : row'[w] = row[w]
  BY <1>1, <1>2 DEF IInv, PollsTyped, HookTyped
<1>6. /\ \A w \in Protocol : asks'[w] \in Nat /\ asks'[w] <= asks[w] + 1 /\ asks[w] \in Nat
      /\ \A w \in Protocol : w # v => asks'[w] = asks[w]
      /\ asks' = [w \in Protocol |-> asks'[w]]
  BY DEF IInv, PollsTyped
<1>7. \A w \in Protocol : asks[w] <= moves
  <2>1. \A w \in Protocol : Polled(w) /\ surveys[w] \in Nat /\ asks[w] \in Nat /\ moves \in Nat
    BY DEF IInv, Polls, PollsTyped
  <2> QED
    BY <2>1 DEF Polled
<1>8. asks' \in [Protocol -> 0..MaxMoves]
  <2>1. \A w \in Protocol : asks'[w] \in 0..MaxMoves
    BY <1>6, <1>7, Requested, ConversationAssumption
  <2> QED
    BY <1>6, <2>1
<1>9. \A w \in Protocol : asks'[w] + moves <= asks[w] + moves'
  BY <1>6, Requested
<1>10. \A w \in Protocol \ Used : asks'[w] = 0
  BY <1>6 DEF IInv, Fresh
<1>11. thinking' \subseteq Used
  BY DEF IInv, Fresh, ClockTyped
<1>12. stored' \in [Msg -> 0..MaxConv] /\ inbox' \in 0..MaxDeliveries /\ moves' \in 0..MaxMoves
  BY Requested DEF IInv, MessagesTyped
<1> QED
  BY <1>2, <1>3, <1>4, <1>5, <1>8, <1>9, <1>10, <1>11, <1>12, Frame

LEMMA AssignConversationKeeps ==
    ASSUME IInv, NEW v \in Protocol, AssignConversation(v)
    PROVE  IInv' /\ Classified
<1> DEFINE y == [row[v] EXCEPT !.status = "open", !.owner = TRUE, !.wait = "no"]
<1>1. v \in Used \ Locked /\ row[v] \in RowType /\ row[v].status # "none"
  BY DEF AssignConversation, Used, IInv, RowsTyped
<1>2. Wrote(row[v], y) /\ y.stage = row[v].stage
  BY <1>1 DEF IInv, RowsTyped, RowType, Wrote, Deadline
<1>3. /\ row' = [row EXCEPT ![v] = y]
      /\ excused' = IF row[v].status = "closed" THEN excused \cup {v} ELSE excused
      /\ Moved /\ UNCHANGED <<stored, inbox, hook, after, thinking, away, jobs, active, idle, old,
                             asks, survey, surveys, losses>>
  BY DEF AssignConversation, polls, IInv, RowsTyped
<1> HIDE DEF y
<1>4. Alive(row[v]) \/ v \in excused'
  BY <1>1, <1>3 DEF Alive, RowType
<1>5. excused \subseteq excused' /\ excused' \subseteq Protocol
  BY <1>3 DEF IInv, ClockTyped
<1> QED
  BY <1>1, <1>2, <1>3, <1>4, <1>5, RequestKeeps

LEMMA TransferConversationKeeps ==
    ASSUME IInv, NEW v \in Protocol, TransferConversation(v)
    PROVE  IInv' /\ Classified
<1> DEFINE y == [row[v] EXCEPT !.owner = TRUE]
<1>1. v \in Used \ Locked /\ row[v] \in RowType /\ row[v].status # "none"
  BY DEF TransferConversation, Used, IInv, RowsTyped
<1>2. Wrote(row[v], y) /\ y.stage = row[v].stage /\ (Alive(y) => Alive(row[v]))
  BY <1>1 DEF IInv, RowsTyped, RowType, Wrote, Alive
<1>3. /\ row' = [row EXCEPT ![v] = y]
      /\ Moved /\ UNCHANGED <<stored, inbox, hook, after, thinking, away, jobs, active, idle, old,
                             excused, asks, survey, surveys, losses>>
  BY DEF TransferConversation, clock, polls
<1> HIDE DEF y
<1>5. excused \subseteq excused' /\ excused' \subseteq Protocol
  BY <1>3 DEF IInv, ClockTyped
<1> QED
  BY <1>1, <1>2, <1>3, <1>5, RequestKeeps

LEMMA CloseConversationKeeps ==
    ASSUME IInv, NEW v \in Protocol, CloseConversation(v)
    PROVE  IInv' /\ Classified
<1> DEFINE y == [row[v] EXCEPT !.status = "closed", !.by = "agent", !.wait = "no"]
<1>1. v \in Used \ Locked /\ row[v] \in RowType /\ row[v].status # "none"
  BY DEF CloseConversation, Used, IInv, RowsTyped
<1>2. Wrote(row[v], y) /\ y.stage = row[v].stage /\ ~ Alive(y)
  BY <1>1 DEF IInv, RowsTyped, RowType, Wrote, Alive, Deadline
<1>3. /\ row' = [row EXCEPT ![v] = y] /\ asks' = [asks EXCEPT ![v] = @ + 1]
      /\ Moved /\ UNCHANGED <<stored, inbox, hook, after, thinking, away, jobs, active, idle, old,
                             excused, survey, surveys, losses>>
  BY DEF CloseConversation, clock
<1> HIDE DEF y
<1>5. excused \subseteq excused' /\ excused' \subseteq Protocol
  BY <1>3 DEF IInv, ClockTyped
<1> QED
  BY <1>1, <1>2, <1>3, <1>5, RequestKeeps

LEMMA UpdateConversationKeeps ==
    ASSUME IInv, NEW v \in Protocol, NEW status \in {"open", "waiting", "closed"},
           UpdateConversation(v, status)
    PROVE  IInv' /\ Classified
<1> DEFINE y == [row[v] EXCEPT !.status = status]
<1>1. v \in Used \ Locked /\ row[v] \in RowType /\ row[v].status # "none"
  BY DEF UpdateConversation, Used, IInv, RowsTyped
<1>2. Wrote(row[v], y) /\ y.stage = row[v].stage
  BY <1>1 DEF IInv, RowsTyped, RowType, Wrote
<1>3. /\ row' = [row EXCEPT ![v] = y] /\ asks' \in {asks, [asks EXCEPT ![v] = @ + 1]}
      /\ excused' = IF row[v].status = "closed" THEN excused \cup {v} ELSE excused
      /\ Moved /\ UNCHANGED <<stored, inbox, hook, after, thinking, away, jobs, active, idle, old,
                             survey, surveys, losses>>
  BY DEF UpdateConversation
<1> HIDE DEF y
<1>4. Alive(row[v]) \/ v \in excused'
  BY <1>1, <1>3 DEF Alive, RowType
<1>5. excused \subseteq excused' /\ excused' \subseteq Protocol
  BY <1>3 DEF IInv, ClockTyped
<1> QED
  BY <1>1, <1>2, <1>3, <1>4, <1>5, RequestKeeps

LEMMA SendMessageKeeps ==
    ASSUME IInv, NEW v \in Protocol, SendMessage(v)
    PROVE  IInv' /\ Classified
<1>1. /\ idle' = [idle EXCEPT ![v] = 0] /\ after' = after \cup {<<v, "restart">>} /\ Moved
      /\ UNCHANGED <<row, stored, inbox, hook, thinking, away, jobs, active, old, excused, polls>>
  BY DEF SendMessage
<1>2. ClockTyped'
  BY <1>1 DEF IInv, ClockTyped
<1>3. \A w \in Protocol : w # v => idle'[w] = idle[w]
  BY <1>1 DEF IInv, ClockTyped
<1>4. InTime'
  <2>1. \A w \in Protocol :
           \/ w \in excused' \/ <<w, "restart">> \in after' \/ ~ Alive(row'[w])
           \/ /\ Alive(row[w]) /\ w \notin excused /\ <<w, "restart">> \notin after
              /\ idle'[w] = idle[w] /\ jobs'[w] = jobs[w]
              /\ w \in thinking' => w \in thinking
    BY <1>1, <1>3
  <2> QED
    BY <1>1, <2>1, StillInTime DEF IInv
<1>5. Rewritten /\ thinking' \subseteq Used
  BY <1>1, SameRows DEF IInv, Fresh, ClockTyped
<1>6. /\ moves' \in 0..MaxMoves /\ UNCHANGED <<asks, survey, surveys, losses>>
      /\ asks' \in [Protocol -> 0..MaxMoves] /\ \A w \in Protocol \ Used : asks'[w] = 0
      /\ \A w \in Protocol : asks'[w] + moves <= asks[w] + moves'
  BY <1>1, Requested DEF polls, IInv, Fresh, PollsTyped
<1>7. stored' \in [Msg -> 0..MaxConv] /\ inbox' \in 0..MaxDeliveries
  BY <1>1 DEF IInv, MessagesTyped
<1> QED
  BY <1>1, <1>2, <1>4, <1>5, <1>6, <1>7, Frame
-----------------------------------------------------------------------------
(* The survey.                                                             *)

\* What is left to show of a step of a sendCsatMessage that sends the text,
\* records it or loses it.
LEMMA Surveys ==
    ASSUME IInv, NEW v \in Used, Rewritten, UNCHANGED <<stored, inbox, hook, thinking, away, old,
                                                       moves, clock>>,
           \A w \in Protocol : w # v => /\ asks'[w] = asks[w] /\ surveys'[w] = surveys[w]
                                        /\ losses'[w] = losses[w] /\ row'[w] = row[w]
                                        /\ (w \in survey' <=> w \in survey),
           Alive(row'[v]) => Alive(row[v]),
           v \in hook.expired => v \notin survey' /\ row'[v] = row[v],
           PollsTyped', Polled(v)'
    PROVE  IInv' /\ Classified
<1>1. v \in Protocol /\ UNCHANGED <<after, jobs, active, idle, excused>>
  BY DEF Used, clock
<1>2. RowsTyped' /\ Used' = Used /\ Numbered' /\ Opened' /\ OpenedOnce'
  BY RowsHold DEF IInv
<1>3. HookTyped' /\ MessagesTyped' /\ ClockTyped'
  BY <1>1 DEF IInv, HookTyped, MessagesTyped, ClockTyped
<1>4. Fresh'
  BY <1>2 DEF IInv, Fresh, Rewritten, Wrote
<1>5. Reading'
  BY DEF IInv, Reading, HookTyped
<1>6. Polls'
  BY DEF IInv, Polls, Polled
<1>7. InTime'
  BY <1>1, Undisturbed DEF IInv
<1>8. Classified
  BY DEF Rewritten, Wrote, Classified
<1> QED
  BY <1>2, <1>3, <1>4, <1>5, <1>6, <1>7, <1>8 DEF IInv

LEMMA SendCsatKeeps == ASSUME IInv, NEW v \in Protocol, SendCsat(v) PROVE IInv' /\ Classified
<1>1. /\ asks[v] > 0 /\ v \notin Locked /\ asks' = [asks EXCEPT ![v] = @ - 1]
      /\ \/ UNCHANGED <<survey, surveys>>
         \/ /\ row[v].stage = "none" /\ survey' = survey \cup {v}
            /\ surveys' = [surveys EXCEPT ![v] = @ + 1]
      /\ UNCHANGED <<row, stored, inbox, hook, thinking, away, old, moves, losses, clock>>
  BY DEF SendCsat
<1>2. /\ asks[v] \in 0..MaxMoves /\ surveys[v] \in 0..MaxMoves /\ losses[v] \in 0..MaxMoves
      /\ moves \in 0..MaxMoves /\ MaxMoves \in Nat
      /\ asks \in [Protocol -> 0..MaxMoves] /\ surveys \in [Protocol -> 0..MaxMoves]
      /\ losses \in [Protocol -> 0..MaxMoves] /\ survey \subseteq Protocol
  BY ConversationAssumption DEF IInv, PollsTyped
<1>3. v \in Used /\ v \notin survey /\ v \notin hook.expired
  BY <1>1, <1>2, UsedKnown DEF Locked
<1>4. Polled(v)
  BY DEF IInv, Polls
<1>5. Rewritten
  BY <1>1, SameRows DEF IInv
<1>6. /\ asks'[v] = asks[v] - 1 /\ asks' \in [Protocol -> 0..MaxMoves]
      /\ \A w \in Protocol : w # v => asks'[w] = asks[w]
  BY <1>1, <1>2
<1>7. surveys[v] + 1 <= moves
  BY <1>1, <1>2, <1>4 DEF Polled
<1>8. CASE UNCHANGED <<survey, surveys>>
  <2>1. Polled(v)'
    BY <1>1, <1>2, <1>4, <1>6, <1>8 DEF Polled
  <2>2. PollsTyped'
    BY <1>1, <1>2, <1>6, <1>8 DEF PollsTyped
  <2> QED
    BY <1>1, <1>3, <1>5, <1>6, <1>8, <2>1, <2>2, Surveys
<1>9. CASE /\ row[v].stage = "none" /\ survey' = survey \cup {v}
           /\ surveys' = [surveys EXCEPT ![v] = @ + 1]
  <2>1. /\ surveys'[v] = surveys[v] + 1 /\ surveys' \in [Protocol -> 0..MaxMoves]
        /\ \A w \in Protocol : w # v => surveys'[w] = surveys[w]
    <3>1. surveys[v] + 1 \in 0..MaxMoves
      BY <1>2, <1>7
    <3> QED
      BY <1>2, <1>9, <3>1
  <2>2. Polled(v)'
    BY <1>1, <1>2, <1>3, <1>4, <1>6, <1>9, <2>1 DEF Polled
  <2>3. PollsTyped'
    BY <1>1, <1>2, <1>6, <1>9, <2>1 DEF PollsTyped
  <2> QED
    BY <1>1, <1>3, <1>5, <1>6, <1>9, <2>1, <2>2, <2>3, Surveys
<1> QED
  BY <1>1, <1>8, <1>9

LEMMA RecordCsatKeeps == ASSUME IInv, NEW v \in Protocol, RecordCsat(v) PROVE IInv' /\ Classified
<1> DEFINE y == [row[v] EXCEPT !.stage = "sent", !.csat = "ahead"]
<1>1. /\ v \in survey /\ survey' = survey \ {v} /\ row' = [row EXCEPT ![v] = y]
      /\ UNCHANGED <<stored, inbox, hook, thinking, away, old, moves, asks, surveys, losses,
                     clock>>
  BY DEF RecordCsat
<1>2. v \in Used /\ v \notin hook.expired /\ row[v] \in RowType /\ row[v].status # "none"
  BY <1>1, UsedKnown DEF IInv, Reading, RowsTyped, Used
<1>3. Wrote(row[v], y) /\ (Alive(y) => Alive(row[v])) /\ y.stage = "sent"
  BY <1>2 DEF RowType, Wrote, Alive, Deadline
<1> HIDE DEF y
<1>4. Rewritten /\ row'[v] = y /\ \A w \in Protocol : w # v => row'[w] = row[w]
  BY <1>1, <1>3, OneRow DEF IInv
<1>5. /\ asks[v] \in Nat /\ surveys[v] \in Nat /\ losses[v] \in Nat /\ moves \in Nat
  BY DEF IInv, PollsTyped
<1>6. Polled(v)'
  BY <1>1, <1>3, <1>4, <1>5 DEF IInv, Polls, Polled
<1>7. PollsTyped'
  BY <1>1 DEF IInv, PollsTyped
<1> QED
  BY <1>1, <1>2, <1>3, <1>4, <1>6, <1>7, Surveys

LEMMA LoseCsatKeeps == ASSUME IInv, NEW v \in Protocol, LoseCsat(v) PROVE IInv' /\ Classified
<1>1. /\ v \in survey /\ survey' = survey \ {v} /\ losses' = [losses EXCEPT ![v] = @ + 1]
      /\ UNCHANGED <<row, stored, inbox, hook, thinking, away, old, moves, asks, surveys, clock>>
  BY DEF LoseCsat
<1>2. v \in Used /\ v \notin hook.expired
  BY <1>1, UsedKnown DEF IInv, Reading
<1>3. Rewritten
  BY <1>1, SameRows DEF IInv
<1>4. /\ asks[v] \in 0..MaxMoves /\ surveys[v] \in 0..MaxMoves /\ losses[v] \in 0..MaxMoves
      /\ moves \in 0..MaxMoves /\ MaxMoves \in Nat /\ Polled(v)
      /\ losses \in [Protocol -> 0..MaxMoves]
  BY ConversationAssumption DEF IInv, PollsTyped, Polls
<1>5. /\ losses'[v] = losses[v] + 1 /\ losses' \in [Protocol -> 0..MaxMoves]
      /\ \A w \in Protocol : w # v => losses'[w] = losses[w]
  <2>1. losses[v] + 1 \in 0..MaxMoves
    BY <1>1, <1>4 DEF Polled
  <2> QED
    BY <1>1, <1>4, <2>1
<1>6. Polled(v)'
  BY <1>1, <1>4, <1>5 DEF Polled
<1>7. PollsTyped'
  BY <1>1, <1>5 DEF IInv, PollsTyped
<1> QED
  BY <1>1, <1>2, <1>3, <1>5, <1>6, <1>7, Surveys

-----------------------------------------------------------------------------
(* Time and the jobs.                                                      *)

LEMMA TickKeeps == ASSUME IInv, Tick PROVE IInv' /\ Classified
<1>1. /\ thinking = {} /\ idle' = [v \in Protocol |-> IF idle[v] < 2 THEN idle[v] + 1 ELSE 2]
      /\ jobs' = [v \in Protocol |-> [warning |-> Later(jobs[v].warning),
                                      close |-> Later(jobs[v].close)]]
      /\ UNCHANGED <<row, stored, inbox, hook, after, thinking, away, active, old, moves, excused,
                     polls>>
  BY DEF Tick
<1>2. \A v \in Protocol : /\ idle[v] \in 0..2
                          /\ jobs[v] \in [{"warning", "close"} -> {"no", "delayed", "due"}]
  BY DEF IInv, ClockTyped
<1>3. \A v \in Protocol : /\ idle'[v] \in 1..2 /\ (idle[v] >= 1 => idle'[v] = 2)
                          /\ jobs'[v].warning = Later(jobs[v].warning)
                          /\ jobs'[v].close = Later(jobs[v].close)
  BY <1>1, <1>2
<1>4. ASSUME NEW d \in {"no", "delayed", "due"}
      PROVE  Later(d) \in {"no", "due"} /\ (Later(d) = "no" <=> d = "no")
  BY DEF Later
<1>5. \A v \in Protocol :
         [warning |-> Later(jobs[v].warning), close |-> Later(jobs[v].close)]
            \in [{"warning", "close"} -> {"no", "delayed", "due"}]
  BY <1>2, <1>4
<1>6. ClockTyped'
  <2>1. jobs' \in [Protocol -> [{"warning", "close"} -> {"no", "delayed", "due"}]]
    BY <1>1, <1>5
  <2>2. idle' \in [Protocol -> 0..2]
    BY <1>1, <1>3
  <2> QED
    BY <1>1, <2>1, <2>2 DEF IInv, ClockTyped
<1>7. InTime'
  <2> SUFFICES ASSUME NEW v \in Protocol PROVE Watching(v)'
    BY DEF InTime
  <2>1. Watching(v)
    BY DEF IInv, InTime
  <2>2. /\ jobs[v].warning \in {"no", "delayed", "due"} /\ jobs[v].close \in {"no", "delayed", "due"}
        /\ jobs[v] = [warning |-> jobs[v].warning, close |-> jobs[v].close]
    BY <1>2
  <2>3. jobs'[v] = NoJobs => jobs[v] = NoJobs
    <3>1. NoJobs.warning = "no" /\ NoJobs.close = "no"
      BY DEF NoJobs
    <3>2. jobs'[v] = NoJobs => jobs[v].warning = "no" /\ jobs[v].close = "no"
      BY <1>3, <1>4, <2>2, <3>1
    <3> QED
      BY <2>2, <3>2 DEF NoJobs
  <2>4. jobs'[v].close = "due" => jobs[v].close \in {"delayed", "due"}
    BY <1>3, <1>4, <2>2
  <2>5. jobs'[v].close # "delayed"
    BY <1>3, <1>4, <2>2
  <2> QED
    BY <1>1, <1>2, <1>3, <2>1, <2>3, <2>4, <2>5 DEF Watching, UnderWay
<1> QED
  BY <1>1, <1>6, <1>7, OnlyTheClock

LEMMA DeadlinePassesKeeps == ASSUME IInv, NEW v \in Protocol, DeadlinePasses(v) PROVE IInv' /\ Classified
<1>1. /\ v \notin Locked /\ UNCHANGED <<stored, inbox, hook, thinking, away, old, moves, clock, polls>>
      /\ \/ row[v].wait = "ahead" /\ row' = [row EXCEPT ![v].wait = "behind"]
         \/ row[v].csat = "ahead" /\ row' = [row EXCEPT ![v].csat = "behind"]
  BY DEF DeadlinePasses
<1>2. row[v] \in RowType /\ (row[v].stage = "done" => row[v].csat = "no")
  BY DEF IInv, RowsTyped
<1>3. row[v].status # "none"
  BY <1>1 DEF IInv, Fresh, Used, NoRow
<1>4. PICK y \in {[row[v] EXCEPT !.wait = "behind"], [row[v] EXCEPT !.csat = "behind"]} :
         row' = [row EXCEPT ![v] = y] /\ (y = [row[v] EXCEPT !.csat = "behind"] => row[v].csat = "ahead")
  <2>1. CASE row[v].wait = "ahead" /\ row' = [row EXCEPT ![v].wait = "behind"]
    <3> DEFINE y == [row[v] EXCEPT !.wait = "behind"]
    <3>1. row' = [row EXCEPT ![v] = y]
      BY <2>1
    <3>2. y = [row[v] EXCEPT !.csat = "behind"] => row[v].csat = "ahead"
      BY <1>2, <2>1 DEF RowType
    <3> QED
      BY <3>1, <3>2
  <2>2. CASE row[v].csat = "ahead" /\ row' = [row EXCEPT ![v].csat = "behind"]
    BY <2>2
  <2> QED
    BY <1>1, <2>1, <2>2
<1>5. Wrote(row[v], y) /\ y.stage = row[v].stage /\ (Alive(y) => Alive(row[v]))
  BY <1>2, <1>3, <1>4 DEF RowType, Wrote, Alive, Deadline
<1>6. Rewritten /\ row'[v] = y /\ \A w \in Protocol : w # v => row'[w] = row[w]
  BY <1>4, <1>5, OneRow DEF IInv
<1>7. /\ \A w \in survey : row'[w].stage = row[w].stage
      /\ \A w \in hook.expired : row'[w] = row[w]
  BY <1>1, <1>5, <1>6 DEF Locked, IInv, PollsTyped, HookTyped
<1>8. inbox' \in 0..MaxDeliveries
  BY <1>1 DEF IInv, MessagesTyped
<1> QED
  BY <1>1, <1>5, <1>6, <1>7, <1>8, Aside
LEMMA StartJobKeeps ==
    ASSUME IInv, NEW v \in Protocol, NEW type \in {"warning", "close"}, StartJob(v, type)
    PROVE  IInv' /\ Classified
<1>1. /\ active = Idle /\ jobs[v][type] = "due" /\ jobs' = [jobs EXCEPT ![v][type] = "no"]
      /\ active' = [v |-> v, type |-> type,
                    go |-> Alive(row[v]) /\ idle[v] >= (IF type = "warning" THEN 1 ELSE 2)]
      /\ UNCHANGED <<row, stored, inbox, hook, after, thinking, away, idle, old, moves, excused,
                     polls>>
  BY DEF StartJob
<1>2. /\ jobs' \in [Protocol -> [{"warning", "close"} -> {"no", "delayed", "due"}]]
      /\ \A w \in Protocol : w # v => jobs'[w] = jobs[w]
      /\ type = "warning" => jobs[v].warning = "due" /\ jobs'[v].warning = "no"
                             /\ jobs'[v].close = jobs[v].close
      /\ type = "close" => jobs[v].close = "due" /\ jobs'[v].close = "no"
                           /\ jobs'[v].warning = jobs[v].warning
  BY <1>1 DEF IInv, ClockTyped
<1>3. /\ active'.v = v /\ active'.type = type
      /\ active'.go <=> Alive(row[v]) /\ idle[v] >= (IF type = "warning" THEN 1 ELSE 2)
  BY <1>1
<1>4. ClockTyped'
  <2>1. active' \in [v : 0..MaxConv, type : {"warning", "close"}, go : BOOLEAN]
    BY <1>1 DEF Protocol, Alive
  <2> QED
    BY <1>1, <1>2, <2>1 DEF IInv, ClockTyped
<1>5. active.v = 0 /\ v # 0
  BY <1>1 DEF Idle, Protocol
<1>6. InTime'
  <2> SUFFICES ASSUME NEW w \in Protocol PROVE Watching(w)'
    BY DEF InTime
  <2>1. Watching(w) /\ w # 0
    BY DEF IInv, InTime, Protocol
  <2>2. CASE w # v
    BY <1>1, <1>2, <1>3, <1>5, <2>1, <2>2 DEF Watching, UnderWay
  <2>3. CASE w = v
    <3> SUFFICES ASSUME Alive(row[v]), v \notin excused, <<v, "restart">> \notin after
                 PROVE  Watching(v)'
      BY <1>1, <2>3 DEF Watching
    <3>1. /\ jobs[v].warning = "due" \/ jobs[v].close = "delayed" => idle[v] >= 1
          /\ jobs[v].close = "due" => idle[v] >= 2
          /\ v \in thinking => jobs[v].warning # "due" /\ jobs[v].close = "no"
      BY <2>1, <2>3 DEF Watching
    <3>2. v \notin thinking /\ active'.go
      BY <1>2, <1>3, <3>1
    <3>3. CASE type = "warning"
      BY <1>1, <1>2, <1>3, <3>1, <3>2, <3>3 DEF Watching, UnderWay
    <3>4. CASE type = "close"
      BY <1>1, <1>2, <1>3, <3>1, <3>2, <3>4 DEF Watching, UnderWay
    <3> QED
      BY <3>3, <3>4
  <2> QED
    BY <2>2, <2>3
<1> QED
  BY <1>1, <1>4, <1>6, OnlyTheClock

LEMMA FinishJobKeeps == ASSUME IInv, FinishJob PROVE IInv' /\ Classified
<1> DEFINE v == active.v
<1>1. /\ active # Idle /\ active' = Idle
      /\ UNCHANGED <<stored, inbox, hook, after, thinking, away, idle, old, moves, excused, polls>>
  BY DEF FinishJob
<1>2. /\ Idle.v = 0 /\ Idle \in [v : 0..MaxConv, type : {"warning", "close"}, go : BOOLEAN]
      /\ active \in [v : 0..MaxConv, type : {"warning", "close"}, go : BOOLEAN]
  BY ConversationAssumption DEF Idle, IInv, ClockTyped
<1>3. CASE ~ active.go /\ UNCHANGED <<row, jobs>>
  <2>1. ClockTyped'
    BY <1>1, <1>2, <1>3 DEF IInv, ClockTyped
  <2>2. InTime'
    BY <1>1, <1>2, <1>3 DEF IInv, InTime, Watching, UnderWay, Protocol
  <2> QED
    BY <1>1, <1>3, <2>1, <2>2, OnlyTheClock
<1>4. CASE /\ active.go /\ active.type = "warning" /\ UNCHANGED row
           /\ jobs' = [jobs EXCEPT ![v].close = IF @ = "no" THEN "delayed" ELSE @]
  <2>1. /\ jobs' \in [Protocol -> [{"warning", "close"} -> {"no", "delayed", "due"}]]
        /\ \A w \in Protocol : w # v => jobs'[w] = jobs[w]
        /\ v \in Protocol => /\ jobs'[v].warning = jobs[v].warning
                             /\ jobs'[v].close
                                  = IF jobs[v].close = "no" THEN "delayed" ELSE jobs[v].close
    BY <1>4 DEF IInv, ClockTyped
  <2>2. ClockTyped'
    BY <1>1, <1>2, <2>1 DEF IInv, ClockTyped
  <2>3. InTime'
    <3> SUFFICES ASSUME NEW w \in Protocol PROVE Watching(w)'
      BY DEF InTime
    <3>1. Watching(w) /\ w # 0
      BY DEF IInv, InTime, Protocol
    <3>2. CASE w # v
      BY <1>1, <1>2, <1>4, <2>1, <3>1, <3>2 DEF Watching, UnderWay
    <3>3. CASE w = v
      <4>1. jobs[v].close \in {"no", "delayed", "due"} /\ idle[v] \in 0..2
        BY <3>3 DEF IInv, ClockTyped
      <4>2. jobs'[v].close \in {"delayed", "due"} /\ jobs'[v] # NoJobs
        BY <2>1, <3>3, <4>1 DEF NoJobs
      <4>3. UnderWay(v)
        BY <1>4 DEF UnderWay
      <4> QED
        BY <1>1, <1>2, <1>4, <2>1, <3>1, <3>3, <4>1, <4>2, <4>3 DEF Watching, UnderWay
    <3> QED
      BY <3>2, <3>3
  <2> QED
    BY <1>1, <1>4, <2>2, <2>3, OnlyTheClock
<1>5. CASE /\ active.go /\ active.type = "close" /\ v \notin Locked
           /\ row' = CloseInactive(v) /\ UNCHANGED jobs
  <2>1. /\ Rewritten /\ (v \in Protocol => ~ Alive(row'[v]) /\ row'[v].stage = row[v].stage)
        /\ \A w \in Protocol : w # v => row'[w] = row[w]
    <3>1. CASE v \in Protocol /\ Alive(row[v])
      <4> DEFINE y == [ClosedBySystem(row[v]) EXCEPT !.wait = "no"]
      <4>1. row[v] \in RowType /\ (row[v].stage = "done" => row[v].csat = "no")
        BY <3>1 DEF IInv, RowsTyped
      <4>2. Wrote(row[v], y) /\ y.status = "closed" /\ y.stage = row[v].stage
        BY <3>1, <4>1, ClosedBySystemRow
      <4>3. row' = [row EXCEPT ![v] = y]
        BY <1>5, <3>1 DEF CloseInactive
      <4> HIDE DEF y
      <4> QED
        BY <3>1, <4>2, <4>3, OneRow DEF IInv, Alive
    <3>2. CASE ~ (v \in Protocol /\ Alive(row[v]))
      <4>1. row' = row
        <5>1. CASE v \notin Protocol
          BY <1>5, <5>1 DEF CloseInactive, IInv, RowsTyped
        <5>2. CASE ~ Alive(row[v])
          BY <1>5, <5>2 DEF CloseInactive
        <5> QED
          BY <3>2, <5>1, <5>2
      <4> QED
        BY <3>2, <4>1, SameRows DEF IInv
    <3> QED
      BY <3>1, <3>2
  <2>2. ClockTyped'
    BY <1>1, <1>2, <1>5 DEF IInv, ClockTyped
  <2>3. InTime'
    BY <1>1, <1>2, <1>5, <2>1 DEF IInv, InTime, Watching, UnderWay, Protocol
  <2>4. /\ \A w \in survey : row'[w].stage = row[w].stage
        /\ \A w \in hook.expired : row'[w] = row[w]
    BY <1>5, <2>1 DEF Locked, IInv, PollsTyped, HookTyped
  <2>5. thinking' \subseteq Used
    BY <1>1 DEF IInv, Fresh, ClockTyped
  <2> QED
    BY <1>1, <2>1, <2>2, <2>3, <2>4, <2>5, NoRequest, Frame
<1> QED
  BY <1>3, <1>4, <1>5 DEF FinishJob

\* A sweep writes each row by itself.
LEMMA SweepKeeps ==
    ASSUME IInv, row' = [v \in Protocol |-> row'[v]],
           \A v \in Protocol :
              row'[v] = row[v] \/ (v \notin Locked /\ Wrote(row[v], row'[v]) /\ ~ Alive(row'[v])),
           UNCHANGED <<stored, inbox, hook, thinking, away, moves, clock, polls>>,
           old' \in {0, old}
    PROVE  IInv' /\ Classified
<1>1. \A v \in Protocol : Wrote(row[v], row'[v]) /\ row'[v] \in RowType
  BY SameRow DEF IInv, Wrote
<1>2. Rewritten
  BY <1>1 DEF Rewritten
<1>3. /\ \A w \in survey : row'[w].stage = row[w].stage
      /\ \A w \in hook.expired : row'[w] = row[w]
  BY DEF Locked, IInv, PollsTyped, HookTyped
<1>4. inbox' \in 0..MaxDeliveries
  BY DEF IInv, MessagesTyped
<1> QED
  BY <1>2, <1>3, <1>4, Aside

LEMMA WaitingExpiryKeeps == ASSUME IInv, WaitingExpiry PROVE IInv' /\ Classified
<1>1. /\ row' = [v \in Protocol |->
                   IF WaitOver(row[v]) /\ v \notin Locked
                   THEN [ClosedBySystem(row[v]) EXCEPT !.wait = "no"] ELSE row[v]]
      /\ UNCHANGED <<stored, inbox, hook, thinking, away, old, moves, clock, polls>>
  BY DEF WaitingExpiry
<1>2. ASSUME NEW v \in Protocol, WaitOver(row[v])
      PROVE  /\ Wrote(row[v], [ClosedBySystem(row[v]) EXCEPT !.wait = "no"])
             /\ ~ Alive([ClosedBySystem(row[v]) EXCEPT !.wait = "no"])
  <2>1. /\ row[v] \in RowType /\ (row[v].stage = "done" => row[v].csat = "no") /\ Alive(row[v])
    BY <1>2 DEF IInv, RowsTyped, WaitOver, Alive
  <2>2. [ClosedBySystem(row[v]) EXCEPT !.wait = "no"].status = "closed"
    BY <2>1, ClosedBySystemRow
  <2> QED
    BY <2>1, <2>2, ClosedBySystemRow DEF Alive
<1>3. \A v \in Protocol :
         row'[v] = row[v] \/ (v \notin Locked /\ Wrote(row[v], row'[v]) /\ ~ Alive(row'[v]))
  BY <1>1, <1>2
<1> QED
  BY <1>1, <1>3, SweepKeeps

LEMMA CleanupCsatKeeps == ASSUME IInv, CleanupCsat PROVE IInv' /\ Classified
<1>1. /\ row' = [v \in Protocol |->
                   IF Surveying(row[v]) /\ row[v].csat = "behind" /\ v \notin Locked
                   THEN SurveyOver(row[v]) ELSE row[v]]
      /\ UNCHANGED <<stored, inbox, hook, thinking, away, old, moves, clock, polls>>
  BY DEF CleanupCsat
<1>2. ASSUME NEW v \in Protocol, Surveying(row[v])
      PROVE  Wrote(row[v], SurveyOver(row[v])) /\ ~ Alive(SurveyOver(row[v]))
  <2>1. row[v].status # "none"
    BY <1>2 DEF IInv, Fresh, Used, NoRow, Surveying
  <2>2. row[v] \in RowType /\ (row[v].stage = "done" => row[v].csat = "no")
    BY DEF IInv, RowsTyped
  <2> QED
    BY <2>1, <2>2, SurveyOverRow DEF Alive
<1>3. \A v \in Protocol :
         row'[v] = row[v] \/ (v \notin Locked /\ Wrote(row[v], row'[v]) /\ ~ Alive(row'[v]))
  BY <1>1, <1>2
<1> QED
  BY <1>1, <1>3, SweepKeeps

LEMMA SelectOldKeeps == ASSUME IInv, NEW v \in Protocol, SelectOld(v) PROVE IInv' /\ Classified
<1>1. /\ row[v].status = "open" /\ old' = v
      /\ UNCHANGED <<row, stored, inbox, hook, thinking, away, moves, clock, polls>>
  BY DEF SelectOld
<1>2. Rewritten /\ inbox' \in 0..MaxDeliveries
  BY <1>1, SameRows DEF IInv, MessagesTyped
<1>3. v \in Used
  BY <1>1 DEF Used
<1> QED
  BY <1>1, <1>2, <1>3, Aside

LEMMA CloseOldKeeps == ASSUME IInv, CloseOld PROVE IInv' /\ Classified
<1>1. /\ old # 0 /\ old \notin Locked /\ old' = 0
      /\ row' = IF row[old].status = "open" THEN [row EXCEPT ![old] = ClosedBySystem(@)] ELSE row
      /\ UNCHANGED <<stored, inbox, hook, thinking, away, moves, clock, polls>>
  BY DEF CloseOld
<1>2. old \in Protocol
  BY <1>1, ConversationAssumption DEF IInv, ClockTyped, Protocol
<1>3. row[old].status = "open" => /\ Wrote(row[old], ClosedBySystem(row[old]))
                                  /\ ~ Alive(ClosedBySystem(row[old]))
  <2>1. row[old] \in RowType /\ (row[old].stage = "done" => row[old].csat = "no")
    BY <1>2 DEF IInv, RowsTyped
  <2>2. row[old].status = "open" => Alive(row[old])
    BY DEF Alive
  <2> QED
    BY <2>1, <2>2, ClosedBySystemRow DEF Alive
<1>4. /\ row' = [v \in Protocol |-> row'[v]]
      /\ \A v \in Protocol :
         row'[v] = row[v] \/ (v \notin Locked /\ Wrote(row[v], row'[v]) /\ ~ Alive(row'[v]))
  BY <1>1, <1>2, <1>3 DEF IInv, RowsTyped
<1> QED
  BY <1>1, <1>4, SweepKeeps

-----------------------------------------------------------------------------
LEMMA StepKeeps ==
    ASSUME IInv, [Next]_vars
    PROVE  IInv' /\ Classified
<1>1. CASE UNCHANGED vars
  <2>1. UNCHANGED <<row, stored, inbox, hook, after, thinking, away, jobs, active, idle, old,
                    asks, survey, moves, surveys, losses, excused>>
    BY <1>1 DEF vars
  <2>2. Rewritten /\ inbox' \in 0..MaxDeliveries
    BY <2>1, SameRows DEF IInv, MessagesTyped
  <2> QED
    BY <2>1, <2>2, Aside DEF clock, polls
<1>2. CASE Webhook
  BY <1>2, ResolveKeeps, DuplicateKeeps, RollbackKeeps, CloseByKeywordKeeps, StartKeeps,
     AnswerSurveyKeeps, WaitingReturnKeeps, TalkKeeps, OutsideHoursKeeps, CloseOutsideHoursKeeps
     DEF Webhook
<1>3. CASE ByHand
  BY <1>3, CreateConversationKeeps, AssignConversationKeeps, TransferConversationKeeps,
     CloseConversationKeeps, SendMessageKeeps, UpdateConversationKeeps DEF ByHand
<1>4. CASE Sweeps
  BY <1>4, TickKeeps, FinishJobKeeps, WaitingExpiryKeeps, CleanupCsatKeeps, CloseOldKeeps,
     DeadlinePassesKeeps, SelectOldKeeps, StartJobKeeps DEF Sweeps
<1> QED
  BY <1>1, <1>2, <1>3, <1>4, CancelWatchKeeps, RestartWatchKeeps, AITurnKeeps, SendCsatKeeps,
     RecordCsatKeeps, LoseCsatKeeps DEF Next

LEMMA Invariance == Spec => []IInv
<1>1. IInv /\ [Next]_vars => IInv'
  BY StepKeeps
<1> QED
  BY <1>1, InitIInv, PTL DEF Spec
LEMMA StepStays ==
    ASSUME IInv, Next
    PROVE  \A v \in Protocol : row[v].status = "closed" /\ Alive(row'[v]) =>
              moves' # moves \/ (hook.v = v /\ Alive(hook.saw)) \/ v \in thinking
<1> DEFINE Stays == \A v \in Protocol : row[v].status = "closed" /\ Alive(row'[v]) =>
                       moves' # moves \/ (hook.v = v /\ Alive(hook.saw)) \/ v \in thinking
<1>1. ASSUME UNCHANGED row PROVE Stays
  BY <1>1 DEF Alive
<1>2. ASSUME Moved PROVE Stays
  BY <1>2 DEF Moved, IInv, PollsTyped
<1>3. ASSUME \A v \in Protocol : row[v].status = "closed" => ~ Alive(row'[v]) \/ row'[v] = row[v]
      PROVE  Stays
  BY <1>3 DEF Alive
<1>4. \A v \in Protocol : row[v].status = "closed" => Seen(hook.expired)[v] = row[v]
  BY SeenRows
<1>5. row \in [Protocol -> RowType]
  BY DEF IInv, RowsTyped
<1>6. ASSUME Webhook PROVE Stays
  <2>1. CASE (\E m \in Msg : Resolve(m)) \/ Rollback \/ OutsideHours
    BY <1>1, <2>1 DEF Resolve, Rollback, OutsideHours
  <2>2. CASE Duplicate
    BY <1>3, <1>4, <2>2 DEF Duplicate
  <2>3. CASE CloseByKeyword
    <3>1. /\ hook.v \in Protocol /\ Seen(hook.expired)[hook.v] \in RowType
          /\ row' = [Seen(hook.expired) EXCEPT ![hook.v] = Finished(@)]
      BY <2>3, HookRow DEF CloseByKeyword
    <3>2. Finished(Seen(hook.expired)[hook.v]).status = "closed"
      BY <3>1 DEF Finished, RowType
    <3>3. Seen(hook.expired) \in [Protocol -> RowType]
      BY SeenRows
    <3> QED
      BY <1>3, <1>4, <3>1, <3>2, <3>3 DEF Alive
  <2>4. CASE Start
    <3>1. \A v \in Protocol : row'[v]
             = IF v = Next_v THEN [NoRow EXCEPT !.status = "open", !.opener = hook.msg]
               ELSE IF v = hook.v THEN SurveyOver(row[v]) ELSE Seen(hook.expired)[v]
      BY <2>4 DEF Start
    <3>2. \A v \in Protocol : row[v].status = "closed" => v # Next_v
      BY NextIsNew DEF Used
    <3>3. \A v \in Protocol : row[v].status = "closed" => SurveyOver(row[v]).status = "closed"
      BY SurveyOverRow DEF IInv, RowsTyped
    <3> QED
      BY <1>3, <1>4, <3>1, <3>2, <3>3 DEF Alive
  <2>5. CASE AnswerSurvey
    <3>1. hook.v \in Protocol /\ Seen(hook.expired)[hook.v] \in RowType
      BY <2>5, HookRow DEF AnswerSurvey
    <3> DEFINE x == Seen(hook.expired)[hook.v]
    <3>2. PICK y \in Answered(x) \cup {x} : row' = [Seen(hook.expired) EXCEPT ![hook.v] = y]
      BY <2>5 DEF AnswerSurvey
    <3>3. x.status = "closed" => y.status = "closed"
      <4>1. x.status = "closed" => SurveyOver(x).status = "closed"
        BY <3>1, SeenRows, SurveyOverRow
      <4> QED
        BY <3>1, <3>2, <4>1 DEF Answered, RowType
    <3>4. /\ row'[hook.v] = y
          /\ \A v \in Protocol : v # hook.v => row'[v] = Seen(hook.expired)[v]
      BY <3>1, <3>2, SeenRows
    <3> QED
      BY <1>3, <1>4, <3>1, <3>3, <3>4 DEF Alive
  <2>6. CASE WaitingReturn \/ Talk
    <3>1. Alive(hook.saw) /\ hook.v \in Protocol
      BY <2>6, HookRow DEF WaitingReturn, Talk, Alive
    <3>2. \A v \in Protocol : v # hook.v => row'[v] = Seen(hook.expired)[v]
      BY <2>6, <3>1, SeenRows DEF WaitingReturn, Talk
    <3> QED
      BY <1>4, <3>1, <3>2 DEF Alive
  <2>7. CASE CloseOutsideHours
    <3>1. \/ row' = row
          \/ Alive(row[away]) /\ row' = [row EXCEPT ![away].status = "closed"]
      BY <2>7 DEF CloseOutsideHours
    <3> QED
      BY <1>3, <1>5, <3>1 DEF Alive
  <2> QED
    BY <1>6, <2>1, <2>2, <2>3, <2>4, <2>5, <2>6, <2>7 DEF Webhook
<1>7. ASSUME ByHand PROVE Stays
  BY <1>2, <1>7 DEF ByHand, CreateConversation, AssignConversation, TransferConversation,
     CloseConversation, SendMessage, UpdateConversation
<1>8. ASSUME Sweeps PROVE Stays
  <2>1. CASE Tick \/ (\E v \in Protocol : SelectOld(v)
                        \/ \E type \in {"warning", "close"} : StartJob(v, type))
    BY <1>1, <2>1 DEF Tick, SelectOld, StartJob
  <2>2. CASE FinishJob
    <3>1. row' = row \/ (Alive(row[active.v]) /\ \E y : row' = [row EXCEPT ![active.v] = y])
      BY <2>2 DEF FinishJob, CloseInactive
    <3> QED
      BY <1>3, <1>5, <3>1 DEF Alive
  <2>3. CASE WaitingExpiry
    BY <1>3, <2>3 DEF WaitingExpiry, WaitOver
  <2>4. CASE CleanupCsat
    <3>1. \A v \in Protocol : row'[v] = row[v] \/ (Surveying(row[v]) /\ row'[v] = SurveyOver(row[v]))
      BY <2>4 DEF CleanupCsat
    <3>2. \A v \in Protocol : row[v].status = "closed" => SurveyOver(row[v]).status = "closed"
      BY SurveyOverRow DEF IInv, RowsTyped
    <3> QED
      BY <1>3, <3>1, <3>2 DEF Alive
  <2>5. CASE CloseOld
    <3>1. row' = row \/ (row[old].status = "open" /\ \E y : row' = [row EXCEPT ![old] = y])
      BY <2>5 DEF CloseOld
    <3> QED
      BY <1>3, <1>5, <3>1 DEF Alive
  <2>6. ASSUME NEW v \in Protocol, DeadlinePasses(v) PROVE Stays
    <3>1. row'[v].status = row[v].status /\ \A w \in Protocol : w # v => row'[w] = row[w]
      BY <1>5, <2>6 DEF DeadlinePasses, RowType
    <3> QED
      BY <1>3, <3>1 DEF Alive
  <2> QED
    BY <1>8, <2>1, <2>2, <2>3, <2>4, <2>5, <2>6 DEF Sweeps
<1>9. ASSUME NEW v \in Protocol, AITurn(v) PROVE Stays
  <2>1. v \in thinking /\ \A w \in Protocol : w # v => row'[w] = row[w]
    BY <1>9 DEF AITurn, IInv, RowsTyped
  <2> QED
    BY <2>1 DEF Alive
<1>10. ASSUME NEW v \in Protocol, RecordCsat(v) PROVE Stays
  <2>1. row'[v].status = row[v].status /\ \A w \in Protocol : w # v => row'[w] = row[w]
    BY <1>5, <1>10 DEF RecordCsat, RowType
  <2> QED
    BY <1>3, <2>1 DEF Alive
<1>11. ASSUME NEW v \in Protocol, CancelWatch(v) \/ RestartWatch(v) \/ SendCsat(v) \/ LoseCsat(v)
       PROVE  Stays
  BY <1>1, <1>11 DEF CancelWatch, RestartWatch, SendCsat, LoseCsat
<1> HIDE DEF Stays
<1>12. Stays
  BY <1>6, <1>7, <1>8, <1>9, <1>10, <1>11 DEF Next
<1> QED
  BY <1>12 DEF Stays

LEMMA StepStores ==
    ASSUME IInv, Next
    PROVE  \A m \in Msg : stored[m] = 0 /\ stored'[m] # 0 =>
              \/ Alive(row'[stored'[m]])
              \/ Surveying(hook.saw) /\ hook.saw.csat # "behind"
              \/ Alive(hook.saw)
<1>1. CASE UNCHANGED stored
  BY <1>1
<1>2. CASE Start
  <2>1. /\ Handling /\ Next_v \in Protocol /\ stored' = [stored EXCEPT ![hook.msg] = Next_v]
        /\ row'[Next_v] = [NoRow EXCEPT !.status = "open", !.opener = hook.msg]
    BY <1>2 DEF Start, Store
  <2>2. Alive(row'[Next_v])
    BY <2>1 DEF Alive, NoRow
  <2>3. \A m \in Msg : stored'[m] = stored[m] \/ stored'[m] = Next_v
    BY <2>1 DEF IInv, MessagesTyped
  <2> QED
    BY <2>2, <2>3
<1>3. CASE AnswerSurvey
  BY <1>3 DEF AnswerSurvey, Lapsed
<1>4. CASE WaitingReturn \/ Talk
  BY <1>4 DEF WaitingReturn, Talk, Alive
<1>5. CASE Webhook
  BY <1>1, <1>2, <1>3, <1>4, <1>5 DEF Webhook, Resolve, Duplicate, Rollback, CloseByKeyword,
     OutsideHours, CloseOutsideHours
<1>6. CASE ByHand \/ Sweeps
  BY <1>1, <1>6 DEF ByHand, Sweeps, CreateConversation, AssignConversation,
     TransferConversation, CloseConversation, SendMessage, UpdateConversation, Tick, FinishJob,
     WaitingExpiry, CleanupCsat, CloseOld, DeadlinePasses, SelectOld, StartJob
<1>7. CASE \E v \in Protocol : \/ CancelWatch(v) \/ RestartWatch(v) \/ AITurn(v)
                               \/ SendCsat(v) \/ RecordCsat(v) \/ LoseCsat(v)
  BY <1>1, <1>7 DEF CancelWatch, RestartWatch, AITurn, SendCsat, RecordCsat, LoseCsat
<1> QED
  BY <1>5, <1>6, <1>7 DEF Next

\* Rows, messages, jobs and handlers stay within their types, and a survey that
\* is over has no window left open, whatever was under way when it ended.
THEOREM ConversationTypes == Spec => []ConversationTypeOK
<1>1. IInv => ConversationTypeOK
  BY DEF IInv, RowsTyped, HookTyped, MessagesTyped, PollsTyped, ClockTyped, ConversationTypeOK
<1> QED
  BY <1>1, Invariance, PTL

\* However many requests close a conversation, its contact is asked once, but
\* for the texts whose transaction failed after they had gone out.
THEOREM ContactsAskedOnce == Spec => []SurveyedOnce
<1>1. IInv => SurveyedOnce
  BY DEF IInv, Polls, Polled, PollsTyped, SurveyedOnce
<1> QED
  BY <1>1, Invariance, PTL

\* A message opens one conversation at most, however often it is delivered and
\* whatever has become of the conversation it was stored in.
THEOREM MessagesOpenOnce == Spec => []OpenedOnce
<1>1. IInv => OpenedOnce
  BY DEF IInv
<1> QED
  BY <1>1, Invariance, PTL

\* Every conversation that is alive and not excused has a job in the queue or
\* under way that will close it, or a handler that will put one there.
THEOREM LiveAreWatched == Spec => []Watched
<1>1. IInv => Watched
  BY DEF IInv, InTime, Watching, Watched
<1> QED
  BY <1>1, Invariance, PTL

\* No later closing takes the agent's classification.
THEOREM ClassificationLasts == Spec => ClassificationKept
<1>1. IInv /\ [Next]_vars => [Classified]_vars
  BY StepKeeps
<1> QED
  BY <1>1, Invariance, PTL DEF Spec, ClassificationKept, Classified

\* No message is stored where nobody would see it, unless its conversation is
\* closed while the message is being handled.
THEOREM MessagesAreSeen == Spec => NotBuried
<1>1. IInv /\ [Next]_vars =>
        [\A m \in Msg : stored[m] = 0 /\ stored'[m] # 0 =>
            \/ Alive(row'[stored'[m]])
            \/ Surveying(hook.saw) /\ hook.saw.csat # "behind"
            \/ Alive(hook.saw)]_vars
  BY StepStores
<1> QED
  BY <1>1, Invariance, PTL DEF Spec, NotBuried

\* A closed conversation comes back to life by an agent's hand only, or because
\* it was closed under a message or a turn of the AI agent.
THEOREM ClosedStayClosed == Spec => StaysClosed
<1>1. IInv /\ [Next]_vars =>
        [\A v \in Protocol : row[v].status = "closed" /\ Alive(row'[v]) =>
            moves' # moves \/ (hook.v = v /\ Alive(hook.saw)) \/ v \in thinking]_vars
  BY StepStays
<1> QED
  BY <1>1, Invariance, PTL DEF Spec, StaysClosed
=============================================================================

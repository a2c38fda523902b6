------------------------------ MODULE Campaign ------------------------------
(***************************************************************************)
(* One WhatsApp campaign: the HTTP handlers of campaigns.service.ts, the   *)
(* dispatcher (campaign-send.job.ts), the scheduler, the message worker    *)
(* (send-message.job.ts), the provider's status webhooks and the replies   *)
(* of the contacts.                                                        *)
(*                                                                         *)
(* The dispatcher is one BullMQ worker with concurrency 1; the message     *)
(* worker and the webhooks overlap freely and every statement of theirs    *)
(* commits by itself.  An HTTP handler reads the campaign and writes it in *)
(* one transaction: the write appears at the commit, but the job that      *)
(* launch and resume add is in the queue before it.                        *)
(***************************************************************************)
EXTENDS Integers, FiniteSets

CONSTANTS
    Contact,
    NoContact,
    Request,      \* HTTP requests that may overlap
    Ops,          \* bound: the HTTP operations of the instance
    World,        \* bound: the failures and answers from outside in the instance
    DailyLimit,   \* campaigns.daily_limit
    BatchSize,    \* BATCH_SIZE
    MaxAttempts,  \* CAMPAIGN_MESSAGE_ATTEMPTS
    MaxJobs,      \* bound: campaign-send jobs waiting at a time
    MaxRestarts   \* bound: restarts of the API process

ASSUME CampaignAssumption ==
    /\ IsFiniteSet(Contact) /\ NoContact \notin Contact
    /\ {DailyLimit, BatchSize, MaxAttempts} \subseteq Nat \ {0}
    /\ {MaxJobs, MaxRestarts} \subseteq Nat

VARIABLES
    status,     \* campaigns.status
    count,      \* campaigns.sent_count, delivered_count, read_count, ...
    due,        \* increments whose second statement is still to come
    cc,         \* cc[c]: the row of campaign_contacts
    optouts,    \* campaign_optouts
    talk,       \* talk[c]: the conversation the dispatcher opened for c
    closing,    \* conversations closeFailedInitialOutbound is to look at
    msg,        \* msg[c]: the 'send' job of c's message, and its external_id
    sender,     \* the dispatcher
    queue,      \* campaign-send jobs waiting
    resumed,    \* the scheduler's resume job of today exists
    req,        \* req[r]: what request r has read
    restarts

vars == <<status, count, due, cc, optouts, talk, closing, msg, sender, queue,
          resumed, req, restarts>>

desk == <<optouts, talk, closing>>
dispatch == <<sender, queue, resumed>>

Kinds == {"sent", "delivered", "read", "replied", "failed"}

\* "none": no row.  at: which of sent_at, delivered_at, ... are set; today:
\* sent_at falls on CURRENT_DATE; fetched: the dispatcher has read this row and
\* has its id (not that of a row deleted since); added: 'send' jobs published
\* for the row, which holds their conversation_id.
NoRow == [status |-> "none", at |-> {}, today |-> FALSE, fetched |-> FALSE, added |-> 0]

RowType == [status : Kinds \cup {"none", "pending", "queued", "opted_out"},
            at : SUBSET Kinds, today : BOOLEAN, fetched : BOOLEAN, added : Nat]

MsgType == [pc : {"none", "wait", "accepted", "known", "rejected", "done"},
            tries : 0..(MaxAttempts - 1), known : BOOLEAN]

SenderType == [pc : {"idle", "check", "count", "fetch", "next", "queue", "publish",
                     "tally"},
               room : Nat, batch : SUBSET Contact, c : Contact \cup {NoContact}]

ReqType == [op : Ops \cup {"idle"}, c : Contact \cup {NoContact}, enqueued : BOOLEAN]

CampaignTypeOK ==
    /\ status \in {"draft", "scheduled", "running", "paused", "cancelled", "completed"}
    /\ count \in [Kinds -> Nat] /\ due \in [Kinds -> Nat]
    /\ cc \in [Contact -> RowType]
    /\ optouts \subseteq Contact /\ closing \subseteq Contact
    /\ talk \in [Contact -> {"none", "waiting", "open", "closed"}]
    /\ msg \in [Contact -> MsgType]
    /\ sender \in SenderType
    /\ queue \in Nat /\ resumed \in BOOLEAN
    /\ req \in [Request -> ReqType]
    /\ restarts \in Nat

Rest == [pc |-> "idle", room |-> 0, batch |-> {}, c |-> NoContact]
NoRequest == [op |-> "idle", c |-> NoContact, enqueued |-> FALSE]

Init ==
    /\ status = "draft"
    /\ count = [k \in Kinds |-> 0] /\ due = [k \in Kinds |-> 0]
    /\ cc = [c \in Contact |-> NoRow]
    /\ optouts = {} /\ closing = {}
    /\ talk = [c \in Contact |-> "none"]
    /\ msg = [c \in Contact |-> [pc |-> "none", tries |-> 0, known |-> FALSE]]
    /\ sender = Rest /\ queue = 0 /\ resumed = FALSE
    /\ req = [r \in Request |-> NoRequest]
    /\ restarts = 0

-----------------------------------------------------------------------------
(* Rows.                                                                   *)

InStatus(s) == {c \in Contact : cc[c].status \in s}

\* The row takes status k and its timestamp, as sent_at, failed_at, ...
Marked(row, k) ==
    [row EXCEPT !.status = k, !.at = @ \cup {k},
                !.today = @ \/ (k = "sent" /\ "sent" \notin row.at)]

\* UPDATE campaign_contacts SET status = k WHERE status IN from RETURNING:
\* the counter follows in a statement of its own if a row came back.
Track(c, from, k) ==
    IF cc[c].status \in from
    THEN /\ cc' = [cc EXCEPT ![c] = Marked(@, k)]
         /\ due' = [due EXCEPT ![k] = @ + 1]
    ELSE UNCHANGED <<cc, due>>

\* The worker and the status webhook look for the row by the conversation_id
\* of the message: a row that was deleted and added again has none yet.
TrackMessage(c, from, k) == Track(c, IF cc[c].added > 0 THEN from ELSE {}, k)

\* completeCampaignIfSettled.
Settled(rows) == \A c \in Contact : rows[c].status \notin {"pending", "queued"}
CompleteIfSettled(s, rows) == IF s = "running" /\ Settled(rows) THEN "completed" ELSE s

\* The counter, and for sent and failed the completion of the campaign.
Tally(k) ==
    /\ due[k] > 0
    /\ due' = [due EXCEPT ![k] = @ - 1]
    /\ count' = [count EXCEPT ![k] = @ + 1]
    /\ status' = IF k \in {"sent", "failed"} THEN CompleteIfSettled(status, cc) ELSE status
    /\ UNCHANGED <<cc, desk, msg, dispatch, req, restarts>>

-----------------------------------------------------------------------------
(* HTTP: addContacts, removeContact, launch, pause, resume, cancel.        *)

AllowedIn(op) ==
    CASE op \in {"add", "remove", "launch", "schedule"} -> {"draft"}
      [] op = "pause" -> {"running"}
      [] op = "resume" -> {"paused"}
      [] op = "cancel" -> {"draft", "scheduled", "running", "paused"}

\* The handler reads the campaign and checks its status.
Begin(r, op, c) ==
    /\ req[r] = NoRequest
    /\ status \in AllowedIn(op)
    /\ op \in {"launch", "schedule"} => InStatus({"none"}) # Contact
    /\ (c # NoContact) = (op \in {"add", "remove"})
    /\ req' = [req EXCEPT ![r] = [op |-> op, c |-> c, enqueued |-> FALSE]]
    /\ UNCHANGED <<status, count, due, cc, desk, msg, dispatch, restarts>>

\* launch and resume add the job inside the request's transaction.
Enqueue(r) ==
    /\ req[r].op \in {"launch", "resume"} /\ ~ req[r].enqueued
    /\ queue < MaxJobs
    /\ queue' = queue + 1
    /\ req' = [req EXCEPT ![r].enqueued = TRUE]
    /\ UNCHANGED <<status, count, due, cc, desk, msg, sender, resumed, restarts>>

StatusAfter(op) ==
    CASE op \in {"launch", "resume"} -> "running"
      [] op = "schedule" -> "scheduled"
      [] op = "pause" -> "paused"
      [] op = "cancel" -> "cancelled"
      [] OTHER -> status

RowsAfter(op, c) ==
    CASE op = "add" /\ cc[c].status = "none" -> [cc EXCEPT ![c].status = "pending"]
      [] op = "remove" -> [cc EXCEPT ![c] = NoRow]
      [] OTHER -> cc

\* Mutant of Commit: the UPDATE of pause, resume, ... puts queued rows back.
CommitRequeues(r) ==
    LET op == req[r].op IN
    /\ op # "idle"
    /\ op \in {"launch", "resume"} => req[r].enqueued
    /\ status' = StatusAfter(op)
    /\ cc' = [c \in Contact |->
                 IF op = "resume" /\ cc[c].status = "queued"
                 THEN [cc[c] EXCEPT !.status = "pending"] ELSE RowsAfter(op, req[r].c)[c]]
    /\ req' = [req EXCEPT ![r] = NoRequest]
    /\ UNCHANGED <<count, due, desk, msg, dispatch, restarts>>

\* The unguarded UPDATE, INSERT or DELETE becomes visible.
Commit(r) ==
    LET op == req[r].op IN
    /\ op # "idle"
    /\ op \in {"launch", "resume"} => req[r].enqueued
    /\ status' = StatusAfter(op)
    /\ cc' = RowsAfter(op, req[r].c)
    /\ req' = [req EXCEPT ![r] = NoRequest]
    /\ UNCHANGED <<count, due, desk, msg, dispatch, restarts>>

-----------------------------------------------------------------------------
(* campaign-scheduler: every 5 minutes.                                    *)

StartScheduled ==
    /\ status = "scheduled" /\ queue < MaxJobs
    /\ status' = "running"
    /\ queue' = queue + 1
    /\ UNCHANGED <<count, due, cc, desk, msg, sender, resumed, req, restarts>>

\* Mutant of ResumeRunning: every running campaign is taken to have its job.
ResumeNever ==
    /\ FALSE
    /\ UNCHANGED vars

\* A running campaign with pending rows, nothing sent today and nothing
\* queued: one resume job a day, told apart by its jobId.
ResumeRunning ==
    /\ status = "running" /\ ~ resumed /\ queue < MaxJobs
    /\ InStatus({"pending"}) # {} /\ InStatus({"queued"}) = {}
    /\ \A c \in Contact : ~ cc[c].today
    /\ resumed' = TRUE
    /\ queue' = queue + 1
    /\ UNCHANGED <<status, count, due, cc, desk, msg, sender, req, restarts>>

\* CURRENT_DATE changes.
NextDay ==
    /\ cc' = [c \in Contact |-> [cc[c] EXCEPT !.today = FALSE]]
    /\ resumed' = FALSE
    /\ UNCHANGED <<status, count, due, desk, msg, sender, queue, req, restarts>>

-----------------------------------------------------------------------------
(* campaign-send: the dispatcher.                                          *)

\* The job reads the campaign; a channel or template that is gone cancels it.
StartJob ==
    /\ sender = Rest /\ queue > 0
    /\ queue' = queue - 1
    /\ \/ /\ status = "running"
          /\ sender' = [Rest EXCEPT !.pc = "check"]
          /\ UNCHANGED status
       \/ /\ status # "running" \/ "quota" \in World
          /\ UNCHANGED <<sender, status>>
       \/ /\ status = "running" /\ "unavailable" \in World
          /\ status' = "cancelled"
          /\ UNCHANGED sender
    /\ UNCHANGED <<count, due, cc, desk, msg, resumed, req, restarts>>

CheckStatus ==
    /\ sender.pc = "check"
    /\ sender' = IF status = "running" THEN [sender EXCEPT !.pc = "count"] ELSE Rest
    /\ UNCHANGED <<status, count, due, cc, desk, msg, queue, resumed, req, restarts>>

\* Rows that use up today's limit: queued, or sent today.
UsedToday == {c \in Contact : cc[c].status = "queued" \/ cc[c].today}

\* Mutant of CheckLimit: only what was sent today counts.
CheckLimitSentOnly ==
    LET remaining == DailyLimit - Cardinality({c \in Contact : cc[c].today}) IN
    /\ sender.pc = "count"
    /\ sender' = IF remaining <= 0 THEN Rest
                 ELSE [sender EXCEPT !.pc = "fetch", !.room = remaining]
    /\ UNCHANGED <<status, count, due, cc, desk, msg, queue, resumed, req, restarts>>

CheckLimit ==
    LET remaining == DailyLimit - Cardinality(UsedToday) IN
    /\ sender.pc = "count"
    /\ sender' = IF remaining <= 0 THEN Rest
                 ELSE [sender EXCEPT !.pc = "fetch", !.room = remaining]
    /\ UNCHANGED <<status, count, due, cc, desk, msg, queue, resumed, req, restarts>>

\* The next batch; when there is none, the rows of opted-out contacts are
\* closed and the campaign may be complete.
FetchBatch ==
    LET pending == InStatus({"pending"}) \ optouts
        limit == IF sender.room < BatchSize THEN sender.room ELSE BatchSize
        size == IF Cardinality(pending) < limit THEN Cardinality(pending) ELSE limit
    IN
    /\ sender.pc = "fetch"
    /\ IF pending = {}
       THEN /\ cc' = [c \in Contact |->
                         IF cc[c].status = "pending" /\ c \in optouts
                         THEN [cc[c] EXCEPT !.status = "opted_out"] ELSE cc[c]]
            /\ status' = CompleteIfSettled(status, cc')
            /\ sender' = Rest
       ELSE /\ \E batch \in SUBSET pending :
                  /\ Cardinality(batch) = size
                  /\ cc' = [c \in Contact |-> IF c \in batch
                                              THEN [cc[c] EXCEPT !.fetched = TRUE] ELSE cc[c]]
                  /\ sender' = [sender EXCEPT !.pc = "next", !.batch = batch]
            /\ UNCHANGED status
    /\ UNCHANGED <<count, due, desk, msg, queue, resumed, req, restarts>>

\* Mutant of Fail: the catch counts the failure and leaves the row as it is.
FailUnmarked(c) ==
    /\ cc' = cc
    /\ sender' = [sender EXCEPT !.pc = "tally", !.c = c, !.batch = @ \ {c}]

\* The catch of a contact, and a contact without a phone: failed, whatever
\* the row has become since the batch was read, if it is still there.
Fail(c) ==
    /\ cc' = [cc EXCEPT ![c] = IF @.fetched THEN Marked(@, "failed") ELSE @]
    /\ sender' = [sender EXCEPT !.pc = "tally", !.c = c, !.batch = @ \ {c}]

\* The next contact of the batch: its conversation and first message.
NextContact ==
    /\ sender.pc = "next"
    /\ IF sender.batch = {}
       THEN /\ sender' = [Rest EXCEPT !.pc = "check"]
            /\ UNCHANGED <<cc, talk>>
       ELSE \E c \in sender.batch :
            \/ /\ talk' = [talk EXCEPT ![c] = "waiting"]
               /\ sender' = [sender EXCEPT !.pc = "queue", !.c = c, !.batch = @ \ {c}]
               /\ UNCHANGED cc
            \/ /\ "nophone" \in World
               /\ Fail(c)
               /\ UNCHANGED talk
    /\ UNCHANGED <<status, count, due, optouts, closing, msg, queue, resumed, req, restarts>>

\* Marked as queued before the job is published.
MarkQueued ==
    /\ sender.pc = "queue"
    /\ cc' = [cc EXCEPT ![sender.c].status = IF cc[sender.c].fetched THEN "queued" ELSE @]
    /\ sender' = [sender EXCEPT !.pc = "publish"]
    /\ UNCHANGED <<status, count, due, desk, msg, queue, resumed, req, restarts>>

\* messageQueue.add, or its failure: the conversation is closed again.
Publish ==
    LET c == sender.c IN
    /\ sender.pc = "publish"
    /\ \/ /\ msg' = [msg EXCEPT ![c] = [pc |-> "wait", tries |-> 0, known |-> FALSE]]
          /\ cc' = [cc EXCEPT ![c].added = IF cc[c].fetched THEN @ + 1 ELSE @]
          /\ sender' = [sender EXCEPT !.pc = "next", !.c = NoContact]
          /\ UNCHANGED talk
       \/ /\ "add" \in World
          /\ Fail(c)
          /\ talk' = [talk EXCEPT ![c] = IF @ = "waiting" THEN "closed" ELSE @]
          /\ UNCHANGED msg
    /\ UNCHANGED <<status, count, due, optouts, closing, queue, resumed, req, restarts>>

TallyFailed ==
    /\ sender.pc = "tally"
    /\ count' = [count EXCEPT !["failed"] = @ + 1]
    /\ sender' = [sender EXCEPT !.pc = "next", !.c = NoContact]
    /\ UNCHANGED <<status, due, cc, desk, msg, queue, resumed, req, restarts>>

-----------------------------------------------------------------------------
(* send-message: the worker, up to ten messages at a time.                 *)

\* Mutant of Attempt: one attempt more than the limit.
AttemptOnceMore(c) ==
    /\ msg[c].pc = "wait"
    /\ \/ msg' = [msg EXCEPT ![c].pc = "accepted"]
       \/ /\ "retry" \in World
          /\ msg' = IF msg[c].tries < MaxAttempts
                    THEN [msg EXCEPT ![c].tries = @ + 1]
                    ELSE [msg EXCEPT ![c].pc = "rejected"]
    /\ UNCHANGED <<status, count, due, cc, desk, dispatch, req, restarts>>

\* One call of the provider.  An error that can pass is retried until the
\* last attempt; that one, or an error that cannot, is final.
Attempt(c) ==
    /\ msg[c].pc = "wait"
    /\ \/ msg' = [msg EXCEPT ![c].pc = "accepted"]
       \/ /\ "retry" \in World
          /\ msg' = IF msg[c].tries + 1 < MaxAttempts
                    THEN [msg EXCEPT ![c].tries = @ + 1]
                    ELSE [msg EXCEPT ![c].pc = "rejected"]
       \/ /\ "reject" \in World
          /\ msg' = [msg EXCEPT ![c].pc = "rejected"]
    /\ UNCHANGED <<status, count, due, cc, desk, dispatch, req, restarts>>

\* persistExternalId: from here on the webhooks find the message.
PersistExternalId(c) ==
    /\ msg[c].pc = "accepted"
    /\ msg' = [msg EXCEPT ![c].pc = "known", ![c].known = TRUE]
    /\ UNCHANGED <<status, count, due, cc, desk, dispatch, req, restarts>>

\* Mutant of SyncSent: the row is marked sent whatever it has become.
SyncSentAlways(c) ==
    /\ msg[c].pc = "known"
    /\ TrackMessage(c, {"queued", "delivered", "read", "replied", "failed", "opted_out"}, "sent")
    /\ msg' = [msg EXCEPT ![c].pc = "done"]
    /\ UNCHANGED <<status, count, desk, dispatch, req, restarts>>

\* syncCampaignMessageSent: only a row that is still queued becomes sent.
SyncSent(c) ==
    /\ msg[c].pc = "known"
    /\ TrackMessage(c, {"queued"}, "sent")
    /\ msg' = [msg EXCEPT ![c].pc = "done"]
    /\ UNCHANGED <<status, count, desk, dispatch, req, restarts>>

\* syncCampaignMessageFailed, and the failed branch of the status webhook.
CanFail == {"pending", "queued", "sent"}

SyncFailed(c) ==
    /\ msg[c].pc = "rejected"
    /\ TrackMessage(c, CanFail, "failed")
    /\ msg' = [msg EXCEPT ![c].pc = "done"]
    /\ closing' = closing \cup {c}
    /\ UNCHANGED <<status, count, optouts, talk, dispatch, req, restarts>>

\* closeFailedInitialOutbound: only a conversation the contact never answered.
CloseOutbound(c) ==
    /\ c \in closing
    /\ closing' = closing \ {c}
    /\ talk' = [talk EXCEPT ![c] = IF @ = "waiting" THEN "closed" ELSE @]
    /\ UNCHANGED <<status, count, due, cc, optouts, msg, dispatch, req, restarts>>

-----------------------------------------------------------------------------
(* What comes back from the provider, in any order and any number of times. *)

\* Mutant of OnStatus: a delivery receipt is applied whenever it arrives.
OnStatusUnordered(c, k) ==
    /\ msg[c].known
    /\ TrackMessage(c, CASE k = "delivered" -> {"sent", "read", "replied"}
                         [] k = "read" -> {"sent", "delivered"}
                         [] k = "failed" -> CanFail, k)
    /\ closing' = IF k = "failed" THEN closing \cup {c} ELSE closing
    /\ UNCHANGED <<status, count, optouts, talk, msg, dispatch, req, restarts>>

\* processStatusUpdate finds the message by its external_id.
OnStatus(c, k) ==
    /\ msg[c].known
    /\ TrackMessage(c, CASE k = "delivered" -> {"sent"}
                         [] k = "read" -> {"sent", "delivered"}
                         [] k = "failed" -> CanFail, k)
    /\ closing' = IF k = "failed" THEN closing \cup {c} ELSE closing
    /\ UNCHANGED <<status, count, optouts, talk, msg, dispatch, req, restarts>>

\* A message of the contact in the campaign's conversation.
Reply(c) ==
    /\ talk[c] \in {"waiting", "open"}
    /\ talk' = [talk EXCEPT ![c] = "open"]
    /\ Track(c, {"pending", "queued", "sent", "delivered", "read"}, "replied")
    /\ UNCHANGED <<status, count, optouts, closing, msg, dispatch, req, restarts>>

\* The same with one of the opt-out keywords.
OptOut(c) ==
    /\ talk[c] \in {"waiting", "open"}
    /\ talk' = [talk EXCEPT ![c] = "open"]
    /\ cc' = [cc EXCEPT ![c].status = IF @ = "none" THEN @ ELSE "opted_out"]
    /\ optouts' = optouts \cup {c}
    /\ UNCHANGED <<status, count, due, closing, msg, dispatch, req, restarts>>

\* The contact opts out of another campaign of the tenant.
OptOutElsewhere(c) ==
    /\ optouts' = optouts \cup {c}
    /\ UNCHANGED <<status, count, due, cc, talk, closing, msg, dispatch, req, restarts>>

-----------------------------------------------------------------------------
\* The API process restarts.  BullMQ hands the jobs that were active out
\* again (the dispatcher's once at most); all else in progress is lost.
Restart ==
    /\ restarts < MaxRestarts
    /\ restarts' = restarts + 1
    /\ sender' = Rest
    /\ queue' \in IF sender = Rest THEN {queue} ELSE {queue, queue + 1}
    /\ msg' = [c \in Contact |-> IF msg[c].pc \in {"accepted", "known", "rejected"}
                                 THEN [msg[c] EXCEPT !.pc = "wait"] ELSE msg[c]]
    /\ due' = [k \in Kinds |-> 0]
    /\ closing' = {}
    /\ req' = [r \in Request |-> NoRequest]
    /\ UNCHANGED <<status, count, cc, optouts, talk, resumed>>

-----------------------------------------------------------------------------
Http ==
    \E r \in Request :
        \/ \E op \in Ops, c \in Contact \cup {NoContact} : Begin(r, op, c)
        \/ Enqueue(r) \/ Commit(r)

Scheduler == StartScheduled \/ ResumeRunning

Dispatcher ==
    \/ StartJob \/ CheckStatus \/ CheckLimit \/ FetchBatch
    \/ NextContact \/ MarkQueued \/ Publish \/ TallyFailed

Deliver(c) == Attempt(c) \/ PersistExternalId(c) \/ SyncSent(c) \/ SyncFailed(c)

Feedback(c) ==
    \/ \E k \in {"delivered", "read", "failed"} \cap World : OnStatus(c, k)
    \/ "reply" \in World /\ Reply(c)
    \/ "optout" \in World /\ OptOut(c)
    \/ "elsewhere" \in World /\ OptOutElsewhere(c)

Next ==
    \/ Http \/ Scheduler \/ NextDay \/ Dispatcher \/ Restart
    \/ \E k \in Kinds : Tally(k)
    \/ \E c \in Contact : Deliver(c) \/ CloseOutbound(c) \/ Feedback(c)

Spec == Init /\ [][Next]_vars

\* Every job and repeatable job goes on, a request that began ends, and days
\* go by.  Nobody is obliged to launch, pause, resume or answer.
Fairness ==
    /\ WF_vars(Dispatcher) /\ WF_vars(ResumeRunning) /\ WF_vars(NextDay)
    /\ WF_vars(StartScheduled)
    /\ \A k \in Kinds : WF_vars(Tally(k))
    /\ \A c \in Contact : WF_vars(Deliver(c))
    /\ \A r \in Request : WF_vars(Enqueue(r) \/ Commit(r))

FairSpec == Spec /\ Fairness

-----------------------------------------------------------------------------
(* Properties.                                                             *)

\* However often the campaign is paused, resumed, rescheduled or its
\* dispatcher restarted, one 'send' job at most is published for a row.
PublishedOnce == \A c \in Contact : cc[c].added <= 1

\* Across batches, overlapping deliveries, midnight and resumed jobs, the
\* rows that use up the day's limit never exceed it.
WithinDailyLimit == Cardinality(UsedToday) <= DailyLimit

\* A counter of the report never counts a contact twice, although the row and
\* the counter are written by different statements of the worker, the
\* webhook and the dispatcher.  (replied_count does: see the README.)
CountedOnce ==
    \A k \in Kinds \ {"replied"} :
        count[k] + due[k] <= Cardinality({c \in Contact : k \in cc[c].at})

\* A row marked "queued" whose job is nowhere holds the campaign open for
\* ever.  Only a restart between the mark and the publication leaves one, and
\* each restart one at most.
Stranded == {c \in Contact : /\ cc[c].status = "queued" /\ cc[c].added = 0
                             /\ ~ (sender.pc = "publish" /\ sender.c = c)}
StrandedBounded == Cardinality(Stranded) <= restarts

\* A running campaign does not stay so for ever: whatever is lost on the way
\* (a job that ran before the launch committed, the limit of the day, rows of
\* contacts who opted out), the scheduler takes it up again.
RunningEnds == status = "running" ~> status # "running"

\* Each row goes through the abstract life cycle.  A row is waiting until its
\* message is published, whatever a contact who writes first makes of it.
StageOf(row) ==
    IF row.status = "none" THEN "absent"
    ELSE IF row.status \in {"pending", "queued"}
            \/ (row.added = 0 /\ "failed" \notin row.at) THEN "waiting"
    ELSE row.status

stage == [c \in Contact |-> StageOf(cc[c])]

Lifecycle == INSTANCE ContactLifecycle WITH Contact <- Contact, stage <- stage
ForwardOnly == Lifecycle!Spec

=============================================================================

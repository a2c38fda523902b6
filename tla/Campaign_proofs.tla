-------------------------- MODULE Campaign_proofs --------------------------
(***************************************************************************)
(* Theorems about Campaign, for every set of contacts and of overlapping   *)
(* requests, every limit, batch size and bound.                            *)
(***************************************************************************)
EXTENDS Campaign, FiniteSetTheorems, TLAPS

-----------------------------------------------------------------------------
(* Rows.                                                                   *)

\* The statuses from which the worker, a webhook or a reply moves a row to k.
Before(k) ==
    CASE k = "sent" -> {"queued"}
      [] k = "delivered" -> {"sent"}
      [] k = "read" -> {"sent", "delivered"}
      [] k = "replied" -> {"pending", "queued", "sent", "delivered", "read"}
      [] k = "failed" -> CanFail

\* What anybody but the dispatcher makes of a row x, and the dispatcher of the
\* rows it does not send.
Changed(x, y) ==
    \/ y = x
    \/ y = NoRow
    \/ y = [x EXCEPT !.today = FALSE]
    \/ x.status = "none" /\ y = [x EXCEPT !.status = "pending"]
    \/ x.status # "none" /\ y = [x EXCEPT !.status = "opted_out"]
    \/ \E k \in Kinds : /\ x.status \in Before(k) /\ (k = "replied" \/ x.added > 0)
                      /\ y = Marked(x, k)

\* A row that uses up the limit of the day.
Uses(x) == x.status = "queued" \/ x.today

\* Nothing has been published for a row that may still be read into a batch,
\* and only a row the dispatcher has read is queued.
RowOK(x) ==
    /\ x.status = "none" => x.fetched = FALSE
    /\ x.status \in {"none", "pending"} => x.added = 0
    /\ x.status = "queued" => x.fetched

\* No more is published for a row, or counted against the day, than before.
Kept(x, y) ==
    /\ RowOK(y)
    /\ y.fetched => x.fetched /\ (y.status \in {"none", "pending"} => x.status = y.status)
    /\ y.added \in {x.added, 0}
    /\ y.status = "queued" => x.status = "queued" /\ y.added = x.added
    /\ Uses(y) => Uses(x)

\* The timestamps a row may have in each status.
Fits(x) ==
    /\ x.status \in {"none", "pending"} => x.at = {}
    /\ x.status = "queued" => x.at \subseteq {"replied"}
    /\ x.status = "sent" => x.at \subseteq {"sent", "replied"}
    /\ x.status = "delivered" => x.at \subseteq {"sent", "delivered", "replied"}
    /\ x.status \in Kinds => x.status \in x.at

OnTheWay(x, y) ==
    StageOf(y) \in {StageOf(x), "absent"} \cup Lifecycle!After(StageOf(x))

LEMMA EmptyThings ==
    NoRow \in RowType /\ Rest \in SenderType /\ NoRequest \in ReqType
  BY DEF NoRow, Rest, NoRequest, RowType, SenderType, ReqType

LEMMA MarkedRow ==
    ASSUME NEW x \in RowType, NEW k \in Kinds
    PROVE  /\ Marked(x, k) \in RowType
           /\ Marked(x, k).added = x.added /\ Marked(x, k).fetched = x.fetched
           /\ Marked(x, k).status = k /\ Marked(x, k).at = x.at \cup {k}
           /\ Marked(x, k).today => x.today \/ k = "sent"
<1>1. [x EXCEPT !.status = k, !.at = @ \cup {k},
                !.today = @ \/ (k = "sent" /\ "sent" \notin x.at)] \in RowType
  BY DEF RowType
<1> QED
  BY <1>1 DEF Marked, RowType

LEMMA ChangedType ==
    ASSUME NEW x \in RowType, NEW y, Changed(x, y)
    PROVE  y \in RowType
<1>1. CASE y = x \/ y = NoRow \/ y = [x EXCEPT !.today = FALSE]
  BY <1>1, EmptyThings DEF RowType
<1>2. CASE y = [x EXCEPT !.status = "pending"] \/ y = [x EXCEPT !.status = "opted_out"]
  BY <1>2 DEF RowType
<1> QED
  BY <1>1, <1>2, MarkedRow DEF Changed

LEMMA ChangedKept ==
    ASSUME NEW x \in RowType, NEW y, Changed(x, y), RowOK(x)
    PROVE  Kept(x, y)
<1>1. CASE y = x \/ y = NoRow \/ y = [x EXCEPT !.today = FALSE]
  BY <1>1 DEF Kept, RowOK, Uses, NoRow, RowType
<1>2. CASE x.status = "none" /\ y = [x EXCEPT !.status = "pending"]
  BY <1>2 DEF Kept, RowOK, Uses, RowType
<1>3. CASE x.status # "none" /\ y = [x EXCEPT !.status = "opted_out"]
  BY <1>3 DEF Kept, RowOK, Uses, RowType
<1>4. ASSUME NEW k \in Kinds, x.status \in Before(k), y = Marked(x, k)
      PROVE  Kept(x, y)
  BY <1>4, MarkedRow DEF Kept, RowOK, Uses, Kinds, Before, CanFail
<1> QED
  BY <1>1, <1>2, <1>3, <1>4 DEF Changed

LEMMA ChangedFits ==
    ASSUME NEW x \in RowType, NEW y, Changed(x, y), Fits(x)
    PROVE  /\ Fits(y) /\ OnTheWay(x, y) /\ (y = NoRow \/ x.at \subseteq y.at)
           /\ x.added = 0 /\ x.at \subseteq {"replied"} => y.at \subseteq {"replied"}
           /\ y = NoRow \/ y.fetched = x.fetched
<1>1. CASE y = x \/ y = NoRow \/ y = [x EXCEPT !.today = FALSE]
  BY <1>1 DEF Fits, NoRow, RowType, OnTheWay, StageOf, Kinds
<1>2. CASE x.status = "none" /\ y = [x EXCEPT !.status = "pending"]
  BY <1>2 DEF Fits, RowType, OnTheWay, StageOf, Lifecycle!After, Kinds
<1>3. CASE x.status # "none" /\ y = [x EXCEPT !.status = "opted_out"]
  BY <1>3 DEF Fits, RowType, OnTheWay, StageOf, Lifecycle!After, Kinds
<1>4. ASSUME NEW k \in Kinds, x.status \in Before(k), k = "replied" \/ x.added > 0,
             y = Marked(x, k)
      PROVE  /\ Fits(y) /\ OnTheWay(x, y) /\ x.at \subseteq y.at /\ y.fetched = x.fetched
             /\ x.added = 0 /\ x.at \subseteq {"replied"} => y.at \subseteq {"replied"}
  <2>0. y.status = k /\ y.at = x.at \cup {k} /\ y.added = x.added /\ y.fetched = x.fetched
    BY <1>4, MarkedRow DEF Kinds, Before, CanFail
  <2>1. Fits(y)
    BY <1>4, <2>0 DEF Fits, Kinds, Before, CanFail
  <2>2. OnTheWay(x, y)
    BY <1>4, <2>0 DEF OnTheWay, StageOf, Lifecycle!After, Kinds, Before, CanFail, RowType
  <2>3. x.added = 0 /\ x.at \subseteq {"replied"} => y.at \subseteq {"replied"}
    BY <1>4, <2>0 DEF RowType
  <2> QED
    BY <2>0, <2>1, <2>2, <2>3
<1> QED
  BY <1>1, <1>2, <1>3, <1>4 DEF Changed

\* One row changes.
LEMMA OneRow ==
    ASSUME cc \in [Contact -> RowType], NEW c \in Contact, NEW x \in RowType,
           cc' = [cc EXCEPT ![c] = x]
    PROVE  /\ cc' \in [Contact -> RowType] /\ cc'[c] = x
           /\ \A d \in Contact \ {c} : cc'[d] = cc[d]
  OBVIOUS

\* Every step of the worker, a webhook or a reply.
LEMMA TrackRow ==
    ASSUME CampaignTypeOK, NEW c \in Contact, NEW k \in Kinds, NEW from \in SUBSET Before(k),
           Track(c, from, k), k = "replied" \/ cc[c].added > 0 \/ from = {}
    PROVE  /\ cc' \in [Contact -> RowType] /\ due' \in [Kinds -> Nat]
           /\ \A d \in Contact : Changed(cc[d], cc'[d])
           /\ \A d \in Contact \ {c} : cc'[d] = cc[d]
           /\ \A j \in Kinds \ {k} : due'[j] = due[j]
           /\ \/ cc'[c] = cc[c] /\ due'[k] = due[k]
              \/ /\ cc[c].status \in from /\ cc'[c] = Marked(cc[c], k)
                 /\ due'[k] = due[k] + 1
<1>0. cc \in [Contact -> RowType] /\ due \in [Kinds -> Nat] /\ cc[c] \in RowType
  BY DEF CampaignTypeOK
<1>1. CASE cc[c].status \in from
  <2>1. cc' = [cc EXCEPT ![c] = Marked(cc[c], k)] /\ due' = [due EXCEPT ![k] = due[k] + 1]
    BY <1>1 DEF Track
  <2>2. Marked(cc[c], k) \in RowType
    BY <1>0, MarkedRow
  <2>3. /\ cc' \in [Contact -> RowType] /\ cc'[c] = Marked(cc[c], k)
        /\ \A d \in Contact \ {c} : cc'[d] = cc[d]
    BY <1>0, <2>1, <2>2, OneRow
  <2>4. /\ due' \in [Kinds -> Nat] /\ due'[k] = due[k] + 1
        /\ \A j \in Kinds \ {k} : due'[j] = due[j]
    BY <1>0, <2>1
  <2> QED
    BY <1>1, <2>3, <2>4 DEF Changed
<1>2. CASE cc[c].status \notin from
  BY <1>0, <1>2 DEF Track, Changed
<1> QED
  BY <1>1, <1>2

\* Every step of the worker or a webhook.
LEMMA MessageRow ==
    ASSUME CampaignTypeOK, NEW c \in Contact, NEW k \in Kinds, TrackMessage(c, Before(k), k)
    PROVE  /\ cc' \in [Contact -> RowType] /\ due' \in [Kinds -> Nat]
           /\ \A d \in Contact : Changed(cc[d], cc'[d])
           /\ \A d \in Contact \ {c} : cc'[d] = cc[d]
           /\ \A j \in Kinds \ {k} : due'[j] = due[j]
           /\ \/ cc'[c] = cc[c] /\ due'[k] = due[k]
              \/ /\ cc[c].status \in Before(k) /\ cc'[c] = Marked(cc[c], k)
                 /\ cc[c].added > 0 /\ due'[k] = due[k] + 1
<1>1. PICK from \in SUBSET Before(k) :
          Track(c, from, k) /\ (cc[c].added > 0 \/ from = {})
  BY DEF TrackMessage
<1> QED
  BY <1>1, TrackRow

-----------------------------------------------------------------------------
(* The inductive invariant.                                                *)

RowsOK == \A c \in Contact : RowOK(cc[c])

\* The contacts the dispatcher is going to publish a job for.
Chosen == sender.batch \cup (IF sender.pc \in {"queue", "publish"} THEN {sender.c} ELSE {})

SenderOK ==
    /\ sender.pc \notin {"next", "queue", "publish", "tally"} => sender.batch = {}
    /\ sender.pc \in {"queue", "publish", "tally"} => sender.c \in Contact \ sender.batch
    /\ \A c \in Chosen : cc[c].added = 0
    /\ sender.pc = "publish" /\ cc[sender.c].fetched =>
          cc[sender.c].status \notin {"none", "pending"}

\* What is used of the day's limit, and what the dispatcher has in hand.
Claimed ==
    UsedToday \cup sender.batch \cup (IF sender.pc = "queue" THEN {sender.c} ELSE {})

LimitOK ==
    /\ Cardinality(Claimed) <= DailyLimit
    /\ sender.pc = "fetch" => Cardinality(UsedToday) + sender.room <= DailyLimit

IInv ==
    /\ CampaignTypeOK /\ RowsOK /\ SenderOK
    /\ PublishedOnce /\ LimitOK /\ StrandedBounded

LEMMA ContactsCount ==
    ASSUME NEW B \in SUBSET Contact, NEW A \in SUBSET B
    PROVE  /\ Cardinality(A) \in Nat /\ Cardinality(B) \in Nat
           /\ Cardinality(A) <= Cardinality(B)
  BY CampaignAssumption, FS_Subset, FS_CardinalityType

\* One contact more.
LEMMA ContactsAdd ==
    ASSUME NEW A \in SUBSET Contact, NEW c
    PROVE  /\ Cardinality(A) \in Nat
           /\ Cardinality(A \cup {c}) <= Cardinality(A) + 1
           /\ c \notin A => Cardinality(A \cup {c}) = Cardinality(A) + 1
<1>1. IsFiniteSet(A)
  BY CampaignAssumption, FS_Subset
<1>2. Cardinality(A) \in Nat
  BY <1>1, FS_CardinalityType
<1>3. CASE c \in A
  <2>1. A \cup {c} = A
    BY <1>3
  <2>2. Cardinality(A \cup {c}) = Cardinality(A)
    BY <2>1
  <2> QED
    BY <1>2, <1>3, <2>2
<1>4. CASE c \notin A
  <2>1. Cardinality(A \cup {c}) = Cardinality(A) + 1
    BY <1>1, <1>4, FS_AddElement
  <2> QED
    BY <1>2, <2>1
<1> QED
  BY <1>3, <1>4

LEMMA InitIInv == Init => IInv
<1> SUFFICES ASSUME Init PROVE IInv
  OBVIOUS
<1>1. CampaignTypeOK
  <2>1. [pc |-> "none", tries |-> 0, known |-> FALSE] \in MsgType
    BY CampaignAssumption DEF MsgType
  <2>2. /\ count \in [Kinds -> Nat] /\ due \in [Kinds -> Nat] /\ cc \in [Contact -> RowType]
        /\ talk \in [Contact -> {"none", "waiting", "open", "closed"}]
        /\ msg \in [Contact -> MsgType] /\ req \in [Request -> ReqType]
    BY EmptyThings, <2>1 DEF Init
  <2> QED
    BY EmptyThings, <2>2 DEF Init, CampaignTypeOK
<1>2. /\ sender.pc = "idle" /\ sender.batch = {} /\ restarts = 0
      /\ \A c \in Contact : cc[c].status = "none" /\ cc[c].added = 0 /\ ~ cc[c].today
  BY DEF Init, Rest, NoRow
<1>3. UsedToday = {} /\ Claimed = {} /\ Stranded = {} /\ Chosen = {}
  BY <1>2 DEF UsedToday, Claimed, Stranded, Chosen
<1>4. Cardinality({}) = 0
  BY FS_EmptySet
<1>5. LimitOK /\ StrandedBounded
  BY <1>2, <1>3, <1>4, CampaignAssumption DEF LimitOK, StrandedBounded
<1>6. RowsOK
  BY DEF Init, NoRow, RowsOK, RowOK
<1> QED
  BY <1>1, <1>2, <1>3, <1>5, <1>6 DEF IInv, SenderOK, PublishedOnce

-----------------------------------------------------------------------------
(* Steps that keep the rows (Kept), and what they mean for the sets.       *)

LEMMA SetsShrink ==
    ASSUME CampaignTypeOK, RowsOK, cc' \in [Contact -> RowType],
           \A c \in Contact : Kept(cc[c], cc'[c])
    PROVE  /\ UsedToday' \subseteq UsedToday
           /\ RowsOK'
           /\ PublishedOnce => PublishedOnce'
           /\ \A c \in Contact : cc[c].added = 0 => cc'[c].added = 0
<1>1. \A c \in Contact : cc[c] \in RowType /\ cc'[c] \in RowType
  BY DEF CampaignTypeOK
<1> QED
  BY <1>1 DEF UsedToday, RowsOK, PublishedOnce, Kept, Uses, RowType

\* A step that leaves the dispatcher where it is.
LEMMA DeskKeeps ==
    ASSUME IInv, CampaignTypeOK', UNCHANGED <<sender, restarts>>,
           \A c \in Contact : Kept(cc[c], cc'[c])
    PROVE  IInv'
<1>0. cc' \in [Contact -> RowType] /\ sender \in SenderType
  BY DEF CampaignTypeOK, IInv
<1>1. /\ UsedToday' \subseteq UsedToday /\ RowsOK' /\ PublishedOnce'
      /\ \A c \in Contact : cc[c].added = 0 => cc'[c].added = 0
  BY <1>0, SetsShrink DEF IInv
<1>2. SenderOK'
  <2>1. /\ sender.pc \notin {"next", "queue", "publish", "tally"} => sender.batch = {}
        /\ sender.pc \in {"queue", "publish", "tally"} => sender.c \in Contact \ sender.batch
        /\ \A c \in Chosen : cc[c].added = 0
    BY DEF IInv, SenderOK
  <2>2. Chosen \subseteq Contact
    BY <1>0, <2>1 DEF Chosen, SenderType
  <2>3. sender.pc = "publish" /\ cc'[sender.c].fetched =>
            cc'[sender.c].status \notin {"none", "pending"}
    BY <2>1 DEF IInv, SenderOK, Kept
  <2>4. \A c \in Chosen : cc'[c].added = 0
    BY <1>1, <2>1, <2>2
  <2>5. Chosen' = Chosen
    BY DEF Chosen
  <2> QED
    BY <2>1, <2>3, <2>4, <2>5 DEF SenderOK
<1>3. LimitOK'
  <2>1. Claimed' \subseteq Claimed /\ Claimed \in SUBSET Contact
    BY <1>0, <1>1 DEF IInv, Claimed, UsedToday, SenderType, SenderOK
  <2>2. Cardinality(Claimed') <= Cardinality(Claimed) /\ Cardinality(Claimed') \in Nat
        /\ Cardinality(Claimed) \in Nat
    BY <2>1, ContactsCount
  <2>3. /\ Cardinality(UsedToday') <= Cardinality(UsedToday)
        /\ Cardinality(UsedToday') \in Nat /\ Cardinality(UsedToday) \in Nat
    BY <1>1, ContactsCount DEF UsedToday
  <2> QED
    BY <1>0, <2>2, <2>3, CampaignAssumption DEF IInv, LimitOK, SenderType
<1>4. StrandedBounded'
  <2>1. Stranded' \subseteq Stranded
    BY DEF Stranded, Kept
  <2>2. Stranded \in SUBSET Contact
    BY DEF Stranded
  <2>3. Cardinality(Stranded') <= Cardinality(Stranded) /\ Cardinality(Stranded') \in Nat
        /\ Cardinality(Stranded) \in Nat
    BY <2>1, <2>2, ContactsCount
  <2> QED
    BY <2>3 DEF IInv, StrandedBounded, CampaignTypeOK
<1> QED
  BY <1>1, <1>2, <1>3, <1>4 DEF IInv

\* A step of the dispatcher itself.
LEMMA DispatcherKeeps ==
    ASSUME IInv, CampaignTypeOK', UNCHANGED restarts,
           RowsOK', SenderOK', PublishedOnce',
           Claimed' \subseteq Claimed, Stranded' \subseteq Stranded,
           sender'.pc # "fetch"
    PROVE  IInv'
<1>1. Claimed \in SUBSET Contact /\ Stranded \in SUBSET Contact
  BY DEF IInv, CampaignTypeOK, Claimed, UsedToday, SenderType, SenderOK, Stranded
<1>2. Cardinality(Claimed') <= Cardinality(Claimed) /\ Cardinality(Claimed') \in Nat
      /\ Cardinality(Claimed) \in Nat
  BY <1>1, ContactsCount
<1>3. Cardinality(Stranded') <= Cardinality(Stranded) /\ Cardinality(Stranded') \in Nat
      /\ Cardinality(Stranded) \in Nat
  BY <1>1, ContactsCount
<1>4. LimitOK' /\ StrandedBounded'
  BY <1>2, <1>3, CampaignAssumption DEF IInv, LimitOK, StrandedBounded, CampaignTypeOK
<1> QED
  BY <1>4 DEF IInv

-----------------------------------------------------------------------------
(* The handlers, the scheduler, the worker, the webhooks and the replies:   *)
(* types, and what becomes of the rows.                                    *)

Desk ==
    /\ CampaignTypeOK' /\ UNCHANGED <<sender, restarts>>
    /\ \A c \in Contact : Changed(cc[c], cc'[c])

LEMMA NoRowsDesk ==
    ASSUME CampaignTypeOK', UNCHANGED <<cc, sender, restarts>>
    PROVE  Desk
  BY DEF Desk, Changed

LEMMA TallyDesk ==
    ASSUME CampaignTypeOK, NEW k \in Kinds, Tally(k)
    PROVE  Desk
<1>1. /\ due' \in [Kinds -> Nat] /\ count' \in [Kinds -> Nat]
      /\ status' \in {status, "completed"}
  BY DEF Tally, CampaignTypeOK, CompleteIfSettled
<1> QED
  BY <1>1, NoRowsDesk DEF Tally, CampaignTypeOK, desk, dispatch

LEMMA BeginDesk ==
    ASSUME CampaignTypeOK, NEW r \in Request, NEW op \in Ops,
           NEW c \in Contact \cup {NoContact}, Begin(r, op, c)
    PROVE  Desk
<1>1. req' \in [Request -> ReqType]
  BY DEF Begin, CampaignTypeOK, ReqType
<1> QED
  BY <1>1, NoRowsDesk DEF Begin, CampaignTypeOK, desk, dispatch

LEMMA EnqueueDesk ==
    ASSUME CampaignTypeOK, NEW r \in Request, Enqueue(r)
    PROVE  Desk
<1>1. req' \in [Request -> ReqType]
  <2>1. [req[r] EXCEPT !.enqueued = TRUE] \in ReqType
    BY DEF CampaignTypeOK, ReqType
  <2> QED
    BY <2>1 DEF Enqueue, CampaignTypeOK
<1> QED
  BY <1>1, NoRowsDesk DEF Enqueue, CampaignTypeOK, desk

LEMMA CommitDesk ==
    ASSUME CampaignTypeOK, NEW r \in Request, Commit(r)
    PROVE  /\ Desk
           /\ \A c \in Contact : \/ cc'[c] = cc[c]
                                 \/ cc[c].status = "none" /\ cc'[c] = [cc[c] EXCEPT !.status = "pending"]
                                 \/ req[r].op = "remove" /\ cc'[c] = NoRow
<1> DEFINE op == req[r].op
<1> DEFINE d == req[r].c
<1>0. /\ cc' = RowsAfter(op, d) /\ status' = StatusAfter(op)
      /\ req' = [req EXCEPT ![r] = NoRequest]
      /\ UNCHANGED <<count, due, desk, msg, dispatch, restarts>>
  BY DEF Commit
<1> HIDE DEF op, d
<1>1. \A c \in Contact : cc[c] \in RowType /\ [cc[c] EXCEPT !.status = "pending"] \in RowType
  BY DEF CampaignTypeOK, RowType
<1>2. /\ cc' \in [Contact -> RowType]
      /\ \A c \in Contact : \/ cc'[c] = cc[c]
                            \/ cc[c].status = "none" /\ cc'[c] = [cc[c] EXCEPT !.status = "pending"]
                            \/ op = "remove" /\ cc'[c] = NoRow
  BY <1>0, <1>1, EmptyThings DEF RowsAfter, CampaignTypeOK
<1>3. status' \in {status, "running", "scheduled", "paused", "cancelled"}
  BY <1>0 DEF StatusAfter
<1>4. req' \in [Request -> ReqType]
  BY <1>0, EmptyThings DEF CampaignTypeOK
<1>5. CampaignTypeOK'
  BY <1>0, <1>2, <1>3, <1>4 DEF CampaignTypeOK, desk, dispatch
<1> QED
  BY <1>0, <1>2, <1>5 DEF Desk, Changed, dispatch, op

LEMMA SchedulerDesk ==
    ASSUME CampaignTypeOK, Scheduler
    PROVE  Desk
<1>1. /\ status' \in {status, "running"} /\ resumed' \in BOOLEAN /\ queue' = queue + 1
      /\ UNCHANGED <<count, due, cc, optouts, talk, closing, msg, sender, req, restarts>>
  BY DEF Scheduler, StartScheduled, ResumeRunning, desk, CampaignTypeOK
<1>2. CampaignTypeOK'
  BY <1>1 DEF CampaignTypeOK
<1> QED
  BY <1>1, <1>2, NoRowsDesk

LEMMA NextDayDesk ==
    ASSUME CampaignTypeOK, NextDay
    PROVE  Desk /\ \A c \in Contact : cc'[c] = [cc[c] EXCEPT !.today = FALSE]
<1>1. \A c \in Contact : cc[c] \in RowType /\ [cc[c] EXCEPT !.today = FALSE] \in RowType
  BY DEF CampaignTypeOK, RowType
<1>2. /\ cc' \in [Contact -> RowType]
      /\ \A c \in Contact : cc'[c] = [cc[c] EXCEPT !.today = FALSE]
  BY <1>1 DEF NextDay
<1>3. CampaignTypeOK'
  BY <1>2 DEF NextDay, CampaignTypeOK, desk
<1> QED
  BY <1>2, <1>3 DEF NextDay, Desk, Changed

LEMMA MessageTypes ==
    ASSUME CampaignTypeOK, NEW c \in Contact, NEW m \in MsgType,
           msg' = [msg EXCEPT ![c] = m]
    PROVE  msg' \in [Contact -> MsgType]
  BY DEF CampaignTypeOK

LEMMA AttemptDesk ==
    ASSUME CampaignTypeOK, NEW c \in Contact, Attempt(c)
    PROVE  Desk
<1>0. msg[c] \in MsgType /\ MaxAttempts \in Nat \ {0}
  BY CampaignAssumption DEF CampaignTypeOK
<1>1. PICK m \in {[msg[c] EXCEPT !.pc = "accepted"], [msg[c] EXCEPT !.pc = "rejected"],
                  [msg[c] EXCEPT !.tries = @ + 1]} :
        /\ msg' = [msg EXCEPT ![c] = m]
        /\ m = [msg[c] EXCEPT !.tries = @ + 1] => msg[c].tries + 1 < MaxAttempts
                  \/ m = [msg[c] EXCEPT !.pc = "accepted"] \/ m = [msg[c] EXCEPT !.pc = "rejected"]
  BY DEF Attempt
<1>2. m \in MsgType
  BY <1>0, <1>1 DEF MsgType
<1>3. msg' \in [Contact -> MsgType]
  BY <1>1, <1>2, MessageTypes
<1> QED
  BY <1>3, NoRowsDesk DEF Attempt, CampaignTypeOK, desk, dispatch

LEMMA PersistDesk ==
    ASSUME CampaignTypeOK, NEW c \in Contact, PersistExternalId(c)
    PROVE  Desk
<1>1. [msg[c] EXCEPT !.pc = "known", !.known = TRUE] \in MsgType
  BY DEF CampaignTypeOK, MsgType
<1>2. msg' = [msg EXCEPT ![c] = [msg[c] EXCEPT !.pc = "known", !.known = TRUE]]
  BY DEF PersistExternalId, CampaignTypeOK, MsgType
<1>3. msg' \in [Contact -> MsgType]
  BY <1>1, <1>2, MessageTypes
<1> QED
  BY <1>3, NoRowsDesk DEF PersistExternalId, CampaignTypeOK, desk, dispatch

LEMMA SyncDesk ==
    ASSUME CampaignTypeOK, NEW c \in Contact, SyncSent(c) \/ SyncFailed(c)
    PROVE  Desk
<1>1. PICK k \in {"sent", "failed"} : TrackMessage(c, Before(k), k)
  BY DEF SyncSent, SyncFailed, Before
<1>2. /\ cc' \in [Contact -> RowType] /\ due' \in [Kinds -> Nat]
      /\ \A d \in Contact : Changed(cc[d], cc'[d])
  BY <1>1, MessageRow DEF Kinds
<1>3. [msg[c] EXCEPT !.pc = "done"] \in MsgType
  BY DEF CampaignTypeOK, MsgType
<1>4. msg' = [msg EXCEPT ![c] = [msg[c] EXCEPT !.pc = "done"]]
  BY DEF SyncSent, SyncFailed
<1>5. msg' \in [Contact -> MsgType]
  BY <1>3, <1>4, MessageTypes
<1>6. /\ closing' \subseteq Contact
      /\ UNCHANGED <<status, count, optouts, talk, sender, queue, resumed, req, restarts>>
  BY DEF SyncSent, SyncFailed, CampaignTypeOK, desk, dispatch
<1>7. CampaignTypeOK'
  BY <1>2, <1>5, <1>6 DEF CampaignTypeOK
<1> QED
  BY <1>2, <1>6, <1>7 DEF Desk

LEMMA CloseOutboundDesk ==
    ASSUME CampaignTypeOK, NEW c \in Contact, CloseOutbound(c)
    PROVE  Desk
  BY NoRowsDesk DEF CloseOutbound, CampaignTypeOK, dispatch

\* The receipts and what each is applied to.
LEMMA OnStatusTracks ==
    ASSUME NEW c \in Contact, NEW k \in {"delivered", "read", "failed"}, OnStatus(c, k)
    PROVE  TrackMessage(c, Before(k), k)
  BY DEF OnStatus, Before

LEMMA OnStatusDesk ==
    ASSUME CampaignTypeOK, NEW c \in Contact, NEW k \in {"delivered", "read", "failed"},
           OnStatus(c, k)
    PROVE  Desk
<1>1. /\ cc' \in [Contact -> RowType] /\ due' \in [Kinds -> Nat]
      /\ \A d \in Contact : Changed(cc[d], cc'[d])
  BY OnStatusTracks, MessageRow DEF Kinds
<1>2. /\ closing' \subseteq Contact
      /\ UNCHANGED <<status, count, optouts, talk, msg, sender, queue, resumed, req, restarts>>
  BY DEF OnStatus, CampaignTypeOK, dispatch
<1>3. CampaignTypeOK'
  BY <1>1, <1>2 DEF CampaignTypeOK
<1> QED
  BY <1>1, <1>2, <1>3 DEF Desk

LEMMA ReplyDesk ==
    ASSUME CampaignTypeOK, NEW c \in Contact, Reply(c)
    PROVE  Desk /\ Track(c, Before("replied"), "replied")
<1>0. Track(c, Before("replied"), "replied")
  BY DEF Reply, Before
<1>1. /\ cc' \in [Contact -> RowType] /\ due' \in [Kinds -> Nat]
      /\ \A d \in Contact : Changed(cc[d], cc'[d])
  BY <1>0, TrackRow DEF Kinds
<1>2. /\ talk' \in [Contact -> {"none", "waiting", "open", "closed"}]
      /\ UNCHANGED <<status, count, optouts, closing, msg, sender, queue, resumed, req, restarts>>
  BY DEF Reply, CampaignTypeOK, dispatch
<1>3. CampaignTypeOK'
  BY <1>1, <1>2 DEF CampaignTypeOK
<1> QED
  BY <1>0, <1>1, <1>2, <1>3 DEF Desk

LEMMA OptOutDesk ==
    ASSUME CampaignTypeOK, NEW c \in Contact, OptOut(c)
    PROVE  /\ Desk
           /\ \A d \in Contact : \/ cc'[d] = cc[d]
                                 \/ /\ cc[d].status # "none"
                                    /\ cc'[d] = [cc[d] EXCEPT !.status = "opted_out"]
<1> DEFINE x == IF cc[c].status = "none" THEN cc[c] ELSE [cc[c] EXCEPT !.status = "opted_out"]
<1>1. x \in RowType
  BY DEF CampaignTypeOK, RowType
<1>2. cc' = [cc EXCEPT ![c] = x]
  BY DEF OptOut, CampaignTypeOK, RowType
<1>3. /\ cc' \in [Contact -> RowType] /\ cc'[c] = x
      /\ \A d \in Contact \ {c} : cc'[d] = cc[d]
  BY <1>1, <1>2, OneRow DEF CampaignTypeOK
<1>4. /\ talk' \in [Contact -> {"none", "waiting", "open", "closed"}] /\ optouts' \subseteq Contact
      /\ UNCHANGED <<status, count, due, closing, msg, sender, queue, resumed, req, restarts>>
  BY DEF OptOut, CampaignTypeOK, dispatch
<1>5. CampaignTypeOK'
  BY <1>3, <1>4 DEF CampaignTypeOK
<1> QED
  BY <1>3, <1>4, <1>5 DEF Desk, Changed

LEMMA OptOutElsewhereDesk ==
    ASSUME CampaignTypeOK, NEW c \in Contact, OptOutElsewhere(c)
    PROVE  Desk
  BY NoRowsDesk DEF OptOutElsewhere, CampaignTypeOK, dispatch

\* The steps above keep the invariant.
LEMMA DeskInvariant ==
    ASSUME IInv, Desk
    PROVE  IInv'
<1>1. \A c \in Contact : Kept(cc[c], cc'[c])
  <2> TAKE c \in Contact
  <2>1. cc[c] \in RowType /\ Changed(cc[c], cc'[c])
    BY DEF IInv, CampaignTypeOK, Desk
  <2> QED
    BY <2>1, ChangedKept DEF IInv, RowsOK
<1> QED
  BY <1>1, DeskKeeps DEF Desk

-----------------------------------------------------------------------------
(* The dispatcher and restarts.                                            *)

\* A dispatcher that has nothing in hand.
LEMMA EmptyHanded ==
    ASSUME IInv, CampaignTypeOK', UNCHANGED restarts, sender.pc # "publish",
           sender'.batch = {}, sender'.pc \in {"idle", "check", "count"},
           \A c \in Contact : Changed(cc[c], cc'[c])
    PROVE  IInv'
<1>0. cc' \in [Contact -> RowType]
  BY DEF CampaignTypeOK
<1>1. \A c \in Contact : Kept(cc[c], cc'[c])
  <2> TAKE c \in Contact
  <2>1. cc[c] \in RowType
    BY DEF IInv, CampaignTypeOK
  <2> QED
    BY <2>1, ChangedKept DEF IInv, RowsOK
<1>2. UsedToday' \subseteq UsedToday /\ RowsOK' /\ PublishedOnce'
  BY <1>0, <1>1, SetsShrink DEF IInv
<1>3. SenderOK' /\ Claimed' \subseteq Claimed
  BY <1>2 DEF SenderOK, Chosen, Claimed
<1>4. Stranded' \subseteq Stranded
  BY <1>1 DEF Stranded, Kept
<1> QED
  BY <1>2, <1>3, <1>4, DispatcherKeeps

LEMMA RestShape == Rest.pc = "idle" /\ Rest.batch = {} /\ Rest.c = NoContact
  BY DEF Rest

LEMMA StartJobKeeps ==
    ASSUME IInv, StartJob
    PROVE  IInv' /\ UNCHANGED cc
<1>1. /\ sender = Rest /\ sender' \in {Rest, [Rest EXCEPT !.pc = "check"]}
      /\ queue > 0 /\ queue' = queue - 1 /\ status' \in {status, "cancelled"}
      /\ UNCHANGED <<count, due, cc, optouts, talk, closing, msg, resumed, req, restarts>>
  BY DEF StartJob, desk
<1>2. [Rest EXCEPT !.pc = "check"] \in SenderType
  BY DEF Rest, SenderType
<1>3. CampaignTypeOK'
  BY <1>1, <1>2, EmptyThings DEF IInv, CampaignTypeOK
<1>4. /\ sender.pc # "publish" /\ sender'.batch = {} /\ sender'.pc \in {"idle", "check"}
      /\ \A c \in Contact : Changed(cc[c], cc'[c])
  BY <1>1 DEF Rest, Changed
<1> QED
  BY <1>1, <1>3, <1>4, EmptyHanded

LEMMA CheckStatusKeeps ==
    ASSUME IInv, CheckStatus
    PROVE  IInv' /\ UNCHANGED cc
<1>1. /\ sender.pc = "check" /\ sender' \in {Rest, [sender EXCEPT !.pc = "count"]}
      /\ UNCHANGED <<status, count, due, cc, optouts, talk, closing, msg, queue, resumed, req,
                     restarts>>
  BY DEF CheckStatus, desk
<1>2. [sender EXCEPT !.pc = "count"] \in SenderType /\ sender.batch = {}
  BY <1>1 DEF IInv, CampaignTypeOK, SenderType, SenderOK
<1>3. CampaignTypeOK'
  BY <1>1, <1>2, EmptyThings DEF IInv, CampaignTypeOK
<1>4. /\ sender'.batch = {} /\ sender'.pc \in {"idle", "count"}
      /\ \A c \in Contact : Changed(cc[c], cc'[c])
  BY <1>1, <1>2, RestShape DEF Changed, IInv, CampaignTypeOK, SenderType
<1> QED
  BY <1>1, <1>3, <1>4, EmptyHanded

LEMMA CheckLimitKeeps ==
    ASSUME IInv, CheckLimit
    PROVE  IInv' /\ UNCHANGED cc
<1> DEFINE remaining == DailyLimit - Cardinality(UsedToday)
<1>0. Cardinality(UsedToday) \in Nat /\ DailyLimit \in Nat
  BY ContactsCount, CampaignAssumption DEF UsedToday
<1>1. /\ sender.pc = "count" /\ sender.batch = {}
      /\ UNCHANGED <<status, count, due, cc, optouts, talk, closing, msg, queue, resumed, req,
                     restarts>>
  BY DEF CheckLimit, desk, IInv, SenderOK
<1>2. CASE remaining <= 0
  <2>1. sender' = Rest
    BY <1>2 DEF CheckLimit
  <2>2. CampaignTypeOK'
    BY <1>1, <2>1, EmptyThings DEF IInv, CampaignTypeOK
  <2>3. \A c \in Contact : Changed(cc[c], cc'[c])
    BY <1>1 DEF Changed
  <2> QED
    BY <1>1, <2>1, <2>2, <2>3, RestShape, EmptyHanded
<1>3. CASE ~ (remaining <= 0)
  <2>1. sender' = [sender EXCEPT !.pc = "fetch", !.room = remaining]
    BY <1>3 DEF CheckLimit
  <2>0. remaining \in Nat
    BY <1>0, <1>3
  <2> HIDE DEF remaining
  <2>2. /\ sender' \in SenderType /\ sender'.pc = "fetch" /\ sender'.batch = {}
        /\ sender'.room = remaining
    BY <1>1, <2>0, <2>1 DEF IInv, CampaignTypeOK, SenderType
  <2>3. CampaignTypeOK'
    BY <1>1, <2>2 DEF IInv, CampaignTypeOK
  <2>4. UsedToday' = UsedToday /\ Claimed' = UsedToday /\ Chosen' = {} /\ Stranded' = Stranded
    BY <1>1, <2>2 DEF UsedToday, Claimed, Chosen, Stranded
  <2>5. Cardinality(UsedToday) + remaining = DailyLimit /\ Cardinality(UsedToday) <= DailyLimit
    BY <1>0, <2>0 DEF remaining
  <2>6. LimitOK'
    BY <1>0, <2>2, <2>4, <2>5 DEF LimitOK
  <2> QED
    BY <1>1, <2>2, <2>3, <2>4, <2>6
       DEF IInv, RowsOK, SenderOK, PublishedOnce, StrandedBounded
<1> QED
  BY <1>2, <1>3

LEMMA FetchBatchKeeps ==
    ASSUME IInv, FetchBatch
    PROVE  /\ IInv'
           /\ \/ /\ sender' = Rest
                 /\ \A c \in Contact : Changed(cc[c], cc'[c]) /\ cc'[c].at = cc[c].at
              \/ /\ sender'.pc = "next" /\ UNCHANGED status
                 /\ \A c \in Contact : cc'[c] = [cc[c] EXCEPT !.fetched = cc'[c].fetched]
                 /\ \A c \in sender'.batch : cc[c].status = "pending" /\ cc'[c].fetched
<1> DEFINE pending == InStatus({"pending"}) \ optouts
           limit == IF sender.room < BatchSize THEN sender.room ELSE BatchSize
           size == IF Cardinality(pending) < limit THEN Cardinality(pending) ELSE limit
<1>0. /\ sender.pc = "fetch" /\ sender.batch = {} /\ sender \in SenderType
      /\ UNCHANGED <<count, due, optouts, talk, closing, msg, queue, resumed, req, restarts>>
  BY DEF FetchBatch, desk, IInv, SenderOK, CampaignTypeOK
<1>1. CASE pending = {}
  <2>1. /\ cc' = [c \in Contact |-> IF cc[c].status = "pending" /\ c \in optouts
                                    THEN [cc[c] EXCEPT !.status = "opted_out"] ELSE cc[c]]
        /\ status' \in {status, "completed"} /\ sender' = Rest
    BY <1>1 DEF FetchBatch, CompleteIfSettled
  <2>2. \A c \in Contact : cc[c] \in RowType /\ Changed(cc[c], cc'[c])
    BY <2>1 DEF IInv, CampaignTypeOK, Changed
  <2>2a. \A c \in Contact : cc'[c].at = cc[c].at
    BY <2>1, <2>2 DEF RowType
  <2>3. cc' \in [Contact -> RowType]
    BY <2>1, <2>2, ChangedType
  <2>4. CampaignTypeOK'
    BY <1>0, <2>1, <2>3, EmptyThings DEF IInv, CampaignTypeOK
  <2> QED
    BY <1>0, <2>1, <2>2, <2>2a, <2>4, RestShape, EmptyHanded
<1>2. CASE pending # {}
  <2>1. UNCHANGED status
    BY <1>2 DEF FetchBatch
  <2>2. PICK batch \in SUBSET pending :
              /\ Cardinality(batch) = size
              /\ cc' = [c \in Contact |-> IF c \in batch
                                          THEN [cc[c] EXCEPT !.fetched = TRUE] ELSE cc[c]]
              /\ sender' = [sender EXCEPT !.pc = "next", !.batch = batch]
    BY <1>2 DEF FetchBatch
  <2>3. batch \in SUBSET Contact /\ \A c \in batch : cc[c].status = "pending"
    BY DEF InStatus
  <2>3r. \A c \in Contact : /\ cc'[c] \in RowType
                            /\ cc'[c].status = cc[c].status /\ cc'[c].today = cc[c].today
                            /\ cc'[c].added = cc[c].added
                            /\ c \in batch => cc'[c].fetched
                            /\ c \notin batch => cc'[c] = cc[c]
                            /\ cc'[c] = [cc[c] EXCEPT !.fetched = cc'[c].fetched]
    <3> TAKE c \in Contact
    <3>1. cc[c] \in RowType
      BY DEF IInv, CampaignTypeOK
    <3>2. CASE c \in batch
      <4>1. cc'[c] = [cc[c] EXCEPT !.fetched = TRUE]
        BY <2>2, <3>2
      <4> QED
        BY <3>1, <3>2, <4>1 DEF RowType
    <3>3. CASE c \notin batch
      <4>1. cc'[c] = cc[c]
        BY <2>2, <3>3
      <4> QED
        BY <3>1, <3>3, <4>1 DEF RowType
    <3> QED
      BY <3>2, <3>3
  <2>3c. cc' \in [Contact -> RowType]
    <3>1. cc' = [c \in Contact |-> cc'[c]]
      BY <2>2
    <3> QED
      BY <2>3r, <3>1
  <2>4. sender' \in SenderType /\ sender'.pc = "next" /\ sender'.batch = batch
    BY <1>0, <2>2, <2>3 DEF SenderType
  <2>5. CampaignTypeOK'
    BY <1>0, <2>1, <2>3c, <2>4 DEF IInv, CampaignTypeOK
  <2>6. UsedToday' = UsedToday /\ Claimed' = UsedToday \cup batch /\ Chosen' = batch
    BY <2>3r, <2>4 DEF UsedToday, Claimed, Chosen
  <2>7. Stranded' = Stranded
    BY <1>0, <2>3r, <2>4 DEF Stranded
  <2>8. SenderOK' /\ RowsOK' /\ PublishedOnce'
    <3>1. \A c \in batch : c \in Contact /\ cc'[c].added = 0
      BY <2>3, <2>3r DEF IInv, RowsOK, RowOK
    <3>2. RowsOK'
      BY <2>3, <2>3r DEF IInv, RowsOK, RowOK, RowType
    <3> QED
      BY <2>3r, <2>4, <2>6, <3>1, <3>2 DEF IInv, SenderOK, PublishedOnce
  \* The batch is no longer than the room left.
  <2>9. LimitOK'
    <3>1. /\ Cardinality(pending) \in Nat /\ Cardinality(UsedToday) \in Nat
          /\ Cardinality(batch) \in Nat
      BY <2>3, ContactsCount DEF UsedToday, InStatus
    <3>2. Cardinality(batch) <= sender.room /\ sender.room \in Nat /\ BatchSize \in Nat
      BY <1>0, <2>2, <3>1, CampaignAssumption DEF SenderType
    <3>3. Cardinality(UsedToday) + Cardinality(batch) <= DailyLimit
      BY <1>0, <3>1, <3>2, CampaignAssumption DEF IInv, LimitOK
    <3>4. IsFiniteSet(UsedToday) /\ IsFiniteSet(batch)
      BY <2>3, CampaignAssumption, FS_Subset DEF UsedToday
    <3>5. Cardinality(UsedToday \cup batch) <= Cardinality(UsedToday) + Cardinality(batch)
      <4>1. Cardinality(UsedToday \cup batch)
              = Cardinality(UsedToday) + Cardinality(batch) - Cardinality(UsedToday \cap batch)
        BY <3>4, FS_Union
      <4>2. Cardinality(UsedToday \cap batch) \in Nat
        BY <2>3, ContactsCount
      <4> QED
        BY <3>1, <4>1, <4>2
    <3>6. Cardinality(UsedToday \cup batch) \in Nat
      BY <3>4, FS_Union, FS_CardinalityType
    <3> QED
      BY <2>4, <2>6, <3>1, <3>3, <3>5, <3>6, CampaignAssumption DEF LimitOK
  <2>10. StrandedBounded'
    BY <1>0, <2>7 DEF IInv, StrandedBounded
  <2> QED
    BY <2>1, <2>3, <2>3r, <2>4, <2>5, <2>8, <2>9, <2>10 DEF IInv
<1> QED
  BY <1>1, <1>2

\* The catch of a contact: an arbitrary row becomes failed.
LEMMA FailRow ==
    ASSUME IInv, NEW c \in Contact, Fail(c)
    PROVE  /\ cc' \in [Contact -> RowType]
           /\ cc'[c] = IF cc[c].fetched THEN Marked(cc[c], "failed") ELSE cc[c]
           /\ \A d \in Contact \ {c} : cc'[d] = cc[d]
           /\ \A d \in Contact : Kept(cc[d], cc'[d])
           /\ sender' \in SenderType /\ sender'.pc = "tally" /\ sender'.c = c
           /\ sender'.batch = sender.batch \ {c}
<1>1. cc \in [Contact -> RowType] /\ cc[c] \in RowType /\ "failed" \in Kinds
  BY DEF IInv, CampaignTypeOK, Kinds
<1> DEFINE x == IF cc[c].fetched THEN Marked(cc[c], "failed") ELSE cc[c]
<1>2. x \in RowType
  BY <1>1, MarkedRow
<1>3. /\ cc' \in [Contact -> RowType] /\ cc'[c] = x
      /\ \A d \in Contact \ {c} : cc'[d] = cc[d]
  <2>1. cc' = [cc EXCEPT ![c] = x]
    BY <1>1 DEF Fail
  <2> HIDE DEF x
  <2> QED
    BY <1>1, <1>2, <2>1, OneRow
<1>4. Kept(cc[c], cc'[c])
  <2>0. RowOK(cc[c])
    BY DEF IInv, RowsOK
  <2>1. CASE x = cc[c]
    BY <1>1, <1>3, <2>0, <2>1 DEF Kept, Uses, RowType
  <2>2. CASE x = Marked(cc[c], "failed") /\ cc[c].fetched
    <3> DEFINE y == Marked(cc[c], "failed")
    <3>1. y.status = "failed" /\ y.added = cc[c].added /\ (y.today => cc[c].today)
      BY <1>1, MarkedRow
    <3> QED
      BY <1>3, <2>2, <3>1 DEF Kept, Uses, RowOK
  <2> QED
    BY <2>1, <2>2
<1>5. \A d \in Contact \ {c} : Kept(cc[d], cc'[d])
  BY <1>1, <1>3 DEF Kept, Uses, IInv, RowsOK, RowOK, RowType
<1>6. /\ sender' \in SenderType /\ sender'.pc = "tally" /\ sender'.c = c
      /\ sender'.batch = sender.batch \ {c}
  BY DEF Fail, IInv, CampaignTypeOK, SenderType
<1> QED
  BY <1>3, <1>4, <1>5, <1>6

LEMMA FailKeeps ==
    ASSUME IInv, NEW c \in Contact, Fail(c), UNCHANGED restarts,
           sender.pc = "next" \/ (sender.pc = "publish" /\ c = sender.c),
           CampaignTypeOK'
    PROVE  IInv'
<1>1. cc' \in [Contact -> RowType] /\ \A d \in Contact : Kept(cc[d], cc'[d])
  BY FailRow
<1>2. /\ UsedToday' \subseteq UsedToday /\ RowsOK' /\ PublishedOnce'
      /\ \A d \in Contact : cc[d].added = 0 => cc'[d].added = 0
  BY <1>1, SetsShrink DEF IInv
<1>3. /\ sender'.pc = "tally" /\ sender'.c = c /\ sender'.batch = sender.batch \ {c}
  BY FailRow
<1>4. SenderOK'
  BY <1>2, <1>3 DEF IInv, SenderOK, Chosen, CampaignTypeOK, SenderType
<1>5. Claimed' \subseteq Claimed
  BY <1>2, <1>3 DEF Claimed
<1>6. Stranded' \subseteq Stranded
  <2>1. cc'[c].status # "queued"
    <3>1. cc[c] \in RowType /\ RowOK(cc[c]) /\ "failed" \in Kinds
      BY DEF IInv, CampaignTypeOK, Kinds, RowsOK
    <3>2. Marked(cc[c], "failed").status = "failed"
      BY <3>1, MarkedRow
    <3>3. cc'[c] = IF cc[c].fetched THEN Marked(cc[c], "failed") ELSE cc[c]
      BY FailRow
    <3> QED
      BY <3>1, <3>2, <3>3 DEF RowOK
  <2> QED
    BY <1>1, <2>1 DEF Stranded, Kept
<1> QED
  BY <1>2, <1>3, <1>4, <1>5, <1>6, DispatcherKeeps

LEMMA NextContactKeeps ==
    ASSUME IInv, NextContact
    PROVE  /\ IInv'
           /\ UNCHANGED <<status, count, due, msg, req>>
           /\ \/ UNCHANGED <<cc, talk>> /\ sender' = [Rest EXCEPT !.pc = "check"]
              \/ /\ UNCHANGED cc /\ sender'.pc = "queue" /\ sender'.c \in sender.batch
                 /\ sender'.batch \subseteq sender.batch
              \/ \E c \in sender.batch : Fail(c) /\ UNCHANGED talk
<1>0. /\ sender.pc = "next" /\ sender \in SenderType
      /\ UNCHANGED <<status, count, due, optouts, closing, msg, queue, resumed, req, restarts>>
  BY DEF NextContact, IInv, CampaignTypeOK
<1>1. CASE sender.batch = {}
  <2>1. UNCHANGED <<cc, talk>> /\ sender' = [Rest EXCEPT !.pc = "check"]
    BY <1>1 DEF NextContact
  <2>2. sender' \in SenderType /\ sender'.pc = "check" /\ sender'.batch = {}
    BY <2>1 DEF Rest, SenderType
  <2>3. CampaignTypeOK'
    BY <1>0, <2>1, <2>2 DEF IInv, CampaignTypeOK
  <2>4. \A c \in Contact : Changed(cc[c], cc'[c])
    BY <2>1 DEF Changed
  <2> QED
    BY <1>0, <2>1, <2>2, <2>3, <2>4, EmptyHanded
<1>2. ASSUME NEW c \in sender.batch, talk' = [talk EXCEPT ![c] = "waiting"], UNCHANGED cc,
             sender' = [sender EXCEPT !.pc = "queue", !.c = c, !.batch = @ \ {c}]
      PROVE  IInv' /\ sender'.pc = "queue" /\ sender'.c = c /\ sender'.batch \subseteq sender.batch
  <2>1. c \in Contact
    BY <1>0, <1>2 DEF SenderType
  <2>2. /\ sender' \in SenderType /\ sender'.pc = "queue" /\ sender'.c = c
        /\ sender'.batch = sender.batch \ {c}
    BY <1>0, <1>2, <2>1 DEF SenderType
  <2>3. CampaignTypeOK'
    <3>1. talk' \in [Contact -> {"none", "waiting", "open", "closed"}]
      BY <1>2, <2>1 DEF IInv, CampaignTypeOK
    <3> QED
      BY <1>0, <1>2, <2>2, <3>1 DEF IInv, CampaignTypeOK
  <2>4. RowsOK' /\ PublishedOnce'
    BY <1>2 DEF IInv, RowsOK, PublishedOnce
  <2>5. SenderOK'
    BY <1>0, <1>2, <2>1, <2>2 DEF IInv, SenderOK, Chosen
  <2>6. Claimed' \subseteq Claimed /\ Stranded' \subseteq Stranded
    BY <1>0, <1>2, <2>1, <2>2 DEF Claimed, UsedToday, Stranded
  <2> QED
    BY <1>0, <2>2, <2>3, <2>4, <2>5, <2>6, DispatcherKeeps
<1>3. ASSUME NEW c \in sender.batch, Fail(c), UNCHANGED talk
      PROVE  IInv'
  <2>1. c \in Contact
    BY <1>0, <1>3 DEF SenderType
  <2>2. CampaignTypeOK'
    BY <1>0, <1>3, <2>1, FailRow DEF IInv, CampaignTypeOK
  <2> QED
    BY <1>0, <1>3, <2>1, <2>2, FailKeeps
<1>4. sender.batch # {} =>
        \E c \in sender.batch :
            \/ /\ talk' = [talk EXCEPT ![c] = "waiting"] /\ UNCHANGED cc
               /\ sender' = [sender EXCEPT !.pc = "queue", !.c = c, !.batch = @ \ {c}]
            \/ Fail(c) /\ UNCHANGED talk
  BY DEF NextContact
<1> QED
  BY <1>0, <1>1, <1>2, <1>3, <1>4

LEMMA MarkQueuedKeeps ==
    ASSUME IInv, MarkQueued
    PROVE  /\ IInv'
           /\ sender.c \in Chosen /\ Chosen' = Chosen
           /\ cc'[sender.c] = [cc[sender.c] EXCEPT
                                  !.status = IF cc[sender.c].fetched THEN "queued" ELSE @]
           /\ \A d \in Contact \ {sender.c} : cc'[d] = cc[d]
<1> DEFINE c == sender.c
           x == [cc[c] EXCEPT !.status = IF cc[c].fetched THEN "queued" ELSE @]
<1>0. /\ sender.pc = "queue" /\ sender \in SenderType /\ c \in Contact \ sender.batch
      /\ UNCHANGED <<status, count, due, optouts, talk, closing, msg, queue, resumed, req,
                     restarts>>
  BY DEF MarkQueued, desk, IInv, CampaignTypeOK, SenderOK
<1>1. cc[c] \in RowType /\ x \in RowType
  BY <1>0 DEF IInv, CampaignTypeOK, RowType
<1>2. /\ x.added = cc[c].added /\ x.today = cc[c].today /\ x.fetched = cc[c].fetched
      /\ x.status = IF cc[c].fetched THEN "queued" ELSE cc[c].status
  BY <1>1 DEF RowType
<1>3. cc' = [cc EXCEPT ![c] = x]
  BY <1>0 DEF MarkQueued, IInv, CampaignTypeOK
<1>4. sender' \in SenderType /\ sender'.pc = "publish" /\ sender'.c = c
      /\ sender'.batch = sender.batch
  BY <1>0 DEF MarkQueued, SenderType
<1> HIDE DEF x
<1>5. /\ cc' \in [Contact -> RowType] /\ cc'[c] = x
      /\ \A d \in Contact \ {c} : cc'[d] = cc[d]
  BY <1>0, <1>1, <1>3, OneRow DEF IInv, CampaignTypeOK
<1>6. CampaignTypeOK'
  BY <1>0, <1>4, <1>5 DEF IInv, CampaignTypeOK
<1>7. RowsOK' /\ PublishedOnce'
  BY <1>0, <1>2, <1>5 DEF IInv, RowsOK, RowOK, PublishedOnce
<1>8. Chosen' = Chosen /\ c \in Chosen
  BY <1>0, <1>4 DEF Chosen
<1>9. SenderOK'
  <2>1. \A d \in Chosen : cc'[d].added = 0
    <3> TAKE d \in Chosen
    <3>1. d \in Contact /\ cc[d].added = 0
      BY <1>0 DEF IInv, SenderOK, Chosen, SenderType
    <3> QED
      BY <1>2, <1>5, <3>1
  <2>2. cc'[c].fetched => cc'[c].status \notin {"none", "pending"}
    BY <1>2, <1>5
  <2> QED
    BY <1>0, <1>4, <1>8, <2>1, <2>2 DEF SenderOK
<1>10. Claimed' \subseteq Claimed
  BY <1>0, <1>2, <1>4, <1>5 DEF Claimed, UsedToday
<1>11. Stranded' \subseteq Stranded
  BY <1>0, <1>4, <1>5 DEF Stranded
<1>12. IInv'
  BY <1>0, <1>4, <1>6, <1>7, <1>9, <1>10, <1>11, DispatcherKeeps
<1> QED
  BY <1>5, <1>8, <1>12 DEF x

LEMMA PublishKeeps ==
    ASSUME IInv, Publish
    PROVE  /\ IInv' /\ sender.c \in Chosen
           /\ \/ Fail(sender.c) /\ UNCHANGED msg
              \/ /\ sender'.pc = "next" /\ Chosen' = Chosen \ {sender.c}
                 /\ \A d \in Contact \ {sender.c} : cc'[d] = cc[d] /\ msg'[d] = msg[d]
                 /\ cc'[sender.c] = [cc[sender.c] EXCEPT !.added = cc'[sender.c].added]
                 /\ cc'[sender.c].added = IF cc[sender.c].fetched THEN 1 ELSE 0
                 /\ UNCHANGED talk
<1> DEFINE c == sender.c
           x == [cc[c] EXCEPT !.added = IF cc[c].fetched THEN @ + 1 ELSE @]
           m == [pc |-> "wait", tries |-> 0, known |-> FALSE]
<1>0. /\ sender.pc = "publish" /\ sender \in SenderType /\ c \in Contact \ sender.batch
      /\ UNCHANGED <<status, count, due, optouts, closing, queue, resumed, req, restarts>>
  BY DEF Publish, IInv, CampaignTypeOK, SenderOK
<1>1. c \in Chosen /\ cc[c] \in RowType /\ cc[c].added = 0
  BY <1>0 DEF IInv, CampaignTypeOK, Chosen, SenderOK
<1>2. CASE Fail(c) /\ talk' = [talk EXCEPT ![c] = IF @ = "waiting" THEN "closed" ELSE @]
           /\ UNCHANGED msg
  <2>1. CampaignTypeOK'
    <3>1. talk' \in [Contact -> {"none", "waiting", "open", "closed"}]
      BY <1>0, <1>2 DEF IInv, CampaignTypeOK
    <3> QED
      BY <1>0, <1>2, <3>1, FailRow DEF IInv, CampaignTypeOK
  <2> QED
    BY <1>0, <1>1, <1>2, <2>1, FailKeeps
<1>3. CASE /\ msg' = [msg EXCEPT ![c] = m] /\ cc' = [cc EXCEPT ![c] = x]
           /\ sender' = [sender EXCEPT !.pc = "next", !.c = NoContact]
           /\ UNCHANGED talk
  <2>1. /\ x \in RowType /\ x.status = cc[c].status /\ x.today = cc[c].today
        /\ x.fetched = cc[c].fetched /\ x.added = IF cc[c].fetched THEN 1 ELSE 0
        /\ x = [cc[c] EXCEPT !.added = x.added]
    BY <1>1 DEF RowType
  <2>3. m \in MsgType
    BY CampaignAssumption DEF MsgType
  <2> HIDE DEF x, m
  <2>4. /\ cc' \in [Contact -> RowType] /\ cc'[c] = x
        /\ \A d \in Contact \ {c} : cc'[d] = cc[d]
    BY <1>0, <1>3, <2>1, OneRow DEF IInv, CampaignTypeOK
  <2>5. msg' \in [Contact -> MsgType] /\ \A d \in Contact \ {c} : msg'[d] = msg[d]
    BY <1>0, <1>3, <2>3 DEF IInv, CampaignTypeOK
  <2>6. /\ sender' \in SenderType /\ sender'.pc = "next" /\ sender'.batch = sender.batch
    BY <1>0, <1>3 DEF SenderType
  <2>7. CampaignTypeOK'
    BY <1>0, <1>3, <2>4, <2>5, <2>6 DEF IInv, CampaignTypeOK
  <2>8. RowsOK'
    <3>1. RowOK(cc[c]) /\ (cc[c].fetched => cc[c].status \notin {"none", "pending"})
      BY <1>0 DEF IInv, RowsOK, SenderOK
    <3>2. RowOK(x)
      BY <1>1, <2>1, <3>1 DEF RowOK
    <3> QED
      BY <2>4, <3>2 DEF IInv, RowsOK
  <2>9. PublishedOnce'
    BY <2>1, <2>4 DEF IInv, PublishedOnce
  <2>10. Chosen' = Chosen \ {c}
    BY <1>0, <2>6 DEF Chosen
  <2>11. SenderOK'
    <3>1. \A d \in sender.batch : d \in Contact \ {c} /\ cc[d].added = 0
      BY <1>0 DEF IInv, SenderOK, Chosen, SenderType
    <3>2. \A d \in sender.batch : cc'[d].added = 0
      BY <2>4, <3>1
    <3> QED
      BY <1>0, <2>6, <3>2 DEF SenderOK, Chosen
  <2>12. Claimed' \subseteq Claimed
    BY <1>0, <2>1, <2>4, <2>6 DEF Claimed, UsedToday
  \* The row has its job now, or it is another row, which is not queued.
  <2>13. Stranded' \subseteq Stranded
    <3>1. cc'[c].status = "queued" => cc'[c].added # 0
      <4>1. RowOK(cc[c])
        BY <1>0 DEF IInv, RowsOK
      <4> QED
        BY <2>1, <2>4, <4>1 DEF RowOK
    <3> QED
      BY <1>0, <2>4, <3>1 DEF Stranded
  <2>14. IInv'
    BY <1>0, <2>6, <2>7, <2>8, <2>9, <2>11, <2>12, <2>13, DispatcherKeeps
  <2> QED
    BY <1>1, <1>3, <2>1, <2>4, <2>5, <2>6, <2>10, <2>14
<1>4. \/ Fail(c) /\ talk' = [talk EXCEPT ![c] = IF @ = "waiting" THEN "closed" ELSE @]
         /\ UNCHANGED msg
      \/ /\ msg' = [msg EXCEPT ![c] = m] /\ cc' = [cc EXCEPT ![c] = x]
         /\ sender' = [sender EXCEPT !.pc = "next", !.c = NoContact]
         /\ UNCHANGED talk
  BY DEF Publish
<1> QED
  BY <1>2, <1>3, <1>4

LEMMA TallyFailedKeeps ==
    ASSUME IInv, TallyFailed
    PROVE  /\ IInv' /\ sender'.pc = "next" /\ UNCHANGED <<cc, msg>>
<1>0. /\ sender.pc = "tally" /\ sender \in SenderType
      /\ UNCHANGED <<status, due, cc, optouts, talk, closing, msg, queue, resumed, req, restarts>>
  BY DEF TallyFailed, desk, IInv, CampaignTypeOK
<1>1. /\ sender' \in SenderType /\ sender'.pc = "next" /\ sender'.batch = sender.batch
  BY <1>0 DEF TallyFailed, SenderType
<1>2. CampaignTypeOK'
  <2>1. count' \in [Kinds -> Nat]
    BY DEF TallyFailed, IInv, CampaignTypeOK, Kinds
  <2> QED
    BY <1>0, <1>1, <2>1 DEF IInv, CampaignTypeOK
<1>3. RowsOK' /\ PublishedOnce' /\ SenderOK'
  BY <1>0, <1>1 DEF IInv, RowsOK, PublishedOnce, SenderOK, Chosen
<1>4. Claimed' \subseteq Claimed /\ Stranded' \subseteq Stranded
  BY <1>0, <1>1 DEF Claimed, UsedToday, Stranded
<1> QED
  BY <1>0, <1>1, <1>2, <1>3, <1>4, DispatcherKeeps

\* A restart strands the row between the mark and the publication, if there is one.
LEMMA RestartKeeps ==
    ASSUME IInv, Restart
    PROVE  IInv' /\ sender' = Rest /\ UNCHANGED cc
<1>0. /\ restarts' = restarts + 1 /\ sender' = Rest /\ queue' \in {queue, queue + 1}
      /\ UNCHANGED <<status, count, cc, optouts, talk, resumed>>
      /\ due' = [k \in Kinds |-> 0] /\ closing' = {}
  BY DEF Restart
<1>1. msg' \in [Contact -> MsgType]
  <2>1. \A c \in Contact : msg[c] \in MsgType /\ [msg[c] EXCEPT !.pc = "wait"] \in MsgType
    BY DEF IInv, CampaignTypeOK, MsgType
  <2> QED
    BY <2>1 DEF Restart
<1>2. req' \in [Request -> ReqType]
  BY EmptyThings DEF Restart
<1>3. CampaignTypeOK'
  BY <1>0, <1>1, <1>2, EmptyThings DEF IInv, CampaignTypeOK
<1>4. RowsOK' /\ PublishedOnce' /\ SenderOK'
  BY <1>0, RestShape DEF IInv, RowsOK, PublishedOnce, SenderOK, Chosen
<1>5. LimitOK'
  <2>1. UsedToday' = UsedToday /\ Claimed' = UsedToday
    BY <1>0, RestShape DEF UsedToday, Claimed
  <2>2. UsedToday \subseteq Claimed /\ Claimed \in SUBSET Contact
    BY DEF IInv, CampaignTypeOK, Claimed, UsedToday, SenderType, SenderOK
  <2>3. /\ Cardinality(UsedToday) \in Nat /\ Cardinality(Claimed) \in Nat
        /\ Cardinality(UsedToday) <= Cardinality(Claimed)
    BY <2>2, ContactsCount
  <2> QED
    BY <1>0, <2>1, <2>3, RestShape, CampaignAssumption DEF IInv, LimitOK
<1>6. StrandedBounded'
  <2>1. Stranded' \subseteq Stranded \cup {sender.c}
    BY <1>0 DEF Stranded
  <2>2. Stranded \in SUBSET Contact /\ Stranded' \in SUBSET Contact
    BY DEF Stranded
  <2>3. /\ Cardinality(Stranded) \in Nat
        /\ Cardinality(Stranded \cup {sender.c}) <= Cardinality(Stranded) + 1
    BY <2>2, ContactsAdd
  <2>4. CASE sender.c \in Contact
    <3>1. /\ Cardinality(Stranded') \in Nat /\ Cardinality(Stranded \cup {sender.c}) \in Nat
          /\ Cardinality(Stranded') <= Cardinality(Stranded \cup {sender.c})
      BY <2>1, <2>2, <2>4, ContactsCount
    <3> QED
      BY <1>0, <2>3, <3>1 DEF IInv, StrandedBounded, CampaignTypeOK
  <2>5. CASE sender.c \notin Contact
    <3>1. Stranded' \subseteq Stranded
      BY <2>1, <2>2, <2>5
    <3>2. Cardinality(Stranded') <= Cardinality(Stranded) /\ Cardinality(Stranded') \in Nat
      BY <2>2, <3>1, ContactsCount
    <3> QED
      BY <1>0, <2>3, <3>2 DEF IInv, StrandedBounded, CampaignTypeOK
  <2> QED
    BY <2>4, <2>5
<1> QED
  BY <1>0, <1>3, <1>4, <1>5, <1>6 DEF IInv

\* The disjuncts of Next, by what proves them.
LEMMA Desks ==
    ASSUME CampaignTypeOK, NEW c \in Contact, Deliver(c) \/ CloseOutbound(c) \/ Feedback(c)
    PROVE  Desk
<1>1. CASE Deliver(c)
  BY <1>1, AttemptDesk, PersistDesk, SyncDesk DEF Deliver
<1>2. CASE CloseOutbound(c)
  BY <1>2, CloseOutboundDesk
<1>3. CASE Feedback(c)
  BY <1>3, OnStatusDesk, ReplyDesk, OptOutDesk, OptOutElsewhereDesk DEF Feedback
<1> QED
  BY <1>1, <1>2, <1>3

LEMMA StepKeeps == IInv /\ [Next]_vars => IInv'
<1> SUFFICES ASSUME IInv, [Next]_vars PROVE IInv'
  OBVIOUS
<1>0. CampaignTypeOK
  BY DEF IInv
<1>1. CASE Http
  <2>1. PICK r \in Request :
            \/ \E op \in Ops, c \in Contact \cup {NoContact} : Begin(r, op, c)
            \/ Enqueue(r) \/ Commit(r)
    BY <1>1 DEF Http
  <2>2. Desk
    BY <1>0, <2>1, BeginDesk, EnqueueDesk, CommitDesk
  <2> QED
    BY <2>2, DeskInvariant
<1>2. CASE Scheduler \/ NextDay
  BY <1>0, <1>2, SchedulerDesk, NextDayDesk, DeskInvariant
<1>3. CASE Dispatcher
  BY <1>3, StartJobKeeps, CheckStatusKeeps, CheckLimitKeeps, FetchBatchKeeps, NextContactKeeps,
     MarkQueuedKeeps, PublishKeeps, TallyFailedKeeps DEF Dispatcher
<1>4. CASE Restart
  BY <1>4, RestartKeeps
<1>5. ASSUME NEW k \in Kinds, Tally(k) PROVE IInv'
  BY <1>0, <1>5, TallyDesk, DeskInvariant
<1>6. ASSUME NEW c \in Contact, Deliver(c) \/ CloseOutbound(c) \/ Feedback(c) PROVE IInv'
  BY <1>0, <1>6, Desks, DeskInvariant
<1>7. CASE UNCHANGED vars
  <2>1. /\ CampaignTypeOK' /\ UNCHANGED <<sender, restarts>>
        /\ \A c \in Contact : Changed(cc[c], cc'[c])
    BY <1>0, <1>7 DEF vars, desk, dispatch, CampaignTypeOK, Changed
  <2> QED
    BY <2>1, DeskInvariant DEF Desk
<1> QED
  BY <1>1, <1>2, <1>3, <1>4, <1>5, <1>6, <1>7 DEF Next

LEMMA Invariance == Spec => []IInv
<1>1. Init => IInv
  BY InitIInv
<1>2. IInv /\ [Next]_vars => IInv'
  BY StepKeeps
<1> QED
  BY <1>1, <1>2, PTL DEF Spec

\* Every variable keeps its type: no counter runs below zero and no message
\* exceeds the attempts it is allowed.
THEOREM CampaignTypes == Spec => []CampaignTypeOK
<1>1. IInv => CampaignTypeOK
  BY DEF IInv
<1> QED
  BY <1>1, Invariance, PTL

\* One 'send' job at most is published for a row of campaign_contacts, however
\* requests, restarts, resumed jobs and re-added rows meet the dispatcher.
THEOREM RowsPublishedOnce == Spec => []PublishedOnce
<1>1. IInv => PublishedOnce
  BY DEF IInv
<1> QED
  BY <1>1, Invariance, PTL

\* The dispatcher's count, fetch and marks, statements apart from each other
\* and from all else, never use up more than the limit of the day.
THEOREM LimitIsKept == Spec => []WithinDailyLimit
<1>1. IInv => WithinDailyLimit
  <2> SUFFICES ASSUME IInv PROVE WithinDailyLimit
    OBVIOUS
  <2>1. UsedToday \subseteq Claimed /\ Claimed \in SUBSET Contact
    BY DEF IInv, CampaignTypeOK, Claimed, UsedToday, SenderType, SenderOK
  <2>2. /\ Cardinality(UsedToday) \in Nat /\ Cardinality(Claimed) \in Nat
        /\ Cardinality(UsedToday) <= Cardinality(Claimed)
    BY <2>1, ContactsCount
  <2> QED
    BY <2>2, CampaignAssumption DEF IInv, LimitOK, WithinDailyLimit
<1> QED
  BY <1>1, Invariance, PTL

\* No more rows are left marked as queued without a job than there were restarts.
THEOREM RestartsStrand == Spec => []StrandedBounded
<1>1. IInv => StrandedBounded
  BY DEF IInv
<1> QED
  BY <1>1, Invariance, PTL

-----------------------------------------------------------------------------
(* The refinement: every row goes through ContactLifecycle.                *)

\* A row the dispatcher is about to mark or to publish has had nothing but a
\* reply or an opt-out, from a contact who wrote first.
ChosenWait == \A c \in Chosen : cc[c].fetched => cc[c].at \subseteq {"replied"}

FInv == IInv /\ ChosenWait /\ \A c \in Contact : Fits(cc[c])

Going == ChosenWait' /\ \A c \in Contact : Fits(cc'[c]) /\ OnTheWay(cc[c], cc'[c])

LEMMA ChosenContacts ==
    ASSUME IInv
    PROVE  /\ \A c \in Contact : cc[c] \in RowType
           /\ sender.batch \subseteq Contact /\ Chosen \subseteq Contact
           /\ \A c \in Chosen : cc[c].added = 0
  BY DEF IInv, CampaignTypeOK, SenderOK, Chosen, SenderType

\* A row that stays as it is, but for what neither Fits nor the stage sees.
LEMMA SameStage ==
    ASSUME NEW x \in RowType, NEW y \in RowType, Fits(x),
           y.status = x.status, y.at = x.at, y.added = x.added
    PROVE  Fits(y) /\ OnTheWay(x, y)
  BY DEF Fits, OnTheWay, StageOf

LEMMA ChangedGoes ==
    ASSUME FInv, \A c \in Contact : Changed(cc[c], cc'[c]), Chosen' \subseteq Chosen
    PROVE  Going
<1>1. \A c \in Contact :
          /\ Fits(cc'[c]) /\ OnTheWay(cc[c], cc'[c])
          /\ cc[c].added = 0 /\ cc[c].at \subseteq {"replied"} => cc'[c].at \subseteq {"replied"}
          /\ cc'[c] = NoRow \/ cc'[c].fetched = cc[c].fetched
  <2> TAKE c \in Contact
  <2>1. cc[c] \in RowType /\ Fits(cc[c]) /\ Changed(cc[c], cc'[c])
    BY ChosenContacts DEF FInv
  <2> QED
    BY <2>1, ChangedFits
<1>2. ChosenWait'
  <2> SUFFICES ASSUME NEW c \in Chosen', cc'[c].fetched
               PROVE  cc'[c].at \subseteq {"replied"}
    BY DEF ChosenWait
  <2>1. c \in Chosen /\ c \in Contact /\ cc[c].added = 0
    BY ChosenContacts DEF FInv
  <2>2. CASE cc'[c] = NoRow
    BY <2>2 DEF NoRow
  <2>3. CASE cc'[c].fetched = cc[c].fetched
    <3>1. cc[c].at \subseteq {"replied"}
      BY <2>1, <2>3 DEF FInv, ChosenWait
    <3> QED
      BY <1>1, <2>1, <3>1
  <2> QED
    BY <1>1, <2>1, <2>2, <2>3
<1> QED
  BY <1>1, <1>2 DEF Going

\* A step that changes the row of one contact the dispatcher holds.
LEMMA ChosenGoes ==
    ASSUME FInv, NEW c \in Chosen, NEW y, cc'[c] = y,
           \A d \in Contact \ {c} : cc'[d] = cc[d],
           Fits(y) /\ OnTheWay(cc[c], y),
           Chosen' \subseteq Chosen,
           c \in Chosen' => (y.fetched => y.at \subseteq {"replied"})
    PROVE  Going
<1>1. \A d \in Contact : Fits(cc'[d]) /\ OnTheWay(cc[d], cc'[d])
  <2> TAKE d \in Contact
  <2>1. cc[d] \in RowType /\ Fits(cc[d])
    BY ChosenContacts DEF FInv
  <2>2. Fits(cc[d]) /\ OnTheWay(cc[d], cc[d])
    BY <2>1, SameStage
  <2> QED
    BY <2>2
<1>2. ChosenWait'
  BY ChosenContacts DEF FInv, ChosenWait
<1> QED
  BY <1>1, <1>2 DEF Going

LEMMA FailGoes ==
    ASSUME FInv, NEW c \in Chosen, Fail(c)
    PROVE  Going
<1>1. IInv /\ c \in Contact /\ cc[c] \in RowType /\ "failed" \in Kinds
  BY ChosenContacts DEF FInv, Kinds
<1> DEFINE y == IF cc[c].fetched THEN Marked(cc[c], "failed") ELSE cc[c]
<1>2. /\ cc'[c] = y /\ \A d \in Contact \ {c} : cc'[d] = cc[d]
      /\ sender'.pc = "tally" /\ sender'.batch = sender.batch \ {c}
  BY <1>1, FailRow
<1>3. Chosen' \subseteq Chosen \ {c}
  BY <1>2 DEF Chosen
<1>4. Fits(y) /\ OnTheWay(cc[c], y)
  <2>0. Fits(cc[c]) /\ cc[c].added = 0
    BY <1>1, ChosenContacts DEF FInv
  <2>1. CASE cc[c].fetched
    <3>1. cc[c].at \subseteq {"replied"} /\ RowOK(cc[c])
      BY <1>1, <2>1 DEF FInv, IInv, RowsOK, ChosenWait
    <3>2. /\ y.status = "failed" /\ y.at = cc[c].at \cup {"failed"} /\ y.added = cc[c].added
      BY <1>1, <2>1, MarkedRow
    <3>3. StageOf(cc[c]) = "waiting"
      BY <2>0, <2>1, <3>1 DEF StageOf, RowOK
    <3>4. StageOf(y) = "failed"
      BY <3>2 DEF StageOf
    <3>5. OnTheWay(cc[c], y)
      BY <3>3, <3>4 DEF OnTheWay, Lifecycle!After
    <3>6. Fits(y)
      BY <3>2 DEF Fits, Kinds
    <3> QED
      BY <3>5, <3>6
  <2>2. CASE ~ cc[c].fetched
    BY <1>1, <2>0, <2>2, SameStage
  <2> QED
    BY <2>1, <2>2
<1> HIDE DEF y
<1> QED
  BY <1>2, <1>3, <1>4, ChosenGoes

LEMMA MarkQueuedGoes ==
    ASSUME FInv, MarkQueued
    PROVE  Going
<1> DEFINE c == sender.c
           y == [cc[c] EXCEPT !.status = IF cc[c].fetched THEN "queued" ELSE @]
<1>1. /\ c \in Chosen /\ Chosen' = Chosen
      /\ cc'[c] = y /\ \A d \in Contact \ {c} : cc'[d] = cc[d]
  BY MarkQueuedKeeps DEF FInv
<1>2. /\ cc[c] \in RowType /\ Fits(cc[c]) /\ RowOK(cc[c]) /\ cc[c].added = 0
      /\ cc[c].fetched => cc[c].at \subseteq {"replied"}
  BY <1>1, ChosenContacts DEF FInv, ChosenWait, IInv, RowsOK
<1>3. /\ y \in RowType /\ y.at = cc[c].at /\ y.added = cc[c].added /\ y.fetched = cc[c].fetched
      /\ y.status = IF cc[c].fetched THEN "queued" ELSE cc[c].status
  BY <1>2 DEF RowType
<1> HIDE DEF y
<1>4. Fits(y) /\ OnTheWay(cc[c], y)
  <2>1. CASE cc[c].fetched
    <3>1. StageOf(cc[c]) = "waiting"
      BY <1>2, <2>1 DEF StageOf, RowOK
    <3>2. StageOf(y) = "waiting"
      BY <1>3, <2>1 DEF StageOf
    <3>3. Fits(y)
      BY <1>2, <1>3, <2>1 DEF Fits, Kinds
    <3> QED
      BY <3>1, <3>2, <3>3 DEF OnTheWay
  <2>2. CASE ~ cc[c].fetched
    BY <1>2, <1>3, <2>2, SameStage
  <2> QED
    BY <2>1, <2>2
<1> HIDE DEF c
<1> QED
  BY <1>1, <1>2, <1>3, <1>4, ChosenGoes

LEMMA PublishGoes ==
    ASSUME FInv, Publish
    PROVE  Going
<1> DEFINE c == sender.c
           y == [cc[c] EXCEPT !.added = cc'[c].added]
<1>0. c \in Chosen /\ IInv'
  BY PublishKeeps DEF FInv
<1>1. CASE Fail(c)
  BY <1>0, <1>1, FailGoes
<1>2. CASE /\ sender'.pc = "next" /\ Chosen' = Chosen \ {c}
           /\ \A d \in Contact \ {c} : cc'[d] = cc[d]
           /\ cc'[c] = y /\ cc'[c].added = IF cc[c].fetched THEN 1 ELSE 0
  <2>1. /\ cc[c] \in RowType /\ Fits(cc[c]) /\ RowOK(cc[c]) /\ cc[c].added = 0
        /\ cc[c].fetched => cc[c].at \subseteq {"replied"}
    BY <1>0, ChosenContacts DEF FInv, ChosenWait, IInv, RowsOK
  <2>2. /\ y.at = cc[c].at /\ y.fetched = cc[c].fetched /\ y.status = cc[c].status
        /\ y.added = cc'[c].added
    BY <2>1 DEF RowType
  <2>3. Fits(y)
    BY <2>1, <2>2 DEF Fits
  <2>4. OnTheWay(cc[c], y)
    <3>1. CASE cc[c].fetched
      <4>1. StageOf(cc[c]) = "waiting"
        BY <2>1, <3>1 DEF StageOf, RowOK
      <4>2. y.status \in {"none", "pending", "queued", "replied", "opted_out"}
        BY <2>1, <2>2, <3>1 DEF Fits, Kinds, RowType
      <4>3. y.status # "none"
        BY <2>1, <2>2, <3>1 DEF RowOK
      <4>4. StageOf(y) \in {"waiting", "replied", "opted_out"}
        BY <4>2, <4>3 DEF StageOf
      <4> QED
        BY <4>1, <4>4 DEF OnTheWay, Lifecycle!After
    <3>2. CASE ~ cc[c].fetched
      <4>1. y.added = 0
        BY <1>2, <2>2, <3>2
      <4> QED
        BY <2>1, <2>2, <4>1 DEF OnTheWay, StageOf
    <3> QED
      BY <3>1, <3>2
  <2> HIDE DEF y, c
  <2> QED
    BY <1>0, <1>2, <2>3, <2>4, ChosenGoes
<1> QED
  BY <1>1, <1>2, PublishKeeps DEF FInv

LEMMA FetchBatchGoes ==
    ASSUME FInv, FetchBatch
    PROVE  Going
<1>0. IInv /\ sender.pc = "fetch" /\ IInv'
  BY FetchBatchKeeps DEF FInv, FetchBatch
<1>1. CASE sender' = Rest /\ \A c \in Contact : Changed(cc[c], cc'[c])
  <2>1. Chosen' \subseteq Chosen
    BY <1>1, RestShape DEF Chosen
  <2> QED
    BY <1>1, <2>1, ChangedGoes
<1>2. CASE /\ sender'.pc = "next"
           /\ \A c \in Contact : cc'[c] = [cc[c] EXCEPT !.fetched = cc'[c].fetched]
           /\ \A c \in sender'.batch : cc[c].status = "pending"
  <2>1. \A c \in Contact : /\ cc'[c].status = cc[c].status /\ cc'[c].at = cc[c].at
                           /\ Fits(cc'[c]) /\ OnTheWay(cc[c], cc'[c])
    <3> TAKE c \in Contact
    <3>1. cc[c] \in RowType /\ cc'[c] \in RowType /\ Fits(cc[c])
      BY <1>0 DEF FInv, IInv, CampaignTypeOK
    <3>2. cc'[c].status = cc[c].status /\ cc'[c].at = cc[c].at /\ cc'[c].added = cc[c].added
      BY <1>2, <3>1 DEF RowType
    <3> QED
      BY <3>1, <3>2, SameStage
  <2>2. ChosenWait'
    <3>1. \A c \in Chosen' : c \in Contact /\ c \in sender'.batch
      BY <1>0, <1>2 DEF IInv, CampaignTypeOK, SenderType, Chosen
    <3>2. \A c \in Chosen' : cc'[c].at = {}
      BY <1>2, <2>1, <3>1 DEF Fits
    <3> QED
      BY <3>2 DEF ChosenWait
  <2> QED
    BY <2>1, <2>2 DEF Going
<1> QED
  BY <1>1, <1>2, FetchBatchKeeps DEF FInv

LEMMA NextContactGoes ==
    ASSUME FInv, NextContact
    PROVE  Going
<1>0. IInv /\ sender.pc = "next"
  BY DEF FInv, NextContact
<1>1. CASE UNCHANGED cc /\ Chosen' \subseteq Chosen
  <2>1. \A c \in Contact : Changed(cc[c], cc'[c])
    BY <1>1 DEF Changed
  <2> QED
    BY <1>1, <2>1, ChangedGoes
<1>2. ASSUME NEW c \in sender.batch, Fail(c) PROVE Going
  <2>1. c \in Chosen
    BY DEF Chosen
  <2> QED
    BY <1>2, <2>1, FailGoes
<1>3. CASE sender' = [Rest EXCEPT !.pc = "check"] /\ UNCHANGED cc
  BY <1>1, <1>3, RestShape DEF Chosen, Rest
<1>4. CASE /\ UNCHANGED cc /\ sender'.pc = "queue" /\ sender'.c \in sender.batch
           /\ sender'.batch \subseteq sender.batch
  BY <1>1, <1>4 DEF Chosen
<1> QED
  BY <1>0, <1>2, <1>3, <1>4, NextContactKeeps

LEMMA IdleHolds ==
    ASSUME IInv, StartJob \/ CheckStatus \/ CheckLimit \/ TallyFailed \/ Restart
    PROVE  UNCHANGED cc /\ Chosen' \subseteq Chosen /\ sender'.pc # "tally"
<1>0. sender \in SenderType
  BY DEF IInv, CampaignTypeOK
<1>1. UNCHANGED cc
  BY DEF StartJob, CheckStatus, CheckLimit, TallyFailed, Restart
<1>2. CASE StartJob \/ Restart
  BY <1>1, <1>2 DEF StartJob, Restart, Rest, Chosen
<1>3. CASE CheckStatus
  <2>1. sender' = Rest \/ (sender'.pc = "count" /\ sender'.batch = sender.batch)
    BY <1>0, <1>3 DEF CheckStatus, SenderType
  <2> QED
    BY <1>1, <2>1, RestShape DEF Chosen
<1>4. CASE CheckLimit
  <2>1. sender' = Rest \/ (sender'.pc = "fetch" /\ sender'.batch = sender.batch)
    BY <1>0, <1>4 DEF CheckLimit, SenderType
  <2> QED
    BY <1>1, <2>1, RestShape DEF Chosen
<1>5. CASE TallyFailed
  <2>1. sender'.pc = "next" /\ sender'.batch = sender.batch
    BY <1>0, <1>5 DEF TallyFailed, SenderType
  <2> QED
    BY <1>1, <2>1 DEF Chosen
<1> QED
  BY <1>2, <1>3, <1>4, <1>5

LEMMA IdleGoes ==
    ASSUME FInv, StartJob \/ CheckStatus \/ CheckLimit \/ TallyFailed \/ Restart
    PROVE  Going
  BY IdleHolds, ChangedGoes DEF FInv, Changed

LEMMA DeskGoes ==
    ASSUME FInv, Desk
    PROVE  Going
<1>1. Chosen' = Chosen
  BY DEF Desk, Chosen
<1> QED
  BY <1>1, ChangedGoes DEF Desk

\* What proves each step, for this invariant and for the counters below.
LEMMA StepCases ==
    ASSUME IInv, [Next]_vars
    PROVE  \/ Dispatcher \/ Restart
           \/ Desk /\ \/ UNCHANGED vars \/ Scheduler \/ NextDay
                      \/ \E r \in Request :
                            \/ \E op \in Ops, c \in Contact \cup {NoContact} : Begin(r, op, c)
                            \/ Enqueue(r) \/ Commit(r)
                      \/ \E k \in Kinds : Tally(k)
                      \/ \E c \in Contact : Deliver(c) \/ CloseOutbound(c) \/ Feedback(c)
<1>0. CampaignTypeOK
  BY DEF IInv
<1>1. CASE Http
  <2>1. PICK r \in Request :
            \/ \E op \in Ops, c \in Contact \cup {NoContact} : Begin(r, op, c)
            \/ Enqueue(r) \/ Commit(r)
    BY <1>1 DEF Http
  <2>2. Desk
    BY <1>0, <2>1, BeginDesk, EnqueueDesk, CommitDesk
  <2> QED
    BY <2>1, <2>2
<1>2. CASE Scheduler \/ NextDay
  BY <1>0, <1>2, SchedulerDesk, NextDayDesk
<1>5. ASSUME NEW k \in Kinds, Tally(k) PROVE Desk
  BY <1>0, <1>5, TallyDesk
<1>6. ASSUME NEW c \in Contact, Deliver(c) \/ CloseOutbound(c) \/ Feedback(c) PROVE Desk
  BY <1>0, <1>6, Desks
<1>7. CASE UNCHANGED vars
  BY <1>0, <1>7 DEF vars, desk, dispatch, CampaignTypeOK, Changed, Desk
<1> QED
  BY <1>1, <1>2, <1>5, <1>6, <1>7 DEF Next

LEMMA StepGoes == FInv /\ [Next]_vars => FInv' /\ Going
<1> SUFFICES ASSUME FInv, [Next]_vars PROVE FInv' /\ Going
  OBVIOUS
<1>1. IInv /\ IInv'
  BY StepKeeps DEF FInv
<1>2. Dispatcher => Going
  BY IdleGoes, FetchBatchGoes, NextContactGoes, MarkQueuedGoes, PublishGoes DEF Dispatcher
<1>3. Restart => Going
  BY IdleGoes
<1>4. Desk => Going
  BY DeskGoes
<1>5. Going
  BY <1>1, <1>2, <1>3, <1>4, StepCases
<1> QED
  BY <1>1, <1>5 DEF FInv, Going

LEMMA GoingSteps ==
    ASSUME IInv, IInv', Going
    PROVE  Lifecycle!Next
<1>1. \A c \in Contact : cc[c] \in RowType /\ cc'[c] \in RowType
  BY DEF IInv, CampaignTypeOK
<1>2. \A x \in RowType : StageOf(x) \in Lifecycle!Stages
  BY DEF StageOf, RowType, Kinds, Lifecycle!Stages, Lifecycle!Outcomes
<1>3. /\ stage' \in [Contact -> Lifecycle!Stages]
      /\ \A c \in Contact : stage[c] = StageOf(cc[c]) /\ stage'[c] = StageOf(cc'[c])
  BY <1>1, <1>2 DEF stage
<1> QED
  BY <1>3 DEF Going, OnTheWay, Lifecycle!Next

LEMMA InitGoes == Init => FInv /\ Lifecycle!Init
<1> SUFFICES ASSUME Init PROVE FInv /\ Lifecycle!Init
  OBVIOUS
<1>1. IInv /\ Chosen = {}
  BY InitIInv, RestShape DEF Init, Chosen
<1>2. \A c \in Contact : cc[c] = NoRow
  BY DEF Init
<1>3. Fits(NoRow) /\ StageOf(NoRow) = "absent"
  BY DEF Fits, NoRow, StageOf, Kinds
<1> QED
  BY <1>1, <1>2, <1>3 DEF FInv, ChosenWait, stage, Lifecycle!Init

\* Campaign implements ContactLifecycle: whatever the order in which the
\* worker, the receipts, the replies, the dispatcher, its restarts and the
\* handlers come, a row's outcome only moves forward.
THEOREM RowsMoveForward == Spec => ForwardOnly
<1>1. Init => FInv /\ Lifecycle!Init
  BY InitGoes
<1>2. FInv /\ [Next]_vars => FInv'
  BY StepGoes
<1>3. FInv /\ FInv' /\ [Next]_vars => [Lifecycle!Next]_stage
  BY StepGoes, GoingSteps DEF FInv
<1> QED
  BY <1>1, <1>2, <1>3, PTL DEF Spec, ForwardOnly, Lifecycle!Spec

-----------------------------------------------------------------------------
(* The counters of the report.  A contact removed while a launch overlaps  *)
(* the removal takes back a row that may have been counted: the counters    *)
(* are right as long as removals end before the launch commits.            *)

RemovalsInDraft == \A r \in Request : req[r].op = "remove" => status = "draft"

\* Nothing of the dispatch has begun.
DraftQuiet ==
    status = "draft" =>
        /\ sender = Rest
        /\ \A c \in Contact : cc[c].added = 0
        /\ \A k \in Kinds \ {"replied"} : count[k] = 0 /\ due[k] = 0

\* The dispatcher still has the rows it has read.
Held == \A c \in Chosen : cc[c].fetched

Reached(k) == {c \in Contact : k \in cc[c].at}

\* A contact whose failure the dispatcher is about to count.
Tallying(k) == IF k = "failed" /\ sender.pc = "tally" THEN 1 ELSE 0

Counted ==
    \A k \in Kinds \ {"replied"} :
        count[k] + due[k] + Tallying(k) <= Cardinality(Reached(k))

JInv == FInv /\ DraftQuiet /\ Held /\ Counted

\* What a step of the desk does with the timestamps and with each counter.
Grow == \A c \in Contact : cc[c].at \subseteq cc'[c].at /\ cc'[c].fetched = cc[c].fetched

Once(k) ==
    \/ count'[k] + due'[k] = count[k] + due[k]
    \/ /\ count'[k] = count[k] /\ due'[k] = due[k] + 1
       /\ \E c \in Contact : cc[c].added > 0 /\ k \notin cc[c].at /\ k \in cc'[c].at

LEMMA SameCounts ==
    ASSUME UNCHANGED <<cc, count, due>>
    PROVE  Grow /\ \A k \in Kinds : Once(k)
  BY DEF Grow, Once

\* Every status from which a row moves on to k lacks k's timestamp.
LEMMA NotBefore ==
    ASSUME NEW x \in RowType, NEW k \in Kinds \ {"replied"}, Fits(x), x.status \in Before(k)
    PROVE  k \notin x.at
  BY DEF Fits, Before, CanFail, Kinds

LEMMA MessageCounts ==
    ASSUME FInv, NEW c \in Contact, NEW k \in Kinds \ {"replied"},
           TrackMessage(c, Before(k), k), UNCHANGED count
    PROVE  Grow /\ \A j \in Kinds : Once(j)
<1>0. CampaignTypeOK /\ cc[c] \in RowType /\ Fits(cc[c])
  BY DEF FInv, IInv, CampaignTypeOK
<1>1. /\ \A d \in Contact \ {c} : cc'[d] = cc[d]
      /\ \A j \in Kinds \ {k} : due'[j] = due[j]
      /\ \/ cc'[c] = cc[c] /\ due'[k] = due[k]
         \/ /\ cc[c].status \in Before(k) /\ cc'[c] = Marked(cc[c], k)
            /\ cc[c].added > 0 /\ due'[k] = due[k] + 1
  BY <1>0, MessageRow
<1>2. CASE cc'[c] = cc[c] /\ due'[k] = due[k]
  BY <1>1, <1>2 DEF Grow, Once
<1>3. CASE /\ cc[c].status \in Before(k) /\ cc'[c] = Marked(cc[c], k)
           /\ cc[c].added > 0 /\ due'[k] = due[k] + 1
  <2>1. cc'[c].at = cc[c].at \cup {k} /\ cc'[c].fetched = cc[c].fetched
    BY <1>0, <1>3, MarkedRow
  <2>2. k \notin cc[c].at
    BY <1>0, <1>3, NotBefore
  <2> QED
    BY <1>1, <1>3, <2>1, <2>2 DEF Grow, Once
<1> QED
  BY <1>1, <1>2, <1>3

LEMMA ReplyCounts ==
    ASSUME FInv, NEW c \in Contact, Reply(c)
    PROVE  Grow /\ \A k \in Kinds \ {"replied"} : Once(k)
<1>0. CampaignTypeOK /\ cc[c] \in RowType /\ "replied" \in Kinds
  BY DEF FInv, IInv, CampaignTypeOK, Kinds
<1>1. /\ \A d \in Contact \ {c} : cc'[d] = cc[d]
      /\ \A j \in Kinds \ {"replied"} : due'[j] = due[j]
      /\ cc'[c] = cc[c] \/ cc'[c] = Marked(cc[c], "replied")
  BY <1>0, ReplyDesk, TrackRow
<1>2. cc[c].at \subseteq cc'[c].at /\ cc'[c].fetched = cc[c].fetched
  BY <1>0, <1>1, MarkedRow
<1> QED
  BY <1>1, <1>2 DEF Grow, Once, Reply

LEMMA OptOutCounts ==
    ASSUME FInv, NEW c \in Contact, OptOut(c)
    PROVE  Grow /\ \A k \in Kinds : Once(k)
<1>1. \A d \in Contact : cc[d] \in RowType
  BY ChosenContacts DEF FInv
<1>2. \A d \in Contact : \/ cc'[d] = cc[d]
                         \/ cc'[d] = [cc[d] EXCEPT !.status = "opted_out"]
  BY OptOutDesk DEF FInv, IInv
<1> QED
  BY <1>1, <1>2 DEF Grow, Once, OptOut, RowType

LEMMA TallyCounts ==
    ASSUME FInv, NEW k \in Kinds, Tally(k)
    PROVE  Grow /\ \A j \in Kinds : Once(j)
<1>1. count \in [Kinds -> Nat] /\ due \in [Kinds -> Nat]
  BY DEF FInv, IInv, CampaignTypeOK
<1>2. \A j \in Kinds : count'[j] + due'[j] = count[j] + due[j]
  BY <1>1 DEF Tally
<1> QED
  BY <1>2 DEF Grow, Once, Tally

LEMMA CommitCounts ==
    ASSUME FInv, NEW r \in Request, Commit(r)
    PROVE  (Grow \/ req[r].op = "remove") /\ \A k \in Kinds : Once(k)
<1>1. \A d \in Contact : cc[d] \in RowType
  BY ChosenContacts DEF FInv
<1>2. \A c \in Contact : \/ cc'[c] = cc[c]
                         \/ cc[c].status = "none" /\ cc'[c] = [cc[c] EXCEPT !.status = "pending"]
                         \/ req[r].op = "remove" /\ cc'[c] = NoRow
  BY CommitDesk DEF FInv, IInv
<1> QED
  BY <1>1, <1>2 DEF Grow, Once, Commit, RowType

LEMMA NextDayCounts ==
    ASSUME FInv, NextDay
    PROVE  Grow /\ \A k \in Kinds : Once(k)
<1>1. \A d \in Contact : cc[d] \in RowType
  BY ChosenContacts DEF FInv
<1>2. \A c \in Contact : cc'[c] = [cc[c] EXCEPT !.today = FALSE]
  BY NextDayDesk DEF FInv, IInv
<1> QED
  BY <1>1, <1>2 DEF Grow, Once, NextDay, RowType

LEMMA ContactCounts ==
    ASSUME FInv, NEW c \in Contact, Deliver(c) \/ CloseOutbound(c) \/ Feedback(c)
    PROVE  Grow /\ \A k \in Kinds \ {"replied"} : Once(k)
<1>1. CASE Attempt(c) \/ PersistExternalId(c) \/ CloseOutbound(c) \/ OptOutElsewhere(c)
  BY <1>1, SameCounts DEF Attempt, PersistExternalId, CloseOutbound, OptOutElsewhere
<1>2. CASE SyncSent(c) \/ SyncFailed(c)
  <2>1. PICK k \in {"sent", "failed"} : TrackMessage(c, Before(k), k) /\ UNCHANGED count
    BY <1>2 DEF SyncSent, SyncFailed, Before
  <2> QED
    BY <2>1, MessageCounts DEF Kinds
<1>3. ASSUME NEW k \in {"delivered", "read", "failed"}, OnStatus(c, k)
      PROVE  Grow /\ \A j \in Kinds \ {"replied"} : Once(j)
  <2>1. TrackMessage(c, Before(k), k) /\ UNCHANGED count
    BY <1>3, OnStatusTracks DEF OnStatus
  <2> QED
    BY <2>1, MessageCounts DEF Kinds
<1> QED
  BY <1>1, <1>2, <1>3, ReplyCounts, OptOutCounts DEF Deliver, Feedback

LEMMA DeskCounts ==
    ASSUME FInv, RemovalsInDraft,
           \/ UNCHANGED vars \/ Scheduler \/ NextDay
           \/ \E r \in Request :
                 \/ \E op \in Ops, c \in Contact \cup {NoContact} : Begin(r, op, c)
                 \/ Enqueue(r) \/ Commit(r)
           \/ \E k \in Kinds : Tally(k)
           \/ \E c \in Contact : Deliver(c) \/ CloseOutbound(c) \/ Feedback(c)
    PROVE  (Grow \/ status = "draft") /\ \A k \in Kinds \ {"replied"} : Once(k)
<1>1. CASE UNCHANGED vars \/ Scheduler
  BY <1>1, SameCounts DEF vars, Scheduler, StartScheduled, ResumeRunning
<1>2. ASSUME NEW r \in Request,
             \/ \E op \in Ops, c \in Contact \cup {NoContact} : Begin(r, op, c)
             \/ Enqueue(r) \/ Commit(r)
      PROVE  (Grow \/ status = "draft") /\ \A k \in Kinds \ {"replied"} : Once(k)
  <2>1. CASE \/ \E op \in Ops, c \in Contact \cup {NoContact} : Begin(r, op, c)
             \/ Enqueue(r)
    BY <2>1, SameCounts DEF Begin, Enqueue
  <2>2. CASE Commit(r)
    BY <2>2, CommitCounts DEF RemovalsInDraft
  <2> QED
    BY <1>2, <2>1, <2>2
<1> QED
  BY <1>1, <1>2, NextDayCounts, TallyCounts, ContactCounts

\* The same of a step of the dispatcher, whose own count of a failure is one
\* of the two statements that Tallying tells apart.
Sum(k) == count[k] + due[k] + Tallying(k)

DispatchCounts ==
    /\ Held' /\ \A c \in Contact : cc[c].at \subseteq cc'[c].at
    /\ \A k \in Kinds \ {"replied"} :
          \/ Sum(k)' <= Sum(k)
          \/ /\ Sum(k)' = Sum(k) + 1
             /\ \E c \in Contact : k \notin cc[c].at /\ k \in cc'[c].at

LEMMA CountTypes ==
    ASSUME IInv
    PROVE  \A k \in Kinds : count[k] \in Nat /\ due[k] \in Nat /\ Tallying(k) \in {0, 1}
  BY DEF IInv, CampaignTypeOK, Tallying

LEMMA SumFalls ==
    ASSUME IInv, UNCHANGED <<count, due>>, sender'.pc # "tally"
    PROVE  \A k \in Kinds : Sum(k)' <= Sum(k)
  BY CountTypes DEF Sum, Tallying

LEMMA FailCounts ==
    ASSUME JInv, NEW c \in Chosen, Fail(c), UNCHANGED <<count, due>>, sender.pc # "tally"
    PROVE  DispatchCounts
<1>1. IInv /\ c \in Contact /\ cc[c] \in RowType /\ "failed" \in Kinds
  BY ChosenContacts DEF JInv, FInv, Kinds
<1>2. cc[c].fetched /\ cc[c].at \subseteq {"replied"}
  BY DEF JInv, FInv, Held, ChosenWait
<1>3. /\ cc'[c] = Marked(cc[c], "failed") /\ \A d \in Contact \ {c} : cc'[d] = cc[d]
      /\ sender'.pc = "tally" /\ sender'.batch = sender.batch \ {c}
  BY <1>1, <1>2, FailRow
<1>4. cc'[c].at = cc[c].at \cup {"failed"} /\ cc'[c].fetched = cc[c].fetched
  BY <1>1, <1>3, MarkedRow
<1>5. Held'
  <2>1. \A d \in Chosen' : d \in Chosen /\ d \in Contact
    BY <1>1, <1>3, ChosenContacts DEF Chosen
  <2>2. \A d \in Chosen' : cc'[d].fetched
    BY <1>2, <1>3, <1>4, <2>1 DEF JInv, Held
  <2> QED
    BY <2>2 DEF Held
<1>6. \A k \in Kinds \ {"replied"} :
          \/ Sum(k)' <= Sum(k)
          \/ /\ Sum(k)' = Sum(k) + 1
             /\ \E d \in Contact : k \notin cc[d].at /\ k \in cc'[d].at
  <2> TAKE k \in Kinds \ {"replied"}
  <2>1. count[k] \in Nat /\ due[k] \in Nat
    BY <1>1, CountTypes
  <2>2. CASE k = "failed"
    <3>1. Tallying(k) = 0 /\ Tallying(k)' = 1
      BY <1>3, <2>2 DEF Tallying
    <3> QED
      BY <1>1, <1>2, <1>4, <2>1, <2>2, <3>1 DEF Sum
  <2>3. CASE k # "failed"
    <3>1. Tallying(k) = 0 /\ Tallying(k)' = 0
      BY <2>3 DEF Tallying
    <3> QED
      BY <2>1, <3>1 DEF Sum
  <2> QED
    BY <2>2, <2>3
<1> QED
  BY <1>3, <1>4, <1>5, <1>6 DEF DispatchCounts

LEMMA IdleCounts ==
    ASSUME JInv, StartJob \/ CheckStatus \/ CheckLimit \/ TallyFailed \/ Restart
    PROVE  DispatchCounts
<1>0. IInv
  BY DEF JInv, FInv
<1>1. UNCHANGED cc /\ Chosen' \subseteq Chosen /\ sender'.pc # "tally"
  BY <1>0, IdleHolds
<1>2. Held' /\ \A c \in Contact : cc[c].at \subseteq cc'[c].at
  BY <1>1 DEF JInv, Held
<1>3. CASE StartJob \/ CheckStatus \/ CheckLimit
  <2>1. UNCHANGED <<count, due>>
    BY <1>3 DEF StartJob, CheckStatus, CheckLimit
  <2> QED
    BY <1>0, <1>1, <1>2, <2>1, SumFalls DEF DispatchCounts
<1>4. CASE TallyFailed
  <2>1. \A k \in Kinds : Sum(k)' <= Sum(k)
    <3> TAKE k \in Kinds
    <3>1. /\ count[k] \in Nat /\ due[k] \in Nat /\ due'[k] = due[k]
          /\ count'[k] = IF k = "failed" THEN count[k] + 1 ELSE count[k]
      BY <1>0, <1>4, CountTypes DEF TallyFailed, IInv, CampaignTypeOK
    <3>2. Tallying(k) = (IF k = "failed" THEN 1 ELSE 0) /\ Tallying(k)' = 0
      BY <1>1, <1>4 DEF Tallying, TallyFailed
    <3> QED
      BY <3>1, <3>2 DEF Sum
  <2> QED
    BY <1>2, <2>1 DEF DispatchCounts
<1>5. CASE Restart
  <2>1. \A k \in Kinds : Sum(k)' <= Sum(k)
    <3> TAKE k \in Kinds
    <3>1. count[k] \in Nat /\ due[k] \in Nat /\ Tallying(k) \in {0, 1}
      BY <1>0, CountTypes
    <3>2. count'[k] = count[k] /\ due'[k] = 0 /\ Tallying(k)' = 0
      BY <1>1, <1>5 DEF Restart, Tallying
    <3> QED
      BY <3>1, <3>2 DEF Sum
  <2> QED
    BY <1>2, <2>1 DEF DispatchCounts
<1> QED
  BY <1>3, <1>4, <1>5

LEMMA FetchBatchCounts ==
    ASSUME JInv, FetchBatch
    PROVE  DispatchCounts
<1>0. IInv /\ FInv /\ UNCHANGED <<count, due>> /\ IInv'
  BY FetchBatchKeeps DEF JInv, FInv, FetchBatch
<1>1. CASE sender' = Rest /\ \A c \in Contact : cc'[c].at = cc[c].at
  <2>1. Chosen' = {} /\ sender'.pc # "tally"
    BY <1>1, RestShape DEF Chosen
  <2> QED
    BY <1>0, <1>1, <2>1, SumFalls DEF DispatchCounts, Held
<1>2. CASE /\ sender'.pc = "next"
           /\ \A c \in Contact : cc'[c] = [cc[c] EXCEPT !.fetched = cc'[c].fetched]
           /\ \A c \in sender'.batch : cc'[c].fetched
  <2>1. Held'
    BY <1>2 DEF Held, Chosen
  <2>2. \A c \in Contact : cc'[c].at = cc[c].at
    <3> TAKE c \in Contact
    <3>1. cc[c] \in RowType
      BY <1>0, ChosenContacts
    <3> QED
      BY <1>2, <3>1 DEF RowType
  <2> QED
    BY <1>0, <1>2, <2>1, <2>2, SumFalls DEF DispatchCounts
<1> QED
  BY <1>0, <1>1, <1>2, FetchBatchKeeps

LEMMA NextContactCounts ==
    ASSUME JInv, NextContact
    PROVE  DispatchCounts
<1>0. IInv /\ sender.pc = "next" /\ UNCHANGED <<count, due>>
  BY DEF JInv, FInv, NextContact
<1>1. CASE UNCHANGED cc /\ Chosen' \subseteq Chosen /\ sender'.pc # "tally"
  <2>1. Held'
    BY <1>1 DEF JInv, Held
  <2> QED
    BY <1>0, <1>1, <2>1, SumFalls DEF DispatchCounts
<1>2. ASSUME NEW c \in sender.batch, Fail(c) PROVE DispatchCounts
  <2>1. c \in Chosen
    BY DEF Chosen
  <2> QED
    BY <1>0, <1>2, <2>1, FailCounts
<1>3. CASE sender' = [Rest EXCEPT !.pc = "check"] /\ UNCHANGED cc
  BY <1>1, <1>3, RestShape DEF Chosen, Rest
<1>4. CASE /\ UNCHANGED cc /\ sender'.pc = "queue" /\ sender'.c \in sender.batch
           /\ sender'.batch \subseteq sender.batch
  BY <1>1, <1>4 DEF Chosen
<1> QED
  BY <1>0, <1>2, <1>3, <1>4, NextContactKeeps

LEMMA MarkQueuedCounts ==
    ASSUME JInv, MarkQueued
    PROVE  DispatchCounts
<1> DEFINE c == sender.c
           y == [cc[c] EXCEPT !.status = IF cc[c].fetched THEN "queued" ELSE @]
<1>0. IInv
  BY DEF JInv, FInv
<1>1. /\ c \in Chosen /\ Chosen' = Chosen
      /\ cc'[c] = y /\ \A d \in Contact \ {c} : cc'[d] = cc[d]
  BY <1>0, MarkQueuedKeeps
<1>2. c \in Contact /\ cc[c] \in RowType /\ Chosen \subseteq Contact
  BY <1>0, <1>1, ChosenContacts
<1>3. y.at = cc[c].at /\ y.fetched = cc[c].fetched
  BY <1>2 DEF RowType
<1>4. UNCHANGED <<count, due>> /\ sender'.pc # "tally"
  BY <1>0 DEF MarkQueued, IInv, CampaignTypeOK, SenderType
<1> HIDE DEF y, c
<1>5. Held'
  BY <1>1, <1>2, <1>3 DEF JInv, Held
<1> QED
  BY <1>0, <1>1, <1>2, <1>3, <1>4, <1>5, SumFalls DEF DispatchCounts

LEMMA PublishCounts ==
    ASSUME JInv, Publish
    PROVE  DispatchCounts
<1> DEFINE c == sender.c
           y == [cc[c] EXCEPT !.added = cc'[c].added]
<1>0. IInv /\ c \in Chosen /\ sender.pc = "publish" /\ UNCHANGED <<count, due>>
  BY PublishKeeps DEF JInv, FInv, Publish
<1>1. CASE Fail(c)
  BY <1>0, <1>1, FailCounts
<1>2. CASE /\ sender'.pc = "next" /\ Chosen' = Chosen \ {c}
           /\ \A d \in Contact \ {c} : cc'[d] = cc[d]
           /\ cc'[c] = y
  <2>1. c \in Contact /\ cc[c] \in RowType /\ Chosen \subseteq Contact
    BY <1>0, ChosenContacts
  <2>2. y.at = cc[c].at
    BY <2>1 DEF RowType
  <2>3. Held'
    BY <1>2, <2>1 DEF JInv, Held
  <2> HIDE DEF y, c
  <2> QED
    BY <1>0, <1>2, <2>1, <2>2, <2>3, SumFalls DEF DispatchCounts
<1> QED
  BY <1>0, <1>1, <1>2, PublishKeeps

LEMMA DispatcherCounts ==
    ASSUME JInv, Dispatcher \/ Restart
    PROVE  DispatchCounts
  BY IdleCounts, FetchBatchCounts, NextContactCounts, MarkQueuedCounts, PublishCounts
     DEF Dispatcher

\* A counter that grows by one has one contact more to count.
LEMMA CountedKept ==
    ASSUME IInv, IInv', Counted, \A c \in Contact : cc[c].at \subseteq cc'[c].at,
           NEW k \in Kinds \ {"replied"},
           \/ Sum(k)' <= Sum(k)
           \/ /\ Sum(k)' = Sum(k) + 1
              /\ \E c \in Contact : k \notin cc[c].at /\ k \in cc'[c].at
    PROVE  Sum(k)' <= Cardinality(Reached(k)')
<1>1. Reached(k) \in SUBSET Contact /\ Reached(k)' \in SUBSET Contact
  BY DEF Reached
<1>2. Reached(k) \subseteq Reached(k)'
  BY DEF Reached
<1>3. /\ Cardinality(Reached(k)) \in Nat /\ Cardinality(Reached(k)') \in Nat
      /\ Cardinality(Reached(k)) <= Cardinality(Reached(k)')
  BY <1>1, <1>2, ContactsCount
<1>4. Sum(k) <= Cardinality(Reached(k)) /\ Sum(k) \in Nat
  BY CountTypes DEF Counted, Sum
<1>5. Sum(k)' \in Nat
  <2>1. count'[k] \in Nat /\ due'[k] \in Nat /\ Tallying(k)' \in {0, 1}
    BY DEF IInv, CampaignTypeOK, Tallying
  <2> QED
    BY <2>1 DEF Sum
<1>6. CASE Sum(k)' <= Sum(k)
  BY <1>3, <1>4, <1>5, <1>6
<1>7. ASSUME NEW c \in Contact, k \notin cc[c].at, k \in cc'[c].at, Sum(k)' = Sum(k) + 1
      PROVE  Sum(k)' <= Cardinality(Reached(k)')
  <2>1. c \notin Reached(k) /\ Reached(k) \cup {c} \subseteq Reached(k)'
    BY <1>2, <1>7 DEF Reached
  <2>2. Cardinality(Reached(k) \cup {c}) = Cardinality(Reached(k)) + 1
    BY <1>1, <2>1, ContactsAdd
  <2>3. Cardinality(Reached(k) \cup {c}) <= Cardinality(Reached(k)')
    BY <1>1, <2>1, ContactsCount
  <2> QED
    BY <1>3, <1>4, <1>5, <1>7, <2>2, <2>3
<1> QED
  BY <1>6, <1>7

LEMMA DraftKeeps ==
    ASSUME JInv, RemovalsInDraft, [Next]_vars, IInv'
    PROVE  DraftQuiet'
<1> SUFFICES ASSUME status' = "draft"
             PROVE  /\ sender' = Rest
                    /\ \A c \in Contact : cc'[c].added = 0
                    /\ \A k \in Kinds \ {"replied"} : count'[k] = 0 /\ due'[k] = 0
  BY DEF DraftQuiet
<1>0. IInv /\ FInv
  BY DEF JInv, FInv
<1>1. status = "draft"
  BY DEF Next, Http, Begin, Enqueue, Commit, StatusAfter, Scheduler, StartScheduled, ResumeRunning,
     NextDay, Dispatcher, StartJob, CheckStatus, CheckLimit, FetchBatch, NextContact, MarkQueued,
     Publish, TallyFailed, Restart, Tally, CompleteIfSettled, Deliver, Attempt, PersistExternalId,
     SyncSent, SyncFailed, CloseOutbound, Feedback, OnStatus, Reply, OptOut, OptOutElsewhere, vars
<1>2. /\ sender = Rest /\ \A c \in Contact : cc[c].added = 0
      /\ \A k \in Kinds \ {"replied"} : count[k] = 0 /\ due[k] = 0
  BY <1>1 DEF JInv, DraftQuiet
<1>3. CASE Dispatcher
  <2>1. UNCHANGED <<sender, cc, count, due>>
    BY <1>1, <1>2, <1>3, RestShape DEF Dispatcher, StartJob, CheckStatus, CheckLimit, FetchBatch,
       NextContact, MarkQueued, Publish, TallyFailed
  <2> QED
    BY <1>2, <2>1
<1>4. CASE Restart
  BY <1>2, <1>4 DEF Restart
<1>5. CASE Desk /\ \A k \in Kinds \ {"replied"} : Once(k)
  <2>1. sender' = Rest
    BY <1>2, <1>5 DEF Desk
  <2>2. \A c \in Contact : cc'[c].added = 0
    <3> TAKE c \in Contact
    <3>1. cc[c] \in RowType /\ RowOK(cc[c]) /\ Changed(cc[c], cc'[c])
      BY <1>0, <1>5, ChosenContacts DEF IInv, RowsOK, Desk
    <3>2. Kept(cc[c], cc'[c])
      BY <3>1, ChangedKept
    <3> QED
      BY <1>2, <3>2 DEF Kept
  <2>3. \A k \in Kinds \ {"replied"} : count'[k] = 0 /\ due'[k] = 0
    <3> TAKE k \in Kinds \ {"replied"}
    <3>1. count'[k] \in Nat /\ due'[k] \in Nat
      BY DEF IInv, CampaignTypeOK
    <3>2. Once(k) /\ count[k] = 0 /\ due[k] = 0
      BY <1>2, <1>5
    <3>3. count'[k] + due'[k] = 0
      BY <1>2, <3>2 DEF Once
    <3> QED
      BY <3>1, <3>3
  <2> QED
    BY <2>1, <2>2, <2>3
<1> QED
  BY <1>0, <1>3, <1>4, <1>5, StepCases, DeskCounts

LEMMA StepCounts == JInv /\ RemovalsInDraft /\ [Next]_vars => JInv'
<1> SUFFICES ASSUME JInv, RemovalsInDraft, [Next]_vars PROVE JInv'
  OBVIOUS
<1>0. FInv /\ FInv' /\ IInv /\ IInv'
  BY StepGoes DEF JInv, FInv
<1>1. DraftQuiet'
  BY <1>0, DraftKeeps
<1>2. CASE DispatchCounts
  <2>1. \A k \in Kinds \ {"replied"} : Sum(k)' <= Cardinality(Reached(k)')
    BY <1>0, <1>2, CountedKept DEF DispatchCounts, JInv
  <2>2. Counted'
    BY <2>1 DEF Counted, Sum
  <2> QED
    BY <1>0, <1>1, <1>2, <2>2 DEF JInv, DispatchCounts
<1>3. CASE Desk /\ (\A k \in Kinds \ {"replied"} : Once(k)) /\ Grow
  <2>1. Chosen' = Chosen /\ Chosen \subseteq Contact
    BY <1>0, <1>3, ChosenContacts DEF Desk, Chosen
  <2>2. Held'
    BY <1>3, <2>1 DEF JInv, Held, Grow
  <2>3. \A k \in Kinds \ {"replied"} :
            \/ Sum(k)' <= Sum(k)
            \/ /\ Sum(k)' = Sum(k) + 1
               /\ \E c \in Contact : k \notin cc[c].at /\ k \in cc'[c].at
    <3> TAKE k \in Kinds \ {"replied"}
    <3>1. /\ count[k] \in Nat /\ due[k] \in Nat /\ Tallying(k) \in {0, 1}
          /\ Tallying(k)' = Tallying(k) /\ Once(k)
      BY <1>0, <1>3, CountTypes DEF Tallying, Desk
    <3>2. count'[k] \in Nat /\ due'[k] \in Nat
      BY <1>0 DEF IInv, CampaignTypeOK
    <3> HIDE DEF Tallying
    <3> QED
      BY <3>1, <3>2 DEF Once, Sum
  <2>4. DispatchCounts
    BY <1>3, <2>2, <2>3 DEF DispatchCounts, Grow
  <2> QED
    BY <1>2, <2>4
<1>4. CASE Desk /\ (\A k \in Kinds \ {"replied"} : Once(k)) /\ status = "draft"
  <2>1. sender' = Rest /\ \A k \in Kinds \ {"replied"} : count[k] = 0 /\ due[k] = 0
    BY <1>4 DEF JInv, DraftQuiet, Desk
  <2>2. Held'
    BY <2>1, RestShape DEF Held, Chosen
  <2>3. \A k \in Kinds \ {"replied"} : Sum(k)' <= Cardinality(Reached(k)')
    <3> TAKE k \in Kinds \ {"replied"}
    <3>1. Tallying(k)' = 0 /\ Once(k)
      BY <1>4, <2>1, RestShape DEF Tallying
    <3>2. \A c \in Contact : cc[c].added = 0
      BY <1>4 DEF JInv, DraftQuiet
    <3>3. count'[k] + due'[k] = 0
      BY <2>1, <3>1, <3>2 DEF Once
    <3>4. Cardinality(Reached(k)') \in Nat
      BY ContactsCount DEF Reached
    <3> QED
      BY <3>1, <3>3, <3>4 DEF Sum
  <2>4. Counted'
    BY <2>3 DEF Counted, Sum
  <2> QED
    BY <1>0, <1>1, <2>2, <2>4 DEF JInv
<1> QED
  BY <1>0, <1>2, <1>3, <1>4, StepCases, DeskCounts, DispatcherCounts

\* The counters of the report count no contact twice, unless a contact is
\* removed while a launch overlaps the removal.
THEOREM ContactsCountedOnce == Spec /\ []RemovalsInDraft => []CountedOnce
<1>1. Init => JInv
  <2> SUFFICES ASSUME Init PROVE JInv
    OBVIOUS
  <2>1. FInv
    BY InitGoes
  <2>2. sender = Rest /\ \A c \in Contact : cc[c].added = 0
    BY DEF Init, NoRow
  <2>3. \A k \in Kinds : count[k] = 0 /\ due[k] = 0 /\ Tallying(k) = 0
    BY <2>2, RestShape DEF Init, Tallying
  <2>4. Counted
    <3> SUFFICES ASSUME NEW k \in Kinds \ {"replied"}
                 PROVE  count[k] + due[k] + Tallying(k) <= Cardinality(Reached(k))
      BY DEF Counted
    <3>1. Cardinality(Reached(k)) \in Nat
      BY ContactsCount DEF Reached
    <3> QED
      BY <2>3, <3>1
  <2>5. Held
    BY <2>2, RestShape DEF Held, Chosen
  <2> QED
    BY <2>1, <2>2, <2>3, <2>4, <2>5 DEF JInv, DraftQuiet
<1>2. JInv /\ RemovalsInDraft /\ [Next]_vars => JInv'
  BY StepCounts
<1>3. JInv => CountedOnce
  <2> SUFFICES ASSUME JInv, NEW k \in Kinds \ {"replied"}
               PROVE  count[k] + due[k] <= Cardinality(Reached(k))
    BY DEF CountedOnce, Reached
  <2>1. count[k] \in Nat /\ due[k] \in Nat /\ Tallying(k) \in {0, 1}
    BY CountTypes DEF JInv, FInv
  <2>2. Cardinality(Reached(k)) \in Nat
    BY ContactsCount DEF Reached
  <2>3. count[k] + due[k] + Tallying(k) <= Cardinality(Reached(k))
    BY DEF JInv, Counted
  <2> QED
    BY <2>1, <2>2, <2>3
<1> QED
  BY <1>1, <1>2, <1>3, PTL DEF Spec

\* The condition holds, for one, when requests do not overlap.
THEOREM LoneRequestsRemoveInDraft ==
    ASSUME \A r, s \in Request : r = s
    PROVE  Spec => []RemovalsInDraft
<1>1. Init => RemovalsInDraft
  BY DEF Init, RemovalsInDraft, NoRequest
<1>2. CampaignTypeOK /\ RemovalsInDraft /\ [Next]_vars => RemovalsInDraft'
  <2> SUFFICES ASSUME CampaignTypeOK, RemovalsInDraft, [Next]_vars,
                      NEW r \in Request, req'[r].op = "remove"
               PROVE  status' = "draft"
    BY DEF RemovalsInDraft
  <2>1. ASSUME NEW s \in Request, NEW op \in Ops, NEW c \in Contact \cup {NoContact},
               Begin(s, op, c)
        PROVE  status' = "draft"
    <3>1. s = r /\ req'[r].op = op /\ status' = status /\ status \in AllowedIn(op)
      BY <2>1 DEF Begin, CampaignTypeOK
    <3> QED
      BY <3>1 DEF AllowedIn
  <2>2. ASSUME NEW s \in Request, Enqueue(s) PROVE status' = "draft"
    <3>1. req'[r].op = req[r].op /\ status' = status
      BY <2>2 DEF Enqueue, CampaignTypeOK, ReqType
    <3> QED
      BY <3>1 DEF RemovalsInDraft
  <2>3. ASSUME NEW s \in Request PROVE ~ Commit(s)
    BY DEF Commit, NoRequest, CampaignTypeOK
  <2>4. CASE Restart
    BY <2>4 DEF Restart, NoRequest
  <2>5. CASE /\ Scheduler \/ NextDay \/ Dispatcher \/ (\E k \in Kinds : Tally(k)) \/ UNCHANGED vars
                \/ \E c \in Contact : Deliver(c) \/ CloseOutbound(c) \/ Feedback(c)
    <3>1. req' = req
      BY <2>5 DEF Scheduler, StartScheduled, ResumeRunning,
         NextDay, Dispatcher, StartJob, CheckStatus, CheckLimit, FetchBatch, NextContact,
         MarkQueued, Publish, TallyFailed, Tally, Deliver, Attempt, PersistExternalId,
         SyncSent, SyncFailed, CloseOutbound, Feedback, OnStatus, Reply, OptOut,
         OptOutElsewhere, vars
    <3>2. status = "draft"
      BY <3>1 DEF RemovalsInDraft
    <3>3. status' = status
      BY <2>5, <3>2 DEF Scheduler, StartScheduled, ResumeRunning,
         NextDay, Dispatcher, StartJob, CheckStatus, CheckLimit, FetchBatch, NextContact,
         MarkQueued, Publish, TallyFailed, Tally, CompleteIfSettled, Deliver, Attempt,
         PersistExternalId, SyncSent, SyncFailed, CloseOutbound, Feedback, OnStatus, Reply,
         OptOut, OptOutElsewhere, vars
    <3> QED
      BY <3>2, <3>3
  <2> QED
    BY <2>1, <2>2, <2>3, <2>4, <2>5 DEF Next, Http
<1> QED
  BY <1>1, <1>2, CampaignTypes, PTL DEF Spec
=============================================================================

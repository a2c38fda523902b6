-------------------------- MODULE TicketLifecycle --------------------------
(***************************************************************************)
(* What tickets.service.ts promises of the status of a ticket: it moves    *)
(* along STATUS_TRANSITIONS, except that a transfer takes any unresolved   *)
(* ticket back to a queue.  "forced" is raised by a write that asked       *)
(* nothing of the row as it was when it was written.                       *)
(***************************************************************************)
VARIABLES
    status,    \* tickets.status, "none" when there is no row
    forced

Status == {"none", "queued", "open", "in_progress", "waiting", "resolved", "closed"}

Transitions ==
    {<<"queued", "open">>, <<"queued", "in_progress">>,
     <<"open", "in_progress">>, <<"open", "waiting">>,
     <<"in_progress", "open">>, <<"in_progress", "waiting">>,
     <<"in_progress", "resolved">>,
     <<"waiting", "open">>, <<"waiting", "in_progress">>,
     <<"resolved", "open">>, <<"resolved", "in_progress">>, <<"resolved", "closed">>,
     <<"closed", "open">>}

Init == status = "none" /\ forced = FALSE

Create == status = "none" /\ status' \in Status \ {"none", "resolved", "closed"}

Move == <<status, status'>> \in Transitions

Transfer ==
    /\ status \in {"queued", "open", "in_progress", "waiting"}
    /\ status' \in {"queued", "open"}

\* A write that raises "forced" is bound by nothing, and so is what follows.
Force == forced' /\ status' \in Status \ {"none"}

Delete == status # "none" /\ status' = "none" /\ ~ forced'

Next ==
    \/ Create /\ UNCHANGED forced
    \/ Move /\ UNCHANGED forced
    \/ Transfer /\ UNCHANGED forced
    \/ Force
    \/ Delete

Spec == Init /\ [][Next]_<<status, forced>>
=============================================================================

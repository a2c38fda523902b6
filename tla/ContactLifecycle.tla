-------------------------- MODULE ContactLifecycle --------------------------
(***************************************************************************)
(* What a campaign promises of one contact's row in campaign_contacts,     *)
(* whatever order the message worker, the provider's status webhooks, the  *)
(* contact's replies and the dispatcher's restarts come in: once the       *)
(* message is on its way the status only moves forward.                    *)
(***************************************************************************)
CONSTANT Contact

VARIABLE stage

Outcomes == {"sent", "delivered", "read", "replied", "failed", "opted_out"}

Stages == {"absent", "waiting"} \cup Outcomes

\* Where a row may go from each stage.  A reply or a read receipt may come
\* before the news of the delivery; a failure is final but for an opt-out.
After(s) ==
    CASE s = "absent"    -> {"waiting"}
      [] s = "waiting"   -> {"sent", "replied", "failed", "opted_out"}
      [] s = "sent"      -> {"delivered", "read", "replied", "failed", "opted_out"}
      [] s = "delivered" -> {"read", "replied", "opted_out"}
      [] s = "read"      -> {"replied", "opted_out"}
      [] s = "replied"   -> {"opted_out"}
      [] s = "failed"    -> {"opted_out"}
      [] s = "opted_out" -> {}

Init == stage = [c \in Contact |-> "absent"]

\* One step of the desk may move several rows: the dispatcher closes those of
\* all contacts who have opted out at once.  A row may also be deleted.
Next ==
    /\ stage' \in [Contact -> Stages]
    /\ \A c \in Contact : stage'[c] \in {stage[c], "absent"} \cup After(stage[c])

Spec == Init /\ [][Next]_stage

=============================================================================

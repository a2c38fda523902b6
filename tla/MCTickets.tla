----------------------------- MODULE MCTickets -----------------------------
(* Instances of Tickets for TLC.                                           *)
EXTENDS Tickets, TLC

Members == [d \in Dept |-> Agent]
Interchangeable == Permutations(Agent) \cup Permutations(Dept)
=============================================================================

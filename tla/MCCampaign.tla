----------------------------- MODULE MCCampaign -----------------------------
(* Instances of Campaign for TLC.                                          *)
EXTENDS Campaign, TLC

Interchangeable == Permutations(Contact) \cup Permutations(Request)
=============================================================================

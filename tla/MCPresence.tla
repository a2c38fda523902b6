----------------------------- MODULE MCPresence -----------------------------
(* Instances of Presence for TLC.                                          *)
EXTENDS Presence, TLC

CONSTANTS s1, s2, p1, p2

OnePerProcess == s1 :> p1 @@ s2 :> p2

\* A connection changes places together with its process.
Mirror == {f \in Permutations(Socket \cup Process) :
             \A s \in Socket : f[s] \in Socket /\ f[Host[s]] = Host[f[s]]}
=============================================================================

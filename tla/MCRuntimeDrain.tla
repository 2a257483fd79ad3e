--------------------------- MODULE MCRuntimeDrain ---------------------------
(* RuntimeDrain for TLC. *)
EXTENDS RuntimeDrain

CONSTANTS r1, r2, s1, s2

(* One prompt for each runtime, or both for the same one.                  *)
Apart    == [s \in Sends |-> IF s = s2 THEN r2 ELSE r1]
Together == [s \in Sends |-> r1]

Symmetry == Permutations(Ids) \cup Permutations(Tokens)

(* Every prompt has been dealt with: the processes wait for input.         *)
Quiet == queue = <<>> /\ AtRest /\ UNCHANGED vars

MCSpec == Init /\ [][Next \/ Quiet]_vars
=============================================================================

---------------------------- MODULE MCPromptQueue ----------------------------
(* PromptQueue for TLC: ids, lease ids and workers are interchangeable.    *)
EXTENDS PromptQueue

Symmetry == Permutations(Ids) \cup Permutations(Tokens) \cup Permutations(Workers)

(* Every prompt that can be accepted has been dealt with. *)
Quiet == used = Ids /\ queue = <<>> /\ UNCHANGED vars

MCSpec == Init /\ [][Next \/ Quiet]_vars
=============================================================================

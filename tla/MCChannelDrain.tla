--------------------------- MODULE MCChannelDrain ---------------------------
(* ChannelDrain for TLC, for both adapters. *)
EXTENDS ChannelDrain

Symmetry == Permutations(Ids) \cup Permutations(Tokens)

(* Everything quiet and every bound used up: the process waits for input.  *)
Quiet == /\ queue = <<>> /\ \A t \in Tasks : pc[t] = "idle"
         /\ UNCHANGED vars

MCSpec == Init /\ [][Next \/ Quiet]_vars
MCFairSpec == MCSpec /\ Fairness
=============================================================================

--------------------------- MODULE MCDocumentLock ---------------------------
EXTENDS DocumentLock

\* All updates were made: nothing is left to do.
AtRest == acked = Updates /\ (\A p \in Processes : pc[p] = "idle") /\ UNCHANGED vars

MCFairSpec == Init /\ [][Next \/ AtRest]_vars /\ Fairness
=============================================================================

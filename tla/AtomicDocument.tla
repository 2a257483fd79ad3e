--------------------------- MODULE AtomicDocument ---------------------------
(***************************************************************************)
(* What DocumentStore.update promises (src/src/state/state-backend.ts): a  *)
(* document that all processes share, to which each update is applied in   *)
(* one step.  The SQLite backend does just that, with a transaction.  The  *)
(* JSON backend, module DocumentLock, is shown to do the same as long as   *)
(* nothing breaks its assumptions; then "trusted" is FALSE for good.       *)
(*                                                                         *)
(* A document is the set of the updates it contains.                       *)
(***************************************************************************)

CONSTANT Updates
VARIABLES doc, trusted

Init ==
    /\ doc = {}
    /\ trusted = TRUE

\* BEGIN IMMEDIATE, read, updater, write, COMMIT.
Apply(u) ==
    /\ trusted
    /\ doc' = doc \cup {u}
    /\ UNCHANGED trusted

\* The file was damaged, and its backup lacks one update at most.
FallBack ==
    /\ trusted
    /\ \E u \in doc : doc' = doc \ {u}
    /\ UNCHANGED trusted

\* Nothing is promised from here on.
Break == ~trusted'

Next ==
    \/ \E u \in Updates : Apply(u)
    \/ FallBack
    \/ Break

Spec == Init /\ [][Next]_<<doc, trusted>>
=============================================================================

---------------------------- MODULE MCPeerRelay ----------------------------
(* PeerRelay for TLC. *)
EXTENDS PeerRelay

CONSTANTS connector, dashboard, r1, r2

(* One caller in either process.                                           *)
Home == [r \in Requests |-> IF r = r1 THEN connector ELSE dashboard]
AtHome == \A r \in Requests : from[r] \in {Nobody, Home[r]}

MCSpec == Init /\ [][Next /\ AtHome']_vars /\ Fairness
=============================================================================

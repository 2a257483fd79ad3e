--------------------------- MODULE MCQueuePlanner ---------------------------
(* QueuePlanner for TLC.                                                   *)
EXTENDS QueuePlanner
=============================================================================

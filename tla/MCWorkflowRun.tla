--------------------------- MODULE MCWorkflowRun ---------------------------
(* Workflows and bounds for model checking WorkflowRun.                    *)
EXTENDS WorkflowRun, TLC

Task(kind) == [kind |-> kind, flow |-> Nothing, approval |-> FALSE,
               keepGoing |-> FALSE, attempts |-> 1, conditional |-> FALSE]

\* a retried prompt, a call that may fail, a prompt that needs an approval
StepsPlan ==
  [f \in Flows |-> << [Task("prompt") EXCEPT !.attempts = 2],
                      [Task("call") EXCEPT !.keepGoing = TRUE, !.conditional = TRUE],
                      [Task("switch") EXCEPT !.approval = TRUE] >>]

\* a workflow that runs itself: a prompt, then perhaps itself
NestedPlan ==
  [f \in Flows |-> << Task("prompt"),
                      [Task("flow") EXCEPT !.flow = f, !.conditional = TRUE] >>]

Symmetry == Permutations(Slots)

\* nothing is left to do: no execution, no recovery, no abort under way
AtRest ==
  /\ up = Procs /\ \A r \in Runs : ~Live(r)
  /\ \A p \in Procs : toRecover[p] = {} /\ ~aborting[p] /\ session[p] = "idle"
  /\ UNCHANGED vars

MCSpec == Init /\ [][Next \/ AtRest]_vars
MCFairSpec == MCSpec /\ Fairness

AnyStatus == RunStatus
=============================================================================

---------------------------- MODULE WorkflowRun ----------------------------
(***************************************************************************)
(* Runs of multi-step workflows: RelayWorkflowService over WorkflowStore.  *)
(*                                                                         *)
(* A run is a record of the shared store; an execution is one call of      *)
(* executeWorkflowRun in some process (the connector, which also recovers  *)
(* interrupted runs at start, or the dashboard).  What an execution does   *)
(* between two awaits is one action, so a step that ends also reads the    *)
(* run again, skips steps, pauses, completes the run or starts the next    *)
(* step.  A template run is the run of a one-step workflow.  The status    *)
(* "queued" is written and overwritten by "running" within one action.     *)
(* A patch (read the run, save it) is taken as atomic across processes.    *)
(***************************************************************************)
EXTENDS Naturals, Sequences, FiniteSets, FiniteSetsExt

CONSTANTS
  Procs,        \* processes that construct the service
  Schedulers,   \* those with background services: they recover runs at start
  Runs,         \* run identifiers, in the order of creation (bound on the runs)
  Slots,        \* bound on the executions of one run in one process at a time
  Flows,        \* workflows
  Plan,         \* Plan[f]: the steps of workflow f
  MaxDepth,     \* MAX_SUBFLOW_DEPTH
  RerunFrom,    \* statuses from which the surfaces in use offer a rerun
  MaxCommands,  \* bound on queue, cancel, resume and rerun commands
  MaxCrashes,   \* bound on process crashes
  MaxOthers,    \* bound on the prompts other users send to a session
  Nothing

Kind == {"prompt", "switch", "call", "flow"}

StepDef == [kind : Kind, flow : Flows \cup {Nothing}, approval : BOOLEAN,
            keepGoing : BOOLEAN, attempts : 1..10, conditional : BOOLEAN]

ASSUME WorkflowAssumption ==
  /\ Schedulers \subseteq Procs /\ Runs \subseteq Nat
  /\ Plan \in [Flows -> Seq(StepDef)]
  /\ MaxDepth \in Nat /\ MaxCommands \in Nat /\ MaxCrashes \in Nat /\ MaxOthers \in Nat
  /\ Nothing \notin Runs \cup Flows

VARIABLES
  runs,        \* WorkflowStore: run id -> run, or Nothing
  exec,        \* process -> run -> slot -> execution, or Nothing
  active,      \* activeRuns of each process
  up,          \* processes that are running
  toRecover,   \* runs the recovery timer of a process has yet to look at
  session,     \* who holds the agent session of each process
  aborting,    \* cancelRun of a process is waiting to abort its session
  overlapped,  \* history: runs started again while an execution was live
  commands, crashes, others   \* budgets spent

vars == <<runs, exec, active, up, toRecover, session, aborting, overlapped,
          commands, crashes, others>>
spent == <<commands, crashes, others>>

RunStatus == {"running", "paused", "completed", "failed", "aborted"}
StepStatus == {"pending", "running", "completed", "failed", "skipped"}
Phase == {"switch", "poll", "start", "prompt", "answer", "spawn", "flow", "delay",
          "done"}

RunRec == [flow : Flows, status : RunStatus, cur : Nat \ {0},
           steps : Seq(StepStatus), approved : SUBSET Nat]
ExecRec == [step : Nat, try : 0..10, at : Phase, child : Runs \cup {Nothing},
            joined : BOOLEAN, depth : 0..MaxDepth]

ASSUME Untyped == Nothing \notin RunRec \cup ExecRec

Steps(run) == Plan[run.flow]

Returned(e) == e = Nothing \/ e.at = "done"
Working(p, r, k) == ~Returned(exec[p][r][k])
LiveIn(p, r) == \E k \in Slots : Working(p, r, k)
Live(r) == \E p \in Procs : LiveIn(p, r)
\* the identifier of the next run
Fresh(r) == runs[r] = Nothing /\ \A s \in Runs : runs[s] = Nothing => r <= s
Running(r) == runs[r] # Nothing /\ runs[r].status = "running"
At(p, r, k, phase) == exec[p][r][k] # Nothing /\ exec[p][r][k].at = phase

-----------------------------------------------------------------------------
(* What an execution does to its run between two awaits: the set of        *)
(* possible results, each a run and what is left of the execution.         *)

Result(run, e) == [run |-> run, exec |-> e]

(* Fault: the execution of a subflow is not kept for its caller *)
EndedForgotten(e) == Nothing

\* executeWorkflowRun returns: a subflow's caller still has to look at the run
Ended(e) == IF e.joined THEN [e EXCEPT !.at = "done"] ELSE Nothing

FirstPhase(kind) ==
  CASE kind = "prompt" -> "poll"
    [] kind = "switch" -> "switch"
    [] kind = "call" -> "answer"
    [] kind = "flow" -> "spawn"

\* runStep up to its first await: the run's status is not touched
StartAttempt(run, e, j, n) ==
  Result([run EXCEPT !.cur = j, !.steps[j] = "running"],
         [e EXCEPT !.step = j, !.try = n, !.at = FirstPhase(Steps(run)[j].kind)])

\* steps i..j-1 have conditions that do not match
Skip(run, i, j) ==
  [run EXCEPT !.cur = IF j > i THEN j ELSE @,
              !.steps = [s \in DOMAIN @ |-> IF s \in i..(j - 1) THEN "skipped" ELSE @[s]]]

(* Fault: the pause does not return *)
StopAtNoReturn(run, e, j) ==
  IF j > Len(Steps(run))
  THEN Result([run EXCEPT !.status = "completed", !.cur = j], Ended(e))
  ELSE StartAttempt([run EXCEPT !.status = IF Steps(run)[j].approval /\ j \notin run.approved
                                           THEN "paused" ELSE @], e, j, 1)

(* Fault: an approval is asked on arrival only, not when a launch starts there *)
StopAtOnArrival(run, e, j) ==
  IF j > Len(Steps(run))
  THEN Result([run EXCEPT !.status = "completed", !.cur = j], Ended(e))
  ELSE IF Steps(run)[j].approval /\ j \notin run.approved /\ run.cur < j
       THEN Result([run EXCEPT !.status = "paused", !.cur = j], Ended(e))
       ELSE StartAttempt(run, e, j, 1)

\* the loop stops at step j: at the end, for an approval, or to run the step
StopAt(run, e, j) ==
  IF j > Len(Steps(run))
  THEN Result([run EXCEPT !.status = "completed", !.cur = j], Ended(e))
  ELSE IF Steps(run)[j].approval /\ j \notin run.approved
       THEN Result([run EXCEPT !.status = "paused", !.cur = j], Ended(e))
       ELSE StartAttempt(run, e, j, 1)

\* a condition reads variables that plugins write: either outcome
StopsFrom(run, i) ==
  {j \in i..(Len(Steps(run)) + 1) : \A s \in i..(j - 1) : Steps(run)[s].conditional}

(* Fault: the loop does not look at the status *)
AdvanceAnyway(run, e, i) == {StopAt(Skip(run, i, j), e, j) : j \in StopsFrom(run, i)}

\* the loop of executeWorkflowRun from step i to the next await
Advance(run, e, i) ==
  IF i <= Len(Steps(run)) /\ run.status = "aborted"
  THEN {Result(run, Ended(e))}
  ELSE {StopAt(Skip(run, i, j), e, j) : j \in StopsFrom(run, i)}

StepSucceeds(run, e) ==
  Advance([run EXCEPT !.steps[e.step] = "completed"], e, e.step + 1)

(* Fault: the last error of a step does not reach the run's status *)
StepFailsSilently(run, e) ==
  LET step == Steps(run)[e.step]
      noted == [run EXCEPT !.steps[e.step] = "failed"]
  IN IF step.keepGoing THEN Advance(noted, e, e.step + 1)
     ELSE {Result(noted, IF e.try < step.attempts THEN [e EXCEPT !.at = "delay"]
                         ELSE Ended(e))}

\* the catch of runStep and what runStepWithRetry does with the error
StepFails(run, e) ==
  LET step == Steps(run)[e.step]
      noted == [run EXCEPT !.status = IF step.keepGoing THEN "running" ELSE "failed",
                           !.steps[e.step] = "failed"]
  IN IF step.keepGoing THEN Advance(noted, e, e.step + 1)
     ELSE {Result(noted, IF e.try < step.attempts THEN [e EXCEPT !.at = "delay"]
                         ELSE Ended(e))}

NewExec(joined, depth) ==
  [step |-> 0, try |-> 0, at |-> "poll", child |-> Nothing,
   joined |-> joined, depth |-> depth]

\* executeWorkflowRun up to its first await
Begin(run, joined, depth) ==
  Advance([run EXCEPT !.status = "running"], NewExec(joined, depth), run.cur)

NewRun(f) ==
  [flow |-> f, status |-> "running", cur |-> 1,
   steps |-> [i \in DOMAIN Plan[f] |-> "pending"], approved |-> {}]

\* activeRuns.add on entry, activeRuns.delete in the finally block
Enter(p, r, e) ==
  active' = [active EXCEPT ![p] = IF Returned(e) THEN @ \ {r} ELSE @ \cup {r}]
(* Fault: no finally block *)
LeaveNever(p, r, e) == active' = active

Leave(p, r, e) ==
  active' = [active EXCEPT ![p] = IF Returned(e) THEN @ \ {r} ELSE @]

Launch(p, r, run, joined, depth) ==
  \E k \in Slots, res \in Begin(run, joined, depth) :
    /\ exec[p][r][k] = Nothing
    /\ runs' = [runs EXCEPT ![r] = res.run]
    /\ exec' = [exec EXCEPT ![p][r][k] = res.exec]
    /\ Enter(p, r, res.exec)
    /\ overlapped' = IF Live(r) THEN overlapped \cup {r} ELSE overlapped

\* execution k of run r in p goes on to one of the results
Step(p, r, k, results) ==
  \E res \in results :
    /\ runs' = [runs EXCEPT ![r] = res.run]
    /\ exec' = [exec EXCEPT ![p][r][k] = res.exec]
    /\ Leave(p, r, res.exec)

Ends(p, r, k) ==
  Step(p, r, k, StepSucceeds(runs[r], exec[p][r][k]) \cup StepFails(runs[r], exec[p][r][k]))
Errs(p, r, k) == Step(p, r, k, StepFails(runs[r], exec[p][r][k]))
Goes(p, r, k, phase) ==
  /\ exec' = [exec EXCEPT ![p][r][k].at = phase]
  /\ UNCHANGED <<runs, active>>

-----------------------------------------------------------------------------
(* Fault: nobody looks for interrupted runs *)
FoundNone(p) == {}

\* the runs a starting process will look at: only background services recover
Found(p) == IF p \in Schedulers THEN Runs ELSE {}

Init ==
  /\ runs = [r \in Runs |-> Nothing]
  /\ exec = [p \in Procs |-> [r \in Runs |-> [k \in Slots |-> Nothing]]]
  /\ active = [p \in Procs |-> {}]
  /\ up = Procs
  /\ toRecover = [p \in Procs |-> Found(p)]
  /\ session = [p \in Procs |-> "idle"]
  /\ aborting = [p \in Procs |-> FALSE]
  /\ overlapped = {}
  /\ commands = 0 /\ crashes = 0 /\ others = 0

(* Commands.                                                               *)

Command ==
  /\ commands < MaxCommands
  /\ commands' = commands + 1
  /\ UNCHANGED <<crashes, others>>

\* queueWorkflowRun, queueTemplateRun: by a user or by a due schedule
Queue(p, r, f) ==
  /\ p \in up /\ Fresh(r) /\ Plan[f] # <<>>
  /\ Command
  /\ Launch(p, r, NewRun(f), FALSE, 0)
  /\ UNCHANGED <<up, toRecover, session, aborting>>

\* cancelRun patches whatever the status is; it aborts the session only if
\* this process executes the run
Cancel(p, r) ==
  /\ p \in up /\ runs[r] # Nothing
  /\ Command
  /\ runs' = [runs EXCEPT ![r].status = "aborted"]
  /\ aborting' = [aborting EXCEPT ![p] = @ \/ r \in active[p]]
  /\ UNCHANGED <<exec, active, up, toRecover, session, overlapped>>

\* resumeRun approves the step the run is paused at
Resume(p, r) ==
  /\ p \in up /\ runs[r] # Nothing
  /\ runs[r].status = "paused"
  /\ Command
  /\ Launch(p, r, [runs[r] EXCEPT !.approved = @ \cup ({runs[r].cur} \cap DOMAIN runs[r].steps)],
            FALSE, 0)
  /\ UNCHANGED <<up, toRecover, session, aborting>>

(* Fault: the failed step itself is passed over *)
RestartStepAfter(run) ==
  LET failed == {i \in DOMAIN run.steps : run.steps[i] = "failed"}
  IN IF failed # {} THEN Min(failed) + 1 ELSE Min({run.cur, Max({1, Len(run.steps)})})

RestartStep(run) ==
  LET failed == {i \in DOMAIN run.steps : run.steps[i] = "failed"}
  IN IF failed # {} THEN Min(failed) ELSE Min({run.cur, Max({1, Len(run.steps)})})

(* Fault: only the step to start from is reset *)
ResetFromOne(run, start) ==
  [run EXCEPT !.cur = start, !.steps[start] = "pending"]

\* the steps from the first failed one are pending again; approvals stay
ResetFrom(run, start) ==
  [run EXCEPT !.cur = start,
              !.steps = [i \in DOMAIN @ |-> IF i < start THEN @[i] ELSE "pending"],
              !.approved = {i \in @ : i < start \/ Steps(run)[i].approval}]

\* rerunFromFailedStep looks neither at the status nor at activeRuns
Rerun(p, r) ==
  /\ p \in up /\ runs[r] # Nothing
  /\ runs[r].status \in RerunFrom
  /\ Command
  /\ Launch(p, r, ResetFrom(runs[r], RestartStep(runs[r])), FALSE, 0)
  /\ UNCHANGED <<up, toRecover, session, aborting>>

\* recoverInterruptedRuns, one run of its loop
Recover(p, r) ==
  /\ p \in up /\ r \in toRecover[p]
  /\ toRecover' = [toRecover EXCEPT ![p] = @ \ {r}]
  /\ IF Running(r) /\ r \notin active[p]
     THEN Launch(p, r, runs[r], FALSE, 0)
     ELSE UNCHANGED <<runs, exec, active, overlapped>>
  /\ UNCHANGED <<up, session, aborting, spent>>

-----------------------------------------------------------------------------
(* The work of a step.                                                     *)

Quiet == UNCHANGED <<up, toRecover, aborting, overlapped, spent>>

\* prepareStepSession of a step that attaches, creates or switches a session
SwitchSession(p, r, k) ==
  /\ At(p, r, k, "switch")
  /\ Goes(p, r, k, "poll") \/ Errs(p, r, k)
  /\ Quiet /\ UNCHANGED session

(* Fault: the poll of a cancelled run goes on for ever *)
PollOn(p, r, k) ==
  /\ At(p, r, k, "poll")
  /\ \/ runs[r].status = "aborted" /\ Goes(p, r, k, "poll")
     \/ runs[r].status # "aborted" /\ session[p] = "idle" /\ Goes(p, r, k, "start")
  /\ Quiet /\ UNCHANGED session

\* waitForIdle: a cancelled run throws, a busy session is polled again
Poll(p, r, k) ==
  /\ At(p, r, k, "poll")
  /\ \/ runs[r].status = "aborted" /\ Errs(p, r, k)
     \/ runs[r].status # "aborted" /\ session[p] = "idle" /\ Goes(p, r, k, "start")
  /\ Quiet /\ UNCHANGED session

\* runPrompt reaches the agent: policy, login or a turn in progress make it throw
StartPrompt(p, r, k) ==
  /\ At(p, r, k, "start")
  /\ \/ /\ session[p] = "idle"
        /\ session' = [session EXCEPT ![p] = "own"]
        /\ Goes(p, r, k, "prompt")
     \/ Errs(p, r, k) /\ UNCHANGED session
  /\ Quiet

\* the turn ends; runPrompt drains the queue before it returns or throws
EndTurn(p, r, k) ==
  /\ At(p, r, k, "prompt")
  /\ Goes(p, r, k, "answer")
  /\ session' = [session EXCEPT ![p] = "idle"]
  /\ Quiet

\* runPrompt returns or throws (after an abort either, depending on the
\* agent), or a plugin action or a peer's step answers
Answer(p, r, k) ==
  /\ At(p, r, k, "answer")
  /\ Ends(p, r, k)
  /\ Quiet /\ UNCHANGED session

(* Fault: off by one *)
MayNestOnce(e) == e.depth <= MaxDepth

MayNest(e) == e.depth < MaxDepth

\* runSubflow up to its await: it throws (depth limit, missing workflow or
\* variable) or executes a new run in line
Spawn(p, r, k) ==
  LET e == exec[p][r][k] IN
  /\ At(p, r, k, "spawn")
  /\ \/ Errs(p, r, k)
     \/ /\ MayNest(e) /\ Steps(runs[r])[e.step].flow # Nothing
        /\ \E c \in Runs, j \in Slots :
             \E res \in Begin(NewRun(Steps(runs[r])[e.step].flow), TRUE, e.depth + 1) :
               /\ Fresh(c) /\ exec[p][c][j] = Nothing
               /\ runs' = [runs EXCEPT ![c] = res.run]
               /\ exec' = [exec EXCEPT ![p][c][j] = res.exec,
                                       ![p][r][k] = [e EXCEPT !.at = "flow", !.child = c]]
               /\ Enter(p, c, res.exec)
  /\ Quiet /\ UNCHANGED session

\* runSubflow after its await: anything but "completed" is an error
Join(p, r, k) ==
  LET e == exec[p][r][k] IN
  /\ At(p, r, k, "flow")
  /\ \E j \in Slots :
       /\ At(p, e.child, j, "done")
       /\ \E res \in IF runs[e.child].status = "completed"
                     THEN StepSucceeds(runs[r], [e EXCEPT !.child = Nothing])
                     ELSE StepFails(runs[r], [e EXCEPT !.child = Nothing]) :
            /\ runs' = [runs EXCEPT ![r] = res.run]
            /\ exec' = [exec EXCEPT ![p][e.child][j] = Nothing, ![p][r][k] = res.exec]
            /\ Leave(p, r, res.exec)
  /\ Quiet /\ UNCHANGED session

\* the delay of runStepWithRetry is over: the run's status is not looked at
Retry(p, r, k) ==
  /\ At(p, r, k, "delay")
  /\ Step(p, r, k, {StartAttempt(runs[r], exec[p][r][k], exec[p][r][k].step,
                                 exec[p][r][k].try + 1)})
  /\ Quiet /\ UNCHANGED session

Progress(p, r, k) ==
  \/ SwitchSession(p, r, k) \/ Poll(p, r, k) \/ StartPrompt(p, r, k) \/ EndTurn(p, r, k)
  \/ Answer(p, r, k) \/ Spawn(p, r, k) \/ Join(p, r, k) \/ Retry(p, r, k)

-----------------------------------------------------------------------------
(* The agent session and the processes.                                    *)

\* a prompt that is not a workflow's takes the idle session
OtherStarts(p) ==
  /\ p \in up /\ session[p] = "idle" /\ others < MaxOthers
  /\ others' = others + 1
  /\ session' = [session EXCEPT ![p] = "other"]
  /\ UNCHANGED <<runs, exec, active, up, toRecover, aborting, overlapped, commands, crashes>>

OtherEnds(p) ==
  /\ session[p] \in {"other", "cut"}
  /\ session' = [session EXCEPT ![p] = "idle"]
  /\ UNCHANGED <<runs, exec, active>> /\ Quiet

\* the abort of cancelRun reaches whatever turn the session is in
AbortSession(p) ==
  /\ aborting[p]
  /\ aborting' = [aborting EXCEPT ![p] = FALSE]
  /\ session' = [session EXCEPT ![p] = IF @ = "other" THEN "cut" ELSE @]
  /\ UNCHANGED <<runs, exec, active, up, toRecover, overlapped, spent>>

\* the store is all that survives
Crash(p) ==
  /\ p \in up /\ crashes < MaxCrashes
  /\ crashes' = crashes + 1
  /\ up' = up \ {p}
  /\ exec' = [exec EXCEPT ![p] = [r \in Runs |-> [k \in Slots |-> Nothing]]]
  /\ active' = [active EXCEPT ![p] = {}]
  /\ toRecover' = [toRecover EXCEPT ![p] = {}]
  /\ session' = [session EXCEPT ![p] = "idle"]
  /\ aborting' = [aborting EXCEPT ![p] = FALSE]
  /\ UNCHANGED <<runs, overlapped, commands, others>>

Restart(p) ==
  /\ p \notin up
  /\ up' = up \cup {p}
  /\ toRecover' = [toRecover EXCEPT ![p] = Found(p)]
  /\ UNCHANGED <<runs, exec, active, session, aborting, overlapped, spent>>

Next ==
  \/ \E p \in Procs, r \in Runs :
       \/ \E f \in Flows : Queue(p, r, f)
       \/ Cancel(p, r) \/ Resume(p, r) \/ Rerun(p, r) \/ Recover(p, r)
       \/ \E k \in Slots : Progress(p, r, k)
  \/ \E p \in Procs :
       OtherStarts(p) \/ OtherEnds(p) \/ AbortSession(p) \/ Crash(p) \/ Restart(p)

Spec == Init /\ [][Next]_vars

\* turns and calls end, timers fire, a crashed process is started again
Fairness ==
  /\ \A p \in Procs, r \in Runs :
       /\ WF_vars(Recover(p, r))
       /\ \A k \in Slots : WF_vars(Progress(p, r, k))
  /\ \A p \in Procs :
       WF_vars(OtherEnds(p)) /\ WF_vars(AbortSession(p)) /\ WF_vars(Restart(p))

FairSpec == Spec /\ Fairness

-----------------------------------------------------------------------------
(* Types: the steps of a run are those of its workflow, activeRuns holds   *)
(* created runs only, no execution lives in a stopped process.             *)
TypeOK ==
  /\ runs \in [Runs -> RunRec \cup {Nothing}]
  /\ \A r \in Runs : runs[r] # Nothing =>
       /\ DOMAIN runs[r].steps = DOMAIN Steps(runs[r])
       /\ runs[r].cur <= Len(Steps(runs[r])) + 1
       /\ runs[r].approved \subseteq DOMAIN Steps(runs[r])
  /\ exec \in [Procs -> [Runs -> [Slots -> ExecRec \cup {Nothing}]]]
  /\ \A p \in Procs, r \in Runs, k \in Slots : exec[p][r][k] # Nothing =>
       runs[r] # Nothing /\ p \in up
  /\ active \in [Procs -> SUBSET {r \in Runs : runs[r] # Nothing}]
  /\ up \subseteq Procs
  /\ toRecover \in [Procs -> SUBSET Runs]
  /\ session \in [Procs -> {"idle", "other", "cut", "own"}]
  /\ aborting \in [Procs -> BOOLEAN]
  /\ overlapped \subseteq Runs
  /\ commands \in 0..MaxCommands /\ crashes \in 0..MaxCrashes /\ others \in 0..MaxOthers

\* a step that needs no more work before the steps after it
Passed(run, i) ==
  \/ run.steps[i] \in {"completed", "skipped"}
  \/ run.steps[i] = "failed" /\ Steps(run)[i].keepGoing

(* A run that was never started a second time beside a live execution has  *)
(* no execution left once it is paused or completed, so a resume or a      *)
(* rerun of it cannot make two.  (pause, end of loop and finally, against  *)
(* resume, rerun and recovery)                                             *)
SettledIsIdle ==
  \A r \in Runs \ overlapped :
    runs[r] # Nothing /\ runs[r].status \in {"paused", "completed"} => ~Live(r)

(* A completed run did all its work: each step completed, was skipped, or  *)
(* failed and may be passed over, whatever resumes, reruns, retries and    *)
(* recoveries led there.  (the start index of each relaunch)               *)
CompletedIsDone ==
  \A r \in Runs \ overlapped :
    runs[r] # Nothing /\ runs[r].status = "completed" =>
      \A i \in DOMAIN runs[r].steps : Passed(runs[r], i)

(* The execution at step i has every earlier step behind it and no later   *)
(* step touched.                                                           *)
StepsInOrder ==
  \A r \in Runs \ overlapped, p \in Procs, k \in Slots :
    Working(p, r, k) =>
      \A i \in DOMAIN runs[r].steps :
        /\ i < exec[p][r][k].step => Passed(runs[r], i)
        /\ i > exec[p][r][k].step => runs[r].steps[i] = "pending"

(* A step that needs an approval never runs without one, even when the run *)
(* is recovered or rerun past the pause, or executed twice.                *)
ApprovedFirst ==
  \A r \in Runs : runs[r] # Nothing =>
    \A i \in DOMAIN runs[r].steps :
      runs[r].steps[i] \in {"running", "completed", "failed"} /\ Steps(runs[r])[i].approval
        => i \in runs[r].approved

(* Without a crash no run is left "running" with nobody executing it, even *)
(* when two executions of it write its status in turns.                    *)
RunningIsOwned ==
  crashes = 0 =>
    \A r \in Runs : Running(r) => Live(r)

(* activeRuns tells a cancel whether this process executes the run.        *)
ActiveIsLive ==
  \A p \in Procs, r \in Runs \ overlapped : r \in active[p] <=> LiveIn(p, r)

(* A step that waits for a subflow has exactly one execution to wait for.  *)
ChildHeld ==
  \A p \in Procs, r \in Runs, k \in Slots : At(p, r, k, "flow") =>
    Cardinality({j \in Slots : exec[p][exec[p][r][k].child][j] # Nothing
                               /\ exec[p][exec[p][r][k].child][j].joined}) = 1

(* Where no step retries or goes on after an error, a cancelled run starts *)
(* no further step unless it is launched again.  (the status test at the   *)
(* top of the loop)                                                        *)
CancelStops ==
  [][\A r \in Runs :
       /\ runs[r] # Nothing /\ runs[r].status = "aborted"
       /\ \A i \in DOMAIN runs[r].steps :
            Steps(runs[r])[i].attempts = 1 /\ ~Steps(runs[r])[i].keepGoing
       /\ runs'[r].status # "running"
       => \A i \in DOMAIN runs[r].steps :
            runs'[r].steps[i] = "running" => runs[r].steps[i] = "running"]_vars

(* Every execution ends: it completes, pauses, fails or sees the cancel.   *)
ExecutionEnds == \A r \in Runs : Live(r) ~> ~Live(r)

(* No run stays "running" for ever, crashes included.                      *)
RunningEnds ==
  \A r \in Runs : Running(r) ~> ~Running(r)
=============================================================================

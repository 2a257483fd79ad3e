------------------------- MODULE WorkflowRunProofs -------------------------
(***************************************************************************)
(* Proofs about WorkflowRun, for every plan and every number of processes, *)
(* runs, slots, commands and crashes.                                      *)
(*                                                                         *)
(* Moved, WentOn, Begun and Reopens say what the functions on runs keep;   *)
(* Kinds and ChildKinds what a step of the system may do to the runs and   *)
(* to their executions (NextDoes).  The invariants are proved from these,  *)
(* one case per kind: TypeInv, ApprovalInv, RunningIsOwned, PathInv and    *)
(* ChildInv.                                                               *)
(***************************************************************************)
EXTENDS WorkflowRun, TLAPS, WellFoundedInduction, FiniteSetTheorems

-----------------------------------------------------------------------------
(***************************************************************************)
(* What an execution does to its run between two awaits.                   *)
(***************************************************************************)

(* A run that fits its workflow.                                           *)
RunOK(run) ==
  /\ run \in RunRec
  /\ DOMAIN run.steps = DOMAIN Steps(run)
  /\ run.cur <= Len(Steps(run)) + 1
  /\ run.approved \subseteq DOMAIN Steps(run)

(* An execution at a step of its run ...                                   *)
AtStep(run, e) ==
  /\ e \in ExecRec
  /\ e.at # "done" => e.step \in DOMAIN Steps(run) /\ e.try > 0

(* ... that is in a phase which fits the step.                             *)
InPlace(run, e) ==
  /\ AtStep(run, e)
  /\ e.at = "delay" => e.try < Steps(run)[e.step].attempts
  /\ e.at = "flow" => e.child \in Runs

FirstPhases == {"poll", "switch", "answer", "spawn"}

Approved(run, j) == Steps(run)[j].approval => j \in run.approved

(* Steps i..j-1 are skipped and the run is at step j.                      *)
SkippedTo(run, i, j, run2) ==
  /\ run2.flow = run.flow /\ run2.approved = run.approved /\ run2.cur = j
  /\ DOMAIN run2.steps = DOMAIN run.steps
  /\ \A s \in DOMAIN run.steps :
       s # j => run2.steps[s] = IF s \in i..(j - 1) THEN "skipped" ELSE run.steps[s]

(* e2 is at the first phase of attempt n at step j.                        *)
Attempts(run, e, j, n, e2) ==
  /\ e2 \in ExecRec
  /\ e2.step = j /\ e2.try = n /\ e2.at = FirstPhase(Steps(run)[j].kind)
  /\ e2.at \in FirstPhases
  /\ e2.joined = e.joined

(* Step j runs, nothing else has changed.                                  *)
RunsStep(run, j, run2) ==
  /\ run2.flow = run.flow /\ run2.status = run.status
  /\ run2.approved = run.approved /\ run2.cur = j
  /\ DOMAIN run2.steps = DOMAIN run.steps
  /\ \A s \in DOMAIN run.steps :
       run2.steps[s] = IF s = j THEN "running" ELSE run.steps[s]

(* What the loop does from step i on.                                      *)
Moved(run, e, i, run2, e2) ==
  \/ /\ i <= Len(Steps(run)) /\ run.status = "aborted"
     /\ run2 = run /\ e2 = Ended(e)
  \/ \E j \in i..(Len(Steps(run)) + 1) :
       /\ SkippedTo(run, i, j, run2)
       /\ \/ /\ j = Len(Steps(run)) + 1
             /\ run2.status = "completed" /\ e2 = Ended(e)
          \/ /\ j <= Len(Steps(run))
             /\ run2.status = "paused" /\ e2 = Ended(e)
             /\ run2.steps[j] = run.steps[j]
          \/ /\ j <= Len(Steps(run)) /\ run.status # "aborted"
             /\ run2.status = run.status /\ Attempts(run, e, j, 1, e2)
             /\ Approved(run, j) /\ run2.steps[j] = "running"

LEMMA PlanType ==
  ASSUME NEW f \in Flows
  PROVE  /\ Plan[f] \in Seq(StepDef) /\ Len(Plan[f]) \in Nat
         /\ DOMAIN Plan[f] = 1..Len(Plan[f])
         /\ \A j \in DOMAIN Plan[f] : Plan[f][j] \in StepDef
BY WorkflowAssumption

LEMMA RunType ==
  ASSUME NEW run, RunOK(run)
  PROVE  /\ run.flow \in Flows /\ run.status \in RunStatus
         /\ run.cur \in 1..(Len(Steps(run)) + 1)
         /\ Steps(run) \in Seq(StepDef) /\ Len(Steps(run)) \in Nat
         /\ DOMAIN Steps(run) = 1..Len(Steps(run))
         /\ DOMAIN run.steps = 1..Len(Steps(run))
         /\ \A j \in DOMAIN Steps(run) : Steps(run)[j] \in StepDef
         /\ \A j \in DOMAIN Steps(run) : run.steps[j] \in StepStatus
BY PlanType DEF RunOK, RunRec, Steps

(* A function on 1..n is a sequence.                                       *)
LEMMA IsSeq ==
  ASSUME NEW S, NEW n \in Nat, NEW s \in [1..n -> S]
  PROVE  s \in Seq(S)
OBVIOUS

LEMMA SkipShape ==
  ASSUME NEW run, RunOK(run), NEW i \in 1..(Len(Steps(run)) + 1),
         NEW j \in i..(Len(Steps(run)) + 1)
  PROVE  LET run2 == Skip(run, i, j) IN
         /\ RunOK(run2) /\ Steps(run2) = Steps(run)
         /\ run2.flow = run.flow /\ run2.status = run.status
         /\ run2.approved = run.approved
         /\ DOMAIN run2.steps = DOMAIN run.steps
         /\ \A s \in DOMAIN run.steps :
              run2.steps[s] = IF s \in i..(j - 1) THEN "skipped" ELSE run.steps[s]
<1> DEFINE run2 == Skip(run, i, j)
           n == Len(Steps(run))
<1>1. /\ n \in Nat /\ DOMAIN run.steps = 1..n /\ run.cur \in 1..(n + 1)
      /\ \A s \in 1..n : run.steps[s] \in StepStatus
  BY RunType
<1> DEFINE cur2 == IF j > i THEN j ELSE run.cur
           steps2 == [s \in 1..n |-> IF s \in i..(j - 1) THEN "skipped" ELSE run.steps[s]]
<1>2. run2 = [run EXCEPT !.cur = cur2, !.steps = steps2]
  BY <1>1 DEF Skip
<1>3. steps2 \in [1..n -> StepStatus]
  BY <1>1 DEF StepStatus
<1>4. steps2 \in Seq(StepStatus)
  BY <1>1, <1>3, IsSeq
<1>5. cur2 \in 1..(n + 1)
  BY <1>1
<1> HIDE DEF run2, cur2, steps2
<1>6. /\ run2 \in RunRec /\ run2.flow = run.flow /\ run2.status = run.status
      /\ run2.cur = cur2 /\ run2.steps = steps2 /\ run2.approved = run.approved
  <2>1. cur2 \in Nat \ {0}
    BY <1>1, <1>5
  <2>2. run \in RunRec
    BY DEF RunOK
  <2> QED BY <1>2, <1>4, <2>1, <2>2 DEF RunRec
<1>7. Steps(run2) = Steps(run)
  BY <1>6 DEF Steps
<1>8. DOMAIN steps2 = 1..n
  BY <1>3
<1>9. RunOK(run2)
  BY <1>1, <1>5, <1>6, <1>7, <1>8, RunType DEF RunOK
<1>10. \A s \in 1..n : steps2[s] = IF s \in i..(j - 1) THEN "skipped" ELSE run.steps[s]
  BY DEF steps2
<1> QED BY <1>1, <1>6, <1>7, <1>8, <1>9, <1>10 DEF run2

LEMMA FirstPhaseType ==
  ASSUME NEW kind \in Kind
  PROVE  FirstPhase(kind) \in FirstPhases
BY DEF Kind, FirstPhase, FirstPhases

(* The run and the execution after the start of an attempt.                *)
LEMMA AttemptShape ==
  ASSUME NEW run, RunOK(run), NEW e \in ExecRec,
         NEW j \in DOMAIN Steps(run), NEW n \in 1..10,
         NEW res, res = StartAttempt(run, e, j, n)
  PROVE  /\ RunOK(res.run) /\ RunsStep(run, j, res.run)
         /\ Attempts(run, e, j, n, res.exec) /\ InPlace(res.run, res.exec)
<1> DEFINE run2 == res.run
           e2 == res.exec
           m == Len(Steps(run))
<1>1. /\ m \in Nat /\ DOMAIN run.steps = 1..m /\ DOMAIN Steps(run) = 1..m
      /\ \A s \in 1..m : run.steps[s] \in StepStatus
      /\ Steps(run)[j] \in StepDef
  BY RunType
<1>2. run2 = [flow |-> run.flow, status |-> run.status, cur |-> j,
              steps |-> [s \in 1..m |-> IF s = j THEN "running" ELSE run.steps[s]],
              approved |-> run.approved]
  BY <1>1 DEF StartAttempt, Result, RunOK, RunRec
<1>3. run2.steps \in [1..m -> StepStatus]
  BY <1>1, <1>2 DEF StepStatus
<1>4. run2.steps \in Seq(StepStatus)
  BY <1>1, <1>3, IsSeq
<1>5. Steps(run2) = Steps(run)
  BY <1>2 DEF Steps
<1>6. /\ run2 \in RunRec
      /\ run2.cur = j /\ run2.approved = run.approved /\ DOMAIN run2.steps = 1..m
  BY <1>1, <1>2, <1>4 DEF RunOK, RunRec
<1>7. RunOK(run2)
  <2> HIDE DEF run2
  <2> QED BY <1>1, <1>5, <1>6 DEF RunOK
<1>8. e2 = [e EXCEPT !.step = j, !.try = n, !.at = FirstPhase(Steps(run)[j].kind)]
  BY DEF StartAttempt, Result
<1>9. FirstPhase(Steps(run)[j].kind) \in FirstPhases
  BY <1>1, FirstPhaseType DEF StepDef
<1>10. Attempts(run, e, j, n, e2)
  <2>1. FirstPhase(Steps(run)[j].kind) \in Phase /\ j \in Nat /\ n \in 0..10
    BY <1>1, <1>9 DEF FirstPhases, Phase
  <2> HIDE DEF e2
  <2>2. /\ e2 \in ExecRec /\ e2.joined = e.joined
        /\ e2.step = j /\ e2.try = n /\ e2.at = FirstPhase(Steps(run)[j].kind)
    BY <1>8, <2>1 DEF ExecRec
  <2> QED BY <1>9, <2>2 DEF Attempts
<1>11. InPlace(run2, e2)
  BY <1>5, <1>9, <1>10 DEF InPlace, AtStep, Attempts, FirstPhases
<1>12. RunsStep(run, j, run2)
  BY <1>1, <1>2 DEF RunsStep
<1> QED BY <1>7, <1>10, <1>11, <1>12

(* What is left of execution e once it has been taken on to e2.            *)
Follows(e, run2, e2) ==
  /\ e2 = Nothing => ~e.joined
  /\ e2 # Nothing =>
       /\ InPlace(run2, e2)
       /\ e2.joined = e.joined
       /\ e2.at \in FirstPhases \cup {"delay", "done"}

LEMMA EndedShape ==
  ASSUME NEW e \in ExecRec, NEW run
  PROVE  /\ Returned(Ended(e))
         /\ Follows(e, run, Ended(e))
<1>1. CASE e.joined
  <2>1. /\ Ended(e) \in ExecRec /\ Ended(e).at = "done" /\ Ended(e).joined = e.joined
    BY <1>1 DEF Ended, ExecRec, Phase
  <2>2. Ended(e) # Nothing
    BY <2>1, Untyped
  <2> QED BY <2>1, <2>2 DEF Returned, Follows, InPlace, AtStep
<1>2. CASE ~e.joined
  <2>1. Ended(e) = Nothing
    BY <1>2 DEF Ended
  <2> QED BY <1>2, <2>1 DEF Returned, Follows
<1> QED BY <1>1, <1>2

LEMMA AttemptFollows ==
  ASSUME NEW run, NEW run2, NEW e \in ExecRec, NEW j, NEW n, NEW e2,
         Attempts(run, e, j, n, e2), InPlace(run2, e2)
  PROVE  Follows(e, run2, e2) /\ ~Returned(e2)
BY Untyped DEF Attempts, Follows, Returned, FirstPhases

(* The loop stops at the end ...                                           *)
LEMMA StopsAtEnd ==
  ASSUME NEW run, RunOK(run), NEW e \in ExecRec,
         NEW i \in 1..(Len(Steps(run)) + 1), NEW res,
         res = StopAt(Skip(run, i, Len(Steps(run)) + 1), e, Len(Steps(run)) + 1)
  PROVE  /\ RunOK(res.run) /\ Follows(e, res.run, res.exec)
         /\ Moved(run, e, i, res.run, res.exec)
<1> DEFINE n == Len(Steps(run))
           skipped == Skip(run, i, n + 1)
<1>1. n \in Nat /\ n + 1 \in i..(n + 1) /\ DOMAIN run.steps = 1..n
  BY RunType
<1>2. /\ RunOK(skipped) /\ Steps(skipped) = Steps(run)
      /\ skipped.flow = run.flow /\ skipped.approved = run.approved
      /\ DOMAIN skipped.steps = DOMAIN run.steps
      /\ \A s \in DOMAIN run.steps :
           skipped.steps[s] = IF s \in i..n THEN "skipped" ELSE run.steps[s]
  <2>1. n \in Nat /\ n + 1 \in i..(Len(Steps(run)) + 1)
    BY <1>1
  <2>2. (n + 1) - 1 = n
    BY <1>1
  <2>3. /\ RunOK(skipped) /\ Steps(skipped) = Steps(run)
        /\ skipped.flow = run.flow /\ skipped.approved = run.approved
        /\ DOMAIN skipped.steps = DOMAIN run.steps
        /\ \A s \in DOMAIN run.steps :
             skipped.steps[s] = IF s \in i..((n + 1) - 1) THEN "skipped" ELSE run.steps[s]
    <3> HIDE DEF n
    <3> QED BY <2>1, SkipShape
  <2> QED BY <2>2, <2>3
<1> HIDE DEF skipped
<1>3. /\ res.run = [skipped EXCEPT !.status = "completed", !.cur = n + 1]
      /\ res.exec = Ended(e)
  BY <1>1, <1>2 DEF StopAt, Result, skipped
<1>4. /\ res.run \in RunRec /\ res.run.flow = run.flow /\ res.run.approved = run.approved
      /\ res.run.status = "completed" /\ res.run.cur = n + 1
      /\ res.run.steps = skipped.steps
  <2>1. skipped \in RunRec /\ n + 1 \in Nat \ {0}
    BY <1>1, <1>2 DEF RunOK
  <2> QED BY <1>2, <1>3, <2>1 DEF RunRec, RunStatus
<1>5. Steps(res.run) = Steps(run)
  BY <1>4 DEF Steps
<1>6. RunOK(res.run)
  BY <1>1, <1>2, <1>4, <1>5 DEF RunOK
<1>7. SkippedTo(run, i, n + 1, res.run)
  BY <1>1, <1>2, <1>4 DEF SkippedTo
<1>8. Moved(run, e, i, res.run, res.exec)
  BY <1>1, <1>3, <1>4, <1>7 DEF Moved
<1> QED BY <1>3, <1>6, <1>8, EndedShape

(* ... to wait for an approval ...                                         *)
LEMMA StopsForApproval ==
  ASSUME NEW run, RunOK(run), NEW e \in ExecRec,
         NEW i \in 1..(Len(Steps(run)) + 1), NEW j \in i..Len(Steps(run)), NEW res,
         ~Approved(run, j), res = StopAt(Skip(run, i, j), e, j)
  PROVE  /\ RunOK(res.run) /\ Follows(e, res.run, res.exec)
         /\ Moved(run, e, i, res.run, res.exec)
<1> DEFINE n == Len(Steps(run))
           skipped == Skip(run, i, j)
<1>1. /\ n \in Nat /\ i \in Nat \ {0} /\ j \in i..(n + 1) /\ j \in 1..n /\ ~(j > n)
      /\ DOMAIN run.steps = 1..n
  BY RunType
<1>2. /\ RunOK(skipped) /\ Steps(skipped) = Steps(run)
      /\ skipped.flow = run.flow /\ skipped.approved = run.approved
      /\ DOMAIN skipped.steps = DOMAIN run.steps
      /\ \A s \in DOMAIN run.steps :
           skipped.steps[s] = IF s \in i..(j - 1) THEN "skipped" ELSE run.steps[s]
  BY <1>1, SkipShape
<1> HIDE DEF skipped
<1>3. /\ res.run = [skipped EXCEPT !.status = "paused", !.cur = j]
      /\ res.exec = Ended(e)
  BY <1>1, <1>2 DEF StopAt, Result, Approved, skipped
<1>4. /\ res.run \in RunRec /\ res.run.flow = run.flow /\ res.run.approved = run.approved
      /\ res.run.status = "paused" /\ res.run.cur = j
      /\ res.run.steps = skipped.steps
  <2>1. skipped \in RunRec /\ j \in Nat \ {0}
    BY <1>1, <1>2 DEF RunOK
  <2> QED BY <1>2, <1>3, <2>1 DEF RunRec, RunStatus
<1>5. Steps(res.run) = Steps(run)
  BY <1>4 DEF Steps
<1>6. RunOK(res.run)
  BY <1>1, <1>2, <1>4, <1>5 DEF RunOK
<1>7. SkippedTo(run, i, j, res.run) /\ res.run.steps[j] = run.steps[j]
  <2>1. j \notin i..(j - 1)
    BY <1>1
  <2> QED BY <1>1, <1>2, <1>4, <2>1 DEF SkippedTo
<1>8. Moved(run, e, i, res.run, res.exec)
  BY <1>1, <1>3, <1>4, <1>7 DEF Moved
<1> QED BY <1>3, <1>6, <1>8, EndedShape

(* ... or to run a step.                                                   *)
LEMMA StopsToRun ==
  ASSUME NEW run, RunOK(run), NEW e \in ExecRec, run.status # "aborted",
         NEW i \in 1..(Len(Steps(run)) + 1), NEW j \in i..Len(Steps(run)), NEW res,
         Approved(run, j), res = StopAt(Skip(run, i, j), e, j)
  PROVE  /\ RunOK(res.run) /\ Follows(e, res.run, res.exec)
         /\ Moved(run, e, i, res.run, res.exec)
<1> DEFINE n == Len(Steps(run))
           skipped == Skip(run, i, j)
<1>1. /\ n \in Nat /\ i \in Nat \ {0} /\ j \in i..(n + 1) /\ j \in 1..n /\ ~(j > n)
      /\ DOMAIN run.steps = 1..n /\ DOMAIN Steps(run) = 1..n
  BY RunType
<1>2. /\ RunOK(skipped) /\ Steps(skipped) = Steps(run) /\ skipped.status = run.status
      /\ skipped.flow = run.flow /\ skipped.approved = run.approved
      /\ DOMAIN skipped.steps = DOMAIN run.steps
      /\ \A s \in DOMAIN run.steps :
           skipped.steps[s] = IF s \in i..(j - 1) THEN "skipped" ELSE run.steps[s]
  BY <1>1, SkipShape
<1> HIDE DEF skipped
<1>3. res = StartAttempt(skipped, e, j, 1)
  BY <1>1, <1>2 DEF StopAt, Approved, skipped
<1>4. /\ RunOK(res.run) /\ res.run.flow = run.flow /\ res.run.status = run.status
      /\ res.run.approved = run.approved /\ res.run.cur = j
      /\ DOMAIN res.run.steps = DOMAIN run.steps
      /\ \A s \in DOMAIN run.steps :
           res.run.steps[s] = IF s = j THEN "running" ELSE skipped.steps[s]
      /\ Attempts(skipped, e, j, 1, res.exec) /\ InPlace(res.run, res.exec)
  <2>1. RunOK(skipped) /\ j \in DOMAIN Steps(skipped) /\ 1 \in 1..10
    BY <1>1, <1>2
  <2>2. /\ RunOK(res.run) /\ RunsStep(skipped, j, res.run)
        /\ Attempts(skipped, e, j, 1, res.exec) /\ InPlace(res.run, res.exec)
    BY <1>3, <2>1, AttemptShape
  <2> QED BY <1>2, <2>2 DEF RunsStep
<1>5. Attempts(run, e, j, 1, res.exec)
  BY <1>2, <1>4 DEF Attempts
<1>6. SkippedTo(run, i, j, res.run) /\ res.run.steps[j] = "running"
  BY <1>1, <1>2, <1>4 DEF SkippedTo
<1>7. Moved(run, e, i, res.run, res.exec)
  BY <1>1, <1>4, <1>5, <1>6 DEF Moved
<1> QED BY <1>4, <1>5, <1>7, AttemptFollows

LEMMA AdvanceMoves ==
  ASSUME NEW run, RunOK(run), NEW e \in ExecRec,
         NEW i \in 1..(Len(Steps(run)) + 1), NEW res \in Advance(run, e, i)
  PROVE  /\ RunOK(res.run) /\ Follows(e, res.run, res.exec)
         /\ Moved(run, e, i, res.run, res.exec)
<1> DEFINE n == Len(Steps(run))
<1>1. n \in Nat
  BY RunType
<1>2. CASE i <= n /\ run.status = "aborted"
  <2>1. res.run = run /\ res.exec = Ended(e)
    BY <1>2 DEF Advance, Result
  <2> QED BY <1>2, <2>1, EndedShape DEF Moved
<1>3. CASE ~(i <= n /\ run.status = "aborted")
  <2>1. PICK j \in i..(n + 1) : res = StopAt(Skip(run, i, j), e, j)
    BY <1>3 DEF Advance, StopsFrom
  <2>2. CASE j = n + 1
    BY <2>1, <2>2, StopsAtEnd
  <2>3. CASE j # n + 1
    <3>1. j \in i..n /\ i <= n
      BY <1>1, <2>3
    <3>2. run.status # "aborted"
      BY <1>3, <3>1
    <3>3. CASE Approved(run, j)
      BY <2>1, <3>1, <3>2, <3>3, StopsToRun
    <3>4. CASE ~Approved(run, j)
      BY <2>1, <3>1, <3>4, StopsForApproval
    <3> QED BY <3>3, <3>4
  <2> QED BY <2>2, <2>3
<1> QED BY <1>2, <1>3

-----------------------------------------------------------------------------
(***************************************************************************)
(* What the properties ask of one run and one execution, and what the loop *)
(* keeps of it.                                                            *)
(***************************************************************************)

(* Every step that ever ran was approved, if it has to be.                 *)
ApprovedRun(run) ==
  \A i \in DOMAIN run.steps :
    run.steps[i] \in {"running", "completed", "failed"} => Approved(run, i)

Cleared(run, e) == ~Returned(e) => Approved(run, e.step)

(* The steps before the current one are behind, those after it untouched.  *)
InOrder(run) ==
  \A i \in DOMAIN run.steps :
    /\ i < run.cur => Passed(run, i)
    /\ i > run.cur => run.steps[i] = "pending"

CompletedAtEnd(run) ==
  run.status = "completed" => run.cur = Len(Steps(run)) + 1

(* An execution works at the current step of a run that is under way.      *)
OnCourse(run, e) ==
  ~Returned(e) => e.step = run.cur /\ run.status \notin {"paused", "completed"}

NoneStarted(run, run2) ==
  \A i \in DOMAIN run.steps : run2.steps[i] = "running" => run.steps[i] = "running"

LEMMA AttemptsWorks ==
  ASSUME NEW run, NEW e, NEW j, NEW n, NEW e2, Attempts(run, e, j, n, e2)
  PROVE  ~Returned(e2) /\ e2 # Nothing /\ e2.step = j
BY Untyped DEF Attempts, Returned, FirstPhases

LEMMA MovedFrame ==
  ASSUME NEW run, NEW e, NEW i, NEW run2, NEW e2, Moved(run, e, i, run2, e2)
  PROVE  /\ run2.flow = run.flow /\ Steps(run2) = Steps(run)
         /\ run2.approved = run.approved
         /\ DOMAIN run2.steps = DOMAIN run.steps
BY DEF Moved, SkippedTo, Steps

LEMMA MovedApproved ==
  ASSUME NEW run, RunOK(run), NEW e \in ExecRec, NEW i \in 1..(Len(Steps(run)) + 1),
         NEW run2, NEW e2, Moved(run, e, i, run2, e2), ApprovedRun(run)
  PROVE  ApprovedRun(run2) /\ Cleared(run2, e2)
<1>1. CASE run2 = run /\ e2 = Ended(e)
  BY <1>1, EndedShape DEF Cleared
<1>2. CASE ~(run2 = run /\ e2 = Ended(e))
  <2> DEFINE n == Len(Steps(run))
  <2>1. PICK j \in i..(n + 1) :
          /\ SkippedTo(run, i, j, run2)
          /\ \/ j = n + 1 /\ e2 = Ended(e)
             \/ j <= n /\ e2 = Ended(e) /\ run2.steps[j] = run.steps[j]
             \/ /\ j <= n /\ Attempts(run, e, j, 1, e2)
                /\ Approved(run, j) /\ run2.steps[j] = "running"
    BY <1>2 DEF Moved
  <2>2. /\ n \in Nat /\ DOMAIN run.steps = 1..n /\ DOMAIN run2.steps = 1..n
        /\ \A s \in 1..n : Approved(run2, s) <=> Approved(run, s)
    BY <2>1, RunType, MovedFrame DEF Approved
  <2>3. ASSUME NEW s \in 1..n, run2.steps[s] \in {"running", "completed", "failed"}
        PROVE  Approved(run, s)
    <3>1. CASE s = j
      BY <2>1, <2>2, <2>3, <3>1 DEF ApprovedRun
    <3>2. CASE s # j
      BY <2>1, <2>2, <2>3, <3>2 DEF ApprovedRun, SkippedTo
    <3> QED BY <3>1, <3>2
  <2>4. ApprovedRun(run2)
    BY <2>2, <2>3 DEF ApprovedRun
  <2>5. Cleared(run2, e2)
    <3>1. CASE e2 = Ended(e)
      BY <3>1, EndedShape DEF Cleared
    <3>2. CASE e2 # Ended(e)
      <4>1. j <= n /\ Attempts(run, e, j, 1, e2) /\ Approved(run, j)
        BY <2>1, <3>2
      <4>2. e2.step = j /\ j \in 1..n
        BY <2>2, <4>1, AttemptsWorks
      <4> QED BY <2>2, <4>1, <4>2 DEF Cleared
    <3> QED BY <3>1, <3>2
  <2> QED BY <2>4, <2>5
<1> QED BY <1>1, <1>2

(* From step i, with every step before it behind and no later one begun.   *)
LEMMA MovedOrder ==
  ASSUME NEW run, RunOK(run), NEW e \in ExecRec, NEW i \in 1..(Len(Steps(run)) + 1),
         NEW run2, NEW e2, Moved(run, e, i, run2, e2),
         InOrder(run), CompletedAtEnd(run), run.status \notin {"paused", "completed"},
         \A s \in DOMAIN run.steps : /\ s < i => Passed(run, s)
                                     /\ s > i => run.steps[s] = "pending"
  PROVE  InOrder(run2) /\ CompletedAtEnd(run2) /\ OnCourse(run2, e2)
<1>1. CASE run2 = run /\ e2 = Ended(e)
  BY <1>1, EndedShape DEF OnCourse
<1>2. CASE ~(run2 = run /\ e2 = Ended(e))
  <2> DEFINE n == Len(Steps(run))
  <2>1. PICK j \in i..(n + 1) :
          /\ SkippedTo(run, i, j, run2)
          /\ \/ j = n + 1 /\ e2 = Ended(e)
             \/ j <= n /\ e2 = Ended(e) /\ run2.status = "paused"
             \/ j <= n /\ Attempts(run, e, j, 1, e2) /\ run2.status = run.status
    BY <1>2 DEF Moved
  <2>2. /\ n \in Nat /\ DOMAIN run.steps = 1..n /\ DOMAIN run2.steps = 1..n
        /\ Steps(run2) = Steps(run) /\ run2.cur = j
        /\ \A s \in 1..n : s # j =>
             run2.steps[s] = IF s \in i..(j - 1) THEN "skipped" ELSE run.steps[s]
    BY <2>1, RunType, MovedFrame DEF SkippedTo
  <2>3. ASSUME NEW s \in 1..n, s < j
        PROVE  Passed(run2, s)
    <3>1. CASE s < i
      <4>1. Passed(run, s) /\ run2.steps[s] = run.steps[s]
        BY <2>1, <2>2, <2>3, <3>1
      <4> QED BY <2>2, <4>1 DEF Passed
    <3>2. CASE ~(s < i)
      <4>1. run2.steps[s] = "skipped"
        BY <2>1, <2>2, <2>3, <3>2
      <4> QED BY <4>1 DEF Passed
    <3> QED BY <3>1, <3>2
  <2>4. ASSUME NEW s \in 1..n, s > j
        PROVE  run2.steps[s] = "pending"
    BY <2>1, <2>2, <2>4
  <2>5. InOrder(run2)
    BY <2>2, <2>3, <2>4 DEF InOrder
  <2>6. CompletedAtEnd(run2)
    BY <2>1, <2>2 DEF CompletedAtEnd
  <2>7. OnCourse(run2, e2)
    <3>1. CASE e2 = Ended(e)
      BY <3>1, EndedShape DEF OnCourse
    <3>2. CASE e2 # Ended(e)
      BY <2>1, <2>2, <3>2, AttemptsWorks DEF OnCourse
    <3> QED BY <3>1, <3>2
  <2> QED BY <2>5, <2>6, <2>7
<1> QED BY <1>1, <1>2

(* The loop leaves nobody's run "running", and starts a step only of a run *)
(* that it leaves as it was, and not aborted.                              *)
LEMMA MovedStatus ==
  ASSUME NEW run, RunOK(run), NEW e \in ExecRec, NEW i \in 1..(Len(Steps(run)) + 1),
         NEW run2, NEW e2, Moved(run, e, i, run2, e2)
  PROVE  /\ run2.status = "running" => ~Returned(e2)
         /\ run.status \in {"running", "aborted"} /\ run2.status # "running"
              => NoneStarted(run, run2)
<1>1. CASE run.status = "aborted" /\ run2 = run
  BY <1>1 DEF NoneStarted
<1>2. CASE ~(run.status = "aborted" /\ run2 = run)
  <2> DEFINE n == Len(Steps(run))
  <2>1. PICK j \in i..(n + 1) :
          /\ SkippedTo(run, i, j, run2)
          /\ \/ j = n + 1 /\ run2.status = "completed"
             \/ j <= n /\ run2.status = "paused" /\ run2.steps[j] = run.steps[j]
             \/ /\ j <= n /\ Attempts(run, e, j, 1, e2)
                /\ run2.status = run.status /\ run.status # "aborted"
    BY <1>2 DEF Moved
  <2>2. n \in Nat /\ DOMAIN run.steps = 1..n
    BY RunType
  <2>3. run2.status = "running" => ~Returned(e2)
    BY <2>1, AttemptsWorks
  <2>4. ASSUME run.status \in {"running", "aborted"}, run2.status # "running",
               NEW s \in DOMAIN run.steps, run2.steps[s] = "running"
        PROVE  run.steps[s] = "running"
    BY <2>1, <2>2, <2>4 DEF SkippedTo
  <2> QED BY <2>3, <2>4 DEF NoneStarted
<1> QED BY <1>1, <1>2

-----------------------------------------------------------------------------
(***************************************************************************)
(* What one stretch of an execution does: a step ends well or badly, or is *)
(* tried again.                                                            *)
(***************************************************************************)

(* Step j is marked, and the run's status set.                             *)
Note(run, status, j, mark) == [run EXCEPT !.status = status, !.steps[j] = mark]

Noted(run, j, mark, run2) ==
  /\ run2.flow = run.flow /\ run2.approved = run.approved /\ run2.cur = run.cur
  /\ Steps(run2) = Steps(run) /\ DOMAIN run2.steps = DOMAIN run.steps
  /\ \A s \in DOMAIN run.steps : run2.steps[s] = IF s = j THEN mark ELSE run.steps[s]

Once(run) ==
  \A i \in DOMAIN run.steps : Steps(run)[i].attempts = 1 /\ ~Steps(run)[i].keepGoing

WentOn(run, e, run2, e2) ==
  /\ RunOK(run2) /\ Follows(e, run2, e2)
  /\ run2.flow = run.flow /\ run2.approved = run.approved
  /\ ApprovedRun(run) /\ Approved(run, e.step) => ApprovedRun(run2) /\ Cleared(run2, e2)
  /\ InOrder(run) /\ CompletedAtEnd(run) /\ OnCourse(run, e)
       => InOrder(run2) /\ CompletedAtEnd(run2) /\ OnCourse(run2, e2)
  /\ run2.status = "running" => ~Returned(e2)
  /\ run.status = "aborted" /\ Once(run) /\ run2.status # "running" => NoneStarted(run, run2)

LEMMA NotedShape ==
  ASSUME NEW run, RunOK(run), NEW j \in DOMAIN Steps(run), NEW mark \in StepStatus,
         NEW status \in RunStatus, NEW run2,
         run2 = Note(run, status, j, mark)
  PROVE  RunOK(run2) /\ Noted(run, j, mark, run2) /\ run2.status = status
<1> DEFINE m == Len(Steps(run))
           steps2 == [s \in 1..m |-> IF s = j THEN mark ELSE run.steps[s]]
<1>1. /\ m \in Nat /\ DOMAIN run.steps = 1..m /\ DOMAIN Steps(run) = 1..m
      /\ \A s \in 1..m : run.steps[s] \in StepStatus
      /\ run \in RunRec
  BY RunType DEF RunOK
<1>2. run2 = [run EXCEPT !.status = status, !.steps = steps2]
  BY <1>1 DEF RunRec, Note
<1>3. steps2 \in [1..m -> StepStatus]
  BY <1>1
<1>4. steps2 \in Seq(StepStatus)
  BY <1>1, <1>3, IsSeq
<1>5. DOMAIN steps2 = 1..m
  BY <1>3
<1>6. \A s \in 1..m : steps2[s] = IF s = j THEN mark ELSE run.steps[s]
  OBVIOUS
<1> HIDE DEF steps2
<1>7. /\ run2 \in RunRec /\ run2.flow = run.flow /\ run2.approved = run.approved
      /\ run2.cur = run.cur /\ run2.status = status /\ run2.steps = steps2
  BY <1>1, <1>2, <1>4 DEF RunRec
<1>8. Steps(run2) = Steps(run)
  BY <1>7 DEF Steps
<1>9. RunOK(run2)
  BY <1>1, <1>5, <1>7, <1>8 DEF RunOK
<1> QED BY <1>1, <1>5, <1>6, <1>7, <1>8, <1>9 DEF Noted

(* The step is behind and the loop goes on after it.                       *)
LEMMA PassedOn ==
  ASSUME NEW run, RunOK(run), NEW e, AtStep(run, e), ~Returned(e),
         NEW mark \in {"completed", "failed"},
         mark = "failed" => Steps(run)[e.step].keepGoing,
         NEW noted, RunOK(noted), Noted(run, e.step, mark, noted),
         noted.status \in {run.status, "running"},
         noted.status = run.status \/ Steps(run)[e.step].keepGoing,
         NEW res \in Advance(noted, e, e.step + 1)
  PROVE  WentOn(run, e, res.run, res.exec)
<1> DEFINE n == Len(Steps(run))
           j == e.step
<1>1. /\ n \in Nat /\ DOMAIN run.steps = 1..n /\ DOMAIN Steps(run) = 1..n
      /\ e \in ExecRec /\ j \in 1..n /\ run.cur \in 1..(n + 1)
  BY RunType DEF InPlace, AtStep, Returned
<1>2. /\ Steps(noted) = Steps(run) /\ DOMAIN noted.steps = 1..n /\ noted.cur = run.cur
      /\ noted.flow = run.flow /\ noted.approved = run.approved
      /\ \A s \in 1..n : noted.steps[s] = IF s = j THEN mark ELSE run.steps[s]
  BY <1>1 DEF Noted
<1>3. j + 1 \in 1..(Len(Steps(noted)) + 1)
  BY <1>1, <1>2
<1>4. /\ RunOK(res.run) /\ Follows(e, res.run, res.exec)
      /\ Moved(noted, e, j + 1, res.run, res.exec)
  BY <1>1, <1>3, AdvanceMoves
<1>5. /\ res.run.flow = run.flow /\ res.run.approved = run.approved
      /\ DOMAIN res.run.steps = 1..n
  BY <1>2, <1>4, MovedFrame
<1>6. ASSUME ApprovedRun(run), Approved(run, j)
      PROVE  ApprovedRun(res.run) /\ Cleared(res.run, res.exec)
  <2>1. ApprovedRun(noted)
    BY <1>1, <1>2, <1>6 DEF ApprovedRun, Approved
  <2> QED BY <1>1, <1>3, <1>4, <2>1, MovedApproved
<1>7. ASSUME InOrder(run), CompletedAtEnd(run), OnCourse(run, e)
      PROVE  InOrder(res.run) /\ CompletedAtEnd(res.run) /\ OnCourse(res.run, res.exec)
  <2>1. j = run.cur /\ run.status \notin {"paused", "completed"}
    BY <1>7 DEF OnCourse
  <2>2. noted.status \notin {"paused", "completed"} /\ CompletedAtEnd(noted)
    BY <2>1 DEF CompletedAtEnd
  <2>3. ASSUME NEW s \in 1..n
        PROVE  /\ s < j + 1 => Passed(noted, s)
               /\ s > j => noted.steps[s] = "pending"
    <3>1. Passed(noted, j)
      BY <1>1, <1>2 DEF Passed
    <3>2. s < j => Passed(run, s) /\ noted.steps[s] = run.steps[s]
      BY <1>1, <1>2, <1>7, <2>1 DEF InOrder
    <3>3. s < j => Passed(noted, s)
      BY <1>2, <3>2 DEF Passed
    <3>4. s > j => noted.steps[s] = "pending"
      BY <1>1, <1>2, <1>7, <2>1 DEF InOrder
    <3> QED BY <1>1, <3>1, <3>3, <3>4
  <2>4. InOrder(noted)
    BY <1>1, <1>2, <2>1, <2>3 DEF InOrder
  <2>5. \A s \in DOMAIN noted.steps : /\ s < j + 1 => Passed(noted, s)
                                      /\ s > j + 1 => noted.steps[s] = "pending"
    BY <1>1, <1>2, <2>3
  <2> QED BY <1>1, <1>3, <1>4, <2>2, <2>4, <2>5, MovedOrder
<1>8. /\ res.run.status = "running" => ~Returned(res.exec)
      /\ noted.status \in {"running", "aborted"} /\ res.run.status # "running"
           => NoneStarted(noted, res.run)
  BY <1>1, <1>3, <1>4, MovedStatus
<1>9. ASSUME run.status = "aborted", Once(run), res.run.status # "running"
      PROVE  NoneStarted(run, res.run)
  <2>1. noted.status = "aborted"
    BY <1>1, <1>9 DEF Once
  <2>2. NoneStarted(noted, res.run)
    BY <1>8, <1>9, <2>1
  <2> QED BY <1>1, <1>2, <2>2 DEF NoneStarted
<1> QED BY <1>4, <1>5, <1>6, <1>7, <1>8, <1>9 DEF WentOn

LEMMA SuccessGoesOn ==
  ASSUME NEW run, RunOK(run), NEW e, AtStep(run, e), ~Returned(e),
         NEW res \in StepSucceeds(run, e)
  PROVE  WentOn(run, e, res.run, res.exec)
<1> DEFINE noted == [run EXCEPT !.steps[e.step] = "completed"]
<1>1. e.step \in DOMAIN Steps(run) /\ run.status \in RunStatus /\ run \in RunRec
  BY RunType DEF InPlace, AtStep, Returned, RunOK
<1>2. noted = Note(run, run.status, e.step, "completed")
  BY <1>1 DEF RunRec, Note
<1>3. "completed" \in StepStatus
  BY DEF StepStatus
<1>4. res \in Advance(noted, e, e.step + 1)
  BY DEF StepSucceeds
<1> HIDE DEF noted
<1>5. RunOK(noted) /\ Noted(run, e.step, "completed", noted) /\ noted.status = run.status
  BY <1>1, <1>2, <1>3, NotedShape
<1> QED BY <1>4, <1>5, PassedOn

LEMMA FailureGoesOn ==
  ASSUME NEW run, RunOK(run), NEW e, AtStep(run, e), ~Returned(e),
         NEW res \in StepFails(run, e)
  PROVE  WentOn(run, e, res.run, res.exec)
<1> DEFINE step == Steps(run)[e.step]
           j == e.step
           status == IF step.keepGoing THEN "running" ELSE "failed"
           noted == [run EXCEPT !.status = status, !.steps[j] = "failed"]
<1>1. j \in DOMAIN Steps(run) /\ step \in StepDef /\ e \in ExecRec
  BY RunType DEF InPlace, AtStep, Returned
<1>2. /\ RunOK(noted) /\ Noted(run, j, "failed", noted)
      /\ noted.status = IF step.keepGoing THEN "running" ELSE "failed"
  <2>1. status \in RunStatus /\ "failed" \in StepStatus
    BY DEF RunStatus, StepStatus
  <2>2. noted = Note(run, status, j, "failed")
    BY DEF Note
  <2> HIDE DEF status, noted
  <2>3. RunOK(noted) /\ Noted(run, j, "failed", noted) /\ noted.status = status
    BY <1>1, <2>1, <2>2, NotedShape
  <2> QED BY <2>3 DEF status
<1>3. CASE step.keepGoing
  <2>1. res \in Advance(noted, e, e.step + 1)
    BY <1>3 DEF StepFails
  <2> HIDE DEF noted
  <2> QED BY <1>2, <1>3, <2>1, PassedOn
<1>4. CASE ~step.keepGoing
  <2>1. /\ res.run = noted
        /\ res.exec = IF e.try < step.attempts THEN [e EXCEPT !.at = "delay"] ELSE Ended(e)
    BY <1>4 DEF StepFails, Result
  <2> HIDE DEF noted
  <2>2. /\ noted.flow = run.flow /\ noted.approved = run.approved /\ noted.cur = run.cur
        /\ Steps(noted) = Steps(run) /\ DOMAIN noted.steps = DOMAIN run.steps
        /\ \A s \in DOMAIN run.steps :
             noted.steps[s] = IF s = j THEN "failed" ELSE run.steps[s]
        /\ noted.status = "failed"
    BY <1>2, <1>4 DEF Noted
  <2>3. Follows(e, noted, res.exec) /\ (~Returned(res.exec) => res.exec.step = j)
    <3>1. CASE e.try < step.attempts
      <4>1. /\ res.exec \in ExecRec /\ res.exec.at = "delay" /\ res.exec.step = j
            /\ res.exec.try = e.try /\ res.exec.joined = e.joined
        BY <1>1, <2>1, <3>1 DEF ExecRec, Phase
      <4>2. res.exec # Nothing
        BY <4>1, Untyped
      <4>3. InPlace(noted, res.exec)
        BY <2>2, <3>1, <4>1 DEF InPlace, AtStep, Returned
      <4> QED BY <4>1, <4>2, <4>3 DEF Follows
    <3>2. CASE ~(e.try < step.attempts)
      BY <1>1, <2>1, <3>2, EndedShape
    <3> QED BY <3>1, <3>2
  <2>4. ASSUME ApprovedRun(run), Approved(run, j)
        PROVE  ApprovedRun(noted) /\ Cleared(noted, res.exec)
    BY <2>2, <2>3, <2>4 DEF ApprovedRun, Approved, Cleared
  <2>5. ASSUME InOrder(run), OnCourse(run, e)
        PROVE  InOrder(noted) /\ CompletedAtEnd(noted) /\ OnCourse(noted, res.exec)
    <3>1. j = run.cur /\ DOMAIN run.steps = 1..Len(Steps(run)) /\ Len(Steps(run)) \in Nat
      BY <2>5, RunType DEF OnCourse
    <3>2. InOrder(noted)
      BY <2>2, <2>5, <3>1 DEF InOrder, Passed
    <3> QED BY <2>2, <2>3, <3>1, <3>2 DEF CompletedAtEnd, OnCourse
  <2>6. NoneStarted(run, noted)
    BY <2>2 DEF NoneStarted
  <2> QED BY <1>2, <2>1, <2>2, <2>3, <2>4, <2>5, <2>6 DEF WentOn
<1> QED BY <1>3, <1>4

LEMMA RetryGoesOn ==
  ASSUME NEW run, RunOK(run), NEW e, InPlace(run, e), e # Nothing, e.at = "delay",
         NEW res, res = StartAttempt(run, e, e.step, e.try + 1)
  PROVE  WentOn(run, e, res.run, res.exec)
<1> DEFINE j == e.step
<1>1. /\ e \in ExecRec /\ j \in DOMAIN Steps(run) /\ e.try \in Nat /\ e.try > 0
      /\ e.try < Steps(run)[j].attempts /\ Steps(run)[j] \in StepDef
      /\ DOMAIN run.steps = DOMAIN Steps(run)
  BY RunType DEF InPlace, AtStep, ExecRec
<1>2. e.try + 1 \in 1..10
  BY <1>1 DEF StepDef
<1>3. /\ RunOK(res.run) /\ RunsStep(run, j, res.run)
      /\ Attempts(run, e, j, e.try + 1, res.exec) /\ InPlace(res.run, res.exec)
  BY <1>1, <1>2, AttemptShape
<1>4. Follows(e, res.run, res.exec) /\ ~Returned(res.exec) /\ res.exec.step = j
  BY <1>1, <1>3, AttemptFollows, AttemptsWorks
<1>5. /\ res.run.flow = run.flow /\ res.run.status = run.status
      /\ res.run.approved = run.approved /\ res.run.cur = j
      /\ DOMAIN res.run.steps = DOMAIN run.steps /\ Steps(res.run) = Steps(run)
      /\ \A s \in DOMAIN run.steps :
           res.run.steps[s] = IF s = j THEN "running" ELSE run.steps[s]
  BY <1>3 DEF RunsStep, Steps
<1>6. ASSUME ApprovedRun(run), Approved(run, j)
      PROVE  ApprovedRun(res.run) /\ Cleared(res.run, res.exec)
  BY <1>4, <1>5, <1>6 DEF ApprovedRun, Approved, Cleared
<1>7. ASSUME InOrder(run), CompletedAtEnd(run), OnCourse(run, e)
      PROVE  InOrder(res.run) /\ CompletedAtEnd(res.run) /\ OnCourse(res.run, res.exec)
  <2>1. /\ j = run.cur /\ run.status \notin {"paused", "completed"}
        /\ DOMAIN run.steps = 1..Len(Steps(run)) /\ Len(Steps(run)) \in Nat
    BY <1>7, RunType DEF OnCourse, Returned
  <2>2. InOrder(res.run)
    BY <1>5, <1>7, <2>1 DEF InOrder, Passed
  <2> QED BY <1>4, <1>5, <2>1, <2>2 DEF CompletedAtEnd, OnCourse
<1>8. ~Once(run)
  BY <1>1 DEF Once
<1> QED BY <1>3, <1>4, <1>5, <1>6, <1>7, <1>8 DEF WentOn

-----------------------------------------------------------------------------
(***************************************************************************)
(* What a launch does, and the runs that are launched.                     *)
(***************************************************************************)

Begun(run, joined, run2, e2) ==
  /\ RunOK(run2)
  /\ run2.flow = run.flow /\ run2.approved = run.approved
  /\ e2 = Nothing => ~joined
  /\ e2 # Nothing => /\ InPlace(run2, e2) /\ e2.joined = joined
                     /\ e2.at \in FirstPhases \cup {"delay", "done"}
  /\ ApprovedRun(run) => ApprovedRun(run2) /\ Cleared(run2, e2)
  /\ InOrder(run) => InOrder(run2) /\ CompletedAtEnd(run2) /\ OnCourse(run2, e2)
  /\ run2.status = "running" => ~Returned(e2)
  /\ run2.status # "running" => NoneStarted(run, run2)

LEMMA BeginBegins ==
  ASSUME NEW run, RunOK(run), NEW joined \in BOOLEAN, NEW depth \in 0..MaxDepth,
         NEW res \in Begin(run, joined, depth)
  PROVE  Begun(run, joined, res.run, res.exec)
<1> DEFINE begun == [run EXCEPT !.status = "running"]
           e == NewExec(joined, depth)
<1>1. e \in ExecRec /\ e.joined = joined
  BY DEF NewExec, ExecRec, Phase
<1>2. /\ run.cur \in 1..(Len(Steps(run)) + 1)
      /\ DOMAIN run.steps = 1..Len(Steps(run)) /\ Len(Steps(run)) \in Nat
  BY RunType
<1>3. res \in Advance(begun, e, run.cur)
  BY DEF Begin
<1>4. /\ begun \in RunRec /\ begun.status = "running"
      /\ begun.flow = run.flow /\ begun.approved = run.approved
      /\ begun.cur = run.cur /\ begun.steps = run.steps
  BY DEF RunOK, RunRec, RunStatus
<1> HIDE DEF begun, e
<1>5. Steps(begun) = Steps(run)
  BY <1>4 DEF Steps
<1>6. RunOK(begun)
  BY <1>4, <1>5 DEF RunOK
<1>7. run.cur \in 1..(Len(Steps(begun)) + 1)
  BY <1>2, <1>5
<1>8. /\ RunOK(res.run) /\ Follows(e, res.run, res.exec)
      /\ Moved(begun, e, run.cur, res.run, res.exec)
  BY <1>1, <1>3, <1>6, <1>7, AdvanceMoves
<1>9. res.run.flow = run.flow /\ res.run.approved = run.approved
  BY <1>4, <1>8, MovedFrame
<1>10. ASSUME ApprovedRun(run)
       PROVE  ApprovedRun(res.run) /\ Cleared(res.run, res.exec)
  <2>1. ApprovedRun(begun)
    BY <1>4, <1>5, <1>10 DEF ApprovedRun, Approved
  <2> QED BY <1>1, <1>6, <1>7, <1>8, <2>1, MovedApproved
<1>11. ASSUME InOrder(run)
       PROVE  InOrder(res.run) /\ CompletedAtEnd(res.run) /\ OnCourse(res.run, res.exec)
  <2>1. \A s : Passed(begun, s) <=> Passed(run, s)
    BY <1>4, <1>5 DEF Passed
  <2>2. InOrder(begun) /\ CompletedAtEnd(begun)
    BY <1>4, <1>11, <2>1 DEF InOrder, CompletedAtEnd
  <2>3. \A s \in DOMAIN begun.steps : /\ s < run.cur => Passed(begun, s)
                                      /\ s > run.cur => begun.steps[s] = "pending"
    BY <1>4, <2>2 DEF InOrder
  <2> QED BY <1>1, <1>4, <1>6, <1>7, <1>8, <2>2, <2>3, MovedOrder
<1>12. /\ res.run.status = "running" => ~Returned(res.exec)
       /\ res.run.status # "running" => NoneStarted(begun, res.run)
  BY <1>1, <1>4, <1>6, <1>7, <1>8, MovedStatus
<1>13. NoneStarted(begun, res.run) => NoneStarted(run, res.run)
  BY <1>4 DEF NoneStarted
<1> QED BY <1>1, <1>8, <1>9, <1>10, <1>11, <1>12, <1>13 DEF Begun, Follows

LEMMA NewRunFits ==
  ASSUME NEW f \in Flows
  PROVE  RunOK(NewRun(f)) /\ ApprovedRun(NewRun(f)) /\ InOrder(NewRun(f))
<1> DEFINE run == NewRun(f)
           n == Len(Plan[f])
<1>1. n \in Nat /\ DOMAIN Plan[f] = 1..n
  BY PlanType
<1>2. /\ run.flow = f /\ run.status = "running" /\ run.cur = 1 /\ run.approved = {}
      /\ run.steps = [i \in 1..n |-> "pending"]
      /\ run = [flow |-> f, status |-> "running", cur |-> 1,
                steps |-> [i \in 1..n |-> "pending"], approved |-> {}]
  BY <1>1 DEF NewRun
<1>3. Steps(run) = Plan[f]
  BY <1>2 DEF Steps
<1>4. [i \in 1..n |-> "pending"] \in Seq(StepStatus)
  BY <1>1, IsSeq DEF StepStatus
<1>5. run \in RunRec
  BY <1>2, <1>4 DEF RunRec, RunStatus
<1> HIDE DEF run
<1>6. RunOK(run)
  BY <1>1, <1>2, <1>3, <1>5 DEF RunOK
<1>7. ApprovedRun(run) /\ InOrder(run)
  BY <1>1, <1>2 DEF ApprovedRun, InOrder
<1> QED BY <1>6, <1>7 DEF run

(* A base to launch a run again from: nothing that was approved or put in  *)
(* order is lost.                                                          *)
Reopens(run, base) ==
  /\ RunOK(base) /\ base.flow = run.flow
  /\ \A j \in DOMAIN Steps(run) : Approved(run, j) => Approved(base, j)
  /\ ApprovedRun(run) => ApprovedRun(base)
  /\ InOrder(run) => InOrder(base)
  /\ NoneStarted(run, base)

LEMMA AsItIs ==
  ASSUME NEW run, RunOK(run)
  PROVE  Reopens(run, run)
BY DEF Reopens, NoneStarted

LEMMA ResumeReopens ==
  ASSUME NEW run, RunOK(run), NEW base,
         base = [run EXCEPT !.approved = @ \cup ({run.cur} \cap DOMAIN run.steps)]
  PROVE  Reopens(run, base)
<1>1. /\ DOMAIN run.steps = 1..Len(Steps(run)) /\ Len(Steps(run)) \in Nat
      /\ DOMAIN Steps(run) = 1..Len(Steps(run))
  BY RunType
<1> DEFINE approved2 == run.approved \cup ({run.cur} \cap DOMAIN run.steps)
<1>2. approved2 \subseteq DOMAIN Steps(run) /\ approved2 \in SUBSET Nat
  BY <1>1 DEF RunOK
<1>3. base = [run EXCEPT !.approved = approved2]
  BY DEF RunOK, RunRec
<1>4. run.approved \subseteq approved2
  OBVIOUS
<1> HIDE DEF approved2
<1>5. /\ base \in RunRec /\ base.flow = run.flow /\ base.status = run.status
      /\ base.cur = run.cur /\ base.steps = run.steps /\ base.approved = approved2
  BY <1>2, <1>3 DEF RunOK, RunRec
<1>6. Steps(base) = Steps(run)
  BY <1>5 DEF Steps
<1>7. RunOK(base)
  BY <1>2, <1>5, <1>6 DEF RunOK
<1>8. \A j : Approved(run, j) => Approved(base, j)
  BY <1>4, <1>5, <1>6 DEF Approved
<1>9. \A j : Passed(run, j) <=> Passed(base, j)
  BY <1>5, <1>6 DEF Passed
<1> QED BY <1>5, <1>7, <1>8, <1>9 DEF Reopens, ApprovedRun, InOrder, NoneStarted

(* A set of naturals has a least element.                                  *)
LEMMA LeastOf ==
  ASSUME NEW S, S \subseteq Nat, S # {}
  PROVE  Min(S) \in S /\ \A x \in S : Min(S) <= x
<1>1. PICK m \in S : \A y \in S : ~(<<y, m>> \in OpToRel(<, Nat))
  BY NatLessThanWellFounded, WFMin
<1>2. \A y \in S : ~(y < m)
  BY <1>1 DEF OpToRel
<1>3. m \in Nat /\ \A y \in S : m <= y
  BY <1>2
<1> QED BY <1>1, <1>3 DEF Min

LEMMA RestartStepType ==
  ASSUME NEW run, RunOK(run)
  PROVE  LET start == RestartStep(run) IN
         /\ start \in 1..(Len(Steps(run)) + 1)
         /\ InOrder(run) => /\ start <= run.cur
                            /\ \A i \in DOMAIN run.steps : i < start => Passed(run, i)
<1> DEFINE n == Len(Steps(run))
           failed == {i \in DOMAIN run.steps : run.steps[i] = "failed"}
           start == RestartStep(run)
<1>1. n \in Nat /\ DOMAIN run.steps = 1..n /\ run.cur \in 1..(n + 1) /\ Len(run.steps) = n
  BY RunType DEF RunOK, RunRec
<1>2. CASE failed # {}
  <2>1. start = Min(failed)
    BY <1>2 DEF RestartStep
  <2>2. failed \subseteq Nat
    BY <1>1
  <2> HIDE DEF start
  <2>3. start \in failed /\ \A i \in failed : start <= i
    BY <1>2, <2>1, <2>2, LeastOf
  <2>4. start \in 1..n
    BY <1>1, <2>3
  <2>5. ASSUME InOrder(run)
        PROVE  start <= run.cur
    BY <1>1, <2>3, <2>5 DEF InOrder
  <2>6. ASSUME InOrder(run), NEW i \in DOMAIN run.steps, i < start
        PROVE  Passed(run, i)
    BY <1>1, <2>3, <2>4, <2>5, <2>6 DEF InOrder
  <2> QED BY <1>1, <2>4, <2>5, <2>6 DEF start
<1>3. CASE failed = {}
  <2>1. start = Min({run.cur, Max({1, n})})
    BY <1>1, <1>3 DEF RestartStep
  <2>2. Max({1, n}) \in {1, n} /\ Max({1, n}) >= 1
    BY <1>1 DEF Max
  <2> DEFINE S == {run.cur, Max({1, n})}
  <2>3. S \subseteq Nat /\ S # {}
    BY <1>1, <2>2
  <2>4. Min(S) \in S /\ Min(S) <= run.cur
    BY <2>3, LeastOf
  <2>5. start \in 1..(n + 1) /\ start <= run.cur
    BY <1>1, <2>1, <2>2, <2>4
  <2> HIDE DEF start
  <2>6. ASSUME InOrder(run), NEW i \in DOMAIN run.steps, i < start
        PROVE  Passed(run, i)
    BY <1>1, <2>5, <2>6 DEF InOrder
  <2> QED BY <2>5, <2>6 DEF start
<1> QED BY <1>2, <1>3

LEMMA ResetReopens ==
  ASSUME NEW run, RunOK(run), NEW base, base = ResetFrom(run, RestartStep(run))
  PROVE  Reopens(run, base)
<1> DEFINE n == Len(Steps(run))
           start == RestartStep(run)
           steps2 == [i \in DOMAIN run.steps |-> IF i < start THEN run.steps[i] ELSE "pending"]
           approved2 == {i \in run.approved : i < start \/ Steps(run)[i].approval}
<1>1. /\ n \in Nat /\ DOMAIN run.steps = 1..n /\ DOMAIN Steps(run) = 1..n
      /\ \A s \in 1..n : run.steps[s] \in StepStatus
  BY RunType
<1>2. start \in 1..(n + 1)
  BY RestartStepType
<1>3. InOrder(run) => /\ start <= run.cur
                      /\ \A i \in DOMAIN run.steps : i < start => Passed(run, i)
  BY RestartStepType
<1>4. base = [run EXCEPT !.cur = start, !.steps = steps2, !.approved = approved2]
  BY DEF ResetFrom, RunOK, RunRec
<1> HIDE DEF start
<1>5. steps2 \in [1..n -> StepStatus]
  BY <1>1 DEF StepStatus
<1>6. steps2 \in Seq(StepStatus) /\ DOMAIN steps2 = 1..n
  BY <1>1, <1>5, IsSeq
<1>7. /\ approved2 \subseteq DOMAIN Steps(run) /\ approved2 \in SUBSET Nat
      /\ start \in Nat \ {0}
  BY <1>1, <1>2 DEF RunOK
<1>8. \A i \in 1..n : steps2[i] = IF i < start THEN run.steps[i] ELSE "pending"
  BY <1>1
<1>9. \A i \in run.approved : Steps(run)[i].approval => i \in approved2
  OBVIOUS
<1> HIDE DEF steps2, approved2
<1>10. /\ base \in RunRec /\ base.flow = run.flow /\ base.status = run.status
       /\ base.cur = start /\ base.steps = steps2 /\ base.approved = approved2
  <2>1. run \in RunRec
    BY DEF RunOK
  <2> QED BY <1>4, <1>6, <1>7, <2>1 DEF RunRec
<1>11. Steps(base) = Steps(run)
  BY <1>10 DEF Steps
<1>12. RunOK(base)
  BY <1>1, <1>2, <1>6, <1>7, <1>10, <1>11 DEF RunOK
<1>13. \A j : Approved(run, j) => Approved(base, j)
  BY <1>9, <1>10, <1>11 DEF Approved
<1>14. ApprovedRun(run) => ApprovedRun(base)
  BY <1>1, <1>6, <1>8, <1>10, <1>13 DEF ApprovedRun
<1>15. InOrder(run) => InOrder(base)
  <2> SUFFICES ASSUME InOrder(run), NEW i \in 1..n
               PROVE  /\ i < start => Passed(base, i)
                      /\ i > start => steps2[i] = "pending"
    BY <1>6, <1>10 DEF InOrder
  <2>1. i < start => Passed(run, i) /\ steps2[i] = run.steps[i]
    BY <1>1, <1>3, <1>8
  <2>2. i < start => Passed(base, i)
    BY <1>10, <1>11, <2>1 DEF Passed
  <2>3. i > start => steps2[i] = "pending"
    BY <1>2, <1>8
  <2> QED BY <2>2, <2>3
<1>16. NoneStarted(run, base)
  BY <1>1, <1>8, <1>10 DEF NoneStarted
<1> QED BY <1>10, <1>12, <1>13, <1>14, <1>15, <1>16 DEF Reopens

-----------------------------------------------------------------------------
(***************************************************************************)
(* Types.  TypeInv is TypeOK with every execution in place.                *)
(***************************************************************************)
Tables == [Procs -> [Runs -> [Slots -> ExecRec \cup {Nothing}]]]

DataInv ==
  /\ runs \in [Runs -> RunRec \cup {Nothing}]
  /\ exec \in Tables
  /\ up \subseteq Procs
  /\ \A r \in Runs : runs[r] # Nothing => RunOK(runs[r])
  /\ \A p \in Procs, r \in Runs, k \in Slots : exec[p][r][k] # Nothing =>
       runs[r] # Nothing /\ p \in up /\ InPlace(runs[r], exec[p][r][k])

ControlInv ==
  /\ active \in [Procs -> SUBSET {r \in Runs : runs[r] # Nothing}]
  /\ toRecover \in [Procs -> SUBSET Runs]
  /\ session \in [Procs -> {"idle", "other", "cut", "own"}]
  /\ aborting \in [Procs -> BOOLEAN]
  /\ overlapped \subseteq Runs
  /\ commands \in 0..MaxCommands /\ crashes \in 0..MaxCrashes /\ others \in 0..MaxOthers

TypeInv == DataInv /\ ControlInv

LEMMA TypeInvTypes == TypeInv => TypeOK
BY DEF TypeInv, DataInv, ControlInv, TypeOK, RunOK, Tables

(* One place of a table of executions gets a new value.                    *)
Put(f, p, r, k, e) == [f EXCEPT ![p][r][k] = e]

LEMMA PutShape ==
  ASSUME NEW f \in Tables,
         NEW p \in Procs, NEW r \in Runs, NEW k \in Slots,
         NEW e \in ExecRec \cup {Nothing}, NEW g, g = Put(f, p, r, k, e)
  PROVE  /\ g \in Tables
         /\ g[p][r][k] = e
         /\ \A q \in Procs, s \in Runs, l \in Slots :
              ~(q = p /\ s = r /\ l = k) => g[q][s][l] = f[q][s][l]
BY DEF Tables, Put

(* The data stay well typed when each run and each execution that changes  *)
(* still fits.                                                             *)
LEMMA DataStep ==
  ASSUME DataInv, up \subseteq up', up' \subseteq Procs,
         runs' \in [Runs -> RunRec \cup {Nothing}],
         exec' \in Tables,
         \A s \in Runs :
           \/ runs'[s] = runs[s]
           \/ RunOK(runs'[s]) /\ (runs[s] # Nothing => runs'[s].flow = runs[s].flow),
         \A q \in Procs, s \in Runs, l \in Slots :
           \/ exec'[q][s][l] = exec[q][s][l]
           \/ exec'[q][s][l] = Nothing
           \/ q \in up' /\ RunOK(runs'[s]) /\ InPlace(runs'[s], exec'[q][s][l])
  PROVE  /\ DataInv'
         /\ \A s \in Runs : runs[s] # Nothing => runs'[s] # Nothing
<1>1. \A run : RunOK(run) => run # Nothing
  BY Untyped DEF RunOK
<1>2. ASSUME NEW s \in Runs, runs'[s] # Nothing
      PROVE  RunOK(runs'[s])
  BY <1>2 DEF DataInv
<1>3. \A s \in Runs : runs[s] # Nothing => runs'[s] # Nothing
  BY <1>1
<1>4. ASSUME NEW q \in Procs, NEW s \in Runs, NEW l \in Slots, exec'[q][s][l] # Nothing
      PROVE  runs'[s] # Nothing /\ q \in up' /\ InPlace(runs'[s], exec'[q][s][l])
  <2>1. CASE exec'[q][s][l] = exec[q][s][l]
    <3>1. runs[s] # Nothing /\ q \in up /\ InPlace(runs[s], exec[q][s][l])
      BY <1>4, <2>1 DEF DataInv
    <3>2. Steps(runs'[s]) = Steps(runs[s])
      BY <3>1 DEF Steps
    <3>3. InPlace(runs'[s], exec'[q][s][l])
      BY <2>1, <3>1, <3>2 DEF InPlace, AtStep
    <3> QED BY <1>3, <3>1, <3>3
  <2>2. CASE exec'[q][s][l] # exec[q][s][l]
    BY <1>1, <1>4, <2>2
  <2> QED BY <2>1, <2>2
<1> QED BY <1>2, <1>3, <1>4 DEF DataInv

(***************************************************************************)
(* The kinds of steps: every action of Next is one of them, so that the    *)
(* invariants below need no case per action.                               *)
(***************************************************************************)

(* The same step, or as little left to do.                                 *)
Alike(e1, e2) ==
  /\ Returned(e1) <=> Returned(e2)
  /\ ~Returned(e1) => e2.step = e1.step

Elsewhere(p, r, k) ==
  /\ \A s \in Runs : s # r => runs'[s] = runs[s]
  /\ \A q \in Procs, s \in Runs, l \in Slots :
       ~(q = p /\ s = r /\ l = k) => Alike(exec[q][s][l], exec'[q][s][l])

(* A new run, or one that is launched again from a base.                   *)
Bases(r, base) ==
  \/ /\ runs[r] = Nothing /\ ~Live(r)
     /\ RunOK(base) /\ ApprovedRun(base) /\ InOrder(base)
  \/ /\ runs[r] # Nothing
     /\ Reopens(runs[r], base)

Launches(p, r, k) ==
  /\ exec[p][r][k] = Nothing
  /\ \E base, joined : Bases(r, base) /\ Begun(base, joined, runs'[r], exec'[p][r][k])
  /\ Elsewhere(p, r, k)
  /\ active' = [active EXCEPT ![p] = IF Returned(exec'[p][r][k]) THEN @ \ {r} ELSE @ \cup {r}]
  /\ overlapped' = IF Live(r) THEN overlapped \cup {r} ELSE overlapped
  /\ crashes' = crashes

WorksOn(p, r, k) ==
  /\ Working(p, r, k) /\ runs[r] # Nothing
  /\ WentOn(runs[r], exec[p][r][k], runs'[r], exec'[p][r][k])
  /\ Elsewhere(p, r, k)
  /\ active' = [active EXCEPT ![p] = IF Returned(exec'[p][r][k]) THEN @ \ {r} ELSE @]
  /\ UNCHANGED <<overlapped, crashes>>

Cancels(r) ==
  /\ runs[r] # Nothing
  /\ runs' = [runs EXCEPT ![r].status = "aborted"]
  /\ UNCHANGED <<exec, active, overlapped, crashes>>

Crashes(p) ==
  /\ exec' = [exec EXCEPT ![p] = [r \in Runs |-> [k \in Slots |-> Nothing]]]
  /\ active' = [active EXCEPT ![p] = {}]
  /\ crashes' = crashes + 1
  /\ UNCHANGED <<runs, overlapped>>

Rests ==
  /\ \A q \in Procs, s \in Runs, l \in Slots : Alike(exec[q][s][l], exec'[q][s][l])
  /\ UNCHANGED <<runs, active, overlapped, crashes>>

Kinds ==
  \/ \E p \in Procs, r \in Runs, k \in Slots : Launches(p, r, k) \/ WorksOn(p, r, k)
  \/ \E r \in Runs : Cancels(r)
  \/ \E p \in Procs : Crashes(p)
  \/ Rests

(* No execution begins or stops to be a subflow's, or to wait for one.     *)
SameChildren ==
  /\ \A s \in Runs : runs[s] # Nothing => runs'[s] # Nothing
  /\ \A q \in Procs, s \in Runs, l \in Slots :
       /\ exec'[q][s][l] # Nothing /\ exec'[q][s][l].joined
            <=> exec[q][s][l] # Nothing /\ exec[q][s][l].joined
       /\ exec'[q][s][l] # Nothing /\ exec'[q][s][l].at = "flow"
            => exec'[q][s][l] = exec[q][s][l]

(* An execution is launched, for nobody that waits for it.                 *)
LEMMA LaunchDoes ==
  ASSUME TypeInv, NEW p \in up, NEW r \in Runs, NEW base, Bases(r, base),
         Launch(p, r, base, FALSE, 0), UNCHANGED <<up, crashes>>
  PROVE  /\ DataInv' /\ SameChildren
         /\ \E k \in Slots : Launches(p, r, k)
         /\ active' \in [Procs -> SUBSET {s \in Runs : runs'[s] # Nothing}]
         /\ overlapped' \subseteq Runs
<1>1. /\ p \in Procs /\ up \subseteq Procs /\ MaxDepth \in Nat
      /\ runs \in [Runs -> RunRec \cup {Nothing}]
      /\ exec \in Tables
      /\ active \in [Procs -> SUBSET {s \in Runs : runs[s] # Nothing}]
      /\ overlapped \subseteq Runs
  BY WorkflowAssumption DEF TypeInv, DataInv, ControlInv
<1>2. PICK k \in Slots, res \in Begin(base, FALSE, 0) :
        /\ exec[p][r][k] = Nothing
        /\ runs' = [runs EXCEPT ![r] = res.run]
        /\ exec' = [exec EXCEPT ![p][r][k] = res.exec]
        /\ Enter(p, r, res.exec)
        /\ overlapped' = IF Live(r) THEN overlapped \cup {r} ELSE overlapped
  BY DEF Launch
<1>3. RunOK(base) /\ (runs[r] # Nothing => base.flow = runs[r].flow)
  BY DEF Bases, Reopens
<1>4. Begun(base, FALSE, res.run, res.exec)
  <2>1. FALSE \in BOOLEAN /\ 0 \in 0..MaxDepth
    BY <1>1
  <2> QED BY <1>2, <1>3, <2>1, BeginBegins
<1>5. /\ RunOK(res.run) /\ res.run.flow = base.flow
      /\ res.exec # Nothing => InPlace(res.run, res.exec) /\ ~res.exec.joined
                               /\ res.exec.at # "flow"
  BY <1>4 DEF Begun, FirstPhases
<1>6. res.run \in RunRec /\ res.exec \in ExecRec \cup {Nothing}
  BY <1>5 DEF RunOK, InPlace, AtStep
<1>7. /\ runs' \in [Runs -> RunRec \cup {Nothing}] /\ runs'[r] = res.run
      /\ \A s \in Runs : s # r => runs'[s] = runs[s]
  BY <1>1, <1>2, <1>6
<1>8. /\ exec' \in Tables /\ exec'[p][r][k] = res.exec
      /\ \A q \in Procs, s \in Runs, l \in Slots :
           ~(q = p /\ s = r /\ l = k) => exec'[q][s][l] = exec[q][s][l]
  <2>1. exec' = Put(exec, p, r, k, res.exec)
    BY <1>2 DEF Put
  <2> QED BY <1>1, <1>6, <2>1, PutShape
<1>9. DataInv' /\ \A s \in Runs : runs[s] # Nothing => runs'[s] # Nothing
  <2>1. \A s \in Runs :
          \/ runs'[s] = runs[s]
          \/ RunOK(runs'[s]) /\ (runs[s] # Nothing => runs'[s].flow = runs[s].flow)
    BY <1>3, <1>5, <1>7
  <2>2. \A q \in Procs, s \in Runs, l \in Slots :
          \/ exec'[q][s][l] = exec[q][s][l]
          \/ exec'[q][s][l] = Nothing
          \/ q \in up' /\ RunOK(runs'[s]) /\ InPlace(runs'[s], exec'[q][s][l])
    BY <1>5, <1>7, <1>8
  <2> QED BY <1>1, <1>7, <1>8, <2>1, <2>2, DataStep DEF TypeInv
<1>10. SameChildren
  BY <1>2, <1>5, <1>8, <1>9 DEF SameChildren
<1>11. Launches(p, r, k)
  <2>1. Elsewhere(p, r, k)
    BY <1>7, <1>8 DEF Elsewhere, Alike
  <2> QED BY <1>2, <1>4, <1>7, <1>8, <2>1 DEF Launches, Enter
<1>12. active' \in [Procs -> SUBSET {s \in Runs : runs'[s] # Nothing}]
  <2>1. runs'[r] # Nothing
    BY <1>6, <1>7, Untyped
  <2> QED BY <1>1, <1>2, <1>9, <2>1 DEF Enter
<1>13. overlapped' \subseteq Runs
  BY <1>1, <1>2
<1> QED BY <1>9, <1>10, <1>11, <1>12, <1>13

(* An execution goes on to one of its results.                             *)
LEMMA StepDoes ==
  ASSUME TypeInv, NEW p \in Procs, NEW r \in Runs, NEW k \in Slots,
         Working(p, r, k), NEW results, Step(p, r, k, results),
         \A res \in results : WentOn(runs[r], exec[p][r][k], res.run, res.exec),
         UNCHANGED <<up, overlapped, crashes>>
  PROVE  /\ DataInv' /\ SameChildren
         /\ WorksOn(p, r, k)
         /\ active' \in [Procs -> SUBSET {s \in Runs : runs'[s] # Nothing}]
<1> DEFINE e == exec[p][r][k]
<1>1. /\ up \subseteq Procs /\ MaxDepth \in Nat
      /\ runs \in [Runs -> RunRec \cup {Nothing}]
      /\ exec \in Tables
      /\ active \in [Procs -> SUBSET {s \in Runs : runs[s] # Nothing}]
  BY WorkflowAssumption DEF TypeInv, DataInv, ControlInv
<1>2. PICK res \in results :
        /\ runs' = [runs EXCEPT ![r] = res.run]
        /\ exec' = [exec EXCEPT ![p][r][k] = res.exec]
        /\ Leave(p, r, res.exec)
  BY DEF Step
<1>3. e # Nothing /\ runs[r] # Nothing /\ p \in up /\ InPlace(runs[r], e)
  BY DEF TypeInv, DataInv, Working, Returned
<1>4. WentOn(runs[r], e, res.run, res.exec)
  BY <1>2
<1>5. /\ RunOK(res.run) /\ res.run.flow = runs[r].flow
      /\ res.exec = Nothing => ~e.joined
      /\ res.exec # Nothing => InPlace(res.run, res.exec) /\ res.exec.joined = e.joined
                               /\ res.exec.at # "flow"
  BY <1>4 DEF WentOn, Follows, FirstPhases
<1>6. res.run \in RunRec /\ res.exec \in ExecRec \cup {Nothing}
  BY <1>5 DEF RunOK, InPlace, AtStep
<1>7. /\ runs' \in [Runs -> RunRec \cup {Nothing}] /\ runs'[r] = res.run
      /\ \A s \in Runs : s # r => runs'[s] = runs[s]
  BY <1>1, <1>2, <1>6
<1>8. /\ exec' \in Tables /\ exec'[p][r][k] = res.exec
      /\ \A q \in Procs, s \in Runs, l \in Slots :
           ~(q = p /\ s = r /\ l = k) => exec'[q][s][l] = exec[q][s][l]
  <2>1. exec' = Put(exec, p, r, k, res.exec)
    BY <1>2 DEF Put
  <2> QED BY <1>1, <1>6, <2>1, PutShape
<1>9. DataInv' /\ \A s \in Runs : runs[s] # Nothing => runs'[s] # Nothing
  <2>1. \A s \in Runs :
          \/ runs'[s] = runs[s]
          \/ RunOK(runs'[s]) /\ (runs[s] # Nothing => runs'[s].flow = runs[s].flow)
    BY <1>5, <1>7
  <2>2. \A q \in Procs, s \in Runs, l \in Slots :
          \/ exec'[q][s][l] = exec[q][s][l]
          \/ exec'[q][s][l] = Nothing
          \/ q \in up' /\ RunOK(runs'[s]) /\ InPlace(runs'[s], exec'[q][s][l])
    BY <1>3, <1>5, <1>7, <1>8
  <2> QED BY <1>1, <1>7, <1>8, <2>1, <2>2, DataStep DEF TypeInv
<1>10. SameChildren
  BY <1>3, <1>5, <1>8, <1>9 DEF SameChildren
<1>11. WorksOn(p, r, k)
  <2>1. Elsewhere(p, r, k)
    BY <1>7, <1>8 DEF Elsewhere, Alike
  <2> QED BY <1>2, <1>3, <1>4, <1>7, <1>8, <2>1 DEF WorksOn, Leave
<1>12. active' \in [Procs -> SUBSET {s \in Runs : runs'[s] # Nothing}]
  BY <1>1, <1>2, <1>9 DEF Leave
<1> QED BY <1>9, <1>10, <1>11, <1>12

(* A step that ends badly, and one that may end either way.                *)
LEMMA ErrsDoes ==
  ASSUME TypeInv, NEW p \in Procs, NEW r \in Runs, NEW k \in Slots,
         Working(p, r, k), Errs(p, r, k) \/ Ends(p, r, k),
         UNCHANGED <<up, overlapped, crashes>>
  PROVE  /\ DataInv' /\ SameChildren
         /\ WorksOn(p, r, k)
         /\ active' \in [Procs -> SUBSET {s \in Runs : runs'[s] # Nothing}]
<1> DEFINE e == exec[p][r][k]
<1>1. RunOK(runs[r]) /\ AtStep(runs[r], e) /\ ~Returned(e)
  BY DEF TypeInv, DataInv, Working, Returned, InPlace
<1>2. \A res \in StepSucceeds(runs[r], e) \cup StepFails(runs[r], e) :
        WentOn(runs[r], e, res.run, res.exec)
  BY <1>1, SuccessGoesOn, FailureGoesOn
<1>3. \A res \in StepFails(runs[r], e) : WentOn(runs[r], e, res.run, res.exec)
  BY <1>2
<1>4. CASE Errs(p, r, k)
  <2>1. Step(p, r, k, StepFails(runs[r], e))
    BY <1>4 DEF Errs
  <2> QED BY <1>3, <2>1, StepDoes
<1>5. CASE Ends(p, r, k)
  <2>1. Step(p, r, k, StepSucceeds(runs[r], e) \cup StepFails(runs[r], e))
    BY <1>5 DEF Ends
  <2> QED BY <1>2, <2>1, StepDoes
<1> QED BY <1>4, <1>5

(* An execution enters its next phase.                                     *)
LEMMA GoesDoes ==
  ASSUME TypeInv, NEW p \in Procs, NEW r \in Runs, NEW k \in Slots,
         NEW phase \in {"poll", "start", "prompt", "answer"},
         Working(p, r, k), Goes(p, r, k, phase),
         UNCHANGED <<up, overlapped, crashes>>
  PROVE  /\ DataInv' /\ SameChildren /\ Rests
         /\ active' \in [Procs -> SUBSET {s \in Runs : runs'[s] # Nothing}]
<1> DEFINE e == exec[p][r][k]
           e2 == [e EXCEPT !.at = phase]
<1>1. /\ up \subseteq Procs
      /\ runs \in [Runs -> RunRec \cup {Nothing}]
      /\ exec \in Tables
      /\ active \in [Procs -> SUBSET {s \in Runs : runs[s] # Nothing}]
  BY DEF TypeInv, DataInv, ControlInv
<1>2. /\ e # Nothing /\ p \in up /\ RunOK(runs[r]) /\ InPlace(runs[r], e) /\ ~Returned(e)
  BY DEF TypeInv, DataInv, Working, Returned
<1>3. /\ e2 \in ExecRec /\ e2.at = phase /\ e2.step = e.step /\ e2.try = e.try
      /\ e2.joined = e.joined
  BY <1>2 DEF InPlace, AtStep, ExecRec, Phase
<1>4. exec' = Put(exec, p, r, k, e2) /\ UNCHANGED <<runs, active>>
  BY <1>1 DEF Goes, Put, Tables
<1> HIDE DEF e2
<1>5. InPlace(runs[r], e2) /\ e2 # Nothing /\ ~Returned(e2)
  BY <1>2, <1>3, Untyped DEF InPlace, AtStep, Returned
<1>6. /\ exec' \in Tables /\ exec'[p][r][k] = e2
      /\ \A q \in Procs, s \in Runs, l \in Slots :
           ~(q = p /\ s = r /\ l = k) => exec'[q][s][l] = exec[q][s][l]
  BY <1>1, <1>3, <1>4, PutShape
<1>7. DataInv'
  <2>1. \A q \in Procs, s \in Runs, l \in Slots :
          \/ exec'[q][s][l] = exec[q][s][l]
          \/ exec'[q][s][l] = Nothing
          \/ q \in up' /\ RunOK(runs'[s]) /\ InPlace(runs'[s], exec'[q][s][l])
    BY <1>2, <1>4, <1>5, <1>6
  <2> QED BY <1>1, <1>4, <1>6, <2>1, DataStep DEF TypeInv
<1>8. SameChildren
  BY <1>2, <1>3, <1>4, <1>5, <1>6 DEF SameChildren
<1>9. Rests
  BY <1>2, <1>3, <1>4, <1>5, <1>6 DEF Rests, Alike
<1> QED BY <1>1, <1>4, <1>7, <1>8, <1>9

(* A subflow is launched in slot j of the new run c, for the step that now *)
(* waits for it.                                                           *)
Spawns(p, r, k, c, j) ==
  /\ runs[c] = Nothing /\ exec[p][r][k] # Nothing
  /\ \A s \in Runs : runs[s] # Nothing => runs'[s] # Nothing
  /\ runs'[c] # Nothing /\ c # r
  /\ exec'[p][c][j] # Nothing /\ exec'[p][c][j].joined /\ exec'[p][c][j].at # "flow"
  /\ exec'[p][r][k] # Nothing /\ exec'[p][r][k].at = "flow" /\ exec'[p][r][k].child = c
  /\ exec'[p][r][k].joined = exec[p][r][k].joined
  /\ \A q \in Procs, s \in Runs, l \in Slots :
       ~(q = p /\ s = r /\ l = k) /\ ~(q = p /\ s = c /\ l = j)
         => exec'[q][s][l] = exec[q][s][l]

(* The step no longer waits, and its subflow's execution is gone.          *)
Joins(p, r, k, c, j) ==
  /\ exec[p][r][k] # Nothing /\ exec[p][r][k].at = "flow" /\ exec[p][r][k].child = c
  /\ exec[p][c][j] # Nothing /\ exec[p][c][j].at = "done"
  /\ \A s \in Runs : runs[s] # Nothing => runs'[s] # Nothing
  /\ exec'[p][c][j] = Nothing
  /\ exec'[p][r][k] = Nothing => ~exec[p][r][k].joined
  /\ exec'[p][r][k] # Nothing => /\ exec'[p][r][k].joined = exec[p][r][k].joined
                                 /\ exec'[p][r][k].at # "flow"
  /\ \A q \in Procs, s \in Runs, l \in Slots :
       ~(q = p /\ s = r /\ l = k) /\ ~(q = p /\ s = c /\ l = j)
         => exec'[q][s][l] = exec[q][s][l]

ChildKinds ==
  \/ SameChildren
  \/ \E p \in Procs, r, c \in Runs, k, j \in Slots :
       Spawns(p, r, k, c, j) \/ Joins(p, r, k, c, j)
  \/ \E p \in Procs : Crashes(p)

LEMMA SpawnDoes ==
  ASSUME TypeInv, NEW p \in Procs, NEW r \in Runs, NEW k \in Slots, Spawn(p, r, k)
  PROVE  /\ DataInv' /\ ChildKinds /\ Kinds
         /\ active' \in [Procs -> SUBSET {s \in Runs : runs'[s] # Nothing}]
<1> DEFINE e == exec[p][r][k]
           f == Steps(runs[r])[e.step].flow
<1>1. /\ up \subseteq Procs /\ MaxDepth \in Nat
      /\ runs \in [Runs -> RunRec \cup {Nothing}]
      /\ exec \in Tables
      /\ active \in [Procs -> SUBSET {s \in Runs : runs[s] # Nothing}]
  BY WorkflowAssumption DEF TypeInv, DataInv, ControlInv
<1>2. e # Nothing /\ e.at = "spawn" /\ UNCHANGED <<up, overlapped, crashes>>
  BY DEF Spawn, At, Quiet, spent
<1>3. /\ runs[r] # Nothing /\ p \in up /\ RunOK(runs[r]) /\ InPlace(runs[r], e)
      /\ ~Returned(e) /\ Working(p, r, k)
  BY <1>2 DEF TypeInv, DataInv, Returned, Working
<1>4. CASE Errs(p, r, k)
  BY <1>2, <1>3, <1>4, ErrsDoes DEF ChildKinds, Kinds
<1>5. CASE ~Errs(p, r, k)
  <2>1. PICK c \in Runs, j \in Slots, res \in Begin(NewRun(f), TRUE, e.depth + 1) :
          /\ MayNest(e) /\ f # Nothing
          /\ Fresh(c) /\ exec[p][c][j] = Nothing
          /\ runs' = [runs EXCEPT ![c] = res.run]
          /\ exec' = [exec EXCEPT ![p][c][j] = res.exec,
                                  ![p][r][k] = [e EXCEPT !.at = "flow", !.child = c]]
          /\ Enter(p, c, res.exec)
    BY <1>5 DEF Spawn
  <2>2. f \in Flows /\ e \in ExecRec
    <3>1. e \in ExecRec /\ Steps(runs[r])[e.step] \in StepDef
      BY <1>2, <1>3, RunType DEF InPlace, AtStep
    <3> QED BY <2>1, <3>1 DEF StepDef
  <2> DEFINE base == NewRun(f)
             e2 == [e EXCEPT !.at = "flow", !.child = c]
  <2>3. RunOK(base) /\ ApprovedRun(base) /\ InOrder(base)
    BY <2>2, NewRunFits
  <2>4. TRUE \in BOOLEAN /\ e.depth + 1 \in 0..MaxDepth
    BY <1>1, <2>1, <2>2 DEF MayNest, ExecRec
  <2> HIDE DEF base
  <2>5. Begun(base, TRUE, res.run, res.exec)
    BY <2>1, <2>3, <2>4, BeginBegins DEF base
  <2>6. /\ RunOK(res.run) /\ res.exec # Nothing /\ InPlace(res.run, res.exec)
        /\ res.exec.joined = TRUE /\ res.exec.at # "flow"
    BY <2>5 DEF Begun, FirstPhases
  <2>7. /\ e2 \in ExecRec /\ e2.at = "flow" /\ e2.child = c /\ e2.joined = e.joined
        /\ e2.step = e.step /\ e2.try = e.try
    BY <2>2 DEF ExecRec, Phase
  <2>8. exec' = Put(Put(exec, p, c, j, res.exec), p, r, k, e2)
    BY <2>1 DEF Put
  <2> HIDE DEF e2
  <2>9. e2 # Nothing /\ InPlace(runs[r], e2) /\ ~Returned(e2)
    BY <1>2, <1>3, <2>7, Untyped DEF InPlace, AtStep, Returned
  <2>10. /\ runs[c] = Nothing /\ c # r
         /\ \A q \in Procs, l \in Slots : exec[q][c][l] = Nothing
    BY <1>3, <2>1 DEF Fresh, TypeInv, DataInv
  <2>11. res.run \in RunRec /\ res.exec \in ExecRec
    BY <2>6 DEF RunOK, InPlace, AtStep
  <2>12. /\ runs' \in [Runs -> RunRec \cup {Nothing}] /\ runs'[c] = res.run
         /\ \A s \in Runs : s # c => runs'[s] = runs[s]
    BY <1>1, <2>1, <2>11
  <2>13. /\ exec' \in Tables /\ exec'[p][c][j] = res.exec /\ exec'[p][r][k] = e2
         /\ \A q \in Procs, s \in Runs, l \in Slots :
              ~(q = p /\ s = r /\ l = k) /\ ~(q = p /\ s = c /\ l = j)
                => exec'[q][s][l] = exec[q][s][l]
    <3> DEFINE mid == Put(exec, p, c, j, res.exec)
    <3>1. /\ mid \in Tables /\ mid[p][c][j] = res.exec
          /\ \A q \in Procs, s \in Runs, l \in Slots :
               ~(q = p /\ s = c /\ l = j) => mid[q][s][l] = exec[q][s][l]
      BY <1>1, <2>11, PutShape
    <3> HIDE DEF mid
    <3>2. exec' = Put(mid, p, r, k, e2)
      BY <2>8 DEF mid
    <3>3. /\ exec' \in Tables /\ exec'[p][r][k] = e2
          /\ \A q \in Procs, s \in Runs, l \in Slots :
               ~(q = p /\ s = r /\ l = k) => exec'[q][s][l] = mid[q][s][l]
      BY <2>7, <3>1, <3>2, PutShape
    <3> QED BY <2>10, <3>1, <3>3
  <2>14. DataInv' /\ \A s \in Runs : runs[s] # Nothing => runs'[s] # Nothing
    <3>1. \A s \in Runs :
            \/ runs'[s] = runs[s]
            \/ RunOK(runs'[s]) /\ (runs[s] # Nothing => runs'[s].flow = runs[s].flow)
      BY <2>6, <2>10, <2>12
    <3>2. \A q \in Procs, s \in Runs, l \in Slots :
            \/ exec'[q][s][l] = exec[q][s][l]
            \/ exec'[q][s][l] = Nothing
            \/ q \in up' /\ RunOK(runs'[s]) /\ InPlace(runs'[s], exec'[q][s][l])
      BY <1>2, <1>3, <2>6, <2>9, <2>10, <2>12, <2>13
    <3> QED BY <1>1, <1>2, <2>12, <2>13, <3>1, <3>2, DataStep DEF TypeInv
  <2>15. runs'[c] # Nothing
    BY <2>11, <2>12, Untyped
  <2>16. Spawns(p, r, k, c, j)
    BY <1>2, <2>6, <2>7, <2>9, <2>10, <2>13, <2>14, <2>15 DEF Spawns
  <2>17. Launches(p, c, j)
    <3>1. ~Live(c)
      BY <2>10 DEF Live, LiveIn, Working, Returned
    <3>2. Elsewhere(p, c, j)
      BY <1>3, <2>7, <2>9, <2>10, <2>12, <2>13 DEF Elsewhere, Alike
    <3>3. Bases(c, base)
      BY <2>3, <2>10, <3>1 DEF Bases
    <3> QED BY <1>2, <2>1, <2>5, <2>10, <2>12, <2>13, <3>1, <3>2, <3>3
            DEF Launches, Enter
  <2>18. active' \in [Procs -> SUBSET {s \in Runs : runs'[s] # Nothing}]
    BY <1>1, <2>1, <2>14, <2>15 DEF Enter
  <2> QED BY <2>14, <2>16, <2>17, <2>18 DEF ChildKinds, Kinds
<1> QED BY <1>4, <1>5

LEMMA JoinDoes ==
  ASSUME TypeInv, NEW p \in Procs, NEW r \in Runs, NEW k \in Slots, Join(p, r, k)
  PROVE  /\ DataInv' /\ ChildKinds /\ Kinds
         /\ active' \in [Procs -> SUBSET {s \in Runs : runs'[s] # Nothing}]
<1> DEFINE e == exec[p][r][k]
           c == e.child
           e0 == [e EXCEPT !.child = Nothing]
<1>1. /\ up \subseteq Procs
      /\ runs \in [Runs -> RunRec \cup {Nothing}]
      /\ exec \in Tables
      /\ active \in [Procs -> SUBSET {s \in Runs : runs[s] # Nothing}]
  BY DEF TypeInv, DataInv, ControlInv
<1>2. e # Nothing /\ e.at = "flow" /\ UNCHANGED <<up, overlapped, crashes>>
  BY DEF Join, At, Quiet, spent
<1>3. /\ runs[r] # Nothing /\ p \in up /\ RunOK(runs[r]) /\ InPlace(runs[r], e)
      /\ ~Returned(e) /\ Working(p, r, k) /\ c \in Runs /\ e \in ExecRec
  BY <1>2 DEF TypeInv, DataInv, Returned, Working, InPlace, AtStep
<1>4. PICK j \in Slots, res \in StepSucceeds(runs[r], e0) \cup StepFails(runs[r], e0) :
        /\ exec[p][c][j] # Nothing /\ exec[p][c][j].at = "done"
        /\ runs' = [runs EXCEPT ![r] = res.run]
        /\ exec' = [exec EXCEPT ![p][c][j] = Nothing, ![p][r][k] = res.exec]
        /\ Leave(p, r, res.exec)
  BY DEF Join, At
<1>5. /\ e0 \in ExecRec /\ e0.at = e.at /\ e0.step = e.step /\ e0.try = e.try
      /\ e0.joined = e.joined
  BY <1>3 DEF ExecRec
<1> HIDE DEF e0
<1>6. AtStep(runs[r], e0) /\ ~Returned(e0)
  BY <1>2, <1>3, <1>5, Untyped DEF InPlace, AtStep, Returned
<1>7. WentOn(runs[r], e0, res.run, res.exec)
  BY <1>3, <1>4, <1>6, SuccessGoesOn, FailureGoesOn
<1>8. WentOn(runs[r], e, res.run, res.exec)
  BY <1>3, <1>5, <1>6, <1>7 DEF WentOn, Follows, OnCourse
<1>9. /\ RunOK(res.run) /\ res.run.flow = runs[r].flow
      /\ res.exec = Nothing => ~e.joined
      /\ res.exec # Nothing => InPlace(res.run, res.exec) /\ res.exec.joined = e.joined
                               /\ res.exec.at # "flow"
  BY <1>8 DEF WentOn, Follows, FirstPhases
<1>10. res.run \in RunRec /\ res.exec \in ExecRec \cup {Nothing}
  BY <1>9 DEF RunOK, InPlace, AtStep
<1>11. ~(c = r /\ j = k)
  BY <1>2, <1>4
<1>12. /\ runs' \in [Runs -> RunRec \cup {Nothing}] /\ runs'[r] = res.run
       /\ \A s \in Runs : s # r => runs'[s] = runs[s]
  BY <1>1, <1>4, <1>10
<1>13. /\ exec' \in Tables /\ exec'[p][c][j] = Nothing /\ exec'[p][r][k] = res.exec
       /\ \A q \in Procs, s \in Runs, l \in Slots :
            ~(q = p /\ s = r /\ l = k) /\ ~(q = p /\ s = c /\ l = j)
              => exec'[q][s][l] = exec[q][s][l]
  <2> DEFINE mid == Put(exec, p, c, j, Nothing)
  <2>1. /\ mid \in Tables /\ mid[p][c][j] = Nothing
        /\ \A q \in Procs, s \in Runs, l \in Slots :
             ~(q = p /\ s = c /\ l = j) => mid[q][s][l] = exec[q][s][l]
    <3>1. Nothing \in ExecRec \cup {Nothing} /\ c \in Runs
      BY <1>3
    <3> HIDE DEF c
    <3> QED BY <1>1, <3>1, PutShape
  <2>2. exec' = Put(mid, p, r, k, res.exec)
    BY <1>4 DEF Put
  <2> HIDE DEF mid
  <2>3. /\ exec' \in Tables /\ exec'[p][r][k] = res.exec
        /\ \A q \in Procs, s \in Runs, l \in Slots :
             ~(q = p /\ s = r /\ l = k) => exec'[q][s][l] = mid[q][s][l]
    BY <1>10, <2>1, <2>2, PutShape
  <2> QED BY <1>3, <1>11, <2>1, <2>3
<1>14. DataInv' /\ \A s \in Runs : runs[s] # Nothing => runs'[s] # Nothing
  <2>1. \A s \in Runs :
          \/ runs'[s] = runs[s]
          \/ RunOK(runs'[s]) /\ (runs[s] # Nothing => runs'[s].flow = runs[s].flow)
    BY <1>9, <1>12
  <2>2. \A q \in Procs, s \in Runs, l \in Slots :
          \/ exec'[q][s][l] = exec[q][s][l]
          \/ exec'[q][s][l] = Nothing
          \/ q \in up' /\ RunOK(runs'[s]) /\ InPlace(runs'[s], exec'[q][s][l])
    BY <1>2, <1>3, <1>9, <1>12, <1>13
  <2> QED BY <1>1, <1>2, <1>12, <1>13, <2>1, <2>2, DataStep DEF TypeInv
<1>15. Joins(p, r, k, c, j)
  BY <1>2, <1>4, <1>9, <1>13, <1>14 DEF Joins
<1>16. WorksOn(p, r, k)
  <2>1. Elsewhere(p, r, k)
    <3>1. ASSUME NEW q \in Procs, NEW s \in Runs, NEW l \in Slots,
                 ~(q = p /\ s = r /\ l = k)
          PROVE  Alike(exec[q][s][l], exec'[q][s][l])
      <4>1. CASE q = p /\ s = c /\ l = j
        <5>1. Returned(exec[p][c][j]) /\ Returned(exec'[p][c][j])
          BY <1>4, <1>13 DEF Returned
        <5> QED BY <4>1, <5>1 DEF Alike
      <4>2. CASE ~(q = p /\ s = c /\ l = j)
        <5>1. exec'[q][s][l] = exec[q][s][l]
          BY <1>13, <3>1, <4>2
        <5> QED BY <5>1 DEF Alike
      <4> QED BY <4>1, <4>2
    <3> QED BY <1>12, <3>1 DEF Elsewhere
  <2> QED BY <1>2, <1>3, <1>4, <1>8, <1>12, <1>13, <2>1 DEF WorksOn, Leave
<1>17. active' \in [Procs -> SUBSET {s \in Runs : runs'[s] # Nothing}]
  BY <1>1, <1>4, <1>14 DEF Leave
<1> QED BY <1>3, <1>14, <1>15, <1>16, <1>17 DEF ChildKinds, Kinds

LEMMA InitTypes == Init => TypeInv
<1> SUFFICES ASSUME Init PROVE TypeInv
  OBVIOUS
<1>1. DataInv
  BY DEF Init, DataInv, Tables
<1>2. ControlInv
  BY WorkflowAssumption DEF Init, ControlInv, Found
<1> QED BY <1>1, <1>2 DEF TypeInv

LEMMA CommandCounts ==
  ASSUME TypeInv, Command
  PROVE  commands' \in 0..MaxCommands /\ crashes' = crashes /\ others' = others
BY WorkflowAssumption DEF TypeInv, ControlInv, Command

(* Queueing, resuming, rerunning and recovering a run launch it.           *)
LEMMA LaunchStep ==
  ASSUME TypeInv, NEW p \in Procs, NEW r \in Runs,
         \/ \E f \in Flows : Queue(p, r, f)
         \/ Resume(p, r) \/ Rerun(p, r) \/ Recover(p, r)
  PROVE  TypeInv' /\ Kinds /\ ChildKinds
<1> USE DEF TypeInv
<1>1. ASSUME NEW base, Bases(r, base), Launch(p, r, base, FALSE, 0), p \in up,
             UNCHANGED <<up, session, aborting, crashes, others>>,
             toRecover' \in [Procs -> SUBSET Runs], commands' \in 0..MaxCommands
      PROVE  TypeInv' /\ Kinds /\ ChildKinds
  <2>1. /\ DataInv' /\ SameChildren
        /\ \E k \in Slots : Launches(p, r, k)
        /\ active' \in [Procs -> SUBSET {s \in Runs : runs'[s] # Nothing}]
        /\ overlapped' \subseteq Runs
    BY <1>1, LaunchDoes
  <2>2. ControlInv'
    BY <1>1, <2>1 DEF ControlInv
  <2> QED BY <2>1, <2>2 DEF Kinds, ChildKinds
<1>2. runs[r] # Nothing => RunOK(runs[r])
  BY DEF DataInv
<1>3. toRecover \in [Procs -> SUBSET Runs]
  BY DEF ControlInv
<1>4. ASSUME NEW f \in Flows, Queue(p, r, f)
      PROVE  TypeInv' /\ Kinds /\ ChildKinds
  <2>1. /\ p \in up /\ Fresh(r) /\ Command /\ Launch(p, r, NewRun(f), FALSE, 0)
        /\ UNCHANGED <<up, toRecover, session, aborting>>
    BY <1>4 DEF Queue
  <2>2. RunOK(NewRun(f)) /\ ApprovedRun(NewRun(f)) /\ InOrder(NewRun(f))
    BY NewRunFits
  <2>3. runs[r] = Nothing /\ ~Live(r)
    BY <2>1 DEF Fresh, DataInv, Live, LiveIn, Working, Returned
  <2>4. Bases(r, NewRun(f))
    BY <2>2, <2>3 DEF Bases
  <2>5. commands' \in 0..MaxCommands /\ crashes' = crashes /\ others' = others
    BY <2>1, CommandCounts
  <2> QED BY <1>1, <1>3, <2>1, <2>4, <2>5
<1>5. ASSUME Resume(p, r)
      PROVE  TypeInv' /\ Kinds /\ ChildKinds
  <2> DEFINE base == [runs[r] EXCEPT !.approved = @ \cup ({runs[r].cur} \cap DOMAIN runs[r].steps)]
  <2>1. /\ p \in up /\ runs[r] # Nothing /\ Command /\ Launch(p, r, base, FALSE, 0)
        /\ UNCHANGED <<up, toRecover, session, aborting>>
    BY <1>5 DEF Resume
  <2>2. Reopens(runs[r], base)
    BY <1>2, <2>1, ResumeReopens
  <2> HIDE DEF base
  <2>3. Bases(r, base)
    BY <2>1, <2>2 DEF Bases
  <2>4. commands' \in 0..MaxCommands /\ crashes' = crashes /\ others' = others
    BY <2>1, CommandCounts
  <2> QED BY <1>1, <1>3, <2>1, <2>3, <2>4
<1>6. ASSUME Rerun(p, r)
      PROVE  TypeInv' /\ Kinds /\ ChildKinds
  <2> DEFINE base == ResetFrom(runs[r], RestartStep(runs[r]))
  <2>1. /\ p \in up /\ runs[r] # Nothing /\ Command /\ Launch(p, r, base, FALSE, 0)
        /\ UNCHANGED <<up, toRecover, session, aborting>>
    BY <1>6 DEF Rerun
  <2>2. Reopens(runs[r], base)
    BY <1>2, <2>1, ResetReopens
  <2>3. Bases(r, base)
    BY <2>1, <2>2 DEF Bases
  <2>4. commands' \in 0..MaxCommands /\ crashes' = crashes /\ others' = others
    BY <2>1, CommandCounts
  <2> QED BY <1>1, <1>3, <2>1, <2>3, <2>4
<1>7. ASSUME Recover(p, r)
      PROVE  TypeInv' /\ Kinds /\ ChildKinds
  <2>1. /\ p \in up /\ toRecover' = [toRecover EXCEPT ![p] = @ \ {r}]
        /\ UNCHANGED <<up, session, aborting, commands, crashes, others>>
    BY <1>7 DEF Recover, spent
  <2>2. toRecover' \in [Procs -> SUBSET Runs] /\ commands' \in 0..MaxCommands
    BY <1>3, <2>1 DEF ControlInv
  <2>3. CASE Running(r) /\ r \notin active[p]
    <3>1. Launch(p, r, runs[r], FALSE, 0) /\ runs[r] # Nothing
      BY <1>7, <2>3 DEF Recover, Running
    <3>2. Bases(r, runs[r])
      BY <1>2, <3>1, AsItIs DEF Bases
    <3> QED BY <1>1, <2>1, <2>2, <3>1, <3>2
  <2>4. CASE ~(Running(r) /\ r \notin active[p])
    <3>1. UNCHANGED <<runs, exec, active, overlapped>>
      BY <1>7, <2>4 DEF Recover
    <3>2. DataInv'
      BY <2>1, <3>1 DEF DataInv, RunOK, InPlace, AtStep, Steps
    <3>3. ControlInv'
      BY <2>1, <2>2, <3>1 DEF ControlInv
    <3>4. Rests /\ SameChildren
      BY <2>1, <3>1 DEF Rests, Alike, SameChildren
    <3> QED BY <3>2, <3>3, <3>4 DEF Kinds, ChildKinds
  <2> QED BY <2>3, <2>4
<1> QED BY <1>4, <1>5, <1>6, <1>7

(* The work of a step.                                                     *)
LEMMA ProgressStep ==
  ASSUME TypeInv, NEW p \in Procs, NEW r \in Runs, NEW k \in Slots, Progress(p, r, k)
  PROVE  TypeInv' /\ Kinds /\ ChildKinds
<1> USE DEF TypeInv
<1>1. ASSUME DataInv', Kinds, ChildKinds, Quiet,
             active' \in [Procs -> SUBSET {s \in Runs : runs'[s] # Nothing}],
             session' \in [Procs -> {"idle", "other", "cut", "own"}]
      PROVE  TypeInv' /\ Kinds /\ ChildKinds
  <2>1. ControlInv'
    BY <1>1 DEF ControlInv, Quiet, spent
  <2> QED BY <1>1, <2>1
<1>2. session \in [Procs -> {"idle", "other", "cut", "own"}]
  BY DEF ControlInv
<1>3. ASSUME Working(p, r, k), Errs(p, r, k) \/ Ends(p, r, k), Quiet, UNCHANGED session
      PROVE  TypeInv' /\ Kinds /\ ChildKinds
  <2>1. UNCHANGED <<up, overlapped, crashes>>
    BY <1>3 DEF Quiet, spent
  <2>2. /\ DataInv' /\ SameChildren /\ WorksOn(p, r, k)
        /\ active' \in [Procs -> SUBSET {s \in Runs : runs'[s] # Nothing}]
    BY <1>3, <2>1, ErrsDoes
  <2> QED BY <1>1, <1>2, <1>3, <2>2 DEF Kinds, ChildKinds
<1>4. ASSUME NEW phase \in {"poll", "start", "prompt", "answer"}, Working(p, r, k),
             Goes(p, r, k, phase), Quiet,
             session' \in [Procs -> {"idle", "other", "cut", "own"}]
      PROVE  TypeInv' /\ Kinds /\ ChildKinds
  <2>1. UNCHANGED <<up, overlapped, crashes>>
    BY <1>4 DEF Quiet, spent
  <2>2. /\ DataInv' /\ SameChildren /\ Rests
        /\ active' \in [Procs -> SUBSET {s \in Runs : runs'[s] # Nothing}]
    BY <1>4, <2>1, GoesDoes
  <2> QED BY <1>1, <1>4, <2>2 DEF Kinds, ChildKinds
<1>5. \A phase \in Phase \ {"done"} : At(p, r, k, phase) => Working(p, r, k)
  BY DEF At, Working, Returned
<1>6. CASE SwitchSession(p, r, k)
  <2>1. /\ Working(p, r, k) /\ Quiet /\ UNCHANGED session
        /\ Goes(p, r, k, "poll") \/ Errs(p, r, k)
    BY <1>5, <1>6 DEF SwitchSession, Phase
  <2> QED BY <1>2, <1>3, <1>4, <2>1
<1>7. CASE Poll(p, r, k)
  <2>1. /\ Working(p, r, k) /\ Quiet /\ UNCHANGED session
        /\ Goes(p, r, k, "start") \/ Errs(p, r, k)
    BY <1>5, <1>7 DEF Poll, Phase
  <2> QED BY <1>2, <1>3, <1>4, <2>1
<1>8. CASE StartPrompt(p, r, k)
  <2>1. /\ Working(p, r, k) /\ Quiet
        /\ \/ session' = [session EXCEPT ![p] = "own"] /\ Goes(p, r, k, "prompt")
           \/ Errs(p, r, k) /\ UNCHANGED session
    BY <1>5, <1>8 DEF StartPrompt, Phase
  <2> QED BY <1>2, <1>3, <1>4, <2>1
<1>9. CASE EndTurn(p, r, k)
  <2>1. /\ Working(p, r, k) /\ Quiet
        /\ session' = [session EXCEPT ![p] = "idle"] /\ Goes(p, r, k, "answer")
    BY <1>5, <1>9 DEF EndTurn, Phase
  <2> QED BY <1>2, <1>4, <2>1
<1>10. CASE Answer(p, r, k)
  <2>1. Working(p, r, k) /\ Ends(p, r, k) /\ Quiet /\ UNCHANGED session
    BY <1>5, <1>10 DEF Answer, Phase
  <2> QED BY <1>3, <2>1
<1>11. CASE Spawn(p, r, k)
  <2>1. Quiet /\ UNCHANGED session
    BY <1>11 DEF Spawn
  <2> QED BY <1>1, <1>2, <1>11, <2>1, SpawnDoes
<1>12. CASE Join(p, r, k)
  <2>1. Quiet /\ UNCHANGED session
    BY <1>12 DEF Join
  <2> QED BY <1>1, <1>2, <1>12, <2>1, JoinDoes
<1>13. CASE Retry(p, r, k)
  <2> DEFINE e == exec[p][r][k]
             results == {StartAttempt(runs[r], e, e.step, e.try + 1)}
  <2>1. /\ At(p, r, k, "delay") /\ Working(p, r, k) /\ Step(p, r, k, results)
        /\ Quiet /\ UNCHANGED session
    BY <1>5, <1>13 DEF Retry, Phase
  <2>2. e # Nothing /\ e.at = "delay" /\ RunOK(runs[r]) /\ InPlace(runs[r], e)
    BY <2>1 DEF At, DataInv
  <2>3. \A res \in results : WentOn(runs[r], e, res.run, res.exec)
    BY <2>2, RetryGoesOn
  <2>4. UNCHANGED <<up, overlapped, crashes>>
    BY <2>1 DEF Quiet, spent
  <2> HIDE DEF results
  <2>5. /\ DataInv' /\ SameChildren /\ WorksOn(p, r, k)
        /\ active' \in [Procs -> SUBSET {s \in Runs : runs'[s] # Nothing}]
    BY <2>1, <2>3, <2>4, StepDoes
  <2> QED BY <1>1, <1>2, <2>1, <2>5 DEF Kinds, ChildKinds
<1> QED BY <1>6, <1>7, <1>8, <1>9, <1>10, <1>11, <1>12, <1>13 DEF Progress

LEMMA CancelStep ==
  ASSUME TypeInv, NEW p \in Procs, NEW r \in Runs, Cancel(p, r)
  PROVE  TypeInv' /\ Kinds /\ ChildKinds
<1> USE DEF TypeInv
<1>1. /\ p \in up /\ runs[r] # Nothing /\ Command
      /\ runs' = [runs EXCEPT ![r].status = "aborted"]
      /\ aborting' = [aborting EXCEPT ![p] = @ \/ r \in active[p]]
      /\ UNCHANGED <<exec, active, up, toRecover, session, overlapped>>
  BY DEF Cancel
<1>2. commands' \in 0..MaxCommands /\ crashes' = crashes /\ others' = others
  BY <1>1, CommandCounts
<1> DEFINE run2 == [runs[r] EXCEPT !.status = "aborted"]
<1>3. RunOK(runs[r]) /\ runs[r] \in RunRec
  BY <1>1 DEF DataInv, RunOK
<1>4. /\ run2 \in RunRec /\ run2.flow = runs[r].flow /\ run2.cur = runs[r].cur
      /\ run2.steps = runs[r].steps /\ run2.approved = runs[r].approved
  BY <1>3 DEF RunRec, RunStatus
<1>5. runs' = [runs EXCEPT ![r] = run2]
  BY <1>1
<1> HIDE DEF run2
<1>6. RunOK(run2)
  <2>1. Steps(run2) = Steps(runs[r])
    BY <1>4 DEF Steps
  <2> QED BY <1>3, <1>4, <2>1 DEF RunOK
<1>7. DataInv' /\ \A s \in Runs : runs[s] # Nothing => runs'[s] # Nothing
  <2>1. /\ runs' \in [Runs -> RunRec \cup {Nothing}] /\ runs'[r] = run2
        /\ \A s \in Runs : s # r => runs'[s] = runs[s]
    BY <1>4, <1>5 DEF DataInv
  <2>2. exec' \in Tables /\ up \subseteq up' /\ up' \subseteq Procs
    BY <1>1 DEF DataInv
  <2>3. \A s \in Runs :
          \/ runs'[s] = runs[s]
          \/ RunOK(runs'[s]) /\ (runs[s] # Nothing => runs'[s].flow = runs[s].flow)
    BY <1>4, <1>6, <2>1
  <2>4. \A q \in Procs, s \in Runs, l \in Slots : exec'[q][s][l] = exec[q][s][l]
    BY <1>1
  <2> QED BY <2>1, <2>2, <2>3, <2>4, DataStep
<1>8. ControlInv'
  <2>1. active' \in [Procs -> SUBSET {s \in Runs : runs'[s] # Nothing}]
    BY <1>1, <1>7 DEF ControlInv
  <2>2. aborting' \in [Procs -> BOOLEAN]
    BY <1>1 DEF ControlInv
  <2> QED BY <1>1, <1>2, <2>1, <2>2 DEF ControlInv
<1>9. Cancels(r) /\ SameChildren
  BY <1>1, <1>2, <1>7 DEF Cancels, SameChildren
<1> QED BY <1>7, <1>8, <1>9 DEF Kinds, ChildKinds

LEMMA CrashStep ==
  ASSUME TypeInv, NEW p \in Procs, Crash(p)
  PROVE  TypeInv' /\ Kinds /\ ChildKinds
<1> USE DEF TypeInv
<1>1. /\ p \in up /\ crashes < MaxCrashes /\ crashes' = crashes + 1 /\ up' = up \ {p}
      /\ active' = [active EXCEPT ![p] = {}]
      /\ toRecover' = [toRecover EXCEPT ![p] = {}]
      /\ session' = [session EXCEPT ![p] = "idle"]
      /\ aborting' = [aborting EXCEPT ![p] = FALSE]
      /\ UNCHANGED <<runs, overlapped, commands, others>>
  BY DEF Crash
<1>2. Crashes(p)
  BY DEF Crash, Crashes
<1>3. /\ exec' \in Tables
      /\ \A s \in Runs, l \in Slots : exec'[p][s][l] = Nothing
      /\ \A q \in Procs, s \in Runs, l \in Slots : q # p => exec'[q][s][l] = exec[q][s][l]
  BY DEF Crash, DataInv, Tables
<1>4. DataInv'
  <2>1. ASSUME NEW q \in Procs, NEW s \in Runs, NEW l \in Slots, exec'[q][s][l] # Nothing
        PROVE  runs'[s] # Nothing /\ q \in up' /\ InPlace(runs'[s], exec'[q][s][l])
    <3>1. q # p /\ exec'[q][s][l] = exec[q][s][l]
      BY <1>3, <2>1
    <3> QED BY <1>1, <2>1, <3>1 DEF DataInv
  <2>2. \A s \in Runs : runs'[s] # Nothing => RunOK(runs'[s])
    BY <1>1 DEF DataInv
  <2> QED BY <1>1, <1>3, <2>1, <2>2 DEF DataInv
<1>5. ControlInv'
  BY <1>1, WorkflowAssumption DEF ControlInv
<1> QED BY <1>2, <1>4, <1>5 DEF Kinds, ChildKinds

(* What does not touch a run or an execution.                              *)
LEMMA RestStep ==
  ASSUME TypeInv,
         \/ UNCHANGED vars
         \/ \E p \in Procs : OtherStarts(p) \/ OtherEnds(p) \/ AbortSession(p) \/ Restart(p)
  PROVE  TypeInv' /\ Kinds /\ ChildKinds
<1> USE DEF TypeInv
<1>1. UNCHANGED <<runs, exec, active, overlapped, commands, crashes>>
  BY DEF vars, OtherStarts, OtherEnds, AbortSession, Restart, Quiet, spent
<1>2. up \subseteq up' /\ up' \subseteq Procs
  BY DEF vars, OtherStarts, OtherEnds, AbortSession, Restart, Quiet, DataInv
<1>3. DataInv'
  <2>1. \A s \in Runs : runs'[s] # Nothing => RunOK(runs'[s])
    BY <1>1 DEF DataInv
  <2>2. \A q \in Procs, s \in Runs, l \in Slots : exec'[q][s][l] # Nothing =>
          runs'[s] # Nothing /\ q \in up' /\ InPlace(runs'[s], exec'[q][s][l])
    BY <1>1, <1>2 DEF DataInv
  <2> QED BY <1>1, <1>2, <2>1, <2>2 DEF DataInv
<1>4. ControlInv'
  <2>1. CASE UNCHANGED vars
    BY <1>1, <2>1 DEF ControlInv, vars
  <2>2. ASSUME NEW p \in Procs, OtherStarts(p)
        PROVE  ControlInv'
    BY <1>1, <2>2, WorkflowAssumption DEF ControlInv, OtherStarts
  <2>3. ASSUME NEW p \in Procs, OtherEnds(p)
        PROVE  ControlInv'
    BY <1>1, <2>3 DEF ControlInv, OtherEnds, Quiet, spent
  <2>4. ASSUME NEW p \in Procs, AbortSession(p)
        PROVE  ControlInv'
    BY <1>1, <2>4 DEF ControlInv, AbortSession, spent
  <2>5. ASSUME NEW p \in Procs, Restart(p)
        PROVE  ControlInv'
    BY <1>1, <2>5 DEF ControlInv, Restart, Found, spent
  <2> QED BY <2>1, <2>2, <2>3, <2>4, <2>5
<1>5. Rests /\ SameChildren
  BY <1>1 DEF Rests, Alike, SameChildren
<1> QED BY <1>3, <1>4, <1>5 DEF Kinds, ChildKinds

LEMMA NextDoes ==
  ASSUME TypeInv, [Next]_vars
  PROVE  TypeInv' /\ Kinds /\ ChildKinds
<1>1. ASSUME NEW p \in Procs, NEW r \in Runs,
             \/ \E f \in Flows : Queue(p, r, f)
             \/ Cancel(p, r) \/ Resume(p, r) \/ Rerun(p, r) \/ Recover(p, r)
             \/ \E k \in Slots : Progress(p, r, k)
      PROVE  TypeInv' /\ Kinds /\ ChildKinds
  BY <1>1, LaunchStep, CancelStep, ProgressStep
<1>2. ASSUME NEW p \in Procs,
             OtherStarts(p) \/ OtherEnds(p) \/ AbortSession(p) \/ Crash(p) \/ Restart(p)
      PROVE  TypeInv' /\ Kinds /\ ChildKinds
  BY <1>2, RestStep, CrashStep
<1>3. CASE UNCHANGED vars
  BY <1>3, RestStep
<1> QED BY <1>1, <1>2, <1>3 DEF Next

(* Every state is well typed, whatever is queued, cancelled, recovered and *)
(* crashes: the steps of a run are those of its workflow, its position and *)
(* its approvals are within them, and no execution outlives its process.   *)
THEOREM TypeCorrect == Spec => []TypeOK
<1>1. TypeInv /\ [Next]_vars => TypeInv'
  BY NextDoes
<1> QED BY <1>1, InitTypes, TypeInvTypes, PTL DEF Spec

-----------------------------------------------------------------------------
(***************************************************************************)
(* Approvals.  An execution may try its step again after any other         *)
(* execution has changed the run, so the step of each is approved too.     *)
(***************************************************************************)
ApprovalInv ==
  \A r \in Runs : runs[r] # Nothing =>
    /\ ApprovedRun(runs[r])
    /\ \A p \in Procs, k \in Slots : Cleared(runs[r], exec[p][r][k])

LEMMA ClearedStays ==
  ASSUME NEW run, NEW run2, NEW e, NEW e2, Cleared(run, e), Alike(e, e2),
         ~Returned(e) => (Approved(run, e.step) => Approved(run2, e.step))
  PROVE  Cleared(run2, e2)
BY DEF Cleared, Alike

LEMMA ApprovalStep ==
  ASSUME TypeInv, ApprovalInv, Kinds, TypeInv'
  PROVE  ApprovalInv'
<1> SUFFICES ASSUME NEW s \in Runs, runs'[s] # Nothing
             PROVE  /\ ApprovedRun(runs'[s])
                    /\ \A q \in Procs, l \in Slots : Cleared(runs'[s], exec'[q][s][l])
  BY DEF ApprovalInv
<1>1. ASSUME runs'[s] = runs[s],
             \A q \in Procs, l \in Slots : Alike(exec[q][s][l], exec'[q][s][l])
      PROVE  /\ ApprovedRun(runs'[s])
             /\ \A q \in Procs, l \in Slots : Cleared(runs'[s], exec'[q][s][l])
  BY <1>1, ClearedStays DEF ApprovalInv
<1>2. ASSUME NEW p \in Procs, NEW r \in Runs, NEW k \in Slots,
             Launches(p, r, k) \/ WorksOn(p, r, k), s # r
      PROVE  /\ ApprovedRun(runs'[s])
             /\ \A q \in Procs, l \in Slots : Cleared(runs'[s], exec'[q][s][l])
  <2>1. Elsewhere(p, r, k)
    BY <1>2 DEF Launches, WorksOn
  <2> QED BY <1>1, <1>2, <2>1 DEF Elsewhere
<1>3. ASSUME NEW p \in Procs, NEW k \in Slots, Launches(p, s, k)
      PROVE  /\ ApprovedRun(runs'[s])
             /\ \A q \in Procs, l \in Slots : Cleared(runs'[s], exec'[q][s][l])
  <2>1. PICK base, joined : Bases(s, base) /\ Begun(base, joined, runs'[s], exec'[p][s][k])
    BY <1>3 DEF Launches
  <2>2. ApprovedRun(base)
    BY <2>1 DEF Bases, Reopens, ApprovalInv
  <2>3. ApprovedRun(runs'[s]) /\ Cleared(runs'[s], exec'[p][s][k])
    BY <2>1, <2>2 DEF Begun
  <2>4. ASSUME NEW q \in Procs, NEW l \in Slots, ~(q = p /\ l = k)
        PROVE  Cleared(runs'[s], exec'[q][s][l])
    <3>1. Alike(exec[q][s][l], exec'[q][s][l])
      BY <1>3, <2>4 DEF Launches, Elsewhere
    <3>2. CASE Returned(exec[q][s][l])
      BY <3>1, <3>2 DEF Alike, Cleared
    <3>3. CASE ~Returned(exec[q][s][l])
      <4>1. /\ runs[s] # Nothing /\ exec[q][s][l].step \in DOMAIN Steps(runs[s])
        BY <3>3 DEF TypeInv, DataInv, Returned, InPlace, AtStep
      <4>2. Reopens(runs[s], base)
        BY <2>1, <4>1 DEF Bases
      <4>3. \A j \in DOMAIN Steps(runs[s]) : Approved(runs[s], j) => Approved(runs'[s], j)
        BY <2>1, <4>2 DEF Reopens, Begun, Approved, Steps
      <4>4. Cleared(runs[s], exec[q][s][l])
        BY <4>1 DEF ApprovalInv
      <4> QED BY <3>1, <4>1, <4>3, <4>4, ClearedStays
    <3> QED BY <3>2, <3>3
  <2> QED BY <2>3, <2>4
<1>4. ASSUME NEW p \in Procs, NEW k \in Slots, WorksOn(p, s, k)
      PROVE  /\ ApprovedRun(runs'[s])
             /\ \A q \in Procs, l \in Slots : Cleared(runs'[s], exec'[q][s][l])
  <2>1. /\ runs[s] # Nothing /\ Working(p, s, k)
        /\ WentOn(runs[s], exec[p][s][k], runs'[s], exec'[p][s][k])
        /\ Elsewhere(p, s, k)
    BY <1>4 DEF WorksOn
  <2>2. ApprovedRun(runs[s]) /\ Approved(runs[s], exec[p][s][k].step)
    BY <2>1 DEF ApprovalInv, Cleared, Working
  <2>3. ApprovedRun(runs'[s]) /\ Cleared(runs'[s], exec'[p][s][k])
    BY <2>1, <2>2 DEF WentOn
  <2>4. \A j : Approved(runs[s], j) => Approved(runs'[s], j)
    BY <2>1 DEF WentOn, Approved, Steps
  <2>5. ASSUME NEW q \in Procs, NEW l \in Slots, ~(q = p /\ l = k)
        PROVE  Cleared(runs'[s], exec'[q][s][l])
    <3>1. Alike(exec[q][s][l], exec'[q][s][l]) /\ Cleared(runs[s], exec[q][s][l])
      BY <2>1, <2>5 DEF Elsewhere, ApprovalInv
    <3> QED BY <2>4, <3>1, ClearedStays
  <2> QED BY <2>3, <2>5
<1>5. ASSUME NEW r \in Runs, Cancels(r)
      PROVE  /\ ApprovedRun(runs'[s])
             /\ \A q \in Procs, l \in Slots : Cleared(runs'[s], exec'[q][s][l])
  <2>1. runs[s] # Nothing /\ runs[s] \in RunRec
    <3>1. runs[r] # Nothing /\ runs' = [runs EXCEPT ![r].status = "aborted"]
      BY <1>5 DEF Cancels
    <3> QED BY <3>1 DEF TypeInv, DataInv, RunOK
  <2>2. /\ runs'[s].steps = runs[s].steps /\ runs'[s].approved = runs[s].approved
        /\ runs'[s].flow = runs[s].flow /\ exec' = exec
    BY <1>5, <2>1 DEF Cancels, TypeInv, DataInv, RunRec
  <2>3. \A j : Approved(runs[s], j) <=> Approved(runs'[s], j)
    BY <2>2 DEF Approved, Steps
  <2> QED BY <2>1, <2>2, <2>3 DEF ApprovalInv, ApprovedRun, Cleared
<1>6. ASSUME NEW p \in Procs, Crashes(p)
      PROVE  /\ ApprovedRun(runs'[s])
             /\ \A q \in Procs, l \in Slots : Cleared(runs'[s], exec'[q][s][l])
  <2>1. /\ runs'[s] = runs[s]
        /\ \A q \in Procs, l \in Slots :
             exec'[q][s][l] \in {exec[q][s][l], Nothing}
    BY <1>6 DEF Crashes, TypeInv, DataInv, Tables
  <2> QED BY <2>1 DEF ApprovalInv, Cleared, Returned
<1>7. CASE Rests
  BY <1>1, <1>7 DEF Rests
<1> QED BY <1>2, <1>3, <1>4, <1>5, <1>6, <1>7 DEF Kinds

(* A step that needs an approval never runs without one, even when its run *)
(* is recovered, resumed, rerun past the pause, retried or executed twice. *)
THEOREM ApprovedFirstHolds == Spec => []ApprovedFirst
<1>1. Init => ApprovalInv
  BY DEF Init, ApprovalInv
<1>2. TypeInv /\ ApprovalInv /\ [Next]_vars => TypeInv' /\ ApprovalInv'
  BY NextDoes, ApprovalStep
<1>3. TypeInv /\ ApprovalInv => ApprovedFirst
  BY DEF ApprovalInv, ApprovedFirst, ApprovedRun, Approved
<1> QED BY <1>1, <1>2, <1>3, InitTypes, PTL DEF Spec

-----------------------------------------------------------------------------
(***************************************************************************)
(* A run that is "running" is executed by somebody: what leaves it so goes *)
(* on working.                                                             *)
(***************************************************************************)
LEMMA OwnedStep ==
  ASSUME TypeInv, RunningIsOwned, Kinds, TypeInv'
  PROVE  RunningIsOwned'
<1> SUFFICES ASSUME crashes' = 0, NEW s \in Runs, Running(s)'
             PROVE  Live(s)'
  BY DEF RunningIsOwned
<1>1. runs'[s] # Nothing /\ runs'[s].status = "running"
  BY DEF Running
<1>2. ASSUME NEW p \in Procs, NEW k \in Slots, ~Returned(exec'[p][s][k])
      PROVE  Live(s)'
  BY <1>2 DEF Live, LiveIn, Working
<1>3. ASSUME crashes = 0, Running(s)
      PROVE  \E q \in Procs, l \in Slots : ~Returned(exec[q][s][l])
  BY <1>3 DEF RunningIsOwned, Live, LiveIn, Working
<1>4. ASSUME NEW p \in Procs, NEW r \in Runs, NEW k \in Slots,
             Launches(p, r, k) \/ WorksOn(p, r, k)
      PROVE  Live(s)'
  <2>1. Elsewhere(p, r, k) /\ crashes = 0
    BY <1>4 DEF Launches, WorksOn
  <2>2. CASE s = r
    <3>1. runs'[r].status = "running" => ~Returned(exec'[p][r][k])
      BY <1>4 DEF Launches, WorksOn, Begun, WentOn
    <3> QED BY <1>1, <1>2, <2>2, <3>1
  <2>3. CASE s # r
    <3>1. runs'[s] = runs[s]
      BY <2>1, <2>3 DEF Elsewhere
    <3>2. PICK q \in Procs, l \in Slots : ~Returned(exec[q][s][l])
      BY <1>1, <1>3, <2>1, <3>1 DEF Running
    <3>3. ~Returned(exec'[q][s][l])
      BY <2>1, <2>3, <3>2 DEF Elsewhere, Alike
    <3> QED BY <1>2, <3>3
  <2> QED BY <2>2, <2>3
<1>5. ASSUME NEW r \in Runs, Cancels(r)
      PROVE  Live(s)'
  <2>1. /\ runs[r] \in RunRec /\ runs' = [runs EXCEPT ![r].status = "aborted"]
        /\ exec' = exec /\ crashes = 0
    BY <1>5 DEF Cancels, TypeInv, DataInv, RunOK
  <2>2. s # r
    BY <1>1, <2>1 DEF TypeInv, DataInv, RunRec
  <2>3. runs'[s] = runs[s]
    BY <2>1, <2>2 DEF TypeInv, DataInv
  <2> QED BY <1>1, <1>2, <1>3, <2>1, <2>3 DEF Running
<1>6. ASSUME NEW p \in Procs, Crashes(p)
      PROVE  FALSE
  BY <1>6 DEF Crashes, TypeInv, ControlInv
<1>7. CASE Rests
  <2>1. PICK q \in Procs, l \in Slots : ~Returned(exec[q][s][l])
    BY <1>1, <1>3, <1>7 DEF Rests, Running
  <2>2. ~Returned(exec'[q][s][l])
    BY <1>7, <2>1 DEF Rests, Alike
  <2> QED BY <1>2, <2>2
<1> QED BY <1>4, <1>5, <1>6, <1>7 DEF Kinds

(* Without a crash no run stays "running" with nobody executing it, even   *)
(* when two executions of it write its status in turns.                    *)
THEOREM RunningIsOwnedHolds == Spec => []RunningIsOwned
<1>1. Init => RunningIsOwned
  BY DEF Init, RunningIsOwned, Running
<1>2. TypeInv /\ RunningIsOwned /\ [Next]_vars => TypeInv' /\ RunningIsOwned'
  BY NextDoes, OwnedStep
<1> QED BY <1>1, <1>2, InitTypes, PTL DEF Spec

-----------------------------------------------------------------------------
(***************************************************************************)
(* A run that was never started beside a live execution has one at most;   *)
(* activeRuns tells where it is, and the run moves with it.                *)
(***************************************************************************)
SoloInv ==
  \A r \in Runs \ overlapped, p, q \in Procs, k, l \in Slots :
    Working(p, r, k) /\ Working(q, r, l) => p = q /\ k = l

OrderInv ==
  \A r \in Runs \ overlapped : runs[r] # Nothing =>
    /\ InOrder(runs[r]) /\ CompletedAtEnd(runs[r])
    /\ \A p \in Procs, k \in Slots : OnCourse(runs[r], exec[p][r][k])

PathInv == SoloInv /\ ActiveIsLive /\ OrderInv

LEMMA WorkingElsewhere ==
  ASSUME NEW p \in Procs, NEW r \in Runs, NEW k \in Slots, Elsewhere(p, r, k),
         NEW q \in Procs, NEW s \in Runs, NEW l \in Slots, ~(q = p /\ s = r /\ l = k)
  PROVE  Working(q, s, l)' <=> Working(q, s, l)
BY DEF Elsewhere, Alike, Working

(* A launch of a run that stays solo finds nobody at work on it.           *)
LEMMA LaunchAlone ==
  ASSUME TypeInv, NEW p \in Procs, NEW r \in Runs, NEW k \in Slots, Launches(p, r, k),
         r \notin overlapped'
  PROVE  /\ r \notin overlapped
         /\ \A q \in Procs, l \in Slots : ~Working(q, r, l)
         /\ \A q \in Procs, l \in Slots : Working(q, r, l)' => q = p /\ l = k
<1>1. r \notin overlapped /\ ~Live(r) /\ Elsewhere(p, r, k)
  BY DEF Launches
<1>2. \A q \in Procs, l \in Slots : ~Working(q, r, l)
  BY <1>1 DEF Live, LiveIn
<1> QED BY <1>1, <1>2, WorkingElsewhere

LEMMA SoloStep ==
  ASSUME TypeInv, SoloInv, Kinds
  PROVE  SoloInv'
<1> SUFFICES ASSUME NEW s \in Runs, s \notin overlapped',
                    NEW q1 \in Procs, NEW q2 \in Procs, NEW l1 \in Slots, NEW l2 \in Slots,
                    Working(q1, s, l1)', Working(q2, s, l2)'
             PROVE  q1 = q2 /\ l1 = l2
  BY DEF SoloInv
<1>1. ASSUME s \notin overlapped, Working(q1, s, l1), Working(q2, s, l2)
      PROVE  q1 = q2 /\ l1 = l2
  BY <1>1 DEF SoloInv
<1>2. ASSUME NEW p \in Procs, NEW r \in Runs, NEW k \in Slots, Launches(p, r, k)
      PROVE  q1 = q2 /\ l1 = l2
  <2>1. CASE s = r
    BY <1>2, <2>1, LaunchAlone
  <2>2. CASE s # r
    <3>1. Elsewhere(p, r, k) /\ s \notin overlapped
      BY <1>2, <2>2 DEF Launches
    <3> QED BY <1>1, <2>2, <3>1, WorkingElsewhere
  <2> QED BY <2>1, <2>2
<1>3. ASSUME NEW p \in Procs, NEW r \in Runs, NEW k \in Slots, WorksOn(p, r, k)
      PROVE  q1 = q2 /\ l1 = l2
  <2>1. Elsewhere(p, r, k) /\ s \notin overlapped /\ Working(p, r, k)
    BY <1>3 DEF WorksOn
  <2>2. Working(q1, s, l1) /\ Working(q2, s, l2)
    BY <2>1, WorkingElsewhere
  <2> QED BY <1>1, <2>1, <2>2
<1>4. ASSUME NEW r \in Runs, Cancels(r)
      PROVE  q1 = q2 /\ l1 = l2
  BY <1>1, <1>4 DEF Cancels, Working
<1>5. ASSUME NEW p \in Procs, Crashes(p)
      PROVE  q1 = q2 /\ l1 = l2
  <2>1. /\ s \notin overlapped
        /\ \A q \in Procs, l \in Slots : exec'[q][s][l] \in {exec[q][s][l], Nothing}
    BY <1>5 DEF Crashes, TypeInv, DataInv, Tables
  <2>2. Working(q1, s, l1) /\ Working(q2, s, l2)
    BY <2>1 DEF Working, Returned
  <2> QED BY <1>1, <2>1, <2>2
<1>6. CASE Rests
  BY <1>1, <1>6 DEF Rests, Alike, Working
<1> QED BY <1>2, <1>3, <1>4, <1>5, <1>6 DEF Kinds

LEMMA ActiveStep ==
  ASSUME TypeInv, SoloInv, ActiveIsLive, Kinds, SoloInv'
  PROVE  ActiveIsLive'
<1> SUFFICES ASSUME NEW q \in Procs, NEW s \in Runs, s \notin overlapped'
             PROVE  s \in active'[q] <=> \E l \in Slots : Working(q, s, l)'
  BY DEF ActiveIsLive, LiveIn
<1>0. active \in [Procs -> SUBSET Runs]
  BY DEF TypeInv, ControlInv
<1>1. ASSUME s \notin overlapped
      PROVE  s \in active[q] <=> \E l \in Slots : Working(q, s, l)
  BY <1>1 DEF ActiveIsLive, LiveIn
<1>2. ASSUME s \notin overlapped, s \in active'[q] <=> s \in active[q],
             \A l \in Slots : Working(q, s, l)' <=> Working(q, s, l)
      PROVE  s \in active'[q] <=> \E l \in Slots : Working(q, s, l)'
  BY <1>1, <1>2
<1>3. ASSUME NEW p \in Procs, NEW r \in Runs, NEW k \in Slots, Launches(p, r, k)
      PROVE  s \in active'[q] <=> \E l \in Slots : Working(q, s, l)'
  <2>1. /\ Elsewhere(p, r, k) /\ s \notin overlapped
        /\ active' = [active EXCEPT ![p] = IF Returned(exec'[p][r][k]) THEN @ \ {r} ELSE @ \cup {r}]
    BY <1>3 DEF Launches
  <2>2. CASE s = r /\ q = p
    <3>1. s \in active'[p] <=> Working(p, s, k)'
      BY <1>0, <2>1, <2>2 DEF Working
    <3> QED BY <1>3, <2>2, <3>1, LaunchAlone
  <2>3. CASE s = r /\ q # p
    <3>1. active'[q] = active[q]
      BY <1>0, <2>1, <2>3
    <3>2. \A l \in Slots : ~Working(q, s, l) /\ ~Working(q, s, l)'
      BY <1>3, <2>3, LaunchAlone
    <3> QED BY <1>1, <2>1, <3>1, <3>2
  <2>4. CASE s # r
    <3>1. s \in active'[q] <=> s \in active[q]
      BY <1>0, <2>1, <2>4
    <3> QED BY <1>2, <2>1, <2>4, <3>1, WorkingElsewhere
  <2> QED BY <2>2, <2>3, <2>4
<1>4. ASSUME NEW p \in Procs, NEW r \in Runs, NEW k \in Slots, WorksOn(p, r, k)
      PROVE  s \in active'[q] <=> \E l \in Slots : Working(q, s, l)'
  <2>1. /\ Elsewhere(p, r, k) /\ s \notin overlapped /\ Working(p, r, k)
        /\ active' = [active EXCEPT ![p] = IF Returned(exec'[p][r][k]) THEN @ \ {r} ELSE @]
    BY <1>4 DEF WorksOn
  <2>2. CASE s = r /\ q = p
    <3>1. s \in active[p]
      BY <1>1, <2>1, <2>2
    <3>2. s \in active'[p] <=> Working(p, s, k)'
      BY <1>0, <2>1, <2>2, <3>1 DEF Working
    <3>3. \A l \in Slots : Working(p, s, l)' => l = k
      <4>1. \A l \in Slots : Working(p, s, l) => l = k
        BY <2>1, <2>2 DEF SoloInv
      <4> QED BY <2>1, <2>2, <4>1, WorkingElsewhere
    <3> QED BY <2>2, <3>2, <3>3
  <2>3. CASE ~(s = r /\ q = p)
    <3>1. s \in active'[q] <=> s \in active[q]
      BY <1>0, <2>1, <2>3
    <3> QED BY <1>2, <2>1, <2>3, <3>1, WorkingElsewhere
  <2> QED BY <2>2, <2>3
<1>5. ASSUME NEW r \in Runs, Cancels(r)
      PROVE  s \in active'[q] <=> \E l \in Slots : Working(q, s, l)'
  BY <1>1, <1>5 DEF Cancels, Working
<1>6. ASSUME NEW p \in Procs, Crashes(p)
      PROVE  s \in active'[q] <=> \E l \in Slots : Working(q, s, l)'
  <2>1. /\ s \notin overlapped
        /\ active'[q] = IF q = p THEN {} ELSE active[q]
        /\ \A l \in Slots : exec'[q][s][l] = IF q = p THEN Nothing ELSE exec[q][s][l]
    BY <1>0, <1>6 DEF Crashes, TypeInv, DataInv, Tables
  <2> QED BY <1>1, <2>1 DEF Working, Returned
<1>7. CASE Rests
  BY <1>1, <1>7 DEF Rests, Alike, Working
<1> QED BY <1>3, <1>4, <1>5, <1>6, <1>7 DEF Kinds

LEMMA OrderStep ==
  ASSUME TypeInv, SoloInv, OrderInv, Kinds, TypeInv'
  PROVE  OrderInv'
<1> DEFINE Good(s) == /\ InOrder(runs'[s]) /\ CompletedAtEnd(runs'[s])
                      /\ \A q \in Procs, l \in Slots : OnCourse(runs'[s], exec'[q][s][l])
<1> SUFFICES ASSUME NEW s \in Runs, s \notin overlapped', runs'[s] # Nothing
             PROVE  Good(s)
  BY DEF OrderInv
<1>1. ASSUME s \notin overlapped, runs[s] # Nothing
      PROVE  /\ InOrder(runs[s]) /\ CompletedAtEnd(runs[s])
             /\ \A q \in Procs, l \in Slots : OnCourse(runs[s], exec[q][s][l])
  BY <1>1 DEF OrderInv
<1>2. ASSUME s \notin overlapped, runs'[s] = runs[s],
             \A q \in Procs, l \in Slots : Alike(exec[q][s][l], exec'[q][s][l])
      PROVE  Good(s)
  BY <1>1, <1>2 DEF OnCourse, Alike
<1>3. ASSUME NEW p \in Procs, NEW r \in Runs, NEW k \in Slots, Launches(p, r, k)
      PROVE  Good(s)
  <2>1. CASE s = r
    <3>1. PICK base, joined : Bases(s, base) /\ Begun(base, joined, runs'[s], exec'[p][s][k])
      BY <1>3, <2>1 DEF Launches
    <3>2. /\ s \notin overlapped
          /\ \A q \in Procs, l \in Slots : Working(q, s, l)' => q = p /\ l = k
      BY <1>3, <2>1, LaunchAlone
    <3>3. InOrder(base)
      BY <1>1, <3>1, <3>2 DEF Bases, Reopens
    <3>4. InOrder(runs'[s]) /\ CompletedAtEnd(runs'[s]) /\ OnCourse(runs'[s], exec'[p][s][k])
      BY <3>1, <3>3 DEF Begun
    <3>5. \A q \in Procs, l \in Slots : OnCourse(runs'[s], exec'[q][s][l])
      BY <3>2, <3>4 DEF OnCourse, Working
    <3> QED BY <3>4, <3>5
  <2>2. CASE s # r
    <3>1. Elsewhere(p, r, k) /\ s \notin overlapped
      BY <1>3, <2>2 DEF Launches
    <3> QED BY <1>2, <2>2, <3>1 DEF Elsewhere
  <2> QED BY <2>1, <2>2
<1>4. ASSUME NEW p \in Procs, NEW r \in Runs, NEW k \in Slots, WorksOn(p, r, k)
      PROVE  Good(s)
  <2>1. /\ Elsewhere(p, r, k) /\ s \notin overlapped /\ Working(p, r, k) /\ runs[r] # Nothing
        /\ WentOn(runs[r], exec[p][r][k], runs'[r], exec'[p][r][k])
    BY <1>4 DEF WorksOn
  <2>2. CASE s = r
    <3>1. /\ InOrder(runs'[s]) /\ CompletedAtEnd(runs'[s])
          /\ OnCourse(runs'[s], exec'[p][s][k])
      BY <1>1, <2>1, <2>2 DEF WentOn
    <3>2. \A q \in Procs, l \in Slots : Working(q, s, l)' => q = p /\ l = k
      <4>1. \A q \in Procs, l \in Slots : Working(q, s, l) => q = p /\ l = k
        BY <2>1, <2>2 DEF SoloInv
      <4> QED BY <2>1, <2>2, <4>1, WorkingElsewhere
    <3>3. \A q \in Procs, l \in Slots : OnCourse(runs'[s], exec'[q][s][l])
      BY <3>1, <3>2 DEF OnCourse, Working
    <3> QED BY <3>1, <3>3
  <2>3. CASE s # r
    BY <1>2, <2>1, <2>3 DEF Elsewhere
  <2> QED BY <2>2, <2>3
<1>5. ASSUME NEW r \in Runs, Cancels(r)
      PROVE  Good(s)
  <2>1. CASE s = r
    <3>1. runs[s] \in RunRec /\ runs[s] # Nothing /\ exec' = exec /\ s \notin overlapped
      BY <1>5, <2>1 DEF Cancels, TypeInv, DataInv, RunOK
    <3>2. /\ runs'[s].steps = runs[s].steps /\ runs'[s].cur = runs[s].cur
          /\ runs'[s].flow = runs[s].flow /\ runs'[s].status = "aborted"
      BY <1>5, <2>1, <3>1 DEF Cancels, TypeInv, DataInv, RunRec
    <3>3. \A i : Passed(runs'[s], i) <=> Passed(runs[s], i)
      BY <3>2 DEF Passed, Steps
    <3>4. InOrder(runs[s]) /\ \A q \in Procs, l \in Slots : OnCourse(runs[s], exec[q][s][l])
      BY <1>1, <3>1
    <3> QED BY <3>1, <3>2, <3>3, <3>4 DEF InOrder, CompletedAtEnd, OnCourse
  <2>2. CASE s # r
    <3>1. runs'[s] = runs[s] /\ exec' = exec /\ s \notin overlapped
      BY <1>5, <2>2 DEF Cancels, TypeInv, DataInv
    <3> QED BY <1>2, <3>1 DEF Alike
  <2> QED BY <2>1, <2>2
<1>6. ASSUME NEW p \in Procs, Crashes(p)
      PROVE  Good(s)
  <2>1. /\ runs'[s] = runs[s] /\ s \notin overlapped
        /\ \A q \in Procs, l \in Slots : exec'[q][s][l] \in {exec[q][s][l], Nothing}
    BY <1>6 DEF Crashes, TypeInv, DataInv, Tables
  <2> QED BY <1>1, <2>1 DEF OnCourse, Returned
<1>7. CASE Rests
  BY <1>2, <1>7 DEF Rests
<1> QED BY <1>3, <1>4, <1>5, <1>6, <1>7 DEF Kinds

LEMMA PathHolds == Spec => [](TypeInv /\ PathInv)
<1>1. Init => PathInv
  BY DEF Init, PathInv, SoloInv, ActiveIsLive, OrderInv, LiveIn, Working, Returned
<1>2. TypeInv /\ PathInv /\ [Next]_vars => TypeInv' /\ PathInv'
  BY NextDoes, SoloStep, ActiveStep, OrderStep DEF PathInv
<1> QED BY <1>1, <1>2, InitTypes, PTL DEF Spec

(* activeRuns of a process, which tells a cancel whether to abort the      *)
(* session and a recovery whether to keep off, holds exactly the runs it   *)
(* executes.                                                               *)
THEOREM ActiveIsLiveHolds == Spec => []ActiveIsLive
BY PathHolds, PTL DEF PathInv

(* Once a run is paused or completed no execution of it is left, so a      *)
(* resume or a rerun cannot make two.                                      *)
THEOREM SettledIsIdleHolds == Spec => []SettledIsIdle
<1>1. TypeInv /\ PathInv => SettledIsIdle
  BY DEF PathInv, OrderInv, OnCourse, SettledIsIdle, Live, LiveIn, Working
<1> QED BY <1>1, PathHolds, PTL

(* A completed run did all its work, whatever resumes, reruns, retries and *)
(* recoveries led there.                                                   *)
THEOREM CompletedIsDoneHolds == Spec => []CompletedIsDone
<1>1. TypeInv /\ PathInv => CompletedIsDone
  <2> SUFFICES ASSUME TypeInv, PathInv, NEW r \in Runs \ overlapped,
                      runs[r] # Nothing, runs[r].status = "completed",
                      NEW i \in DOMAIN runs[r].steps
               PROVE  Passed(runs[r], i)
    BY DEF CompletedIsDone
  <2>1. RunOK(runs[r])
    BY DEF TypeInv, DataInv
  <2>2. /\ DOMAIN runs[r].steps = 1..Len(Steps(runs[r])) /\ Len(Steps(runs[r])) \in Nat
    BY <2>1, RunType
  <2>3. InOrder(runs[r]) /\ runs[r].cur = Len(Steps(runs[r])) + 1
    BY DEF PathInv, OrderInv, CompletedAtEnd
  <2> QED BY <2>2, <2>3 DEF InOrder
<1> QED BY <1>1, PathHolds, PTL

(* The execution at step i has every earlier step behind it and no later   *)
(* step touched.                                                           *)
THEOREM StepsInOrderHolds == Spec => []StepsInOrder
<1>1. TypeInv /\ PathInv => StepsInOrder
  <2> SUFFICES ASSUME TypeInv, PathInv, NEW r \in Runs \ overlapped,
                      NEW p \in Procs, NEW k \in Slots, Working(p, r, k)
               PROVE  \A i \in DOMAIN runs[r].steps :
                        /\ i < exec[p][r][k].step => Passed(runs[r], i)
                        /\ i > exec[p][r][k].step => runs[r].steps[i] = "pending"
    BY DEF StepsInOrder
  <2>1. runs[r] # Nothing
    BY DEF TypeInv, DataInv, Working, Returned
  <2>2. InOrder(runs[r]) /\ exec[p][r][k].step = runs[r].cur
    BY <2>1 DEF PathInv, OrderInv, OnCourse, Working
  <2> QED BY <2>2 DEF InOrder
<1> QED BY <1>1, PathHolds, PTL

-----------------------------------------------------------------------------
(***************************************************************************)
(* Subflows.  No two steps wait for the same run, so the join of one does  *)
(* not take the execution another waits for.                               *)
(***************************************************************************)
Waits(t, q, s, l) == t[q][s][l] # Nothing /\ t[q][s][l].at = "flow"
Joined(t, q, c, j) == t[q][c][j] # Nothing /\ t[q][c][j].joined

\* in the store rs and the executions t, the step's subflow is its own
HasChild(rs, t, q, s, l) ==
  LET c == t[q][s][l].child IN
  /\ c \in Runs /\ rs[c] # Nothing
  /\ \E j \in Slots : \A m \in Slots : Joined(t, q, c, m) <=> m = j
  /\ \A u \in Runs, m \in Slots :
       Waits(t, q, u, m) /\ t[q][u][m].child = c => u = s /\ m = l

ChildInv ==
  \A q \in Procs, s \in Runs, l \in Slots : Waits(exec, q, s, l) => HasChild(runs, exec, q, s, l)

(* Nothing is lost for a step that waited before and still waits.          *)
LEMMA ChildStays ==
  ASSUME ChildInv, NEW q \in Procs, NEW s \in Runs, NEW l \in Slots,
         Waits(exec, q, s, l), exec'[q][s][l] = exec[q][s][l],
         \A t \in Runs : runs[t] # Nothing => runs'[t] # Nothing,
         \A t \in Runs, m \in Slots :
           Waits(exec', q, t, m) =>
             \/ Waits(exec, q, t, m) /\ exec'[q][t][m] = exec[q][t][m]
             \/ exec'[q][t][m].child # exec[q][s][l].child,
         \A m \in Slots : Joined(exec', q, exec[q][s][l].child, m)
                            <=> Joined(exec, q, exec[q][s][l].child, m)
  PROVE  HasChild(runs', exec', q, s, l)
<1>1. HasChild(runs, exec, q, s, l)
  BY DEF ChildInv
<1>2. exec[q][s][l].child \in Runs /\ runs'[exec[q][s][l].child] # Nothing
  BY <1>1 DEF HasChild
<1>3. \E j \in Slots : \A m \in Slots : Joined(exec', q, exec[q][s][l].child, m) <=> m = j
  BY <1>1 DEF HasChild
<1>4. \A u \in Runs, m \in Slots :
        Waits(exec', q, u, m) /\ exec'[q][u][m].child = exec[q][s][l].child => u = s /\ m = l
  BY <1>1 DEF HasChild
<1> QED BY <1>2, <1>3, <1>4 DEF HasChild

LEMMA ChildStep ==
  ASSUME TypeInv, ChildInv, ChildKinds
  PROVE  ChildInv'
<1> SUFFICES ASSUME NEW q \in Procs, NEW s \in Runs, NEW l \in Slots, Waits(exec', q, s, l)
             PROVE  HasChild(runs', exec', q, s, l)
  BY DEF ChildInv
<1>1. CASE SameChildren
  <2>1. /\ \A t \in Runs : runs[t] # Nothing => runs'[t] # Nothing
        /\ \A t \in Runs, m \in Slots :
             /\ Joined(exec', q, t, m) <=> Joined(exec, q, t, m)
             /\ Waits(exec', q, t, m) => exec'[q][t][m] = exec[q][t][m]
    BY <1>1 DEF SameChildren, Waits, Joined
  <2>2. \A t \in Runs, m \in Slots : Waits(exec', q, t, m) => Waits(exec, q, t, m)
    BY <2>1 DEF Waits
  <2>3. exec[q][s][l].child \in Runs
    BY <2>2 DEF ChildInv, HasChild
  <2> QED BY <2>1, <2>2, <2>3, ChildStays
<1>2. ASSUME NEW p \in Procs, Crashes(p)
      PROVE  HasChild(runs', exec', q, s, l)
  <2>1. /\ runs' = runs
        /\ \A u \in Procs, t \in Runs, m \in Slots :
             exec'[u][t][m] = IF u = p THEN Nothing ELSE exec[u][t][m]
    BY <1>2 DEF Crashes, TypeInv, DataInv, Tables
  <2>2. q # p
    BY <2>1 DEF Waits
  <2>3. \A t \in Runs, m \in Slots : exec'[q][t][m] = exec[q][t][m]
    BY <2>1, <2>2
  <2>4. HasChild(runs, exec, q, s, l)
    BY <2>3 DEF ChildInv, Waits
  <2>5. exec[q][s][l].child \in Runs
    BY <2>4 DEF HasChild
  <2>6. Waits(exec, q, s, l) /\ exec'[q][s][l] = exec[q][s][l]
    BY <2>3 DEF Waits
  <2>7. \A t \in Runs : runs[t] # Nothing => runs'[t] # Nothing
    BY <2>1
  <2>8. \A t \in Runs, m \in Slots :
          Waits(exec', q, t, m) => Waits(exec, q, t, m) /\ exec'[q][t][m] = exec[q][t][m]
    BY <2>3 DEF Waits
  <2>9. \A m \in Slots : Joined(exec', q, exec[q][s][l].child, m)
                            <=> Joined(exec, q, exec[q][s][l].child, m)
    BY <2>3, <2>5 DEF Joined
  <2> QED BY <2>6, <2>7, <2>8, <2>9, ChildStays
<1>3. ASSUME NEW p \in Procs, NEW r \in Runs, NEW k \in Slots, NEW c \in Runs, NEW j \in Slots,
             Spawns(p, r, k, c, j)
      PROVE  HasChild(runs', exec', q, s, l)
  <2>1. /\ runs[c] = Nothing /\ c # r /\ runs'[c] # Nothing
        /\ \A t \in Runs : runs[t] # Nothing => runs'[t] # Nothing
        /\ Joined(exec', p, c, j) /\ ~Waits(exec', p, c, j)
        /\ Waits(exec', p, r, k) /\ exec'[p][r][k].child = c
        /\ Joined(exec', p, r, k) <=> Joined(exec, p, r, k)
        /\ \A u \in Procs, t \in Runs, m \in Slots :
             ~(u = p /\ t = r /\ m = k) /\ ~(u = p /\ t = c /\ m = j)
               => exec'[u][t][m] = exec[u][t][m]
    BY <1>3 DEF Spawns, Waits, Joined
  <2>2. \A u \in Procs, m \in Slots : exec[u][c][m] = Nothing
    BY <2>1 DEF TypeInv, DataInv
  <2>3. \A u \in Procs, t \in Runs, m \in Slots :
          Waits(exec, u, t, m) => exec[u][t][m].child # c /\ exec[u][t][m].child \in Runs
    BY <2>1 DEF ChildInv, HasChild
  <2>4. CASE q = p /\ s = r /\ l = k
    <3>1. \A m \in Slots : Joined(exec', p, c, m) <=> m = j
      BY <2>1, <2>2 DEF Joined
    <3>2. ASSUME NEW t \in Runs, NEW m \in Slots, Waits(exec', p, t, m), exec'[p][t][m].child = c
          PROVE  t = r /\ m = k
      <4>1. CASE t = c /\ m = j
        BY <2>1, <3>2, <4>1
      <4>2. CASE ~(t = c /\ m = j) /\ ~(t = r /\ m = k)
        BY <2>1, <2>3, <3>2, <4>2 DEF Waits
      <4> QED BY <4>1, <4>2
    <3> QED BY <2>1, <2>4, <3>1, <3>2 DEF HasChild
  <2>5. CASE ~(q = p /\ s = r /\ l = k)
    <3>1. ~(q = p /\ s = c /\ l = j)
      BY <2>1
    <3>2. exec'[q][s][l] = exec[q][s][l] /\ Waits(exec, q, s, l)
      BY <2>1, <2>5, <3>1 DEF Waits
    <3> DEFINE d == exec[q][s][l].child
    <3>3. d # c /\ d \in Runs
      BY <2>3, <3>2
    <3>4. \A t \in Runs, m \in Slots :
            Waits(exec', q, t, m) =>
              \/ Waits(exec, q, t, m) /\ exec'[q][t][m] = exec[q][t][m]
              \/ exec'[q][t][m].child # d
      BY <2>1, <3>3 DEF Waits
    <3>5. \A m \in Slots : Joined(exec', q, d, m) <=> Joined(exec, q, d, m)
      <4>1. ASSUME NEW m \in Slots, ~(q = p /\ d = r /\ m = k)
            PROVE  exec'[q][d][m] = exec[q][d][m]
        BY <2>1, <3>3, <4>1
      <4> QED BY <2>1, <4>1 DEF Joined
    <3> QED BY <2>1, <3>2, <3>4, <3>5, ChildStays
  <2> QED BY <2>4, <2>5
<1>4. ASSUME NEW p \in Procs, NEW r \in Runs, NEW k \in Slots, NEW c \in Runs, NEW j \in Slots,
             Joins(p, r, k, c, j)
      PROVE  HasChild(runs', exec', q, s, l)
  <2>1. /\ Waits(exec, p, r, k) /\ exec[p][r][k].child = c
        /\ \A t \in Runs : runs[t] # Nothing => runs'[t] # Nothing
        /\ exec'[p][c][j] = Nothing /\ ~Waits(exec', p, r, k)
        /\ ~(r = c /\ k = j) => (Joined(exec', p, r, k) <=> Joined(exec, p, r, k))
        /\ \A u \in Procs, t \in Runs, m \in Slots :
             ~(u = p /\ t = r /\ m = k) /\ ~(u = p /\ t = c /\ m = j)
               => exec'[u][t][m] = exec[u][t][m]
    BY <1>4 DEF Joins, Waits, Joined
  <2>2. ~(r = c /\ k = j)
    BY <1>4 DEF Joins
  <2>3. ~(q = p /\ s = r /\ l = k) /\ ~(q = p /\ s = c /\ l = j)
    BY <2>1 DEF Waits
  <2>4. exec'[q][s][l] = exec[q][s][l] /\ Waits(exec, q, s, l)
    BY <2>1, <2>3 DEF Waits
  <2> DEFINE d == exec[q][s][l].child
  <2>5. d \in Runs /\ (q = p => d # c)
    BY <2>1, <2>3, <2>4 DEF ChildInv, HasChild
  <2>6. \A t \in Runs, m \in Slots :
          Waits(exec', q, t, m) => Waits(exec, q, t, m) /\ exec'[q][t][m] = exec[q][t][m]
    BY <2>1 DEF Waits
  <2>7. \A m \in Slots : Joined(exec', q, d, m) <=> Joined(exec, q, d, m)
    <3>1. ASSUME NEW m \in Slots, ~(q = p /\ d = r /\ m = k)
          PROVE  exec'[q][d][m] = exec[q][d][m]
      BY <2>1, <2>5, <3>1
    <3> QED BY <2>1, <2>2, <3>1 DEF Joined
  <2> QED BY <2>1, <2>4, <2>6, <2>7, ChildStays
<1> QED BY <1>1, <1>2, <1>3, <1>4 DEF ChildKinds

(* A step that waits for a subflow has exactly one execution to wait for,  *)
(* whoever launches the subflow's run beside it.                           *)
THEOREM ChildHeldHolds == Spec => []ChildHeld
<1>1. Init => ChildInv
  BY DEF Init, ChildInv, Waits
<1>2. TypeInv /\ ChildInv /\ [Next]_vars => TypeInv' /\ ChildInv'
  BY NextDoes, ChildStep
<1>3. ChildInv => ChildHeld
  <2> SUFFICES ASSUME ChildInv, NEW p \in Procs, NEW r \in Runs, NEW k \in Slots,
                      At(p, r, k, "flow")
               PROVE  Cardinality({j \in Slots : Joined(exec, p, exec[p][r][k].child, j)}) = 1
    BY DEF ChildHeld, Joined
  <2>1. PICK j \in Slots : \A m \in Slots : Joined(exec, p, exec[p][r][k].child, m) <=> m = j
    BY DEF ChildInv, HasChild, Waits, At
  <2>2. {m \in Slots : Joined(exec, p, exec[p][r][k].child, m)} = {j}
    BY <2>1
  <2> QED BY <2>2, FS_Singleton
<1> QED BY <1>1, <1>2, <1>3, InitTypes, PTL DEF Spec

-----------------------------------------------------------------------------
(***************************************************************************)
(* A cancelled run.                                                        *)
(***************************************************************************)
LEMMA CancelStopsStep ==
  ASSUME TypeInv, Kinds, NEW r \in Runs, runs[r] # Nothing, runs[r].status = "aborted",
         \A i \in DOMAIN runs[r].steps :
           Steps(runs[r])[i].attempts = 1 /\ ~Steps(runs[r])[i].keepGoing,
         runs'[r].status # "running"
  PROVE  \A i \in DOMAIN runs[r].steps :
           runs'[r].steps[i] = "running" => runs[r].steps[i] = "running"
<1> SUFFICES NoneStarted(runs[r], runs'[r])
  BY DEF NoneStarted
<1>1. CASE runs'[r] = runs[r]
  BY <1>1 DEF NoneStarted
<1>2. ASSUME NEW p \in Procs, NEW k \in Slots, Launches(p, r, k)
      PROVE  NoneStarted(runs[r], runs'[r])
  <2>1. PICK base, joined : Bases(r, base) /\ Begun(base, joined, runs'[r], exec'[p][r][k])
    BY <1>2 DEF Launches
  <2>2. /\ NoneStarted(runs[r], base) /\ NoneStarted(base, runs'[r])
        /\ base.flow = runs[r].flow /\ RunOK(base) /\ RunOK(runs[r])
    BY <2>1 DEF Bases, Reopens, Begun, TypeInv, DataInv
  <2>3. DOMAIN base.steps = DOMAIN runs[r].steps
    BY <2>2 DEF RunOK, Steps
  <2> QED BY <2>2, <2>3 DEF NoneStarted
<1>3. ASSUME NEW p \in Procs, NEW k \in Slots, WorksOn(p, r, k)
      PROVE  NoneStarted(runs[r], runs'[r])
  BY <1>3 DEF WorksOn, WentOn, Once
<1>4. ASSUME NEW p \in Procs, NEW s \in Runs, NEW k \in Slots,
             Launches(p, s, k) \/ WorksOn(p, s, k), s # r
      PROVE  runs'[r] = runs[r]
  BY <1>4 DEF Launches, WorksOn, Elsewhere
<1>5. ASSUME NEW s \in Runs, Cancels(s)
      PROVE  NoneStarted(runs[r], runs'[r])
  <2>1. runs'[r].steps = runs[r].steps
    BY <1>5 DEF Cancels, TypeInv, DataInv, RunOK, RunRec
  <2> QED BY <2>1 DEF NoneStarted
<1>6. ASSUME NEW p \in Procs, Crashes(p)
      PROVE  runs'[r] = runs[r]
  BY <1>6 DEF Crashes
<1>7. CASE Rests
  BY <1>1, <1>7 DEF Rests
<1> QED BY <1>1, <1>2, <1>3, <1>4, <1>5, <1>6, <1>7 DEF Kinds

(* Where no step retries or goes on after an error, a cancelled run starts *)
(* no further step unless it is launched again.                            *)
THEOREM CancelStopsHolds == Spec => CancelStops
<1>1. TypeInv /\ [Next]_vars => TypeInv'
  BY NextDoes
<1>2. ASSUME TypeInv, [Next]_vars
      PROVE  [\A r \in Runs :
                /\ runs[r] # Nothing /\ runs[r].status = "aborted"
                /\ \A i \in DOMAIN runs[r].steps :
                     Steps(runs[r])[i].attempts = 1 /\ ~Steps(runs[r])[i].keepGoing
                /\ runs'[r].status # "running"
                => \A i \in DOMAIN runs[r].steps :
                     runs'[r].steps[i] = "running" => runs[r].steps[i] = "running"]_vars
  <2>1. Kinds
    BY <1>2, NextDoes
  <2> QED BY <1>2, <2>1, CancelStopsStep
<1> QED BY <1>1, <1>2, InitTypes, PTL DEF Spec, CancelStops
=============================================================================

---------------------------- MODULE QueuePlanner ----------------------------
(***************************************************************************)
(* The planner of the dashboard: src/src/runtime/relay-runtime-queue-      *)
(* planner.ts over src/src/state/queue-plan-store.ts.  A plan is drafted,  *)
(* approved and put into the runtime queue; from then on its status is     *)
(* derived, whenever somebody looks, from the queue, from the progress of  *)
(* the runtime that is asked and from the trace of the plan's prompt, and  *)
(* is stored.  Several runtimes serve the same plans and the same queue.   *)
(*                                                                         *)
(* The queue is reduced to what the planner sees of it; PromptQueue and    *)
(* RuntimeDrain have its leases and its drain.  A prompt's correlation id  *)
(* is the id of the queue item for which it was created.  Handlers run in  *)
(* one step up to their awaits; enqueue has some, since it first switches  *)
(* the session.                                                            *)
(***************************************************************************)
EXTENDS Naturals, FiniteSets

CONSTANTS
    Plans, Ids,
    Runtimes,
    Users,          \* people who may have an enqueue going
    None,
    MaxFailures, MaxCrashes

ASSUME PlannerAssumption ==
    /\ None \notin Plans \cup Ids \cup Runtimes
    /\ MaxFailures \in Nat /\ MaxCrashes \in Nat

VARIABLES
    plan,           \* status, queue item and correlation id of a plan
    item,           \* state of a queue item, its plan and correlation id
    trace,          \* the latest event with a correlation id
    turn,           \* the leased item a runtime works on, and how far it is
    progress,       \* correlation id of a runtime's currentProgress
    asked,          \* the enqueue a user waits for
    loose,          \* history: plans whose enqueue met another or a deletion
    cut,            \* history: plans whose prompt was removed after its start,
                    \* moved after its end, or shown as in progress by a
                    \* runtime that was done with it
    failures, crashes

vars == <<plan, item, trace, turn, progress, asked, loose, cut, failures, crashes>>

\* To every guard a plan in review is a draft; only the columns differ.
UserStatuses == {"draft", "approved", "archived"}
Owned == {"queued", "in_progress"}
Statuses == UserStatuses \cup Owned \cup {"done", "failed", "aborted"}
\* "other": none at all, or one that says nothing of the prompt's turn.
Events == {"other", "started", "completed", "failed"}

Idle == [item |-> None, at |-> "idle"]
NoRequest == [plan |-> None, corr |-> None, at |-> None]

TypeOK ==
    /\ plan \in [Plans -> [status : Statuses \cup {"new", "deleted"},
                           item : Ids \cup {None}, corr : Ids \cup {None}]]
    /\ item \in [Ids -> [state : {"new", "waiting", "leased", "gone"},
                         plan : Plans \cup {None}, corr : Ids \cup {None}]]
    /\ trace \in [Ids -> Events]
    /\ turn \in [Runtimes -> [item : Ids \cup {None},
                   at : {"idle", "leased", "running", "completed", "failed"}]]
    /\ progress \in [Runtimes -> Ids \cup {None}]
    /\ asked \in [Users -> [plan : Plans \cup {None}, corr : Ids \cup {None},
                            at : Runtimes \cup {None}]]
    /\ loose \in SUBSET Plans /\ cut \in SUBSET Plans
    /\ failures \in 0..MaxFailures /\ crashes \in 0..MaxCrashes

Init ==
    /\ plan = [p \in Plans |-> [status |-> "new", item |-> None, corr |-> None]]
    /\ item = [i \in Ids |-> [state |-> "new", plan |-> None, corr |-> None]]
    /\ trace = [c \in Ids |-> "other"]
    /\ turn = [q \in Runtimes |-> Idle]
    /\ progress = [q \in Runtimes |-> None]
    /\ asked = [u \in Users |-> NoRequest]
    /\ loose = {} /\ cut = {}
    /\ failures = 0 /\ crashes = 0

Exists(p) == plan[p].status \in Statuses

\* rawList has the leased items too; the planner's positions do not.
Stored(i) == i # None /\ item[i].state \in {"waiting", "leased"}
Waiting(its, i) == i # None /\ its[i].state = "waiting"

-----------------------------------------------------------------------------
(* Looking at the plans                                                    *)

\* Fault: a queued plan whose item has left the queue stays queued.
EffectiveQueued(q, r, its, tr) ==
    LET latest == IF r.corr = None THEN "other" ELSE tr[r.corr] IN
    CASE r.status = "archived" -> "archived"
      [] r.status # "archived" /\ Waiting(its, r.item) -> "queued"
      [] OTHER -> CASE latest = "completed" -> "done"
                    [] latest = "failed" -> "failed"
                    [] OTHER -> r.status

\* effectiveStatus: the first rule that applies.
Effective(q, r, its, tr) ==
    LET latest == IF r.corr = None THEN "other" ELSE tr[r.corr] IN
    IF r.status = "archived" THEN "archived"
    ELSE IF Waiting(its, r.item) THEN "queued"
    ELSE IF r.corr # None /\ progress[q] = r.corr THEN "in_progress"
    ELSE CASE latest = "completed" -> "done"
           [] latest = "failed" -> "failed"
           [] latest = "started" -> "in_progress"
           [] OTHER -> IF r.status = "queued" /\ r.item # None THEN "aborted"
                       ELSE r.status

\* The snapshot stores the status it derives for each plan.
Show(q, pl, its, tr) ==
    /\ plan' = [p \in Plans |->
                  IF pl[p].status \in Statuses
                  THEN [pl[p] EXCEPT !.status = Effective(q, pl[p], its, tr)]
                  ELSE pl[p]]
    /\ cut' = cut \cup {p \in Plans :
                  /\ plan'[p].status = "in_progress" /\ progress[q] = plan'[p].corr
                  /\ ~(turn[q].at \in {"leased", "running"}
                        /\ item[turn[q].item].corr = progress[q])}

Record(tr, c, event) == [d \in Ids |-> IF d = c THEN event ELSE tr[d]]

Look(q) ==
    /\ Show(q, plan, item, trace)
    /\ UNCHANGED <<item, trace, turn, progress, asked, loose, failures, crashes>>

-----------------------------------------------------------------------------
(* Changing plans.  Every handler records what it did and ends in a        *)
(* snapshot of all plans.                                                  *)

Create(q, p) ==
    /\ plan[p].status = "new"
    /\ Show(q, [plan EXCEPT ![p].status = "draft"], item, trace)
    /\ UNCHANGED <<item, trace, turn, progress, asked, loose, failures, crashes>>

\* Set a status and record it under the plan's correlation id.
Patch(q, p, s) ==
    /\ trace' = Record(trace, plan[p].corr, "other")
    /\ Show(q, [plan EXCEPT ![p].status = s], item, trace')
    /\ UNCHANGED <<item, turn, progress, asked, loose, failures, crashes>>

\* update and approve: the prompt text is not modelled.
Update(q, p) ==
    /\ Exists(p) /\ plan[p].status \notin Owned
    /\ Patch(q, p, plan[p].status)

Approve(q, p) ==
    /\ Exists(p) /\ plan[p].status \notin Owned
    /\ Patch(q, p, "approved")

Move(q, p, s) ==
    /\ Exists(p) /\ s \in UserStatuses
    /\ plan[p].status \in Owned => s = "archived"
    /\ Patch(q, p, s)

Delete(q, p) ==
    /\ Exists(p) /\ ~Stored(plan[p].item)
    /\ trace' = Record(trace, plan[p].corr, "other")
    /\ Show(q, [plan EXCEPT ![p].status = "deleted"], item, trace')
    /\ loose' = IF \E u \in Users : asked[u].plan = p THEN loose \cup {p} ELSE loose
    /\ UNCHANGED <<item, turn, progress, asked, failures, crashes>>

\* Fault: the check looks at the waiting items only.
BeginEnqueueRunning(u, q, p) ==
    /\ asked[u] = NoRequest
    /\ plan[p].status \in {"approved", "queued"}
    /\ ~Waiting(item, plan[p].item)
    /\ asked' = [asked EXCEPT ![u] = [plan |-> p, corr |-> plan[p].corr, at |-> q]]
    /\ loose' = IF \E v \in Users : asked[v].plan = p THEN loose \cup {p} ELSE loose
    /\ UNCHANGED <<plan, item, trace, turn, progress, cut, failures, crashes>>

\* enqueue up to its first await.  A plan whose item is still stored is not
\* queued again: that request is a mere look.
BeginEnqueue(u, q, p) ==
    /\ asked[u] = NoRequest
    /\ plan[p].status \in {"approved", "queued"}
    /\ ~Stored(plan[p].item)
    /\ asked' = [asked EXCEPT ![u] = [plan |-> p, corr |-> plan[p].corr, at |-> q]]
    /\ loose' = IF \E v \in Users : asked[v].plan = p THEN loose \cup {p} ELSE loose
    /\ UNCHANGED <<plan, item, trace, turn, progress, cut, failures, crashes>>

\* The session is the plan's: the prompt is queued with what was read before.
\* A plan that was deleted meanwhile fails here, with its prompt in the queue.
EndEnqueue(u, i) ==
    LET q == asked[u].at
        p == asked[u].plan
        c == IF asked[u].corr = None THEN i ELSE asked[u].corr IN
    /\ asked[u] # NoRequest /\ item[i].state = "new"
    /\ asked' = [asked EXCEPT ![u] = NoRequest]
    /\ item' = [item EXCEPT ![i] = [state |-> "waiting", plan |-> p, corr |-> c]]
    /\ IF Exists(p)
       THEN /\ trace' = Record(trace, c, "other")
            /\ Show(q, [plan EXCEPT ![p] = [status |-> "queued", item |-> i, corr |-> c]],
                    item', trace')
       ELSE UNCHANGED <<trace, plan, cut>>
    /\ UNCHANGED <<turn, progress, loose, failures, crashes>>

\* The session cannot be switched.
EnqueueFails(u) ==
    /\ asked[u] # NoRequest
    /\ asked' = [asked EXCEPT ![u] = NoRequest]
    /\ UNCHANGED <<plan, item, trace, turn, progress, loose, cut, failures, crashes>>

-----------------------------------------------------------------------------
(* The queue                                                               *)

Drop(I) ==
    /\ item' = [i \in Ids |-> IF i \in I THEN [item[i] EXCEPT !.state = "gone"] ELSE item[i]]
    /\ cut' = cut \cup {item[i].plan : i \in
                 {j \in I : \/ trace[item[j].corr] = "started"
                            \/ plan[item[j].plan].status = "in_progress"
                            \/ \E q \in Runtimes : \/ turn[q].item = j
                                                   \/ progress[q] = item[j].corr}}

\* A user cancels a queued prompt, or clears the queue.
Cancel(i) ==
    /\ Stored(i)
    /\ Drop({i})
    /\ trace' = Record(trace, item[i].corr, "other")
    /\ UNCHANGED <<plan, turn, progress, asked, loose, failures, crashes>>

Clear ==
    /\ \E i \in Ids : Stored(i)
    /\ Drop({i \in Ids : Stored(i)})
    /\ UNCHANGED <<plan, trace, turn, progress, asked, loose, failures, crashes>>

\* A user moves it up, down or to the top.  Recorded between the completion
\* of a turn and the end of its lease, that hides the completion.
Reorder(i) ==
    /\ Stored(i)
    /\ trace' = Record(trace, item[i].corr, "other")
    /\ cut' = IF trace[item[i].corr] = "completed" THEN cut \cup {item[i].plan} ELSE cut
    /\ UNCHANGED <<plan, item, turn, progress, asked, loose, failures, crashes>>

\* A user runs it now, which takes it out and puts it back without its lease.
RunNow(i) ==
    /\ Stored(i)
    /\ item' = [item EXCEPT ![i].state = "waiting"]
    /\ trace' = Record(trace, item[i].corr, "other")
    /\ UNCHANGED <<plan, turn, progress, asked, loose, cut, failures, crashes>>

SetTurn(q, i, at) == turn' = [turn EXCEPT ![q] = [item |-> i, at |-> at]]

\* One runtime drains at a time.
Lease(q, i) ==
    /\ \A o \in Runtimes : turn[o] = Idle
    /\ item[i].state = "waiting"
    /\ item' = [item EXCEPT ![i].state = "leased"]
    /\ SetTurn(q, i, "leased")
    /\ UNCHANGED <<plan, trace, progress, asked, loose, cut, failures, crashes>>

\* The turn sets currentProgress, which nothing resets, and records its start.
Start(q) ==
    LET c == item[turn[q].item].corr IN
    /\ turn[q].at = "leased"
    /\ progress' = [progress EXCEPT ![q] = c]
    /\ trace' = Record(trace, c, "started")
    /\ SetTurn(q, turn[q].item, "running")
    /\ UNCHANGED <<plan, item, asked, loose, cut, failures, crashes>>

\* A tool starts or ends.
ToolEvent(q) ==
    /\ turn[q].at = "running"
    /\ trace' = Record(trace, item[turn[q].item].corr, "started")
    /\ UNCHANGED <<plan, item, turn, progress, asked, loose, cut, failures, crashes>>

Complete(q) ==
    /\ turn[q].at = "running"
    /\ trace' = Record(trace, item[turn[q].item].corr, "completed")
    /\ SetTurn(q, turn[q].item, "completed")
    /\ UNCHANGED <<plan, item, progress, asked, loose, cut, failures, crashes>>

\* The turn fails, or does not begin at all, which leaves no event.
Fail(q) ==
    /\ turn[q].at \in {"leased", "running"} /\ failures < MaxFailures
    /\ failures' = failures + 1
    /\ trace' = IF turn[q].at = "running"
                THEN Record(trace, item[turn[q].item].corr, "failed") ELSE trace
    /\ SetTurn(q, turn[q].item, "failed")
    /\ UNCHANGED <<plan, item, progress, asked, loose, cut, crashes>>

\* completeLease or failLease, unless the item was removed.
EndTurn(q) ==
    LET i == turn[q].item IN
    /\ turn[q].at \in {"completed", "failed"}
    /\ turn' = [turn EXCEPT ![q] = Idle]
    /\ item' = [item EXCEPT ![i].state =
                  IF @ # "leased" THEN @
                  ELSE IF turn[q].at = "completed" THEN "gone" ELSE "waiting"]
    /\ UNCHANGED <<plan, trace, progress, asked, loose, cut, failures, crashes>>

\* A runtime's process dies with its requests; the lease it held runs out.
Crash(q) ==
    /\ crashes < MaxCrashes
    /\ crashes' = crashes + 1
    /\ turn' = [turn EXCEPT ![q] = Idle]
    /\ progress' = [progress EXCEPT ![q] = None]
    /\ asked' = [u \in Users |-> IF asked[u].at = q THEN NoRequest ELSE asked[u]]
    /\ UNCHANGED <<plan, item, trace, loose, cut, failures>>

Lapse(i) ==
    /\ item[i].state = "leased"
    /\ \A q \in Runtimes : turn[q].item # i
    /\ item' = [item EXCEPT ![i].state = "waiting"]
    /\ UNCHANGED <<plan, trace, turn, progress, asked, loose, cut, failures, crashes>>

-----------------------------------------------------------------------------
Change(q, p) ==
    \/ Create(q, p) \/ Update(q, p) \/ Approve(q, p) \/ Delete(q, p)
    \/ \E s \in UserStatuses : Move(q, p, s)

Enqueue(u) ==
    \/ \E q \in Runtimes, p \in Plans : BeginEnqueue(u, q, p)
    \/ \E i \in Ids : EndEnqueue(u, i)
    \/ EnqueueFails(u)

Turn(q) == Start(q) \/ ToolEvent(q) \/ Complete(q) \/ Fail(q) \/ EndTurn(q)

Next ==
    \/ \E q \in Runtimes : Look(q) \/ Turn(q) \/ Crash(q)
    \/ \E q \in Runtimes, p \in Plans : Change(q, p)
    \/ \E u \in Users : Enqueue(u)
    \/ Clear
    \/ \E i \in Ids : Cancel(i) \/ Reorder(i) \/ RunNow(i) \/ Lapse(i)
    \/ \E q \in Runtimes, i \in Ids : Lease(q, i)

Spec == Init /\ [][Next]_vars

\* Somebody goes on looking in every runtime, and turns come to an end.
Fairness == \A q \in Runtimes : /\ WF_vars(Look(q))
                                /\ WF_vars(Start(q) \/ Complete(q) \/ EndTurn(q))

FairSpec == Spec /\ Fairness

-----------------------------------------------------------------------------
(* Properties                                                              *)

(* A prompt in the queue is the one its plan knows of, so that a plan has  *)
(* one prompt there at most, however requests, looks, turns, failures and  *)
(* crashes interleave: unless an enqueue met another one of the same plan, *)
(* or its deletion, while it switched the session.                         *)
ItemTracked ==
    \A i \in Ids : Stored(i) =>
        LET p == item[i].plan IN p \in loose \/ (Exists(p) /\ plan[p].item = i)

InQueue(p) == Stored(plan[p].item) \/ \E q \in Runtimes : turn[q].item = plan[p].item

(* A plan that the runtime owns, and that only the runtime can therefore   *)
(* change, leaves that status once its prompt has left the queue: unless   *)
(* the prompt was removed after its start, or a runtime that is done with  *)
(* it has shown it as its current one.                                     *)
PlanSettles ==
    \A p \in Plans :
        (plan[p].status \in Owned /\ ~InQueue(p)) ~>
            \/ plan[p].status \notin Owned \/ InQueue(p)
            \/ p \in loose \cup cut

(* "Runtime statuses are updated automatically from queue activity": a     *)
(* plan whose prompt is completed is not in progress for ever.             *)
CompletedIsShown ==
    \A p \in Plans, c \in Ids :
        (plan[p].corr = c /\ plan[p].status \in Owned /\ trace[c] = "completed") ~>
            (plan[p].status \notin Owned \/ trace[c] # "completed")

=============================================================================

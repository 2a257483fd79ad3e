---------------------------- MODULE RuntimeDrain ----------------------------
(***************************************************************************)
(* The dashboard context of RelayRuntime: the WebUI process and the        *)
(* connector each have a runtime for it, with an agent session of its own, *)
(* and share the queue and the drain lock of the prompt store.             *)
(*   relay-runtime-prompt-queue-artifacts.ts  sendEnvelope, runPrompt,     *)
(*                                            drainQueue, queueAction      *)
(*   relay-queue-drain-lock.ts                withQueueDrainLock           *)
(*   relay-queue-service.ts                   the queue commands           *)
(*                                                                         *)
(* Unlike the chat bridges nothing polls this queue: drainQueue runs only  *)
(* when somebody calls it.  "wake" records that a call is on its way.      *)
(* Node runs one callback at a time, so an action is what a process does   *)
(* between two awaits of I/O; promises that settle in the same tick are    *)
(* one step.  A runtime's name stands for its queueDrainOwnerId and for    *)
(* its drain; after a restart the owner id is a new one, and what the old  *)
(* one holds belongs to Gone.                                              *)
(***************************************************************************)
EXTENDS Naturals, SequencesExt

CONSTANTS
    Ids, NoKey, Tokens, NoToken, Nothing,
    Runtimes,     \* the processes that serve the dashboard context
    Sends,        \* prompts people send through the WebUI
    At,           \* the runtime each of them is sent to
    Gone,         \* owner id of a process that died
    MaxFaults,    \* bound: restarts and failed session lookups
    MaxExternal,  \* bound: turns typed into the agent's own CLI
    MaxNudges     \* bound: presses of "Abort" and "run"

ASSUME RuntimeAssumption ==
    /\ Runtimes # {} /\ Runtimes \cap Sends = {} /\ Nothing \notin Runtimes \cup Sends
    /\ At \in [Sends -> Runtimes]
    /\ Gone \notin Runtimes \cup {Nothing}
    /\ MaxFaults \in Nat /\ MaxExternal \in Nat /\ MaxNudges \in Nat

VARIABLES
    queue, item, used, issued, hand, limbo, done, removed, lost, expired, pulled,
    paused,     \* pausedContexts has the context
    lock,       \* drainLocks of the context: its owner, and whether it is live
    draining,   \* per runtime: the draining flag
    wake,       \* per runtime: a call of drainQueue is on its way
    pc,         \* where each drain and each sent prompt stands
    session,    \* per runtime: the task whose turn its agent session runs
    external,   \* a turn is running in the agent's own CLI
    seen,       \* per runtime: its monitor has seen that turn running
    budget,     \* bounds: faults, external turns and nudges so far
    lapsed,     \* history: runtimes whose drain lock ran out during their drain
    overrun,    \* history: leases taken since the pause by drains that had not lapsed
    excuse      \* history: why the queue may have come to a halt

Tasks == Runtimes \cup Sends
RuntimeOf(t) == IF t \in Runtimes THEN t ELSE At[t]

PQ == INSTANCE PromptQueue WITH Keys <- {}, Workers <- Runtimes, Users <- Runtimes

ASSUME StoreAssumption == PQ!QueueAssumption

storeVars == <<queue, item, used, issued>>
queueVars == <<storeVars, hand, limbo, done, removed, lost, expired, pulled>>
flowVars  == <<draining, wake, pc, session>>
worldVars == <<external, seen, budget>>
ghostVars == <<lapsed, overrun, excuse>>
vars      == <<queueVars, paused, lock, flowVars, worldVars, ghostVars>>

NoLock == [owner |-> Nothing, live |-> FALSE]

Excuses == {"failed", "paused", "restart", "session", "unseen", "lock"}

-----------------------------------------------------------------------------
(* length(): items with status "queued" *)
Waiting == {id \in Range(queue) : item[id].status = "queued"}

Runnable == \E i \in DOMAIN queue : PQ!Runnable(item[queue[i]])

BusyFor(r) == session[r] # Nothing \/ external

(* Between the two updates of "run" the process does nothing else. *)
Responsive(r) == limbo[r] = Nothing

Goto(t, place) == pc' = [pc EXCEPT ![t] = place]
Wake(r)        == wake' = [wake EXCEPT ![r] = TRUE]

(* Fault: whoever releases the lock, it goes *)
ReleaseAny(r) == lock' = NoLock

(* releaseDrainLock *)
Release(r) == lock' = IF lock.owner = r THEN NoLock ELSE lock

-----------------------------------------------------------------------------
(* drainQueue                                                              *)

(* A call that finds a drain of its own under way, the queue paused, or    *)
(* the lock with another owner returns, and nobody repeats it.             *)
DrainRefused(r) ==
    /\ wake[r] /\ Responsive(r)
    /\ \/ draining[r] \/ paused
       \/ lock.owner \notin {Nothing, r} /\ lock.live
    /\ wake' = [wake EXCEPT ![r] = FALSE]
    /\ excuse' = excuse \cup (IF paused THEN {"paused"} ELSE {})
                        \cup (IF lock.owner = Gone THEN {"lock"} ELSE {})
    /\ UNCHANGED <<queueVars, paused, lock, draining, pc, session, worldVars,
                   lapsed, overrun>>

(* Fault: the pause is not looked at *)
BeginDrainPaused(r) ==
    /\ wake[r] /\ Responsive(r)
    /\ ~draining[r]
    /\ lock.owner \in {Nothing, r} \/ ~lock.live
    /\ wake' = [wake EXCEPT ![r] = FALSE]
    /\ lock' = [owner |-> r, live |-> TRUE]
    /\ draining' = [draining EXCEPT ![r] = TRUE]
    /\ lapsed' = lapsed \ {r}
    /\ Goto(r, "lookup")
    /\ UNCHANGED <<queueVars, paused, session, worldVars, overrun, excuse>>

(* acquireDrainLock succeeds; the flag goes up before the session is       *)
(* awaited.                                                                *)
BeginDrain(r) ==
    /\ wake[r] /\ Responsive(r)
    /\ ~draining[r] /\ ~paused
    /\ lock.owner \in {Nothing, r} \/ ~lock.live
    /\ wake' = [wake EXCEPT ![r] = FALSE]
    /\ lock' = [owner |-> r, live |-> TRUE]
    /\ draining' = [draining EXCEPT ![r] = TRUE]
    /\ lapsed' = lapsed \ {r}
    /\ Goto(r, "lookup")
    /\ UNCHANGED <<queueVars, paused, session, worldVars, overrun, excuse>>

(* getSession throws outside the inner try: the lock is released, the      *)
(* draining flag stays up.                                                 *)
LookupFails(r) ==
    /\ pc[r] = "lookup" /\ Responsive(r)
    /\ budget.faults < MaxFaults
    /\ budget' = [budget EXCEPT !.faults = @ + 1]
    /\ Release(r)
    /\ Goto(r, "idle")
    /\ excuse' = excuse \cup {"session"}
    /\ UNCHANGED <<queueVars, paused, draining, wake, session, external, seen,
                   lapsed, overrun>>

(* The session is busy, or no item can run: the drain leaves.              *)
LeaveDrain(r) ==
    /\ pc[r] = "lookup" /\ Responsive(r)
    /\ BusyFor(r) \/ ~Runnable
    /\ draining' = [draining EXCEPT ![r] = FALSE]
    /\ Release(r)
    /\ Goto(r, "idle")
    /\ UNCHANGED <<queueVars, paused, wake, session, worldVars, ghostVars>>

(* leaseNext; runPrompt prepares the turn.                                 *)
LeaseItem(r) ==
    /\ pc[r] = "lookup" /\ Responsive(r)
    /\ ~BusyFor(r)
    /\ PQ!LeaseNext(r)
    /\ overrun' = IF paused /\ r \notin lapsed THEN overrun + 1 ELSE overrun
    /\ Goto(r, "preparing")
    /\ UNCHANGED <<paused, lock, draining, wake, session, worldVars, lapsed, excuse>>

RenewLease(r) ==
    /\ pc[r] \in {"preparing", "turn", "ending", "failing"} /\ Responsive(r)
    /\ PQ!RenewLease(r)
    /\ UNCHANGED <<paused, lock, flowVars, worldVars, ghostVars>>

(* renewDrainLock asks for the owner only.                                 *)
RenewLock(r) ==
    /\ pc[r] # "idle" /\ Responsive(r)
    /\ lock.owner = r
    /\ lock' = [lock EXCEPT !.live = TRUE]
    /\ UNCHANGED <<queueVars, paused, flowVars, worldVars, ghostVars>>

(* Fault: no follow-up drain *)
DrainCompletesAlone(r) ==
    /\ pc[r] = "ending" /\ Responsive(r)
    /\ PQ!CompleteLease(r)
    /\ draining' = [draining EXCEPT ![r] = FALSE]
    /\ Release(r)
    /\ Goto(r, "idle")
    /\ UNCHANGED <<paused, wake, session, worldVars, ghostVars>>

(* The run succeeded: complete, lower the flag, release the lock, and call *)
(* again later if prompts wait and the queue is not paused.                *)
DrainCompletes(r) ==
    /\ pc[r] = "ending" /\ Responsive(r)
    /\ PQ!CompleteLease(r)
    /\ draining' = [draining EXCEPT ![r] = FALSE]
    /\ Release(r)
    /\ IF Waiting' # {} /\ ~paused THEN Wake(r) ELSE UNCHANGED wake
    /\ excuse' = IF paused THEN excuse \cup {"paused"} ELSE excuse
    /\ Goto(r, "idle")
    /\ UNCHANGED <<paused, session, worldVars, lapsed, overrun>>

(* Fault: the draining flag is lowered on success only *)
DrainFailsMarked(r) ==
    /\ pc[r] = "failing" /\ Responsive(r)
    /\ PQ!FailLease(r)
    /\ Release(r)
    /\ excuse' = excuse \cup {"failed"}
    /\ Goto(r, "idle")
    /\ UNCHANGED <<paused, draining, wake, session, worldVars, lapsed, overrun>>

(* The run threw: the item goes back in front, and nobody is called.       *)
DrainFails(r) ==
    /\ pc[r] = "failing" /\ Responsive(r)
    /\ PQ!FailLease(r)
    /\ draining' = [draining EXCEPT ![r] = FALSE]
    /\ Release(r)
    /\ excuse' = excuse \cup {"failed"}
    /\ Goto(r, "idle")
    /\ UNCHANGED <<paused, wake, session, worldVars, lapsed, overrun>>

-----------------------------------------------------------------------------
(* sendEnvelope                                                            *)

(* A prompt arrives; its session is looked up.                             *)
Send(s) ==
    /\ pc[s] = "new" /\ Responsive(At[s])
    /\ Goto(s, "lookup")
    /\ UNCHANGED <<queueVars, paused, lock, draining, wake, session, worldVars, ghostVars>>

(* The session or the agent's CLI is busy: the prompt is queued.           *)
SendQueues(s) ==
    /\ pc[s] = "lookup" /\ Responsive(At[s])
    /\ BusyFor(At[s])
    /\ PQ!Enqueue(NoKey, TRUE)
    /\ Goto(s, "over")
    /\ UNCHANGED <<paused, lock, draining, wake, session, worldVars, ghostVars>>

(* Idle: runPrompt starts and the request is answered "not queued".  When  *)
(* the workspace policy forbids the turn, runPrompt throws before its try, *)
(* and drainQueue is not called.                                           *)
SendRuns(s) ==
    /\ pc[s] = "lookup" /\ Responsive(At[s])
    /\ ~BusyFor(At[s])
    /\ Goto(s, "preparing") \/ Goto(s, "over")
    /\ UNCHANGED <<queueVars, paused, lock, draining, wake, session, worldVars, ghostVars>>

-----------------------------------------------------------------------------
(* A turn of a drain or of a sent prompt: ensureActiveThread and checkAuth *)
(* were awaited, session.prompt takes the turn or throws.                  *)

BeginTurn(t) ==
    /\ pc[t] = "preparing" /\ Responsive(RuntimeOf(t))
    /\ session[RuntimeOf(t)] = Nothing
    /\ session' = [session EXCEPT ![RuntimeOf(t)] = t]
    /\ Goto(t, "turn")
    /\ UNCHANGED <<queueVars, paused, lock, draining, wake, worldVars, ghostVars>>

TurnRefused(t) ==
    /\ pc[t] = "preparing" /\ Responsive(RuntimeOf(t))
    /\ Goto(t, "failing")
    /\ UNCHANGED <<queueVars, paused, lock, draining, wake, session, worldVars, ghostVars>>

EndTurn(t) ==
    /\ pc[t] = "turn" /\ Responsive(RuntimeOf(t))
    /\ session' = [session EXCEPT ![RuntimeOf(t)] = Nothing]
    /\ Goto(t, "ending") \/ Goto(t, "failing")
    /\ UNCHANGED <<queueVars, paused, lock, draining, wake, worldVars, ghostVars>>

(* The finally of runPrompt calls drainQueue, however the turn went.       *)
SendFinishes(s) ==
    /\ pc[s] \in {"ending", "failing"} /\ Responsive(At[s])
    /\ Goto(s, "over")
    /\ Wake(At[s])
    /\ UNCHANGED <<queueVars, paused, lock, draining, session, worldVars, ghostVars>>

-----------------------------------------------------------------------------
(* People                                                                  *)

Pause(r) ==
    /\ ~paused /\ Responsive(r)
    /\ paused' = TRUE /\ overrun' = 0
    /\ UNCHANGED <<queueVars, lock, flowVars, worldVars, lapsed, excuse>>

(* "resume" changes the flag and calls nobody.                             *)
Resume(r) ==
    /\ paused /\ Responsive(r)
    /\ paused' = FALSE
    /\ UNCHANGED <<queueVars, lock, flowVars, worldVars, ghostVars>>

Edit(r, id) ==
    /\ Responsive(r)
    /\ \/ PQ!Cancel(id) \/ PQ!MoveToTop(id) \/ PQ!MoveUp(id) \/ PQ!MoveDown(id)
       \/ PQ!ClearQueue
    /\ UNCHANGED <<paused, lock, flowVars, worldVars, ghostVars>>

Nudge == /\ budget.nudges < MaxNudges
         /\ budget' = [budget EXCEPT !.nudges = @ + 1]

(* "run" is remove, enqueueFront, drainQueue in one callback.              *)
RunRemove(r, id) ==
    /\ Nudge
    /\ PQ!RunNowRemove(r, id)
    /\ UNCHANGED <<paused, lock, flowVars, external, seen, ghostVars>>

RunFront(r) ==
    /\ PQ!RunNowFront(r)
    /\ Wake(r)
    /\ UNCHANGED <<paused, lock, draining, pc, session, worldVars, ghostVars>>

(* "Abort" ends with drainQueue, whether or not it ended a turn.           *)
Abort(r) ==
    /\ Nudge /\ Responsive(r)
    /\ Wake(r)
    /\ UNCHANGED <<queueVars, paused, lock, draining, pc, session, external, seen, ghostVars>>

-----------------------------------------------------------------------------
(* Time, the agent's CLI, and restarts                                     *)

LeaseExpires(id) ==
    /\ PQ!LeaseExpires(id)
    /\ UNCHANGED <<paused, lock, flowVars, worldVars, ghostVars>>

(* The owner is suspended or gone for longer than QUEUE_DRAIN_LOCK_TTL_MS. *)
LockExpires ==
    /\ lock.live
    /\ lock' = [lock EXCEPT !.live = FALSE]
    /\ lapsed' = lapsed \cup ({lock.owner} \cap Runtimes)
    /\ UNCHANGED <<queueVars, paused, flowVars, worldVars, overrun, excuse>>

ExternalStarts ==
    /\ ~external /\ budget.external < MaxExternal
    /\ external' = TRUE
    /\ seen' = [r \in Runtimes |-> FALSE]
    /\ budget' = [budget EXCEPT !.external = @ + 1]
    /\ UNCHANGED <<queueVars, paused, lock, flowVars, ghostVars>>

(* RelayExternalActivityMonitor looks while its session is idle.           *)
Monitor(r) ==
    /\ external /\ ~seen[r] /\ session[r] = Nothing /\ Responsive(r)
    /\ seen' = [seen EXCEPT ![r] = TRUE]
    /\ UNCHANGED <<queueVars, paused, lock, flowVars, external, budget, ghostVars>>

(* The monitors that saw the turn running call drainQueue at its end; a    *)
(* monitor that first looks afterwards takes the end for old news.         *)
ExternalEnds ==
    /\ external
    /\ external' = FALSE
    /\ wake' = [r \in Runtimes |-> wake[r] \/ seen[r]]
    /\ excuse' = excuse \cup (IF \E r \in Runtimes : ~seen[r] THEN {"unseen"} ELSE {})
    /\ UNCHANGED <<queueVars, paused, lock, draining, pc, session, seen, budget,
                   lapsed, overrun>>

(* Fault: a starting process takes every lease away *)
RestartUnleases(r) ==
    /\ budget.faults < MaxFaults
    /\ budget' = [budget EXCEPT !.faults = @ + 1]
    /\ item' = [id \in Ids |-> PQ!Unleased(item[id])]
    /\ hand' = [hand EXCEPT ![r] = Nothing]
    /\ draining' = [draining EXCEPT ![r] = FALSE]
    /\ wake' = [wake EXCEPT ![r] = FALSE]
    /\ session' = [session EXCEPT ![r] = Nothing]
    /\ pc' = [t \in Tasks |-> IF RuntimeOf(t) # r THEN pc[t]
                             ELSE IF t = r THEN "idle" ELSE "over"]
    /\ UNCHANGED <<queue, used, issued, limbo, done, removed, lost, expired, pulled,
                   paused, lock, external, seen, ghostVars>>

(* The process of r dies and comes back under a new owner id.              *)
Restart(r) ==
    /\ budget.faults < MaxFaults
    /\ budget' = [budget EXCEPT !.faults = @ + 1]
    /\ PQ!Crash({r}, {r})
    /\ lock' = IF lock.owner = r THEN [lock EXCEPT !.owner = Gone] ELSE lock
    /\ draining' = [draining EXCEPT ![r] = FALSE]
    /\ wake' = [wake EXCEPT ![r] = FALSE]
    /\ session' = [session EXCEPT ![r] = Nothing]
    /\ pc' = [t \in Tasks |-> IF RuntimeOf(t) # r THEN pc[t]
                             ELSE IF t = r THEN "idle"
                             ELSE IF pc[t] = "new" THEN "new" ELSE "over"]
    /\ seen' = [seen EXCEPT ![r] = FALSE]
    /\ lapsed' = lapsed \ {r}
    /\ excuse' = excuse \cup {"restart"}
    /\ UNCHANGED <<paused, external, overrun>>

-----------------------------------------------------------------------------
Init ==
    /\ PQ!Init
    /\ paused = FALSE /\ lock = NoLock
    /\ draining = [r \in Runtimes |-> FALSE] /\ wake = [r \in Runtimes |-> FALSE]
    /\ pc = [t \in Tasks |-> IF t \in Runtimes THEN "idle" ELSE "new"]
    /\ session = [r \in Runtimes |-> Nothing]
    /\ external = FALSE /\ seen = [r \in Runtimes |-> FALSE]
    /\ budget = [faults |-> 0, external |-> 0, nudges |-> 0]
    /\ lapsed = {} /\ overrun = 0 /\ excuse = {}

Draining(r) ==
    \/ DrainRefused(r) \/ BeginDrain(r) \/ LeaveDrain(r) \/ LeaseItem(r)
    \/ DrainCompletes(r) \/ DrainFails(r)

Sending(s) == SendQueues(s) \/ SendRuns(s) \/ SendFinishes(s)

Turning(t) == BeginTurn(t) \/ TurnRefused(t) \/ EndTurn(t)

People(r) ==
    \/ Pause(r) \/ Resume(r) \/ Abort(r) \/ RunFront(r)
    \/ \E id \in Ids : Edit(r, id) \/ RunRemove(r, id)

World ==
    \/ LockExpires \/ ExternalStarts \/ ExternalEnds
    \/ \E id \in Ids : LeaseExpires(id)
    \/ \E r \in Runtimes : Monitor(r) \/ Restart(r) \/ LookupFails(r)

Next ==
    \/ \E r \in Runtimes : Draining(r) \/ RenewLease(r) \/ RenewLock(r) \/ People(r)
    \/ \E s \in Sends : Send(s) \/ Sending(s)
    \/ \E t \in Tasks : Turning(t)
    \/ World

Spec == Init /\ [][Next]_vars

-----------------------------------------------------------------------------
TypeOK ==
    /\ PQ!TypeOK
    /\ paused \in BOOLEAN /\ external \in BOOLEAN
    /\ lock \in [owner : Runtimes \cup {Gone, Nothing}, live : BOOLEAN]
    /\ draining \in [Runtimes -> BOOLEAN] /\ wake \in [Runtimes -> BOOLEAN]
    /\ seen \in [Runtimes -> BOOLEAN]
    /\ pc \in [Tasks -> {"idle", "new", "lookup", "preparing", "turn", "ending", "failing", "over"}]
    /\ session \in [Runtimes -> Tasks \cup {Nothing}]
    /\ lapsed \subseteq Runtimes /\ overrun \in Nat /\ excuse \subseteq Excuses

(* Drains, sent prompts, queue commands and restarts of several processes  *)
(* use the store as PromptQueue allows, so what holds there holds here:    *)
(* what they do around the store loses no accepted prompt.                 *)
UsesPromptQueue == PQ!Spec

(* The drain lock does its job across processes: two runtimes drain at the *)
(* same time only if one of them let its lock run out, although the lock   *)
(* can be renewed late, taken over, and released after a takeover.         *)
OneDrain ==
    \A r, x \in Runtimes :
        r # x /\ pc[r] # "idle" /\ pc[x] # "idle" => r \in lapsed \/ x \in lapsed

(* The draining flag of a runtime is up exactly while it drains, as long   *)
(* as no session lookup has failed.                                        *)
DrainingMarked ==
    "session" \notin excuse => \A r \in Runtimes : draining[r] <=> pc[r] # "idle"

(* A prompt whose drain had already read "not paused" may still start, but *)
(* only one across all processes, drains that lost their lock apart.       *)
PauseOverrunsByOne == overrun <= 1

(* No wake-up is lost: when everything has come to rest, no prompt waits,  *)
(* unless one of the known causes has struck: a drained prompt failed, a   *)
(* call came while the queue was paused, a process restarted or its        *)
(* session could not be looked up, or a CLI turn ended unseen.             *)
AtRest ==
    /\ ~external /\ ~paused
    /\ \A r \in Runtimes : ~wake[r] /\ pc[r] = "idle" /\ limbo[r] = Nothing
    /\ \A s \in Sends : pc[s] \in {"new", "over"}

NoLostWakeup == AtRest /\ excuse = {} => Waiting = {}

=============================================================================

---------------------------- MODULE ChannelDrain ----------------------------
(***************************************************************************)
(* One chat context of the connector process: its session, the prompts     *)
(* people send to it, and the drain that runs queued prompts when the      *)
(* session is free.  Two code paths share the design.                      *)
(*   "bridge"    Discord, Slack and Matrix:                                *)
(*               channels/shared/channel-prompt-queue.ts with handlePrompt *)
(*               and drainQueue of discord-bot.ts                          *)
(*   "telegram"  drainQueuedPrompts and handleUserPrompt of telegram/bot.ts*)
(*                                                                         *)
(* Node runs one callback at a time, so an action is what the code does    *)
(* between two awaits.  The queue itself is PromptQueue: each action here  *)
(* takes at most one of its steps.                                         *)
(*                                                                         *)
(* A task is the drain or a prompt sent directly.  Both are admitted by    *)
(* the busy check, prepare the turn, and run it in the agent session.      *)
(* Drains are started by the monitor interval, by the end of a turn, by    *)
(* the follow-up timer and by "/queue resume": all of them run the same    *)
(* code, which is one action here, and only the interval is relied on.     *)
(***************************************************************************)
EXTENDS Naturals, SequencesExt

CONSTANTS
    Ids, NoKey, Tokens, NoToken, Nothing,
    Drain,        \* the draining task of the context
    Directs,      \* tasks of prompts that people send
    Users,        \* people who press "run" in Telegram
    Adapter,      \* "bridge" or "telegram"
    MaxFaults,    \* bound: restarts of the connector and chat messages not sent
    MaxExternal,  \* bound: turns typed into the agent's own CLI
    MaxDirects    \* bound: prompts sent, or run out of order, by people

ASSUME ChannelAssumption ==
    /\ Drain \notin Directs /\ Nothing \notin Directs \cup {Drain}
    /\ Adapter \in {"bridge", "telegram"}
    /\ MaxFaults \in Nat /\ MaxExternal \in Nat /\ MaxDirects \in Nat

VARIABLES
    queue, item, used, issued, hand, limbo, done, removed, lost, expired, pulled,
    paused,      \* pausedContexts has the context
    draining,    \* the context is in the draining set
    pc,          \* where each task stands
    processing,  \* busyState.processing
    session,     \* the task whose turn the agent session runs
    external,    \* the agent's CLI is busy, or the session is being switched
    approving,   \* busyState.approving: a prompt waits for "Approve" in Telegram
    budget,      \* bounds: faults, external turns and direct prompts so far
    ran,         \* history: queued prompts whose turn started, no restart cutting it off
    reran,       \* history: queued prompts whose turn started again
    overrun,     \* history: leases taken since the queue was paused
    collided     \* history: a turn was refused because another one was running

Tasks == {Drain} \cup Directs

PQ == INSTANCE PromptQueue WITH Keys <- {}, Workers <- Tasks

ASSUME StoreAssumption == PQ!QueueAssumption

storeVars   == <<queue, item, used, issued>>
queueVars   == <<storeVars, hand, limbo, done, removed, lost, expired, pulled>>
processVars == <<draining, pc, processing, session, approving>>
ghostVars   == <<ran, reran, overrun, collided>>
vars        == <<queueVars, paused, processVars, external, budget, ghostVars>>

-----------------------------------------------------------------------------
(* getBusyReason *)
Busy == processing \/ approving \/ session # Nothing \/ external

Runnable == \E i \in DOMAIN queue : PQ!Runnable(item[queue[i]])

(* No callback is between two updates of the store: no other one runs.     *)
Settled == /\ \A u \in Users : limbo[u] = Nothing
           /\ \A t \in Tasks : pc[t] \notin {"topping", "taking"}

Goto(t, place) == pc' = [pc EXCEPT ![t] = place]

-----------------------------------------------------------------------------
(* The drain                                                               *)

TakesLease ==
    /\ PQ!LeaseNext(Drain)
    /\ overrun' = IF paused THEN overrun + 1 ELSE overrun
    /\ Goto(Drain, "announcing")

(* Fault: the pause is not looked at *)
BeginDrainPaused ==
    /\ Adapter = "bridge"
    /\ Settled /\ ~draining /\ queue # <<>>
    /\ draining' = TRUE
    /\ Goto(Drain, "checking")
    /\ UNCHANGED <<queueVars, paused, processing, session, approving, external, budget, ghostVars>>

(* drainOneQueuedChannelPrompt up to "await isBusy": the pause is read     *)
(* before the wait for the session.                                        *)
BeginDrain ==
    /\ Adapter = "bridge"
    /\ Settled /\ ~draining /\ ~paused /\ queue # <<>>
    /\ draining' = TRUE
    /\ Goto(Drain, "checking")
    /\ UNCHANGED <<queueVars, paused, processing, session, approving, external, budget, ghostVars>>

LeaseOrLeave ==
    /\ pc[Drain] = "checking" /\ Settled
    /\ IF Busy \/ ~Runnable
       THEN /\ draining' = FALSE
            /\ Goto(Drain, "idle")
            /\ UNCHANGED <<queueVars, overrun>>
       ELSE /\ TakesLease
            /\ UNCHANGED draining
    /\ UNCHANGED <<paused, processing, session, external, budget, ran, reran, collided, approving>>

(* Fault: the pause is not looked at *)
DrainTelegramPaused ==
    /\ Adapter = "telegram"
    /\ Settled /\ ~draining /\ ~Busy
    /\ TakesLease
    /\ draining' = TRUE
    /\ UNCHANGED <<paused, processing, session, external, budget, ran, reran, collided, approving>>

(* drainQueuedPrompts: no await before leaseNext.  Passes that find the    *)
(* queue paused, busy or empty leave everything as it was.                 *)
DrainTelegram ==
    /\ Adapter = "telegram"
    /\ Settled /\ ~draining /\ ~paused /\ ~Busy
    /\ TakesLease
    /\ draining' = TRUE
    /\ UNCHANGED <<paused, processing, session, external, budget, ran, reran, collided, approving>>

(* Fault: no finally around the announcement *)
AnnounceFailsMarked ==
    /\ pc[Drain] = "announcing" /\ Settled
    /\ budget.faults < MaxFaults
    /\ budget' = [budget EXCEPT !.faults = @ + 1]
    /\ PQ!Crash({Drain}, {})
    /\ Goto(Drain, "idle")
    /\ UNCHANGED <<paused, draining, processing, session, external, ghostVars, approving>>

(* The "Processing queued prompt" message cannot be sent: the exception    *)
(* leaves before runLeasedQueuedPrompt and the lease stays behind.         *)
AnnounceFails ==
    /\ pc[Drain] = "announcing" /\ Settled
    /\ budget.faults < MaxFaults
    /\ budget' = [budget EXCEPT !.faults = @ + 1]
    /\ PQ!Crash({Drain}, {})
    /\ draining' = FALSE
    /\ Goto(Drain, "idle")
    /\ UNCHANGED <<paused, processing, session, external, ghostVars, approving>>

(* The run throws before the runner's own try: the bridges look the        *)
(* session up again, and every adapter sends a message when it postpones.  *)
(* runLeasedQueuedPrompt fails the lease.                                  *)
RunThrows ==
    /\ \/ pc[Drain] = "announcing" /\ Adapter = "bridge"
       \/ pc[Drain] = "postponed"
    /\ Settled
    /\ budget.faults < MaxFaults
    /\ budget' = [budget EXCEPT !.faults = @ + 1]
    /\ PQ!FailLease(Drain)
    /\ draining' = FALSE
    /\ Goto(Drain, "idle")
    /\ UNCHANGED <<paused, processing, session, external, ghostVars, approving>>

(* The renewal timer of runLeasedQueuedPrompt *)
RenewLease ==
    /\ pc[Drain] \in {"admitted", "preparing", "turn"}
    /\ PQ!RenewLease(Drain)
    /\ UNCHANGED <<paused, processVars, external, budget, ghostVars>>

-----------------------------------------------------------------------------
(* Any task                                                                *)

(* A person sends a prompt. *)
Arrive(d) ==
    /\ pc[d] = "idle" /\ budget.directs < MaxDirects /\ Settled
    /\ budget' = [budget EXCEPT !.directs = @ + 1]
    /\ Goto(d, "arriving")
    /\ UNCHANGED <<queueVars, paused, draining, processing, session, external, ghostVars, approving>>

(* The prompt is dropped without a turn.  In the bridges the session is    *)
(* locked by someone else, or its lookup throws: a prompt that "run" took  *)
(* out of the queue is gone.  In Telegram the chat has lost its            *)
(* permissions: a drain goes on as if it had run the prompt.               *)
TurnedAway(t) ==
    /\ pc[t] \in {"announcing", "arriving", "approved"} /\ Settled
    /\ IF t = Drain
       THEN /\ Adapter = "telegram"
            /\ Goto(t, "postponed")
            /\ UNCHANGED queueVars
       ELSE /\ PQ!Crash({t}, {})
            /\ Goto(t, "idle")
    /\ UNCHANGED <<paused, draining, processing, session, approving, external, budget, ghostVars>>

(* queueChannelPromptIfBusy.  The bridges pass handlePrompt a fresh        *)
(* envelope, which is no QueuedPrompt: a prompt of the queue is enqueued   *)
(* again under a new id.  Telegram puts its copy back in front.            *)
Postpone(t) ==
    /\ pc[t] \in {"announcing", "arriving", "approved"} /\ Settled
    /\ Busy
    /\ IF Adapter = "telegram" /\ hand[t] # Nothing
       THEN PQ!Requeue(t)
       ELSE PQ!Enqueue(NoKey, TRUE)
    /\ Goto(t, IF hand[t] = Nothing THEN "idle" ELSE "postponed")
    /\ UNCHANGED <<paused, draining, processing, session, approving, external, budget, ghostVars>>

(* Fault: processing is set after an await in Telegram too *)
AdmitLate(t) ==
    /\ pc[t] \in {"announcing", "arriving", "approved"} /\ Settled
    /\ ~Busy
    /\ Goto(t, "admitted")
    /\ UNCHANGED <<queueVars, paused, draining, processing, session, approving, external, budget, ghostVars>>

(* The busy check passes.  Telegram sets processing in the same turn of    *)
(* the event loop; the bridges await the check first.                      *)
Admit(t) ==
    /\ pc[t] \in {"announcing", "arriving", "approved"} /\ Settled
    /\ ~Busy
    /\ IF Adapter = "telegram"
       THEN processing' = TRUE /\ Goto(t, "preparing")
       ELSE Goto(t, "admitted") /\ UNCHANGED processing
    /\ UNCHANGED <<queueVars, paused, draining, session, external, budget, ghostVars, approving>>

(* The launch profile asks for approval of every turn (Telegram): the      *)
(* prompt is kept in memory, its context is busy, and a drain goes on as   *)
(* if it had run the prompt.                                               *)
AskApproval(t) ==
    /\ Adapter = "telegram"
    /\ pc[t] \in {"announcing", "arriving"} /\ Settled
    /\ ~Busy
    /\ approving' = TRUE
    /\ Goto(t, IF hand[t] = Nothing THEN "idle" ELSE "postponed")
    /\ UNCHANGED <<queueVars, paused, draining, processing, session, external, budget, ghostVars>>

(* The approval is denied or times out. *)
Deny ==
    /\ approving /\ Settled
    /\ approving' = FALSE
    /\ UNCHANGED <<queueVars, paused, draining, pc, processing, session, external, budget, ghostVars>>

(* Approved: the prompt comes back as if it had just been sent.            *)
Approve(d) ==
    /\ approving /\ Settled /\ pc[d] = "idle"
    /\ approving' = FALSE
    /\ Goto(d, "approved")
    /\ UNCHANGED <<queueVars, paused, draining, processing, session, external, budget, ghostVars>>

(* runChannelLocalPrompt starts. *)
Start(t) ==
    /\ pc[t] = "admitted" /\ Settled
    /\ processing' = TRUE
    /\ Goto(t, "preparing")
    /\ UNCHANGED <<queueVars, paused, draining, session, external, budget, ghostVars, approving>>

(* Authentication, thread and policy are fine: session.prompt accepts the  *)
(* turn unless it is running one.                                          *)
BeginTurn(t) ==
    /\ pc[t] = "preparing" /\ Settled
    /\ session = Nothing
    /\ Adapter = "telegram" => ~external
    /\ session' = t
    /\ IF hand[t] = Nothing
       THEN UNCHANGED <<ran, reran>>
       ELSE /\ ran' = ran \cup {hand[t].id}
            /\ reran' = reran \cup ({hand[t].id} \cap ran)
    /\ Goto(t, "turn")
    /\ UNCHANGED <<queueVars, paused, draining, processing, external, budget, overrun, collided, approving>>

(* The turn cannot start: a check or the session runs another one. *)
TurnRefused(t) ==
    /\ pc[t] = "preparing" /\ Settled
    /\ collided' = (collided \/ session # Nothing)
    /\ Goto(t, "ending")
    /\ UNCHANGED <<queueVars, paused, draining, processing, session, external, budget, ran, reran, overrun, approving>>

(* Telegram looks at the agent's CLI once more: the prompt goes in front   *)
(* of the queue.  One that is not from the queue is enqueued and moved.    *)
(* (An approved one that once was in the queue keeps its old id there.)    *)
LateBusy(t) ==
    /\ Adapter = "telegram"
    /\ pc[t] = "preparing" /\ Settled
    /\ external
    /\ IF hand[t] # Nothing
       THEN PQ!Requeue(t) /\ Goto(t, "ending")
       ELSE PQ!Enqueue(NoKey, TRUE) /\ Goto(t, "topping")
    /\ UNCHANGED <<paused, draining, processing, session, approving, external, budget, ghostVars>>

MoveOnTop(t) ==
    /\ pc[t] = "topping"
    /\ PQ!MoveToTop(Last(queue))
    /\ Goto(t, "ending")
    /\ UNCHANGED <<paused, draining, processing, session, approving, external, budget, ghostVars>>

(* The turn ends or throws: the runner returns normally either way.        *)
EndTurn(t) ==
    /\ pc[t] = "turn" /\ Settled
    /\ session' = Nothing
    /\ Goto(t, "ending")
    /\ UNCHANGED <<queueVars, paused, draining, processing, external, budget, ran, reran, overrun, collided, approving>>

(* Fault: the drain fails its lease instead of completing it *)
FinishFailing(t) ==
    /\ pc[t] \in {"ending", "postponed"} /\ Settled
    /\ processing' = (processing /\ pc[t] # "ending")
    /\ IF hand[t] = Nothing THEN UNCHANGED queueVars ELSE PQ!FailLease(t)
    /\ draining' = (draining /\ t # Drain)
    /\ Goto(t, "idle")
    /\ UNCHANGED <<paused, session, external, budget, ghostVars, approving>>

(* The finally of the runner, and what its caller does next: both runners  *)
(* swallow the error of the turn, so a drain always completes its lease.   *)
Finish(t) ==
    /\ pc[t] \in {"ending", "postponed"} /\ Settled
    /\ processing' = (processing /\ pc[t] # "ending")
    /\ IF hand[t] = Nothing THEN UNCHANGED queueVars ELSE PQ!CompleteLease(t)
    /\ draining' = (draining /\ t # Drain)
    /\ Goto(t, "idle")
    /\ UNCHANGED <<paused, session, external, budget, ghostVars, approving>>

-----------------------------------------------------------------------------
(* People                                                                  *)

Pause ==
    /\ ~paused /\ Settled
    /\ paused' = TRUE /\ overrun' = 0
    /\ UNCHANGED <<queueVars, processVars, external, budget, ran, reran, collided>>

Resume ==
    /\ paused /\ Settled
    /\ paused' = FALSE
    /\ UNCHANGED <<queueVars, processVars, external, budget, ghostVars>>

(* "/queue later <minutes> <prompt>" of Telegram *)
EnqueueLater ==
    /\ Adapter = "telegram" /\ Settled
    /\ PQ!Enqueue(NoKey, FALSE)
    /\ UNCHANGED <<paused, processVars, external, budget, ghostVars>>

Edit(id) ==
    /\ Settled
    /\ \/ PQ!Cancel(id) \/ PQ!MoveToTop(id) \/ PQ!MoveUp(id) \/ PQ!MoveDown(id)
       \/ PQ!ClearQueue
    /\ UNCHANGED <<paused, processVars, external, budget, ghostVars>>

(* Telegram "run": remove, then enqueueFront and resume, in one callback.  *)
RunRemove(u, id) ==
    /\ Adapter = "telegram" /\ Settled /\ budget.directs < MaxDirects
    /\ PQ!RunNowRemove(u, id)
    /\ budget' = [budget EXCEPT !.directs = @ + 1]
    /\ UNCHANGED <<paused, processVars, external, ghostVars>>

RunFront(u) ==
    /\ PQ!RunNowFront(u)
    /\ paused' = FALSE
    /\ UNCHANGED <<processVars, external, budget, ghostVars>>

(* The "/queue run" command of Telegram goes on when the session is free:  *)
(* it dequeues the first item that is due and runs it without a lease.     *)
RunCommandFront(u, d) ==
    /\ PQ!RunNowFront(u)
    /\ ~Busy /\ pc[d] = "idle"
    /\ paused' = FALSE
    /\ Goto(d, "taking")
    /\ UNCHANGED <<draining, processing, session, approving, external, budget, ghostVars>>

TakeNext(d) ==
    /\ pc[d] = "taking"
    /\ IF \E id \in Range(queue) : item[id].due
       THEN PQ!Dequeue(d) /\ Goto(d, "arriving")
       ELSE Goto(d, "idle") /\ UNCHANGED queueVars
    /\ UNCHANGED <<paused, draining, processing, session, approving, external, budget, ghostVars>>

(* Discord, Slack and Matrix "run": remove, then handlePrompt as if the    *)
(* prompt had just been sent.                                              *)
RunDirect(d, id) ==
    /\ Adapter = "bridge" /\ Settled
    /\ pc[d] = "idle" /\ budget.directs < MaxDirects
    /\ PQ!RunTaken(d, id)
    /\ budget' = [budget EXCEPT !.directs = @ + 1]
    /\ Goto(d, "arriving")
    /\ UNCHANGED <<paused, draining, processing, session, external, ghostVars, approving>>

-----------------------------------------------------------------------------
(* Time, the agent's CLI, and restarts                                     *)

Expire(id) ==
    /\ Settled
    /\ PQ!LeaseExpires(id) \/ PQ!BecomesDue(id)
    /\ UNCHANGED <<paused, processVars, external, budget, ghostVars>>

ExternalStarts ==
    /\ ~external /\ budget.external < MaxExternal /\ Settled
    /\ external' = TRUE
    /\ budget' = [budget EXCEPT !.external = @ + 1]
    /\ UNCHANGED <<queueVars, paused, processVars, ghostVars>>

ExternalEnds ==
    /\ external /\ Settled
    /\ external' = FALSE
    /\ UNCHANGED <<queueVars, paused, processVars, budget, ghostVars>>

(* Fault: a start of the connector takes every lease away *)
RestartUnleases ==
    /\ budget.faults < MaxFaults
    /\ budget' = [budget EXCEPT !.faults = @ + 1]
    /\ item' = [id \in Ids |-> PQ!Unleased(item[id])]
    /\ hand' = [t \in Tasks |-> Nothing]
    /\ draining' = FALSE /\ processing' = FALSE /\ session' = Nothing
    /\ approving' = FALSE
    /\ pc' = [t \in Tasks |-> "idle"]
    /\ UNCHANGED <<queue, used, issued, limbo, done, removed, lost, expired, pulled,
                   paused, external, ghostVars>>

(* The connector dies and comes back: the store survives, every copy a     *)
(* task held and every id between two updates is gone.                     *)
Restart ==
    /\ budget.faults < MaxFaults
    /\ budget' = [budget EXCEPT !.faults = @ + 1]
    /\ PQ!Crash(Tasks, Users)
    /\ draining' = FALSE /\ processing' = FALSE /\ session' = Nothing
    /\ approving' = FALSE
    /\ pc' = [t \in Tasks |-> "idle"]
    /\ ran' = ran \ {hand[t].id : t \in {s \in Tasks : hand[s] # Nothing}}
    /\ UNCHANGED <<paused, external, reran, overrun, collided>>

-----------------------------------------------------------------------------
Init ==
    /\ PQ!Init
    /\ paused = FALSE /\ draining = FALSE
    /\ pc = [t \in Tasks |-> "idle"]
    /\ processing = FALSE /\ session = Nothing /\ external = FALSE /\ approving = FALSE
    /\ budget = [faults |-> 0, external |-> 0, directs |-> 0]
    /\ ran = {} /\ reran = {} /\ overrun = 0 /\ collided = FALSE

DrainStep == BeginDrain \/ LeaseOrLeave \/ DrainTelegram

Task(t) ==
    \/ Postpone(t) \/ Admit(t) \/ Start(t) \/ BeginTurn(t) \/ TurnRefused(t)
    \/ EndTurn(t) \/ Finish(t)
    \/ TurnedAway(t) \/ AskApproval(t) \/ LateBusy(t) \/ MoveOnTop(t) \/ TakeNext(t)

Answer == Deny \/ \E d \in Directs : Approve(d)

RunFronts(u) == RunFront(u) \/ \E d \in Directs : RunCommandFront(u, d)

People ==
    \/ Pause \/ Resume \/ EnqueueLater
    \/ \E id \in Ids : Edit(id) \/ (\E d \in Directs : RunDirect(d, id))
    \/ \E d \in Directs : Arrive(d)
    \/ Answer
    \/ \E u \in Users : RunFronts(u) \/ (\E id \in Ids : RunRemove(u, id))

World ==
    \/ ExternalStarts \/ ExternalEnds \/ Restart
    \/ \E id \in Ids : Expire(id)

Next == DrainStep \/ AnnounceFails \/ RunThrows \/ RenewLease \/ (\E t \in Tasks : Task(t)) \/ People \/ World

(* The event loop runs every callback that is ready, turns and CLI turns   *)
(* end, leases and delays run out, and the monitor interval keeps starting *)
(* drains.  Nobody is obliged to send, edit, pause, resume or crash.       *)
Fairness ==
    /\ WF_vars(DrainStep)
    /\ \A t \in Tasks : WF_vars(Task(t))
    /\ WF_vars(Answer)
    /\ \A u \in Users : WF_vars(RunFronts(u))
    /\ WF_vars(ExternalEnds)
    /\ \A id \in Ids : WF_vars(Expire(id))

Spec == Init /\ [][Next]_vars

FairSpec == Spec /\ Fairness

-----------------------------------------------------------------------------
TypeOK ==
    /\ PQ!TypeOK
    /\ paused \in BOOLEAN /\ draining \in BOOLEAN /\ processing \in BOOLEAN
    /\ external \in BOOLEAN /\ approving \in BOOLEAN /\ collided \in BOOLEAN
    /\ session \in Tasks \cup {Nothing}
    /\ pc \in [Tasks -> {"idle", "checking", "announcing", "arriving", "admitted",
                         "preparing", "turn", "ending", "postponed",
                         "approved", "topping", "taking"}]
    /\ ran \subseteq Ids /\ reran \subseteq Ids
    /\ overrun \in Nat

(* The drain, the direct prompts, the chat commands and a restart use the  *)
(* store as PromptQueue allows, so what holds there holds here: a turn that *)
(* fails does not lose the prompt without trace, and nothing an adapter    *)
(* does around the store loses one.                                        *)
UsesPromptQueue == PQ!Spec

(* The draining mark is held exactly while a drain is under way, through   *)
(* every early return, exception and restart: a mark left behind would     *)
(* stop the queue for good.                                                *)
DrainingMarked == draining <=> pc[Drain] # "idle"

(* A turn of a queued prompt starts a second time only when its lease ran  *)
(* out or somebody took the prompt away while it was executed.             *)
RunsAgainOnlyIfReleased == reran \subseteq expired \cup pulled

(* At most one prompt starts after the queue is paused: the one whose      *)
(* drain had already read "not paused".                                    *)
PauseOverrunsByOne == overrun <= 1

(* With no await between the pause check and the lease, a paused queue     *)
(* starts nothing.                                                         *)
PauseIsExact == overrun = 0

(* A prompt is queued instead of colliding with the running turn.          *)
NoCollision == ~collided

(* Every queued prompt leaves the queue, whatever restarts, lapsed leases  *)
(* and failures come in between, once the queue is not paused any more.    *)
EveryPromptLeaves ==
    (<>[]~paused) => \A id \in Ids : (id \in Range(queue)) ~> (id \notin Range(queue))

=============================================================================

-------------------------- MODULE ChannelDrainProofs --------------------------
(***************************************************************************)
(* Proofs about ChannelDrain, for every number of direct prompts, lease    *)
(* ids, faults and CLI turns, and for both adapters unless one is named.   *)
(*                                                                         *)
(* StoreHolds takes over what PromptQueueProofs shows of the store.        *)
(* ControlInv says where the tasks stand, RunInv which prompts have been   *)
(* started, PauseInv and ExactInv what a drain may still do after a pause, *)
(* and TurnInv who holds the session of a Telegram context.                *)
(***************************************************************************)
EXTENDS ChannelDrain, TLAPS

PQP == INSTANCE PromptQueueProofs WITH Keys <- {}, Workers <- Tasks

-----------------------------------------------------------------------------
(***************************************************************************)
(* PQ!A of the module that uses the store and PQP!A of the proofs about it *)
(* are the same formula under two names.                                   *)
(***************************************************************************)

(* The helpers are the same ...                                            *)
LEMMA SameHelpers ==
    /\ \A q, id : PQ!Without(q, id) = PQP!Without(q, id)
    /\ \A q, id : PQ!ToFront(q, id) = PQP!ToFront(q, id)
    /\ PQ!Queued = PQP!Queued
    /\ \A it : PQ!Unleased(it) = PQP!Unleased(it)
    /\ \A it : PQ!ClearExpired(it) = PQP!ClearExpired(it)
    /\ \A it : PQ!Runnable(it) <=> PQP!Runnable(it)
    /\ \A h : PQ!Current(h) <=> PQP!Current(h)
    /\ \A w, id : PQ!Executes(w, id) <=> PQP!Executes(w, id)
    /\ \A S, w : PQ!InExecution(S, w) = PQP!InExecution(S, w)
<1>1. \A q, id : PQ!Without(q, id) = PQP!Without(q, id)
  BY DEF PQ!Without, PQ!RemoveFirst, PQ!RemoveAt, PQ!SelectInSeq, PQ!Min,
         PQP!Without, PQP!RemoveFirst, PQP!RemoveAt, PQP!SelectInSeq, PQP!Min
<1>2. \A q, id : PQ!ToFront(q, id) = PQP!ToFront(q, id)
  BY <1>1 DEF PQ!ToFront, PQ!Cons, PQP!ToFront, PQP!Cons
<1>3. PQ!Queued = PQP!Queued
  BY DEF PQ!Queued, PQ!Range, PQP!Queued, PQP!Range
<1>4. \A it : PQ!Unleased(it) = PQP!Unleased(it)
  BY DEF PQ!Unleased, PQP!Unleased
<1>5. \A it : PQ!ClearExpired(it) = PQP!ClearExpired(it)
  BY <1>4 DEF PQ!ClearExpired, PQP!ClearExpired
<1>6. \A it : PQ!Runnable(it) <=> PQP!Runnable(it)
  BY DEF PQ!Runnable, PQP!Runnable
<1>7. \A h : PQ!Current(h) <=> PQP!Current(h)
  BY <1>3 DEF PQ!Current, PQ!Matches, PQP!Current, PQP!Matches
<1>8. \A w, id : PQ!Executes(w, id) <=> PQP!Executes(w, id)
  BY DEF PQ!Executes, PQP!Executes
<1>9. \A S, w : PQ!InExecution(S, w) = PQP!InExecution(S, w)
  BY DEF PQ!InExecution, PQ!Executes, PQP!InExecution, PQP!Executes
<1> QED BY <1>1, <1>2, <1>3, <1>4, <1>5, <1>6, <1>7, <1>8, <1>9

(* ... so the steps are, ...                                               *)
LEMMA SameStep == [PQ!Next]_PQ!vars => [PQP!Next]_PQP!vars
<1> SUFFICES ASSUME [PQ!Next]_PQ!vars PROVE [PQP!Next]_PQP!vars
  OBVIOUS
<1>1. ASSUME NEW key \in {NoKey}, NEW due \in BOOLEAN, PQ!Enqueue(key, due)
      PROVE  PQP!Enqueue(key, due)
  BY <1>1, SameHelpers
  DEF PQ!Enqueue, PQ!history,
      PQP!Enqueue, PQP!history
<1>2. ASSUME NEW id \in Ids, PQ!BecomesDue(id)
      PROVE  PQP!BecomesDue(id)
  BY <1>2, SameHelpers
  DEF PQ!BecomesDue, PQ!history,
      PQP!BecomesDue, PQP!history
<1>3. ASSUME NEW id \in Ids, PQ!LeaseExpires(id)
      PROVE  PQP!LeaseExpires(id)
  BY <1>3, SameHelpers
  DEF PQ!LeaseExpires,
      PQP!LeaseExpires
<1>4. ASSUME NEW w \in Tasks, PQ!LeaseNext(w)
      PROVE  PQP!LeaseNext(w)
  BY <1>4, SameHelpers
  DEF PQ!LeaseNext, PQ!history,
      PQP!LeaseNext, PQP!history
<1>5. ASSUME NEW w \in Tasks, PQ!RenewLease(w)
      PROVE  PQP!RenewLease(w)
  BY <1>5, SameHelpers
  DEF PQ!RenewLease, PQ!history,
      PQP!RenewLease, PQP!history
<1>6. ASSUME NEW w \in Tasks, PQ!CompleteLease(w)
      PROVE  PQP!CompleteLease(w)
  BY <1>6, SameHelpers
  DEF PQ!CompleteLease,
      PQP!CompleteLease
<1>7. ASSUME NEW w \in Tasks, PQ!FailLease(w)
      PROVE  PQP!FailLease(w)
  BY <1>7, SameHelpers
  DEF PQ!FailLease, PQ!history,
      PQP!FailLease, PQP!history
<1>8. ASSUME NEW w \in Tasks, PQ!Requeue(w)
      PROVE  PQP!Requeue(w)
  BY <1>8, SameHelpers
  DEF PQ!Requeue,
      PQP!Requeue
<1>9. ASSUME NEW w \in Tasks, PQ!Dequeue(w)
      PROVE  PQP!Dequeue(w)
  BY <1>9, SameHelpers
  DEF PQ!Dequeue, PQ!TakeUnleased,
      PQP!Dequeue, PQP!TakeUnleased
<1>10. ASSUME NEW w \in Tasks, NEW id \in Ids, PQ!RunTaken(w, id)
       PROVE  PQP!RunTaken(w, id)
  BY <1>10, SameHelpers
  DEF PQ!RunTaken, PQ!TakeUnleased,
      PQP!RunTaken, PQP!TakeUnleased
<1>11. ASSUME NEW id \in Ids, PQ!Cancel(id)
       PROVE  PQP!Cancel(id)
  BY <1>11, SameHelpers
  DEF PQ!Cancel,
      PQP!Cancel
<1>12. ASSUME PQ!ClearQueue
       PROVE  PQP!ClearQueue
  BY <1>12, SameHelpers
  DEF PQ!ClearQueue,
      PQP!ClearQueue
<1>13. ASSUME NEW id \in Ids, PQ!MoveToTop(id)
       PROVE  PQP!MoveToTop(id)
  BY <1>13, SameHelpers
  DEF PQ!MoveToTop, PQ!Reorder, PQ!history,
      PQP!MoveToTop, PQP!Reorder, PQP!history
<1>14. ASSUME NEW id \in Ids, PQ!MoveUp(id)
       PROVE  PQP!MoveUp(id)
  BY <1>14, SameHelpers
  DEF PQ!MoveUp, PQ!Reorder, PQ!Exchange, PQ!history,
      PQP!MoveUp, PQP!Reorder, PQP!Exchange, PQP!history
<1>15. ASSUME NEW id \in Ids, PQ!MoveDown(id)
       PROVE  PQP!MoveDown(id)
  BY <1>15, SameHelpers
  DEF PQ!MoveDown, PQ!Reorder, PQ!Exchange, PQ!history,
      PQP!MoveDown, PQP!Reorder, PQP!Exchange, PQP!history
<1>16. ASSUME NEW u \in Users, NEW id \in Ids, PQ!RunNowRemove(u, id)
       PROVE  PQP!RunNowRemove(u, id)
  BY <1>16, SameHelpers
  DEF PQ!RunNowRemove,
      PQP!RunNowRemove
<1>17. ASSUME NEW u \in Users, PQ!RunNowFront(u)
       PROVE  PQP!RunNowFront(u)
  BY <1>17, SameHelpers
  DEF PQ!RunNowFront, PQ!history,
      PQP!RunNowFront, PQP!history
<1>18. ASSUME NEW W \in SUBSET Tasks, NEW U \in SUBSET Users, PQ!Crash(W, U)
       PROVE  PQP!Crash(W, U)
  BY <1>18 DEF PQ!Crash, PQ!Unstored, PQ!store, PQP!Crash, PQP!Unstored, PQP!store
<1>19. CASE PQ!Environment
  BY <1>1, <1>2, <1>3, <1>19 DEF PQ!Environment, PQP!Next, PQP!Environment
<1>20. CASE PQ!Editing
  BY <1>11, <1>12, <1>13, <1>14, <1>15, <1>20 DEF PQ!Editing, PQP!Next, PQP!Editing
<1>21. ASSUME NEW w \in Tasks, PQ!Worker(w) PROVE PQP!Next
  BY <1>4, <1>5, <1>6, <1>7, <1>8, <1>9, <1>10, <1>21 DEF PQ!Worker, PQP!Next, PQP!Worker
<1>22. ASSUME NEW u \in Users, PQ!User(u) PROVE PQP!Next
  BY <1>16, <1>17, <1>22 DEF PQ!User, PQP!Next, PQP!User
<1>23. CASE PQ!Dies
  BY <1>18, <1>23 DEF PQ!Dies, PQP!Next, PQP!Dies
<1>24. CASE UNCHANGED PQ!vars
  BY <1>24 DEF PQ!vars, PQ!store, PQ!history, PQP!vars, PQP!store, PQP!history
<1> QED BY <1>19, <1>20, <1>21, <1>22, <1>23, <1>24 DEF PQ!Next

(* ... and the initial states and the types.                               *)
LEMMA SameInit == PQ!Init => PQP!Init
BY DEF PQ!Init, PQP!Init

LEMMA SameTypes == (PQP!TypeOK => PQ!TypeOK) /\ (PQP!TypeOK' => PQ!TypeOK')
BY DEF PQ!TypeOK, PQ!Item, PQ!Hand, PQP!TypeOK, PQP!Item, PQP!Hand

LEMMA SameAssumption == PQP!QueueAssumption
BY StoreAssumption DEF PQ!QueueAssumption, PQP!QueueAssumption

-----------------------------------------------------------------------------
(* Every step of a chat context is one of the store, or leaves it alone.   *)

(* Dropping the copies of W and the ids of U is a crash of somebody who    *)
(* has one, or changes nothing.                                            *)
LEMMA CrashStep ==
    ASSUME PQ!TypeOK, NEW W \in SUBSET Tasks, NEW U \in SUBSET Users, PQ!Crash(W, U)
    PROVE  [PQ!Next]_PQ!vars
<1>1. CASE (\E w \in W : hand[w] # Nothing) \/ (\E u \in U : limbo[u] # Nothing)
  BY <1>1 DEF PQ!Next, PQ!Dies
<1>2. CASE /\ \A w \in W : hand[w] = Nothing
           /\ \A u \in U : limbo[u] = Nothing
  <2>1. hand' = hand /\ limbo' = limbo
    BY <1>2 DEF PQ!Crash, PQ!TypeOK
  <2>2. PQ!Unstored(W, U) = {}
    BY <1>2 DEF PQ!Unstored
  <2> QED BY <2>1, <2>2 DEF PQ!Crash, PQ!vars, PQ!store, PQ!history
<1> QED BY <1>1, <1>2

(* The steps that leave the store alone.                                   *)
Aside ==
    \/ BeginDrain \/ Deny \/ Pause \/ Resume \/ ExternalStarts \/ ExternalEnds
    \/ \E d \in Directs : Arrive(d) \/ Approve(d)
    \/ \E t \in Tasks : \/ Admit(t) \/ AskApproval(t) \/ Start(t) \/ BeginTurn(t)
                        \/ TurnRefused(t) \/ EndTurn(t)

LEMMA AsideKeepsStore == Aside => UNCHANGED queueVars
BY DEF Aside, BeginDrain, Deny, Pause, Resume, ExternalStarts, ExternalEnds, Arrive, Approve,
       Admit, AskApproval, Start, BeginTurn, TurnRefused, EndTurn

(* One case for each action that calls the store.                          *)
LEMMA UsesStep == PQ!TypeOK /\ [Next]_vars => [PQ!Next]_PQ!vars
<1> SUFFICES ASSUME PQ!TypeOK, [Next]_vars PROVE [PQ!Next]_PQ!vars
  OBVIOUS
<1>0. ASSUME UNCHANGED queueVars PROVE UNCHANGED PQ!vars
  BY <1>0 DEF queueVars, storeVars, PQ!vars, PQ!store, PQ!history
<1>w. ASSUME NEW t \in Tasks,
             \/ PQ!LeaseNext(t) \/ PQ!RenewLease(t) \/ PQ!CompleteLease(t)
             \/ PQ!FailLease(t) \/ PQ!Requeue(t) \/ PQ!Dequeue(t)
             \/ \E id \in Ids : PQ!RunTaken(t, id)
      PROVE  PQ!Next
  BY <1>w DEF PQ!Next, PQ!Worker
<1>q. ASSUME NEW due \in BOOLEAN, PQ!Enqueue(NoKey, due) PROVE PQ!Next
  BY <1>q DEF PQ!Next, PQ!Environment
<1>1. ASSUME Aside PROVE UNCHANGED PQ!vars
  BY <1>0, <1>1, AsideKeepsStore
<1>2. ASSUME LeaseOrLeave \/ DrainTelegram PROVE [PQ!Next]_PQ!vars
  BY <1>0, <1>2, <1>w DEF LeaseOrLeave, DrainTelegram, TakesLease, Tasks
<1>3. ASSUME AnnounceFails PROVE [PQ!Next]_PQ!vars
  <2>1. PQ!Crash({Drain}, {}) /\ {Drain} \in SUBSET Tasks /\ {} \in SUBSET Users
    BY <1>3 DEF AnnounceFails, Tasks
  <2> QED BY <2>1, CrashStep
<1>4. ASSUME RunThrows \/ RenewLease PROVE PQ!Next
  BY <1>4, <1>w DEF RunThrows, RenewLease, Tasks
<1>5. ASSUME NEW t \in Tasks, Postpone(t) PROVE PQ!Next
  BY <1>5, <1>w, <1>q DEF Postpone
<1>6. ASSUME NEW t \in Tasks, TurnedAway(t) PROVE [PQ!Next]_PQ!vars
  <2>1. CASE UNCHANGED queueVars
    BY <1>0, <2>1
  <2>2. CASE PQ!Crash({t}, {})
    <3>1. {t} \in SUBSET Tasks /\ {} \in SUBSET Users
      OBVIOUS
    <3> QED BY <2>2, <3>1, CrashStep
  <2> QED BY <1>6, <2>1, <2>2 DEF TurnedAway
<1>7. ASSUME NEW t \in Tasks, LateBusy(t) PROVE PQ!Next
  BY <1>7, <1>w, <1>q DEF LateBusy
<1>8. ASSUME NEW t \in Tasks, MoveOnTop(t) PROVE PQ!Next
  <2>1. PQ!MoveToTop(Last(queue))
    BY <1>8 DEF MoveOnTop
  <2>2. Last(queue) \in Ids
    BY <2>1 DEF PQ!MoveToTop, PQ!Queued, PQ!Range, PQ!TypeOK
  <2> QED BY <2>1, <2>2 DEF PQ!Next, PQ!Editing
<1>9. ASSUME NEW t \in Tasks, Finish(t) PROVE [PQ!Next]_PQ!vars
  BY <1>0, <1>9, <1>w DEF Finish
<1>10. ASSUME NEW t \in Tasks, TakeNext(t) PROVE [PQ!Next]_PQ!vars
  BY <1>0, <1>10, <1>w DEF TakeNext
<1>11. ASSUME EnqueueLater PROVE PQ!Next
  BY <1>11, <1>q DEF EnqueueLater
<1>12. ASSUME NEW id \in Ids, Edit(id) PROVE PQ!Next
  BY <1>12 DEF Edit, PQ!Next, PQ!Editing
<1>13. ASSUME NEW u \in Users, NEW id \in Ids, RunRemove(u, id) PROVE PQ!Next
  BY <1>13 DEF RunRemove, PQ!Next, PQ!User
<1>14. ASSUME NEW u \in Users, RunFronts(u) PROVE PQ!Next
  BY <1>14 DEF RunFronts, RunFront, RunCommandFront, PQ!Next, PQ!User
<1>15. ASSUME NEW d \in Directs, NEW id \in Ids, RunDirect(d, id) PROVE PQ!Next
  BY <1>15, <1>w DEF RunDirect, Tasks
<1>16. ASSUME NEW id \in Ids, Expire(id) PROVE PQ!Next
  BY <1>16 DEF Expire, PQ!Next, PQ!Environment
<1>17. ASSUME Restart PROVE [PQ!Next]_PQ!vars
  BY <1>17, CrashStep DEF Restart
<1>18. ASSUME UNCHANGED vars PROVE UNCHANGED PQ!vars
  BY <1>0, <1>18 DEF vars
<1> QED
  BY <1>1, <1>2, <1>3, <1>4, <1>5, <1>6, <1>7, <1>8, <1>9, <1>10, <1>11, <1>12, <1>13, <1>14,
     <1>15, <1>16, <1>17, <1>18
  DEF Next, DrainStep, Task, People, Answer, World, Aside

(* What the proofs about PromptQueue say of the store holds here.          *)
LEMMA StoreInit == Init => PQP!ExecutionInv
BY SameInit, SameAssumption, PQP!ExecutionInit DEF Init

LEMMA StoreStep == PQP!ExecutionInv /\ [Next]_vars => PQP!ExecutionInv'
<1> SUFFICES ASSUME PQP!ExecutionInv, [Next]_vars PROVE PQP!ExecutionInv'
  OBVIOUS
<1>1. PQ!TypeOK
  BY SameTypes DEF PQP!ExecutionInv, PQP!LeaseInv, PQP!Shape
<1>2. [PQP!Next]_PQP!vars
  BY <1>1, UsesStep, SameStep
<1> QED BY <1>2, SameAssumption, PQP!ExecutionStep

LEMMA StoreHolds == Spec => []PQP!ExecutionInv
<1> QED BY StoreInit, StoreStep, PTL DEF Spec

(* The drain, the direct prompts, the chat commands and a restart use the  *)
(* store as PromptQueue allows: a chat context implements it, in both      *)
(* adapters.                                                               *)
THEOREM Refines == Spec => UsesPromptQueue
<1>1. Init => PQ!Init
  BY DEF Init
<1>2. PQP!ExecutionInv /\ [Next]_vars => [PQ!Next]_PQ!vars
  BY SameTypes, UsesStep DEF PQP!ExecutionInv, PQP!LeaseInv, PQP!Shape
<1> QED BY <1>1, <1>2, StoreHolds, PTL DEF Spec, UsesPromptQueue, PQ!Spec

-----------------------------------------------------------------------------
(* What the calls of the store do with the copies of the tasks.            *)

Takes(t) == /\ hand[t] = Nothing /\ hand'[t] # Nothing /\ ~hand'[t].requeued
            /\ \A s \in Tasks \ {t} : hand'[s] = hand[s]
Drops(t) == hand'[t] = Nothing /\ \A s \in Tasks \ {t} : hand'[s] = hand[s]
Marks(t) == /\ hand[t] # Nothing /\ hand'[t] # Nothing
            /\ \A s \in Tasks \ {t} : hand'[s] = hand[s]

LEMMA Copies ==
    ASSUME PQ!TypeOK, NEW t \in Tasks
    PROVE  /\ PQ!LeaseNext(t) \/ PQ!Dequeue(t) \/ (\E id \in Ids : PQ!RunTaken(t, id)) => Takes(t)
           /\ PQ!CompleteLease(t) \/ PQ!FailLease(t) \/ PQ!Crash({t}, {}) => Drops(t)
           /\ PQ!Requeue(t) => Marks(t)
<1>t. /\ hand \in [Tasks -> PQ!Hand \cup {Nothing}] /\ queue \in Seq(Ids)
      /\ Nothing \notin PQ!Hand
  BY StoreAssumption DEF PQ!TypeOK, PQ!QueueAssumption, PQ!Hand
<1>1. ASSUME NEW id \in Ids, NEW token \in Tokens \cup {NoToken},
             hand' = [hand EXCEPT ![t] = [id |-> id, token |-> token, requeued |-> FALSE]],
             hand[t] = Nothing
      PROVE  Takes(t)
  <2> DEFINE h == [id |-> id, token |-> token, requeued |-> FALSE]
  <2>1. h \in PQ!Hand /\ ~h.requeued
    BY DEF PQ!Hand
  <2> HIDE DEF h
  <2>2. hand' = [hand EXCEPT ![t] = h]
    BY <1>1 DEF h
  <2> QED BY <1>t, <1>1, <2>1, <2>2 DEF Takes
<1>2. \A i \in DOMAIN queue : queue[i] \in Ids
  BY <1>t
<1>3. PQ!LeaseNext(t) => Takes(t)
  BY <1>1, <1>2 DEF PQ!LeaseNext
<1>4. PQ!Dequeue(t) => Takes(t)
  BY <1>1, <1>2 DEF PQ!Dequeue, PQ!TakeUnleased
<1>5. ASSUME NEW id \in Ids, PQ!RunTaken(t, id) PROVE Takes(t)
  BY <1>1, <1>5 DEF PQ!RunTaken, PQ!TakeUnleased
<1>6. PQ!CompleteLease(t) \/ PQ!FailLease(t) \/ PQ!Crash({t}, {}) => Drops(t)
  BY <1>t DEF PQ!CompleteLease, PQ!FailLease, PQ!Crash, Drops
<1>7. ASSUME PQ!Requeue(t) PROVE Marks(t)
  <2>1. hand[t] \in PQ!Hand /\ hand' = [hand EXCEPT ![t].requeued = TRUE]
    BY <1>t, <1>7 DEF PQ!Requeue
  <2>2. [hand[t] EXCEPT !.requeued = TRUE] \in PQ!Hand
    BY <2>1 DEF PQ!Hand
  <2> QED BY <1>t, <2>1, <2>2 DEF Marks
<1> QED BY <1>3, <1>4, <1>5, <1>6, <1>7

LEMMA OtherCopies ==
    ASSUME NEW id, NEW due, \/ PQ!Enqueue(NoKey, due) \/ PQ!MoveToTop(id) \/ PQ!MoveUp(id)
                            \/ PQ!MoveDown(id) \/ PQ!Cancel(id) \/ PQ!ClearQueue
                            \/ PQ!BecomesDue(id) \/ PQ!LeaseExpires(id)
    PROVE  UNCHANGED hand
BY DEF PQ!Enqueue, PQ!MoveToTop, PQ!MoveUp, PQ!MoveDown, PQ!Reorder, PQ!Cancel, PQ!ClearQueue,
       PQ!BecomesDue, PQ!LeaseExpires

LEMMA UserCopies ==
    ASSUME NEW u, NEW id, PQ!RunNowRemove(u, id) \/ PQ!RunNowFront(u)
    PROVE  UNCHANGED hand
BY DEF PQ!RunNowRemove, PQ!RunNowFront
-----------------------------------------------------------------------------
(* Where the tasks stand.                                                  *)

(* The drain has the draining mark while it is anywhere but idle, and a    *)
(* copy from the lease to the end of its pass.  A task that puts its       *)
(* prompt back only finishes its pass.                                     *)
Placed ==
    /\ DrainingMarked
    /\ pc[Drain] \in {"idle", "checking", "announcing", "admitted", "preparing", "turn", "ending",
                      "postponed"}
    /\ hand[Drain] = Nothing <=> pc[Drain] \in {"idle", "checking"}
    /\ \A t \in Tasks : hand[t] # Nothing /\ hand[t].requeued => pc[t] \in {"ending", "postponed"}

ControlInv == TypeOK /\ Placed

LEMMA ControlInit == Init => ControlInv
<1> SUFFICES ASSUME Init PROVE ControlInv
  OBVIOUS
<1>1. PQ!TypeOK
  BY StoreInit, SameTypes DEF PQP!ExecutionInv, PQP!LeaseInv, PQP!Shape
<1>2. hand = [t \in Tasks |-> Nothing]
  BY DEF Init, PQ!Init
<1> QED BY <1>1, <1>2 DEF ControlInv, TypeOK, Placed, DrainingMarked, Init, Tasks

(* One case for each action.                                               *)
LEMMA ControlStep ==
    ASSUME ControlInv, PQP!ExecutionInv, [Next]_vars
    PROVE  ControlInv'
<1>t. /\ PQ!TypeOK /\ PQ!TypeOK'
      /\ Drain \in Tasks /\ Drain \notin Directs /\ Directs \subseteq Tasks
  BY StoreStep, SameTypes, ChannelAssumption
  DEF ControlInv, TypeOK, PQP!ExecutionInv, PQP!LeaseInv, PQP!Shape, Tasks
<1>h. \A t \in Tasks : hand[t] # Nothing => hand[t].id \in Ids
  BY <1>t DEF PQ!TypeOK, PQ!Hand
<1> USE <1>t DEF ControlInv, TypeOK, Placed, DrainingMarked
(* The steps that move no task.                                            *)
<1>q. ASSUME UNCHANGED <<hand, pc, draining, session, ran, reran, processing, collided>>,
             paused' \in BOOLEAN, external' \in BOOLEAN, approving' \in BOOLEAN, overrun' \in Nat
      PROVE  ControlInv'
  BY <1>q
<1>1. ASSUME BeginDrain PROVE ControlInv'
  BY <1>1 DEF BeginDrain, Goto, queueVars, ghostVars
<1>2. ASSUME LeaseOrLeave PROVE ControlInv'
  <2>1. CASE Busy \/ ~Runnable
    <3>1. /\ draining' = FALSE /\ Goto(Drain, "idle") /\ pc[Drain] = "checking"
          /\ UNCHANGED <<hand, paused, processing, session, external, approving, overrun, ran,
                         reran, collided>>
      BY <1>2, <2>1 DEF LeaseOrLeave, queueVars
    <3> QED BY <3>1 DEF Goto
  <2>2. CASE ~(Busy \/ ~Runnable)
    <3>1. /\ PQ!LeaseNext(Drain) /\ Goto(Drain, "announcing") /\ pc[Drain] = "checking"
          /\ overrun' \in {overrun, overrun + 1}
          /\ UNCHANGED <<draining, paused, processing, session, external, approving, ran, reran,
                         collided>>
      BY <1>2, <2>2 DEF LeaseOrLeave, TakesLease
    <3>2. Takes(Drain)
      BY <3>1, Copies
    <3> QED BY <3>1, <3>2 DEF Goto, Takes
  <2> QED BY <2>1, <2>2
<1>3. ASSUME DrainTelegram PROVE ControlInv'
  BY <1>3, Copies DEF DrainTelegram, TakesLease, Goto, Takes
<1>4. ASSUME AnnounceFails PROVE ControlInv'
  BY <1>4, Copies DEF AnnounceFails, Goto, Drops, ghostVars
<1>5. ASSUME RunThrows PROVE ControlInv'
  BY <1>5, Copies DEF RunThrows, Goto, Drops, ghostVars
<1>6. ASSUME RenewLease PROVE ControlInv'
  BY <1>6 DEF RenewLease, PQ!RenewLease, processVars, ghostVars
<1>7. ASSUME NEW t \in Tasks, Postpone(t) PROVE ControlInv'
  BY <1>7, Copies, OtherCopies DEF Postpone, Goto, Marks, ghostVars
<1>8. ASSUME NEW t \in Tasks, Admit(t) PROVE ControlInv'
  <2>1. /\ pc[t] \in {"announcing", "arriving", "approved"}
        /\ processing' \in BOOLEAN /\ (Goto(t, "preparing") \/ Goto(t, "admitted"))
        /\ UNCHANGED <<hand, paused, draining, session, approving, external, overrun, ran,
                       reran, collided>>
    BY <1>8 DEF Admit, queueVars, ghostVars
  <2> QED BY <2>1 DEF Goto
<1>9. ASSUME NEW t \in Tasks, Start(t) PROVE ControlInv'
  BY <1>9 DEF Start, Goto, queueVars, ghostVars
<1>10. ASSUME NEW t \in Tasks, BeginTurn(t) PROVE ControlInv'
  BY <1>10, <1>h DEF BeginTurn, Goto, queueVars
<1>11. ASSUME NEW t \in Tasks, TurnRefused(t) PROVE ControlInv'
  BY <1>11 DEF TurnRefused, Goto, queueVars
<1>12. ASSUME NEW t \in Tasks, EndTurn(t) PROVE ControlInv'
  BY <1>12 DEF EndTurn, Goto, queueVars
<1>13. ASSUME NEW t \in Tasks, Finish(t) PROVE ControlInv'
  BY <1>13, Copies DEF Finish, Goto, Drops, queueVars, ghostVars
<1>14. ASSUME NEW t \in Tasks, TurnedAway(t) PROVE ControlInv'
  <2>1. /\ pc[t] \in {"announcing", "arriving", "approved"}
        /\ UNCHANGED <<draining, paused, processing, session, approving, external, overrun, ran,
                       reran, collided>>
    BY <1>14 DEF TurnedAway, ghostVars
  <2>2. CASE t = Drain
    <3>1. Goto(t, "postponed") /\ hand' = hand
      BY <1>14, <2>2 DEF TurnedAway, queueVars
    <3> QED BY <2>1, <2>2, <3>1 DEF Goto
  <2>3. CASE t # Drain
    <3>1. Goto(t, "idle") /\ Drops(t)
      BY <1>14, <2>3, Copies DEF TurnedAway
    <3> QED BY <2>1, <2>3, <3>1 DEF Goto, Drops
  <2> QED BY <2>2, <2>3
<1>15. ASSUME NEW t \in Tasks, AskApproval(t) PROVE ControlInv'
  BY <1>15 DEF AskApproval, Goto, queueVars, ghostVars
<1>16. ASSUME NEW t \in Tasks, LateBusy(t) PROVE ControlInv'
  BY <1>16, Copies, OtherCopies DEF LateBusy, Goto, Marks, ghostVars
<1>17. ASSUME NEW t \in Tasks, MoveOnTop(t) PROVE ControlInv'
  BY <1>17, OtherCopies DEF MoveOnTop, Goto, ghostVars
<1>18. ASSUME NEW t \in Tasks, TakeNext(t) PROVE ControlInv'
  BY <1>18, Copies DEF TakeNext, Goto, Takes, queueVars, ghostVars
<1>19. ASSUME NEW d \in Directs, Arrive(d) \/ Approve(d) PROVE ControlInv'
  <2>1. CASE Arrive(d)
    BY <2>1 DEF Arrive, Goto, queueVars, ghostVars
  <2>2. CASE Approve(d)
    BY <2>2 DEF Approve, Goto, queueVars, ghostVars
  <2> QED BY <1>19, <2>1, <2>2
<1>20. ASSUME NEW d \in Directs, NEW id \in Ids, RunDirect(d, id) PROVE ControlInv'
  BY <1>20, Copies DEF RunDirect, Goto, Takes, ghostVars
<1>21. ASSUME Deny \/ Pause \/ Resume \/ ExternalStarts \/ ExternalEnds PROVE ControlInv'
  <2>1. /\ UNCHANGED <<hand, pc, draining, session, ran, reran, processing, collided>>
        /\ paused' \in BOOLEAN /\ external' \in BOOLEAN /\ approving' \in BOOLEAN
        /\ overrun' \in {0, overrun}
    BY <1>21 DEF Deny, Pause, Resume, ExternalStarts, ExternalEnds, queueVars, processVars, ghostVars
  <2> QED BY <1>q, <2>1
<1>22. ASSUME \/ EnqueueLater \/ \E id \in Ids : Edit(id) \/ Expire(id) PROVE ControlInv'
  <2>1. UNCHANGED hand
    BY <1>22, OtherCopies DEF EnqueueLater, Edit, Expire
  <2>2. UNCHANGED <<pc, draining, session, ran, reran, processing, collided, paused, external,
                    approving, overrun>>
    BY <1>22 DEF EnqueueLater, Edit, Expire, processVars, ghostVars
  <2> QED BY <1>q, <2>1, <2>2
<1>23. ASSUME NEW u \in Users, NEW id \in Ids, RunRemove(u, id) PROVE ControlInv'
  BY <1>23, UserCopies DEF RunRemove, processVars, ghostVars
<1>24. ASSUME NEW u \in Users, RunFront(u) PROVE ControlInv'
  BY <1>24, UserCopies DEF RunFront, processVars, ghostVars
<1>25. ASSUME NEW u \in Users, NEW d \in Directs, RunCommandFront(u, d) PROVE ControlInv'
  BY <1>25, UserCopies DEF RunCommandFront, Goto, ghostVars
<1>26. ASSUME Restart PROVE ControlInv'
  BY <1>26 DEF Restart, PQ!Crash
<1>27. ASSUME UNCHANGED vars PROVE ControlInv'
  BY <1>27 DEF vars, queueVars, processVars, ghostVars
<1> QED
  BY <1>1, <1>2, <1>3, <1>4, <1>5, <1>6, <1>7, <1>8, <1>9, <1>10, <1>11, <1>12, <1>13, <1>14, <1>15, <1>16, <1>17, <1>18, <1>19, <1>20, <1>21, <1>22, <1>23, <1>24, <1>25, <1>26, <1>27
  DEF Next, DrainStep, Task, People, Answer, RunFronts, World

LEMMA ControlHolds == Spec => []ControlInv
<1>1. ControlInv /\ PQP!ExecutionInv /\ [Next]_vars => ControlInv'
  BY ControlStep
<1> QED BY ControlInit, StoreHolds, <1>1, PTL DEF Spec

(* The variables of a chat context keep their types.                       *)
THEOREM TypeCorrect == Spec => []TypeOK
<1>1. ControlInv => TypeOK
  BY DEF ControlInv
<1> QED BY ControlHolds, <1>1, PTL

(* The draining mark is held exactly while a drain is under way, through   *)
(* every early return, exception and restart.                              *)
THEOREM DrainingMarkedHolds == Spec => []DrainingMarked
<1>1. ControlInv => DrainingMarked
  BY DEF ControlInv, Placed
<1> QED BY ControlHolds, <1>1, PTL
-----------------------------------------------------------------------------
(* A prompt whose turn has started is still in the hands of the task that  *)
(* started it, or out of the system; if neither, its lease ran out or it   *)
(* was taken away.                                                         *)

Ran(id) == \/ \E t \in Tasks : PQP!Executes(t, id) /\ pc[t] \in {"turn", "ending"}
           \/ PQP!Gone(id)

RunInv ==
    /\ RunsAgainOnlyIfReleased
    /\ ran \subseteq used
    /\ \A id \in ran \ (expired \cup pulled) : Ran(id)

(* Nobody takes the copy from a task in its turn: it ends the turn, and    *)
(* then its lease.                                                         *)
LEMMA TurnStays ==
    ASSUME ControlInv, [Next]_vars, NEW t \in Tasks, pc[t] \in {"turn", "ending"}, hand[t] # Nothing
    PROVE  \/ hand'[t] = hand[t] /\ pc'[t] \in {"turn", "ending"}
           \/ PQ!CompleteLease(t)
           \/ Restart
<1> DEFINE stays == hand'[t] = hand[t] /\ pc'[t] \in {"turn", "ending"}
<1>t. /\ PQ!TypeOK /\ Drain \in Tasks /\ Directs \subseteq Tasks
      /\ pc \in [Tasks -> {"idle", "checking", "announcing", "arriving", "admitted",
                           "preparing", "turn", "ending", "postponed",
                           "approved", "topping", "taking"}]
  BY DEF ControlInv, TypeOK, Tasks
(* A step of another task, or one that moves none.                         *)
<1>s. ASSUME NEW s \in Tasks, s # t, NEW place, Goto(s, place),
             Takes(s) \/ Drops(s) \/ Marks(s) \/ UNCHANGED hand
      PROVE  stays
  BY <1>t, <1>s DEF Goto, Takes, Drops, Marks
<1>q. ASSUME UNCHANGED <<pc, hand>> PROVE stays
  BY <1>q
<1>1. ASSUME BeginDrain \/ LeaseOrLeave \/ DrainTelegram \/ AnnounceFails \/ RunThrows PROVE stays
  <2>1. hand[Drain] = Nothing \/ pc[Drain] \notin {"turn", "ending"}
    BY <1>1, Copies, <1>t
    DEF BeginDrain, LeaseOrLeave, DrainTelegram, TakesLease, AnnounceFails, RunThrows, Takes,
        ControlInv, Placed, DrainingMarked
  <2>2. Drain # t
    BY <2>1
  <2>3. Takes(Drain) \/ Drops(Drain) \/ UNCHANGED hand
    BY <1>1, <1>t, Copies
    DEF BeginDrain, LeaseOrLeave, DrainTelegram, TakesLease, AnnounceFails, RunThrows, queueVars
  <2>4. \E place : Goto(Drain, place)
    BY <1>1 DEF BeginDrain, LeaseOrLeave, DrainTelegram, TakesLease, AnnounceFails, RunThrows
  <2> QED BY <1>s, <1>t, <2>2, <2>3, <2>4
<1>2. ASSUME NEW s \in Tasks, \/ Postpone(s) \/ Admit(s) \/ Start(s) \/ BeginTurn(s)
                              \/ TurnRefused(s) \/ TurnedAway(s) \/ AskApproval(s) \/ LateBusy(s)
                              \/ MoveOnTop(s) \/ TakeNext(s)
      PROVE  stays
  <2>1. s # t
    BY <1>2
    DEF Postpone, Admit, Start, BeginTurn, TurnRefused, TurnedAway, AskApproval, LateBusy,
        MoveOnTop, TakeNext
  <2>2. \E place : Goto(s, place)
    BY <1>2
    DEF Postpone, Admit, Start, BeginTurn, TurnRefused, TurnedAway, AskApproval, LateBusy,
        MoveOnTop, TakeNext
  <2>3. Takes(s) \/ Drops(s) \/ Marks(s) \/ UNCHANGED hand
    BY <1>2, <1>t, Copies, OtherCopies
    DEF Postpone, Admit, Start, BeginTurn, TurnRefused, TurnedAway, AskApproval, LateBusy,
        MoveOnTop, TakeNext, queueVars
  <2> QED BY <1>s, <2>1, <2>2, <2>3
<1>3. ASSUME NEW s \in Tasks, EndTurn(s) PROVE stays
  BY <1>3, <1>t DEF EndTurn, Goto, queueVars
<1>4. ASSUME NEW s \in Tasks, Finish(s) PROVE stays \/ PQ!CompleteLease(t)
  <2>1. CASE s # t
    BY <1>s, <1>t, <1>4, <2>1, Copies DEF Finish, queueVars
  <2>2. CASE s = t
    BY <1>4, <2>2 DEF Finish
  <2> QED BY <2>1, <2>2
<1>5. ASSUME NEW d \in Directs, \/ Arrive(d) \/ Approve(d) \/ \E id \in Ids : RunDirect(d, id)
                                \/ \E u \in Users : RunCommandFront(u, d)
      PROVE  stays
  <2>1. d # t /\ \E place : Goto(d, place)
    BY <1>5 DEF Arrive, Approve, RunDirect, RunCommandFront
  <2>2. Takes(d) \/ UNCHANGED hand
    BY <1>5, <1>t, Copies, UserCopies DEF Arrive, Approve, RunDirect, RunCommandFront, queueVars
  <2> QED BY <1>s, <1>t, <2>1, <2>2
<1>6. ASSUME \/ RenewLease \/ Deny \/ Pause \/ Resume \/ ExternalStarts \/ ExternalEnds
             \/ EnqueueLater \/ UNCHANGED vars
      PROVE  stays
  BY <1>q, <1>6, OtherCopies
  DEF RenewLease, PQ!RenewLease, Deny, Pause, Resume, ExternalStarts, ExternalEnds, EnqueueLater,
      vars, queueVars, processVars
<1>7. ASSUME NEW id \in Ids, Edit(id) \/ Expire(id) PROVE stays
  BY <1>q, <1>7, OtherCopies DEF Edit, Expire, processVars
<1>8. ASSUME NEW u \in Users, RunFront(u) \/ \E id \in Ids : RunRemove(u, id) PROVE stays
  BY <1>q, <1>8, UserCopies DEF RunFront, RunRemove, processVars
<1> QED
  BY <1>1, <1>2, <1>3, <1>4, <1>5, <1>6, <1>7, <1>8
  DEF Next, DrainStep, Task, People, Answer, RunFronts, World

(* Only the begin of a turn and a restart write what ran.                  *)
LEMMA RanKept ==
    ASSUME [Next]_vars, ~Restart, \A t \in Tasks : ~BeginTurn(t)
    PROVE  UNCHANGED <<ran, reran>>
BY DEF Next, DrainStep, Task, People, Answer, RunFronts, World, vars, ghostVars,
       BeginDrain, LeaseOrLeave, DrainTelegram, AnnounceFails, RunThrows, RenewLease,
       Postpone, Admit, Start, TurnRefused, EndTurn, Finish, TurnedAway, AskApproval, LateBusy,
       MoveOnTop, TakeNext, Deny, Approve, RunFront, RunCommandFront, Pause, Resume, EnqueueLater,
       Edit, RunDirect, Arrive, RunRemove, ExternalStarts, ExternalEnds, Expire

LEMMA RunStep ==
    ASSUME ControlInv, PQP!ExecutionInv, RunInv, [Next]_vars
    PROVE  RunInv'
<1>1. [PQP!Next]_PQP!vars
  BY UsesStep, SameStep DEF ControlInv, TypeOK
<1>2. used \subseteq used' /\ expired \subseteq expired' /\ pulled \subseteq pulled'
  BY <1>1, SameAssumption, PQP!HistoryGrows
<1>3. PQP!LeaseInv /\ ran \subseteq Ids /\ ran \subseteq used
  BY DEF PQP!ExecutionInv, ControlInv, TypeOK, RunInv
(* What ran before and was not cut off by this step.                       *)
<1>4. ASSUME NEW id \in ran, id \notin expired' \cup pulled',
             Restart => id \notin {hand[t].id : t \in {s \in Tasks : hand[s] # Nothing}}
      PROVE  Ran(id)'
  <2>1. Ran(id) /\ id \notin expired \cup pulled /\ id \in Ids
    BY <1>2, <1>3, <1>4 DEF RunInv
  <2>2. CASE PQP!Gone(id)
    BY <1>1, <1>3, <2>2, SameAssumption, PQP!GoneStays DEF Ran
  <2>3. ASSUME NEW t \in Tasks, PQP!Executes(t, id), pc[t] \in {"turn", "ending"} PROVE Ran(id)'
    <3>1. hand[t] # Nothing /\ hand[t].id = id /\ ~hand[t].requeued
      BY <2>3 DEF PQP!Executes
    <3>2. ~Restart
      BY <1>4, <3>1
    <3>3. CASE hand'[t] = hand[t] /\ pc'[t] \in {"turn", "ending"}
      BY <3>1, <3>3 DEF Ran, PQP!Executes
    <3>4. CASE PQ!CompleteLease(t)
      <4>1. PQP!CompleteLease(t)
        BY <3>4, SameHelpers DEF PQ!CompleteLease, PQP!CompleteLease
      <4> QED BY <2>1, <2>3, <4>1, SameAssumption, PQP!FinishedIsGone DEF Ran
    <3> QED BY <2>3, <3>1, <3>2, <3>3, <3>4, TurnStays
  <2> QED BY <2>1, <2>2, <2>3 DEF Ran
<1>5. ASSUME NEW t \in Tasks, BeginTurn(t) PROVE RunInv'
  <2>0. ~Restart \/ \A s \in Tasks : hand[s] = Nothing
    BY <1>5 DEF Restart, PQ!Crash, BeginTurn, queueVars, PQ!TypeOK, ControlInv, TypeOK
  <2>1. CASE hand[t] = Nothing
    <3>1. ran' = ran /\ reran' = reran
      BY <1>5, <2>1 DEF BeginTurn
    <3> QED BY <1>2, <1>3, <1>4, <2>0, <3>1 DEF RunInv, RunsAgainOnlyIfReleased
  <2>2. CASE hand[t] # Nothing
    <3> DEFINE id == hand[t].id
    <3>1. /\ ran' = ran \cup {id} /\ reran' = reran \cup ({id} \cap ran)
          /\ pc[t] = "preparing" /\ pc'[t] = "turn" /\ hand' = hand
      BY <1>5, <2>2 DEF BeginTurn, Goto, queueVars, ControlInv, TypeOK
    <3>2. id \in Ids /\ id \in used
      BY <1>3, <2>2 DEF PQP!LeaseInv, PQP!Shape, PQP!Known, PQP!TypeOK
    <3>3. ~hand[t].requeued
      BY <2>2, <3>1 DEF ControlInv, Placed
    <3>4. PQP!Executes(t, id)
      BY <2>2, <3>3 DEF PQP!Executes
    <3>5. ASSUME id \in ran, id \notin expired \cup pulled PROVE FALSE
      <4>1. Ran(id)
        BY <3>5 DEF RunInv
      <4>2. ~PQP!Gone(id)
        BY <3>4 DEF PQP!Gone
      <4>3. PICK s \in Tasks : PQP!Executes(s, id) /\ pc[s] \in {"turn", "ending"}
        BY <4>1, <4>2 DEF Ran
      <4>4. s # t
        BY <3>1, <4>3
      <4> QED BY <3>2, <3>4, <3>5, <4>3, <4>4 DEF PQP!ExecutionInv, PQP!OneExecution
    <3>r. ASSUME NEW x, x = id PROVE Ran(x)'
      BY <2>2, <3>1, <3>3, <3>r DEF PQP!Executes, Ran
    <3> HIDE DEF id
    <3>6. ran' \subseteq used' /\ reran' \subseteq expired' \cup pulled'
      BY <1>2, <1>3, <3>1, <3>2, <3>5 DEF RunInv, RunsAgainOnlyIfReleased
    <3>7. ~Restart
      BY <2>0, <2>2
    <3>8. \A x \in ran' \ (expired' \cup pulled') : Ran(x)'
      BY <1>4, <3>1, <3>r, <3>7
    <3> QED BY <3>6, <3>8 DEF RunInv, RunsAgainOnlyIfReleased
  <2> QED BY <2>1, <2>2
<1>6. CASE Restart
  BY <1>2, <1>3, <1>4, <1>6 DEF Restart, RunInv, RunsAgainOnlyIfReleased
<1>7. CASE ~Restart /\ \A t \in Tasks : ~BeginTurn(t)
  <2>1. UNCHANGED <<ran, reran>>
    BY <1>7, RanKept
  <2> QED BY <1>2, <1>3, <1>4, <1>7, <2>1 DEF RunInv, RunsAgainOnlyIfReleased
<1> QED BY <1>5, <1>6, <1>7

(* A turn of a queued prompt starts a second time only when its lease ran  *)
(* out or somebody took the prompt away while it was executed: a turn that *)
(* fails, a busy session, an approval or an edit never repeats one.        *)
THEOREM RunsAgainOnlyIfReleasedHolds == Spec => []RunsAgainOnlyIfReleased
<1>1. Init => RunInv
  BY DEF Init, RunInv, RunsAgainOnlyIfReleased
<1>2. ControlInv /\ PQP!ExecutionInv /\ RunInv /\ [Next]_vars => RunInv'
  BY RunStep
<1>3. RunInv => RunsAgainOnlyIfReleased
  BY DEF RunInv
<1> QED BY ControlHolds, StoreHolds, <1>1, <1>2, <1>3, PTL DEF Spec

-----------------------------------------------------------------------------
(* The pause.  Only a drain that is between its check and its lease can    *)
(* take a prompt after the pause, and it takes one.                        *)

PauseInv ==
    /\ overrun \in {0, 1}
    /\ paused /\ pc[Drain] = "checking" => overrun = 0

(* No other step leases, pauses, or brings a drain to that place.          *)
LEMMA PauseKept ==
    ASSUME TypeOK, [Next]_vars,
           ~(BeginDrain \/ LeaseOrLeave \/ DrainTelegram \/ Pause)
    PROVE  /\ overrun' = overrun /\ (paused' => paused)
           /\ pc'[Drain] = "checking" => pc[Drain] = "checking"
<1>t. /\ pc \in [Tasks -> {"idle", "checking", "announcing", "arriving", "admitted", "preparing",
                           "turn", "ending", "postponed", "approved", "topping", "taking"}]
      /\ Drain \in Tasks /\ Directs \subseteq Tasks
  BY DEF TypeOK, Tasks
<1>1. overrun' = overrun /\ (paused' => paused)
  <2>1. ASSUME NEW t \in Tasks, Task(t) PROVE UNCHANGED <<overrun, paused>>
    BY <2>1
    DEF Task, BeginTurn, Postpone, Admit, Start, TurnRefused, EndTurn, Finish, TurnedAway,
        AskApproval, LateBusy, MoveOnTop, TakeNext, ghostVars
  <2>2. ASSUME People, ~Pause PROVE overrun' = overrun /\ (paused' => paused)
    <3>1. ASSUME NEW id, NEW d, Deny \/ Approve(d) \/ Arrive(d) \/ RunDirect(d, id)
          PROVE  UNCHANGED <<overrun, paused>>
      BY <3>1 DEF Deny, Approve, Arrive, RunDirect, ghostVars
    <3>3. ASSUME Resume PROVE overrun' = overrun /\ ~paused'
      BY <3>3 DEF Resume, ghostVars
    <3>4. ASSUME EnqueueLater \/ \E id \in Ids : Edit(id) PROVE UNCHANGED <<overrun, paused>>
      BY <3>4 DEF EnqueueLater, Edit, ghostVars
    <3>2. ASSUME NEW u \in Users, RunFronts(u) \/ \E id \in Ids : RunRemove(u, id)
          PROVE  overrun' = overrun /\ (paused' => paused)
      BY <3>2 DEF RunFronts, RunFront, RunCommandFront, RunRemove, ghostVars
    <3> QED BY <2>2, <3>1, <3>2, <3>3, <3>4 DEF People, Answer
  <2>3. ASSUME World PROVE UNCHANGED <<overrun, paused>>
    BY <2>3 DEF World, ExternalStarts, ExternalEnds, Expire, Restart, ghostVars
  <2>4. ASSUME AnnounceFails \/ RunThrows \/ RenewLease PROVE UNCHANGED <<overrun, paused>>
    BY <2>4 DEF AnnounceFails, RunThrows, RenewLease, ghostVars
  <2>5. CASE UNCHANGED vars
    BY <2>5 DEF vars, ghostVars
  <2> QED BY <2>1, <2>2, <2>3, <2>4, <2>5 DEF Next, DrainStep
<1>2. pc'[Drain] = "checking" => pc[Drain] = "checking"
  <2>g. ASSUME NEW t \in Tasks, NEW place, place # "checking", Goto(t, place)
        PROVE  pc'[Drain] = "checking" => pc[Drain] = "checking"
    BY <1>t, <2>g DEF Goto
  <2>1. CASE AnnounceFails \/ RunThrows
    BY <1>t, <2>g, <2>1 DEF AnnounceFails, RunThrows
  <2>2. ASSUME NEW t \in Tasks, Task(t)
        PROVE  pc'[Drain] = "checking" => pc[Drain] = "checking"
    <3>1. CASE Postpone(t) \/ Admit(t) \/ TurnedAway(t) \/ AskApproval(t)
      BY <2>g, <3>1 DEF Postpone, Admit, TurnedAway, AskApproval
    <3>2. CASE LateBusy(t) \/ MoveOnTop(t) \/ TakeNext(t) \/ Start(t) \/ BeginTurn(t)
      BY <2>g, <3>2 DEF LateBusy, MoveOnTop, TakeNext, Start, BeginTurn
    <3>3. CASE TurnRefused(t) \/ EndTurn(t) \/ Finish(t)
      BY <2>g, <3>3 DEF TurnRefused, EndTurn, Finish
    <3> QED BY <2>2, <3>1, <3>2, <3>3 DEF Task
  <2>3. ASSUME NEW d \in Directs, \/ Arrive(d) \/ Approve(d) \/ \E id \in Ids : RunDirect(d, id)
                                  \/ \E u \in Users : RunCommandFront(u, d)
        PROVE  pc'[Drain] = "checking" => pc[Drain] = "checking"
    BY <1>t, <2>g, <2>3 DEF Arrive, Approve, RunDirect, RunCommandFront
  <2>4. ASSUME \/ RenewLease \/ Deny \/ Resume \/ ExternalStarts \/ ExternalEnds \/ EnqueueLater
               \/ (\E id \in Ids : Edit(id) \/ Expire(id) \/ \E u \in Users : RunRemove(u, id))
               \/ (\E u \in Users : RunFront(u)) \/ UNCHANGED vars
        PROVE  UNCHANGED pc
    BY <2>4 DEF RenewLease, Deny, Resume, ExternalStarts, ExternalEnds, EnqueueLater, Edit, Expire,
           RunRemove, RunFront, processVars, vars
  <2>5. CASE Restart
    BY <1>t, <2>5 DEF Restart
  <2> QED
    BY <2>1, <2>2, <2>3, <2>4, <2>5 DEF Next, DrainStep, People, Answer, RunFronts, World
<1> QED BY <1>1, <1>2

LEMMA PauseStep ==
    ASSUME TypeOK, PauseInv, [Next]_vars
    PROVE  PauseInv'
<1>t. pc \in [Tasks -> {"idle", "checking", "announcing", "arriving", "admitted", "preparing",
                        "turn", "ending", "postponed", "approved", "topping", "taking"}]
      /\ Drain \in Tasks
  BY DEF TypeOK, Tasks
<1>1. CASE BeginDrain
  BY <1>1 DEF BeginDrain, PauseInv, ghostVars
<1>2. CASE LeaseOrLeave
  BY <1>t, <1>2 DEF LeaseOrLeave, TakesLease, Goto, PauseInv
<1>3. CASE DrainTelegram
  BY <1>t, <1>3 DEF DrainTelegram, TakesLease, Goto, PauseInv
<1>4. CASE Pause
  BY <1>4 DEF Pause, PauseInv
<1>5. CASE ~(BeginDrain \/ LeaseOrLeave \/ DrainTelegram \/ Pause)
  BY <1>5, PauseKept DEF PauseInv
<1> QED BY <1>1, <1>2, <1>3, <1>4, <1>5

(* At most one prompt starts after the queue is paused, in both adapters.  *)
THEOREM PauseOverrunsByOneHolds == Spec => []PauseOverrunsByOne
<1>1. Init => PauseInv
  BY DEF Init, PauseInv
<1>2. TypeOK /\ PauseInv /\ [Next]_vars => PauseInv'
  BY PauseStep
<1>3. PauseInv => PauseOverrunsByOne
  BY DEF PauseInv, PauseOverrunsByOne
<1> QED BY TypeCorrect, <1>1, <1>2, <1>3, PTL DEF Spec

-----------------------------------------------------------------------------
(* Telegram reads the pause, the session and the queue in one callback.    *)

ExactInv == PauseIsExact /\ pc[Drain] # "checking"

LEMMA ExactStep ==
    ASSUME Adapter = "telegram", TypeOK, ExactInv, [Next]_vars
    PROVE  ExactInv'
<1>t. pc \in [Tasks -> {"idle", "checking", "announcing", "arriving", "admitted", "preparing",
                        "turn", "ending", "postponed", "approved", "topping", "taking"}]
      /\ Drain \in Tasks
  BY DEF TypeOK, Tasks
<1>1. ~BeginDrain /\ ~LeaseOrLeave
  BY DEF BeginDrain, LeaseOrLeave, ExactInv
<1>2. CASE DrainTelegram
  BY <1>t, <1>2 DEF DrainTelegram, TakesLease, Goto, ExactInv, PauseIsExact
<1>3. CASE Pause
  BY <1>3 DEF Pause, processVars, ExactInv, PauseIsExact
<1>4. CASE ~(BeginDrain \/ LeaseOrLeave \/ DrainTelegram \/ Pause)
  BY <1>4, PauseKept DEF ExactInv, PauseIsExact
<1> QED BY <1>1, <1>2, <1>3, <1>4

(* A paused Telegram queue starts nothing.                                 *)
THEOREM PauseIsExactHolds == Adapter = "telegram" => (Spec => []PauseIsExact)
<1> SUFFICES ASSUME Adapter = "telegram" PROVE Spec => []PauseIsExact
  OBVIOUS
<1>1. Init => ExactInv
  BY DEF Init, ExactInv, PauseIsExact, Tasks
<1>2. TypeOK /\ ExactInv /\ [Next]_vars => ExactInv'
  BY ExactStep
<1>3. ExactInv => PauseIsExact
  BY DEF ExactInv
<1> QED BY TypeCorrect, <1>1, <1>2, <1>3, PTL DEF Spec

-----------------------------------------------------------------------------
(* In Telegram the busy check and the begin of the turn are one callback,  *)
(* so that processing is a lock: one task is between the two ends of a     *)
(* turn, and the session runs no other.                                    *)

InTurn(t) == pc[t] \in {"preparing", "topping", "turn", "ending"}

TurnInv ==
    /\ \A t \in Tasks : pc[t] # "admitted"
    /\ \A t \in Tasks : InTurn(t) => processing
    /\ \A s, t \in Tasks : InTurn(s) /\ InTurn(t) => s = t
    /\ session # Nothing => pc[session] = "turn"
    /\ NoCollision

LEMMA TurnStep ==
    ASSUME Adapter = "telegram", TypeOK, TurnInv, [Next]_vars
    PROVE  TurnInv'
<1>t. /\ pc \in [Tasks -> {"idle", "checking", "announcing", "arriving", "admitted", "preparing",
                           "turn", "ending", "postponed", "approved", "topping", "taking"}]
      /\ session \in Tasks \cup {Nothing}
      /\ Drain \in Tasks /\ Directs \subseteq Tasks /\ Nothing \notin Tasks
  BY ChannelAssumption DEF TypeOK, Tasks
<1> USE <1>t DEF TurnInv, InTurn, NoCollision
(* A step outside the turns,                                               *)
<1>m. ASSUME NEW t \in Tasks, pc[t] # "turn", NEW place, Goto(t, place),
             place \notin {"admitted", "preparing", "topping", "turn", "ending"},
             UNCHANGED <<processing, session, collided>>
      PROVE  TurnInv'
  BY <1>m DEF Goto
(* one from a place in a turn to another,                                  *)
<1>i. ASSUME NEW t \in Tasks, pc[t] \in {"preparing", "topping"}, NEW place, Goto(t, place),
             place \in {"topping", "ending"},
             UNCHANGED <<processing, session>>, ~collided'
      PROVE  TurnInv'
  BY <1>i DEF Goto
(* and one that moves no task.                                             *)
<1>q. ASSUME UNCHANGED <<pc, processing, session, collided>> PROVE TurnInv'
  BY <1>q
<1>1. ASSUME BeginDrain \/ LeaseOrLeave \/ DrainTelegram \/ AnnounceFails \/ RunThrows
      PROVE  TurnInv'
  <2>1. /\ UNCHANGED <<processing, session, collided>>
        /\ pc[Drain] # "turn" \/ DrainTelegram
        /\ Goto(Drain, "idle") \/ Goto(Drain, "checking") \/ Goto(Drain, "announcing")
    BY <1>1 DEF BeginDrain, LeaseOrLeave, DrainTelegram, TakesLease, AnnounceFails, RunThrows,
           ghostVars
  <2>2. pc[Drain] # "turn"
    <3>1. ~DrainTelegram \/ ~processing
      BY DEF DrainTelegram, Busy
    <3> QED BY <2>1, <3>1
  <2> QED BY <1>m, <2>1, <2>2
<1>2. ASSUME NEW t \in Tasks, Postpone(t) \/ TurnedAway(t) \/ AskApproval(t) \/ TakeNext(t)
      PROVE  TurnInv'
  <2>1. /\ UNCHANGED <<processing, session, collided>> /\ pc[t] # "turn"
        /\ Goto(t, "idle") \/ Goto(t, "postponed") \/ Goto(t, "arriving")
    BY <1>2 DEF Postpone, TurnedAway, AskApproval, TakeNext, ghostVars
  <2> QED BY <1>m, <2>1
<1>3. ASSUME NEW d \in Directs, \/ Arrive(d) \/ Approve(d) \/ \E u \in Users : RunCommandFront(u, d)
      PROVE  TurnInv'
  <2>1. /\ UNCHANGED <<processing, session, collided>> /\ pc[d] # "turn"
        /\ Goto(d, "approved") \/ Goto(d, "taking") \/ Goto(d, "arriving")
    BY <1>3 DEF Arrive, Approve, RunCommandFront, ghostVars
  <2> QED BY <1>m, <2>1
<1>4. ASSUME NEW t \in Tasks, Admit(t) PROVE TurnInv'
  <2>1. ~processing /\ session = Nothing
    BY <1>4 DEF Admit, Busy
  <2> QED BY <1>4, <2>1 DEF Admit, Goto, ghostVars
<1>5. ASSUME NEW t \in Tasks, Start(t) PROVE TurnInv'
  BY <1>5 DEF Start
<1>6. ASSUME NEW t \in Tasks, BeginTurn(t) PROVE TurnInv'
  BY <1>6 DEF BeginTurn, Goto
<1>7. ASSUME NEW t \in Tasks, TurnRefused(t) PROVE TurnInv'
  <2>1. session = Nothing
    BY <1>7 DEF TurnRefused
  <2> QED BY <1>i, <1>7, <2>1 DEF TurnRefused
<1>8. ASSUME NEW t \in Tasks, LateBusy(t) \/ MoveOnTop(t) PROVE TurnInv'
  <2>1. /\ UNCHANGED <<processing, session, collided>> /\ pc[t] \in {"preparing", "topping"}
        /\ Goto(t, "topping") \/ Goto(t, "ending")
    BY <1>8 DEF LateBusy, MoveOnTop, ghostVars
  <2> QED BY <1>i, <2>1
<1>9. ASSUME NEW t \in Tasks, EndTurn(t) PROVE TurnInv'
  BY <1>9 DEF EndTurn, Goto
<1>10. ASSUME NEW t \in Tasks, Finish(t) PROVE TurnInv'
  <2>1. CASE pc[t] = "ending"
    <3>1. /\ \A s \in Tasks \ {t} : ~InTurn(s)
          /\ session = Nothing
      BY <2>1
    <3>2. /\ processing' = FALSE /\ Goto(t, "idle") /\ UNCHANGED <<session, collided>>
      BY <1>10, <2>1 DEF Finish, ghostVars
    <3> QED BY <3>1, <3>2 DEF Goto
  <2>2. CASE pc[t] = "postponed"
    <3>1. processing' = (processing /\ TRUE) /\ Goto(t, "idle") /\ UNCHANGED <<session, collided>>
      BY <1>10, <2>2 DEF Finish, ghostVars
    <3>2. processing' = processing
      BY <3>1 DEF TypeOK
    <3> QED BY <1>m, <2>2, <3>1, <3>2
  <2> QED BY <1>10, <2>1, <2>2 DEF Finish
<1>11. ASSUME \/ RenewLease \/ Deny \/ Pause \/ Resume \/ ExternalStarts \/ ExternalEnds
              \/ EnqueueLater \/ UNCHANGED vars
       PROVE  TurnInv'
  BY <1>q, <1>11
  DEF RenewLease, Deny, Pause, Resume, ExternalStarts, ExternalEnds, EnqueueLater, vars,
      processVars, ghostVars
<1>12. ASSUME NEW id \in Ids, \/ Edit(id) \/ Expire(id) \/ \E u \in Users : RunRemove(u, id)
       PROVE  TurnInv'
  BY <1>q, <1>12 DEF Edit, Expire, RunRemove, processVars, ghostVars
<1>13. ASSUME NEW u \in Users, RunFront(u) PROVE TurnInv'
  BY <1>q, <1>13 DEF RunFront, processVars, ghostVars
<1>14. ASSUME Restart PROVE TurnInv'
  BY <1>14 DEF Restart
<1>15. \A d, id : ~RunDirect(d, id)
  BY DEF RunDirect
<1> QED
  BY <1>1, <1>2, <1>3, <1>4, <1>5, <1>6, <1>7, <1>8, <1>9, <1>10, <1>11, <1>12, <1>13, <1>14, <1>15
  DEF Next, DrainStep, Task, People, Answer, RunFronts, World

(* In Telegram no turn is refused because another one is running: a prompt *)
(* that comes while the session works is queued.                           *)
THEOREM NoCollisionHolds == Adapter = "telegram" => (Spec => []NoCollision)
<1> SUFFICES ASSUME Adapter = "telegram" PROVE Spec => []NoCollision
  OBVIOUS
<1>1. Init => TurnInv
  BY DEF Init, TurnInv, InTurn, NoCollision
<1>2. TypeOK /\ TurnInv /\ [Next]_vars => TurnInv'
  BY TurnStep
<1>3. TurnInv => NoCollision
  BY DEF TurnInv
<1> QED BY TypeCorrect, <1>1, <1>2, <1>3, PTL DEF Spec
=============================================================================

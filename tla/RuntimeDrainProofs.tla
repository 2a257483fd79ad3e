-------------------------- MODULE RuntimeDrainProofs --------------------------
(***************************************************************************)
(* Proofs about RuntimeDrain, for every number of runtimes, sent prompts,  *)
(* restarts, CLI turns and nudges.                                         *)
(*                                                                         *)
(* StoreHolds takes over what PromptQueueProofs shows of the store.        *)
(* ControlInv says where drains and turns stand, LockInv whose the drain   *)
(* lock is, and PauseInv and WakeInv build on both.                        *)
(***************************************************************************)
EXTENDS RuntimeDrain, TLAPS

PQP == INSTANCE PromptQueueProofs WITH Keys <- {}, Workers <- Runtimes, Users <- Runtimes

-----------------------------------------------------------------------------
(***************************************************************************)
(* PQ!A of the module that uses the store and PQP!A of the proofs about it *)
(* are the same formula under two names.                                   *)
(***************************************************************************)

(* The helpers are the same ...                                            *)
LEMMA SameHelpers ==
    /\ \A q, id : PQ!Without(q, id) = PQP!Without(q, id)
    /\ \A q, id : PQ!ToFront(q, id) = PQP!ToFront(q, id)
    /\ PQ!Queued = PQP!Queued
    /\ \A it : PQ!Unleased(it) = PQP!Unleased(it)
    /\ \A it : PQ!ClearExpired(it) = PQP!ClearExpired(it)
    /\ \A it : PQ!Runnable(it) <=> PQP!Runnable(it)
    /\ \A h : PQ!Current(h) <=> PQP!Current(h)
    /\ \A w, id : PQ!Executes(w, id) <=> PQP!Executes(w, id)
    /\ \A S, w : PQ!InExecution(S, w) = PQP!InExecution(S, w)
<1>1. \A q, id : PQ!Without(q, id) = PQP!Without(q, id)
  BY DEF PQ!Without, PQ!RemoveFirst, PQ!RemoveAt, PQ!SelectInSeq, PQ!Min,
         PQP!Without, PQP!RemoveFirst, PQP!RemoveAt, PQP!SelectInSeq, PQP!Min
<1>2. \A q, id : PQ!ToFront(q, id) = PQP!ToFront(q, id)
  BY <1>1 DEF PQ!ToFront, PQ!Cons, PQP!ToFront, PQP!Cons
<1>3. PQ!Queued = PQP!Queued
  BY DEF PQ!Queued, PQ!Range, PQP!Queued, PQP!Range
<1>4. \A it : PQ!Unleased(it) = PQP!Unleased(it)
  BY DEF PQ!Unleased, PQP!Unleased
<1>5. \A it : PQ!ClearExpired(it) = PQP!ClearExpired(it)
  BY <1>4 DEF PQ!ClearExpired, PQP!ClearExpired
<1>6. \A it : PQ!Runnable(it) <=> PQP!Runnable(it)
  BY DEF PQ!Runnable, PQP!Runnable
<1>7. \A h : PQ!Current(h) <=> PQP!Current(h)
  BY <1>3 DEF PQ!Current, PQ!Matches, PQP!Current, PQP!Matches
<1>8. \A w, id : PQ!Executes(w, id) <=> PQP!Executes(w, id)
  BY DEF PQ!Executes, PQP!Executes
<1>9. \A S, w : PQ!InExecution(S, w) = PQP!InExecution(S, w)
  BY DEF PQ!InExecution, PQ!Executes, PQP!InExecution, PQP!Executes
<1> QED BY <1>1, <1>2, <1>3, <1>4, <1>5, <1>6, <1>7, <1>8, <1>9

(* ... so the steps are, ...                                               *)
LEMMA SameStep == [PQ!Next]_PQ!vars => [PQP!Next]_PQP!vars
<1> SUFFICES ASSUME [PQ!Next]_PQ!vars PROVE [PQP!Next]_PQP!vars
  OBVIOUS
<1>1. ASSUME NEW key \in {NoKey}, NEW due \in BOOLEAN, PQ!Enqueue(key, due)
      PROVE  PQP!Enqueue(key, due)
  BY <1>1, SameHelpers
  DEF PQ!Enqueue, PQ!history,
      PQP!Enqueue, PQP!history
<1>2. ASSUME NEW id \in Ids, PQ!BecomesDue(id)
      PROVE  PQP!BecomesDue(id)
  BY <1>2, SameHelpers
  DEF PQ!BecomesDue, PQ!history,
      PQP!BecomesDue, PQP!history
<1>3. ASSUME NEW id \in Ids, PQ!LeaseExpires(id)
      PROVE  PQP!LeaseExpires(id)
  BY <1>3, SameHelpers
  DEF PQ!LeaseExpires,
      PQP!LeaseExpires
<1>4. ASSUME NEW w \in Runtimes, PQ!LeaseNext(w)
      PROVE  PQP!LeaseNext(w)
  BY <1>4, SameHelpers
  DEF PQ!LeaseNext, PQ!history,
      PQP!LeaseNext, PQP!history
<1>5. ASSUME NEW w \in Runtimes, PQ!RenewLease(w)
      PROVE  PQP!RenewLease(w)
  BY <1>5, SameHelpers
  DEF PQ!RenewLease, PQ!history,
      PQP!RenewLease, PQP!history
<1>6. ASSUME NEW w \in Runtimes, PQ!CompleteLease(w)
      PROVE  PQP!CompleteLease(w)
  BY <1>6, SameHelpers
  DEF PQ!CompleteLease,
      PQP!CompleteLease
<1>7. ASSUME NEW w \in Runtimes, PQ!FailLease(w)
      PROVE  PQP!FailLease(w)
  BY <1>7, SameHelpers
  DEF PQ!FailLease, PQ!history,
      PQP!FailLease, PQP!history
<1>8. ASSUME NEW w \in Runtimes, PQ!Requeue(w)
      PROVE  PQP!Requeue(w)
  BY <1>8, SameHelpers
  DEF PQ!Requeue,
      PQP!Requeue
<1>9. ASSUME NEW w \in Runtimes, PQ!Dequeue(w)
      PROVE  PQP!Dequeue(w)
  BY <1>9, SameHelpers
  DEF PQ!Dequeue, PQ!TakeUnleased,
      PQP!Dequeue, PQP!TakeUnleased
<1>10. ASSUME NEW w \in Runtimes, NEW id \in Ids, PQ!RunTaken(w, id)
       PROVE  PQP!RunTaken(w, id)
  BY <1>10, SameHelpers
  DEF PQ!RunTaken, PQ!TakeUnleased,
      PQP!RunTaken, PQP!TakeUnleased
<1>11. ASSUME NEW id \in Ids, PQ!Cancel(id)
       PROVE  PQP!Cancel(id)
  BY <1>11, SameHelpers
  DEF PQ!Cancel,
      PQP!Cancel
<1>12. ASSUME PQ!ClearQueue
       PROVE  PQP!ClearQueue
  BY <1>12, SameHelpers
  DEF PQ!ClearQueue,
      PQP!ClearQueue
<1>13. ASSUME NEW id \in Ids, PQ!MoveToTop(id)
       PROVE  PQP!MoveToTop(id)
  BY <1>13, SameHelpers
  DEF PQ!MoveToTop, PQ!Reorder, PQ!history,
      PQP!MoveToTop, PQP!Reorder, PQP!history
<1>14. ASSUME NEW id \in Ids, PQ!MoveUp(id)
       PROVE  PQP!MoveUp(id)
  BY <1>14, SameHelpers
  DEF PQ!MoveUp, PQ!Reorder, PQ!Exchange, PQ!history,
      PQP!MoveUp, PQP!Reorder, PQP!Exchange, PQP!history
<1>15. ASSUME NEW id \in Ids, PQ!MoveDown(id)
       PROVE  PQP!MoveDown(id)
  BY <1>15, SameHelpers
  DEF PQ!MoveDown, PQ!Reorder, PQ!Exchange, PQ!history,
      PQP!MoveDown, PQP!Reorder, PQP!Exchange, PQP!history
<1>16. ASSUME NEW u \in Runtimes, NEW id \in Ids, PQ!RunNowRemove(u, id)
       PROVE  PQP!RunNowRemove(u, id)
  BY <1>16, SameHelpers
  DEF PQ!RunNowRemove,
      PQP!RunNowRemove
<1>17. ASSUME NEW u \in Runtimes, PQ!RunNowFront(u)
       PROVE  PQP!RunNowFront(u)
  BY <1>17, SameHelpers
  DEF PQ!RunNowFront, PQ!history,
      PQP!RunNowFront, PQP!history
<1>18. ASSUME NEW W \in SUBSET Runtimes, NEW U \in SUBSET Runtimes, PQ!Crash(W, U)
       PROVE  PQP!Crash(W, U)
  BY <1>18 DEF PQ!Crash, PQ!Unstored, PQ!store, PQP!Crash, PQP!Unstored, PQP!store
<1>19. CASE PQ!Environment
  BY <1>1, <1>2, <1>3, <1>19 DEF PQ!Environment, PQP!Next, PQP!Environment
<1>20. CASE PQ!Editing
  BY <1>11, <1>12, <1>13, <1>14, <1>15, <1>20 DEF PQ!Editing, PQP!Next, PQP!Editing
<1>21. ASSUME NEW w \in Runtimes, PQ!Worker(w) PROVE PQP!Next
  BY <1>4, <1>5, <1>6, <1>7, <1>8, <1>9, <1>10, <1>21 DEF PQ!Worker, PQP!Next, PQP!Worker
<1>22. ASSUME NEW u \in Runtimes, PQ!User(u) PROVE PQP!Next
  BY <1>16, <1>17, <1>22 DEF PQ!User, PQP!Next, PQP!User
<1>23. CASE PQ!Dies
  BY <1>18, <1>23 DEF PQ!Dies, PQP!Next, PQP!Dies
<1>24. CASE UNCHANGED PQ!vars
  BY <1>24 DEF PQ!vars, PQ!store, PQ!history, PQP!vars, PQP!store, PQP!history
<1> QED BY <1>19, <1>20, <1>21, <1>22, <1>23, <1>24 DEF PQ!Next

(* ... and the initial states and the types.                               *)
LEMMA SameInit == PQ!Init => PQP!Init
BY DEF PQ!Init, PQP!Init

LEMMA SameTypes == (PQP!TypeOK => PQ!TypeOK) /\ (PQP!TypeOK' => PQ!TypeOK')
BY DEF PQ!TypeOK, PQ!Item, PQ!Hand, PQP!TypeOK, PQP!Item, PQP!Hand

LEMMA SameAssumption == PQP!QueueAssumption
BY StoreAssumption DEF PQ!QueueAssumption, PQP!QueueAssumption

-----------------------------------------------------------------------------
(* Every step of the dashboard context is one of the store, or leaves it   *)
(* alone.                                                                  *)

LEMMA CrashStep ==
    ASSUME PQ!TypeOK, NEW r \in Runtimes, PQ!Crash({r}, {r})
    PROVE  [PQ!Next]_PQ!vars
<1>1. CASE hand[r] # Nothing \/ limbo[r] # Nothing
  <2>1. {r} \in SUBSET Runtimes
    OBVIOUS
  <2>2. (\E w \in {r} : hand[w] # Nothing) \/ (\E u \in {r} : limbo[u] # Nothing)
    BY <1>1
  <2> QED BY <2>1, <2>2 DEF PQ!Next, PQ!Dies
<1>2. CASE hand[r] = Nothing /\ limbo[r] = Nothing
  <2>1. hand' = hand /\ limbo' = limbo
    BY <1>2 DEF PQ!Crash, PQ!TypeOK
  <2>2. PQ!Unstored({r}, {r}) = {}
    BY <1>2 DEF PQ!Unstored
  <2> QED BY <2>1, <2>2 DEF PQ!Crash, PQ!vars, PQ!store, PQ!history
<1> QED BY <1>1, <1>2

(* The steps that leave the store alone.                                   *)
Aside ==
    \/ LockExpires \/ ExternalStarts \/ ExternalEnds
    \/ \E r \in Runtimes : \/ DrainRefused(r) \/ BeginDrain(r) \/ LookupFails(r) \/ LeaveDrain(r)
                           \/ RenewLock(r) \/ Pause(r) \/ Resume(r) \/ Abort(r) \/ Monitor(r)
    \/ \E s \in Sends : Send(s) \/ SendRuns(s) \/ SendFinishes(s)
    \/ \E t \in Tasks : Turning(t)

LEMMA AsideKeepsStore == Aside => UNCHANGED queueVars
BY DEF Aside, LockExpires, ExternalStarts, ExternalEnds, DrainRefused, BeginDrain, LookupFails,
       LeaveDrain, RenewLock, Pause, Resume, Abort, Monitor, Send, SendRuns, SendFinishes, Turning,
       BeginTurn, TurnRefused, EndTurn

(* One case for each action that calls the store.                          *)
LEMMA UsesStep == PQ!TypeOK /\ [Next]_vars => [PQ!Next]_PQ!vars
<1> SUFFICES ASSUME PQ!TypeOK, [Next]_vars PROVE [PQ!Next]_PQ!vars
  OBVIOUS
<1>0. ASSUME UNCHANGED queueVars PROVE UNCHANGED PQ!vars
  BY <1>0 DEF queueVars, storeVars, PQ!vars, PQ!store, PQ!history
<1>1. ASSUME Aside PROVE UNCHANGED PQ!vars
  BY <1>0, <1>1, AsideKeepsStore
<1>2. ASSUME NEW r \in Runtimes,
             LeaseItem(r) \/ RenewLease(r) \/ DrainCompletes(r) \/ DrainFails(r)
      PROVE  PQ!Next
  BY <1>2 DEF LeaseItem, RenewLease, DrainCompletes, DrainFails, PQ!Next, PQ!Worker
<1>3. ASSUME NEW s \in Sends, SendQueues(s) PROVE PQ!Next
  BY <1>3 DEF SendQueues, PQ!Next, PQ!Environment
<1>4. ASSUME NEW r \in Runtimes, NEW id \in Ids, Edit(r, id) PROVE PQ!Next
  BY <1>4 DEF Edit, PQ!Next, PQ!Editing
<1>5. ASSUME NEW r \in Runtimes, RunFront(r) \/ \E id \in Ids : RunRemove(r, id) PROVE PQ!Next
  BY <1>5 DEF RunFront, RunRemove, PQ!Next, PQ!User
<1>6. ASSUME NEW id \in Ids, LeaseExpires(id) PROVE PQ!Next
  BY <1>6 DEF LeaseExpires, PQ!Next, PQ!Environment
<1>7. ASSUME NEW r \in Runtimes, Restart(r) PROVE [PQ!Next]_PQ!vars
  BY <1>7, CrashStep DEF Restart
<1>8. ASSUME UNCHANGED vars PROVE UNCHANGED PQ!vars
  BY <1>0, <1>8 DEF vars
<1> QED
  BY <1>1, <1>2, <1>3, <1>4, <1>5, <1>6, <1>7, <1>8
  DEF Next, Draining, People, Sending, World, Aside

(* What the proofs about PromptQueue say of the store holds here.          *)
LEMMA StoreInit == Init => PQP!ExecutionInv
BY SameInit, SameAssumption, PQP!ExecutionInit DEF Init

LEMMA StoreStep == PQP!ExecutionInv /\ [Next]_vars => PQP!ExecutionInv'
<1> SUFFICES ASSUME PQP!ExecutionInv, [Next]_vars PROVE PQP!ExecutionInv'
  OBVIOUS
<1>1. PQ!TypeOK
  BY SameTypes DEF PQP!ExecutionInv, PQP!LeaseInv, PQP!Shape
<1>2. [PQP!Next]_PQP!vars
  BY <1>1, UsesStep, SameStep
<1> QED BY <1>2, SameAssumption, PQP!ExecutionStep

LEMMA StoreHolds == Spec => []PQP!ExecutionInv
<1> QED BY StoreInit, StoreStep, PTL DEF Spec

(* Drains, sent prompts, queue commands and restarts of several processes  *)
(* use the store as PromptQueue allows.                                    *)
THEOREM Refines == Spec => UsesPromptQueue
<1>1. Init => PQ!Init
  BY DEF Init
<1>2. PQP!ExecutionInv /\ [Next]_vars => [PQ!Next]_PQ!vars
  BY SameTypes, UsesStep DEF PQP!ExecutionInv, PQP!LeaseInv, PQP!Shape
<1> QED BY <1>1, <1>2, StoreHolds, PTL DEF Spec, UsesPromptQueue, PQ!Spec
-----------------------------------------------------------------------------
(* What the calls of the store do with the copies of the drains.           *)

LEMMA Copies ==
    ASSUME PQ!TypeOK, NEW r \in Runtimes
    PROVE  /\ PQ!LeaseNext(r) => /\ hand'[r] # Nothing
                                 /\ \A x \in Runtimes \ {r} : hand'[x] = hand[x]
           /\ \/ PQ!CompleteLease(r) \/ PQ!FailLease(r) \/ PQ!Crash({r}, {r})
              => hand'[r] = Nothing /\ \A x \in Runtimes \ {r} : hand'[x] = hand[x]
<1>t. /\ hand \in [Runtimes -> PQ!Hand \cup {Nothing}] /\ queue \in Seq(Ids)
      /\ Nothing \notin PQ!Hand
  BY StoreAssumption DEF PQ!TypeOK, PQ!QueueAssumption, PQ!Hand
<1>1. ASSUME PQ!LeaseNext(r)
      PROVE  hand'[r] # Nothing /\ \A x \in Runtimes \ {r} : hand'[x] = hand[x]
  <2>1. PICK i \in DOMAIN queue, t \in Tokens :
          hand' = [hand EXCEPT ![r] = [id |-> queue[i], token |-> t, requeued |-> FALSE]]
    BY <1>1 DEF PQ!LeaseNext
  <2> DEFINE h == [id |-> queue[i], token |-> t, requeued |-> FALSE]
  <2>2. h \in PQ!Hand
    BY <1>t DEF PQ!Hand
  <2> HIDE DEF h
  <2>3. hand' = [hand EXCEPT ![r] = h]
    BY <2>1 DEF h
  <2> QED BY <1>t, <2>2, <2>3
<1>2. ASSUME PQ!CompleteLease(r) \/ PQ!FailLease(r) \/ PQ!Crash({r}, {r})
      PROVE  hand'[r] = Nothing /\ \A x \in Runtimes \ {r} : hand'[x] = hand[x]
  BY <1>t, <1>2 DEF PQ!CompleteLease, PQ!FailLease, PQ!Crash
<1> QED BY <1>1, <1>2

LEMMA OtherCopies ==
    ASSUME NEW r, NEW id,
           \/ PQ!Enqueue(NoKey, TRUE) \/ PQ!MoveToTop(id) \/ PQ!MoveUp(id) \/ PQ!MoveDown(id)
           \/ PQ!Cancel(id) \/ PQ!ClearQueue \/ PQ!LeaseExpires(id) \/ PQ!RenewLease(r)
           \/ PQ!RunNowRemove(r, id) \/ PQ!RunNowFront(r)
    PROVE  UNCHANGED hand
BY DEF PQ!Enqueue, PQ!MoveToTop, PQ!MoveUp, PQ!MoveDown, PQ!Reorder, PQ!Cancel, PQ!ClearQueue,
       PQ!LeaseExpires, PQ!RenewLease, PQ!RunNowRemove, PQ!RunNowFront

LEMMA RuntimeOfTask ==
    /\ \A r \in Runtimes : r \in Tasks /\ RuntimeOf(r) = r /\ r \notin Sends
    /\ \A s \in Sends : s \in Tasks /\ RuntimeOf(s) = At[s] /\ s \notin Runtimes
    /\ \A t \in Tasks : RuntimeOf(t) \in Runtimes /\ t # Nothing
    /\ Nothing \notin Runtimes /\ Gone \notin Runtimes /\ Nothing # Gone
BY RuntimeAssumption DEF RuntimeOf, Tasks

-----------------------------------------------------------------------------
(* Where drains and turns stand.                                           *)

(* A drain has a copy from its lease to the end of its pass, and its       *)
(* draining flag is up all the way.                                        *)
Placed ==
    /\ \A r \in Runtimes : pc[r] \in {"idle", "lookup", "preparing", "turn", "ending", "failing"}
    /\ \A r \in Runtimes : hand[r] = Nothing <=> pc[r] \in {"idle", "lookup"}
    /\ \A r \in Runtimes : pc[r] # "idle" => draining[r]
    /\ DrainingMarked

(* An agent session runs a task of its runtime that is in its turn.        *)
SessionInv ==
    \A r \in Runtimes : session[r] # Nothing =>
        /\ session[r] \in Tasks /\ RuntimeOf(session[r]) = r
        /\ pc[session[r]] = "turn"

(* A drain that has not lapsed owns the live drain lock, and an owner      *)
(* drains.                                                                 *)
LockInv ==
    /\ \A r \in Runtimes \ lapsed : pc[r] # "idle" => lock.owner = r /\ lock.live
    /\ lock.owner \in Runtimes => pc[lock.owner] # "idle"

ControlInv == TypeOK /\ Placed /\ SessionInv /\ LockInv

LEMMA ControlInit == Init => ControlInv
<1> SUFFICES ASSUME Init PROVE ControlInv
  OBVIOUS
<1>1. PQ!TypeOK
  BY StoreInit, SameTypes DEF PQP!ExecutionInv, PQP!LeaseInv, PQP!Shape
<1>2. hand = [r \in Runtimes |-> Nothing]
  BY DEF Init, PQ!Init
<1>3. TypeOK
  BY <1>1 DEF TypeOK, Init, Tasks, NoLock
<1>4. Placed
  BY <1>2, RuntimeOfTask DEF Placed, DrainingMarked, Init
<1>5. SessionInv /\ LockInv
  BY RuntimeOfTask DEF SessionInv, LockInv, Init, NoLock
<1> QED BY <1>3, <1>4, <1>5 DEF ControlInv

(* One case for each action.                                               *)
LEMMA ControlStep ==
    ASSUME ControlInv, PQP!ExecutionInv, [Next]_vars
    PROVE  ControlInv'
<1>t. PQ!TypeOK /\ PQ!TypeOK' /\ TypeOK
  BY StoreStep, SameTypes
  DEF ControlInv, TypeOK, PQP!ExecutionInv, PQP!LeaseInv, PQP!Shape
<1> USE <1>t, RuntimeOfTask DEF ControlInv, TypeOK, Placed, DrainingMarked, SessionInv, LockInv
(* The steps that move no task.                                            *)
<1>q. ASSUME UNCHANGED <<hand, pc, draining, session, lock, lapsed, excuse, wake, seen>>,
             paused' \in BOOLEAN, external' \in BOOLEAN, overrun' \in Nat
      PROVE  ControlInv'
  BY <1>q
(* The end of a pass.                                                      *)
<1>e. ASSUME NEW r \in Runtimes, pc[r] # "turn", Release(r), Goto(r, "idle"),
             draining' = [draining EXCEPT ![r] = FALSE],
             hand'[r] = Nothing /\ \A x \in Runtimes \ {r} : hand'[x] = hand[x],
             wake' \in [Runtimes -> BOOLEAN], excuse' \subseteq Excuses, excuse \subseteq excuse',
             UNCHANGED <<session, paused, external, seen, lapsed, overrun>>
      PROVE  ControlInv'
  <2>1. TypeOK'
    BY <1>e DEF Release, NoLock, Goto
  <2>2. Placed'
    BY <1>e DEF Goto
  <2>3. SessionInv'
    BY <1>e DEF Goto
  <2>4. LockInv'
    BY <1>e DEF Release, NoLock, Goto
  <2> QED BY <2>1, <2>2, <2>3, <2>4
<1>1. ASSUME NEW r \in Runtimes, DrainRefused(r) PROVE ControlInv'
  BY <1>1 DEF DrainRefused, queueVars, worldVars, Excuses
<1>2. ASSUME NEW r \in Runtimes, BeginDrain(r) PROVE ControlInv'
  BY <1>2 DEF BeginDrain, Goto, queueVars, worldVars
<1>3. ASSUME NEW r \in Runtimes, LookupFails(r) PROVE ControlInv'
  BY <1>3 DEF LookupFails, Release, NoLock, Goto, queueVars, Excuses
<1>4. ASSUME NEW r \in Runtimes, LeaveDrain(r) PROVE ControlInv'
  BY <1>4 DEF LeaveDrain, Release, NoLock, Goto, queueVars, worldVars, ghostVars
<1>5. ASSUME NEW r \in Runtimes, LeaseItem(r) PROVE ControlInv'
  <2>1. /\ pc[r] = "lookup" /\ PQ!LeaseNext(r) /\ Goto(r, "preparing")
        /\ overrun' \in {overrun, overrun + 1}
        /\ UNCHANGED <<paused, lock, draining, wake, session, external, seen, lapsed, excuse>>
    BY <1>5 DEF LeaseItem, worldVars
  <2>2. hand'[r] # Nothing /\ \A x \in Runtimes \ {r} : hand'[x] = hand[x]
    BY <2>1, Copies
  <2> QED BY <2>1, <2>2 DEF Goto
<1>6. ASSUME NEW r \in Runtimes, RenewLease(r) PROVE ControlInv'
  <2>1. hand' = hand
    BY <1>6, OtherCopies DEF RenewLease
  <2>2. UNCHANGED <<pc, draining, session, lock, lapsed, excuse, wake, seen, paused, external,
                    overrun>>
    BY <1>6 DEF RenewLease, flowVars, worldVars, ghostVars
  <2> QED BY <1>q, <2>1, <2>2
<1>7. ASSUME NEW r \in Runtimes, RenewLock(r) PROVE ControlInv'
  BY <1>7 DEF RenewLock, queueVars, flowVars, worldVars, ghostVars
<1>8. ASSUME NEW r \in Runtimes, DrainCompletes(r) PROVE ControlInv'
  <2>1. /\ pc[r] = "ending" /\ PQ!CompleteLease(r)
        /\ draining' = [draining EXCEPT ![r] = FALSE] /\ Release(r) /\ Goto(r, "idle")
        /\ excuse' \in {excuse, excuse \cup {"paused"}}
        /\ UNCHANGED <<session, paused, external, seen, lapsed, overrun>>
    BY <1>8 DEF DrainCompletes, worldVars
  <2>w. UNCHANGED wake \/ Wake(r)
    BY <1>8 DEF DrainCompletes
  <2>2. wake' \in [Runtimes -> BOOLEAN]
    <3>1. wake \in [Runtimes -> BOOLEAN]
      OBVIOUS
    <3>2. CASE UNCHANGED wake
      BY <3>1, <3>2
    <3>3. CASE Wake(r)
      BY <3>1, <3>3 DEF Wake
    <3> QED BY <2>w, <3>2, <3>3
  <2>3. hand'[r] = Nothing /\ \A x \in Runtimes \ {r} : hand'[x] = hand[x]
    BY <2>1, Copies
  <2> QED BY <1>e, <2>1, <2>2, <2>3 DEF Excuses
<1>9. ASSUME NEW r \in Runtimes, DrainFails(r) PROVE ControlInv'
  <2>1. /\ pc[r] = "failing" /\ PQ!FailLease(r)
        /\ draining' = [draining EXCEPT ![r] = FALSE] /\ Release(r) /\ Goto(r, "idle")
        /\ excuse' = excuse \cup {"failed"}
        /\ UNCHANGED <<session, paused, external, seen, lapsed, overrun, wake>>
    BY <1>9 DEF DrainFails, worldVars
  <2>2. hand'[r] = Nothing /\ \A x \in Runtimes \ {r} : hand'[x] = hand[x]
    BY <2>1, Copies
  <2> QED BY <1>e, <2>1, <2>2 DEF Excuses
<1>10. ASSUME NEW s \in Sends, Send(s) PROVE ControlInv'
  BY <1>10 DEF Send, Goto, queueVars, worldVars, ghostVars
<1>11. ASSUME NEW s \in Sends, SendQueues(s) PROVE ControlInv'
  <2>1. /\ pc[s] = "lookup" /\ PQ!Enqueue(NoKey, TRUE) /\ Goto(s, "over")
        /\ UNCHANGED <<paused, lock, draining, wake, session, external, seen, lapsed, overrun,
                       excuse>>
    BY <1>11 DEF SendQueues, worldVars, ghostVars
  <2>2. UNCHANGED hand
    BY <2>1, OtherCopies
  <2> QED BY <2>1, <2>2 DEF Goto
<1>12. ASSUME NEW s \in Sends, SendRuns(s) PROVE ControlInv'
  BY <1>12 DEF SendRuns, Goto, queueVars, worldVars, ghostVars
<1>13. ASSUME NEW s \in Sends, SendFinishes(s) PROVE ControlInv'
  BY <1>13 DEF SendFinishes, Goto, Wake, queueVars, worldVars, ghostVars
<1>14. ASSUME NEW t \in Tasks, BeginTurn(t) PROVE ControlInv'
  BY <1>14 DEF BeginTurn, Goto, queueVars, worldVars, ghostVars
<1>15. ASSUME NEW t \in Tasks, TurnRefused(t) PROVE ControlInv'
  BY <1>15 DEF TurnRefused, Goto, queueVars, worldVars, ghostVars
<1>16. ASSUME NEW t \in Tasks, EndTurn(t) PROVE ControlInv'
  BY <1>16 DEF EndTurn, Goto, queueVars, worldVars, ghostVars
<1>17. ASSUME NEW r \in Runtimes, Pause(r) \/ Resume(r) PROVE ControlInv'
  <2>1. /\ UNCHANGED <<hand, pc, draining, session, lock, lapsed, excuse, wake, seen, external>>
        /\ paused' \in BOOLEAN /\ overrun' \in {0, overrun}
    BY <1>17 DEF Pause, Resume, queueVars, flowVars, worldVars, ghostVars
  <2> QED BY <1>q, <2>1
<1>18. ASSUME NEW r \in Runtimes, NEW id \in Ids, Edit(r, id) \/ RunRemove(r, id) PROVE ControlInv'
  <2>1. UNCHANGED hand
    BY <1>18, OtherCopies DEF Edit, RunRemove
  <2>2. UNCHANGED <<pc, draining, session, lock, lapsed, excuse, wake, seen, external, paused,
                    overrun>>
    BY <1>18 DEF Edit, RunRemove, flowVars, worldVars, ghostVars
  <2> QED BY <1>q, <2>1, <2>2
<1>19. ASSUME NEW r \in Runtimes, RunFront(r) PROVE ControlInv'
  BY <1>19, OtherCopies DEF RunFront, Wake, worldVars, ghostVars
<1>20. ASSUME NEW r \in Runtimes, Abort(r) PROVE ControlInv'
  BY <1>20 DEF Abort, Nudge, Wake, queueVars, ghostVars
<1>21. ASSUME NEW id \in Ids, LeaseExpires(id) PROVE ControlInv'
  BY <1>21, OtherCopies DEF LeaseExpires, flowVars, worldVars, ghostVars
<1>22. ASSUME LockExpires PROVE ControlInv'
  BY <1>22 DEF LockExpires, queueVars, flowVars, worldVars
<1>23. ASSUME ExternalStarts PROVE ControlInv'
  BY <1>23 DEF ExternalStarts, queueVars, flowVars, ghostVars
<1>24. ASSUME NEW r \in Runtimes, Monitor(r) PROVE ControlInv'
  BY <1>24 DEF Monitor, queueVars, flowVars, ghostVars
<1>25. ASSUME ExternalEnds PROVE ControlInv'
  BY <1>25 DEF ExternalEnds, queueVars, Excuses
<1>26. ASSUME NEW r \in Runtimes, Restart(r) PROVE ControlInv'
  <2>1. hand'[r] = Nothing /\ \A x \in Runtimes \ {r} : hand'[x] = hand[x]
    BY <1>26, Copies DEF Restart
  <2>2. pc'[r] = "idle" /\ \A t \in Tasks : RuntimeOf(t) # r => pc'[t] = pc[t]
    BY <1>26 DEF Restart
  <2>3. TypeOK'
    BY <1>26 DEF Restart, Excuses
  <2>4. Placed'
    BY <1>26, <2>1, <2>2 DEF Restart
  <2>5. SessionInv'
    BY <1>26, <2>2 DEF Restart
  <2>6. LockInv'
    <3>1. \A x \in Runtimes \ lapsed' : pc'[x] # "idle" => x # r /\ x \notin lapsed /\ pc[x] # "idle"
      BY <1>26, <2>2 DEF Restart
    <3> QED BY <1>26, <2>2, <3>1 DEF Restart
  <2> QED BY <2>3, <2>4, <2>5, <2>6
<1>27. ASSUME UNCHANGED vars PROVE ControlInv'
  BY <1>27 DEF vars, queueVars, flowVars, worldVars, ghostVars
<1> QED
  BY <1>1, <1>2, <1>3, <1>4, <1>5, <1>6, <1>7, <1>8, <1>9, <1>10, <1>11, <1>12, <1>13, <1>14, <1>15, <1>16, <1>17, <1>18, <1>19, <1>20, <1>21, <1>22, <1>23, <1>24, <1>25, <1>26, <1>27
  DEF Next, Draining, Sending, Turning, People, World

LEMMA ControlHolds == Spec => []ControlInv
<1>1. ControlInv /\ PQP!ExecutionInv /\ [Next]_vars => ControlInv'
  BY ControlStep
<1> QED BY ControlInit, StoreHolds, <1>1, PTL DEF Spec

(* The variables of the dashboard context keep their types.                *)
THEOREM TypeCorrect == Spec => []TypeOK
<1>1. ControlInv => TypeOK
  BY DEF ControlInv
<1> QED BY ControlHolds, <1>1, PTL

(* The draining flag of a runtime is up exactly while it drains, as long   *)
(* as no session lookup has failed.                                        *)
THEOREM DrainingMarkedHolds == Spec => []DrainingMarked
<1>1. ControlInv => DrainingMarked
  BY DEF ControlInv, Placed
<1> QED BY ControlHolds, <1>1, PTL

(* Two runtimes drain at the same time only if one of them let its lock    *)
(* run out: two drains that have not lapsed would both be the owner.       *)
THEOREM OneDrainHolds == Spec => []OneDrain
<1>1. ControlInv => OneDrain
  BY DEF ControlInv, LockInv, OneDrain
<1> QED BY ControlHolds, <1>1, PTL

-----------------------------------------------------------------------------
(* The pause.  Once a prompt has started, no drain that still owns the     *)
(* lock is on its way to another lease: it would be a second owner.        *)

PauseInv ==
    /\ overrun \in {0, 1}
    /\ paused /\ overrun = 1 => \A r \in Runtimes \ lapsed : pc[r] # "lookup"

(* No other step brings a drain to its lookup or gives a lapsed one its    *)
(* lock back.                                                              *)
LEMMA PauseKept ==
    ASSUME TypeOK, [Next]_vars, \A r \in Runtimes : ~(BeginDrain(r) \/ LeaseItem(r) \/ Pause(r))
    PROVE  /\ overrun' = overrun /\ (paused' => paused)
           /\ \A r \in Runtimes \ lapsed' : pc'[r] = "lookup" => r \notin lapsed /\ pc[r] = "lookup"
<1>t. pc \in [Tasks -> {"idle", "new", "lookup", "preparing", "turn", "ending", "failing", "over"}]
  BY DEF TypeOK
<1> DEFINE kept == /\ overrun' = overrun /\ (paused' => paused)
                   /\ \A r \in Runtimes \ lapsed' :
                        pc'[r] = "lookup" => r \notin lapsed /\ pc[r] = "lookup"
<1>m. ASSUME NEW t \in Tasks, NEW place, place # "lookup" \/ t \in Sends, Goto(t, place),
             UNCHANGED <<paused, lapsed, overrun>>
      PROVE  kept
  BY <1>t, <1>m, RuntimeOfTask DEF Goto
<1>q. ASSUME UNCHANGED <<pc, overrun>>, paused' => paused, lapsed \subseteq lapsed' PROVE kept
  BY <1>q
<1> HIDE DEF kept
<1>1. ASSUME NEW r \in Runtimes,
             LookupFails(r) \/ LeaveDrain(r) \/ DrainCompletes(r) \/ DrainFails(r)
      PROVE  kept
  BY <1>m, <1>1, RuntimeOfTask
  DEF LookupFails, LeaveDrain, DrainCompletes, DrainFails, ghostVars
<1>2. ASSUME NEW s \in Sends, Send(s) \/ SendQueues(s) \/ SendRuns(s) \/ SendFinishes(s)
      PROVE  kept
  BY <1>m, <1>2, RuntimeOfTask DEF Send, SendQueues, SendRuns, SendFinishes, ghostVars
<1>3. ASSUME NEW t \in Tasks, Turning(t) PROVE kept
  BY <1>m, <1>3 DEF Turning, BeginTurn, TurnRefused, EndTurn, ghostVars
<1>4. ASSUME NEW r \in Runtimes,
             \/ DrainRefused(r) \/ RenewLease(r) \/ RenewLock(r) \/ Abort(r) \/ RunFront(r)
             \/ Monitor(r) \/ \E id \in Ids : Edit(r, id) \/ RunRemove(r, id)
      PROVE  kept
  <2>1. UNCHANGED <<pc, overrun, paused, lapsed>>
    BY <1>4 DEF DrainRefused, RenewLease, RenewLock, Abort, RunFront, Monitor, Edit, RunRemove,
           flowVars, ghostVars
  <2> QED BY <1>q, <2>1
<1>5. ASSUME NEW r \in Runtimes, Resume(r) PROVE kept
  <2>1. UNCHANGED <<pc, overrun, lapsed>> /\ ~paused'
    BY <1>5 DEF Resume, flowVars, ghostVars
  <2> QED BY <1>q, <2>1
<1>6. ASSUME \/ ExternalStarts \/ ExternalEnds \/ (\E id \in Ids : LeaseExpires(id))
             \/ LockExpires \/ UNCHANGED vars
      PROVE  kept
  <2>1. UNCHANGED <<pc, overrun, paused>> /\ lapsed \subseteq lapsed'
    BY <1>6 DEF ExternalStarts, ExternalEnds, LeaseExpires, LockExpires, vars, flowVars, ghostVars
  <2> QED BY <1>q, <2>1
<1>7. ASSUME NEW r \in Runtimes, Restart(r) PROVE kept
  <2>1. /\ UNCHANGED <<overrun, paused>> /\ lapsed' = lapsed \ {r}
        /\ pc'[r] = "idle" /\ \A x \in Runtimes : x # r => pc'[x] = pc[x]
    BY <1>7, RuntimeOfTask DEF Restart
  <2> QED BY <2>1 DEF kept
<1> QED
  BY <1>1, <1>2, <1>3, <1>4, <1>5, <1>6, <1>7
  DEF Next, Draining, Sending, People, World, kept

LEMMA PauseStep ==
    ASSUME ControlInv, PauseInv, [Next]_vars
    PROVE  PauseInv'
<1>t. pc \in [Tasks -> {"idle", "new", "lookup", "preparing", "turn", "ending", "failing", "over"}]
  BY DEF ControlInv, TypeOK
<1>1. ASSUME NEW r \in Runtimes, BeginDrain(r) PROVE PauseInv'
  BY <1>1 DEF BeginDrain, PauseInv
<1>2. ASSUME NEW r \in Runtimes, LeaseItem(r) PROVE PauseInv'
  <2>1. /\ pc[r] = "lookup" /\ UNCHANGED <<paused, lapsed>>
        /\ overrun' = IF paused /\ r \notin lapsed THEN overrun + 1 ELSE overrun
        /\ pc'[r] = "preparing" /\ \A x \in Runtimes : x # r => pc'[x] = pc[x]
    BY <1>t, <1>2, RuntimeOfTask DEF LeaseItem, Goto
  <2>2. CASE paused /\ r \notin lapsed
    <3>1. overrun' = 1
      BY <2>1, <2>2 DEF PauseInv
    <3>2. \A x \in Runtimes \ lapsed : pc[x] # "idle" => x = r
      BY <2>1, <2>2 DEF ControlInv, LockInv
    <3> QED BY <2>1, <3>1, <3>2 DEF PauseInv
  <2>3. CASE ~(paused /\ r \notin lapsed)
    BY <2>1, <2>3 DEF PauseInv
  <2> QED BY <2>2, <2>3
<1>3. ASSUME NEW r \in Runtimes, Pause(r) PROVE PauseInv'
  BY <1>3 DEF Pause, PauseInv
<1>4. CASE \A r \in Runtimes : ~(BeginDrain(r) \/ LeaseItem(r) \/ Pause(r))
  <2>1. TypeOK
    BY DEF ControlInv
  <2> QED BY <1>4, <2>1, PauseKept DEF PauseInv
<1> QED BY <1>1, <1>2, <1>3, <1>4

(* A prompt whose drain had already read "not paused" may still start, but *)
(* only one across all processes, drains that lost their lock apart.       *)
THEOREM PauseOverrunsByOneHolds == Spec => []PauseOverrunsByOne
<1>1. Init => PauseInv
  BY DEF Init, PauseInv
<1>2. ControlInv /\ PauseInv /\ [Next]_vars => PauseInv'
  BY PauseStep
<1>3. PauseInv => PauseOverrunsByOne
  BY DEF PauseInv, PauseOverrunsByOne
<1> QED BY ControlHolds, <1>1, <1>2, <1>3, PTL DEF Spec

-----------------------------------------------------------------------------
(* Wake-ups.                                                               *)

(* Without a delayed prompt in the queue, every item that cannot run is    *)
(* leased to somebody.                                                     *)
AllDue == \A id \in Ids : item[id].due

LEMMA DueCalls ==
    ASSUME PQ!TypeOK, AllDue, NEW r \in Runtimes, NEW id \in Ids,
           \/ PQ!Enqueue(NoKey, TRUE) \/ PQ!LeaseExpires(id) \/ PQ!LeaseNext(r) \/ PQ!RenewLease(r)
           \/ PQ!CompleteLease(r) \/ PQ!FailLease(r) \/ PQ!Cancel(id) \/ PQ!ClearQueue
           \/ PQ!MoveToTop(id) \/ PQ!MoveUp(id) \/ PQ!MoveDown(id)
           \/ PQ!RunNowRemove(r, id) \/ PQ!RunNowFront(r) \/ PQ!Crash({r}, {r})
    PROVE  AllDue'
<1>t. item \in [Ids -> PQ!Item]
  BY DEF PQ!TypeOK
<1>f. ASSUME NEW it \in PQ!Item, it.due
      PROVE  /\ PQ!Unleased(it).due /\ PQ!ClearExpired(it).due
             /\ \A b \in BOOLEAN : [it EXCEPT !.live = b].due
             /\ [it EXCEPT !.status = "queued", !.live = FALSE].due
             /\ \A t : [it EXCEPT !.status = "running", !.token = t, !.live = TRUE].due
  BY <1>f DEF PQ!Item, PQ!Unleased, PQ!ClearExpired
<1>g. \A x \in Ids : item[x] \in PQ!Item /\ item[x].due
  BY <1>t DEF AllDue
<1>1. CASE PQ!Enqueue(NoKey, TRUE)
  <2>1. PICK new \in Ids :
          item' = [item EXCEPT ![new] = [status |-> "queued", key |-> NoKey, token |-> NoToken,
                                         live |-> FALSE, due |-> TRUE]]
    BY <1>1 DEF PQ!Enqueue
  <2> QED BY <1>t, <1>g, <2>1 DEF AllDue
<1>2. CASE PQ!LeaseExpires(id) \/ PQ!RenewLease(r)
  <2>1. \/ item' = [item EXCEPT ![id].live = FALSE]
        \/ item' = [item EXCEPT ![hand[r].id].live = TRUE]
    BY <1>2 DEF PQ!LeaseExpires, PQ!RenewLease
  <2>2. \A y \in Ids : item'[y] = item[y] \/ \E b \in BOOLEAN : item'[y] = [item[y] EXCEPT !.live = b]
    BY <1>t, <2>1
  <2>3. \A y \in Ids : \A b \in BOOLEAN : [item[y] EXCEPT !.live = b].due
    BY <1>f, <1>g
  <2>4. \A y \in Ids : item'[y].due
    <3> TAKE y \in Ids
    <3>1. CASE item'[y] = item[y]
      BY <1>g, <3>1
    <3>2. ASSUME NEW b \in BOOLEAN, item'[y] = [item[y] EXCEPT !.live = b]
          PROVE  item'[y].due
      BY <2>3, <3>2
    <3> QED BY <2>2, <3>1, <3>2
  <2> QED BY <2>4 DEF AllDue
<1>3. CASE PQ!LeaseNext(r)
  <2>1. PICK i \in DOMAIN queue, t \in Tokens :
          item' = [y \in Ids |->
                     IF y = queue[i]
                     THEN [item[y] EXCEPT !.status = "running", !.token = t, !.live = TRUE]
                     ELSE PQ!ClearExpired(item[y])]
    BY <1>3 DEF PQ!LeaseNext
  <2>2. \A y \in Ids : /\ [item[y] EXCEPT !.status = "running", !.token = t, !.live = TRUE].due
                       /\ PQ!ClearExpired(item[y]).due
    BY <1>f, <1>g
  <2> QED BY <2>1, <2>2 DEF AllDue
<1>4. CASE \/ PQ!CompleteLease(r) \/ PQ!Cancel(id) \/ PQ!RunNowRemove(r, id) \/ PQ!RunNowFront(r)
  <2>1. item' = item \/ \E x : item' = [item EXCEPT ![x] = PQ!Unleased(item[x])]
    BY <1>4 DEF PQ!CompleteLease, PQ!Cancel, PQ!RunNowRemove, PQ!RunNowFront
  <2> QED BY <1>t, <1>f, <1>g, <2>1 DEF AllDue
<1>5. CASE PQ!FailLease(r)
  <2> DEFINE x == hand[r].id
  <2>1. CASE item' = item
    BY <2>1 DEF AllDue
  <2>2. CASE item' = [item EXCEPT ![x].status = "queued", ![x].live = FALSE]
    <3>1. \A y \in Ids : item'[y] \in {item[y], [item[y] EXCEPT !.status = "queued", !.live = FALSE]}
      BY <1>t, <2>2
    <3>2. \A y \in Ids : [item[y] EXCEPT !.status = "queued", !.live = FALSE].due
      BY <1>f, <1>g
    <3> QED BY <1>g, <3>1, <3>2 DEF AllDue
  <2> QED BY <1>5, <2>1, <2>2 DEF PQ!FailLease
<1>6. CASE PQ!ClearQueue
  BY <1>f, <1>g, <1>6 DEF PQ!ClearQueue, AllDue
<1>7. CASE PQ!MoveToTop(id) \/ PQ!MoveUp(id) \/ PQ!MoveDown(id) \/ PQ!Crash({r}, {r})
  <2>1. item' = item
    BY <1>7 DEF PQ!MoveToTop, PQ!MoveUp, PQ!MoveDown, PQ!Reorder, PQ!Crash, PQ!store
  <2> QED BY <2>1 DEF AllDue
<1> QED BY <1>1, <1>2, <1>3, <1>4, <1>5, <1>6, <1>7

LEMMA DueStep ==
    ASSUME PQ!TypeOK, AllDue, [Next]_vars
    PROVE  AllDue'
<1>1. ASSUME UNCHANGED queueVars PROVE AllDue'
  BY <1>1 DEF queueVars, storeVars, AllDue
<1>2. ASSUME NEW r \in Runtimes, \/ LeaseItem(r) \/ RenewLease(r) \/ DrainCompletes(r)
                                 \/ DrainFails(r) \/ RunFront(r) \/ Restart(r)
      PROVE  AllDue'
  <2>1. CASE Ids = {}
    BY <2>1 DEF AllDue
  <2>2. CASE Ids # {}
    BY <1>2, <2>2, DueCalls
    DEF LeaseItem, RenewLease, DrainCompletes, DrainFails, RunFront, Restart
  <2> QED BY <2>1, <2>2
<1>3. ASSUME NEW s \in Sends, SendQueues(s) PROVE AllDue'
  <2>1. PQ!Enqueue(NoKey, TRUE)
    BY <1>3 DEF SendQueues
  <2>2. PICK r \in Runtimes : TRUE
    BY RuntimeAssumption
  <2>3. PICK id \in Ids : TRUE
    BY <2>1 DEF PQ!Enqueue
  <2> QED BY <2>1, <2>2, <2>3, DueCalls
<1>4. ASSUME NEW r \in Runtimes, NEW id \in Ids, Edit(r, id) \/ RunRemove(r, id) \/ LeaseExpires(id)
      PROVE  AllDue'
  BY <1>4, DueCalls DEF Edit, RunRemove, LeaseExpires
<1>5. PICK r \in Runtimes : TRUE
  BY RuntimeAssumption
<1>6. CASE Aside \/ UNCHANGED vars
  BY <1>1, <1>6, AsideKeepsStore DEF vars
<1> QED BY <1>2, <1>3, <1>4, <1>5, <1>6 DEF Next, Draining, People, Sending, World, Aside

(* Commands and the end of a lease make no item wait.                      *)
LEMMA WaitingShrinks ==
    ASSUME PQP!Shape, NEW id \in Ids,
           \/ PQ!Cancel(id) \/ PQ!ClearQueue \/ PQ!MoveToTop(id) \/ PQ!MoveUp(id) \/ PQ!MoveDown(id)
           \/ PQ!LeaseExpires(id)
    PROVE  Waiting' \subseteq Waiting
<1>q. Range(queue) = PQP!Queued /\ Range(queue)' = PQP!Queued'
  BY DEF Range, PQP!Queued, PQP!Range
<1>t. item \in [Ids -> PQP!Item] /\ PQP!Queued \subseteq Ids
  BY DEF PQP!Shape, PQP!TypeOK, PQP!Known
<1>w. ASSUME PQP!Queued' \subseteq PQP!Queued,
             \A x \in PQP!Queued' : item'[x].status = item[x].status
      PROVE  Waiting' \subseteq Waiting
  BY <1>q, <1>w DEF Waiting
<1>1. CASE PQ!Cancel(id)
  <2>1. PQP!Cancel(id)
    BY <1>1, SameHelpers DEF PQ!Cancel, PQP!Cancel
  <2>2. PQP!Queued' = PQP!Queued \ {id}
    BY <2>1, SameAssumption, PQP!QueuedNext
  <2>3. item' = [item EXCEPT ![id] = PQ!Unleased(item[id])]
    BY <1>1 DEF PQ!Cancel
  <2> QED BY <1>t, <1>w, <2>2, <2>3
<1>2. CASE PQ!ClearQueue
  <2>1. PQP!ClearQueue
    BY <1>2, SameHelpers DEF PQ!ClearQueue, PQP!ClearQueue
  <2>2. PQP!Queued' = {}
    BY <2>1, SameAssumption, PQP!QueuedNext
  <2> QED BY <1>w, <2>2
<1>3. CASE PQ!MoveToTop(id) \/ PQ!MoveUp(id) \/ PQ!MoveDown(id)
  <2>1. PQP!MoveToTop(id) \/ PQP!MoveUp(id) \/ PQP!MoveDown(id)
    BY <1>3, SameHelpers
    DEF PQ!MoveToTop, PQ!MoveUp, PQ!MoveDown, PQ!Reorder, PQ!Exchange, PQ!history,
        PQP!MoveToTop, PQP!MoveUp, PQP!MoveDown, PQP!Reorder, PQP!Exchange, PQP!history
  <2>2. PQP!Queued' = PQP!Queued
    BY <2>1, SameAssumption, PQP!QueuedNext
  <2>3. item' = item
    BY <1>3 DEF PQ!MoveToTop, PQ!MoveUp, PQ!MoveDown, PQ!Reorder
  <2> QED BY <1>w, <2>2, <2>3
<1>4. CASE PQ!LeaseExpires(id)
  <2>1. queue' = queue /\ item' = [item EXCEPT ![id] = [item[id] EXCEPT !.live = FALSE]]
    BY <1>4 DEF PQ!LeaseExpires
  <2>2. PQP!Queued' = PQP!Queued
    BY <2>1 DEF PQP!Queued
  <2>3. [item[id] EXCEPT !.live = FALSE].status = item[id].status
    BY <1>t DEF PQP!Item
  <2> QED BY <1>t, <1>w, <2>1, <2>2, <2>3
<1> QED BY <1>1, <1>2, <1>3, <1>4

(* Something that ends with a call of drainQueue is under way: a CLI turn, *)
(* a call, a "run", a drain, or a sent prompt that got as far as its turn. *)
Stirring ==
    \/ external
    \/ \E r \in Runtimes : wake[r] \/ limbo[r] # Nothing \/ pc[r] # "idle"
    \/ \E s \in Sends : pc[s] \in {"preparing", "turn", "ending", "failing"}

WakeInv == AllDue /\ (excuse = {} /\ Waiting # {} => Stirring)

(* No excuse is ever taken back.                                           *)
LEMMA ExcusesGrow == [Next]_vars => excuse \subseteq excuse'
<1> SUFFICES ASSUME [Next]_vars PROVE excuse \subseteq excuse'
  OBVIOUS
<1>1. ASSUME NEW r \in Runtimes, Draining(r) \/ RenewLease(r) \/ RenewLock(r)
      PROVE  excuse \subseteq excuse'
  BY <1>1 DEF Draining, DrainRefused, BeginDrain, LeaveDrain, LeaseItem, DrainCompletes, DrainFails,
         RenewLease, RenewLock, ghostVars
<1>2. ASSUME NEW r \in Runtimes, People(r) PROVE excuse \subseteq excuse'
  BY <1>2 DEF People, Pause, Resume, Abort, RunFront, Edit, RunRemove, ghostVars
<1>3. ASSUME NEW s \in Sends, Send(s) \/ Sending(s) PROVE excuse \subseteq excuse'
  BY <1>3 DEF Sending, Send, SendQueues, SendRuns, SendFinishes, ghostVars
<1>4. ASSUME NEW t \in Tasks, Turning(t) PROVE excuse \subseteq excuse'
  BY <1>4 DEF Turning, BeginTurn, TurnRefused, EndTurn, ghostVars
<1>5. ASSUME World PROVE excuse \subseteq excuse'
  BY <1>5 DEF World, LockExpires, ExternalStarts, ExternalEnds, LeaseExpires, Monitor, Restart,
         LookupFails, ghostVars
<1>6. CASE UNCHANGED vars
  BY <1>6 DEF vars, ghostVars
<1> QED BY <1>1, <1>2, <1>3, <1>4, <1>5, <1>6 DEF Next

LEMMA WakeStep ==
    ASSUME ControlInv, PQP!ExecutionInv, WakeInv, [Next]_vars
    PROVE  WakeInv'
<1>0. AllDue'
  BY DueStep DEF WakeInv, ControlInv, TypeOK
<1> SUFFICES ASSUME excuse' = {}, Waiting' # {} PROVE Stirring'
  BY <1>0 DEF WakeInv
<1>1. excuse = {} /\ DrainingMarked /\ LockInv /\ SessionInv
  BY ExcusesGrow DEF ControlInv, Placed
<1>t. /\ pc \in [Tasks -> {"idle", "new", "lookup", "preparing", "turn", "ending", "failing", "over"}]
      /\ wake \in [Runtimes -> BOOLEAN] /\ limbo \in [Runtimes -> Ids \cup {Nothing}]
      /\ lock.owner \in Runtimes \cup {Gone, Nothing}
      /\ Nothing \notin Ids /\ PQP!Shape
  BY SameTypes, StoreAssumption
  DEF ControlInv, TypeOK, PQ!TypeOK, PQP!ExecutionInv, PQP!LeaseInv, PQ!QueueAssumption
<1>w. ASSUME UNCHANGED <<queue, item>> PROVE Waiting' = Waiting
  BY <1>w DEF Waiting
<1>s. Waiting # {} => Stirring
  BY <1>1 DEF WakeInv
(* What is under way goes on.                                              *)
<1>g. ASSUME Waiting' \subseteq Waiting, UNCHANGED <<external, wake, limbo, pc>> PROVE Stirring'
  BY <1>s, <1>g DEF Stirring
<1>2. ASSUME NEW r \in Runtimes, DrainRefused(r) PROVE Stirring'
  <2>1. UNCHANGED pc /\ ~paused /\ lock.owner # Gone
    BY <1>2 DEF DrainRefused
  <2>2. draining[r] \/ lock.owner \notin {Nothing, r}
    BY <1>2, <2>1 DEF DrainRefused
  <2>3. CASE draining[r]
    BY <1>1, <2>1, <2>3 DEF DrainingMarked, Stirring
  <2>4. CASE lock.owner \notin {Nothing, r}
    BY <1>1, <1>t, <2>1, <2>4 DEF LockInv, Stirring
  <2> QED BY <2>2, <2>3, <2>4
<1>3. ASSUME NEW r \in Runtimes, BeginDrain(r) \/ LeaseItem(r) PROVE Stirring'
  <2>1. pc'[r] \in {"lookup", "preparing"}
    BY <1>3, <1>t, RuntimeOfTask DEF BeginDrain, LeaseItem, Goto
  <2> QED BY <2>1 DEF Stirring
<1>4. ASSUME NEW r \in Runtimes, LeaveDrain(r) PROVE Stirring'
  <2>1. /\ pc[r] = "lookup" /\ Goto(r, "idle") /\ UNCHANGED external
        /\ BusyFor(r) \/ ~Runnable
        /\ Waiting' = Waiting
    BY <1>4, <1>w DEF LeaveDrain, queueVars, storeVars, worldVars
  <2>2. CASE external
    BY <2>1, <2>2 DEF Stirring
  <2>3. CASE session[r] # Nothing
    <3> DEFINE t == session[r]
    <3>1. t \in Tasks /\ pc[t] = "turn" /\ t # r
      BY <1>1, <2>1, <2>3 DEF SessionInv
    <3>2. pc'[t] = "turn"
      BY <1>t, <2>1, <3>1 DEF Goto
    <3> QED BY <3>1, <3>2 DEF Stirring, Tasks
  <2>4. CASE ~Runnable
    <3>1. PICK id \in Waiting : TRUE
      BY <2>1
    <3>2. PICK i \in DOMAIN queue : id = queue[i]
      BY DEF Waiting, Range
    <3>3. id \in Ids
      BY <3>2, <1>t DEF PQP!Shape, PQP!TypeOK
    <3>4. item[id].due /\ item[id].status = "queued"
      BY <3>3 DEF WakeInv, AllDue, Waiting
    <3>5. PQ!Runnable(item[id])
      BY <3>4 DEF PQ!Runnable
    <3> QED BY <2>4, <3>2, <3>5 DEF Runnable
  <2> QED BY <2>1, <2>2, <2>3, <2>4 DEF BusyFor
<1>5. ASSUME NEW r \in Runtimes, RenewLease(r) \/ RenewLock(r) PROVE Stirring'
  <2>1. pc[r] # "idle" /\ UNCHANGED pc
    BY <1>5 DEF RenewLease, RenewLock, flowVars
  <2> QED BY <2>1 DEF Stirring
<1>6. ASSUME NEW r \in Runtimes, DrainCompletes(r) PROVE Stirring'
  <2>1. Wake(r)
    BY <1>6 DEF DrainCompletes
  <2> QED BY <1>t, <2>1 DEF Wake, Stirring
<1>7. ASSUME NEW r \in Runtimes, DrainFails(r) \/ LookupFails(r) \/ Restart(r) PROVE Stirring'
  BY <1>7 DEF DrainFails, LookupFails, Restart
<1>8. ASSUME NEW s \in Sends, Send(s) \/ SendRuns(s) PROVE Stirring'
  <2>1. /\ pc[s] \in {"new", "lookup"} /\ \E place : Goto(s, place)
        /\ UNCHANGED <<external, wake, limbo, queue, item>>
    BY <1>8 DEF Send, SendRuns, queueVars, storeVars, worldVars
  <2>2. Stirring
    BY <1>s, <1>w, <2>1
  <2>3. \A x \in Tasks : x # s => pc'[x] = pc[x]
    BY <1>t, <2>1 DEF Goto
  <2> QED BY <2>1, <2>2, <2>3, RuntimeOfTask DEF Stirring
<1>9. ASSUME NEW s \in Sends, SendQueues(s) PROVE Stirring'
  <2>1. /\ pc[s] = "lookup" /\ Goto(s, "over") /\ UNCHANGED external
        /\ BusyFor(At[s])
    BY <1>9 DEF SendQueues, worldVars
  <2>2. CASE external
    BY <2>1, <2>2 DEF Stirring
  <2>3. CASE session[At[s]] # Nothing
    <3> DEFINE t == session[At[s]]
    <3>1. t \in Tasks /\ pc[t] = "turn" /\ t # s
      BY <1>1, <2>1, <2>3, RuntimeOfTask DEF SessionInv
    <3>2. pc'[t] = "turn"
      BY <1>t, <2>1, <3>1 DEF Goto
    <3> QED BY <3>1, <3>2 DEF Stirring, Tasks
  <2> QED BY <2>1, <2>2, <2>3 DEF BusyFor
<1>10. ASSUME NEW s \in Sends, SendFinishes(s) PROVE Stirring'
  <2>1. Wake(At[s]) /\ At[s] \in Runtimes
    BY <1>10, RuntimeOfTask DEF SendFinishes
  <2> QED BY <1>t, <2>1 DEF Wake, Stirring
<1>11. ASSUME NEW t \in Tasks, Turning(t) PROVE Stirring'
  <2>1. Goto(t, "turn") \/ Goto(t, "ending") \/ Goto(t, "failing")
    BY <1>11 DEF Turning, BeginTurn, TurnRefused, EndTurn
  <2>2. pc'[t] \in {"turn", "ending", "failing"}
    BY <1>t, <2>1 DEF Goto
  <2> QED BY <2>2 DEF Stirring, Tasks
<1>12. ASSUME NEW r \in Runtimes, Pause(r) \/ Resume(r) \/ Monitor(r) PROVE Stirring'
  BY <1>g, <1>w, <1>12 DEF Pause, Resume, Monitor, queueVars, storeVars, flowVars, worldVars
<1>13. ASSUME NEW r \in Runtimes, RunFront(r) \/ Abort(r) PROVE Stirring'
  <2>1. Wake(r)
    BY <1>13 DEF RunFront, Abort
  <2> QED BY <1>t, <2>1 DEF Wake, Stirring
<1>14. ASSUME NEW r \in Runtimes, NEW id \in Ids, RunRemove(r, id) PROVE Stirring'
  <2>1. limbo' = [limbo EXCEPT ![r] = id]
    BY <1>14 DEF RunRemove, PQ!RunNowRemove
  <2> QED BY <1>t, <2>1 DEF Stirring
<1>15. ASSUME NEW r \in Runtimes, NEW id \in Ids, Edit(r, id) \/ LeaseExpires(id) PROVE Stirring'
  <2>1. Waiting' \subseteq Waiting
    BY <1>15, <1>t, WaitingShrinks DEF Edit, LeaseExpires
  <2>2. UNCHANGED <<external, wake, limbo, pc>>
    BY <1>15
    DEF Edit, LeaseExpires, flowVars, worldVars, PQ!Cancel, PQ!ClearQueue, PQ!MoveToTop, PQ!MoveUp,
        PQ!MoveDown, PQ!Reorder, PQ!LeaseExpires
  <2> QED BY <1>g, <2>1, <2>2
<1>16. ASSUME ExternalStarts PROVE Stirring'
  BY <1>16 DEF ExternalStarts, Stirring
<1>17. ASSUME ExternalEnds PROVE Stirring'
  <2>1. \A r \in Runtimes : seen[r]
    BY <1>17 DEF ExternalEnds
  <2>2. PICK r \in Runtimes : TRUE
    BY RuntimeAssumption
  <2>3. wake'[r]
    BY <1>17, <2>1 DEF ExternalEnds
  <2> QED BY <2>3 DEF Stirring
<1>18. ASSUME LockExpires \/ UNCHANGED vars PROVE Stirring'
  BY <1>g, <1>w, <1>18 DEF LockExpires, vars, queueVars, storeVars, flowVars, worldVars
<1>19. PICK r \in Runtimes : TRUE
  BY RuntimeAssumption
<1> QED
  BY <1>2, <1>3, <1>4, <1>5, <1>6, <1>7, <1>8, <1>9, <1>10, <1>11, <1>12, <1>13, <1>14, <1>15,
     <1>16, <1>17, <1>18, <1>19
  DEF Next, Draining, Sending, People, World

(* No wake-up is lost: when everything has come to rest and no known cause *)
(* has struck, no prompt waits.                                            *)
THEOREM NoLostWakeupHolds == Spec => []NoLostWakeup
<1>1. Init => WakeInv
  BY DEF Init, PQ!Init, WakeInv, AllDue, Waiting, Range
<1>2. ControlInv /\ PQP!ExecutionInv /\ WakeInv /\ [Next]_vars => WakeInv'
  BY WakeStep
<1>3. WakeInv => NoLostWakeup
  BY RuntimeOfTask DEF WakeInv, NoLostWakeup, AtRest, Stirring
<1> QED BY ControlHolds, StoreHolds, <1>1, <1>2, <1>3, PTL DEF Spec
=============================================================================

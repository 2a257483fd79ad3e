------------------------- MODULE QueuePlannerProofs -------------------------
(***************************************************************************)
(* Proof about QueuePlanner that a prompt in the queue is the one its plan *)
(* knows of, for any number of plans, prompts, runtimes and users.         *)
(*                                                                         *)
(* ItemTracked alone is not inductive: the end of an enqueue overwrites    *)
(* the item a plan knows of.  Asking says why that loses nothing: as long  *)
(* as the request is the only one for its plan, what the plan knew of when *)
(* the request began has left the queue for good.                          *)
(***************************************************************************)
EXTENDS QueuePlanner, TLAPS

PlanRec == [status : Statuses \cup {"new", "deleted"},
            item : Ids \cup {None}, corr : Ids \cup {None}]
ItemRec == [state : {"new", "waiting", "leased", "gone"},
            plan : Plans \cup {None}, corr : Ids \cup {None}]
TurnRec == [item : Ids \cup {None},
            at : {"idle", "leased", "running", "completed", "failed"}]
AskRec == [plan : Plans \cup {None}, corr : Ids \cup {None}, at : Runtimes \cup {None}]

\* The types the argument needs.
Typed ==
    /\ plan \in [Plans -> PlanRec]
    /\ item \in [Ids -> ItemRec]
    /\ asked \in [Users -> AskRec]
    /\ turn \in [Runtimes -> TurnRec]
    /\ \A q \in Runtimes : turn[q].at # "idle" => turn[q].item \in Ids

\* The item a plan knows of is one that was queued for it.
Linked ==
    /\ \A p \in Plans : plan[p].item # None =>
          item[plan[p].item].state # "new" /\ item[plan[p].item].plan = p
    /\ \A i \in Ids : item[i].state # "new" => item[i].plan \in Plans

\* The only request for its plan, which has no prompt in the queue.
Sole(u, p) ==
    /\ Exists(p) /\ ~Stored(plan[p].item)
    /\ \A v \in Users \ {u} : asked[v].plan # p

Asking ==
    \A u \in Users : asked[u] # NoRequest =>
        /\ asked[u].plan \in Plans
        /\ asked[u].plan \notin loose => Sole(u, asked[u].plan)

PlannerInv == Typed /\ Linked /\ Asking /\ ItemTracked

-----------------------------------------------------------------------------
(* What a step does to the plans, the items and the requests.  Most steps  *)
(* are gentle: no plan disappears, no plan changes its item, no item comes *)
(* into the queue, and no request begins.                                  *)

SamePlans ==
    \A p \in Plans : plan'[p].item = plan[p].item /\ (Exists(p) => Exists(p)')

SameItems ==
    \A i \in Ids : /\ item'[i].plan = item[i].plan
                   /\ item'[i].state = "new" <=> item[i].state = "new"
                   /\ Stored(i)' => Stored(i)

FewerRequests == \A u \in Users : asked'[u] \in {asked[u], NoRequest}

Gentle == UNCHANGED loose /\ SamePlans /\ SameItems /\ FewerRequests

LEMMA EffectiveIsStatus ==
    ASSUME NEW q, NEW r, NEW its, NEW tr, r.status \in Statuses
    PROVE  Effective(q, r, its, tr) \in Statuses
BY DEF Effective, Statuses, UserStatuses, Owned

LEMMA ShowKeeps ==
    ASSUME NEW q, NEW pl \in [Plans -> PlanRec], NEW its, NEW tr, Show(q, pl, its, tr)
    PROVE  /\ plan' \in [Plans -> PlanRec]
           /\ \A p \in Plans : /\ plan'[p].item = pl[p].item
                               /\ pl[p].status \in Statuses => plan'[p].status \in Statuses
                               /\ pl[p].status \notin Statuses => plan'[p] = pl[p]
<1>1. plan' = [p \in Plans |->
                  IF pl[p].status \in Statuses
                  THEN [pl[p] EXCEPT !.status = Effective(q, pl[p], its, tr)]
                  ELSE pl[p]]
  BY DEF Show
<1>2. ASSUME NEW p \in Plans, pl[p].status \in Statuses
      PROVE  /\ plan'[p] \in PlanRec /\ plan'[p].item = pl[p].item
             /\ plan'[p].status \in Statuses
  <2>1. Effective(q, pl[p], its, tr) \in Statuses
    BY <1>2, EffectiveIsStatus
  <2>2. plan'[p] = [pl[p] EXCEPT !.status = Effective(q, pl[p], its, tr)]
    BY <1>1, <1>2
  <2> QED BY <2>1, <2>2 DEF PlanRec
<1>3. ASSUME NEW p \in Plans, pl[p].status \notin Statuses
      PROVE  plan'[p] = pl[p]
  BY <1>1, <1>3
<1> QED BY <1>1, <1>2, <1>3

LEMMA GentleKeeps ==
    ASSUME Typed, Linked, Asking, ItemTracked, Gentle
    PROVE  Linked' /\ Asking' /\ ItemTracked'
<1>1. Linked'
  BY DEF Typed, PlanRec, Linked, Gentle, SamePlans, SameItems
<1>2. Asking'
  <2>1. ASSUME NEW u \in Users, NEW p \in Plans, Sole(u, p) PROVE Sole(u, p)'
    <3>1. Exists(p)' /\ plan'[p].item = plan[p].item
      BY <2>1 DEF Gentle, SamePlans, Sole
    <3>2. ~Stored(plan[p].item)'
      BY <2>1, <3>1 DEF Gentle, SameItems, Sole, Stored, Typed, PlanRec
    <3>3. \A v \in Users \ {u} : asked'[v].plan # p
      BY <2>1, PlannerAssumption DEF Gentle, FewerRequests, NoRequest, Sole
    <3> QED BY <3>1, <3>2, <3>3 DEF Sole
  <2>2. ASSUME NEW u \in Users, asked'[u] # NoRequest
        PROVE  /\ asked'[u] = asked[u] /\ asked[u].plan \in Plans
               /\ asked[u].plan \notin loose => Sole(u, asked[u].plan)
    BY <2>2 DEF Gentle, FewerRequests, Asking
  <2> QED BY <2>1, <2>2 DEF Asking, Gentle
<1>3. ItemTracked'
  <2> SUFFICES ASSUME NEW i \in Ids, Stored(i)', item'[i].plan \notin loose'
               PROVE  Exists(item[i].plan)' /\ plan'[item[i].plan].item = i
                      /\ item'[i].plan = item[i].plan
    BY DEF ItemTracked
  <2>1. Stored(i) /\ item'[i].plan = item[i].plan /\ loose' = loose
    BY DEF Gentle, SameItems
  <2>2. Exists(item[i].plan) /\ plan[item[i].plan].item = i
    BY <2>1 DEF ItemTracked
  <2>3. item[i].plan \in Plans
    BY <2>1 DEF Linked, Stored
  <2> QED BY <2>1, <2>2, <2>3 DEF Gentle, SamePlans
<1> QED BY <1>1, <1>2, <1>3

-----------------------------------------------------------------------------
(* The gentle steps                                                        *)

\* A handler that leaves the items of the plans alone and ends in a snapshot.
LEMMA ShowIsGentle ==
    ASSUME NEW q, NEW pl \in [Plans -> PlanRec], NEW its, NEW tr, Show(q, pl, its, tr),
           \A p \in Plans : pl[p].item = plan[p].item /\ (Exists(p) => pl[p].status \in Statuses)
    PROVE  plan' \in [Plans -> PlanRec] /\ SamePlans
BY ShowKeeps DEF SamePlans, Exists

LEMMA QuietIsGentle ==
    ASSUME Typed, UNCHANGED <<item, asked, loose, turn>>, plan' \in [Plans -> PlanRec], SamePlans
    PROVE  Gentle /\ Typed'
BY DEF Gentle, SameItems, FewerRequests, Stored, Typed

LEMMA PatchIsGentle ==
    ASSUME Typed, NEW q \in Runtimes, NEW p \in Plans, NEW s \in Statuses, Patch(q, p, s)
    PROVE  Gentle /\ Typed'
<1> DEFINE pl == [plan EXCEPT ![p].status = s]
<1>1. Show(q, pl, item, trace') /\ UNCHANGED <<item, asked, loose, turn>>
  BY DEF Patch
<1>2. pl \in [Plans -> PlanRec] /\ \A x \in Plans : pl[x].item = plan[x].item
                                       /\ (Exists(x) => pl[x].status \in Statuses)
  BY DEF Typed, PlanRec, Exists
<1> HIDE DEF pl
<1> QED BY <1>1, <1>2, ShowIsGentle, QuietIsGentle

LEMMA ChangeIsGentle ==
    ASSUME Typed, NEW q \in Runtimes, NEW p \in Plans, Change(q, p), ~Delete(q, p)
    PROVE  Gentle /\ Typed'
<1>1. CASE Create(q, p)
  <2> DEFINE pl == [plan EXCEPT ![p].status = "draft"]
  <2>1. Show(q, pl, item, trace) /\ UNCHANGED <<item, asked, loose, turn>>
    BY <1>1 DEF Create
  <2>2. pl \in [Plans -> PlanRec] /\ \A x \in Plans : pl[x].item = plan[x].item
                                         /\ (Exists(x) => pl[x].status \in Statuses)
    BY DEF Typed, PlanRec, Exists, Statuses, UserStatuses
  <2> HIDE DEF pl
  <2> QED BY <2>1, <2>2, ShowIsGentle, QuietIsGentle
<1>2. CASE Update(q, p)
  BY <1>2, PatchIsGentle DEF Update, Exists
<1>3. CASE Approve(q, p)
  BY <1>3, PatchIsGentle DEF Approve, Statuses, UserStatuses
<1>4. ASSUME NEW s \in UserStatuses, Move(q, p, s) PROVE Gentle /\ Typed'
  BY <1>4, PatchIsGentle DEF Move, Statuses
<1> QED BY <1>1, <1>2, <1>3, <1>4 DEF Change

\* A step of the queue that takes no item into it.
LEMMA QueueIsGentle ==
    ASSUME UNCHANGED <<plan, asked, loose>>, SameItems
    PROVE  Gentle
BY DEF Gentle, SamePlans, FewerRequests, Exists

LEMMA DropIsGentle ==
    ASSUME Typed, NEW I \in SUBSET Ids, Drop(I), \A i \in I : Stored(i)
    PROVE  item' \in [Ids -> ItemRec] /\ SameItems
<1>1. \A i \in Ids : item'[i] = IF i \in I THEN [item[i] EXCEPT !.state = "gone"] ELSE item[i]
  BY DEF Drop
<1>2. ASSUME NEW i \in Ids
      PROVE  /\ item'[i] \in ItemRec /\ item'[i].plan = item[i].plan
             /\ i \in I => item'[i].state = "gone"
             /\ i \notin I => item'[i] = item[i]
  BY <1>1 DEF Typed, ItemRec
<1>3. item' \in [Ids -> ItemRec]
  BY <1>1, <1>2 DEF Drop
<1> QED BY <1>2, <1>3 DEF SameItems, Stored

\* One stored item changes its state.
LEMMA StateIsGentle ==
    ASSUME Typed, NEW i \in Ids, NEW s \in {"waiting", "leased", "gone"}, Stored(i),
           item' = [item EXCEPT ![i].state = s]
    PROVE  item' \in [Ids -> ItemRec] /\ SameItems
BY DEF Typed, ItemRec, SameItems, Stored

LEMMA UserIsGentle ==
    ASSUME Typed, Clear \/ \E i \in Ids : Cancel(i) \/ Reorder(i) \/ RunNow(i) \/ Lapse(i)
    PROVE  Gentle /\ Typed'
<1>1. CASE Clear
  <2>1. UNCHANGED <<plan, asked, loose, turn>> /\ Drop({i \in Ids : Stored(i)})
    BY <1>1 DEF Clear
  <2>2. item' \in [Ids -> ItemRec] /\ SameItems
    BY <2>1, DropIsGentle
  <2> QED BY <2>1, <2>2, QueueIsGentle DEF Typed
<1>2. ASSUME NEW i \in Ids, Cancel(i) PROVE Gentle /\ Typed'
  <2>1. UNCHANGED <<plan, asked, loose, turn>> /\ Drop({i}) /\ Stored(i)
    BY <1>2 DEF Cancel
  <2>2. item' \in [Ids -> ItemRec] /\ SameItems
    BY <2>1, DropIsGentle
  <2> QED BY <2>1, <2>2, QueueIsGentle DEF Typed
<1>3. ASSUME NEW i \in Ids, Reorder(i) PROVE Gentle /\ Typed'
  <2>1. UNCHANGED <<plan, asked, loose, turn, item>>
    BY <1>3 DEF Reorder
  <2> QED BY <2>1, QueueIsGentle DEF Typed, SameItems, Stored
<1>4. ASSUME NEW i \in Ids, RunNow(i) \/ Lapse(i) PROVE Gentle /\ Typed'
  <2>1. /\ UNCHANGED <<plan, asked, loose, turn>> /\ Stored(i)
        /\ item' = [item EXCEPT ![i].state = "waiting"]
    BY <1>4, PlannerAssumption DEF RunNow, Lapse, Stored
  <2>2. item' \in [Ids -> ItemRec] /\ SameItems
    BY <2>1, StateIsGentle
  <2> QED BY <2>1, <2>2, QueueIsGentle DEF Typed
<1> QED BY <1>1, <1>2, <1>3, <1>4

LEMMA SetTurnTypes ==
    ASSUME Typed, NEW q \in Runtimes, NEW i \in Ids,
           NEW at \in {"leased", "running", "completed", "failed"}, SetTurn(q, i, at)
    PROVE  /\ turn' \in [Runtimes -> TurnRec]
           /\ \A r \in Runtimes : turn'[r].at # "idle" => turn'[r].item \in Ids
<1>1. turn' = [turn EXCEPT ![q] = [item |-> i, at |-> at]]
  BY DEF SetTurn
<1>2. [item |-> i, at |-> at] \in TurnRec
  BY DEF TurnRec
<1> QED BY <1>1, <1>2 DEF Typed

LEMMA TurnIsGentle ==
    ASSUME Typed, NEW q \in Runtimes, Turn(q) \/ Crash(q) \/ \E i \in Ids : Lease(q, i)
    PROVE  Gentle /\ Typed'
<1>1. ASSUME NEW i \in Ids, Lease(q, i) PROVE Gentle /\ Typed'
  <2>1. /\ UNCHANGED <<plan, asked, loose>> /\ Stored(i) /\ SetTurn(q, i, "leased")
        /\ item' = [item EXCEPT ![i].state = "leased"]
    BY <1>1, PlannerAssumption DEF Lease, Stored
  <2>2. item' \in [Ids -> ItemRec] /\ SameItems
    BY <2>1, StateIsGentle
  <2>3. /\ turn' \in [Runtimes -> TurnRec]
        /\ \A r \in Runtimes : turn'[r].at # "idle" => turn'[r].item \in Ids
    BY <2>1, SetTurnTypes
  <2> QED BY <2>1, <2>2, <2>3, QueueIsGentle DEF Typed
<1>2. CASE Start(q) \/ ToolEvent(q) \/ Complete(q) \/ Fail(q)
  <2>1. /\ UNCHANGED <<plan, asked, loose, item>> /\ turn[q].item \in Ids
        /\ \/ UNCHANGED turn
           \/ \E at \in {"running", "completed", "failed"} : SetTurn(q, turn[q].item, at)
    BY <1>2 DEF Start, ToolEvent, Complete, Fail, Typed
  <2>2. /\ turn' \in [Runtimes -> TurnRec]
        /\ \A r \in Runtimes : turn'[r].at # "idle" => turn'[r].item \in Ids
    <3>1. CASE UNCHANGED turn
      BY <3>1 DEF Typed
    <3>2. CASE \E at \in {"running", "completed", "failed"} : SetTurn(q, turn[q].item, at)
      BY <2>1, <3>2, SetTurnTypes
    <3> QED BY <2>1, <3>1, <3>2
  <2>3. SameItems
    BY <2>1 DEF SameItems, Stored
  <2> QED BY <2>1, <2>2, <2>3, QueueIsGentle DEF Typed
<1>3. CASE EndTurn(q)
  <2> DEFINE i == turn[q].item
             s == IF item[i].state # "leased" THEN item[i].state
                  ELSE IF turn[q].at = "completed" THEN "gone" ELSE "waiting"
  <2>1. /\ UNCHANGED <<plan, asked, loose>> /\ i \in Ids
        /\ turn' = [turn EXCEPT ![q] = Idle] /\ item' = [item EXCEPT ![i].state = s]
    BY <1>3 DEF EndTurn, Typed
  <2>2. CASE item[i].state = "leased"
    <3>1. s \in {"waiting", "leased", "gone"} /\ Stored(i)
      BY <2>1, <2>2, PlannerAssumption DEF Stored
    <3> QED BY <2>1, <3>1, StateIsGentle, QueueIsGentle DEF Typed, Idle, TurnRec
  <2>3. CASE item[i].state # "leased"
    <3>1. item' = item
      BY <2>1, <2>3 DEF Typed, ItemRec
    <3>2. SameItems
      BY <3>1 DEF SameItems, Stored
    <3> QED BY <2>1, <3>1, <3>2, QueueIsGentle DEF Typed, Idle, TurnRec
  <2> QED BY <2>2, <2>3
<1>4. CASE Crash(q)
  <2>1. /\ UNCHANGED <<plan, item, loose>> /\ turn' = [turn EXCEPT ![q] = Idle]
        /\ asked' = [u \in Users |-> IF asked[u].at = q THEN NoRequest ELSE asked[u]]
    BY <1>4 DEF Crash
  <2>2. FewerRequests /\ asked' \in [Users -> AskRec]
    BY <2>1 DEF FewerRequests, Typed, NoRequest, AskRec
  <2>3. SamePlans /\ SameItems
    BY <2>1 DEF SamePlans, SameItems, Exists, Stored
  <2> QED BY <2>1, <2>2, <2>3 DEF Gentle, Typed, Idle, TurnRec
<1> QED BY <1>1, <1>2, <1>3, <1>4 DEF Turn

-----------------------------------------------------------------------------
(* The other steps                                                         *)

LEMMA DeleteKeeps ==
    ASSUME Typed, Linked, Asking, ItemTracked,
           NEW q \in Runtimes, NEW p \in Plans, Delete(q, p)
    PROVE  PlannerInv'
<1> DEFINE pl == [plan EXCEPT ![p].status = "deleted"]
<1>1. /\ ~Stored(plan[p].item) /\ Show(q, pl, item, trace') /\ UNCHANGED <<item, turn, asked>>
      /\ loose' = IF \E u \in Users : asked[u].plan = p THEN loose \cup {p} ELSE loose
  BY DEF Delete
<1>2. pl \in [Plans -> PlanRec] /\ \A x \in Plans : pl[x].item = plan[x].item
                                       /\ (x # p => pl[x] = plan[x])
  BY DEF Typed, PlanRec
<1> HIDE DEF pl
<1>3. /\ plan' \in [Plans -> PlanRec]
      /\ \A x \in Plans : plan'[x].item = plan[x].item /\ (x # p /\ Exists(x) => Exists(x)')
  BY <1>1, <1>2, ShowKeeps DEF Exists
<1>4. Typed' /\ Linked'
  BY <1>1, <1>3 DEF Typed, Linked
<1>5. Asking'
  <2>1. ASSUME NEW u \in Users, NEW x \in Plans, x # p, Sole(u, x) PROVE Sole(u, x)'
    BY <1>1, <1>3, <2>1 DEF Sole, Stored
  <2>2. ASSUME NEW u \in Users, asked[u] # NoRequest, asked[u].plan \notin loose'
        PROVE  asked[u].plan # p /\ asked[u].plan \in Plans /\ Sole(u, asked[u].plan)
    BY <1>1, <2>2 DEF Asking
  <2> QED BY <1>1, <2>1, <2>2 DEF Asking
<1>6. ItemTracked'
  <2> SUFFICES ASSUME NEW i \in Ids, Stored(i)', item[i].plan \notin loose'
               PROVE  Exists(item[i].plan)' /\ plan'[item[i].plan].item = i
    BY <1>1 DEF ItemTracked
  <2>1. Stored(i) /\ item[i].plan \in Plans
    BY <1>1 DEF Stored, Linked
  <2>2. Exists(item[i].plan) /\ plan[item[i].plan].item = i
    BY <1>1, <2>1 DEF ItemTracked
  <2>3. item[i].plan # p
    BY <1>1, <2>1, <2>2
  <2> QED BY <1>1, <1>3, <2>1, <2>2, <2>3 DEF Exists
<1> QED BY <1>4, <1>5, <1>6 DEF PlannerInv

LEMMA BeginEnqueueKeeps ==
    ASSUME Typed, Linked, Asking, ItemTracked,
           NEW u \in Users, NEW q \in Runtimes, NEW p \in Plans, BeginEnqueue(u, q, p)
    PROVE  PlannerInv'
<1>1. /\ asked[u] = NoRequest /\ Exists(p) /\ ~Stored(plan[p].item)
      /\ asked' = [asked EXCEPT ![u] = [plan |-> p, corr |-> plan[p].corr, at |-> q]]
      /\ loose' = IF \E v \in Users : asked[v].plan = p THEN loose \cup {p} ELSE loose
      /\ UNCHANGED <<plan, item, turn>>
  BY DEF BeginEnqueue, Exists, Statuses, UserStatuses, Owned
<1>2. [plan |-> p, corr |-> plan[p].corr, at |-> q] \in AskRec
  BY DEF Typed, PlanRec, AskRec
<1>3. asked' \in [Users -> AskRec] /\ asked'[u].plan = p
      /\ \A v \in Users \ {u} : asked'[v] = asked[v]
  BY <1>1, <1>2 DEF Typed
<1>4. Typed' /\ Linked'
  BY <1>1, <1>3 DEF Typed, Linked
<1>5. Asking'
  <2>1. p \notin loose' => Sole(u, p)'
    BY <1>1, <1>3 DEF Sole, Stored, Exists
  <2>2. ASSUME NEW v \in Users \ {u}, asked[v] # NoRequest, asked[v].plan \notin loose'
        PROVE  asked[v].plan \in Plans /\ asked[v].plan # p /\ Sole(v, asked[v].plan)
    BY <1>1, <2>2 DEF Asking
  <2>3. ASSUME NEW v \in Users \ {u}, NEW x \in Plans, x # p, Sole(v, x) PROVE Sole(v, x)'
    BY <1>1, <1>3, <2>3 DEF Sole, Stored, Exists
  <2>4. ASSUME NEW v \in Users \ {u}, asked[v] # NoRequest
        PROVE  asked[v].plan \in Plans
    BY <2>4 DEF Asking
  <2> QED BY <1>3, <2>1, <2>2, <2>3, <2>4 DEF Asking
<1>6. ItemTracked'
  BY <1>1 DEF ItemTracked, Stored, Exists
<1> QED BY <1>4, <1>5, <1>6 DEF PlannerInv

LEMMA EndEnqueueKeeps ==
    ASSUME Typed, Linked, Asking, ItemTracked,
           NEW u \in Users, NEW i \in Ids, EndEnqueue(u, i),
           NEW p, p = asked[u].plan, NEW q, q = asked[u].at,
           NEW c, c = IF asked[u].corr = None THEN i ELSE asked[u].corr
    PROVE  PlannerInv'
<1> DEFINE pl == [plan EXCEPT ![p] = [status |-> "queued", item |-> i, corr |-> c]]
<1>1. /\ asked[u] # NoRequest /\ item[i].state = "new"
      /\ asked' = [asked EXCEPT ![u] = NoRequest]
      /\ item' = [item EXCEPT ![i] = [state |-> "waiting", plan |-> p, corr |-> c]]
      /\ UNCHANGED <<turn, loose>>
      /\ IF Exists(p) THEN Show(q, pl, item', trace') ELSE plan' = plan
  BY DEF EndEnqueue
<1>2. p \in Plans /\ c \in Ids \cup {None} /\ (p \notin loose => Sole(u, p))
  BY <1>1 DEF Asking, Typed, AskRec
<1>3. pl \in [Plans -> PlanRec] /\ pl[p].item = i /\ pl[p].status \in Statuses
      /\ \A x \in Plans \ {p} : pl[x] = plan[x]
  BY <1>2 DEF Typed, PlanRec, Statuses, Owned
<1> HIDE DEF pl
<1>4. /\ plan' \in [Plans -> PlanRec]
      /\ \A x \in Plans \ {p} : plan'[x].item = plan[x].item /\ (Exists(x) => Exists(x)')
      /\ Exists(p) => Exists(p)' /\ plan'[p].item = i
      /\ ~Exists(p) => plan' = plan
  <2>1. CASE Exists(p)
    BY <1>1, <1>2, <1>3, <2>1, ShowKeeps DEF Exists
  <2>2. CASE ~Exists(p)
    BY <1>1, <2>2 DEF Typed, Exists
  <2> QED BY <2>1, <2>2
<1>5. /\ item' \in [Ids -> ItemRec]
      /\ item'[i].state = "waiting" /\ item'[i].plan = p
      /\ \A j \in Ids \ {i} : item'[j] = item[j]
  <2>1. [state |-> "waiting", plan |-> p, corr |-> c] \in ItemRec
    BY <1>2 DEF ItemRec
  <2> QED BY <1>1, <2>1 DEF Typed
<1>6. /\ asked' \in [Users -> AskRec] /\ asked'[u] = NoRequest
      /\ \A v \in Users \ {u} : asked'[v] = asked[v]
  BY <1>1 DEF Typed, AskRec, NoRequest
<1>7. Typed'
  BY <1>1, <1>4, <1>5, <1>6 DEF Typed
<1>8. \A x \in Plans : plan[x].item # i
  BY <1>1, PlannerAssumption DEF Linked
<1>9. Linked'
  <2>1. ASSUME NEW x \in Plans, plan'[x].item # None
        PROVE  item'[plan'[x].item].state # "new" /\ item'[plan'[x].item].plan = x
    <3>1. CASE x = p /\ Exists(p)
      BY <1>4, <1>5, <3>1
    <3>2. CASE ~(x = p /\ Exists(p))
      <4>1. plan'[x].item = plan[x].item
        BY <1>4, <3>2
      <4>2. plan[x].item \in Ids \ {i}
        BY <1>8, <2>1, <4>1 DEF Typed, PlanRec
      <4> QED BY <1>5, <2>1, <4>1, <4>2 DEF Linked
    <3> QED BY <3>1, <3>2
  <2>2. \A j \in Ids : item'[j].state # "new" => item'[j].plan \in Plans
    BY <1>2, <1>5 DEF Linked
  <2> QED BY <2>1, <2>2 DEF Linked
<1>10. Asking'
  <2>1. ASSUME NEW v \in Users \ {u}, asked[v] # NoRequest
        PROVE  /\ asked[v].plan \in Plans
               /\ asked[v].plan \notin loose =>
                     asked[v].plan # p /\ Sole(v, asked[v].plan)
    <3>1. asked[v].plan \in Plans /\ (asked[v].plan \notin loose => Sole(v, asked[v].plan))
      BY <2>1 DEF Asking
    <3>2. asked[v].plan \notin loose => asked[v].plan # p
      BY <3>1 DEF Sole
    <3> QED BY <3>1, <3>2
  <2>2. ASSUME NEW v \in Users \ {u}, NEW x \in Plans, x # p, Sole(v, x) PROVE Sole(v, x)'
    <3>1. Exists(x)' /\ plan'[x].item = plan[x].item
      BY <1>4, <2>2 DEF Sole
    <3>2. ~Stored(plan[x].item)'
      BY <1>5, <1>8, <2>2, <3>1 DEF Sole, Stored, Typed, PlanRec
    <3>3. \A w \in Users \ {v} : asked'[w].plan # x
      BY <1>6, <2>2, PlannerAssumption DEF Sole, NoRequest
    <3> QED BY <3>1, <3>2, <3>3 DEF Sole
  <2> QED BY <1>1, <1>6, <2>1, <2>2 DEF Asking
<1>11. ItemTracked'
  <2>1. ASSUME NEW j \in Ids, j # i, Stored(j)', item[j].plan \notin loose
        PROVE  Exists(item[j].plan)' /\ plan'[item[j].plan].item = j
               /\ item'[j] = item[j]
    <3>1. Stored(j) /\ item'[j] = item[j] /\ item[j].plan \in Plans
      BY <1>5, <2>1 DEF Stored, Linked
    <3>2. Exists(item[j].plan) /\ plan[item[j].plan].item = j
      BY <2>1, <3>1 DEF ItemTracked
    <3>3. item[j].plan # p
      BY <1>2, <2>1, <3>1, <3>2 DEF Sole
    <3>4. ASSUME NEW x \in Plans, x # p, Exists(x), plan[x].item = j
          PROVE  Exists(x)' /\ plan'[x].item = j
      BY <1>4, <3>4
    <3> QED BY <3>1, <3>2, <3>3, <3>4 DEF Exists
  <2>2. p \notin loose => Exists(p)' /\ plan'[p].item = i
    BY <1>2, <1>4 DEF Sole
  <2> QED BY <1>1, <1>5, <2>1, <2>2 DEF ItemTracked, Exists
<1> QED BY <1>7, <1>9, <1>10, <1>11 DEF PlannerInv

LEMMA EnqueueKeeps ==
    ASSUME Typed, Linked, Asking, ItemTracked, NEW u \in Users, Enqueue(u)
    PROVE  PlannerInv'
<1>1. ASSUME NEW q \in Runtimes, NEW p \in Plans, BeginEnqueue(u, q, p)
      PROVE  PlannerInv'
  BY <1>1, BeginEnqueueKeeps
<1>2. ASSUME NEW i \in Ids, EndEnqueue(u, i) PROVE PlannerInv'
  BY <1>2, EndEnqueueKeeps
<1>3. CASE EnqueueFails(u)
  <2>1. /\ UNCHANGED <<plan, item, turn, loose>>
        /\ asked' = [asked EXCEPT ![u] = NoRequest]
    BY <1>3 DEF EnqueueFails
  <2>2. FewerRequests /\ asked' \in [Users -> AskRec]
    BY <2>1 DEF FewerRequests, Typed, NoRequest, AskRec
  <2>3. Gentle
    BY <2>1, <2>2 DEF Gentle, SamePlans, SameItems, Exists, Stored
  <2>4. Typed'
    BY <2>1, <2>2 DEF Typed
  <2> QED BY <2>3, <2>4, GentleKeeps DEF PlannerInv
<1> QED BY <1>1, <1>2, <1>3 DEF Enqueue

-----------------------------------------------------------------------------
(* The theorem                                                             *)

LEMMA PlannerStart == Init => PlannerInv
<1> SUFFICES ASSUME Init PROVE PlannerInv
  OBVIOUS
<1>1. Typed
  BY DEF Init, Typed, PlanRec, ItemRec, AskRec, TurnRec, NoRequest, Idle
<1>2. Linked /\ Asking /\ ItemTracked
  BY PlannerAssumption DEF Init, Linked, Asking, ItemTracked, Stored
<1> QED BY <1>1, <1>2 DEF PlannerInv

LEMMA PlannerStep == PlannerInv /\ [Next]_vars => PlannerInv'
<1> SUFFICES ASSUME Typed, Linked, Asking, ItemTracked, [Next]_vars
             PROVE  PlannerInv'
  BY DEF PlannerInv
<1>1. ASSUME Gentle /\ Typed' PROVE PlannerInv'
  BY <1>1, GentleKeeps DEF PlannerInv
<1>2. ASSUME NEW q \in Runtimes, Look(q) PROVE PlannerInv'
  <2>1. Show(q, plan, item, trace) /\ UNCHANGED <<item, asked, loose, turn>>
    BY <1>2 DEF Look
  <2>2. plan \in [Plans -> PlanRec] /\ \A p \in Plans : Exists(p) => plan[p].status \in Statuses
    BY DEF Typed, Exists
  <2> QED BY <1>1, <2>1, <2>2, ShowIsGentle, QuietIsGentle
<1>3. ASSUME NEW q \in Runtimes, Turn(q) \/ Crash(q) \/ \E i \in Ids : Lease(q, i)
      PROVE  PlannerInv'
  BY <1>1, <1>3, TurnIsGentle
<1>4. ASSUME NEW q \in Runtimes, NEW p \in Plans, Change(q, p) PROVE PlannerInv'
  <2>1. CASE Delete(q, p)
    BY <2>1, DeleteKeeps
  <2>2. CASE ~Delete(q, p)
    BY <1>1, <1>4, <2>2, ChangeIsGentle
  <2> QED BY <2>1, <2>2
<1>5. ASSUME NEW u \in Users, Enqueue(u) PROVE PlannerInv'
  BY <1>5, EnqueueKeeps
<1>6. CASE Clear \/ \E i \in Ids : Cancel(i) \/ Reorder(i) \/ RunNow(i) \/ Lapse(i)
  BY <1>1, <1>6, UserIsGentle
<1>7. CASE UNCHANGED vars
  <2>1. UNCHANGED <<plan, item, asked, loose, turn>>
    BY <1>7 DEF vars
  <2>2. plan' \in [Plans -> PlanRec] /\ SamePlans
    BY <2>1 DEF Typed, SamePlans, Exists
  <2> QED BY <1>1, <2>1, <2>2, QuietIsGentle
<1> QED BY <1>2, <1>3, <1>4, <1>5, <1>6, <1>7 DEF Next

(* A prompt in the queue is the one its plan knows of, whatever requests,  *)
(* looks, turns, failures and crashes come between, unless an enqueue met  *)
(* another one of the same plan, or its deletion.                          *)
THEOREM ItemTrackedHolds == Spec => []ItemTracked
<1>1. PlannerInv => ItemTracked
  BY DEF PlannerInv
<1>2. Spec => []PlannerInv
  BY PlannerStart, PlannerStep, PTL DEF Spec
<1> QED BY <1>1, <1>2, PTL

=============================================================================

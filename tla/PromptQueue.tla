----------------------------- MODULE PromptQueue -----------------------------
(***************************************************************************)
(* The durable prompt queue of one context (src/src/state/prompt-store.ts) *)
(* and everybody who works on it.                                          *)
(*                                                                         *)
(* Every operation of PromptStore is one document update under the store's *)
(* file lock or SQL transaction, so it is one action here.  The document   *)
(* is shared by several Node processes.  A "worker" is one drain of one    *)
(* process: between two of its updates it only holds a copy of the item it *)
(* leased.  A "user" is a person acting through the WebUI or a chat        *)
(* command.  The operations may come in any order the API permits: the     *)
(* modules that model the drains narrow that order down.                   *)
(*                                                                         *)
(* Abstractions.  Queue ids and lease ids are random in the code: here     *)
(* they are fresh elements of Ids and Tokens, whose sizes bound a run.     *)
(* Wall-clock time is reduced to the two questions the code asks of it:    *)
(* has the lease expired ("live") and is the item due ("due").  A lease id *)
(* determines its owner, so leaseOwner is not kept.                        *)
(***************************************************************************)
EXTENDS Naturals, SequencesExt

CONSTANTS
    Ids,        \* queue ids, one per accepted prompt
    Keys,       \* idempotency keys (correlation ids)
    NoKey,      \* the item carries no key
    Tokens,     \* lease ids
    NoToken,    \* the item carries no lease
    Workers,    \* drains of the processes that share the store
    Users,      \* people who act on the queue
    Nothing     \* empty hands

ASSUME QueueAssumption ==
    /\ NoKey \notin Keys
    /\ NoToken \notin Tokens
    /\ Nothing \notin Ids
    /\ Nothing \notin [id : Ids, token : Tokens \cup {NoToken}, requeued : BOOLEAN]

VARIABLES
    queue,      \* the queue of the context, front first: a sequence of Ids
    item,       \* the stored fields of each id
    used,       \* ids that were ever accepted
    issued,     \* lease ids that were ever created
    hand,       \* what each worker is executing: the copy leaseNext returned
    limbo,      \* per user: an id taken out by "run" and not yet put in front
    done,       \* history: prompts whose execution a worker finished
    removed,    \* history: prompts a user removed
    lost,       \* history: prompts that only a crashed process knew of
    expired,    \* history: prompts one of whose leases ran out
    pulled      \* history: leased prompts taken away from their worker

store   == <<queue, item, used, issued>>
history == <<done, removed, lost, expired, pulled>>
vars    == <<store, hand, limbo, history>>

Item == [status : {"queued", "running"},
         key    : Keys \cup {NoKey},
         token  : Tokens \cup {NoToken},
         live   : BOOLEAN,
         due    : BOOLEAN]

Hand == [id : Ids, token : Tokens \cup {NoToken}, requeued : BOOLEAN]

-----------------------------------------------------------------------------
(* Helpers over the queue                                                  *)

Queued == Range(queue)

(* filter((queued) => queued.id !== id): the ids are distinct, so at most  *)
(* one element goes.                                                       *)
Without(q, id) == RemoveFirst(q, id)

(* Fault: splice forgotten *)
ToFrontTwice(q, id) == Cons(id, q)

(* splice then unshift *)
ToFront(q, id) == Cons(id, Without(q, id))

(* Fault: the lease id is overwritten rather than deleted *)
UnleasedHalf(it) == [it EXCEPT !.status = "queued", !.token = Nothing, !.live = FALSE]

(* clearPromptLease and status "queued" *)
Unleased(it) == [it EXCEPT !.status = "queued", !.token = NoToken, !.live = FALSE]

(* clearExpiredQueueLeases for one item *)
ClearExpired(it) == IF it.status = "running" /\ ~it.live THEN Unleased(it) ELSE it

(* Fault: a running item is leased again whether its lease is valid or not *)
RunnableAnyway(it) == it.due

(* The test leaseNext applies to each item, in queue order. *)
Runnable(it) == ~(it.status = "running" /\ it.live) /\ it.due

(* Fault: any running item matches *)
MatchesRunning(h) == item[h.id].status = "running"

(* leaseMatches, for the copy a worker holds *)
Matches(h) == /\ h.token # NoToken
              /\ item[h.id].token = h.token

(* The worker holds an item that is still its own in the store. *)
Current(h) == h.id \in Queued /\ Matches(h)

(* The worker's lease is valid and has not run out. *)
HoldsLease(w) == /\ hand[w] # Nothing
                 /\ Current(hand[w])
                 /\ item[hand[w].id].status = "running"
                 /\ item[hand[w].id].live

(* The worker runs the agent on the prompt; one that put it back does not. *)
Executes(w, id) == hand[w] # Nothing /\ hand[w].id = id /\ ~hand[w].requeued

(* Prompts of S that some worker other than w is executing.                *)
InExecution(S, w) == {id \in S : \E v \in Workers \ {w} : Executes(v, id)}

-----------------------------------------------------------------------------
(* The environment: callers and time                                       *)

(* enqueue.  When an item with the same key is queued, the existing item   *)
(* is returned and nothing changes.                                        *)
Enqueue(key, due) ==
    /\ \A id \in Queued : key = NoKey \/ item[id].key # key
    /\ \E id \in Ids \ used :
        /\ queue' = Append(queue, id)
        /\ item' = [item EXCEPT ![id] = [status |-> "queued", key |-> key,
                        token |-> NoToken, live |-> FALSE, due |-> due]]
        /\ used' = used \cup {id}
    /\ UNCHANGED <<issued, hand, limbo, history>>

(* notBefore passes *)
BecomesDue(id) ==
    /\ id \in used /\ ~item[id].due
    /\ item' = [item EXCEPT ![id].due = TRUE]
    /\ UNCHANGED <<queue, used, issued, hand, limbo, history>>

(* leaseExpiresAt passes: the worker stopped renewing, or was suspended.   *)
LeaseExpires(id) ==
    /\ id \in Queued /\ item[id].status = "running" /\ item[id].live
    /\ item' = [item EXCEPT ![id].live = FALSE]
    /\ expired' = expired \cup {id}
    /\ UNCHANGED <<queue, used, issued, hand, limbo, done, removed, lost, pulled>>

-----------------------------------------------------------------------------
(* A worker                                                                *)

(* Fault: an item that still carries a lease id is leased under the old one *)
LeaseNextOldToken(w) ==
    /\ hand[w] = Nothing
    /\ \E i \in DOMAIN queue :
        \E t \in IF item[queue[i]].token = NoToken THEN Tokens \ issued
                                                    ELSE {item[queue[i]].token} :
            /\ Runnable(item[queue[i]])
            /\ queue' = ToFront(queue, queue[i])
            /\ item' = [item EXCEPT ![queue[i]].status = "running", ![queue[i]].token = t,
                                    ![queue[i]].live = TRUE]
            /\ issued' = issued \cup {t}
            /\ hand' = [hand EXCEPT ![w] = [id |-> queue[i], token |-> t, requeued |-> FALSE]]
    /\ UNCHANGED <<used, limbo, history>>

(* leaseNext: the first runnable item becomes running under a new lease    *)
(* and moves to the front; every expired lease is cleared on the way.      *)
LeaseNext(w) ==
    /\ hand[w] = Nothing
    /\ \E i \in DOMAIN queue, t \in Tokens \ issued :
        /\ Runnable(item[queue[i]])
        /\ \A j \in 1 .. i - 1 : ~Runnable(item[queue[j]])
        /\ queue' = ToFront(queue, queue[i])
        /\ item' = [id \in Ids |->
                      IF id = queue[i]
                      THEN [item[id] EXCEPT !.status = "running", !.token = t, !.live = TRUE]
                      ELSE ClearExpired(item[id])]
        /\ issued' = issued \cup {t}
        /\ hand' = [hand EXCEPT ![w] = [id |-> queue[i], token |-> t, requeued |-> FALSE]]
    /\ UNCHANGED <<used, limbo, history>>

(* renewLease.  It looks at the lease id only: a lease that ran out and    *)
(* that nobody has cleared yet comes back to life.                         *)
RenewLease(w) ==
    /\ hand[w] # Nothing
    /\ Current(hand[w])
    /\ item' = [item EXCEPT ![hand[w].id].live = TRUE]
    /\ UNCHANGED <<queue, used, issued, hand, limbo, history>>

(* The run returned: completeLease removes the item if the copy still      *)
(* matches, and does nothing otherwise.                                    *)
CompleteLease(w) ==
    /\ hand[w] # Nothing
    /\ LET id == hand[w].id IN
        /\ IF Current(hand[w])
           THEN /\ queue' = Without(queue, id)
                /\ item' = [item EXCEPT ![id] = Unleased(item[id])]
           ELSE UNCHANGED <<queue, item>>
        /\ done' = IF hand[w].requeued THEN done ELSE done \cup {id}
    /\ hand' = [hand EXCEPT ![w] = Nothing]
    /\ UNCHANGED <<used, issued, limbo, removed, lost, expired, pulled>>

(* Fault: the failed item is taken out and not put back *)
FailLeaseDrops(w) ==
    /\ hand[w] # Nothing
    /\ Current(hand[w])
    /\ queue' = Without(queue, hand[w].id)
    /\ hand' = [hand EXCEPT ![w] = Nothing]
    /\ UNCHANGED <<item, used, issued, limbo, history>>

(* The run threw: failLease puts a matching item back in front as queued.  *)
(* Object.assign copies no deleted field, so the lease id stays behind.    *)
FailLease(w) ==
    /\ hand[w] # Nothing
    /\ hand[w].token # NoToken
    /\ LET id == hand[w].id IN
        IF Current(hand[w])
        THEN /\ queue' = ToFront(queue, id)
             /\ item' = [item EXCEPT ![id].status = "queued", ![id].live = FALSE]
        ELSE UNCHANGED <<queue, item>>
    /\ hand' = [hand EXCEPT ![w] = Nothing]
    /\ UNCHANGED <<used, issued, limbo, history>>

(* enqueueFront with the worker's copy, when the session turned out busy.  *)
(* The copy replaces whatever the store has under that id.                 *)
Requeue(w) ==
    /\ hand[w] # Nothing
    /\ ~hand[w].requeued
    /\ LET id == hand[w].id IN
        /\ queue' = ToFront(queue, id)
        /\ item' = [item EXCEPT ![id] = Unleased(item[id])]
        /\ hand' = [hand EXCEPT ![w].requeued = TRUE]
        /\ pulled' = pulled \cup InExecution({id}, w)
    /\ UNCHANGED <<used, issued, limbo, done, removed, lost, expired>>

(* The item leaves the store before it runs, without a lease. *)
TakeUnleased(w, id) ==
    /\ hand[w] = Nothing
    /\ queue' = Without(queue, id)
    /\ item' = [item EXCEPT ![id] = Unleased(item[id])]
    /\ hand' = [hand EXCEPT ![w] = [id |-> id, token |-> NoToken, requeued |-> FALSE]]
    /\ pulled' = pulled \cup InExecution({id}, w)
    /\ UNCHANGED <<used, issued, limbo, done, removed, lost, expired>>

(* dequeue takes the first due item, leased or not. *)
Dequeue(w) ==
    \E i \in DOMAIN queue :
        /\ item[queue[i]].due
        /\ \A j \in 1 .. i - 1 : ~item[queue[j]].due
        /\ TakeUnleased(w, queue[i])

(* "/queue run <id>" of Discord, Slack and Matrix: remove, then run. *)
RunTaken(w, id) == id \in Queued /\ TakeUnleased(w, id)

-----------------------------------------------------------------------------
(* A user                                                                  *)

(* remove, as "cancel" calls it *)
Cancel(id) ==
    /\ id \in Queued
    /\ queue' = Without(queue, id)
    /\ item' = [item EXCEPT ![id] = Unleased(item[id])]
    /\ removed' = removed \cup {id}
    /\ pulled' = pulled \cup {x \in {id} : \E v \in Workers : Executes(v, x)}
    /\ UNCHANGED <<used, issued, hand, limbo, done, lost, expired>>

ClearQueue ==
    /\ queue # <<>>
    /\ queue' = <<>>
    /\ item' = [id \in Ids |-> Unleased(item[id])]
    /\ removed' = removed \cup Queued
    /\ pulled' = pulled \cup {x \in Queued : \E v \in Workers : Executes(v, x)}
    /\ UNCHANGED <<used, issued, hand, limbo, done, lost, expired>>

Reorder(newQueue) ==
    /\ queue' = newQueue
    /\ UNCHANGED <<item, used, issued, hand, limbo, history>>

Exchange(i, j) == [queue EXCEPT ![i] = queue[j], ![j] = queue[i]]

MoveToTop(id) == id \in Queued /\ Reorder(ToFront(queue, id))
MoveUp(id)   == \E i \in 2 .. Len(queue) : queue[i] = id /\ Reorder(Exchange(i - 1, i))
MoveDown(id) == \E i \in 1 .. Len(queue) - 1 : queue[i] = id /\ Reorder(Exchange(i, i + 1))

(* "run" of the WebUI and of Telegram is two updates: remove ...           *)
RunNowRemove(u, id) ==
    /\ limbo[u] = Nothing
    /\ id \in Queued
    /\ queue' = Without(queue, id)
    /\ item' = [item EXCEPT ![id] = Unleased(item[id])]
    /\ limbo' = [limbo EXCEPT ![u] = id]
    /\ pulled' = pulled \cup {x \in {id} : \E v \in Workers : Executes(v, x)}
    /\ UNCHANGED <<used, issued, hand, done, removed, lost, expired>>

(* ... then enqueueFront.                                                  *)
RunNowFront(u) ==
    /\ limbo[u] # Nothing
    /\ queue' = ToFront(queue, limbo[u])
    /\ item' = [item EXCEPT ![limbo[u]] = Unleased(item[limbo[u]])]
    /\ limbo' = [limbo EXCEPT ![u] = Nothing]
    /\ UNCHANGED <<used, issued, hand, history>>

-----------------------------------------------------------------------------
(* Workers and users that stop without a word: their process dies, an      *)
(* exception escapes outside runLeasedQueuedPrompt, or the second update   *)
(* of "run" throws.  The store stays as it is, leases and all.             *)

Unstored(W, U) ==
    {hand[w].id : w \in {v \in W : /\ hand[v] # Nothing
                                   /\ hand[v].token = NoToken
                                   /\ ~hand[v].requeued}}
    \cup {limbo[u] : u \in {x \in U : limbo[x] # Nothing}}

Crash(W, U) ==
    /\ hand' = [w \in Workers |-> IF w \in W THEN Nothing ELSE hand[w]]
    /\ limbo' = [u \in Users |-> IF u \in U THEN Nothing ELSE limbo[u]]
    /\ lost' = lost \cup Unstored(W, U)
    /\ UNCHANGED <<store, done, removed, expired, pulled>>

Dies == \E W \in SUBSET Workers, U \in SUBSET Users :
            /\ (\E w \in W : hand[w] # Nothing) \/ (\E u \in U : limbo[u] # Nothing)
            /\ Crash(W, U)

-----------------------------------------------------------------------------
Init ==
    /\ queue = <<>>
    /\ item = [id \in Ids |-> [status |-> "queued", key |-> NoKey, token |-> NoToken,
                              live |-> FALSE, due |-> TRUE]]
    /\ used = {} /\ issued = {}
    /\ hand = [w \in Workers |-> Nothing]
    /\ limbo = [u \in Users |-> Nothing]
    /\ done = {} /\ removed = {} /\ lost = {} /\ expired = {} /\ pulled = {}

Environment ==
    \/ \E key \in Keys \cup {NoKey}, due \in BOOLEAN : Enqueue(key, due)
    \/ \E id \in Ids : BecomesDue(id) \/ LeaseExpires(id)

Worker(w) ==
    \/ LeaseNext(w) \/ RenewLease(w) \/ CompleteLease(w) \/ FailLease(w)
    \/ Requeue(w) \/ Dequeue(w)
    \/ \E id \in Ids : RunTaken(w, id)

(* What anybody may do in one update, so that nobody is remembered for it. *)
Editing ==
    \/ ClearQueue
    \/ \E id \in Ids : Cancel(id) \/ MoveToTop(id) \/ MoveUp(id) \/ MoveDown(id)

User(u) == RunNowFront(u) \/ \E id \in Ids : RunNowRemove(u, id)

Next == \/ Environment \/ Dies \/ Editing
        \/ (\E w \in Workers : Worker(w)) \/ (\E u \in Users : User(u))

Spec == Init /\ [][Next]_vars

-----------------------------------------------------------------------------
TypeOK ==
    /\ queue \in Seq(Ids)
    /\ item \in [Ids -> Item]
    /\ used \subseteq Ids /\ issued \subseteq Tokens
    /\ hand \in [Workers -> Hand \cup {Nothing}]
    /\ limbo \in [Users -> Ids \cup {Nothing}]
    /\ done \subseteq Ids /\ removed \subseteq Ids /\ lost \subseteq Ids
    /\ expired \subseteq Ids /\ pulled \subseteq Ids

(* No prompt is in the queue twice, whatever mixture of "run", requeues,   *)
(* failed leases and moves it has been through: enqueueFront and leaseNext *)
(* put an id in front without leaving another copy behind.                 *)
QueuedOnce == IsInjective(queue)

(* An accepted prompt is always somewhere: in the queue, in the hands of a *)
(* worker that took it out, between the two updates of "run", finished,    *)
(* removed by a user, or lost with the one process that had it outside the *)
(* store.  Crashes, expiry and failures of leased prompts lose nothing.    *)
NoPromptLost ==
    \A id \in used :
        \/ id \in Queued \cup done \cup removed \cup lost
        \/ \E u \in Users : limbo[u] = id
        \/ \E w \in Workers : Executes(w, id) /\ hand[w].token = NoToken

(* Two workers never hold valid leases on one prompt.                      *)
LeasesDisjoint ==
    \A v, w \in Workers :
        v # w /\ HoldsLease(v) /\ HoldsLease(w) => hand[v].id # hand[w].id

(* A prompt is executed by two workers at once only if one of its leases   *)
(* ran out, or somebody took it away from the worker that had it.          *)
OneExecution ==
    \A v, w \in Workers, id \in Ids :
        v # w /\ Executes(v, id) /\ Executes(w, id) => id \in expired \cup pulled

(* A lease protects its holder from the other drains: no leaseNext,        *)
(* renewLease, completeLease or failLease of another worker, however late  *)
(* and with however old a copy, ends a lease that is still valid.          *)
LeaseProtected ==
    [][\A v, w \in Workers :
         v # w /\ HoldsLease(w)
           /\ (LeaseNext(v) \/ RenewLease(v) \/ CompleteLease(v) \/ FailLease(v))
         => HoldsLease(w)']_vars

=============================================================================

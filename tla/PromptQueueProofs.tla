-------------------------- MODULE PromptQueueProofs --------------------------
(***************************************************************************)
(* What PromptQueue promises, for every number of prompts, lease ids,      *)
(* workers and users.                                                      *)
(*                                                                         *)
(* The queue is a sequence without repetitions, and each operation changes *)
(* its set of elements in a simple way: the first part shows this for the  *)
(* operators, QueuedNext for the actions.  Shape (types, no repetitions,   *)
(* only accepted prompts anywhere) is inductive alone.  LeaseInv adds what *)
(* lease ids are for: a copy outside the store matches the store only if   *)
(* no other copy does and it was not put back.  ExecutionInv adds where an *)
(* executed prompt may be.                                                 *)
(***************************************************************************)
EXTENDS PromptQueue, SequenceTheorems, TLAPS

-----------------------------------------------------------------------------
(* Sequences without repetitions                                           *)

(* splice(k, 1) on a queue without repetitions takes out that element and  *)
(* no other, and repeats none.                                             *)
LEMMA RemoveAtProps ==
    ASSUME NEW S, NEW q \in Seq(S), IsInjective(q), NEW k \in 1 .. Len(q)
    PROVE  /\ RemoveAt(q, k) \in Seq(S)
           /\ IsInjective(RemoveAt(q, k))
           /\ Range(RemoveAt(q, k)) = Range(q) \ {q[k]}
<1> DEFINE n == Len(q)
           a == SubSeq(q, 1, k - 1)
           b == SubSeq(q, k + 1, n)
           r == RemoveAt(q, k)
<1>1. n \in Nat /\ k \in 1 .. n
  BY LenProperties
<1>2. \A i \in 1 .. n : q[i] \in S
  BY ElementOfSeq
<1>3. \A i, j \in 1 .. n : q[i] = q[j] => i = j
  BY LenProperties DEF IsInjective
<1>4. a \in Seq(S) /\ Len(a) = k - 1 /\ \A i \in 1 .. k - 1 : a[i] = q[i]
  <2>1. 1 \in Int /\ k - 1 \in Int /\ \A i \in 1 .. k - 1 : q[i] \in S
    BY <1>1, <1>2
  <2>2. /\ a \in Seq(S)
        /\ Len(a) = IF 1 <= k - 1 THEN k - 1 - 1 + 1 ELSE 0
        /\ \A i \in 1 .. k - 1 - 1 + 1 : a[i] = q[1 + i - 1]
    BY <2>1, SubSeqProperties
  <2> HIDE DEF a, n
  <2> QED BY <1>1, <2>2
<1>5. b \in Seq(S) /\ Len(b) = n - k /\ \A i \in 1 .. n - k : b[i] = q[k + i]
  <2>1. k + 1 \in Int /\ n \in Int /\ \A i \in k + 1 .. n : q[i] \in S
    BY <1>1, <1>2
  <2>2. /\ b \in Seq(S)
        /\ Len(b) = IF k + 1 <= n THEN n - (k + 1) + 1 ELSE 0
        /\ \A i \in 1 .. n - (k + 1) + 1 : b[i] = q[k + 1 + i - 1]
    BY <2>1, SubSeqProperties
  <2> HIDE DEF b, n
  <2> QED BY <1>1, <2>2
<1>6. /\ r \in Seq(S) /\ Len(r) = n - 1
      /\ \A i \in 1 .. n - 1 : r[i] = IF i < k THEN q[i] ELSE q[i + 1]
  <2>1. r = a \o b
    BY DEF RemoveAt
  <2> HIDE DEF a, b, r, n
  <2>2. /\ a \o b \in Seq(S)
        /\ Len(a \o b) = Len(a) + Len(b)
        /\ \A i \in 1 .. Len(a) + Len(b) : (a \o b)[i] = IF i <= Len(a) THEN a[i] ELSE b[i - Len(a)]
    BY <1>4, <1>5, ConcatProperties
  <2> QED BY <1>1, <1>4, <1>5, <2>1, <2>2
<1>7. Range(q) = {q[i] : i \in 1 .. n} /\ Range(r) = {r[i] : i \in 1 .. n - 1}
  BY <1>6, RangeEquality
<1>8. DOMAIN r = 1 .. n - 1
  BY <1>6, LenProperties
<1> HIDE DEF n, r
(* Position i of the result is position up(i) of the original.             *)
<1> DEFINE up(i) == IF i < k THEN i ELSE i + 1
<1>9. \A i \in 1 .. n - 1 : up(i) \in 1 .. n /\ up(i) # k /\ r[i] = q[up(i)]
  BY <1>1, <1>6
<1>10. IsInjective(r)
  <2>1. \A i, j \in 1 .. n - 1 : up(i) = up(j) => i = j
    BY <1>1
  <2> HIDE DEF up
  <2>2. \A i, j \in 1 .. n - 1 : r[i] = r[j] => i = j
    BY <2>1, <1>3, <1>9
  <2> QED BY <2>2, <1>8 DEF IsInjective
<1>11. Range(r) = Range(q) \ {q[k]}
  <2>1. ASSUME NEW x \in Range(r) PROVE x \in Range(q) /\ x # q[k]
    <3>1. PICK i \in 1 .. n - 1 : x = r[i]
      BY <2>1, <1>7
    <3> HIDE DEF up
    <3> QED BY <3>1, <1>1, <1>3, <1>7, <1>9
  <2>2. ASSUME NEW x \in Range(q), x # q[k] PROVE x \in Range(r)
    <3>1. PICK j \in 1 .. n : x = q[j]
      BY <2>2, <1>7
    <3>2. j # k
      BY <3>1, <2>2
    <3>3. CASE j < k
      <4>1. j \in 1 .. n - 1 /\ r[j] = x
        BY <3>1, <3>3, <1>1, <1>6
      <4> QED BY <4>1, <1>7
    <3>4. CASE j > k
      <4>1. j - 1 \in 1 .. n - 1 /\ r[j - 1] = x
        BY <3>1, <3>4, <1>1, <1>6
      <4> QED BY <4>1, <1>7
    <3> QED BY <3>2, <3>3, <3>4, <1>1
  <2> QED BY <2>1, <2>2
<1> QED BY <1>6, <1>10, <1>11 DEF r

(* Removing an element removes it altogether, since it occurs once.        *)
LEMMA RemoveFirstProps ==
    ASSUME NEW S, NEW q \in Seq(S), IsInjective(q), NEW e
    PROVE  /\ RemoveFirst(q, e) \in Seq(S)
           /\ IsInjective(RemoveFirst(q, e))
           /\ Range(RemoveFirst(q, e)) = Range(q) \ {e}
<1>1. Range(q) = {q[i] : i \in 1 .. Len(q)} /\ Len(q) \in Nat
  BY RangeEquality, LenProperties
<1>2. CASE \E i \in 1 .. Len(q) : q[i] = e
  <2>1. PICK k \in 1 .. Len(q) : q[k] = e
    BY <1>2
  <2>2. {i \in 1 .. Len(q) : q[i] = e} = {k}
    BY <2>1, LenProperties DEF IsInjective
  <2>3. Min({k}) = k
    BY <1>1 DEF Min
  <2>4. RemoveFirst(q, e) = RemoveAt(q, k)
    BY <1>2, <2>2, <2>3 DEF RemoveFirst, SelectInSeq
  <2> QED BY <2>1, <2>4, RemoveAtProps
<1>3. CASE ~ \E i \in 1 .. Len(q) : q[i] = e
  BY <1>1, <1>3 DEF RemoveFirst
<1> QED BY <1>2, <1>3

(* The filter of remove and completeLease.                                 *)
LEMMA WithoutProps ==
    ASSUME NEW q \in Seq(Ids), IsInjective(q), NEW id
    PROVE  /\ Without(q, id) \in Seq(Ids)
           /\ IsInjective(Without(q, id))
           /\ Range(Without(q, id)) = Range(q) \ {id}
BY RemoveFirstProps DEF Without

(* unshift of a new element.                                               *)
LEMMA ConsProps ==
    ASSUME NEW S, NEW q \in Seq(S), IsInjective(q), NEW e \in S, e \notin Range(q)
    PROVE  /\ Cons(e, q) \in Seq(S)
           /\ IsInjective(Cons(e, q))
           /\ Range(Cons(e, q)) = Range(q) \cup {e}
<1> DEFINE c == Cons(e, q)
           n == Len(q)
<1>1. n \in Nat /\ Range(q) = {q[i] : i \in 1 .. n}
  BY LenProperties, RangeEquality
<1>2. \A i, j \in 1 .. n : q[i] = q[j] => i = j
  BY LenProperties DEF IsInjective
<1>3. /\ c \in Seq(S) /\ Len(c) = n + 1
      /\ \A i \in 1 .. n + 1 : c[i] = IF i = 1 THEN e ELSE q[i - 1]
  <2>1. <<e>> \in Seq(S) /\ Len(<<e>>) = 1 /\ <<e>>[1] = e
    OBVIOUS
  <2>2. /\ <<e>> \o q \in Seq(S)
        /\ Len(<<e>> \o q) = 1 + n
        /\ \A i \in 1 .. 1 + n : (<<e>> \o q)[i] = IF i <= 1 THEN <<e>>[i] ELSE q[i - 1]
    BY <2>1, ConcatProperties
  <2> QED BY <1>1, <2>1, <2>2 DEF Cons
<1>4. DOMAIN c = 1 .. n + 1
  BY <1>3, LenProperties
<1>5. Range(c) = Range(q) \cup {e}
  <2>1. <<e>> \in Seq(S) /\ Len(<<e>>) = 1 /\ <<e>>[1] = e
    OBVIOUS
  <2>2. Range(<<e>>) = {<<e>>[i] : i \in 1 .. Len(<<e>>)}
    BY <2>1, RangeEquality
  <2>3. Range(<<e>>) = {e}
    BY <2>1, <2>2
  <2>4. Range(<<e>> \o q) = Range(<<e>>) \cup Range(q)
    <3>1. <<e>> \in Seq(S) /\ q \in Seq(S)
      BY <2>1
    <3> QED BY ZenonT(60), <3>1, RangeConcatenation
  <2> QED BY <2>3, <2>4 DEF Cons
<1> HIDE DEF c, n
<1>6. \A i, j \in 1 .. n + 1 : c[i] = c[j] => i = j
  <2> SUFFICES ASSUME NEW i \in 1 .. n + 1, NEW j \in 1 .. n + 1, c[i] = c[j] PROVE i = j
    OBVIOUS
  <2>1. \A k \in 1 .. n + 1 : k # 1 => k - 1 \in 1 .. n /\ c[k] = q[k - 1] /\ c[k] # e
    BY <1>1, <1>3
  <2>2. c[1] = e
    BY <1>1, <1>3
  <2>3. CASE i = 1 \/ j = 1
    BY <2>1, <2>2, <2>3
  <2>4. CASE i # 1 /\ j # 1
    <3>1. i - 1 = j - 1
      BY <2>1, <2>4, <1>2
    <3> QED BY <3>1, <1>1
  <2> QED BY <2>3, <2>4
<1>7. IsInjective(c)
  BY <1>4, <1>6 DEF IsInjective
<1> QED BY <1>3, <1>5, <1>7 DEF c

(* splice and unshift, as leaseNext, failLease, enqueueFront and           *)
(* moveToTop do: the queue holds the id once, whether or not it held it    *)
(* before.                                                                 *)
LEMMA ToFrontProps ==
    ASSUME NEW q \in Seq(Ids), IsInjective(q), NEW id \in Ids
    PROVE  /\ ToFront(q, id) \in Seq(Ids)
           /\ IsInjective(ToFront(q, id))
           /\ Range(ToFront(q, id)) = Range(q) \cup {id}
<1>1. id \notin Range(Without(q, id))
  BY WithoutProps
<1> QED BY <1>1, WithoutProps, ConsProps DEF ToFront

(* push of a new element, as enqueue does.                                 *)
LEMMA AppendProps ==
    ASSUME NEW q \in Seq(Ids), IsInjective(q), NEW id \in Ids, id \notin Range(q)
    PROVE  /\ Append(q, id) \in Seq(Ids)
           /\ IsInjective(Append(q, id))
           /\ Range(Append(q, id)) = Range(q) \cup {id}
<1> DEFINE c == Append(q, id)
           n == Len(q)
<1>1. n \in Nat /\ Range(q) = {q[i] : i \in 1 .. n}
  BY LenProperties, RangeEquality
<1>2. \A i, j \in 1 .. n : q[i] = q[j] => i = j
  BY LenProperties DEF IsInjective
<1>3. /\ c \in Seq(Ids) /\ Len(c) = n + 1
      /\ \A i \in 1 .. n : c[i] = q[i]
      /\ c[n + 1] = id
  BY <1>1, AppendProperties
<1>4. DOMAIN c = 1 .. n + 1
  BY <1>3, LenProperties
<1>5. Range(c) = {c[i] : i \in 1 .. n + 1}
  BY <1>3, RangeEquality
<1> HIDE DEF c, n
<1>6. \A i \in 1 .. n + 1 : i = n + 1 \/ i \in 1 .. n
  BY <1>1
<1>7. \A i, j \in 1 .. n + 1 : c[i] = c[j] => i = j
  BY <1>1, <1>2, <1>3, <1>6
<1>8. IsInjective(c)
  BY <1>4, <1>7 DEF IsInjective
<1>9. Range(c) = Range(q) \cup {id}
  BY <1>1, <1>3, <1>5, <1>6
<1> QED BY <1>3, <1>8, <1>9 DEF c

(* The exchange of two neighbours in moveUp and moveDown.                  *)
LEMMA ExchangeProps ==
    ASSUME NEW q \in Seq(Ids), IsInjective(q),
           NEW i \in 1 .. Len(q), NEW j \in 1 .. Len(q)
    PROVE  LET x == [q EXCEPT ![i] = q[j], ![j] = q[i]]
           IN  x \in Seq(Ids) /\ IsInjective(x) /\ Range(x) = Range(q)
<1> DEFINE y == [q EXCEPT ![i] = q[j]]
           x == [y EXCEPT ![j] = q[i]]
           n == Len(q)
<1>1. n \in Nat /\ q[i] \in Ids /\ q[j] \in Ids /\ Range(q) = {q[k] : k \in 1 .. n}
  BY LenProperties, ElementOfSeq, RangeEquality
<1>2. \A k, m \in 1 .. n : q[k] = q[m] => k = m
  BY LenProperties DEF IsInjective
<1>3. /\ y \in Seq(Ids) /\ Len(y) = n
      /\ \A k \in 1 .. n : y[k] = IF k = i THEN q[j] ELSE q[k]
  BY <1>1, ExceptSeq
<1>4. /\ x \in Seq(Ids) /\ Len(x) = n
      /\ \A k \in 1 .. n : x[k] = IF k = j THEN q[i] ELSE y[k]
  <2> HIDE DEF y
  <2> QED BY <1>1, <1>3, ExceptSeq
<1>5. DOMAIN x = 1 .. n /\ Range(x) = {x[k] : k \in 1 .. n}
  <2> HIDE DEF x, n
  <2> QED BY <1>4, LenProperties, RangeEquality
<1>6. x = [q EXCEPT ![i] = q[j], ![j] = q[i]]
  OBVIOUS
<1> HIDE DEF x, y, n
<1>7. i \in 1 .. n /\ j \in 1 .. n
  BY DEF n
<1>8. IsInjective(x)
  <2>1. \A k, m \in 1 .. n : x[k] = x[m] => k = m
    BY <1>2, <1>3, <1>4, <1>7
  <2> QED BY <2>1, <1>5 DEF IsInjective
<1>9. Range(x) = Range(q)
  <2>1. \A k \in 1 .. n : \E m \in 1 .. n : x[k] = q[m]
    BY <1>3, <1>4, <1>7
  <2>2. \A m \in 1 .. n : \E k \in 1 .. n : x[k] = q[m]
    BY <1>3, <1>4, <1>7
  <2> QED BY <2>1, <2>2, <1>1, <1>5
<1> QED BY <1>4, <1>6, <1>8, <1>9

-----------------------------------------------------------------------------
(* Types, and the queue without repetitions: each needs the other, since   *)
(* removing the first occurrence removes an id only if it occurs once.     *)

(* Only accepted prompts are in the queue, in a hand, or between updates.  *)
Known == /\ Queued \subseteq used
         /\ \A u \in Users : limbo[u] # Nothing => limbo[u] \in used
         /\ \A w \in Workers : hand[w] # Nothing => hand[w].id \in used

Shape == TypeOK /\ QueuedOnce /\ Known

(* The queue that clear leaves.                                            *)
LEMMA EmptyQueue ==
    <<>> \in Seq(Ids) /\ IsInjective(<<>>) /\ Range(<<>>) = {}
<1>1. <<>> \in Seq(Ids) /\ DOMAIN <<>> = {}
  OBVIOUS
<1> QED BY <1>1 DEF IsInjective, Range

(* clearPromptLease and clearExpiredQueueLeases keep an item an item.      *)
LEMMA UnleasedType ==
    ASSUME NEW it \in Item
    PROVE  Unleased(it) \in Item /\ ClearExpired(it) \in Item
BY DEF Unleased, ClearExpired, Item

(* So do the other updates of stored fields.                               *)
LEMMA ItemUpdates ==
    ASSUME NEW it \in Item
    PROVE  /\ [it EXCEPT !.due = TRUE] \in Item
           /\ \A b \in BOOLEAN : [it EXCEPT !.live = b] \in Item
           /\ [it EXCEPT !.status = "queued", !.live = FALSE] \in Item
           /\ \A t \in Tokens :
                [it EXCEPT !.status = "running", !.token = t, !.live = TRUE] \in Item
BY DEF Item

(* Putting an item back changes nothing but the mark on the copy.          *)
LEMMA HandUpdates ==
    ASSUME NEW h \in Hand
    PROVE  /\ [h EXCEPT !.requeued = TRUE] \in Hand
           /\ [h EXCEPT !.requeued = TRUE].id = h.id
           /\ [h EXCEPT !.requeued = TRUE].token = h.token
BY DEF Hand

(* What leaseNext writes under each id: its token is the old one, none, or *)
(* the new one.                                                            *)
LEMMA LeasedTokens ==
    ASSUME NEW it \in Item, NEW t \in Tokens
    PROVE  /\ ClearExpired(it).token \in {it.token, NoToken}
           /\ [it EXCEPT !.status = "running", !.token = t, !.live = TRUE].token = t
<1>1. Unleased(it).token = NoToken
  BY DEF Unleased, Item
<1>2. ClearExpired(it) \in {it, Unleased(it)}
  BY DEF ClearExpired
<1>3. [it EXCEPT !.status = "running", !.token = t, !.live = TRUE].token = t
  BY DEF Item
<1> QED BY <1>1, <1>2, <1>3

(* A store without prompts has the shape.                                  *)
LEMMA ShapeInit == Init => Shape
<1> SUFFICES ASSUME Init PROVE Shape
  OBVIOUS
<1>1. queue \in Seq(Ids) /\ IsInjective(queue) /\ Queued = {}
  BY EmptyQueue DEF Init, Queued
<1>2. item \in [Ids -> Item]
  BY DEF Init, Item
<1> QED BY <1>1, <1>2 DEF Init, Shape, TypeOK, QueuedOnce, Known

(* The new queue of each kind of step.                                     *)
LEMMA ShapeQueue ==
    ASSUME Shape
    PROVE  /\ Queued \subseteq Ids
           /\ \A id : /\ Without(queue, id) \in Seq(Ids)
                      /\ IsInjective(Without(queue, id))
                      /\ Range(Without(queue, id)) = Queued \ {id}
           /\ \A id \in Ids : /\ ToFront(queue, id) \in Seq(Ids)
                              /\ IsInjective(ToFront(queue, id))
                              /\ Range(ToFront(queue, id)) = Queued \cup {id}
           /\ \A id \in Ids \ Queued : /\ Append(queue, id) \in Seq(Ids)
                                       /\ IsInjective(Append(queue, id))
                                       /\ Range(Append(queue, id)) = Queued \cup {id}
           /\ \A i, j \in 1 .. Len(queue) : /\ Exchange(i, j) \in Seq(Ids)
                                            /\ IsInjective(Exchange(i, j))
                                            /\ Range(Exchange(i, j)) = Queued
           /\ DOMAIN queue = 1 .. Len(queue) /\ Len(queue) \in Nat
           /\ \A i \in DOMAIN queue : queue[i] \in Ids /\ queue[i] \in Queued
<1>1. queue \in Seq(Ids) /\ IsInjective(queue)
  BY DEF Shape, TypeOK, QueuedOnce
<1>2. Queued \subseteq Ids
  BY <1>1, RangeOfSeq DEF Queued
<1>3. DOMAIN queue = 1 .. Len(queue) /\ Len(queue) \in Nat
  BY <1>1, LenProperties
<1>4. \A i \in DOMAIN queue : queue[i] \in Queued
  BY <1>1, <1>3, RangeEquality DEF Queued
<1>5. \A i, j \in 1 .. Len(queue) : /\ Exchange(i, j) \in Seq(Ids)
                                    /\ IsInjective(Exchange(i, j))
                                    /\ Range(Exchange(i, j)) = Queued
  BY <1>1, ExchangeProps DEF Exchange, Queued
<1> QED BY <1>1, <1>2, <1>3, <1>4, <1>5, WithoutProps, ToFrontProps, AppendProps DEF Queued

(* Every operation keeps it.                                               *)
LEMMA ShapeStep == Shape /\ [Next]_vars => Shape'
<1> SUFFICES ASSUME Shape, [Next]_vars PROVE Shape'
  OBVIOUS
<1>0. /\ queue \in Seq(Ids) /\ IsInjective(queue)
      /\ item \in [Ids -> Item]
      /\ used \subseteq Ids /\ issued \subseteq Tokens
      /\ hand \in [Workers -> Hand \cup {Nothing}]
      /\ limbo \in [Users -> Ids \cup {Nothing}]
      /\ done \subseteq Ids /\ removed \subseteq Ids /\ lost \subseteq Ids
      /\ expired \subseteq Ids /\ pulled \subseteq Ids
      /\ Queued \subseteq used
      /\ \A u \in Users : limbo[u] # Nothing => limbo[u] \in used
      /\ \A w \in Workers : hand[w] # Nothing => hand[w].id \in used
  BY DEF Shape, TypeOK, QueuedOnce, Known
(* A step that changes the queue and the items in a typed way and the rest *)
(* not at all, or as listed, keeps the shape.                              *)
<1>a. ASSUME queue' \in Seq(Ids), IsInjective(queue'), item' \in [Ids -> Item],
             Range(queue') \subseteq used', used' \subseteq Ids, used \subseteq used',
             issued' \subseteq Tokens,
             hand' \in [Workers -> Hand \cup {Nothing}],
             \A w \in Workers : hand'[w] # Nothing => hand'[w].id \in used',
             limbo' \in [Users -> Ids \cup {Nothing}],
             \A u \in Users : limbo'[u] # Nothing => limbo'[u] \in used',
             done' \subseteq Ids, removed' \subseteq Ids, lost' \subseteq Ids,
             expired' \subseteq Ids, pulled' \subseteq Ids
      PROVE  Shape'
  BY <1>a DEF Shape, TypeOK, QueuedOnce, Known, Queued
<1>1. ASSUME NEW key \in Keys \cup {NoKey}, NEW due \in BOOLEAN, Enqueue(key, due)
      PROVE  Shape'
  <2>1. PICK id \in Ids \ used :
          /\ queue' = Append(queue, id)
          /\ item' = [item EXCEPT ![id] = [status |-> "queued", key |-> key,
                          token |-> NoToken, live |-> FALSE, due |-> due]]
          /\ used' = used \cup {id}
    BY <1>1 DEF Enqueue
  <2>2. /\ queue' \in Seq(Ids) /\ IsInjective(queue')
        /\ Range(queue') = Queued \cup {id}
    BY <1>0, <2>1, ShapeQueue
  <2>3. item' \in [Ids -> Item]
    BY <1>0, <2>1 DEF Item
  <2> QED BY <1>0, <1>1, <1>a, <2>1, <2>2, <2>3 DEF Enqueue, history
<1>2. ASSUME NEW id \in Ids, BecomesDue(id) \/ LeaseExpires(id)
      PROVE  Shape'
  <2>1. item' \in [Ids -> Item]
    <3>1. item[id] \in Item
      BY <1>0
    <3>2. CASE item' = [item EXCEPT ![id] = [item[id] EXCEPT !.due = TRUE]]
      BY <1>0, <3>1, <3>2, ItemUpdates
    <3>3. CASE item' = [item EXCEPT ![id] = [item[id] EXCEPT !.live = FALSE]]
      BY <1>0, <3>1, <3>3, ItemUpdates
    <3> QED BY <1>2, <3>2, <3>3 DEF BecomesDue, LeaseExpires
  <2> QED BY <1>0, <1>2, <1>a, <2>1 DEF BecomesDue, LeaseExpires, history, Queued
<1>3. ASSUME NEW W \in SUBSET Workers, NEW U \in SUBSET Users, Crash(W, U)
      PROVE  Shape'
  <2>1. Unstored(W, U) \subseteq Ids
    BY <1>0 DEF Unstored, Hand
  <2> QED BY <1>0, <1>3, <1>a, <2>1 DEF Crash, store, Queued
<1>4. ASSUME NEW w \in Workers, LeaseNext(w)
      PROVE  Shape'
  <2>1. PICK i \in DOMAIN queue, t \in Tokens \ issued :
          /\ queue' = ToFront(queue, queue[i])
          /\ item' = [id \in Ids |->
                      IF id = queue[i]
                      THEN [item[id] EXCEPT !.status = "running", !.token = t, !.live = TRUE]
                      ELSE ClearExpired(item[id])]
          /\ issued' = issued \cup {t}
          /\ hand' = [hand EXCEPT ![w] = [id |-> queue[i], token |-> t, requeued |-> FALSE]]
    BY <1>4 DEF LeaseNext
  <2>2. queue[i] \in Ids /\ queue[i] \in Queued
    BY ShapeQueue
  <2>3. /\ queue' \in Seq(Ids) /\ IsInjective(queue')
        /\ Range(queue') = Queued \cup {queue[i]}
    BY <2>1, <2>2, ShapeQueue
  <2>4. item' \in [Ids -> Item]
    <3>1. \A id \in Ids : item[id] \in Item
      BY <1>0
    <3>2. ASSUME NEW id \in Ids
          PROVE  /\ [item[id] EXCEPT !.status = "running", !.token = t, !.live = TRUE] \in Item
                 /\ ClearExpired(item[id]) \in Item
      BY <3>1, UnleasedType, ItemUpdates
    <3>3. item' = [id \in Ids |->
                   IF id = queue[i]
                   THEN [item[id] EXCEPT !.status = "running", !.token = t, !.live = TRUE]
                   ELSE ClearExpired(item[id])]
      BY <2>1
    <3> QED BY <3>2, <3>3
  <2>5. hand' \in [Workers -> Hand \cup {Nothing}]
    BY <1>0, <2>1, <2>2 DEF Hand
  <2>6. UNCHANGED <<used, limbo, history>> /\ issued' \subseteq Tokens
    BY <1>0, <1>4, <2>1 DEF LeaseNext
  <2> QED BY Zenon, <1>0, <1>a, <2>2, <2>3, <2>4, <2>5, <2>6, <2>1 DEF history
<1>5. ASSUME NEW w \in Workers, RenewLease(w)
      PROVE  Shape'
  <2>1. item' \in [Ids -> Item]
    <3>1. item' = [item EXCEPT ![hand[w].id].live = TRUE]
      BY <1>5 DEF RenewLease
    <3>2. item \in [Ids -> Item]
      BY <1>0
    <3>3. \A id \in Ids : [item[id] EXCEPT !.live = TRUE] \in Item
      BY <3>2, ItemUpdates
    <3> QED BY <3>1, <3>2, <3>3
  <2> QED BY <1>0, <1>5, <1>a, <2>1 DEF RenewLease, history, Queued
<1>6. ASSUME NEW w \in Workers, CompleteLease(w)
      PROVE  Shape'
  <2>1. hand[w] \in Hand /\ hand[w].id \in Ids
    BY <1>0, <1>6 DEF CompleteLease, Hand
  <2>2. queue' \in Seq(Ids) /\ IsInjective(queue') /\ Range(queue') \subseteq Queued
    BY <1>0, <1>6, <2>1, ShapeQueue DEF CompleteLease, Queued
  <2>3. item' \in [Ids -> Item]
    BY <1>0, <1>6, <2>1, UnleasedType DEF CompleteLease
  <2> QED BY <1>0, <1>6, <1>a, <2>1, <2>2, <2>3 DEF CompleteLease
<1>7. ASSUME NEW w \in Workers, FailLease(w)
      PROVE  Shape'
  <2>1. hand[w] \in Hand /\ hand[w].id \in Ids
    BY <1>0, <1>7 DEF FailLease, Hand
  <2>2. queue' \in Seq(Ids) /\ IsInjective(queue') /\ Range(queue') \subseteq Queued
    BY <1>0, <1>7, <2>1, ShapeQueue DEF FailLease, Current, Queued
  <2>3. item' \in [Ids -> Item]
    BY <1>0, <1>7, <2>1 DEF FailLease, Item
  <2> QED BY <1>0, <1>7, <1>a, <2>1, <2>2, <2>3 DEF FailLease, history
<1>8. ASSUME NEW w \in Workers, Requeue(w)
      PROVE  Shape'
  <2>1. hand[w] \in Hand /\ hand[w].id \in Ids /\ hand[w].id \in used
    BY <1>0, <1>8 DEF Requeue, Hand
  <2>2. /\ queue' \in Seq(Ids) /\ IsInjective(queue')
        /\ Range(queue') = Queued \cup {hand[w].id}
    BY <1>8, <2>1, ShapeQueue DEF Requeue
  <2>3. item' \in [Ids -> Item]
    BY <1>0, <1>8, <2>1, UnleasedType DEF Requeue
  <2>4. /\ hand' \in [Workers -> Hand \cup {Nothing}]
        /\ \A v \in Workers : hand'[v] # Nothing => hand'[v].id \in used
    BY <1>0, <1>8, <2>1 DEF Requeue, Hand
  <2>5. pulled' \subseteq Ids
    BY <1>0, <1>8, <2>1 DEF Requeue, InExecution
  <2> QED BY <1>0, <1>8, <1>a, <2>1, <2>2, <2>3, <2>4, <2>5 DEF Requeue
<1>9. ASSUME NEW w \in Workers, NEW id \in Queued, TakeUnleased(w, id)
      PROVE  Shape'
  <2>1. id \in Ids /\ id \in used
    BY <1>0
  <2>2. /\ queue' \in Seq(Ids) /\ IsInjective(queue')
        /\ Range(queue') \subseteq Queued
    BY <1>9, <2>1, ShapeQueue DEF TakeUnleased
  <2>3. item' \in [Ids -> Item]
    BY <1>0, <1>9, <2>1, UnleasedType DEF TakeUnleased
  <2>4. /\ hand' \in [Workers -> Hand \cup {Nothing}]
        /\ \A v \in Workers : hand'[v] # Nothing => hand'[v].id \in used
    BY <1>0, <1>9, <2>1 DEF TakeUnleased, Hand
  <2>5. pulled' \subseteq Ids
    BY <1>0, <1>9, <2>1 DEF TakeUnleased, InExecution
  <2> QED BY <1>0, <1>9, <1>a, <2>1, <2>2, <2>3, <2>4, <2>5 DEF TakeUnleased
<1>10. ASSUME NEW id \in Ids, Cancel(id)
       PROVE  Shape'
  <2>1. /\ queue' \in Seq(Ids) /\ IsInjective(queue')
        /\ Range(queue') \subseteq Queued
    BY <1>10, ShapeQueue DEF Cancel
  <2>2. item' \in [Ids -> Item]
    BY <1>0, <1>10, UnleasedType DEF Cancel
  <2> QED BY <1>0, <1>10, <1>a, <2>1, <2>2 DEF Cancel
<1>11. ASSUME ClearQueue
       PROVE  Shape'
  <2>1. queue' \in Seq(Ids) /\ IsInjective(queue') /\ Range(queue') = {}
    BY <1>11, EmptyQueue DEF ClearQueue
  <2>2. item' \in [Ids -> Item]
    BY <1>0, <1>11, UnleasedType DEF ClearQueue
  <2> QED BY <1>0, <1>11, <1>a, <2>1, <2>2 DEF ClearQueue
<1>12. ASSUME NEW id \in Ids, MoveToTop(id) \/ MoveUp(id) \/ MoveDown(id)
       PROVE  Shape'
  <2>1. queue' \in Seq(Ids) /\ IsInjective(queue') /\ Range(queue') = Queued
    <3>1. CASE MoveToTop(id)
      <4>1. id \in Queued /\ queue' = ToFront(queue, id)
        BY <3>1 DEF MoveToTop, Reorder
      <4>2. Queued \cup {id} = Queued
        BY <4>1
      <4> QED BY <4>1, <4>2, ShapeQueue
    <3>2. CASE MoveUp(id)
      <4>1. PICK i \in 2 .. Len(queue) : queue' = Exchange(i - 1, i)
        BY <3>2 DEF MoveUp, Reorder
      <4>2. i - 1 \in 1 .. Len(queue) /\ i \in 1 .. Len(queue)
        BY <1>0, <4>1, LenProperties
      <4> QED BY <4>1, <4>2, ShapeQueue
    <3>3. CASE MoveDown(id)
      <4>1. PICK i \in 1 .. Len(queue) - 1 : queue' = Exchange(i, i + 1)
        BY <3>3 DEF MoveDown, Reorder
      <4>2. i \in 1 .. Len(queue) /\ i + 1 \in 1 .. Len(queue)
        BY <1>0, <4>1, LenProperties
      <4> QED BY <4>1, <4>2, ShapeQueue
    <3> QED BY <1>12, <3>1, <3>2, <3>3
  <2>2. UNCHANGED <<item, used, issued, hand, limbo, history>>
    BY <1>12 DEF MoveToTop, MoveUp, MoveDown, Reorder
  <2> QED BY <1>0, <1>a, <2>1, <2>2 DEF history
<1>13. ASSUME NEW u \in Users, NEW id \in Ids, RunNowRemove(u, id)
       PROVE  Shape'
  <2>1. /\ queue' \in Seq(Ids) /\ IsInjective(queue')
        /\ Range(queue') \subseteq Queued /\ id \in used
    BY <1>0, <1>13, ShapeQueue DEF RunNowRemove
  <2>2. item' \in [Ids -> Item]
    BY <1>0, <1>13, UnleasedType DEF RunNowRemove
  <2> QED BY <1>0, <1>13, <1>a, <2>1, <2>2 DEF RunNowRemove
<1>14. ASSUME NEW u \in Users, RunNowFront(u)
       PROVE  Shape'
  <2>1. limbo[u] \in Ids /\ limbo[u] \in used
    BY <1>0, <1>14 DEF RunNowFront
  <2>2. /\ queue' \in Seq(Ids) /\ IsInjective(queue')
        /\ Range(queue') = Queued \cup {limbo[u]}
    BY <1>14, <2>1, ShapeQueue DEF RunNowFront
  <2>3. item' \in [Ids -> Item]
    BY <1>0, <1>14, <2>1, UnleasedType DEF RunNowFront
  <2> QED BY <1>0, <1>14, <1>a, <2>1, <2>2, <2>3 DEF RunNowFront, history
<1>15. CASE UNCHANGED vars
  BY <1>15 DEF vars, store, history, Shape, TypeOK, QueuedOnce, Known, Queued
<1>16. ASSUME NEW w \in Workers, Dequeue(w) PROVE Shape'
  BY <1>9, <1>16, ShapeQueue DEF Dequeue
<1>17. ASSUME NEW w \in Workers, NEW id \in Ids, RunTaken(w, id) PROVE Shape'
  BY <1>9, <1>17 DEF RunTaken
<1> QED
  BY <1>1, <1>2, <1>3, <1>4, <1>5, <1>6, <1>7, <1>8, <1>10, <1>11, <1>12, <1>13, <1>14,
     <1>15, <1>16, <1>17
  DEF Next, Environment, Dies, Editing, Worker, User

(* Shape is an invariant.                                                  *)
LEMMA ShapeHolds == Spec => []Shape
<1> QED BY ShapeInit, ShapeStep, PTL DEF Spec

(* The stored queue, the stored fields and every copy outside the store    *)
(* have their types, whatever order the operations of prompt-store.ts come *)
(* in.                                                                     *)
THEOREM TypeCorrect == Spec => []TypeOK
<1>1. Shape => TypeOK
  BY DEF Shape
<1> QED BY <1>1, ShapeHolds, PTL

(* No prompt is ever in the queue twice: no mixture of "run", requeue,     *)
(* failLease, leaseNext and moves leaves a second copy behind.             *)
THEOREM QueuedOnceHolds == Spec => []QueuedOnce
<1>1. Shape => QueuedOnce
  BY DEF Shape
<1> QED BY <1>1, ShapeHolds, PTL

(* What each operation does to the set of queued prompts.                  *)
LEMMA QueuedNext ==
    ASSUME Shape
    PROVE  /\ \A key, due : Enqueue(key, due) =>
                \E id \in Ids \ used :
                    /\ Queued' = Queued \cup {id} /\ used' = used \cup {id}
                    /\ item' = [item EXCEPT ![id] = [status |-> "queued", key |-> key,
                                    token |-> NoToken, live |-> FALSE, due |-> due]]
           /\ \A w \in Workers :
                /\ LeaseNext(w) => Queued' = Queued
                /\ CompleteLease(w) => Queued' = IF Current(hand[w]) THEN Queued \ {hand[w].id}
                                                                     ELSE Queued
                /\ FailLease(w) => Queued' = Queued
                /\ Requeue(w) => Queued' = Queued \cup {hand[w].id}
                /\ \A id : TakeUnleased(w, id) => Queued' = Queued \ {id}
           /\ \A u \in Users :
                /\ \A id : RunNowRemove(u, id) => Queued' = Queued \ {id}
                /\ RunNowFront(u) => Queued' = Queued \cup {limbo[u]}
           /\ \A id \in Ids : /\ Cancel(id) => Queued' = Queued \ {id}
                              /\ MoveToTop(id) \/ MoveUp(id) \/ MoveDown(id) => Queued' = Queued
           /\ ClearQueue => Queued' = {}
<1>0. /\ hand \in [Workers -> Hand \cup {Nothing}]
      /\ limbo \in [Users -> Ids \cup {Nothing}]
      /\ queue \in Seq(Ids) /\ Queued \subseteq used
  BY DEF Shape, TypeOK, Known
<1>1. ASSUME NEW key, NEW due, Enqueue(key, due)
      PROVE  \E id \in Ids \ used :
                /\ Queued' = Queued \cup {id} /\ used' = used \cup {id}
                /\ item' = [item EXCEPT ![id] = [status |-> "queued", key |-> key,
                                token |-> NoToken, live |-> FALSE, due |-> due]]
  <2>1. PICK id \in Ids \ used :
          /\ queue' = Append(queue, id) /\ used' = used \cup {id}
          /\ item' = [item EXCEPT ![id] = [status |-> "queued", key |-> key,
                          token |-> NoToken, live |-> FALSE, due |-> due]]
    BY <1>1 DEF Enqueue
  <2>2. Queued' = Queued \cup {id}
    BY <1>0, <2>1, ShapeQueue DEF Queued
  <2> QED BY <2>1, <2>2
<1>2. ASSUME NEW w \in Workers, LeaseNext(w) PROVE Queued' = Queued
  <2>1. PICK i \in DOMAIN queue : queue' = ToFront(queue, queue[i])
    BY <1>2 DEF LeaseNext
  <2>2. queue[i] \in Ids /\ queue[i] \in Queued
    BY ShapeQueue
  <2>3. Range(queue') = Queued \cup {queue[i]}
    BY <2>1, <2>2, ShapeQueue
  <2>4. Range(queue') = Queued
    BY <2>2, <2>3
  <2> QED BY <2>4 DEF Queued
<1>3. ASSUME NEW w \in Workers, CompleteLease(w)
      PROVE  Queued' = IF Current(hand[w]) THEN Queued \ {hand[w].id} ELSE Queued
  BY <1>3, ShapeQueue DEF CompleteLease, Queued
<1>4. ASSUME NEW w \in Workers, FailLease(w) PROVE Queued' = Queued
  <2>1. hand[w].id \in Ids
    BY <1>0, <1>4 DEF FailLease, Hand
  <2>2. CASE Current(hand[w])
    <3>1. hand[w].id \in Queued /\ queue' = ToFront(queue, hand[w].id)
      BY <1>4, <2>2 DEF FailLease, Current
    <3>2. Range(queue') = Queued \cup {hand[w].id}
      BY <2>1, <3>1, ShapeQueue
    <3>3. Range(queue') = Queued
      BY <3>1, <3>2
    <3> QED BY <3>3 DEF Queued
  <2>3. CASE ~Current(hand[w])
    BY <1>4, <2>3 DEF FailLease, Queued
  <2> QED BY <2>2, <2>3
<1>5. ASSUME NEW w \in Workers, Requeue(w) PROVE Queued' = Queued \cup {hand[w].id}
  <2>1. hand[w].id \in Ids
    BY <1>0, <1>5 DEF Requeue, Hand
  <2> QED BY <1>5, <2>1, ShapeQueue DEF Requeue, Queued
<1>6. ASSUME NEW w \in Workers, NEW id, TakeUnleased(w, id) PROVE Queued' = Queued \ {id}
  BY <1>6, ShapeQueue DEF TakeUnleased, Queued
<1>7. ASSUME NEW u \in Users, NEW id, RunNowRemove(u, id) PROVE Queued' = Queued \ {id}
  BY <1>7, ShapeQueue DEF RunNowRemove, Queued
<1>8. ASSUME NEW u \in Users, RunNowFront(u) PROVE Queued' = Queued \cup {limbo[u]}
  <2>1. limbo[u] \in Ids
    BY <1>0, <1>8 DEF RunNowFront
  <2> QED BY <1>8, <2>1, ShapeQueue DEF RunNowFront, Queued
<1>9. ASSUME NEW id \in Ids, Cancel(id) PROVE Queued' = Queued \ {id}
  BY <1>9, ShapeQueue DEF Cancel, Queued
<1>10. ASSUME NEW id \in Ids, MoveToTop(id) \/ MoveUp(id) \/ MoveDown(id)
       PROVE  Queued' = Queued
  <2>1. CASE MoveToTop(id)
    <3>1. id \in Queued /\ queue' = ToFront(queue, id)
      BY <2>1 DEF MoveToTop, Reorder
    <3>2. Range(queue') = Queued \cup {id}
      BY <3>1, ShapeQueue
    <3> QED BY <3>1, <3>2 DEF Queued
  <2>2. CASE MoveUp(id)
    <3>1. PICK i \in 2 .. Len(queue) : queue' = Exchange(i - 1, i)
      BY <2>2 DEF MoveUp, Reorder
    <3>2. i - 1 \in 1 .. Len(queue) /\ i \in 1 .. Len(queue)
      BY <1>0, <3>1, LenProperties
    <3>3. Range(queue') = Queued
      BY <3>1, <3>2, ShapeQueue
    <3> QED BY <3>3 DEF Queued
  <2>3. CASE MoveDown(id)
    <3>1. PICK i \in 1 .. Len(queue) - 1 : queue' = Exchange(i, i + 1)
      BY <2>3 DEF MoveDown, Reorder
    <3>2. i \in 1 .. Len(queue) /\ i + 1 \in 1 .. Len(queue)
      BY <1>0, <3>1, LenProperties
    <3>3. Range(queue') = Queued
      BY <3>1, <3>2, ShapeQueue
    <3> QED BY <3>3 DEF Queued
  <2> QED BY <1>10, <2>1, <2>2, <2>3
<1>11. ASSUME ClearQueue PROVE Queued' = {}
  BY <1>11, EmptyQueue DEF ClearQueue, Queued
<1> QED BY <1>1, <1>2, <1>3, <1>4, <1>5, <1>6, <1>7, <1>8, <1>9, <1>10, <1>11

-----------------------------------------------------------------------------
(* The inductive invariant about leases.                                   *)

(* A worker's lease id was issued, so a new one is different ...           *)
HandIssued ==
    \A w \in Workers : hand[w] # Nothing => hand[w].token \in issued \cup {NoToken}

(* ... and no two workers ever hold copies with the same lease id.         *)
HandsDiffer ==
    \A v, w \in Workers :
        v # w /\ hand[v] # Nothing /\ hand[w] # Nothing /\ hand[v].token # NoToken
        => hand[v].token # hand[w].token

(* A copy that was put back does not match the store any more: a           *)
(* completeLease with it removes nothing.                                  *)
RequeuedStale ==
    \A w \in Workers : hand[w] # Nothing /\ hand[w].requeued => ~Matches(hand[w])

LeaseInv == Shape /\ HandIssued /\ HandsDiffer /\ RequeuedStale

(* As long as no lease of it ran out and nobody took it away, an executed  *)
(* prompt is leased to its worker, or is nowhere in the store;             *)
ExecutedGuarded ==
    \A w \in Workers, id \in Ids :
        Executes(w, id) /\ id \notin expired \cup pulled
        => IF hand[w].token = NoToken
           THEN id \notin Queued /\ \A u \in Users : limbo[u] # id
           ELSE HoldsLease(w)

(* and a prompt between the two updates of "run" is nowhere else.          *)
LimboAlone ==
    \A u \in Users, id \in Ids :
        limbo[u] = id /\ id \notin expired \cup pulled
        => /\ id \notin Queued
           /\ \A w \in Workers : ~Executes(w, id)
           /\ \A x \in Users : x # u => limbo[x] # id

ExecutionInv == LeaseInv /\ ExecutedGuarded /\ LimboAlone /\ OneExecution

(* In the initial state nobody holds a copy.                               *)
LEMMA LeaseInit == Init => LeaseInv
<1> SUFFICES ASSUME Init PROVE LeaseInv
  OBVIOUS
<1> QED BY ShapeInit DEF LeaseInv, HandIssued, HandsDiffer, RequeuedStale, Init

(* Every operation keeps it: only leaseNext writes a lease id, and a new   *)
(* one.                                                                    *)
LEMMA LeaseStep == LeaseInv /\ [Next]_vars => LeaseInv'
<1> SUFFICES ASSUME LeaseInv, [Next]_vars PROVE LeaseInv'
  OBVIOUS
<1>0. Shape'
  BY ShapeStep DEF LeaseInv
<1>t. /\ item \in [Ids -> Item] /\ issued \subseteq Tokens
      /\ hand \in [Workers -> Hand \cup {Nothing}]
      /\ limbo \in [Users -> Ids \cup {Nothing}]
      /\ Nothing \notin Hand /\ NoToken \notin Tokens
      /\ Queued \subseteq used /\ used \subseteq Ids
      /\ \A w \in Workers : hand[w] # Nothing =>
            /\ hand[w] \in Hand /\ hand[w].id \in used
            /\ hand[w].token \in issued \cup {NoToken}
  BY QueueAssumption DEF LeaseInv, Shape, TypeOK, Known, Hand, HandIssued
<1>i. HandIssued /\ HandsDiffer /\ RequeuedStale
  BY DEF LeaseInv
(* No operation but leaseNext writes a lease id into the store.            *)
<1>a. ASSUME \A id \in Ids : item'[id].token \in {item[id].token, NoToken},
             issued' = issued,
             \A w \in Workers : \/ hand'[w] = Nothing
                                \/ hand'[w] = hand[w]
                                \/ hand'[w].token = NoToken
      PROVE  LeaseInv'
  <2>1. HandIssued'
    BY <1>a, <1>t DEF HandIssued
  <2>2. HandsDiffer'
    BY <1>a, <1>t, <1>i DEF HandsDiffer
  <2>3. RequeuedStale'
    BY <1>a, <1>t, <1>i DEF RequeuedStale, Matches, Hand
  <2> QED BY <1>0, <2>1, <2>2, <2>3 DEF LeaseInv
<1>u. \A it : Unleased(it) = [it EXCEPT !.status = "queued", !.token = NoToken, !.live = FALSE]
  BY DEF Unleased
<1>1. ASSUME NEW key \in Keys \cup {NoKey}, NEW due \in BOOLEAN, Enqueue(key, due)
      PROVE  LeaseInv'
  <2>1. /\ UNCHANGED <<issued, hand>>
        /\ \A id \in Ids : item'[id].token \in {item[id].token, NoToken}
    BY <1>1, <1>t DEF Enqueue
  <2> QED BY <1>a, <2>1
<1>2. ASSUME NEW id \in Ids, BecomesDue(id) \/ LeaseExpires(id)
      PROVE  LeaseInv'
  <2>1. /\ UNCHANGED <<issued, hand>>
        /\ \A x \in Ids : item'[x].token = item[x].token
    BY <1>2, <1>t DEF BecomesDue, LeaseExpires, Item
  <2> QED BY <1>a, <2>1
<1>3. ASSUME NEW W \in SUBSET Workers, NEW U \in SUBSET Users, Crash(W, U)
      PROVE  LeaseInv'
  BY <1>3, <1>a, <1>t DEF Crash, store
<1>4. ASSUME NEW w \in Workers, LeaseNext(w)
      PROVE  LeaseInv'
  <2>1. PICK i \in DOMAIN queue, t \in Tokens \ issued :
          /\ item' = [id \in Ids |->
                      IF id = queue[i]
                      THEN [item[id] EXCEPT !.status = "running", !.token = t, !.live = TRUE]
                      ELSE ClearExpired(item[id])]
          /\ issued' = issued \cup {t}
          /\ hand' = [hand EXCEPT ![w] = [id |-> queue[i], token |-> t, requeued |-> FALSE]]
    BY <1>4 DEF LeaseNext
  <2>2. /\ hand'[w] = [id |-> queue[i], token |-> t, requeued |-> FALSE]
        /\ \A v \in Workers : v # w => hand'[v] = hand[v]
    BY <2>1, <1>t
  <2>3. t # NoToken
    BY <1>t
  <2>4. HandIssued'
    BY <2>1, <2>2, <1>t DEF HandIssued
  <2>5. HandsDiffer'
    BY <2>2, <2>3, <1>t, <1>i DEF HandsDiffer
  <2>6. \A id \in Ids : item'[id].token \in {item[id].token, NoToken, t}
    <3> SUFFICES ASSUME NEW id \in Ids
                 PROVE  item'[id].token \in {item[id].token, NoToken, t}
      OBVIOUS
    <3>1. item[id] \in Item /\ t \in Tokens
      BY <1>t
    <3>2. item'[id] = IF id = queue[i]
                      THEN [item[id] EXCEPT !.status = "running", !.token = t, !.live = TRUE]
                      ELSE ClearExpired(item[id])
      BY <2>1
    <3>3. CASE id = queue[i]
      BY <3>1, <3>2, <3>3, LeasedTokens
    <3>4. CASE id # queue[i]
      BY <3>1, <3>2, <3>4, LeasedTokens
    <3> QED BY <3>3, <3>4
  <2>7. RequeuedStale'
    <3> SUFFICES ASSUME NEW v \in Workers, hand'[v] # Nothing, hand'[v].requeued
                 PROVE  ~Matches(hand[v])'
      BY DEF RequeuedStale
    <3>1. v # w /\ hand'[v] = hand[v]
      BY <2>2
    <3>2. hand[v].token # t /\ hand[v].id \in Ids
      BY <3>1, <1>t
    <3>3. ~Matches(hand[v])
      BY <3>1, <1>i DEF RequeuedStale
    <3> QED BY <3>1, <3>2, <3>3, <2>6 DEF Matches
  <2> QED BY <1>0, <2>4, <2>5, <2>7 DEF LeaseInv
<1>5. ASSUME NEW w \in Workers, RenewLease(w)
      PROVE  LeaseInv'
  <2>1. /\ UNCHANGED <<issued, hand>>
        /\ \A x \in Ids : item'[x].token = item[x].token
    BY <1>5, <1>t DEF RenewLease, Item
  <2> QED BY <1>a, <2>1
<1>6. ASSUME NEW w \in Workers, CompleteLease(w)
      PROVE  LeaseInv'
  <2>1. \A x \in Ids : item'[x].token \in {item[x].token, NoToken}
    <3>1. \/ item' = item
          \/ item' = [item EXCEPT ![hand[w].id] = Unleased(item[hand[w].id])]
      BY <1>6 DEF CompleteLease
    <3>2. hand[w].id \in Ids /\ item[hand[w].id] \in Item
      BY <1>6, <1>t DEF CompleteLease
    <3>3. Unleased(item[hand[w].id]).token = NoToken
      BY <3>2 DEF Unleased, Item
    <3> QED BY <3>1, <3>2, <3>3, <1>t
  <2>2. issued' = issued /\ hand' = [hand EXCEPT ![w] = Nothing]
    BY <1>6 DEF CompleteLease
  <2> QED BY <1>a, <1>t, <2>1, <2>2
<1>7. ASSUME NEW w \in Workers, FailLease(w)
      PROVE  LeaseInv'
  <2>1. \A x \in Ids : item'[x].token = item[x].token
    BY <1>7, <1>t DEF FailLease, Item
  <2>2. issued' = issued /\ hand' = [hand EXCEPT ![w] = Nothing]
    BY <1>7 DEF FailLease
  <2> QED BY <1>a, <1>t, <2>1, <2>2
<1>8. ASSUME NEW w \in Workers, Requeue(w)
      PROVE  LeaseInv'
  <2>1. /\ hand[w] \in Hand /\ hand[w].id \in Ids /\ issued' = issued
        /\ item' = [item EXCEPT ![hand[w].id] = Unleased(item[hand[w].id])]
        /\ hand' = [hand EXCEPT ![w].requeued = TRUE]
    BY <1>8, <1>t DEF Requeue, Hand
  <2>2. /\ item'[hand[w].id].token = NoToken
        /\ \A x \in Ids : item'[x].token \in {item[x].token, NoToken}
    BY <2>1, <1>t DEF Unleased, Item
  <2>3. /\ hand'[w] = [hand[w] EXCEPT !.requeued = TRUE]
        /\ \A v \in Workers : v # w => hand'[v] = hand[v]
    BY <2>1, <1>t
  <2>4. hand'[w] \in Hand /\ hand'[w].id = hand[w].id /\ hand'[w].token = hand[w].token
    <3>1. hand[w] \in Hand
      BY <2>1
    <3>2. hand'[w] = [hand[w] EXCEPT !.requeued = TRUE]
      BY <2>3
    <3> QED BY <3>1, <3>2, HandUpdates
  <2>5. hand[w] # Nothing
    BY <1>8 DEF Requeue
  <2>6. HandIssued'
    BY <2>1, <2>3, <2>4, <2>5, <1>i DEF HandIssued
  <2>7. HandsDiffer'
    <3>1. \A v \in Workers : /\ hand'[v] # Nothing => hand[v] # Nothing
                            /\ hand'[v].token = hand[v].token
      BY <2>3, <2>4, <2>5
    <3> QED BY <3>1, <1>i DEF HandsDiffer
  <2>8. RequeuedStale'
    <3> SUFFICES ASSUME NEW v \in Workers, hand'[v] # Nothing, hand'[v].requeued
                 PROVE  ~Matches(hand[v])'
      BY DEF RequeuedStale
    <3>1. CASE v = w
      BY <3>1, <2>2, <2>4 DEF Matches
    <3>2. CASE v # w
      <4>1. hand'[v] = hand[v] /\ hand[v].id \in Ids
        BY <3>2, <2>3, <1>t
      <4>2. ~Matches(hand[v])
        BY <4>1, <1>i DEF RequeuedStale
      <4> QED BY <4>1, <4>2, <2>2 DEF Matches
    <3> QED BY <3>1, <3>2
  <2> QED BY <1>0, <2>6, <2>7, <2>8 DEF LeaseInv
<1>9. ASSUME NEW w \in Workers, NEW id \in Queued, TakeUnleased(w, id)
      PROVE  LeaseInv'
  <2>1. \A x \in Ids : item'[x].token \in {item[x].token, NoToken}
    BY <1>9, <1>t DEF TakeUnleased, Unleased, Item
  <2>2. issued' = issued /\ hand' = [hand EXCEPT ![w] =
                                      [id |-> id, token |-> NoToken, requeued |-> FALSE]]
    BY <1>9 DEF TakeUnleased
  <2> QED BY <1>a, <1>t, <2>1, <2>2
<1>10. ASSUME NEW id \in Ids, Cancel(id)
       PROVE  LeaseInv'
  <2>1. /\ UNCHANGED <<issued, hand>>
        /\ \A x \in Ids : item'[x].token \in {item[x].token, NoToken}
    BY <1>10, <1>t DEF Cancel, Unleased, Item
  <2> QED BY <1>a, <2>1
<1>11. ASSUME ClearQueue
       PROVE  LeaseInv'
  <2>1. /\ UNCHANGED <<issued, hand>>
        /\ \A x \in Ids : item'[x].token = NoToken
    BY <1>11, <1>t DEF ClearQueue, Unleased, Item
  <2> QED BY <1>a, <2>1
<1>12. ASSUME NEW id \in Ids, MoveToTop(id) \/ MoveUp(id) \/ MoveDown(id)
       PROVE  LeaseInv'
  <2>1. UNCHANGED <<item, issued, hand>>
    BY <1>12 DEF MoveToTop, MoveUp, MoveDown, Reorder
  <2> QED BY <1>a, <2>1
<1>13. ASSUME NEW u \in Users, NEW id \in Ids, RunNowRemove(u, id)
       PROVE  LeaseInv'
  <2>1. /\ UNCHANGED <<issued, hand>>
        /\ \A x \in Ids : item'[x].token \in {item[x].token, NoToken}
    BY <1>13, <1>t DEF RunNowRemove, Unleased, Item
  <2> QED BY <1>a, <2>1
<1>14. ASSUME NEW u \in Users, RunNowFront(u)
       PROVE  LeaseInv'
  <2>1. /\ UNCHANGED <<issued, hand>>
        /\ \A x \in Ids : item'[x].token \in {item[x].token, NoToken}
    BY <1>14, <1>t DEF RunNowFront, Unleased, Item
  <2> QED BY <1>a, <2>1
<1>15. CASE UNCHANGED vars
  BY <1>15, <1>a DEF vars, store
<1>16. ASSUME NEW w \in Workers, Dequeue(w) PROVE LeaseInv'
  BY <1>9, <1>16, ShapeQueue DEF Dequeue, LeaseInv
<1>17. ASSUME NEW w \in Workers, NEW id \in Ids, RunTaken(w, id) PROVE LeaseInv'
  BY <1>9, <1>17 DEF RunTaken
<1> QED
  BY <1>1, <1>2, <1>3, <1>4, <1>5, <1>6, <1>7, <1>8, <1>10, <1>11, <1>12, <1>13, <1>14,
     <1>15, <1>16, <1>17
  DEF Next, Environment, Dies, Editing, Worker, User

(* LeaseInv is an invariant.                                               *)
LEMMA LeaseHolds == Spec => []LeaseInv
<1> QED BY LeaseInit, LeaseStep, PTL DEF Spec

(* Two drains never hold valid leases on one prompt, although expired      *)
(* leases come back to life in renewLease and failLease leaves lease ids   *)
(* behind.                                                                 *)
THEOREM LeasesDisjointHolds == Spec => []LeasesDisjoint
<1>1. LeaseInv => LeasesDisjoint
  BY DEF LeaseInv, HandsDiffer, LeasesDisjoint, HoldsLease, Current, Matches
<1> QED BY <1>1, LeaseHolds, PTL

(* No step loses an accepted prompt: what leaves one place is in another   *)
(* one after the step, or its end is recorded.                             *)
LEMMA NotLostStep ==
    LeaseInv /\ NoPromptLost /\ [Next]_vars => NoPromptLost'
<1> SUFFICES ASSUME LeaseInv, NoPromptLost, [Next]_vars PROVE NoPromptLost'
  OBVIOUS
<1> USE DEF NoPromptLost, Executes
<1>t. /\ Shape
      /\ hand \in [Workers -> Hand \cup {Nothing}]
      /\ limbo \in [Users -> Ids \cup {Nothing}]
      /\ Nothing \notin Hand /\ Nothing \notin Ids
      /\ used \subseteq Ids
  BY QueueAssumption DEF LeaseInv, Shape, TypeOK, Hand
(* A step that takes nothing out of any place keeps every prompt.          *)
<1>a. ASSUME Queued \subseteq Queued', used' \subseteq used \cup Queued',
             UNCHANGED <<hand, limbo>>,
             done \subseteq done', removed \subseteq removed', lost \subseteq lost'
      PROVE  NoPromptLost'
  BY <1>a
<1>1. ASSUME NEW key \in Keys \cup {NoKey}, NEW due \in BOOLEAN, Enqueue(key, due)
      PROVE  NoPromptLost'
  <2>1. PICK id \in Ids \ used : Queued' = Queued \cup {id} /\ used' = used \cup {id}
    BY <1>1, <1>t, QueuedNext
  <2> QED BY <1>1, <1>a, <2>1 DEF Enqueue, history
<1>2. ASSUME NEW id \in Ids, BecomesDue(id) \/ LeaseExpires(id)
      PROVE  NoPromptLost'
  BY <1>2, <1>a DEF BecomesDue, LeaseExpires, history, Queued
<1>3. ASSUME NEW W \in SUBSET Workers, NEW U \in SUBSET Users, Crash(W, U)
      PROVE  NoPromptLost'
  <2> SUFFICES ASSUME NEW id \in used PROVE NoPromptLost!(id)'
    BY <1>3 DEF Crash, store
  <2>0. /\ Queued' = Queued /\ done' = done /\ removed' = removed
        /\ lost' = lost \cup Unstored(W, U)
        /\ \A w \in Workers \ W : hand'[w] = hand[w]
        /\ \A u \in Users \ U : limbo'[u] = limbo[u]
    BY <1>3 DEF Crash, store, Queued
  <2>1. CASE id \in Queued \cup done \cup removed \cup lost
    BY <2>0, <2>1
  <2>2. CASE \E u \in Users : limbo[u] = id
    <3>1. PICK u \in Users : limbo[u] = id
      BY <2>2
    <3>2. u \in U => id \in Unstored(W, U)
      BY <3>1, <1>t DEF Unstored
    <3> QED BY <2>0, <3>1, <3>2
  <2>3. CASE \E w \in Workers : Executes(w, id) /\ hand[w].token = NoToken
    <3>1. PICK w \in Workers : Executes(w, id) /\ hand[w].token = NoToken
      BY <2>3
    <3>2. w \in W => id \in Unstored(W, U)
      BY <3>1 DEF Unstored
    <3> QED BY <2>0, <3>1, <3>2
  <2> QED BY <2>1, <2>2, <2>3
<1>4. ASSUME NEW w \in Workers, LeaseNext(w)
      PROVE  NoPromptLost'
  <2>1. Queued' = Queued
    BY <1>4, <1>t, QueuedNext
  <2>2. /\ UNCHANGED <<used, limbo, done, removed, lost>> /\ hand[w] = Nothing
        /\ \A v \in Workers : v # w => hand'[v] = hand[v]
    BY <1>4, <1>t DEF LeaseNext, history
  <2> QED BY <2>1, <2>2
<1>5. ASSUME NEW w \in Workers, RenewLease(w)
      PROVE  NoPromptLost'
  BY <1>5, <1>a DEF RenewLease, history, Queued
<1>6. ASSUME NEW w \in Workers, CompleteLease(w)
      PROVE  NoPromptLost'
  <2>1. /\ UNCHANGED <<used, limbo, removed, lost>> /\ hand[w] # Nothing
        /\ done' = IF hand[w].requeued THEN done ELSE done \cup {hand[w].id}
        /\ \A v \in Workers : v # w => hand'[v] = hand[v]
    BY <1>6, <1>t DEF CompleteLease
  <2>2. CASE hand[w].requeued
    <3>1. ~Current(hand[w])
      BY <2>1, <2>2 DEF LeaseInv, RequeuedStale, Current
    <3>2. Queued' = Queued
      BY <1>6, <1>t, <3>1, QueuedNext
    <3> QED BY <2>1, <2>2, <3>2
  <2>3. CASE ~hand[w].requeued
    <3>1. Queued \subseteq Queued' \cup {hand[w].id}
      BY <1>6, <1>t, QueuedNext
    <3> QED BY <2>1, <2>3, <3>1
  <2> QED BY <2>2, <2>3
<1>7. ASSUME NEW w \in Workers, FailLease(w)
      PROVE  NoPromptLost'
  <2>1. Queued' = Queued
    BY <1>7, <1>t, QueuedNext
  <2>2. /\ UNCHANGED <<used, limbo, done, removed, lost>> /\ hand[w].token # NoToken
        /\ \A v \in Workers : v # w => hand'[v] = hand[v]
    BY <1>7, <1>t DEF FailLease, history
  <2> QED BY <2>1, <2>2
<1>8. ASSUME NEW w \in Workers, Requeue(w)
      PROVE  NoPromptLost'
  <2>1. Queued' = Queued \cup {hand[w].id}
    BY <1>8, <1>t, QueuedNext
  <2>2. /\ UNCHANGED <<used, limbo, done, removed, lost>>
        /\ \A v \in Workers : v # w => hand'[v] = hand[v]
    BY <1>8, <1>t DEF Requeue
  <2> QED BY <2>1, <2>2
<1>9. ASSUME NEW w \in Workers, NEW id \in Queued, TakeUnleased(w, id)
      PROVE  NoPromptLost'
  <2>1. Queued' = Queued \ {id}
    BY <1>9, <1>t, QueuedNext
  <2>2. /\ UNCHANGED <<used, limbo, done, removed, lost>> /\ hand[w] = Nothing
        /\ hand'[w] = [id |-> id, token |-> NoToken, requeued |-> FALSE]
        /\ \A v \in Workers : v # w => hand'[v] = hand[v]
    BY <1>9, <1>t DEF TakeUnleased
  <2>3. hand'[w] \in Hand
    BY <2>2, <1>t, ShapeQueue DEF Hand
  <2>4. Executes(w, id)' /\ hand'[w].token = NoToken
    <3>1. hand'[w].id = id /\ hand'[w].token = NoToken /\ hand'[w].requeued = FALSE
      BY <2>2
    <3>2. hand'[w] # Nothing
      BY <2>3, <1>t
    <3> QED BY <3>1, <3>2
  <2> QED BY <2>1, <2>2, <2>4
<1>10. ASSUME NEW id \in Ids, Cancel(id)
       PROVE  NoPromptLost'
  <2>1. Queued' = Queued \ {id}
    BY <1>10, <1>t, QueuedNext
  <2> QED BY <1>10, <2>1 DEF Cancel
<1>11. ASSUME ClearQueue
       PROVE  NoPromptLost'
  BY <1>11 DEF ClearQueue
<1>12. ASSUME NEW id \in Ids, MoveToTop(id) \/ MoveUp(id) \/ MoveDown(id)
       PROVE  NoPromptLost'
  <2>1. Queued' = Queued
    BY <1>12, <1>t, QueuedNext
  <2>2. UNCHANGED <<item, used, issued, hand, limbo, history>>
    BY <1>12 DEF MoveToTop, MoveUp, MoveDown, Reorder
  <2> QED BY <1>a, <2>1, <2>2 DEF history
<1>13. ASSUME NEW u \in Users, NEW id \in Ids, RunNowRemove(u, id)
       PROVE  NoPromptLost'
  <2>1. Queued' = Queued \ {id}
    BY <1>13, <1>t, QueuedNext
  <2>2. /\ UNCHANGED <<used, hand, done, removed, lost>> /\ limbo[u] = Nothing
        /\ limbo'[u] = id /\ \A x \in Users : x # u => limbo'[x] = limbo[x]
    BY <1>13, <1>t DEF RunNowRemove
  <2> QED BY <2>1, <2>2, <1>t
<1>14. ASSUME NEW u \in Users, RunNowFront(u)
       PROVE  NoPromptLost'
  <2>1. Queued' = Queued \cup {limbo[u]}
    BY <1>14, <1>t, QueuedNext
  <2>2. /\ UNCHANGED <<used, hand, done, removed, lost>>
        /\ \A x \in Users : x # u => limbo'[x] = limbo[x]
    BY <1>14, <1>t DEF RunNowFront, history
  <2> QED BY <2>1, <2>2
<1>15. CASE UNCHANGED vars
  BY <1>15, <1>a DEF vars, store, history, Queued
<1>16. ASSUME NEW w \in Workers, Dequeue(w) PROVE NoPromptLost'
  BY <1>9, <1>16, <1>t, ShapeQueue DEF Dequeue
<1>17. ASSUME NEW w \in Workers, NEW id \in Ids, RunTaken(w, id) PROVE NoPromptLost'
  BY <1>9, <1>17 DEF RunTaken
<1> QED
  BY <1>1, <1>2, <1>3, <1>4, <1>5, <1>6, <1>7, <1>8, <1>10, <1>11, <1>12, <1>13, <1>14,
     <1>15, <1>16, <1>17
  DEF Next, Environment, Dies, Editing, Worker, User

(* An accepted prompt is in the queue, outside the store in known hands,   *)
(* finished, removed by a user, or lost with the process that alone had    *)
(* it: crashes, lapsed leases and failed runs of leased prompts lose       *)
(* nothing.                                                                *)
THEOREM NoPromptLostHolds == Spec => []NoPromptLost
<1>1. Init => NoPromptLost
  BY DEF Init, NoPromptLost
<1> QED BY <1>1, LeaseHolds, NotLostStep, PTL DEF Spec

(* leaseNext, renewLease, completeLease and failLease of one worker leave  *)
(* a valid lease of another one alone, however old the copy they act on.   *)
THEOREM LeaseProtectedHolds == Spec => LeaseProtected
<1> DEFINE Protected ==
      \A v, w \in Workers :
         v # w /\ HoldsLease(w)
           /\ (LeaseNext(v) \/ RenewLease(v) \/ CompleteLease(v) \/ FailLease(v))
         => HoldsLease(w)'
<1>1. LeaseInv /\ [Next]_vars => [Protected]_vars
  <2> SUFFICES ASSUME LeaseInv, NEW v \in Workers, NEW w \in Workers, v # w, HoldsLease(w),
                      LeaseNext(v) \/ RenewLease(v) \/ CompleteLease(v) \/ FailLease(v)
               PROVE  HoldsLease(w)'
    OBVIOUS
  <2>t. /\ Shape
        /\ item \in [Ids -> Item]
        /\ hand \in [Workers -> Hand \cup {Nothing}]
        /\ hand[w] \in Hand /\ hand[w].id \in Ids
        /\ hand[w].id \in Queued /\ item[hand[w].id].token = hand[w].token
        /\ hand[w].token # NoToken
        /\ item[hand[w].id].status = "running" /\ item[hand[w].id].live = TRUE
    BY DEF LeaseInv, Shape, TypeOK, HoldsLease, Current, Matches, Hand, Item
  (* The other worker's copy matches no item but its own.                  *)
  <2>1. hand[v] # Nothing /\ Current(hand[v]) => hand[v].id # hand[w].id /\ hand[v].id \in Ids
    BY <2>t DEF LeaseInv, HandsDiffer, Current, Matches, HoldsLease, Hand
  <2>a. ASSUME hand'[w] = hand[w], hand[w].id \in Queued',
               item'[hand[w].id] = item[hand[w].id]
        PROVE  HoldsLease(w)'
    BY <2>a, <2>t DEF HoldsLease, Current, Matches, Hand
  <2>2. CASE LeaseNext(v)
    <3>1. PICK i \in DOMAIN queue :
            /\ Runnable(item[queue[i]])
            /\ \A id \in Ids : id # queue[i] => item'[id] = ClearExpired(item[id])
            /\ hand'[w] = hand[w]
      BY <2>2, <2>t DEF LeaseNext
    <3>2. hand[w].id # queue[i]
      BY <3>1, <2>t DEF Runnable
    <3>3. ClearExpired(item[hand[w].id]) = item[hand[w].id]
      BY <2>t DEF ClearExpired
    <3>4. Queued' = Queued
      BY <2>2, <2>t, QueuedNext
    <3> QED BY <2>a, <2>t, <3>1, <3>2, <3>3, <3>4
  <2>3. CASE RenewLease(v)
    BY <2>1, <2>3, <2>a, <2>t DEF RenewLease, Queued
  <2>4. CASE CompleteLease(v)
    <3>1. Queued' = IF Current(hand[v]) THEN Queued \ {hand[v].id} ELSE Queued
      BY <2>4, <2>t, QueuedNext
    <3>2. item'[hand[w].id] = item[hand[w].id] /\ hand'[w] = hand[w]
      BY <2>1, <2>4, <2>t DEF CompleteLease
    <3>3. hand[w].id \in Queued'
      BY <2>1, <2>4, <2>t, <3>1 DEF CompleteLease
    <3> QED BY <2>a, <3>2, <3>3
  <2>5. CASE FailLease(v)
    <3>1. Queued' = Queued
      BY <2>5, <2>t, QueuedNext
    <3>2. item'[hand[w].id] = item[hand[w].id] /\ hand'[w] = hand[w]
      BY <2>1, <2>5, <2>t DEF FailLease
    <3> QED BY <2>a, <2>t, <3>1, <3>2
  <2> QED BY <2>2, <2>3, <2>4, <2>5
<1>2. Spec => [][Protected]_vars
  BY <1>1, LeaseHolds, PTL DEF Spec
<1> QED BY <1>2 DEF LeaseProtected

(* Every operation keeps ExecutionInv, step by step for one prompt that    *)
(* has neither lost a lease nor been taken away.                           *)
LEMMA ExecutionStep == ExecutionInv /\ [Next]_vars => ExecutionInv'
<1> SUFFICES ASSUME ExecutionInv, [Next]_vars PROVE ExecutionInv'
  OBVIOUS
<1>0. LeaseInv'
  BY LeaseStep DEF ExecutionInv
<1>t. /\ Shape
      /\ item \in [Ids -> Item]
      /\ hand \in [Workers -> Hand \cup {Nothing}]
      /\ limbo \in [Users -> Ids \cup {Nothing}]
      /\ Nothing \notin Hand /\ Nothing \notin Ids
      /\ Queued \subseteq used /\ used \subseteq Ids
      /\ \A u \in Users : limbo[u] # Nothing => limbo[u] \in used
      /\ \A w \in Workers : hand[w] # Nothing => hand[w] \in Hand /\ hand[w].id \in used
  BY QueueAssumption DEF ExecutionInv, LeaseInv, Shape, TypeOK, Known, Hand
<1>i. ExecutedGuarded /\ LimboAlone /\ OneExecution /\ HandsDiffer
  BY DEF ExecutionInv, LeaseInv
<1>h. \A w \in Workers : HoldsLease(w) =>
        /\ hand[w] # Nothing /\ hand[w].id \in Queued
        /\ hand[w].token # NoToken /\ item[hand[w].id].token = hand[w].token
        /\ item[hand[w].id].status = "running" /\ item[hand[w].id].live
  BY DEF HoldsLease, Current, Matches
(* The prompts a step may not mark: the rest may be run twice anyway.      *)
<1> DEFINE clean(id) == id \in Ids /\ id \notin expired \cup pulled
(* The facts about one clean prompt, before a step.                        *)
<1>e. \A w \in Workers : \A id : clean(id) /\ Executes(w, id) =>
        /\ hand[w].token = NoToken => id \notin Queued
        /\ hand[w].token # NoToken => HoldsLease(w)
        /\ \A u \in Users : limbo[u] # id
        /\ \A v \in Workers : v # w => ~Executes(v, id)
  <2> SUFFICES ASSUME NEW w \in Workers, NEW id, clean(id), Executes(w, id)
               PROVE  /\ hand[w].token = NoToken => id \notin Queued
                      /\ hand[w].token # NoToken => HoldsLease(w)
                      /\ \A u \in Users : limbo[u] # id
                      /\ \A v \in Workers : v # w => ~Executes(v, id)
    OBVIOUS
  <2>1. /\ hand[w].token = NoToken => id \notin Queued
        /\ hand[w].token # NoToken => HoldsLease(w)
    BY <1>i DEF ExecutedGuarded
  <2>2. \A u \in Users : limbo[u] # id
    BY <1>i DEF LimboAlone
  <2>3. \A v \in Workers : v # w => ~Executes(v, id)
    BY <1>i DEF OneExecution
  <2> QED BY <2>1, <2>2, <2>3
<1>l. \A u \in Users : \A id : clean(id) /\ limbo[u] = id =>
        /\ id \notin Queued
        /\ \A w \in Workers : ~Executes(w, id)
        /\ \A x \in Users : x # u => limbo[x] # id
  BY <1>i DEF LimboAlone
(* What has to be shown of one clean prompt, after a step.                 *)
<1>a. ASSUME expired \subseteq expired', pulled \subseteq pulled',
             \A id : clean(id) /\ id \notin expired' \cup pulled' =>
               /\ \A w \in Workers : Executes(w, id)' =>
                    /\ hand'[w].token = NoToken => id \notin Queued'
                    /\ hand'[w].token # NoToken => HoldsLease(w)'
                    /\ \A u \in Users : limbo'[u] # id
                    /\ \A v \in Workers : v # w => ~Executes(v, id)'
               /\ \A u \in Users : limbo'[u] = id =>
                    /\ id \notin Queued'
                    /\ \A x \in Users : x # u => limbo'[x] # id
      PROVE  ExecutionInv'
  <2>1. ExecutedGuarded'
    BY <1>a DEF ExecutedGuarded
  <2>2. LimboAlone'
    BY <1>a DEF LimboAlone
  <2>3. OneExecution'
    BY <1>a DEF OneExecution
  <2> QED BY <1>0, <2>1, <2>2, <2>3 DEF ExecutionInv
<1>x. \A w \in Workers : \A id : hand'[w] = hand[w] => (Executes(w, id)' <=> Executes(w, id))
  BY DEF Executes
<1>k. ASSUME NEW w \in Workers, HoldsLease(w), hand'[w] = hand[w], hand[w].id \in Queued',
             item'[hand[w].id].token = item[hand[w].id].token,
             item'[hand[w].id].status = "running", item'[hand[w].id].live = TRUE
      PROVE  HoldsLease(w)'
  BY <1>k, <1>h DEF HoldsLease, Current, Matches
<1> HIDE DEF clean
(* A step that leaves hands and limbo alone, and of every clean prompt the *)
(* place in the queue and the lease.                                       *)
<1>s. ASSUME UNCHANGED <<hand, limbo>>, expired \subseteq expired', pulled \subseteq pulled',
             \A id : clean(id) /\ id \notin expired' \cup pulled' =>
                \/ /\ id \in Queued' <=> id \in Queued
                   /\ item'[id].token = item[id].token
                   /\ item'[id].status = item[id].status
                   /\ item[id].live => item'[id].live = TRUE
                \/ /\ \A w \in Workers : ~Executes(w, id)
                   /\ (\A u \in Users : limbo[u] # id) \/ id \notin Queued'
      PROVE  ExecutionInv'
  <2> SUFFICES ASSUME NEW id, clean(id), id \notin expired' \cup pulled'
        PROVE  /\ \A w \in Workers : Executes(w, id) =>
                    /\ hand[w].token = NoToken => id \notin Queued'
                    /\ hand[w].token # NoToken => HoldsLease(w)'
               /\ \A u \in Users : limbo[u] = id => id \notin Queued'
    BY <1>s, <1>a, <1>x, <1>e, <1>l
  <2>1. ASSUME NEW u \in Users, limbo[u] = id PROVE id \notin Queued'
    BY <1>s, <2>1, <1>l
  <2>2. ASSUME NEW w \in Workers, Executes(w, id)
        PROVE  /\ hand[w].token = NoToken => id \notin Queued'
               /\ hand[w].token # NoToken => HoldsLease(w)'
    <3>1. /\ id \in Queued' <=> id \in Queued
          /\ item'[id].token = item[id].token
          /\ item'[id].status = item[id].status
          /\ item[id].live => item'[id].live = TRUE
      BY <1>s, <2>2
    <3>2. hand[w].id = id
      BY <2>2 DEF Executes
    <3> QED BY <1>s, <2>2, <3>1, <3>2, <1>e, <1>h, <1>k
  <2> QED BY <2>1, <2>2
<1>c. \A id : clean(id) <=> id \in Ids /\ id \notin expired \cup pulled
  BY DEF clean
<1>1. ASSUME NEW key \in Keys \cup {NoKey}, NEW due \in BOOLEAN, Enqueue(key, due)
      PROVE  ExecutionInv'
  <2>1. PICK new \in Ids \ used :
           /\ Queued' = Queued \cup {new}
           /\ item' = [item EXCEPT ![new] = [status |-> "queued", key |-> key,
                           token |-> NoToken, live |-> FALSE, due |-> due]]
    BY <1>1, <1>t, QueuedNext
  <2>2. UNCHANGED <<hand, limbo, expired, pulled>>
    BY <1>1 DEF Enqueue, history
  <2>3. /\ \A w \in Workers : ~Executes(w, new)
        /\ \A u \in Users : limbo[u] # new
    BY <1>t, <2>1 DEF Executes
  <2>4. \A id \in Ids : id # new => item'[id] = item[id] /\ (id \in Queued' <=> id \in Queued)
    BY <1>t, <2>1
  <2>5. \A id \in Ids : item[id].live => item[id].live = TRUE
    BY <1>t DEF Item
  <2> QED BY <1>s, <1>c, <2>2, <2>3, <2>4, <2>5
<1>2. ASSUME NEW id \in Ids, BecomesDue(id) \/ LeaseExpires(id)
      PROVE  ExecutionInv'
  <2>1. /\ UNCHANGED <<hand, limbo, pulled>> /\ Queued' = Queued
        /\ expired \subseteq expired'
    BY <1>2 DEF BecomesDue, LeaseExpires, history, Queued
  <2>2. \A x \in Ids : x \notin expired' =>
          /\ item'[x].token = item[x].token
          /\ item'[x].status = item[x].status
          /\ item[x].live => item'[x].live = TRUE
    <3>1. CASE BecomesDue(id)
      BY <1>t, <3>1 DEF BecomesDue, Item
    <3>2. CASE LeaseExpires(id)
      <4>1. \A x \in Ids : x # id => item'[x] = item[x]
        BY <1>t, <3>2 DEF LeaseExpires
      <4>2. \A x \in Ids : item[x].live => item[x].live = TRUE
        BY <1>t DEF Item
      <4>3. id \in expired'
        BY <3>2 DEF LeaseExpires
      <4> QED BY <4>1, <4>2, <4>3
    <3> QED BY <1>2, <3>1, <3>2
  <2> QED BY <1>s, <1>c, <2>1, <2>2
<1>3. ASSUME NEW W \in SUBSET Workers, NEW U \in SUBSET Users, Crash(W, U)
      PROVE  ExecutionInv'
  <2>1. /\ UNCHANGED <<queue, item, expired, pulled>> /\ Queued' = Queued
        /\ \A w \in Workers : hand'[w] = hand[w] \/ hand'[w] = Nothing
        /\ \A u \in Users : limbo'[u] = limbo[u] \/ limbo'[u] = Nothing
    BY <1>3, <1>t DEF Crash, store, Queued
  <2>2. ASSUME NEW id, clean(id), NEW w \in Workers, Executes(w, id)'
        PROVE  /\ hand'[w].token = NoToken => id \notin Queued'
               /\ hand'[w].token # NoToken => HoldsLease(w)'
               /\ \A u \in Users : limbo'[u] # id
               /\ \A v \in Workers : v # w => ~Executes(v, id)'
    <3>1. hand'[w] = hand[w] /\ Executes(w, id)
      BY <2>1, <2>2, <1>x DEF Executes
    <3>2. HoldsLease(w) => HoldsLease(w)'
      BY <2>1, <3>1 DEF HoldsLease, Current, Matches
    <3>3. \A u \in Users : limbo'[u] # id
      BY <2>1, <2>2, <3>1, <1>e, <1>t, <1>c
    <3>4. \A v \in Workers : v # w => ~Executes(v, id)'
      BY <2>1, <2>2, <3>1, <1>e DEF Executes
    <3> QED BY <2>1, <2>2, <3>1, <3>2, <3>3, <3>4, <1>e
  <2>3. ASSUME NEW id, clean(id), NEW u \in Users, limbo'[u] = id
        PROVE  /\ id \notin Queued'
               /\ \A x \in Users : x # u => limbo'[x] # id
    BY <2>1, <2>3, <1>l, <1>t, <1>c
  <2> QED BY <1>a, <2>1, <2>2, <2>3
<1>4. ASSUME NEW w \in Workers, LeaseNext(w)
      PROVE  ExecutionInv'
  <2>1. PICK i \in DOMAIN queue, t \in Tokens :
          /\ Runnable(item[queue[i]])
          /\ item' = [id \in Ids |->
                      IF id = queue[i]
                      THEN [item[id] EXCEPT !.status = "running", !.token = t, !.live = TRUE]
                      ELSE ClearExpired(item[id])]
          /\ hand' = [hand EXCEPT ![w] = [id |-> queue[i], token |-> t, requeued |-> FALSE]]
    BY <1>4 DEF LeaseNext
  <2>2. queue[i] \in Ids /\ queue[i] \in Queued
    BY <1>t, ShapeQueue
  <2>3. /\ Queued' = Queued /\ UNCHANGED <<limbo, expired, pulled>> /\ hand[w] = Nothing
        /\ \A v \in Workers : v # w => hand'[v] = hand[v]
        /\ hand'[w] = [id |-> queue[i], token |-> t, requeued |-> FALSE]
    BY <1>4, <1>t, <2>1, QueuedNext DEF LeaseNext, history
  <2>4. item[queue[i]] \in Item /\ item'[queue[i]] = [item[queue[i]] EXCEPT
                !.status = "running", !.token = t, !.live = TRUE]
    BY <1>t, <2>1, <2>2
  <2>5. /\ item'[queue[i]].status = "running" /\ item'[queue[i]].token = t
        /\ item'[queue[i]].live = TRUE
    BY <2>4 DEF Item
  <2>6. t # NoToken
    BY QueueAssumption
  <2>7. \A x \in Ids : x # queue[i] /\ item[x].live => item'[x] = item[x]
    BY <2>1 DEF ClearExpired
  (* The leased prompt, if it is clean, was executed by nobody.            *)
  <2>8. clean(queue[i]) => /\ \A v \in Workers : ~Executes(v, queue[i])
                           /\ \A u \in Users : limbo[u] # queue[i]
    <3>1. ASSUME clean(queue[i]), NEW v \in Workers, Executes(v, queue[i]) PROVE FALSE
      <4>1. hand[v].id = queue[i]
        BY <3>1 DEF Executes
      <4>2. HoldsLease(v)
        BY <3>1, <2>2, <1>e
      <4> QED BY <4>1, <4>2, <1>h, <2>1 DEF Runnable
    <3> QED BY <3>1, <2>2, <1>l
  <2>9. HoldsLease(w)'
    <3>1. hand'[w].id = queue[i] /\ hand'[w].token = t
      BY <2>3
    <3>2. hand'[w] # Nothing
      <4>1. hand'[w] \in Hand
        BY <2>2, <2>3 DEF Hand
      <4> QED BY <4>1, <1>t
    <3> QED BY <2>2, <2>3, <2>5, <2>6, <3>1, <3>2 DEF HoldsLease, Current, Matches
  <2>10. \A x : Executes(w, x)' => x = queue[i]
    BY <2>3 DEF Executes
  <2>11. ASSUME NEW id, clean(id), NEW v \in Workers, Executes(v, id)'
         PROVE  /\ hand'[v].token = NoToken => id \notin Queued'
                /\ hand'[v].token # NoToken => HoldsLease(v)'
                /\ \A u \in Users : limbo'[u] # id
                /\ \A y \in Workers : y # v => ~Executes(y, id)'
    <3>1. CASE v = w
      <4>1. id = queue[i]
        BY <2>10, <2>11, <3>1
      <4>2. hand'[v].token # NoToken
        BY <2>3, <2>6, <3>1
      <4> QED BY <2>3, <2>8, <2>9, <2>11, <3>1, <4>1, <4>2, <1>x
    <3>2. CASE v # w
      <4>1. hand'[v] = hand[v] /\ Executes(v, id) /\ hand[v].id = id
        BY <2>3, <2>11, <3>2, <1>x DEF Executes
      <4>2. id # queue[i]
        BY <2>8, <2>11, <4>1
      <4>3. HoldsLease(v) => HoldsLease(v)'
        <5> HAVE HoldsLease(v)
        <5>1. item'[id] = item[id]
          BY <1>h, <1>c, <2>7, <2>11, <4>1, <4>2
        <5>2. item[id].live = TRUE
          BY <1>c, <1>h, <1>t, <2>11, <4>1 DEF Item
        <5> QED BY <1>h, <1>k, <2>3, <4>1, <5>1, <5>2
      <4>4. \A y \in Workers : y # v => ~Executes(y, id)'
        BY <1>e, <1>x, <2>3, <2>10, <2>11, <4>1, <4>2
      <4> QED BY <1>e, <2>3, <2>11, <4>1, <4>3, <4>4
    <3> QED BY <3>1, <3>2
  <2>12. ASSUME NEW id, clean(id), NEW u \in Users, limbo'[u] = id
         PROVE  /\ id \notin Queued'
                /\ \A x \in Users : x # u => limbo'[x] # id
    BY <2>3, <2>12, <1>l
  <2> QED BY <1>a, <2>3, <2>11, <2>12
<1>5. ASSUME NEW w \in Workers, RenewLease(w)
      PROVE  ExecutionInv'
  <2>1. UNCHANGED <<hand, limbo, expired, pulled>> /\ Queued' = Queued
    BY <1>5 DEF RenewLease, history, Queued
  <2>2. \A x \in Ids : /\ item'[x].token = item[x].token
                       /\ item'[x].status = item[x].status
                       /\ item[x].live => item'[x].live = TRUE
    BY <1>5, <1>t DEF RenewLease, Item
  <2> QED BY <1>s, <1>c, <2>1, <2>2
(* The end of a run, well or badly: only the item of the worker's own      *)
(* lease changes, and its hands are empty afterwards.                      *)
<1>f. ASSUME NEW w \in Workers, hand[w] # Nothing, hand' = [hand EXCEPT ![w] = Nothing],
             UNCHANGED <<limbo, expired, pulled>>,
             \A x \in Ids : \/ item'[x] = item[x] /\ (x \in Queued' <=> x \in Queued)
                            \/ /\ x = hand[w].id /\ Current(hand[w])
                               /\ x \in Queued' => x \in Queued
      PROVE  ExecutionInv'
  <2>1. hand'[w] = Nothing /\ \A v \in Workers : v # w => hand'[v] = hand[v]
    BY <1>f, <1>t
  <2>2. ASSUME NEW id, clean(id), NEW v \in Workers, Executes(v, id)'
        PROVE  /\ hand'[v].token = NoToken => id \notin Queued'
               /\ hand'[v].token # NoToken => HoldsLease(v)'
               /\ \A u \in Users : limbo'[u] # id
               /\ \A y \in Workers : y # v => ~Executes(y, id)'
    <3>1. v # w
      BY <2>1, <2>2 DEF Executes
    <3>2. hand'[v] = hand[v] /\ Executes(v, id) /\ hand[v].id = id /\ hand[v] # Nothing
      BY <2>1, <2>2, <3>1, <1>x DEF Executes
    <3>3. item'[id] = item[id] /\ (id \in Queued' <=> id \in Queued)
      <4> SUFFICES ASSUME id = hand[w].id, Current(hand[w]) PROVE FALSE
        BY <1>f, <1>c, <2>2
      <4>1. HoldsLease(v)
        BY <1>e, <2>2, <3>2 DEF Current
      <4>2. hand[w].token = hand[v].token /\ hand[v].token # NoToken
        BY <1>h, <3>2, <4>1 DEF Current, Matches
      <4> QED BY <1>f, <1>i, <3>1, <3>2, <4>2 DEF HandsDiffer
    <3>4. HoldsLease(v) => HoldsLease(v)'
      <4>1. id \in Ids /\ item[id] \in Item
        BY <1>c, <1>t, <2>2
      <4>2. item[id].live \in BOOLEAN
        BY <4>1 DEF Item
      <4> QED BY <1>h, <1>k, <3>2, <3>3, <4>2
    <3>5. \A y \in Workers : y # v => ~Executes(y, id)'
      BY <1>e, <1>x, <2>1, <2>2, <3>2 DEF Executes
    <3> QED BY <1>e, <1>f, <2>2, <3>2, <3>3, <3>4, <3>5
  <2>3. ASSUME NEW id, clean(id), NEW u \in Users, limbo'[u] = id
        PROVE  /\ id \notin Queued'
               /\ \A x \in Users : x # u => limbo'[x] # id
    BY <1>f, <1>c, <1>l, <2>3
  <2> QED BY <1>a, <1>f, <2>2, <2>3
<1>6. ASSUME NEW w \in Workers, CompleteLease(w)
      PROVE  ExecutionInv'
  <2>1. Queued' = IF Current(hand[w]) THEN Queued \ {hand[w].id} ELSE Queued
    BY <1>6, <1>t, QueuedNext
  <2>2. /\ hand[w] # Nothing /\ hand' = [hand EXCEPT ![w] = Nothing]
        /\ UNCHANGED <<limbo, expired, pulled>>
    BY <1>6 DEF CompleteLease
  <2>3. \A x \in Ids : \/ x = hand[w].id /\ Current(hand[w])
                       \/ item'[x] = item[x]
    BY <1>6, <1>t DEF CompleteLease
  <2> QED BY <1>f, <2>1, <2>2, <2>3
<1>7. ASSUME NEW w \in Workers, FailLease(w)
      PROVE  ExecutionInv'
  <2>1. Queued' = Queued
    BY <1>7, <1>t, QueuedNext
  <2>2. /\ hand[w] # Nothing /\ hand' = [hand EXCEPT ![w] = Nothing]
        /\ UNCHANGED <<limbo, expired, pulled>>
    BY <1>7 DEF FailLease, history
  <2>3. \A x \in Ids : \/ x = hand[w].id /\ Current(hand[w])
                       \/ item'[x] = item[x]
    BY <1>7, <1>t DEF FailLease
  <2> QED BY <1>f, <2>1, <2>2, <2>3
<1>8. ASSUME NEW w \in Workers, Requeue(w)
      PROVE  ExecutionInv'
  <2>1. Queued' = Queued \cup {hand[w].id}
    BY <1>8, <1>t, QueuedNext
  <2>2. /\ hand[w] # Nothing /\ hand[w].requeued = FALSE /\ hand[w] \in Hand
        /\ UNCHANGED <<limbo, expired>>
        /\ pulled' = pulled \cup InExecution({hand[w].id}, w)
        /\ hand' = [hand EXCEPT ![w].requeued = TRUE]
        /\ item' = [item EXCEPT ![hand[w].id] = Unleased(item[hand[w].id])]
    BY <1>8, <1>t DEF Requeue, Hand
  <2>3. /\ hand'[w] = [hand[w] EXCEPT !.requeued = TRUE]
        /\ \A v \in Workers : v # w => hand'[v] = hand[v]
    BY <2>2, <1>t
  <2>4. \A id : ~Executes(w, id)'
    <3>1. hand'[w].requeued = TRUE
      BY <2>2, <2>3 DEF Hand
    <3> QED BY <3>1 DEF Executes
  <2>5. Executes(w, hand[w].id) /\ hand[w].id \in Ids
    BY <2>2 DEF Executes, Hand
  <2>6. ASSUME NEW id, clean(id), id \notin expired' \cup pulled',
               NEW v \in Workers, Executes(v, id)'
        PROVE  /\ hand'[v].token = NoToken => id \notin Queued'
               /\ hand'[v].token # NoToken => HoldsLease(v)'
               /\ \A u \in Users : limbo'[u] # id
               /\ \A y \in Workers : y # v => ~Executes(y, id)'
    <3>1. v # w /\ hand'[v] = hand[v] /\ Executes(v, id) /\ hand[v].id = id
      BY <2>3, <2>4, <2>6, <1>x DEF Executes
    <3>2. id # hand[w].id
      BY <2>5, <2>6, <3>1, <1>e
    <3>3. item'[id] = item[id] /\ (id \in Queued' <=> id \in Queued)
      BY <2>1, <2>2, <2>6, <3>2, <1>c, <1>t
    <3>4. HoldsLease(v) => HoldsLease(v)'
      <4>1. item[id].live \in BOOLEAN
        BY <1>c, <1>t, <2>6 DEF Item
      <4> QED BY <1>h, <1>k, <3>1, <3>3, <4>1
    <3>5. \A y \in Workers : y # v => ~Executes(y, id)'
      BY <1>e, <1>x, <2>3, <2>4, <2>6, <3>1
    <3> QED BY <1>e, <2>2, <2>6, <3>1, <3>3, <3>4, <3>5
  <2>7. ASSUME NEW id, clean(id), NEW u \in Users, limbo'[u] = id
        PROVE  /\ id \notin Queued'
               /\ \A x \in Users : x # u => limbo'[x] # id
    BY <1>l, <2>1, <2>2, <2>5, <2>7
  <2> QED BY <1>a, <2>2, <2>6, <2>7
<1>9. ASSUME NEW w \in Workers, NEW new \in Queued, TakeUnleased(w, new)
      PROVE  ExecutionInv'
  <2>1. Queued' = Queued \ {new} /\ new \in Ids
    BY <1>9, <1>t, QueuedNext
  <2>2. /\ hand[w] = Nothing /\ UNCHANGED <<limbo, expired>>
        /\ pulled' = pulled \cup InExecution({new}, w)
        /\ hand'[w] = [id |-> new, token |-> NoToken, requeued |-> FALSE]
        /\ \A v \in Workers : v # w => hand'[v] = hand[v]
        /\ \A x \in Ids : x # new => item'[x] = item[x]
    BY <1>9, <1>t DEF TakeUnleased
  <2>3. \A x : Executes(w, x)' => x = new
    BY <2>2 DEF Executes
  <2>4. new \notin pulled' => \A v \in Workers : v # w => ~Executes(v, new)
    BY <2>2 DEF InExecution
  <2>5. ASSUME NEW id, clean(id), id \notin expired' \cup pulled',
               NEW v \in Workers, Executes(v, id)'
        PROVE  /\ hand'[v].token = NoToken => id \notin Queued'
               /\ hand'[v].token # NoToken => HoldsLease(v)'
               /\ \A u \in Users : limbo'[u] # id
               /\ \A y \in Workers : y # v => ~Executes(y, id)'
    <3>1. CASE v = w
      <4>1. id = new /\ hand'[v].token = NoToken
        BY <2>2, <2>3, <2>5, <3>1
      <4>2. \A u \in Users : limbo'[u] # id
        BY <1>l, <2>2, <2>5, <4>1
      <4>3. \A y \in Workers : y # v => ~Executes(y, id)'
        BY <2>2, <2>4, <2>5, <3>1, <4>1, <1>x
      <4> QED BY <2>1, <4>1, <4>2, <4>3
    <3>2. CASE v # w
      <4>1. hand'[v] = hand[v] /\ Executes(v, id) /\ hand[v].id = id
        BY <2>2, <2>5, <3>2, <1>x DEF Executes
      <4>2. id # new
        BY <2>4, <2>5, <3>2, <4>1
      <4>3. item'[id] = item[id] /\ (id \in Queued' <=> id \in Queued)
        BY <2>1, <2>2, <2>5, <4>2, <1>c
      <4>4. HoldsLease(v) => HoldsLease(v)'
        <5>1. item[id].live \in BOOLEAN
          BY <1>c, <1>t, <2>5 DEF Item
        <5> QED BY <1>h, <1>k, <4>1, <4>3, <5>1
      <4>5. \A y \in Workers : y # v => ~Executes(y, id)'
        BY <1>e, <1>x, <2>2, <2>3, <2>5, <4>1, <4>2
      <4> QED BY <1>e, <2>2, <2>5, <4>1, <4>3, <4>4, <4>5
    <3> QED BY <3>1, <3>2
  <2>6. ASSUME NEW id, clean(id), NEW u \in Users, limbo'[u] = id
        PROVE  /\ id \notin Queued'
               /\ \A x \in Users : x # u => limbo'[x] # id
    BY <1>l, <2>1, <2>2, <2>6
  <2> QED BY <1>a, <2>2, <2>5, <2>6
<1>10. ASSUME NEW new \in Ids, Cancel(new)
       PROVE  ExecutionInv'
  <2>1. Queued' = Queued \ {new}
    BY <1>10, <1>t, QueuedNext
  <2>2. /\ UNCHANGED <<hand, limbo, expired>>
        /\ pulled' = pulled \cup {x \in {new} : \E v \in Workers : Executes(v, x)}
        /\ \A x \in Ids : x # new => item'[x] = item[x]
    BY <1>10 DEF Cancel
  <2>3. \A x \in Ids : item[x].live => item[x].live = TRUE
    BY <1>t DEF Item
  <2> QED BY <1>s, <1>c, <2>1, <2>2, <2>3
<1>11. ASSUME ClearQueue
       PROVE  ExecutionInv'
  <2>1. Queued' = {}
    BY <1>11, <1>t, QueuedNext
  <2>2. /\ UNCHANGED <<hand, limbo, expired>>
        /\ pulled' = pulled \cup {x \in Queued : \E v \in Workers : Executes(v, x)}
    BY <1>11 DEF ClearQueue
  (* An executed prompt that is not in the queue has no lease in the store. *)
  <2>3. ASSUME NEW id, clean(id), id \notin expired' \cup pulled',
               NEW v \in Workers, Executes(v, id)
        PROVE  hand[v].token = NoToken
    <3>1. id \notin Queued /\ hand[v].id = id
      BY <2>2, <2>3 DEF Executes
    <3> QED BY <1>e, <1>h, <2>3, <3>1
  <2>4. \A v \in Workers : \A id : Executes(v, id)' <=> Executes(v, id)
    BY <2>2, <1>x
  <2> QED BY <1>a, <1>e, <1>l, <2>1, <2>2, <2>3, <2>4
<1>12. ASSUME NEW id \in Ids, MoveToTop(id) \/ MoveUp(id) \/ MoveDown(id)
       PROVE  ExecutionInv'
  <2>1. Queued' = Queued
    BY <1>12, <1>t, QueuedNext
  <2>2. UNCHANGED <<item, hand, limbo, expired, pulled>>
    BY <1>12 DEF MoveToTop, MoveUp, MoveDown, Reorder, history
  <2>3. \A x \in Ids : item[x].live => item[x].live = TRUE
    BY <1>t DEF Item
  <2> QED BY <1>s, <1>c, <2>1, <2>2, <2>3
<1>13. ASSUME NEW u \in Users, NEW new \in Ids, RunNowRemove(u, new)
       PROVE  ExecutionInv'
  <2>1. Queued' = Queued \ {new}
    BY <1>13, <1>t, QueuedNext
  <2>2. /\ UNCHANGED <<hand, expired>> /\ limbo[u] = Nothing /\ new \in Queued
        /\ limbo'[u] = new /\ \A x \in Users : x # u => limbo'[x] = limbo[x]
        /\ pulled' = pulled \cup {x \in {new} : \E v \in Workers : Executes(v, x)}
        /\ \A x \in Ids : x # new => item'[x] = item[x]
    BY <1>13, <1>t DEF RunNowRemove
  <2>3. ASSUME NEW id, clean(id), id \notin expired' \cup pulled',
               NEW v \in Workers, Executes(v, id)'
        PROVE  /\ hand'[v].token = NoToken => id \notin Queued'
               /\ hand'[v].token # NoToken => HoldsLease(v)'
               /\ \A x \in Users : limbo'[x] # id
               /\ \A y \in Workers : y # v => ~Executes(y, id)'
    <3>1. hand'[v] = hand[v] /\ Executes(v, id) /\ hand[v].id = id
      BY <2>2, <2>3, <1>x DEF Executes
    <3>2. id # new
      BY <2>2, <2>3, <3>1
    <3>3. item'[id] = item[id] /\ (id \in Queued' <=> id \in Queued)
      BY <2>1, <2>2, <2>3, <3>2, <1>c
    <3>4. HoldsLease(v) => HoldsLease(v)'
      <4>1. item[id].live \in BOOLEAN
        BY <1>c, <1>t, <2>3 DEF Item
      <4> QED BY <1>h, <1>k, <3>1, <3>3, <4>1
    <3>5. \A x \in Users : limbo'[x] # id
      BY <1>e, <2>2, <2>3, <3>1, <3>2
    <3>6. \A y \in Workers : y # v => ~Executes(y, id)'
      BY <1>e, <1>x, <2>2, <2>3, <3>1
    <3> QED BY <1>e, <2>3, <3>1, <3>3, <3>4, <3>5, <3>6
  <2>4. ASSUME NEW id, clean(id), NEW y \in Users, limbo'[y] = id
        PROVE  /\ id \notin Queued'
               /\ \A x \in Users : x # y => limbo'[x] # id
    BY <1>l, <2>1, <2>2, <2>4
  <2> QED BY <1>a, <2>2, <2>3, <2>4
<1>14. ASSUME NEW u \in Users, RunNowFront(u)
       PROVE  ExecutionInv'
  <2>1. Queued' = Queued \cup {limbo[u]}
    BY <1>14, <1>t, QueuedNext
  <2>2. /\ UNCHANGED <<hand, expired, pulled>> /\ limbo[u] \in Ids
        /\ limbo'[u] = Nothing /\ \A x \in Users : x # u => limbo'[x] = limbo[x]
        /\ \A x \in Ids : x # limbo[u] => item'[x] = item[x]
    BY <1>14, <1>t DEF RunNowFront, history
  <2>3. ASSUME NEW id, clean(id), NEW v \in Workers, Executes(v, id)'
        PROVE  /\ hand'[v].token = NoToken => id \notin Queued'
               /\ hand'[v].token # NoToken => HoldsLease(v)'
               /\ \A x \in Users : limbo'[x] # id
               /\ \A y \in Workers : y # v => ~Executes(y, id)'
    <3>1. hand'[v] = hand[v] /\ Executes(v, id) /\ hand[v].id = id
      BY <2>2, <2>3, <1>x DEF Executes
    <3>2. id # limbo[u] /\ id \in Ids /\ \A x \in Users : limbo[x] # id
      BY <1>e, <1>c, <2>3, <3>1
    <3>3. item'[id] = item[id] /\ (id \in Queued' <=> id \in Queued)
      BY <2>1, <2>2, <3>2
    <3>4. HoldsLease(v) => HoldsLease(v)'
      <4>1. item[id].live \in BOOLEAN
        BY <1>t, <3>2 DEF Item
      <4> QED BY <1>h, <1>k, <3>1, <3>3, <4>1
    <3>5. \A x \in Users : limbo'[x] # id
      BY <1>t, <2>2, <3>2
    <3>6. \A y \in Workers : y # v => ~Executes(y, id)'
      BY <1>e, <1>x, <2>2, <2>3, <3>1
    <3> QED BY <1>e, <2>3, <3>1, <3>3, <3>4, <3>5, <3>6
  <2>4. ASSUME NEW id, clean(id), NEW y \in Users, limbo'[y] = id
        PROVE  /\ id \notin Queued'
               /\ \A x \in Users : x # y => limbo'[x] # id
    BY <1>l, <1>c, <1>t, <2>1, <2>2, <2>4
  <2> QED BY <1>a, <2>2, <2>3, <2>4
<1>15. CASE UNCHANGED vars
  <2>1. \A x \in Ids : item[x].live => item[x].live = TRUE
    BY <1>t DEF Item
  <2> QED BY <1>15, <1>s, <1>c, <2>1 DEF vars, store, history, Queued
<1>16. ASSUME NEW w \in Workers, Dequeue(w) PROVE ExecutionInv'
  BY <1>9, <1>16, <1>t, ShapeQueue DEF Dequeue
<1>17. ASSUME NEW w \in Workers, NEW id \in Ids, RunTaken(w, id) PROVE ExecutionInv'
  BY <1>9, <1>17 DEF RunTaken
<1> QED
  BY <1>1, <1>2, <1>3, <1>4, <1>5, <1>6, <1>7, <1>8, <1>10, <1>11, <1>12, <1>13, <1>14,
     <1>15, <1>16, <1>17
  DEF Next, Environment, Dies, Editing, Worker, User

(* In the initial state nothing is executed.                               *)
LEMMA ExecutionInit == Init => ExecutionInv
<1> SUFFICES ASSUME Init PROVE ExecutionInv
  OBVIOUS
<1>1. \A w \in Workers : hand[w] = Nothing
  BY DEF Init
<1>2. \A u \in Users, id \in Ids : limbo[u] # id
  BY QueueAssumption DEF Init
<1> QED BY <1>1, <1>2, LeaseInit
       DEF ExecutionInv, ExecutedGuarded, LimboAlone, OneExecution, Executes

(* Two workers run one prompt at the same time only if one of its leases   *)
(* ran out or somebody took it away from its worker: leases are enough     *)
(* otherwise, across processes, crashes, requeues and "run" commands.      *)
THEOREM OneExecutionHolds == Spec => []OneExecution
<1>1. ExecutionInv => OneExecution
  BY DEF ExecutionInv
<1> QED BY <1>1, ExecutionInit, ExecutionStep, PTL DEF Spec

-----------------------------------------------------------------------------
(* Facts for the modules that use the store.                               *)

(* What was accepted, leased out or taken away stays on record.            *)
LEMMA HistoryGrows ==
    [Next]_vars => used \subseteq used' /\ expired \subseteq expired' /\ pulled \subseteq pulled'
BY DEF Next, Environment, Dies, Editing, Worker, User, Enqueue, BecomesDue, LeaseExpires,
       LeaseNext, RenewLease, CompleteLease, FailLease, Requeue, TakeUnleased, Dequeue, RunTaken,
       Cancel, ClearQueue, Reorder, MoveToTop, MoveUp, MoveDown, RunNowRemove, RunNowFront, Crash,
       vars, store, history

(* A prompt that was accepted and that nobody can bring back.              *)
Gone(id) ==
    /\ id \in used \ Queued
    /\ \A u \in Users : limbo[u] # id
    /\ \A w \in Workers : ~Executes(w, id)

(* What is gone stays gone: a late call of a worker that put the prompt    *)
(* back finds nothing to work on, and ids are not used again.              *)
LEMMA GoneStays ==
    ASSUME LeaseInv, [Next]_vars, NEW id, Gone(id)
    PROVE  Gone(id)'
<1>t. /\ item \in [Ids -> Item] /\ hand \in [Workers -> Hand \cup {Nothing}]
      /\ limbo \in [Users -> Ids \cup {Nothing}]
      /\ Nothing \notin Hand /\ Nothing \notin Ids
      /\ id \in used /\ id \in Ids /\ id \notin Queued /\ Shape
      /\ \A u \in Users : limbo[u] # id
      /\ \A w \in Workers : hand[w] # Nothing /\ hand[w].id = id => hand[w].requeued
  BY QueueAssumption DEF LeaseInv, Shape, TypeOK, Known, Hand, Gone, Executes
<1>s. ASSUME id \in used', id \notin Queued', \A u \in Users : limbo'[u] # id,
             \A w \in Workers : hand'[w] # Nothing /\ hand'[w].id = id => hand'[w].requeued
      PROVE  Gone(id)'
  BY <1>s DEF Gone, Executes
<1>1. ASSUME NEW key, NEW due, Enqueue(key, due) PROVE Gone(id)'
  <2>1. PICK new \in Ids \ used : Queued' = Queued \cup {new} /\ used' = used \cup {new}
    BY <1>1, <1>t, QueuedNext
  <2>2. UNCHANGED <<hand, limbo>>
    BY <1>1 DEF Enqueue
  <2> QED BY <1>s, <1>t, <2>1, <2>2
<1>2. ASSUME UNCHANGED <<queue, used, limbo, hand>> PROVE Gone(id)'
  BY <1>2, <1>s, <1>t DEF Queued
<1>3. ASSUME NEW w \in Workers, LeaseNext(w) PROVE Gone(id)'
  <2>1. Queued' = Queued
    BY <1>3, <1>t, QueuedNext
  <2>2. PICK i \in DOMAIN queue, t \in Tokens :
          hand' = [hand EXCEPT ![w] = [id |-> queue[i], token |-> t, requeued |-> FALSE]]
    BY <1>3 DEF LeaseNext
  <2>3. queue[i] # id
    BY <1>t DEF Queued, Range
  <2>4. \A v \in Workers : hand'[v] = hand[v] \/ hand'[v].id = queue[i]
    BY <1>t, <2>2
  <2>5. UNCHANGED <<used, limbo>>
    BY <1>3 DEF LeaseNext
  <2> QED BY <1>s, <1>t, <2>1, <2>3, <2>4, <2>5
<1>4. ASSUME NEW w \in Workers, CompleteLease(w) \/ FailLease(w) PROVE Gone(id)'
  <2>1. Queued' \subseteq Queued
    BY <1>4, <1>t, QueuedNext
  <2>2. UNCHANGED <<used, limbo>> /\ hand' = [hand EXCEPT ![w] = Nothing]
    BY <1>4 DEF CompleteLease, FailLease
  <2>3. \A v \in Workers : hand'[v] = hand[v] \/ hand'[v] = Nothing
    BY <1>t, <2>2
  <2> QED BY <1>s, <1>t, <2>1, <2>2, <2>3
<1>5. ASSUME NEW w \in Workers, Requeue(w) PROVE Gone(id)'
  <2>1. Queued' = Queued \cup {hand[w].id} /\ hand[w].id # id
    BY <1>5, <1>t, QueuedNext DEF Requeue
  <2>2. UNCHANGED <<used, limbo>> /\ hand' = [hand EXCEPT ![w].requeued = TRUE]
    BY <1>5 DEF Requeue
  <2>3. \A v \in Workers : hand'[v] = hand[v] \/ hand'[v].id = hand[w].id
    <3>1. hand[w] \in Hand
      BY <1>5, <1>t DEF Requeue
    <3> QED BY <1>t, <2>2, <3>1, HandUpdates
  <2> QED BY <1>s, <1>t, <2>1, <2>2, <2>3
<1>6. ASSUME NEW w \in Workers, NEW new, new \in Queued, TakeUnleased(w, new)
      PROVE  Gone(id)'
  <2>1. Queued' = Queued \ {new} /\ new # id
    BY <1>6, <1>t, QueuedNext
  <2>2. /\ UNCHANGED <<used, limbo>>
        /\ hand' = [hand EXCEPT ![w] = [id |-> new, token |-> NoToken, requeued |-> FALSE]]
    BY <1>6 DEF TakeUnleased
  <2>3. \A v \in Workers : hand'[v] = hand[v] \/ hand'[v].id = new
    BY <1>t, <2>2
  <2> QED BY <1>s, <1>t, <2>1, <2>2, <2>3
<1>7. ASSUME NEW w \in Workers, Dequeue(w) PROVE Gone(id)'
  <2>1. PICK i \in DOMAIN queue : TakeUnleased(w, queue[i])
    BY <1>7 DEF Dequeue
  <2>2. queue[i] \in Queued
    BY DEF Queued, Range
  <2> QED BY <1>6, <2>1, <2>2
<1>8. ASSUME Editing PROVE Gone(id)'
  <2>1. Queued' \subseteq Queued
    BY <1>8, <1>t, QueuedNext DEF Editing
  <2>2. UNCHANGED <<used, limbo, hand>>
    BY <1>8 DEF Editing, ClearQueue, Cancel, MoveToTop, MoveUp, MoveDown, Reorder
  <2> QED BY <1>s, <1>t, <2>1, <2>2
<1>9. ASSUME NEW u \in Users, NEW new \in Ids, RunNowRemove(u, new) PROVE Gone(id)'
  <2>1. Queued' = Queued \ {new} /\ new # id
    BY <1>9, <1>t, QueuedNext DEF RunNowRemove
  <2>2. UNCHANGED <<used, hand>> /\ limbo' = [limbo EXCEPT ![u] = new]
    BY <1>9 DEF RunNowRemove
  <2> QED BY <1>s, <1>t, <2>1, <2>2
<1>10. ASSUME NEW u \in Users, RunNowFront(u) PROVE Gone(id)'
  <2>1. Queued' = Queued \cup {limbo[u]} /\ limbo[u] # id
    BY <1>10, <1>t, QueuedNext
  <2>2. UNCHANGED <<used, hand>> /\ limbo' = [limbo EXCEPT ![u] = Nothing]
    BY <1>10 DEF RunNowFront
  <2> QED BY <1>s, <1>t, <2>1, <2>2
<1>11. ASSUME NEW W, NEW U, Crash(W, U) PROVE Gone(id)'
  <2>1. UNCHANGED <<queue, used>>
    BY <1>11 DEF Crash, store
  <2>2. /\ \A w \in Workers : hand'[w] = hand[w] \/ hand'[w] = Nothing
        /\ \A u \in Users : limbo'[u] = limbo[u] \/ limbo'[u] = Nothing
    BY <1>11 DEF Crash
  <2> QED BY <1>s, <1>t, <2>1, <2>2 DEF Queued
<1>12. ASSUME NEW w \in Workers, RenewLease(w) PROVE Gone(id)'
  BY <1>2, <1>12 DEF RenewLease
<1>13. ASSUME NEW x, BecomesDue(x) \/ LeaseExpires(x) PROVE Gone(id)'
  BY <1>2, <1>13 DEF BecomesDue, LeaseExpires
<1>14. CASE UNCHANGED vars
  BY <1>2, <1>14 DEF vars, store
<1> QED
  BY <1>1, <1>3, <1>4, <1>5, <1>6, <1>7, <1>8, <1>9, <1>10, <1>11, <1>12, <1>13, <1>14
  DEF Next, Environment, Dies, Worker, User, RunTaken

(* A prompt is gone when its execution is over, unless a lease of it ran   *)
(* out or somebody took it away.                                           *)
LEMMA FinishedIsGone ==
    ASSUME ExecutionInv, NEW w \in Workers, CompleteLease(w),
           NEW id \in Ids, Executes(w, id), id \notin expired \cup pulled
    PROVE  Gone(id)'
<1>1. /\ hand[w] # Nothing /\ hand[w].id = id /\ id \in used /\ Shape
      /\ hand \in [Workers -> Hand \cup {Nothing}]
  BY DEF ExecutionInv, LeaseInv, Shape, TypeOK, Known, Executes
<1>2. id \notin Queued'
  BY <1>1, QueuedNext DEF ExecutionInv, ExecutedGuarded, HoldsLease
<1>3. UNCHANGED <<used, limbo>> /\ hand' = [hand EXCEPT ![w] = Nothing]
  BY DEF CompleteLease
<1>4. \A u \in Users : limbo[u] # id
  BY DEF ExecutionInv, LimboAlone
<1>5. \A v \in Workers : v # w => ~Executes(v, id)
  BY DEF ExecutionInv, OneExecution
<1>6. \A v \in Workers : ~Executes(v, id)'
  BY <1>1, <1>3, <1>5 DEF Executes
<1> QED BY <1>1, <1>2, <1>3, <1>4, <1>6 DEF Gone
=============================================================================

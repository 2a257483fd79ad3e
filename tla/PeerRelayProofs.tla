-------------------------- MODULE PeerRelayProofs --------------------------
(***************************************************************************)
(* Proofs about PeerRelay: that a waiting caller is held by its broker and *)
(* that what the connector has settled is forgotten, for any number of     *)
(* requests, processes, polling loops, restarts and lost connections.      *)
(*                                                                         *)
(* CallerHeld is inductive once one knows that a request nobody has made   *)
(* is nowhere (Unmade); SettledIsForgotten needs besides that a copy of    *)
(* the file which is written back is still the file, or raced is set.      *)
(***************************************************************************)
EXTENDS PeerRelay, TLAPS

\* The requests a queue file knows of.
Known(f) == f.pending \cup f.inFlight

\* A request nobody has made is nowhere; one that was made has a process.
Unmade ==
    \A r \in Requests :
        IF call[r] = "none"
        THEN /\ r \notin inFlight \cup Known(file) \cup Known(snapshot)
             /\ \A p \in Processes : r \notin pend[p]
        ELSE from[r] \in Processes

RelayInv == TypeOK /\ Unmade /\ CallerHeld /\ SettledIsForgotten

-----------------------------------------------------------------------------
(* The queue file                                                          *)

LEMMA FileOps ==
    ASSUME NEW f \in File, NEW r \in Requests, NEW R \in SUBSET Requests
    PROVE  /\ AddPending(f, r) \in File /\ Known(AddPending(f, r)) = Known(f) \cup {r}
           /\ MarkInFlight(f, r) \in File /\ Known(MarkInFlight(f, r)) = Known(f) \cup {r}
           /\ Without(f, R) \in File /\ Known(Without(f, R)) = Known(f) \ R
BY DEF File, AddPending, MarkInFlight, Without, Known

LEMMA NoFileEmpty == NoFile \in File /\ Known(NoFile) = {}
BY DEF NoFile, File, Known

LEMMA ReadIsFile ==
    ASSUME TypeOK, NEW p
    PROVE  Read(p) \in File
BY DEF TypeOK, Read

LEMMA WriteTypes ==
    ASSUME TypeOK, NEW p, NEW f \in File, Write(p, f)
    PROVE  /\ file' \in File /\ snapshot' \in File
           /\ reader' \in Processes \cup {Nobody} /\ raced' \in BOOLEAN
BY NoFileEmpty DEF TypeOK, Write

\* An old copy that is written back shows in raced.
LEMMA WriteOfOld ==
    ASSUME NEW p, NEW f, Write(p, f), ~raced'
    PROVE  ~raced /\ Read(p) = file /\ file' = f
BY DEF Write, Read

LEMMA WriteKeepsSnapshot ==
    ASSUME NEW p, NEW f, Write(p, f)
    PROVE  file' = f /\ snapshot' \in {snapshot, NoFile}
BY DEF Write

LEMMA SettleTypes ==
    ASSUME TypeOK, NEW p, NEW R, NEW outcome \in Outcomes \cup {"gone"},
           Settle(p, R, outcome)
    PROVE  /\ call' \in [Requests -> {"none", "waiting", "gone"} \cup Outcomes]
           /\ \A r \in Requests :
                 \/ call'[r] = call[r] /\ ~(r \in R /\ from[r] = p /\ call[r] = "waiting")
                 \/ /\ call'[r] = outcome /\ r \in R
                    /\ from[r] = p /\ call[r] = "waiting"
BY DEF TypeOK, Settle

-----------------------------------------------------------------------------
(* What a step does to the callers, the broker and the file, whoever takes *)
(* it.  The steps of the peer differ in what they do to its loops only.    *)

Quiet ==
    /\ UNCHANGED <<from, call, broker, file, raced>>
    /\ \/ UNCHANGED <<reader, snapshot>>
       \/ snapshot' = file /\ reader' \in Processes

Served ==
    /\ UNCHANGED from
    /\ ShiftNone \/ \E r \in Requests : Shift(r) \/ Resolve(r)

Asked ==
    \/ \E r \in Requests : TimeOut(r)
    \/ \E p \in Processes :
          \/ Restart(p) \/ DrainExpired(p)
          \/ \E r \in Requests : Enqueue(p, r) \/ Cancel(p, r) \/ Retry(p, r)

LEMMA LoopEffects ==
    ASSUME TypeOK, NEW l \in Loops, Loop(l)
    PROVE  Quiet \/ Served
<1>1. CASE Fire(l) \/ PollBreaks(l) \/ Execute(l) \/ PostFails(l)
  <2>1. Quiet
    BY <1>1 DEF Fire, PollBreaks, Execute, PostFails, Quiet, caller, broker, store
  <2> QED BY <2>1
<1>2. CASE PollAgain(l) \/ PollEmpty(l)
  <2>1. Served
    BY <1>2 DEF PollAgain, PollEmpty, Served
  <2> QED BY <2>1
<1>3. ASSUME NEW r \in Requests, Hand(l, r) PROVE Quiet \/ Served
  BY <1>3 DEF Hand, Served
<1>4. CASE Post(l)
  <2>1. loop[l].req \in Requests
    BY <1>4 DEF TypeOK, Post
  <2> QED BY <2>1, <1>4 DEF Post, Served
<1> QED BY <1>1, <1>2, <1>3, <1>4 DEF Loop, Polled, Posted

LEMMA Effects ==
    ASSUME TypeOK, [Next]_vars
    PROVE  Quiet \/ Served \/ Asked
<1>1. ASSUME NEW p \in Processes, Broker(p) PROVE Quiet \/ Asked
  <2>1. CASE ReadEarly(p)
    BY <1>1, <2>1 DEF ReadEarly, Quiet, caller
  <2>2. CASE ~ReadEarly(p)
    BY <1>1, <2>2 DEF Broker, Asked
  <2> QED BY <2>1, <2>2
<1>2. CASE Clock
  <2>1. ASSUME NEW r \in Requests, Expire(r) PROVE Quiet
    BY <2>1 DEF Expire, Quiet, store
  <2>2. ASSUME NEW r \in Requests, TimeOut(r) PROVE Asked
    BY <2>2 DEF Asked
  <2>3. ASSUME NEW r \in Requests, HandToNobody(r) PROVE Served
    BY <2>3 DEF HandToNobody, Served
  <2> QED BY <1>2, <2>1, <2>2, <2>3 DEF Clock
<1>3. CASE AbandonedEnds
  BY <1>3 DEF AbandonedEnds, Served
<1>4. CASE Refresh \/ Switch \/ PeerRestarts
  BY <1>4 DEF Refresh, Switch, PeerRestarts, Quiet, caller, store
<1>5. CASE UNCHANGED vars
  BY <1>5 DEF vars, Quiet, caller, broker, store
<1> QED BY <1>1, <1>2, <1>3, <1>4, <1>5, LoopEffects DEF Next

-----------------------------------------------------------------------------
(* Types                                                                   *)

BrokerTypes ==
    /\ from \in [Requests -> Processes \cup {Nobody}]
    /\ call \in [Requests -> {"none", "waiting", "gone"} \cup Outcomes]
    /\ pend \in [Processes -> SUBSET Requests]
    /\ inFlight \in SUBSET Requests
    /\ file \in File /\ snapshot \in File
    /\ reader \in Processes \cup {Nobody} /\ raced \in BOOLEAN

PeerTypes ==
    /\ expired \in SUBSET Requests
    /\ loop \in [Loops -> [at : Steps, req : Requests \cup {Nothing}]]
    /\ \A l \in Loops : loop[l].at \in {"executing", "posting"} => loop[l].req \in Requests
    /\ timer \in BOOLEAN /\ allowed \in BOOLEAN
    /\ abandoned \in 0..MaxAbandoned
    /\ restarts \in 0..MaxRestarts /\ switches \in 0..MaxSwitches

LEMMA TypesSplit == TypeOK <=> BrokerTypes /\ PeerTypes
BY DEF TypeOK, BrokerTypes, PeerTypes

LEMMA ServedTypes ==
    ASSUME TypeOK, Served
    PROVE  BrokerTypes'
<1> USE DEF BrokerTypes
<1>t. Server \in Processes /\ BrokerTypes /\ expired \in SUBSET Requests
      /\ Read(Server) \in File
  BY RelayAssumption, ReadIsFile DEF TypeOK
<1>1. CASE ShiftNone
  <2>1. Without(Read(Server), expired) \in File
    BY <1>t, FileOps DEF Without, File
  <2>2. Settle(Server, pend[Server], "rejected")
        /\ Write(Server, Without(Read(Server), expired))
    BY <1>1 DEF ShiftNone
  <2>3. call' \in [Requests -> {"none", "waiting", "gone"} \cup Outcomes]
    BY <2>2, SettleTypes DEF Outcomes
  <2> QED BY <1>1, <1>t, <2>1, <2>2, <2>3, WriteTypes DEF ShiftNone, Served
<1>2. ASSUME NEW r \in Requests, Shift(r) PROVE BrokerTypes'
  <2>1. MarkInFlight(Without(Read(Server), expired), r) \in File
    BY <1>t, FileOps DEF Without, MarkInFlight, File
  <2>2. Write(Server, MarkInFlight(Without(Read(Server), expired), r))
    BY <1>2 DEF Shift
  <2>3. PICK D \in SUBSET (pend[Server] \cap expired) :
            /\ pend' = [pend EXCEPT ![Server] = @ \ (D \cup {r})]
            /\ Settle(Server, D, "rejected")
    BY <1>2 DEF Shift
  <2>4. call' \in [Requests -> {"none", "waiting", "gone"} \cup Outcomes]
    BY <2>3, SettleTypes DEF Outcomes
  <2>5. pend' \in [Processes -> SUBSET Requests] /\ inFlight' \in SUBSET Requests
    BY <1>t, <1>2, <2>3 DEF Shift
  <2> QED BY <1>t, <2>1, <2>2, <2>4, <2>5, WriteTypes DEF Served
<1>3. ASSUME NEW r \in Requests, Resolve(r) PROVE BrokerTypes'
  <2>1. Without(Read(Server), {r}) \in File
    BY <1>t, FileOps DEF Without, File
  <2>2. Settle(Server, inFlight \cap {r}, "answered")
        /\ Write(Server, Without(Read(Server), {r}))
    BY <1>3 DEF Resolve
  <2>3. call' \in [Requests -> {"none", "waiting", "gone"} \cup Outcomes]
    BY <2>2, SettleTypes DEF Outcomes
  <2> QED BY <1>t, <1>3, <2>1, <2>2, <2>3, WriteTypes DEF Resolve, Served
<1> QED BY <1>1, <1>2, <1>3 DEF Served

LEMMA AskedTypes ==
    ASSUME TypeOK, Asked
    PROVE  BrokerTypes'
<1>t. /\ BrokerTypes /\ Server \in Processes /\ expired \in SUBSET Requests
      /\ \A p : Read(p) \in File
  BY RelayAssumption, ReadIsFile DEF TypeOK, BrokerTypes
<1>0. \A p, R, outcome : outcome \in Outcomes \cup {"gone"} /\ Settle(p, R, outcome) =>
          call' \in [Requests -> {"none", "waiting", "gone"} \cup Outcomes]
  BY SettleTypes
<1>w. \A p, f : f \in File /\ Write(p, f) =>
          /\ file' \in File /\ snapshot' \in File
          /\ reader' \in Processes \cup {Nobody} /\ raced' \in BOOLEAN
  BY WriteTypes
<1>f. \A f \in File, r \in Requests, R \in SUBSET Requests :
          AddPending(f, r) \in File /\ Without(f, R) \in File
  BY FileOps
<1>1. ASSUME NEW r \in Requests, TimeOut(r) PROVE BrokerTypes'
  <2>1. /\ Settle(from[r], {r}, "timedout")
        /\ Write(from[r], Without(Read(from[r]), {r})) /\ UNCHANGED from
        /\ inFlight' \in SUBSET Requests /\ pend' \in [Processes -> SUBSET Requests]
    BY <1>1, <1>t DEF TimeOut, BrokerTypes
  <2> QED BY <2>1, <1>t, <1>0, <1>w, <1>f DEF BrokerTypes, Outcomes
<1>2. ASSUME NEW p \in Processes, NEW r \in Requests, Enqueue(p, r) PROVE BrokerTypes'
  <2>1. /\ Write(p, AddPending(Read(p), r)) /\ inFlight' = inFlight
        /\ pend' \in [Processes -> SUBSET Requests]
        /\ from' \in [Requests -> Processes \cup {Nobody}]
        /\ call' \in [Requests -> {"none", "waiting", "gone"} \cup Outcomes]
    BY <1>2, <1>t DEF Enqueue, BrokerTypes
  <2> QED BY <2>1, <1>t, <1>w, <1>f DEF BrokerTypes
<1>3. ASSUME NEW p \in Processes, NEW r \in Requests, Cancel(p, r) PROVE BrokerTypes'
  <2>1. /\ Settle(p, {r}, "rejected") /\ Write(p, Without(Read(p), {r}))
        /\ UNCHANGED <<from, inFlight>> /\ pend' \in [Processes -> SUBSET Requests]
    BY <1>3, <1>t DEF Cancel, BrokerTypes
  <2> QED BY <2>1, <1>t, <1>0, <1>w, <1>f DEF BrokerTypes, Outcomes
<1>4. ASSUME NEW p \in Processes, NEW r \in Requests, Retry(p, r) PROVE BrokerTypes'
  <2>1. /\ Write(p, AddPending(Read(p), r)) /\ UNCHANGED <<from, call, inFlight>>
        /\ pend' \in [Processes -> SUBSET Requests]
    BY <1>4, <1>t DEF Retry, BrokerTypes, caller
  <2> QED BY <2>1, <1>t, <1>w, <1>f DEF BrokerTypes
<1>5. ASSUME NEW p \in Processes, DrainExpired(p) PROVE BrokerTypes'
  <2>1. Write(p, Without(Read(p), expired)) /\ UNCHANGED <<from, call, broker>>
    BY <1>5 DEF DrainExpired, caller
  <2>2. file' \in File /\ snapshot' \in File
        /\ reader' \in Processes \cup {Nobody} /\ raced' \in BOOLEAN
    BY <2>1, <1>t, <1>w, FileOps DEF Without, File
  <2> QED BY <2>1, <2>2, <1>t DEF BrokerTypes, broker
<1>6. ASSUME NEW p \in Processes, Restart(p) PROVE BrokerTypes'
  <2>1. call' \in [Requests -> {"none", "waiting", "gone"} \cup Outcomes]
    BY <1>6, <1>0 DEF Restart
  <2>2. pend' \in [Processes -> SUBSET Requests] /\ inFlight' \in SUBSET Requests
    BY <1>6, <1>t DEF Restart, BrokerTypes, File
  <2>3. snapshot' \in File /\ reader' \in Processes \cup {Nobody}
    BY <1>6, <1>t, NoFileEmpty DEF Restart, BrokerTypes
  <2> QED BY <1>6, <1>t, <2>1, <2>2, <2>3 DEF Restart, BrokerTypes
<1> QED BY <1>1, <1>2, <1>3, <1>4, <1>5, <1>6 DEF Asked

LEMMA LoopTypes ==
    ASSUME TypeOK, NEW l \in Loops, Loop(l)
    PROVE  PeerTypes'
<1> USE DEF PeerTypes, Steps
<1>t. PeerTypes
  BY TypesSplit
<1>1. \A s \in Steps : At(s) \in [at : Steps, req : Requests \cup {Nothing}] /\ At(s).at = s
  BY DEF At
<1>2. CASE Fire(l)
  BY <1>t, <1>1, <1>2 DEF Fire, Goto, caller
<1>3. ASSUME NEW r \in Requests, Hand(l, r) PROVE PeerTypes'
  BY <1>t, <1>3 DEF Hand, Goto
<1>4. CASE PollAgain(l)
  BY <1>t, <1>4 DEF PollAgain, peer
<1>5. CASE PollEmpty(l)
  BY <1>t, <1>1, <1>5 DEF PollEmpty, EndLoop, Goto
<1>6. CASE PollBreaks(l)
  <2>1. abandoned' \in 0..MaxAbandoned
    BY <1>t, <1>6, RelayAssumption DEF PollBreaks
  <2> QED BY <1>t, <1>1, <1>6, <2>1 DEF PollBreaks, EndLoop, Goto, caller
<1>7. CASE Execute(l)
  <2>1. loop[l].req \in Requests
    BY <1>t, <1>7 DEF Execute
  <2>2. loop' = [loop EXCEPT ![l] = [loop[l] EXCEPT !.at = "posting"]]
    BY <1>7 DEF Execute, Goto
  <2>3. [loop[l] EXCEPT !.at = "posting"] = [at |-> "posting", req |-> loop[l].req]
    BY <1>t
  <2> QED BY <1>t, <1>7, <2>1, <2>2, <2>3 DEF Execute, caller
<1>8. CASE Post(l)
  BY <1>t, <1>1, <1>8 DEF Post, EndLoop, Goto
<1>9. CASE PostFails(l)
  BY <1>t, <1>1, <1>9 DEF PostFails, EndLoop, Goto, caller
<1> QED BY <1>2, <1>3, <1>4, <1>5, <1>6, <1>7, <1>8, <1>9 DEF Loop, Polled, Posted

LEMMA PeerTyped ==
    ASSUME TypeOK, [Next]_vars
    PROVE  PeerTypes'
<1> USE DEF PeerTypes
<1>t. PeerTypes
  BY TypesSplit
<1>1. ASSUME NEW p \in Processes, Broker(p) PROVE PeerTypes'
  <2>1. CASE Restart(p)
    <3>1. restarts' \in 0..MaxRestarts /\ abandoned' \in 0..MaxAbandoned
      BY <1>t, <2>1, RelayAssumption DEF Restart
    <3>2. /\ loop' \in [Loops -> [at : Steps, req : Requests \cup {Nothing}]]
          /\ \A l \in Loops : loop'[l].at \in {"executing", "posting"} =>
                                 loop'[l].req \in Requests
      BY <1>t, <2>1 DEF Restart, At, Steps
    <3>3. timer' \in BOOLEAN
      BY <1>t, <2>1, Zenon DEF Restart
    <3> QED BY <1>t, <2>1, <3>1, <3>2, <3>3 DEF Restart
  <2>2. CASE ReadEarly(p) \/ DrainExpired(p)
    BY <1>t, <2>2 DEF ReadEarly, DrainExpired, caller, peer
  <2>3. ASSUME NEW r \in Requests, Enqueue(p, r) \/ Cancel(p, r) \/ Retry(p, r)
        PROVE  PeerTypes'
    BY <1>t, <2>3 DEF Enqueue, Cancel, Retry, caller, peer
  <2> QED BY <1>1, <2>1, <2>2, <2>3 DEF Broker
<1>2. CASE Clock
  <2>1. ASSUME NEW r \in Requests, Expire(r) \/ TimeOut(r) PROVE PeerTypes'
    BY <1>t, <2>1 DEF Expire, TimeOut, peer
  <2>2. ASSUME NEW r \in Requests, HandToNobody(r) PROVE PeerTypes'
    BY <1>t, <2>2, RelayAssumption DEF HandToNobody, peer
  <2> QED BY <1>2, <2>1, <2>2 DEF Clock
<1>3. CASE AbandonedEnds
  BY <1>t, <1>3, RelayAssumption DEF AbandonedEnds, peer
<1>4. CASE Refresh
  BY <1>t, <1>4 DEF Refresh, caller
<1>5. CASE Switch
  BY <1>t, <1>5, RelayAssumption DEF Switch, caller
<1>6. CASE PeerRestarts
  BY <1>t, <1>6, RelayAssumption DEF PeerRestarts, caller, At, Steps
<1>7. CASE UNCHANGED vars
  BY <1>t, <1>7 DEF vars, caller, peer
<1> QED BY <1>1, <1>2, <1>3, <1>4, <1>5, <1>6, <1>7, LoopTypes DEF Next

LEMMA StepTypes ==
    ASSUME TypeOK, [Next]_vars
    PROVE  TypeOK'
<1>1. ASSUME Quiet PROVE BrokerTypes'
  <2>1. BrokerTypes
    BY TypesSplit
  <2>2. snapshot' \in File /\ reader' \in Processes \cup {Nobody}
    BY <1>1, <2>1 DEF Quiet, BrokerTypes
  <2> QED BY <1>1, <2>1, <2>2 DEF Quiet, BrokerTypes, broker
<1>2. BrokerTypes'
  BY <1>1, Effects, ServedTypes, AskedTypes
<1> QED BY <1>2, PeerTyped DEF TypeOK, BrokerTypes, PeerTypes

-----------------------------------------------------------------------------
(* A request nobody has made                                               *)

\* What a step that makes no request may do.
LEMMA UnmadeKept ==
    ASSUME TypeOK, TypeOK', Unmade, UNCHANGED from,
           \A r \in Requests : call'[r] = "none" <=> call[r] = "none",
           \A r \in Requests : r \in inFlight' => r \in inFlight \cup Known(file)
                                                   \/ \E p \in Processes : r \in pend[p],
           \A r \in Requests, q \in Processes :
              r \in pend'[q] => r \in Known(file) \/ \E p \in Processes : r \in pend[p],
           \A r \in Requests : r \in Known(file') =>
              \/ r \in Known(file) \cup Known(snapshot)
              \/ \E p \in Processes : r \in pend[p],
           snapshot' \in {snapshot, file, NoFile}
    PROVE  Unmade'
BY NoFileEmpty DEF Unmade

LEMMA ServedUnmade ==
    ASSUME TypeOK, TypeOK', Unmade, Served
    PROVE  Unmade'
<1>t. /\ Server \in Processes /\ expired \in SUBSET Requests
      /\ Read(Server) \in File /\ Known(Read(Server)) \subseteq Known(file) \cup Known(snapshot)
      /\ pend \in [Processes -> SUBSET Requests]
  BY RelayAssumption, ReadIsFile DEF TypeOK, Read
<1>1. CASE ShiftNone
  <2>1. Settle(Server, pend[Server], "rejected")
        /\ Write(Server, Without(Read(Server), expired))
    BY <1>1 DEF ShiftNone
  <2>2. \A r \in Requests : call'[r] = "none" <=> call[r] = "none"
    BY <2>1, SettleTypes DEF Outcomes
  <2>3. file' = Without(Read(Server), expired) /\ snapshot' \in {snapshot, NoFile}
    BY <2>1, WriteKeepsSnapshot
  <2>4. Known(file') \subseteq Known(Read(Server))
    BY <2>3 DEF Without, Known
  <2>5. inFlight' = inFlight /\ \A q \in Processes : pend'[q] \subseteq pend[q]
    BY <1>1, <1>t DEF ShiftNone
  <2> QED BY <1>t, <2>2, <2>3, <2>4, <2>5, UnmadeKept DEF Served
<1>2. ASSUME NEW r \in Requests, Shift(r) PROVE Unmade'
  <2>1. PICK D \in SUBSET (pend[Server] \cap expired) :
            /\ pend' = [pend EXCEPT ![Server] = @ \ (D \cup {r})]
            /\ Settle(Server, D, "rejected")
    BY <1>2 DEF Shift
  <2>2. \A s \in Requests : call'[s] = "none" <=> call[s] = "none"
    BY <2>1, SettleTypes DEF Outcomes
  <2>3. /\ file' = MarkInFlight(Without(Read(Server), expired), r)
        /\ snapshot' \in {snapshot, NoFile}
    BY <1>2, WriteKeepsSnapshot DEF Shift
  <2>4. Known(file') \subseteq Known(Read(Server)) \cup {r}
    BY <2>3 DEF Without, MarkInFlight, Known
  <2>5. /\ r \in pend[Server] /\ inFlight' = inFlight \cup {r}
        /\ \A q \in Processes : pend'[q] \subseteq pend[q]
    BY <1>2, <1>t, <2>1 DEF Shift
  <2> QED BY <1>t, <2>2, <2>3, <2>4, <2>5, UnmadeKept DEF Served
<1>3. ASSUME NEW r \in Requests, Resolve(r) PROVE Unmade'
  <2>1. Settle(Server, inFlight \cap {r}, "answered")
        /\ Write(Server, Without(Read(Server), {r}))
    BY <1>3 DEF Resolve
  <2>2. \A s \in Requests : call'[s] = "none" <=> call[s] = "none"
    BY <2>1, SettleTypes DEF Outcomes
  <2>3. file' = Without(Read(Server), {r}) /\ snapshot' \in {snapshot, NoFile}
    BY <2>1, WriteKeepsSnapshot
  <2>4. Known(file') \subseteq Known(Read(Server))
    BY <2>3 DEF Without, Known
  <2>5. inFlight' \subseteq inFlight /\ pend' = pend
    BY <1>3 DEF Resolve
  <2> QED BY <1>t, <2>2, <2>3, <2>4, <2>5, UnmadeKept DEF Served
<1> QED BY <1>1, <1>2, <1>3 DEF Served

LEMMA AskedUnmade ==
    ASSUME TypeOK, TypeOK', Unmade, Asked
    PROVE  Unmade'
<1>t. /\ Server \in Processes /\ pend \in [Processes -> SUBSET Requests]
      /\ \A p : Read(p) \in File /\ Known(Read(p)) \subseteq Known(file) \cup Known(snapshot)
      /\ file \in File
  BY RelayAssumption, ReadIsFile DEF TypeOK, Read
<1>s. \A p, R, outcome : outcome \in Outcomes \cup {"gone"} /\ Settle(p, R, outcome) =>
          \A r \in Requests : call'[r] = "none" <=> call[r] = "none"
  BY SettleTypes DEF Outcomes
<1>w. \A p, f : Write(p, f) => file' = f /\ snapshot' \in {snapshot, NoFile}
  BY WriteKeepsSnapshot
<1>k. \A f, r, R : /\ Known(AddPending(f, r)) \subseteq Known(f) \cup {r}
                   /\ Known(Without(f, R)) \subseteq Known(f)
  BY DEF Known, AddPending, Without
<1>1. ASSUME NEW r \in Requests, TimeOut(r) PROVE Unmade'
  <2>1. /\ Settle(from[r], {r}, "timedout")
        /\ Write(from[r], Without(Read(from[r]), {r})) /\ UNCHANGED from
        /\ inFlight' \subseteq inFlight /\ \A q \in Processes : pend'[q] \subseteq pend[q]
    BY <1>1, <1>t DEF TimeOut
  <2>2. \A x \in Requests : call'[x] = "none" <=> call[x] = "none"
    BY <2>1, <1>s DEF Outcomes
  <2>3. file' = Without(Read(from[r]), {r}) /\ snapshot' \in {snapshot, NoFile}
    BY <2>1, <1>w
  <2>4. Known(file') \subseteq Known(Read(from[r]))
    BY <2>3 DEF Without, Known
  <2>5. Known(file') \subseteq Known(file) \cup Known(snapshot)
    BY <2>4, <1>t
  <2> QED BY <2>1, <2>2, <2>3, <2>5, UnmadeKept
<1>2. ASSUME NEW p \in Processes, NEW r \in Requests, Enqueue(p, r) PROVE Unmade'
  <2>1. /\ Known(file') \subseteq Known(file) \cup Known(snapshot) \cup {r}
        /\ snapshot' \in {snapshot, NoFile}
    BY <1>2, <1>w, <1>k, <1>t DEF Enqueue
  <2>2. /\ from' = [from EXCEPT ![r] = p] /\ call' = [call EXCEPT ![r] = "waiting"]
        /\ pend' = [pend EXCEPT ![p] = @ \cup {r}] /\ inFlight' = inFlight
    BY <1>2 DEF Enqueue
  <2>3. ASSUME NEW x \in Requests, x # r
        PROVE  IF call'[x] = "none"
               THEN /\ x \notin inFlight' \cup Known(file') \cup Known(snapshot')
                    /\ \A q \in Processes : x \notin pend'[q]
               ELSE from'[x] \in Processes
    BY <2>1, <2>2, <2>3, <1>t, NoFileEmpty DEF Unmade, TypeOK
  <2>4. call'[r] = "waiting" /\ from'[r] \in Processes
    BY <2>2 DEF TypeOK
  <2> QED BY <2>3, <2>4 DEF Unmade
<1>3. ASSUME NEW p \in Processes, NEW r \in Requests, Cancel(p, r) PROVE Unmade'
  <2>1. /\ Settle(p, {r}, "rejected") /\ Write(p, Without(Read(p), {r}))
        /\ UNCHANGED <<from, inFlight>> /\ \A q \in Processes : pend'[q] \subseteq pend[q]
    BY <1>3, <1>t DEF Cancel
  <2>2. \A x \in Requests : call'[x] = "none" <=> call[x] = "none"
    BY <2>1, <1>s DEF Outcomes
  <2>3. Known(file') \subseteq Known(file) \cup Known(snapshot)
        /\ snapshot' \in {snapshot, NoFile}
    BY <2>1, <1>w, <1>k, <1>t
  <2> QED BY <2>1, <2>2, <2>3, UnmadeKept
<1>4. ASSUME NEW p \in Processes, NEW r \in Requests, Retry(p, r) PROVE Unmade'
  <2>1. /\ r \in Known(file) \cup Known(snapshot)
        /\ UNCHANGED <<from, call, inFlight>>
        /\ \A q \in Processes : pend'[q] \subseteq pend[q] \cup {r}
    BY <1>4, <1>t DEF Retry, caller, Known
  <2>2. file' = AddPending(Read(p), r) /\ snapshot' \in {snapshot, NoFile}
    BY <1>4, <1>w DEF Retry
  <2>3. Known(file') \subseteq Known(Read(p)) \cup {r}
    BY <2>2 DEF AddPending, Known
  <2>4. Known(file') \subseteq Known(file) \cup Known(snapshot) \cup {r}
    BY <2>3, <1>t
  <2> QED BY <2>1, <2>2, <2>4, NoFileEmpty DEF Unmade
<1>5. ASSUME NEW p \in Processes, DrainExpired(p) PROVE Unmade'
  <2>1. /\ UNCHANGED <<from, call, pend, inFlight>>
        /\ Known(file') \subseteq Known(file) \cup Known(snapshot)
        /\ snapshot' \in {snapshot, NoFile}
    BY <1>5, <1>w, <1>k, <1>t DEF DrainExpired, caller, broker
  <2> QED BY <2>1, UnmadeKept
<1>6. ASSUME NEW p \in Processes, Restart(p) PROVE Unmade'
  <2>1. \A x \in Requests : call'[x] = "none" <=> call[x] = "none"
    BY <1>6, <1>s DEF Restart
  <2>2. /\ \A q \in Processes : pend'[q] \subseteq pend[q] \cup Known(file)
        /\ inFlight' \subseteq inFlight /\ UNCHANGED <<from, file>>
        /\ snapshot' \in {snapshot, NoFile}
    BY <1>6, <1>t DEF Restart, Known
  <2> QED BY <2>1, <2>2, UnmadeKept
<1> QED BY <1>1, <1>2, <1>3, <1>4, <1>5, <1>6 DEF Asked

LEMMA StepUnmade ==
    ASSUME TypeOK, TypeOK', Unmade, [Next]_vars
    PROVE  Unmade'
<1>1. ASSUME Quiet PROVE Unmade'
  BY <1>1, UnmadeKept DEF Quiet, broker
<1> QED BY <1>1, Effects, ServedUnmade, AskedUnmade

-----------------------------------------------------------------------------
(* A caller that waits                                                     *)

Holds(r) == r \in pend[from[r]] \/ (from[r] = Server /\ r \in inFlight)

LEMMA ServedHeld ==
    ASSUME TypeOK, Unmade, CallerHeld, Served
    PROVE  CallerHeld'
<1>t. /\ Server \in Processes /\ pend \in [Processes -> SUBSET Requests]
      /\ expired \in SUBSET Requests /\ inFlight \in SUBSET Requests
      /\ \A r \in Requests : call[r] = "waiting" => from[r] \in Processes /\ Holds(r)
      /\ inFlight \cap pend[Server] = {}
  BY RelayAssumption DEF TypeOK, Unmade, CallerHeld, Holds
<1>1. CASE ShiftNone
  <2>1. /\ pend' = [pend EXCEPT ![Server] = {}] /\ inFlight' = inFlight
        /\ Settle(Server, pend[Server], "rejected")
    BY <1>1 DEF ShiftNone
  <2>2. ASSUME NEW x \in Requests, call'[x] = "waiting" PROVE Holds(x)'
    <3>1. call[x] = "waiting" /\ ~(x \in pend[Server] /\ from[x] = Server)
      BY <2>1, <2>2, SettleTypes DEF Outcomes
    <3> QED BY <1>t, <2>1, <3>1 DEF Holds, Served
  <2> QED BY <1>t, <2>1, <2>2 DEF CallerHeld, Holds
<1>2. ASSUME NEW r \in Requests, Shift(r) PROVE CallerHeld'
  <2>1. PICK D \in SUBSET (pend[Server] \cap expired) :
            /\ pend' = [pend EXCEPT ![Server] = @ \ (D \cup {r})]
            /\ Settle(Server, D, "rejected")
    BY <1>2 DEF Shift
  <2>2. inFlight' = inFlight \cup {r}
    BY <1>2 DEF Shift
  <2>3. ASSUME NEW x \in Requests, call'[x] = "waiting" PROVE Holds(x)'
    <3>1. call[x] = "waiting" /\ ~(x \in D /\ from[x] = Server)
      BY <2>1, <2>3, SettleTypes DEF Outcomes
    <3> QED BY <1>t, <2>1, <2>2, <3>1 DEF Holds, Served
  <2>4. inFlight' \cap pend'[Server] = {}
    BY <1>t, <2>1, <2>2
  <2> QED BY <2>3, <2>4 DEF CallerHeld, Holds
<1>3. ASSUME NEW r \in Requests, Resolve(r) PROVE CallerHeld'
  <2>1. /\ inFlight' = inFlight \ {r} /\ pend' = pend
        /\ Settle(Server, inFlight \cap {r}, "answered")
    BY <1>3 DEF Resolve
  <2>2. ASSUME NEW x \in Requests, call'[x] = "waiting" PROVE Holds(x)'
    <3>1. call[x] = "waiting" /\ ~(x \in inFlight \cap {r} /\ from[x] = Server)
      BY <2>1, <2>2, SettleTypes DEF Outcomes
    <3> QED BY <1>t, <2>1, <3>1 DEF Holds, Served
  <2> QED BY <1>t, <2>1, <2>2 DEF CallerHeld, Holds
<1> QED BY <1>1, <1>2, <1>3 DEF Served

LEMMA AskedHeld ==
    ASSUME TypeOK, Unmade, CallerHeld, Asked
    PROVE  CallerHeld'
<1>t. /\ Server \in Processes /\ pend \in [Processes -> SUBSET Requests]
      /\ from \in [Requests -> Processes \cup {Nobody}]
      /\ expired \in SUBSET Requests /\ inFlight \in SUBSET Requests
      /\ \A r \in Requests : call[r] = "waiting" => from[r] \in Processes /\ Holds(r)
      /\ inFlight \cap pend[Server] = {}
  BY RelayAssumption DEF TypeOK, Unmade, CallerHeld, Holds
<1>1. ASSUME NEW r \in Requests, TimeOut(r) PROVE CallerHeld'
  <2>1. Settle(from[r], {r}, "timedout") /\ UNCHANGED from
    BY <1>1 DEF TimeOut
  <2>2. /\ inFlight' \subseteq inFlight /\ inFlight \ {r} \subseteq inFlight'
        /\ \A q \in Processes : pend'[q] \subseteq pend[q] /\ pend[q] \ {r} \subseteq pend'[q]
    BY <1>1, <1>t DEF TimeOut
  <2>3. ASSUME NEW x \in Requests, call'[x] = "waiting" PROVE Holds(x)'
    <3>1. call[x] = "waiting" /\ x # r
      BY <1>1, <2>1, <2>3, SettleTypes DEF Outcomes, TimeOut
    <3> QED BY <1>t, <2>1, <2>2, <3>1 DEF Holds
  <2> QED BY <1>t, <2>2, <2>3 DEF CallerHeld, Holds
<1>2. ASSUME NEW p \in Processes, NEW r \in Requests, Enqueue(p, r) PROVE CallerHeld'
  <2>1. /\ from' = [from EXCEPT ![r] = p] /\ call' = [call EXCEPT ![r] = "waiting"]
        /\ pend' = [pend EXCEPT ![p] = @ \cup {r}] /\ inFlight' = inFlight
        /\ r \notin inFlight
    BY <1>2 DEF Enqueue, Unmade
  <2>2. ASSUME NEW x \in Requests, x # r, call'[x] = "waiting" PROVE Holds(x)'
    BY <1>t, <2>1, <2>2 DEF Holds, TypeOK
  <2>3. Holds(r)'
    BY <1>t, <2>1 DEF Holds
  <2> QED BY <1>t, <2>1, <2>2, <2>3 DEF CallerHeld, Holds
<1>3. ASSUME NEW p \in Processes, NEW r \in Requests, Cancel(p, r) PROVE CallerHeld'
  <2>1. /\ pend' = [pend EXCEPT ![p] = @ \ {r}] /\ UNCHANGED <<from, inFlight>>
        /\ Settle(p, {r}, "rejected") /\ p # Server
    BY <1>3 DEF Cancel
  <2>2. ASSUME NEW x \in Requests, call'[x] = "waiting" PROVE Holds(x)'
    <3>1. call[x] = "waiting" /\ ~(x = r /\ from[x] = p)
      BY <2>1, <2>2, SettleTypes DEF Outcomes
    <3> QED BY <1>t, <2>1, <3>1 DEF Holds
  <2> QED BY <1>t, <2>1, <2>2 DEF CallerHeld, Holds
<1>4. ASSUME NEW p \in Processes, NEW r \in Requests, Retry(p, r) PROVE CallerHeld'
  BY <1>4, <1>t DEF Retry, caller, CallerHeld, Holds
<1>5. ASSUME NEW p \in Processes, DrainExpired(p) PROVE CallerHeld'
  BY <1>5, <1>t DEF DrainExpired, caller, broker, CallerHeld, Holds
<1>6. ASSUME NEW p \in Processes, Restart(p) PROVE CallerHeld'
  <2>1. /\ Settle(p, Requests, "gone") /\ UNCHANGED from
        /\ \A q \in Processes \ {p} : pend'[q] = pend[q]
        /\ inFlight' = IF p = Server THEN {} ELSE inFlight
    BY <1>6, <1>t DEF Restart
  <2>2. ASSUME NEW x \in Requests, call'[x] = "waiting" PROVE Holds(x)'
    <3>1. call[x] = "waiting" /\ from[x] # p
      BY <2>1, <2>2, SettleTypes
    <3> QED BY <1>t, <2>1, <3>1 DEF Holds
  <2>3. inFlight' \cap pend'[Server] = {}
    BY <1>t, <2>1
  <2> QED BY <2>2, <2>3 DEF CallerHeld, Holds
<1> QED BY <1>1, <1>2, <1>3, <1>4, <1>5, <1>6 DEF Asked

LEMMA StepHeld ==
    ASSUME TypeOK, Unmade, CallerHeld, [Next]_vars
    PROVE  CallerHeld'
<1>1. ASSUME Quiet PROVE CallerHeld'
  BY <1>1 DEF Quiet, broker, CallerHeld
<1> QED BY <1>1, Effects, ServedHeld, AskedHeld

-----------------------------------------------------------------------------
(* What is settled                                                         *)

Settled(r) == from[r] = Server /\ call[r] \in Outcomes

Nowhere(r) == r \notin pend[Server] \cup inFlight \cup Known(file)

LEMMA ForgottenIsNowhere ==
    SettledIsForgotten <=> (~raced => \A r \in Requests : Settled(r) => Nowhere(r))
BY DEF SettledIsForgotten, Settled, Nowhere, Known

LEMMA ServedForgotten ==
    ASSUME TypeOK, CallerHeld, SettledIsForgotten, Served, ~raced',
           NEW x \in Requests, Settled(x)'
    PROVE  Nowhere(x)'
<1>t. /\ Server \in Processes /\ pend \in [Processes -> SUBSET Requests]
      /\ inFlight \cap pend[Server] = {} /\ from' = from
  BY RelayAssumption DEF TypeOK, CallerHeld, Served
<1>w. \A f : Write(Server, f) => ~raced /\ Read(Server) = file /\ file' = f
  BY WriteOfOld
<1>n. ~raced /\ Settled(x) => Nowhere(x)
  BY ForgottenIsNowhere
<1>1. CASE ShiftNone
  <2>1. /\ pend' = [pend EXCEPT ![Server] = {}] /\ inFlight' = inFlight
        /\ Settle(Server, pend[Server], "rejected") /\ pend[Server] \subseteq expired
        /\ ~raced /\ file' = Without(file, expired)
    BY <1>1, <1>w DEF ShiftNone
  <2>2. Known(file') \subseteq Known(file) /\ Known(file') \cap expired = {}
    BY <2>1 DEF Without, Known
  <2>3. CASE Settled(x)
    BY <1>n, <1>t, <2>1, <2>2, <2>3 DEF Nowhere
  <2>4. CASE ~Settled(x)
    <3>1. x \in pend[Server]
      BY <1>t, <2>1, <2>4, SettleTypes DEF Settled, Outcomes
    <3> QED BY <1>t, <2>1, <2>2, <3>1 DEF Nowhere
  <2> QED BY <2>3, <2>4
<1>2. ASSUME NEW r \in Requests, Shift(r) PROVE Nowhere(x)'
  <2>1. PICK D \in SUBSET (pend[Server] \cap expired) :
            /\ pend' = [pend EXCEPT ![Server] = @ \ (D \cup {r})]
            /\ Settle(Server, D, "rejected")
    BY <1>2 DEF Shift
  <2>2. /\ inFlight' = inFlight \cup {r} /\ r \in pend[Server] \ expired
        /\ ~raced /\ file' = MarkInFlight(Without(file, expired), r)
    BY <1>2, <1>w DEF Shift
  <2>3. \A y \in Known(file') : y = r \/ (y \in Known(file) /\ y \notin expired)
    BY <2>2 DEF Without, MarkInFlight, Known
  <2>4. CASE Settled(x)
    BY <1>n, <1>t, <2>1, <2>2, <2>3, <2>4 DEF Nowhere
  <2>5. CASE ~Settled(x)
    <3>1. x \in D
      BY <1>t, <2>1, <2>5, SettleTypes DEF Settled, Outcomes
    <3> QED BY <1>t, <2>1, <2>2, <2>3, <3>1 DEF Nowhere
  <2> QED BY <2>4, <2>5
<1>3. ASSUME NEW r \in Requests, Resolve(r) PROVE Nowhere(x)'
  <2>1. /\ inFlight' = inFlight \ {r} /\ pend' = pend
        /\ Settle(Server, inFlight \cap {r}, "answered")
        /\ ~raced /\ file' = Without(file, {r})
    BY <1>3, <1>w DEF Resolve
  <2>2. Known(file') = Known(file) \ {r}
    BY <2>1 DEF Without, Known
  <2>3. CASE Settled(x)
    BY <1>n, <1>t, <2>1, <2>2, <2>3 DEF Nowhere
  <2>4. CASE ~Settled(x)
    <3>1. x \in inFlight \cap {r}
      BY <1>t, <2>1, <2>4, SettleTypes DEF Settled, Outcomes
    <3> QED BY <1>t, <2>1, <2>2, <3>1 DEF Nowhere
  <2> QED BY <2>3, <2>4
<1> QED BY <1>1, <1>2, <1>3 DEF Served

LEMMA AskedForgotten ==
    ASSUME TypeOK, Unmade, CallerHeld, SettledIsForgotten, Asked, ~raced',
           NEW x \in Requests, Settled(x)'
    PROVE  Nowhere(x)'
<1>t. /\ Server \in Processes /\ pend \in [Processes -> SUBSET Requests]
      /\ inFlight \cap pend[Server] = {}
      /\ Server # Nobody /\ from \in [Requests -> Processes \cup {Nobody}]
  BY RelayAssumption DEF TypeOK, CallerHeld
<1>w. \A p, f : Write(p, f) => ~raced /\ Read(p) = file /\ file' = f
  BY WriteOfOld
<1>n. ~raced /\ Settled(x) => Nowhere(x)
  BY ForgottenIsNowhere
<1>1. ASSUME NEW r \in Requests, TimeOut(r) PROVE Nowhere(x)'
  <2>1. /\ Settle(from[r], {r}, "timedout") /\ UNCHANGED from
        /\ ~raced /\ file' = Without(file, {r})
    BY <1>1, <1>w DEF TimeOut
  <2>2. Known(file') = Known(file) \ {r}
    BY <2>1 DEF Without, Known
  <2>3. /\ inFlight' \subseteq inFlight /\ pend'[Server] \subseteq pend[Server]
        /\ from[r] = Server => r \notin inFlight' \cup pend'[Server]
    BY <1>1, <1>t DEF TimeOut
  <2>4. CASE Settled(x)
    BY <1>n, <2>1, <2>2, <2>3, <2>4 DEF Nowhere
  <2>5. CASE ~Settled(x)
    <3>1. x = r /\ from[r] = Server
      BY <2>1, <2>5, SettleTypes DEF Settled, Outcomes
    <3> QED BY <2>2, <2>3, <3>1 DEF Nowhere
  <2> QED BY <2>4, <2>5
<1>2. ASSUME NEW p \in Processes, NEW r \in Requests, Enqueue(p, r) PROVE Nowhere(x)'
  <2>1. /\ from' = [from EXCEPT ![r] = p] /\ call' = [call EXCEPT ![r] = "waiting"]
        /\ pend' = [pend EXCEPT ![p] = @ \cup {r}] /\ inFlight' = inFlight
        /\ ~raced /\ file' = AddPending(file, r)
    BY <1>2, <1>w DEF Enqueue
  <2>2. Known(file') \subseteq Known(file) \cup {r}
    BY <2>1 DEF AddPending, Known
  <2>3. x # r /\ Settled(x)
    BY <2>1 DEF Settled, Outcomes, TypeOK
  <2> QED BY <1>t, <1>n, <2>1, <2>2, <2>3 DEF Nowhere
<1>3. ASSUME NEW p \in Processes, NEW r \in Requests, Cancel(p, r) PROVE Nowhere(x)'
  <2>1. /\ pend' = [pend EXCEPT ![p] = @ \ {r}] /\ UNCHANGED <<from, inFlight>>
        /\ Settle(p, {r}, "rejected") /\ p # Server
        /\ ~raced /\ file' = Without(file, {r})
    BY <1>3, <1>w DEF Cancel
  <2>2. Known(file') = Known(file) \ {r}
    BY <2>1 DEF Without, Known
  <2>3. Settled(x)
    BY <2>1, SettleTypes DEF Settled, Outcomes
  <2> QED BY <1>t, <1>n, <2>1, <2>2, <2>3 DEF Nowhere
<1>4. ASSUME NEW p \in Processes, NEW r \in Requests, Retry(p, r) PROVE Nowhere(x)'
  <2>1. /\ r \in file.inFlight /\ p # Server /\ ~raced /\ file' = AddPending(file, r)
        /\ pend' = [pend EXCEPT ![p] = @ \cup {r}] /\ UNCHANGED <<from, call, inFlight>>
    BY <1>4, <1>w DEF Retry, caller
  <2>2. Known(file') = Known(file)
    BY <2>1 DEF AddPending, Known
  <2> QED BY <1>t, <1>n, <2>1, <2>2 DEF Settled, Nowhere
<1>5. ASSUME NEW p \in Processes, DrainExpired(p) PROVE Nowhere(x)'
  <2>1. ~raced /\ file' = Without(file, expired) /\ UNCHANGED <<from, call, pend, inFlight>>
    BY <1>5, <1>w DEF DrainExpired, caller, broker
  <2>2. Known(file') \subseteq Known(file)
    BY <2>1 DEF Without, Known
  <2> QED BY <1>n, <2>1, <2>2 DEF Settled, Nowhere
<1>6. ASSUME NEW p \in Processes, Restart(p) PROVE Nowhere(x)'
  <2>1. /\ Settle(p, Requests, "gone") /\ UNCHANGED <<from, file, raced>>
        /\ inFlight' \subseteq inFlight
        /\ pend' = [pend EXCEPT ![p] = (file.pending \cup file.inFlight) \ expired]
    BY <1>6 DEF Restart
  <2>2. Settled(x)
    BY <2>1, SettleTypes DEF Settled, Outcomes
  <2> QED BY <1>t, <1>n, <2>1, <2>2 DEF Nowhere, Known
<1> QED BY <1>1, <1>2, <1>3, <1>4, <1>5, <1>6 DEF Asked

LEMMA StepForgotten ==
    ASSUME TypeOK, Unmade, CallerHeld, SettledIsForgotten, [Next]_vars
    PROVE  SettledIsForgotten'
<1>1. ASSUME ~raced', NEW x \in Requests, Settled(x)' PROVE Nowhere(x)'
  <2>1. ASSUME Quiet PROVE Nowhere(x)'
    BY <1>1, <2>1, ForgottenIsNowhere DEF Quiet, broker, Settled, Nowhere
  <2> QED BY <1>1, <2>1, Effects, ServedForgotten, AskedForgotten
<1> QED BY <1>1 DEF SettledIsForgotten, Settled, Nowhere, Known

-----------------------------------------------------------------------------
(* The theorems                                                            *)

LEMMA RelayStart == Init => RelayInv
<1> SUFFICES ASSUME Init PROVE RelayInv
  OBVIOUS
<1>1. TypeOK
  <2>1. /\ 0 \in 0..MaxAbandoned /\ 0 \in 0..MaxRestarts /\ 0 \in 0..MaxSwitches
    BY RelayAssumption
  <2>2. PeerTypes
    <3>1. loop = [l \in Loops |-> [at |-> "idle", req |-> Nothing]]
      BY DEF Init, At
    <3>2. \A l \in Loops : loop[l].at = "idle"
      BY <3>1
    <3>3. loop \in [Loops -> [at : Steps, req : Requests \cup {Nothing}]]
      BY <3>1 DEF Steps
    <3> QED BY <2>1, <3>2, <3>3 DEF Init, PeerTypes
  <2>3. BrokerTypes
    BY NoFileEmpty DEF Init, BrokerTypes
  <2> QED BY <2>2, <2>3, TypesSplit
<1>2. Unmade /\ CallerHeld
  BY NoFileEmpty DEF Init, Unmade, CallerHeld
<1>3. SettledIsForgotten
  BY DEF Init, SettledIsForgotten, Outcomes
<1> QED BY <1>1, <1>2, <1>3 DEF RelayInv

LEMMA RelayStep == RelayInv /\ [Next]_vars => RelayInv'
BY StepTypes, StepUnmade, StepHeld, StepForgotten DEF RelayInv

LEMMA RelayAlways == Spec => []RelayInv
BY RelayStart, RelayStep, PTL DEF Spec

(* The variables of the relay keep their types.                            *)
THEOREM TypeCorrect == Spec => []TypeOK
<1>1. RelayInv => TypeOK
  BY DEF RelayInv
<1> QED BY <1>1, RelayAlways, PTL

(* A caller that waits in enqueue is held by the broker of its process,    *)
(* whatever the other processes and the peer do: its timer or an answer    *)
(* finds it.                                                               *)
THEOREM CallerHeldHolds == Spec => []CallerHeld
<1>1. RelayInv => CallerHeld
  BY DEF RelayInv
<1> QED BY <1>1, RelayAlways, PTL

(* What the connector has answered, timed out or rejected is neither in    *)
(* its memory nor in the queue file, so that a restart cannot hand it out  *)
(* again, unless some process wrote back an old copy of the file.          *)
THEOREM SettledIsForgottenHolds == Spec => []SettledIsForgotten
<1>1. RelayInv => SettledIsForgotten
  BY DEF RelayInv
<1> QED BY <1>1, RelayAlways, PTL

=============================================================================

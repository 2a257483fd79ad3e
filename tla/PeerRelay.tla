----------------------------- MODULE PeerRelay -----------------------------
(***************************************************************************)
(* Requests to a paired node that cannot be reached and therefore asks for *)
(* its work: src/src/peers/peer-relay-broker.ts and peer-relay-store.ts on *)
(* this node, the relay routes of peer-server.ts, and the polling loop of  *)
(* peer-outbound-relay.ts on the other node.  One such peer.               *)
(*                                                                         *)
(* Every process has a broker of its own on the same queue file, but the   *)
(* peer polls only the Server, the process of the connector.  The others   *)
(* (the dashboard, the CLI) enqueue, cancel, retry and drain.  The store   *)
(* takes no lock: it reads the file and writes it back, and another        *)
(* process may write in between.  A read that is not yet written back is   *)
(* kept in reader and snapshot.                                            *)
(*                                                                         *)
(* The order of requests is left out: nothing here depends on it.          *)
(***************************************************************************)
EXTENDS Naturals, FiniteSets

CONSTANTS
    Requests,
    Processes, Server,
    Loops,          \* polling loops the peer can have going at one time
    Nobody, Nothing,
    MaxRestarts, MaxAbandoned, MaxSwitches

ASSUME RelayAssumption ==
    /\ Server \in Processes
    /\ Nobody \notin Processes /\ Nothing \notin Requests
    /\ MaxRestarts \in Nat /\ MaxAbandoned \in Nat /\ MaxSwitches \in Nat

VARIABLES
    from, call,       \* the caller of a request: its process, how it fares
    expired,          \* requests whose expiresAt has passed
    pend,             \* pend[p]: requests pending in the broker of p
    inFlight,         \* requests handed out by the broker of the Server
    file,             \* the queue file
    reader, snapshot, \* who has read the file and not written it, what it read
    raced,            \* history: somebody wrote what it had read too early
    loop, timer,      \* the peer's loops, and whether the next one is scheduled
    allowed,          \* the peer lets itself be used
    abandoned,        \* polls at the Server whose peer has hung up
    restarts, switches

caller == <<from, call, expired>>
broker == <<pend, inFlight>>
store == <<file, reader, snapshot, raced>>
peer == <<loop, timer, allowed, switches>>
vars == <<caller, broker, store, peer, abandoned, restarts>>

File == [pending : SUBSET Requests, inFlight : SUBSET Requests]
Outcomes == {"answered", "timedout", "rejected"}
Steps == {"idle", "polling", "executing", "posting"}

TypeOK ==
    /\ from \in [Requests -> Processes \cup {Nobody}]
    /\ call \in [Requests -> {"none", "waiting", "gone"} \cup Outcomes]
    /\ expired \in SUBSET Requests
    /\ pend \in [Processes -> SUBSET Requests]
    /\ inFlight \in SUBSET Requests
    /\ file \in File
    /\ reader \in Processes \cup {Nobody}
    /\ snapshot \in File
    /\ raced \in BOOLEAN
    /\ loop \in [Loops -> [at : Steps, req : Requests \cup {Nothing}]]
    /\ \A l \in Loops : loop[l].at \in {"executing", "posting"} => loop[l].req \in Requests
    /\ timer \in BOOLEAN /\ allowed \in BOOLEAN
    /\ abandoned \in 0..MaxAbandoned
    /\ restarts \in 0..MaxRestarts /\ switches \in 0..MaxSwitches

At(s) == [at |-> s, req |-> Nothing]
NoFile == [pending |-> {}, inFlight |-> {}]

Init ==
    /\ from = [r \in Requests |-> Nobody]
    /\ call = [r \in Requests |-> "none"]
    /\ expired = {}
    /\ pend = [p \in Processes |-> {}]
    /\ inFlight = {}
    /\ file = NoFile
    /\ reader = Nobody /\ snapshot = NoFile /\ raced = FALSE
    /\ loop = [l \in Loops |-> At("idle")]
    /\ timer = TRUE /\ allowed = TRUE
    /\ abandoned = 0
    /\ restarts = 0 /\ switches = 0

-----------------------------------------------------------------------------
(* The queue file                                                          *)

AddPending(f, r) ==
    [pending |-> f.pending \cup {r}, inFlight |-> f.inFlight \ {r}]

MarkInFlight(f, r) ==
    [pending |-> f.pending \ {r}, inFlight |-> f.inFlight \cup {r}]

\* remove, complete and cleanupExpired
Without(f, R) ==
    [pending |-> f.pending \ R, inFlight |-> f.inFlight \ R]

\* What a mutation of p starts from: a process that has read the file does
\* nothing else until it has written it.
Read(p) == IF reader = p THEN snapshot ELSE file

Write(p, f) ==
    /\ file' = f
    /\ raced' = (raced \/ (reader = p /\ snapshot # file))
    /\ reader' = IF reader = p THEN Nobody ELSE reader
    /\ snapshot' = IF reader = p THEN NoFile ELSE snapshot

\* One such overlap is enough to see what it does.
ReadEarly(p) ==
    /\ reader = Nobody /\ ~raced
    /\ reader' = p /\ snapshot' = file
    /\ UNCHANGED <<file, raced, caller, broker, peer, abandoned, restarts>>

-----------------------------------------------------------------------------
(* Callers                                                                 *)

\* The promise of a request is settled, if this process made it.
Settle(p, R, outcome) ==
    call' = [r \in Requests |->
                IF r \in R /\ from[r] = p /\ call[r] = "waiting" THEN outcome ELSE call[r]]

Enqueue(p, r) ==
    /\ call[r] = "none"
    /\ from' = [from EXCEPT ![r] = p]
    /\ call' = [call EXCEPT ![r] = "waiting"]
    /\ pend' = [pend EXCEPT ![p] = @ \cup {r}]
    /\ Write(p, AddPending(Read(p), r))
    /\ UNCHANGED <<expired, inFlight, peer, abandoned, restarts>>

Expire(r) ==
    /\ call[r] # "none" /\ r \notin expired
    /\ expired' = expired \cup {r}
    /\ UNCHANGED <<from, call, broker, store, peer, abandoned, restarts>>

\* Fault: remove looks among the pending requests only.
TimeOutPending(r) ==
    LET p == from[r] IN
    /\ call[r] = "waiting" /\ r \in expired
    /\ r \in pend[p]
    /\ pend' = [pend EXCEPT ![p] = @ \ {r}]
    /\ Settle(p, {r}, "timedout")
    /\ Write(p, Without(Read(p), {r}))
    /\ UNCHANGED <<from, expired, inFlight, peer, abandoned, restarts>>

\* The caller's timer, a second after the request has expired.
TimeOut(r) ==
    LET p == from[r] IN
    /\ call[r] = "waiting" /\ r \in expired
    /\ \/ /\ p = Server /\ r \in inFlight
          /\ inFlight' = inFlight \ {r}
          /\ UNCHANGED pend
       \/ /\ p = Server => r \notin inFlight
          /\ r \in pend[p]
          /\ pend' = [pend EXCEPT ![p] = @ \ {r}]
          /\ UNCHANGED inFlight
    /\ Settle(p, {r}, "timedout")
    /\ Write(p, Without(Read(p), {r}))
    /\ UNCHANGED <<from, expired, peer, abandoned, restarts>>

\* cancel, which the dashboard offers: it has nothing in flight itself.
Cancel(p, r) ==
    /\ p # Server /\ call[r] # "none"
    /\ pend' = [pend EXCEPT ![p] = @ \ {r}]
    /\ Settle(p, {r}, "rejected")
    /\ Write(p, Without(Read(p), {r}))
    /\ UNCHANGED <<from, expired, inFlight, peer, abandoned, restarts>>

\* retry, likewise: everything the file calls in flight looks stale to it.
Retry(p, r) ==
    /\ p # Server /\ r \in Read(p).inFlight
    /\ pend' = [pend EXCEPT ![p] = @ \cup {r}]
    /\ Write(p, AddPending(Read(p), r))
    /\ UNCHANGED <<caller, inFlight, peer, abandoned, restarts>>

DrainExpired(p) ==
    /\ p # Server
    /\ Write(p, Without(Read(p), expired))
    /\ UNCHANGED <<caller, broker, peer, abandoned, restarts>>

\* A process starts anew: its callers are gone, and what the file holds is
\* pending again, with nobody to answer to.
Restart(p) ==
    /\ restarts < MaxRestarts
    /\ restarts' = restarts + 1
    /\ Settle(p, Requests, "gone")
    /\ pend' = [pend EXCEPT ![p] = (file.pending \cup file.inFlight) \ expired]
    /\ reader' = IF reader = p THEN Nobody ELSE reader
    /\ snapshot' = IF reader = p THEN NoFile ELSE snapshot
    /\ IF p = Server
       THEN /\ inFlight' = {} /\ abandoned' = 0
            /\ loop' = [l \in Loops |->
                          IF loop[l].at = "polling" THEN At("idle") ELSE loop[l]]
            /\ timer' = (timer \/ \E l \in Loops : loop[l].at = "polling")
       ELSE UNCHANGED <<inFlight, abandoned, loop, timer>>
    /\ UNCHANGED <<from, expired, file, raced, allowed, switches>>

-----------------------------------------------------------------------------
(* The Server hands out requests and takes their results                   *)

\* Fault: the request stays pending while it is in flight.
ShiftKeeps(r) ==
    /\ r \in pend[Server] \ expired
    /\ UNCHANGED pend
    /\ inFlight' = inFlight \cup {r}
    /\ Settle(Server, {}, "rejected")
    /\ Write(Server, MarkInFlight(Without(Read(Server), expired), r))

\* shift finds a request; the expired ones before it are dropped.
Shift(r) ==
    /\ r \in pend[Server] \ expired
    /\ \E D \in SUBSET (pend[Server] \cap expired) :
          /\ pend' = [pend EXCEPT ![Server] = @ \ (D \cup {r})]
          /\ Settle(Server, D, "rejected")
    /\ inFlight' = inFlight \cup {r}
    /\ Write(Server, MarkInFlight(Without(Read(Server), expired), r))

\* shift finds none: whatever was pending had expired.
ShiftNone ==
    /\ pend[Server] \subseteq expired
    /\ pend' = [pend EXCEPT ![Server] = {}]
    /\ Settle(Server, pend[Server], "rejected")
    /\ Write(Server, Without(Read(Server), expired))
    /\ UNCHANGED inFlight

\* Fault: a request in flight is answered, and the file keeps it.
ResolveInMemory(r) ==
    IF r \in inFlight
    THEN /\ inFlight' = inFlight \ {r}
         /\ Settle(Server, {r}, "answered")
         /\ UNCHANGED <<pend, store>>
    ELSE /\ Write(Server, Without(Read(Server), {r}))
         /\ UNCHANGED <<broker, call>>

\* resolve: a request that is not in flight is only struck from the file,
\* be it that its caller has given up or that the Server has restarted.
Resolve(r) ==
    /\ inFlight' = inFlight \ {r}
    /\ Settle(Server, inFlight \cap {r}, "answered")
    /\ Write(Server, Without(Read(Server), {r}))
    /\ UNCHANGED pend

\* A poll that its peer has given up goes on, and may take a request.
HandToNobody(r) ==
    /\ abandoned > 0
    /\ abandoned' = abandoned - 1
    /\ Shift(r)
    /\ UNCHANGED <<from, expired, peer, restarts>>

AbandonedEnds ==
    /\ abandoned > 0
    /\ abandoned' = abandoned - 1
    /\ ShiftNone
    /\ UNCHANGED <<from, expired, peer, restarts>>

-----------------------------------------------------------------------------
(* The peer                                                                *)

Goto(l, step) == loop' = [loop EXCEPT ![l] = step]

\* The finally clause of a loop: schedule does nothing if a timer is set.
EndLoop(l) == Goto(l, At("idle")) /\ timer' = TRUE

\* The timer of schedule: a peer that is not allowed ends the chain here.
Fire(l) ==
    /\ timer /\ loop[l].at = "idle"
    /\ timer' = FALSE
    /\ Goto(l, At(IF allowed THEN "polling" ELSE "idle"))
    /\ UNCHANGED <<allowed, switches, caller, broker, store, abandoned, restarts>>

Hand(l, r) ==
    /\ loop[l].at = "polling"
    /\ Shift(r)
    /\ Goto(l, [at |-> "executing", req |-> r])
    /\ UNCHANGED <<from, expired, timer, allowed, switches, abandoned, restarts>>

\* An open poll looks again every half second, until its deadline.
PollAgain(l) ==
    /\ loop[l].at = "polling"
    /\ ShiftNone
    /\ UNCHANGED <<from, expired, peer, abandoned, restarts>>

PollEmpty(l) ==
    /\ loop[l].at = "polling"
    /\ ShiftNone
    /\ EndLoop(l)
    /\ UNCHANGED <<from, expired, allowed, switches, abandoned, restarts>>

\* The connection breaks: the Server does not notice.
PollBreaks(l) ==
    /\ loop[l].at = "polling" /\ abandoned < MaxAbandoned
    /\ abandoned' = abandoned + 1
    /\ EndLoop(l)
    /\ UNCHANGED <<allowed, switches, caller, broker, store, restarts>>

Execute(l) ==
    /\ loop[l].at = "executing"
    /\ Goto(l, [loop[l] EXCEPT !.at = "posting"])
    /\ UNCHANGED <<timer, allowed, switches, caller, broker, store, abandoned, restarts>>

\* Whether the Server says 200 or 404, the loop goes on.
Post(l) ==
    /\ loop[l].at = "posting"
    /\ Resolve(loop[l].req)
    /\ EndLoop(l)
    /\ UNCHANGED <<from, expired, allowed, switches, abandoned, restarts>>

\* The result does not arrive, and is not sent again.
PostFails(l) ==
    /\ loop[l].at = "posting"
    /\ EndLoop(l)
    /\ UNCHANGED <<allowed, switches, caller, broker, store, abandoned, restarts>>

\* Fault: the known peers are scheduled at the start only.
RefreshNever == timer /\ UNCHANGED vars

\* scheduleKnownPeers, on its interval: also while a loop is going on.
Refresh ==
    /\ allowed
    /\ timer' = TRUE
    /\ UNCHANGED <<loop, allowed, switches, caller, broker, store, abandoned, restarts>>

\* The peer's operator disables or enables it.
Switch ==
    /\ switches < MaxSwitches
    /\ switches' = switches + 1
    /\ allowed' = ~allowed
    /\ UNCHANGED <<loop, timer, caller, broker, store, abandoned, restarts>>

PeerRestarts ==
    /\ restarts < MaxRestarts
    /\ restarts' = restarts + 1
    /\ loop' = [l \in Loops |-> At("idle")]
    /\ timer' = allowed
    /\ UNCHANGED <<allowed, switches, caller, broker, store, abandoned>>

-----------------------------------------------------------------------------
Broker(p) ==
    \/ ReadEarly(p)
    \/ Restart(p)
    \/ DrainExpired(p)
    \/ \E r \in Requests : Enqueue(p, r) \/ Cancel(p, r) \/ Retry(p, r)

Clock == \E r \in Requests : Expire(r) \/ TimeOut(r) \/ HandToNobody(r)

\* A poll is answered, at its deadline at the latest.
Polled(l) == PollEmpty(l) \/ \E r \in Requests : Hand(l, r)
Posted(l) == Post(l) \/ PostFails(l)

Loop(l) ==
    \/ Fire(l) \/ PollAgain(l) \/ PollBreaks(l)
    \/ Polled(l) \/ Execute(l) \/ Posted(l)

Next ==
    \/ \E p \in Processes : Broker(p)
    \/ Clock
    \/ AbandonedEnds
    \/ \E l \in Loops : Loop(l)
    \/ Refresh \/ Switch \/ PeerRestarts

Spec == Init /\ [][Next]_vars

\* Timers fire; a poll has its deadline, a post its time limit, and what the
\* peer executes comes to an end.
Fairness ==
    /\ \A r \in Requests : WF_vars(Expire(r)) /\ WF_vars(TimeOut(r))
    /\ \A l \in Loops : /\ WF_vars(Fire(l)) /\ WF_vars(Polled(l))
                        /\ WF_vars(Execute(l)) /\ WF_vars(Posted(l))
    /\ WF_vars(Refresh)

FairSpec == Spec /\ Fairness

-----------------------------------------------------------------------------
(* Properties                                                              *)

(* A caller that waits is not forgotten: whatever restarts, cancels and    *)
(* retries of other processes do, its own broker holds its request, pending *)
(* or in flight and never both, so that its timer or its answer finds it.  *)
CallerHeld ==
    /\ inFlight \cap pend[Server] = {}
    /\ \A r \in Requests : call[r] = "waiting" =>
          \/ r \in pend[from[r]]
          \/ from[r] = Server /\ r \in inFlight

(* What the connector has settled leaves no trace that a restart would     *)
(* hand out again, as long as no process wrote back an old copy of the     *)
(* file.                                                                   *)
SettledIsForgotten ==
    ~raced => \A r \in Requests :
        from[r] = Server /\ call[r] \in Outcomes =>
            r \notin pend[Server] \cup inFlight \cup file.pending \cup file.inFlight

(* Every call comes to an end, whether the peer polls or not, and whatever *)
(* is lost on the way.                                                     *)
EveryCallEnds == \A r \in Requests : (call[r] = "waiting") ~> (call[r] # "waiting")

(* A peer that stays allowed keeps polling, although the loop of a peer    *)
(* that was switched off for a while has not been scheduled again.         *)
PeerKeepsPolling == <>[]allowed => []<>(\E l \in Loops : loop[l].at = "polling")

=============================================================================

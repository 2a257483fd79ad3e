---------------------------- MODULE DocumentLock ----------------------------
(***************************************************************************)
(* One JSON document of src/src/state/persistence.ts, updated by several   *)
(* processes under a lock directory: updateJsonFileAtomic with its lock,   *)
(* its stale-lock removal, its temporary file and its backup.              *)
(*                                                                         *)
(* A document is the set of the updates it contains.  The functions are    *)
(* synchronous, so a process is in one update at a time, and only other    *)
(* processes interleave; pc[p] is the next system call of p.               *)
(*                                                                         *)
(* owner says who made the lock directory: the code cannot see it.  "Gone" *)
(* is a process that died with the lock.  old says that the directory is   *)
(* more than 30 s old.                                                     *)
(***************************************************************************)
EXTENDS Naturals, FiniteSets

CONSTANTS
    Processes,
    Updates,
    NoUpdate,       \* what an idle process works on
    Free, Gone,     \* owner of no lock, owner that died
    MaxSlow,        \* owners suspended for 30 s
    MaxCrashes,
    MaxFailures,    \* writes refused by the file system
    MaxDamages      \* damages of the primary file from outside

Docs == SUBSET Updates

\* What is stored under a name.
Json(d) == [is |-> "json", doc |-> d]
Absent == [is |-> "absent", doc |-> {}]
Broken == [is |-> "broken", doc |-> {}]
File == {Json(d) : d \in Docs} \cup {Absent, Broken}

ASSUME StoreAssumption ==
    /\ NoUpdate \notin Updates
    /\ Free \notin Processes /\ Gone \notin Processes /\ Free # Gone
    /\ MaxSlow \in Nat /\ MaxCrashes \in Nat
    /\ MaxFailures \in Nat /\ MaxDamages \in Nat

VARIABLES
    primary, backup, \* the file and its .bak
    owner, old,      \* the lock directory
    pc, op,          \* where p stands, and the update it makes
    base,            \* what p read
    recovered,       \* p read it from the backup
    late,            \* p has waited for 10 s
    acked,           \* history: updates that returned without an error
    stolen,          \* history: the lock of a live process was removed
    bare,            \* history: the file was damaged without a readable backup
    slow, crashes, failures, damages \* what has gone wrong so far

control == <<pc, op, base, recovered, late>>
files == <<primary, backup>>
lock == <<owner, old>>
faults == <<slow, crashes, failures, damages>>
vars == <<files, lock, control, acked, stolen, bare, faults>>

Waiting == {"mkdir", "stat", "remove", "wait"}
Writing == {"copy", "copying", "rename"}
Holding == Writing \cup {"read", "release", "abandon"}

TypeOK ==
    /\ primary \in File /\ backup \in File
    /\ owner \in Processes \cup {Free, Gone}
    /\ old \in BOOLEAN
    /\ pc \in [Processes -> {"idle"} \cup Waiting \cup Holding]
    /\ op \in [Processes -> Updates \cup {NoUpdate}]
    /\ \A p \in Processes : pc[p] # "idle" => op[p] \in Updates
    /\ base \in [Processes -> Docs]
    /\ recovered \in [Processes -> BOOLEAN]
    /\ late \in [Processes -> BOOLEAN]
    /\ acked \in Docs
    /\ stolen \in BOOLEAN /\ bare \in BOOLEAN
    /\ slow \in 0..MaxSlow /\ crashes \in 0..MaxCrashes
    /\ failures \in 0..MaxFailures /\ damages \in 0..MaxDamages

Init ==
    /\ primary = Absent /\ backup = Absent
    /\ owner = Free /\ old = FALSE
    /\ pc = [p \in Processes |-> "idle"]
    /\ op = [p \in Processes |-> NoUpdate]
    /\ base = [p \in Processes |-> {}]
    /\ recovered = [p \in Processes |-> FALSE]
    /\ late = [p \in Processes |-> FALSE]
    /\ acked = {}
    /\ stolen = FALSE /\ bare = FALSE
    /\ slow = 0 /\ crashes = 0 /\ failures = 0 /\ damages = 0

\* What a reader gets: the file, or else its backup, or else an error (Broken);
\* an empty document when there is no file yet.
Contents ==
    IF primary.is = "json" THEN primary
    ELSE IF backup.is = "json" THEN backup
    ELSE IF primary = Absent THEN Json({}) ELSE Broken

Goto(p, l) == pc' = [pc EXCEPT ![p] = l]

\* The call is over, and its variables with it.
Leave(p) ==
    /\ Goto(p, "idle")
    /\ op' = [op EXCEPT ![p] = NoUpdate]
    /\ base' = [base EXCEPT ![p] = {}]
    /\ recovered' = [recovered EXCEPT ![p] = FALSE]
    /\ late' = [late EXCEPT ![p] = FALSE]

-----------------------------------------------------------------------------
(* The lock                                                                *)

\* Somebody asks for an update, for the first time or again.
Start(p, u) ==
    /\ pc[p] = "idle" /\ u \notin acked
    /\ \A q \in Processes : op[q] # u
    /\ Goto(p, "mkdir")
    /\ op' = [op EXCEPT ![p] = u]
    /\ UNCHANGED <<files, lock, base, recovered, late, acked, stolen, bare, faults>>

\* Fault: the directory is made with the option "recursive", which never fails.
TakeLockAnyway(p) ==
    /\ pc[p] = "mkdir"
    /\ owner' = p
    /\ Goto(p, "read")
    /\ UNCHANGED <<files, old, op, base, recovered, late, acked, stolen, bare, faults>>

TakeLock(p) ==
    /\ pc[p] = "mkdir" /\ owner = Free
    /\ owner' = p
    /\ Goto(p, "read")
    /\ UNCHANGED <<files, old, op, base, recovered, late, acked, stolen, bare, faults>>

FindLocked(p) ==
    /\ pc[p] = "mkdir" /\ owner # Free
    /\ Goto(p, "stat")
    /\ UNCHANGED <<files, lock, op, base, recovered, late, acked, stolen, bare, faults>>

\* Fault: the age is compared in the wrong unit, and no lock is ever stale.
StatNever(p) ==
    /\ pc[p] = "stat"
    /\ Goto(p, "wait")
    /\ UNCHANGED <<files, lock, op, base, recovered, late, acked, stolen, bare, faults>>

\* removeStaleLock looks at the age of the directory ...
Stat(p) ==
    /\ pc[p] = "stat"
    /\ Goto(p, IF old THEN "remove" ELSE "wait")
    /\ UNCHANGED <<files, lock, op, base, recovered, late, acked, stolen, bare, faults>>

\* ... and then removes whatever directory is there.
RemoveStale(p) ==
    /\ pc[p] = "remove"
    /\ owner' = Free /\ old' = FALSE
    /\ stolen' = (stolen \/ owner \in Processes)
    /\ Goto(p, "wait")
    /\ UNCHANGED <<files, op, base, recovered, late, acked, bare, faults>>

TryAgain(p) ==
    /\ pc[p] = "wait" /\ ~late[p]
    /\ Goto(p, "mkdir")
    /\ UNCHANGED <<files, lock, op, base, recovered, late, acked, stolen, bare, faults>>

GiveUp(p) ==
    /\ pc[p] = "wait" /\ late[p]
    /\ Leave(p)
    /\ UNCHANGED <<files, lock, acked, stolen, bare, faults>>

\* The end of an update that was written, and of one that threw: the lock
\* directory is removed, whoever made it.
Unlock(p) ==
    /\ owner' = Free /\ old' = FALSE
    /\ stolen' = (stolen \/ owner \in Processes \ {p})
    /\ Leave(p)
    /\ UNCHANGED <<files, bare, faults>>

Release(p) ==
    /\ pc[p] = "release"
    /\ Unlock(p)
    /\ acked' = acked \cup {op[p]}

Abandon(p) ==
    /\ pc[p] = "abandon"
    /\ Unlock(p)
    /\ UNCHANGED acked

-----------------------------------------------------------------------------
(* The update                                                              *)

Read(p) ==
    /\ pc[p] = "read"
    /\ \/ /\ Contents # Broken
          /\ base' = [base EXCEPT ![p] = Contents.doc]
          /\ recovered' = [recovered EXCEPT ![p] = primary.is # "json" /\ backup.is = "json"]
          /\ Goto(p, "copy")
       \/ /\ Contents = Broken
          /\ Goto(p, "abandon")
          /\ UNCHANGED <<base, recovered>>
    /\ UNCHANGED <<files, lock, op, late, acked, stolen, bare, faults>>

\* Fault: the backup is overwritten whatever it was used for.
BeginCopyAlways(p) ==
    /\ pc[p] = "copy"
    /\ IF primary # Absent
       THEN backup' = Broken /\ Goto(p, "copying")
       ELSE UNCHANGED backup /\ Goto(p, "rename")
    /\ UNCHANGED <<primary, lock, op, base, recovered, late, acked, stolen, bare, faults>>

\* The temporary file is written.  Copying the file over its backup takes two
\* steps, and is left out when the backup is the better one.
BeginCopy(p) ==
    /\ pc[p] = "copy"
    /\ IF primary # Absent /\ ~recovered[p]
       THEN backup' = Broken /\ Goto(p, "copying")
       ELSE UNCHANGED backup /\ Goto(p, "rename")
    /\ UNCHANGED <<primary, lock, op, base, recovered, late, acked, stolen, bare, faults>>

EndCopy(p) ==
    /\ pc[p] = "copying"
    /\ backup' = primary
    /\ Goto(p, "rename")
    /\ UNCHANGED <<primary, lock, op, base, recovered, late, acked, stolen, bare, faults>>

Rename(p) ==
    /\ pc[p] = "rename"
    /\ primary' = Json(base[p] \cup {op[p]})
    /\ Goto(p, "release")
    /\ UNCHANGED <<backup, lock, op, base, recovered, late, acked, stolen, bare, faults>>

\* A full disk, for example: the temporary file goes, and a copy that was
\* not finished.
WriteFails(p) ==
    /\ pc[p] \in Writing /\ failures < MaxFailures
    /\ backup' = IF pc[p] = "copying" THEN Absent ELSE backup
    /\ Goto(p, "abandon")
    /\ failures' = failures + 1
    /\ UNCHANGED <<primary, lock, op, base, recovered, late, acked, stolen, bare,
                   slow, crashes, damages>>

-----------------------------------------------------------------------------
(* Time and faults                                                         *)

Late(p) ==
    /\ pc[p] \in Waiting /\ ~late[p]
    /\ late' = [late EXCEPT ![p] = TRUE]
    /\ UNCHANGED <<files, lock, pc, op, base, recovered, acked, stolen, bare, faults>>

\* 30 seconds pass: with a dead owner sooner or later, with a live one only
\* when it is suspended in an update that takes milliseconds.
AgeLock ==
    /\ owner = Gone /\ ~old
    /\ old' = TRUE
    /\ UNCHANGED <<files, owner, control, acked, stolen, bare, faults>>

Suspend ==
    /\ owner \in Processes /\ ~old /\ slow < MaxSlow
    /\ old' = TRUE
    /\ slow' = slow + 1
    /\ UNCHANGED <<files, owner, control, acked, stolen, bare, crashes, failures, damages>>

Crash(p) ==
    /\ pc[p] # "idle" /\ crashes < MaxCrashes
    /\ Leave(p)
    /\ owner' = IF owner = p THEN Gone ELSE owner
    /\ crashes' = crashes + 1
    /\ UNCHANGED <<files, old, acked, stolen, bare, slow, failures, damages>>

\* The file becomes unreadable while nobody is writing it.
Damage ==
    /\ primary.is = "json" /\ damages < MaxDamages
    /\ \A p \in Processes : pc[p] \notin Writing
    /\ primary' = Broken
    /\ bare' = (bare \/ backup.is # "json")
    /\ damages' = damages + 1
    /\ UNCHANGED <<backup, lock, control, acked, stolen, slow, crashes, failures>>

-----------------------------------------------------------------------------
Step(p) ==
    \/ TakeLock(p) \/ FindLocked(p) \/ Stat(p) \/ RemoveStale(p)
    \/ TryAgain(p) \/ GiveUp(p) \/ Release(p) \/ Abandon(p)
    \/ Read(p) \/ BeginCopy(p) \/ EndCopy(p) \/ Rename(p)

Next ==
    \/ \E p \in Processes, u \in Updates : Start(p, u)
    \/ \E p \in Processes : Step(p) \/ WriteFails(p) \/ Late(p) \/ Crash(p)
    \/ AgeLock \/ Suspend \/ Damage

Spec == Init /\ [][Next]_vars

\* A process that runs goes on, clocks tick, and stores are used again.
Fairness ==
    /\ \A p \in Processes : WF_vars(Step(p)) /\ WF_vars(Late(p))
    /\ \A u \in Updates : WF_vars(\E p \in Processes : Start(p, u))
    /\ WF_vars(AgeLock)

FairSpec == Spec /\ Fairness

-----------------------------------------------------------------------------
(* Properties                                                              *)

AD == INSTANCE AtomicDocument WITH doc <- Contents.doc, trusted <- ~stolen /\ ~bare

\* What readers see is a document to which updates are applied one at a time
\* and whole, through every crash, failed write and damage; nothing else is
\* possible until the lock of a live process is removed, or the file is
\* damaged while there is no backup (withJsonFileLock, writeTextFileAtomic).
IsAtomic == AD!Spec

\* Every damage of the file costs one update that had returned, at most: the
\* backup is one update old and a recovery does not overwrite it with the
\* damaged file (preserveExistingBackup).  Without damage no update is lost.
OneUpdatePerDamage ==
    ~stolen /\ ~bare => Contents # Broken /\ Cardinality(acked \ Contents.doc) <= damages

\* Nobody waits for a lock for ever, and the lock of a dead owner goes, by way
\* of callers that time out after 10 s long before it is stale at 30 s.
UpdatesEnd == \A p \in Processes : pc[p] # "idle" ~> pc[p] = "idle"
DeadOwnersLockGoes == owner = Gone ~> owner # Gone
StoreRecovers == UpdatesEnd /\ DeadOwnersLockGoes
=============================================================================

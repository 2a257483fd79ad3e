------------------------- MODULE DocumentLockProofs -------------------------
(***************************************************************************)
(* Proofs about DocumentLock for any number of processes, updates and      *)
(* faults: types, when a lock can be stolen, what a damage costs, and that *)
(* the document is an AtomicDocument.                                      *)
(*                                                                         *)
(* The inductive invariant has four parts: who holds the lock (Owned), how *)
(* a lock becomes old (Aged), what the holder knows of the files (Known),  *)
(* and how the two files relate (Related).  The last two hold as long as   *)
(* no lock was stolen.                                                     *)
(***************************************************************************)
EXTENDS DocumentLock, FiniteSetTheorems, TLAPS

Faulty == slow > 0 \/ crashes > 0

\* Only the holder of the lock is in its update.
Owned ==
    ~stolen => \A p \in Processes : pc[p] \in Holding <=> owner = p

\* A lock that is old, or about to be removed, is there because of a fault.
Aged ==
    /\ old \/ owner = Gone \/ stolen => Faulty
    /\ \A p \in Processes : pc[p] = "remove" => Faulty

\* What p has read is still what the files hold, until p changes them.
Reads(p) ==
    IF recovered[p]
    THEN primary = Broken /\ backup = Json(base[p])
    ELSE \/ primary = Json(base[p])
         \/ primary = Absent /\ base[p] = {}

Known(p) ==
    /\ pc[p] \in Writing => Reads(p)
    /\ pc[p] = "copying" => primary = Json(base[p])
    /\ pc[p] = "rename" /\ primary = Json(base[p]) => backup = Json(base[p])

\* The backup is one update old at most, and it is there when it is needed.
Related ==
    /\ primary = Absent => backup = Absent
    /\ primary.is = "json" /\ backup.is = "json" =>
          /\ backup.doc \subseteq primary.doc
          /\ \E u \in Updates : primary.doc \subseteq backup.doc \cup {u}
    /\ primary = Broken /\ ~bare => backup.is = "json"

Sound == Related /\ \A p \in Processes : Known(p)

Inv ==
    /\ TypeOK
    /\ Owned
    /\ Aged
    /\ ~stolen => Sound

-----------------------------------------------------------------------------
(* Types                                                                   *)

LEMMA Files ==
    /\ Absent \in File /\ Broken \in File /\ Absent # Broken
    /\ \A d \in Docs : Json(d) \in File /\ Json(d).is = "json" /\ Json(d).doc = d
    /\ Absent.is # "json" /\ Broken.is # "json" /\ Broken.is # "absent"
    /\ \A f \in File : \/ f = Json(f.doc) /\ f.doc \in Docs /\ f.is = "json"
                       \/ f = Absent
                       \/ f = Broken
BY DEF File, Json, Absent, Broken

LEMMA ContentsType ==
    ASSUME primary \in File, backup \in File
    PROVE  /\ Contents \in File
           /\ Contents # Broken => Contents.is = "json" /\ Contents.doc \in Docs
<1>1. Json({}) \in File /\ Json({}).is = "json" /\ Json({}).doc \in Docs
  BY DEF File, Json, Docs
<1>2. QED
  BY <1>1, Files DEF Contents

LEMMA Empty == {} \in Docs
BY DEF Docs

\* Every variable keeps its type.
LEMMA TypeStep == TypeOK /\ [Next]_vars => TypeOK'
<1> SUFFICES ASSUME TypeOK, [Next]_vars PROVE TypeOK'
  OBVIOUS
<1> USE DEF TypeOK, Goto, lock, files, control, faults
<1>1. ASSUME NEW p \in Processes, NEW u \in Updates, Start(p, u) PROVE TypeOK'
  BY <1>1 DEF Start, Waiting
<1>2. ASSUME NEW p \in Processes, TakeLock(p) PROVE TypeOK'
  BY <1>2 DEF TakeLock, Holding
<1>3. ASSUME NEW p \in Processes, FindLocked(p) PROVE TypeOK'
  BY <1>3 DEF FindLocked, Waiting
<1>4. ASSUME NEW p \in Processes, Stat(p) PROVE TypeOK'
  BY <1>4 DEF Stat, Waiting
<1>5. ASSUME NEW p \in Processes, RemoveStale(p) PROVE TypeOK'
  BY <1>5 DEF RemoveStale, Waiting
<1>6. ASSUME NEW p \in Processes, TryAgain(p) PROVE TypeOK'
  BY <1>6 DEF TryAgain, Waiting
<1>7. ASSUME NEW p \in Processes, GiveUp(p) PROVE TypeOK'
  BY <1>7, Empty DEF GiveUp, Leave
<1>8. ASSUME NEW p \in Processes, Release(p) PROVE TypeOK'
  <2>1. acked' \in Docs
    BY <1>8 DEF Release, Docs, Holding
  <2>2. QED
    BY <1>8, <2>1, Empty DEF Release, Unlock, Leave
<1>9. ASSUME NEW p \in Processes, Abandon(p) PROVE TypeOK'
  BY <1>9, Empty DEF Abandon, Unlock, Leave
<1>10. ASSUME NEW p \in Processes, Read(p) PROVE TypeOK'
  BY <1>10, ContentsType DEF Read, Holding, Writing
<1>11. ASSUME NEW p \in Processes, BeginCopy(p) PROVE TypeOK'
  BY <1>11, Files DEF BeginCopy, Holding, Writing
<1>12. ASSUME NEW p \in Processes, EndCopy(p) PROVE TypeOK'
  BY <1>12 DEF EndCopy, Holding, Writing
<1>13. ASSUME NEW p \in Processes, Rename(p) PROVE TypeOK'
  BY <1>13, Files DEF Rename, Holding, Writing, Docs
<1>14. ASSUME NEW p \in Processes, WriteFails(p) PROVE TypeOK'
  BY <1>14, Files, StoreAssumption DEF WriteFails, Holding, Writing
<1>15. ASSUME NEW p \in Processes, Late(p) PROVE TypeOK'
  BY <1>15 DEF Late
<1>16. ASSUME NEW p \in Processes, Crash(p) PROVE TypeOK'
  BY <1>16, Empty, StoreAssumption DEF Crash, Leave
<1>17. CASE AgeLock
  BY <1>17 DEF AgeLock
<1>18. CASE Suspend
  BY <1>18, StoreAssumption DEF Suspend
<1>19. CASE Damage
  BY <1>19, Files, StoreAssumption DEF Damage
<1>20. CASE UNCHANGED vars
  BY <1>20 DEF vars
<1>21. QED
  BY <1>1, <1>2, <1>3, <1>4, <1>5, <1>6, <1>7, <1>8, <1>9, <1>10, <1>11, <1>12,
     <1>13, <1>14, <1>15, <1>16, <1>17, <1>18, <1>19, <1>20 DEF Next, Step

-----------------------------------------------------------------------------
(* The lock                                                                *)

\* Unlocking steals nothing while the holder still owns the lock.
LEMMA UnlockOwned ==
    ASSUME TypeOK, Owned, NEW p \in Processes, pc[p] \in Holding, Unlock(p), ~stolen'
    PROVE  ~stolen /\ owner = p /\ Owned'
<1>1. ~stolen /\ owner = p
  BY DEF Unlock, Owned
<1>2. QED
  BY <1>1, StoreAssumption DEF TypeOK, Unlock, Leave, Goto, Owned, Holding, Writing

\* Whoever is in an update owns the lock, until a lock is stolen.
LEMMA OwnedStep == TypeOK /\ Owned /\ [Next]_vars => Owned'
<1> SUFFICES ASSUME TypeOK, Owned, [Next]_vars, ~stolen' PROVE Owned'
  BY DEF Owned
<1> USE StoreAssumption DEF TypeOK, Owned, Goto, lock, files, control, faults, Holding, Writing
<1>1. ASSUME NEW p \in Processes, NEW u \in Updates, Start(p, u) PROVE Owned'
  BY <1>1 DEF Start
<1>2. ASSUME NEW p \in Processes, TakeLock(p) PROVE Owned'
  BY <1>2 DEF TakeLock
<1>3. ASSUME NEW p \in Processes, FindLocked(p) PROVE Owned'
  BY <1>3 DEF FindLocked
<1>4. ASSUME NEW p \in Processes, Stat(p) PROVE Owned'
  BY <1>4 DEF Stat
<1>5. ASSUME NEW p \in Processes, RemoveStale(p) PROVE Owned'
  BY <1>5 DEF RemoveStale
<1>6. ASSUME NEW p \in Processes, TryAgain(p) PROVE Owned'
  BY <1>6 DEF TryAgain
<1>7. ASSUME NEW p \in Processes, GiveUp(p) PROVE Owned'
  BY <1>7 DEF GiveUp, Leave
<1>8. ASSUME NEW p \in Processes, Release(p) PROVE Owned'
  BY <1>8, UnlockOwned DEF Release
<1>9. ASSUME NEW p \in Processes, Abandon(p) PROVE Owned'
  BY <1>9, UnlockOwned DEF Abandon
<1>10. ASSUME NEW p \in Processes, Read(p) PROVE Owned'
  BY <1>10 DEF Read
<1>11. ASSUME NEW p \in Processes, BeginCopy(p) PROVE Owned'
  BY <1>11 DEF BeginCopy
<1>12. ASSUME NEW p \in Processes, EndCopy(p) PROVE Owned'
  BY <1>12 DEF EndCopy
<1>13. ASSUME NEW p \in Processes, Rename(p) PROVE Owned'
  BY <1>13 DEF Rename
<1>14. ASSUME NEW p \in Processes, WriteFails(p) PROVE Owned'
  BY <1>14 DEF WriteFails
<1>15. ASSUME NEW p \in Processes, Late(p) PROVE Owned'
  BY <1>15 DEF Late
<1>16. ASSUME NEW p \in Processes, Crash(p) PROVE Owned'
  BY <1>16 DEF Crash, Leave
<1>17. CASE AgeLock
  BY <1>17 DEF AgeLock
<1>18. CASE Suspend
  BY <1>18 DEF Suspend
<1>19. CASE Damage
  BY <1>19 DEF Damage
<1>20. CASE UNCHANGED vars
  BY <1>20 DEF vars
<1>21. QED
  BY <1>1, <1>2, <1>3, <1>4, <1>5, <1>6, <1>7, <1>8, <1>9, <1>10, <1>11, <1>12,
     <1>13, <1>14, <1>15, <1>16, <1>17, <1>18, <1>19, <1>20 DEF Next, Step

\* A lock gets old, and is removed as stale, only after a fault.
LEMMA AgedStep == TypeOK /\ Owned /\ Aged /\ [Next]_vars => Aged'
<1> SUFFICES ASSUME TypeOK, Owned, Aged, [Next]_vars PROVE Aged'
  OBVIOUS
<1>1. Faulty => Faulty'
  <2>1. slow' = slow \/ slow' = slow + 1
    BY DEF Next, Step, vars, lock, files, control, faults, Start, TakeLock, FindLocked,
       Stat, RemoveStale, TryAgain, GiveUp, Release, Abandon, Unlock, Leave, Read,
       BeginCopy, EndCopy, Rename, WriteFails, Late, Crash, AgeLock, Suspend, Damage
  <2>2. crashes' = crashes \/ crashes' = crashes + 1
    BY DEF Next, Step, vars, lock, files, control, faults, Start, TakeLock, FindLocked,
       Stat, RemoveStale, TryAgain, GiveUp, Release, Abandon, Unlock, Leave, Read,
       BeginCopy, EndCopy, Rename, WriteFails, Late, Crash, AgeLock, Suspend, Damage
  <2>3. slow \in Nat /\ crashes \in Nat
    BY StoreAssumption DEF TypeOK
  <2>4. QED
    BY <2>1, <2>2, <2>3 DEF Faulty
<1>2. CASE Faulty
  BY <1>1, <1>2 DEF Aged
<1>3. CASE ~Faulty
  <2>1. ~old /\ owner # Gone /\ ~stolen /\ \A p \in Processes : pc[p] # "remove"
    BY <1>3 DEF Aged
  <2> USE StoreAssumption DEF TypeOK, Goto, lock, files, control, faults
  <2>2. CASE UNCHANGED vars \/ AgeLock \/ Damage
    BY <2>1, <2>2 DEF vars, AgeLock, Damage, Aged
  <2>3. CASE Suspend
    BY <2>3 DEF Suspend, Aged, Faulty
  <2>4. ASSUME NEW p \in Processes, Crash(p) PROVE Aged'
    BY <2>4 DEF Crash, Aged, Faulty
  <2>5. ASSUME NEW p \in Processes, Release(p) \/ Abandon(p) PROVE Aged'
    <3>1. owner = p
      BY <2>1, <2>5 DEF Owned, Release, Abandon, Holding
    <3>2. QED
      BY <2>1, <2>5, <3>1 DEF Release, Abandon, Unlock, Leave, Aged
  <2>6. ASSUME NEW p \in Processes, Stat(p) \/ RemoveStale(p) \/ TakeLock(p) PROVE Aged'
    BY <2>1, <2>6 DEF Stat, RemoveStale, TakeLock, Aged
  <2>7. ASSUME NEW p \in Processes,
               \/ FindLocked(p) \/ TryAgain(p) \/ GiveUp(p) \/ Late(p) \/ WriteFails(p)
               \/ \E u \in Updates : Start(p, u)
        PROVE Aged'
    BY <2>1, <2>7 DEF FindLocked, TryAgain, GiveUp, Leave, Late, WriteFails, Start, Aged
  <2>8. ASSUME NEW p \in Processes, Read(p) \/ BeginCopy(p) \/ EndCopy(p) \/ Rename(p)
        PROVE Aged'
    BY <2>1, <2>8 DEF Read, BeginCopy, EndCopy, Rename, Aged
  <2>9. QED
    BY <2>2, <2>3, <2>4, <2>5, <2>6, <2>7, <2>8 DEF Next, Step
<1>4. QED
  BY <1>2, <1>3

-----------------------------------------------------------------------------
(* The files                                                               *)

\* A step that leaves the files and the writers alone.
LEMMA OtherSteps ==
    ASSUME Sound, UNCHANGED <<files, bare>>,
           \A q \in Processes : pc'[q] \in Writing =>
               pc'[q] = pc[q] /\ base'[q] = base[q] /\ recovered'[q] = recovered[q]
    PROVE  Sound'
<1>1. Related'
  BY DEF Sound, Related, files
<1>2. ASSUME NEW q \in Processes PROVE Known(q)'
  <2>1. Known(q)
    BY DEF Sound
  <2>2. CASE pc'[q] \in Writing
    BY <2>1, <2>2 DEF Known, Reads, files
  <2>3. CASE pc'[q] \notin Writing
    BY <2>3 DEF Known, Writing
  <2>4. QED
    BY <2>2, <2>3
<1>3. QED
  BY <1>1, <1>2 DEF Sound

\* Until a lock is stolen nobody else is in an update.
LEMMA Alone ==
    ASSUME TypeOK, Owned, ~stolen, NEW p \in Processes, pc[p] \in Holding
    PROVE  \A q \in Processes \ {p} : pc[q] \notin Writing
BY DEF Owned, Holding

\* A step of the writer p keeps what the others know: they know nothing.
LEMMA OthersKnow ==
    ASSUME TypeOK, NEW p \in Processes, NEW l, pc' = [pc EXCEPT ![p] = l],
           \A q \in Processes \ {p} : pc[q] \notin Writing
    PROVE  \A q \in Processes \ {p} : Known(q)'
BY DEF TypeOK, Known, Writing

LEMMA ReadSound ==
    ASSUME TypeOK, Owned, ~stolen, Sound, NEW p \in Processes, Read(p)
    PROVE  Sound'
<1>1. pc[p] \in Holding /\ UNCHANGED <<primary, backup, bare>>
  BY DEF Read, Holding, files
<1>2. Related'
  BY <1>1 DEF Sound, Related
<1>3. CASE Contents = Broken
  <2>1. \A q \in Processes : pc'[q] \in Writing =>
            pc'[q] = pc[q] /\ base'[q] = base[q] /\ recovered'[q] = recovered[q]
    BY <1>3 DEF Read, Goto, TypeOK, Writing
  <2>2. QED
    BY <1>1, <2>1, OtherSteps DEF files
<1>4. CASE Contents # Broken
  <2>1. /\ pc' = [pc EXCEPT ![p] = "copy"]
        /\ base'[p] = Contents.doc
        /\ recovered'[p] = (primary.is # "json" /\ backup.is = "json")
    BY <1>4 DEF Read, Goto, TypeOK
  <2>2. Reads(p)'
    <3>1. CASE primary.is = "json"
      BY <1>1, <2>1, <3>1, Files DEF Reads, Contents, TypeOK
    <3>2. CASE primary = Broken
      <4>1. backup.is = "json"
        BY <1>4, <3>2, Files DEF Contents
      <4>2. backup = Json(Contents.doc) /\ recovered'[p]
        BY <2>1, <3>2, <4>1, Files DEF Contents, TypeOK
      <4>3. QED
        BY <1>1, <2>1, <3>2, <4>2 DEF Reads
    <3>3. CASE primary = Absent
      <4>1. backup = Absent
        BY <3>3 DEF Sound, Related
      <4>2. Contents = Json({}) /\ ~recovered'[p]
        BY <2>1, <3>3, <4>1, Files DEF Contents
      <4>3. QED
        BY <1>1, <2>1, <3>3, <4>2, Files, Empty DEF Reads
    <3>4. QED
      BY <3>1, <3>2, <3>3, Files DEF TypeOK
  <2>3. Known(p)'
    BY <2>1, <2>2 DEF Known, TypeOK
  <2>4. QED
    BY <1>1, <1>2, <2>1, <2>3, Alone, OthersKnow DEF Sound
<1>5. QED
  BY <1>3, <1>4

LEMMA BeginCopySound ==
    ASSUME TypeOK, Owned, ~stolen, Sound, NEW p \in Processes, BeginCopy(p)
    PROVE  Sound'
<1>1. /\ pc[p] = "copy" /\ pc[p] \in Holding /\ pc[p] \in Writing
      /\ UNCHANGED <<primary, bare, base, recovered>>
  BY DEF BeginCopy, Holding, Writing
<1>2. Reads(p) /\ Related
  BY <1>1 DEF Sound, Known
<1>3. CASE primary # Absent /\ ~recovered[p]
  <2>1. primary = Json(base[p]) /\ backup' = Broken /\ pc' = [pc EXCEPT ![p] = "copying"]
    BY <1>2, <1>3 DEF Reads, BeginCopy, Goto
  <2>2. Related'
    BY <1>1, <1>2, <2>1, Files DEF Related, TypeOK
  <2>3. Known(p)'
    BY <1>1, <1>3, <2>1 DEF Known, Reads, TypeOK
  <2>4. QED
    BY <1>1, <2>1, <2>2, <2>3, Alone, OthersKnow DEF Sound
<1>4. CASE ~(primary # Absent /\ ~recovered[p])
  <2>1. backup' = backup /\ pc' = [pc EXCEPT ![p] = "rename"]
    BY <1>4 DEF BeginCopy, Goto
  <2>2. Related'
    BY <1>1, <1>2, <2>1 DEF Related
  <2>3. primary # Json(base[p])
    BY <1>2, <1>4, Files DEF Reads, TypeOK
  <2>4. Known(p)'
    BY <1>1, <1>2, <2>1, <2>3 DEF Known, Reads, TypeOK
  <2>5. QED
    BY <1>1, <2>1, <2>2, <2>4, Alone, OthersKnow DEF Sound
<1>5. QED
  BY <1>3, <1>4

LEMMA EndCopySound ==
    ASSUME TypeOK, Owned, ~stolen, Sound, NEW p \in Processes, EndCopy(p)
    PROVE  Sound'
<1>1. /\ pc[p] = "copying" /\ pc[p] \in Holding /\ pc[p] \in Writing
      /\ UNCHANGED <<primary, bare, base, recovered>>
      /\ backup' = primary /\ pc' = [pc EXCEPT ![p] = "rename"]
  BY DEF EndCopy, Holding, Writing, Goto
<1>2. Reads(p) /\ primary = Json(base[p]) /\ base[p] \in Docs /\ op[p] \in Updates
  BY <1>1 DEF Sound, Known, TypeOK
<1>3. primary.is = "json" /\ primary # Absent /\ primary # Broken
  BY <1>2, Files
<1>4. Related'
  BY <1>1, <1>2, <1>3 DEF Related
<1>5. Known(p)'
  BY <1>1, <1>2, <1>3 DEF Known, Reads, TypeOK
<1>6. QED
  BY <1>1, <1>4, <1>5, Alone, OthersKnow DEF Sound

LEMMA RenameSound ==
    ASSUME TypeOK, Owned, ~stolen, Sound, NEW p \in Processes, Rename(p)
    PROVE  Sound'
<1>1. /\ pc[p] = "rename" /\ pc[p] \in Holding /\ pc[p] \in Writing
      /\ UNCHANGED <<backup, bare>> /\ pc' = [pc EXCEPT ![p] = "release"]
      /\ primary' = Json(base[p] \cup {op[p]})
  BY DEF Rename, Holding, Writing, Goto
<1>2. Reads(p) /\ Related /\ (primary = Json(base[p]) => backup = Json(base[p]))
  BY <1>1 DEF Sound, Known
<1>3. base[p] \in Docs /\ op[p] \in Updates /\ base[p] \cup {op[p]} \in Docs
  BY <1>1 DEF TypeOK, Docs
<1>4. primary'.is = "json" /\ primary'.doc = base[p] \cup {op[p]}
  BY <1>1, <1>3, Files
<1>5. primary' # Absent /\ primary' # Broken
  BY <1>4, Files
<1>6. backup.is = "json" => backup = Json(base[p])
  BY <1>2, Files DEF Reads, Related
<1>7. backup.is = "json" => backup.doc = base[p]
  BY <1>3, <1>6, Files
<1>8. Related'
  BY <1>1, <1>3, <1>4, <1>5, <1>7 DEF Related
<1>9. Known(p)'
  BY <1>1 DEF Known, TypeOK, Writing
<1>10. QED
  BY <1>1, <1>8, <1>9, Alone, OthersKnow DEF Sound

LEMMA WriteFailsSound ==
    ASSUME TypeOK, Owned, ~stolen, Sound, NEW p \in Processes, WriteFails(p)
    PROVE  Sound'
<1>1. /\ pc[p] \in Holding /\ pc[p] \in Writing /\ UNCHANGED <<primary, bare>>
      /\ pc' = [pc EXCEPT ![p] = "abandon"]
  BY DEF WriteFails, Holding, Goto
<1>2. Related'
  <2>1. CASE pc[p] = "copying"
    <3>1. primary = Json(base[p]) /\ base[p] \in Docs
      BY <2>1 DEF Sound, Known, TypeOK
    <3>2. primary # Absent /\ primary # Broken
      BY <3>1, Files
    <3>3. backup' = Absent
      BY <2>1 DEF WriteFails
    <3>4. QED
      BY <1>1, <3>2, <3>3, Files DEF Related
  <2>2. CASE pc[p] # "copying"
    BY <1>1, <2>2 DEF WriteFails, Sound, Related
  <2>3. QED
    BY <2>1, <2>2
<1>3. Known(p)'
  BY <1>1 DEF Known, TypeOK, Writing
<1>4. QED
  BY <1>1, <1>2, <1>3, Alone, OthersKnow DEF Sound

LEMMA DamageSound ==
    ASSUME TypeOK, Sound, Damage
    PROVE  Sound'
<1>1. \A q \in Processes : Known(q)'
  BY DEF Damage, control, Known, Writing
<1>2. Related'
  BY Files DEF Damage, Related
<1>3. QED
  BY <1>1, <1>2 DEF Sound

\* As long as no lock is stolen, the files are sound.
LEMMA SoundStep ==
    TypeOK /\ Owned /\ (~stolen => Sound) /\ [Next]_vars => (~stolen' => Sound')
<1> SUFFICES ASSUME TypeOK, Owned, ~stolen => Sound, [Next]_vars, ~stolen' PROVE Sound'
  OBVIOUS
<1>1. ~stolen
  BY DEF Next, Step, vars, lock, files, control, faults, Start, TakeLock, FindLocked,
     Stat, RemoveStale, TryAgain, GiveUp, Release, Abandon, Unlock, Leave, Read,
     BeginCopy, EndCopy, Rename, WriteFails, Late, Crash, AgeLock, Suspend, Damage
<1>2. Sound
  BY <1>1
<1>3. ASSUME NEW p \in Processes,
             \/ TakeLock(p) \/ FindLocked(p) \/ Stat(p) \/ RemoveStale(p) \/ TryAgain(p)
             \/ Late(p) \/ \E u \in Updates : Start(p, u)
      PROVE Sound'
  <2>1. UNCHANGED <<files, bare, base, recovered>>
    BY <1>3 DEF TakeLock, FindLocked, Stat, RemoveStale, TryAgain, Late, Start
  <2>2. \A q \in Processes : pc'[q] \in Writing => pc'[q] = pc[q]
    BY <1>3 DEF TakeLock, FindLocked, Stat, RemoveStale, TryAgain, Late, Start, Goto,
       Writing, TypeOK
  <2>3. QED
    BY <1>2, <2>1, <2>2, OtherSteps
<1>4. ASSUME NEW p \in Processes, GiveUp(p) \/ Release(p) \/ Abandon(p) \/ Crash(p)
      PROVE Sound'
  <2>1. UNCHANGED <<files, bare>> /\ Leave(p)
    BY <1>4 DEF GiveUp, Release, Abandon, Unlock, Crash
  <2>2. \A q \in Processes : pc'[q] \in Writing =>
            pc'[q] = pc[q] /\ base'[q] = base[q] /\ recovered'[q] = recovered[q]
    BY <2>1 DEF Leave, Goto, Writing, TypeOK
  <2>3. QED
    BY <1>2, <2>1, <2>2, OtherSteps
<1>5. CASE AgeLock \/ Suspend \/ UNCHANGED vars
  <2>1. UNCHANGED <<files, bare, control>>
    BY <1>5 DEF AgeLock, Suspend, vars
  <2>2. QED
    BY <1>2, <2>1, OtherSteps DEF control
<1>6. QED
  BY <1>1, <1>2, <1>3, <1>4, <1>5, ReadSound, BeginCopySound, EndCopySound, RenameSound,
     WriteFailsSound, DamageSound DEF Next, Step

\* The invariant of every behaviour.
LEMMA InvHolds == Spec => []Inv
<1>1. Init => Inv
  <2>1. ASSUME Init PROVE TypeOK
    <3>1. /\ 0 \in 0..MaxSlow /\ 0 \in 0..MaxCrashes
          /\ 0 \in 0..MaxFailures /\ 0 \in 0..MaxDamages
      BY StoreAssumption
    <3>2. QED
      BY <2>1, <3>1, Files, Empty DEF Init, TypeOK
  <2>2. ASSUME Init PROVE Owned /\ Aged
    BY <2>2, StoreAssumption DEF Init, Owned, Aged, Holding, Writing
  <2>3. ASSUME Init PROVE Sound
    BY <2>3, Files DEF Init, Sound, Related, Known, Writing
  <2>4. QED
    BY <2>1, <2>2, <2>3 DEF Inv
<1>2. Inv /\ [Next]_vars => Inv'
  BY TypeStep, OwnedStep, AgedStep, SoundStep DEF Inv
<1>3. QED
  BY <1>1, <1>2, PTL DEF Spec

\* Every variable keeps its type.
THEOREM TypeCorrect == Spec => []TypeOK
<1>1. Inv => TypeOK
  BY DEF Inv
<1>2. QED
  BY <1>1, InvHolds, PTL

\* A lock is taken from a live process only after some owner was suspended for
\* 30 seconds or died with the lock (removeStaleLock).  One dead owner is
\* enough: two waiters can remove its lock one after the other, the second one
\* from the new owner.
THEOREM StolenOnlyAfterFault == Spec => [](stolen => slow > 0 \/ crashes > 0)
<1>1. Inv => (stolen => slow > 0 \/ crashes > 0)
  BY DEF Inv, Aged, Faulty
<1>2. QED
  BY <1>1, InvHolds, PTL

-----------------------------------------------------------------------------
(* What a reader gets                                                      *)

Trusted == ~stolen /\ ~bare

LEMMA TrustedBefore == TypeOK /\ [Next]_vars /\ Trusted' => Trusted
BY DEF TypeOK, Trusted, Next, Step, vars, lock, files, control, faults, Start, TakeLock,
   FindLocked, Stat, RemoveStale, TryAgain, GiveUp, Release, Abandon, Unlock, Leave, Read,
   BeginCopy, EndCopy, Rename, WriteFails, Late, Crash, AgeLock, Suspend, Damage

LEMMA Readable == Inv /\ Trusted => Contents # Broken
<1> SUFFICES ASSUME Inv, Trusted PROVE Contents # Broken
  OBVIOUS
<1>1. primary \in File /\ backup \in File /\ (primary = Broken => backup.is = "json")
  BY DEF Inv, TypeOK, Trusted, Sound, Related
<1>2. Json({}) # Broken
  BY DEF Json, Broken
<1>3. QED
  BY <1>1, <1>2, Files DEF Contents

\* Only Rename and Damage change what a reader gets.
LEMMA ContentsKept ==
    ASSUME Inv, Trusted, [Next]_vars, ~Damage, \A p \in Processes : ~Rename(p)
    PROVE  Contents' = Contents
<1>1. CASE UNCHANGED files
  BY <1>1 DEF files, Contents
<1>2. ASSUME NEW p \in Processes, BeginCopy(p), backup' # backup PROVE Contents' = Contents
  <2>1. Reads(p) /\ primary' = primary /\ primary # Absent /\ ~recovered[p]
    BY <1>2 DEF BeginCopy, Inv, Trusted, Sound, Known, Writing
  <2>2. base[p] \in Docs
    BY DEF Inv, TypeOK
  <2>3. QED
    BY <2>1, <2>2, Files DEF Reads, Contents
<1>3. ASSUME NEW p \in Processes, EndCopy(p) \/ (WriteFails(p) /\ backup' # backup)
      PROVE Contents' = Contents
  <2>1. primary = Json(base[p]) /\ primary' = primary
    BY <1>3 DEF EndCopy, WriteFails, Inv, Trusted, Sound, Known
  <2>2. base[p] \in Docs
    BY DEF Inv, TypeOK
  <2>3. QED
    BY <2>1, <2>2, Files DEF Contents
<1>4. \/ UNCHANGED files
      \/ \E p \in Processes : \/ BeginCopy(p) /\ backup' # backup
                              \/ EndCopy(p)
                              \/ WriteFails(p) /\ backup' # backup
  BY DEF Next, Step, vars, files, Start, TakeLock, FindLocked, Stat, RemoveStale, TryAgain,
     GiveUp, Release, Abandon, Unlock, Leave, Read, BeginCopy, WriteFails, Late, Crash,
     AgeLock, Suspend
<1>5. QED
  BY <1>1, <1>2, <1>3, <1>4

\* Rename adds the update to the document, whatever was read.
LEMMA RenameAdds ==
    ASSUME Inv, Trusted, NEW p \in Processes, Rename(p)
    PROVE  op[p] \in Updates /\ Contents'.doc = Contents.doc \cup {op[p]}
<1>1. Reads(p) /\ base[p] \in Docs /\ op[p] \in Updates
  BY DEF Rename, Inv, Trusted, Sound, Known, Writing, TypeOK
<1>2. Contents = Json(base[p])
  BY <1>1, Files DEF Reads, Contents, Inv, Trusted, Sound, Related
<1>3. base[p] \cup {op[p]} \in Docs
  BY <1>1 DEF Docs
<1>4. Contents'.doc = base[p] \cup {op[p]}
  BY <1>3, Files DEF Rename, Contents
<1>5. QED
  BY <1>1, <1>2, <1>4, Files

\* A damage costs one update at most.
LEMMA DamageCosts ==
    ASSUME Inv, Trusted', Trusted, Damage
    PROVE  /\ Contents'.doc \subseteq Contents.doc
           /\ \E u \in Updates : Contents.doc \subseteq Contents'.doc \cup {u}
<1>1. primary.is = "json" /\ backup.is = "json" /\ primary' = Broken /\ backup' = backup
  BY DEF Damage, Trusted
<1>2. Contents = primary /\ Contents' = backup
  BY <1>1, Files DEF Contents
<1>3. QED
  BY <1>1, <1>2 DEF Inv, Trusted, Sound, Related

-----------------------------------------------------------------------------
(* Refinement                                                              *)

\* The document is an AtomicDocument: crashes, failed writes and damages do not
\* show, and every update is applied whole and in one step.
THEOREM Refines == Spec => IsAtomic
<1>1. Init => AD!Init
  <2>1. ASSUME Init PROVE Contents = Json({}) /\ ~stolen /\ ~bare
    BY <2>1, Files DEF Init, Contents
  <2>2. QED
    BY <2>1, Files, Empty DEF AD!Init
<1>2. Inv /\ [Next]_vars => [AD!Next]_<<Contents.doc, ~stolen /\ ~bare>>
  <2> SUFFICES ASSUME Inv, [Next]_vars
               PROVE  [AD!Next]_<<Contents.doc, ~stolen /\ ~bare>>
    OBVIOUS
  <2>1. CASE ~Trusted'
    BY <2>1 DEF Trusted, AD!Next, AD!Break
  <2>2. CASE Trusted'
    <3>1. Trusted
      BY <2>2, TrustedBefore DEF Inv
    <3>2. ASSUME NEW p \in Processes, Rename(p) PROVE AD!Next
      <4>1. AD!Apply(op[p])
        BY <2>2, <3>1, <3>2, RenameAdds DEF AD!Apply, Trusted
      <4>2. QED
        BY <3>1, <3>2, <4>1, RenameAdds DEF AD!Next
    <3>3. CASE Damage
      <4>1. PICK u \in Updates : Contents.doc \subseteq Contents'.doc \cup {u}
        BY <2>2, <3>1, <3>3, DamageCosts
      <4>2. Contents'.doc \subseteq Contents.doc
        BY <2>2, <3>1, <3>3, DamageCosts
      <4>3. CASE u \in Contents.doc /\ u \notin Contents'.doc
        <5>1. Contents'.doc = Contents.doc \ {u}
          BY <4>1, <4>2, <4>3
        <5>2. QED
          BY <2>2, <3>1, <4>3, <5>1 DEF AD!Next, AD!FallBack, Trusted
      <4>4. CASE ~(u \in Contents.doc /\ u \notin Contents'.doc)
        <5>1. Contents'.doc = Contents.doc
          BY <4>1, <4>2, <4>4
        <5>2. QED
          BY <2>2, <3>1, <5>1 DEF Trusted
      <4>5. QED
        BY <4>3, <4>4
    <3>4. CASE ~Damage /\ \A p \in Processes : ~Rename(p)
      <4>1. Contents' = Contents
        BY <3>1, <3>4, ContentsKept
      <4>2. QED
        BY <2>2, <3>1, <4>1 DEF Trusted
    <3>5. QED
      BY <3>2, <3>3, <3>4
  <2>3. QED
    BY <2>1, <2>2
<1>3. QED
  BY <1>1, <1>2, InvHolds, PTL DEF Spec, IsAtomic, AD!Spec

-----------------------------------------------------------------------------
(* The price of a damage                                                   *)

\* The updates that were written and have returned or are about to.
Written == acked \cup {op[p] : p \in {q \in Processes : pc[q] = "release"}}

Priced ==
    Trusted => IsFiniteSet(Written) /\ Cardinality(Written \ Contents.doc) <= damages

\* Nothing is written but by Rename.
LEMMA WrittenKept ==
    ASSUME TypeOK, [Next]_vars, \A p \in Processes : ~Rename(p)
    PROVE  Written' \subseteq Written
<1>1. acked' \subseteq Written
  BY DEF Written, Next, Step, vars, control, Start, TakeLock, FindLocked,
     Stat, RemoveStale, TryAgain, GiveUp, Release, Abandon, Unlock, Read,
     BeginCopy, EndCopy, WriteFails, Late, Crash, AgeLock, Suspend, Damage
<1>2. \A q \in Processes : pc'[q] = "release" => pc[q] = "release" /\ op'[q] = op[q]
  BY DEF TypeOK, Goto, Next, Step, vars, control, Start, TakeLock, FindLocked,
     Stat, RemoveStale, TryAgain, GiveUp, Release, Abandon, Unlock, Leave, Read,
     BeginCopy, EndCopy, WriteFails, Late, Crash, AgeLock, Suspend, Damage
<1>3. QED
  BY <1>1, <1>2 DEF Written

\* Fewer updates are missing when fewer were written and more are there.
LEMMA FewerMissing ==
    ASSUME NEW A, NEW B, NEW C, NEW D, IsFiniteSet(A), IsFiniteSet(B), B \ D \subseteq A \ C
    PROVE  /\ Cardinality(B \ D) <= Cardinality(A \ C)
           /\ Cardinality(A \ C) \in Nat /\ Cardinality(B \ D) \in Nat
<1>1. IsFiniteSet(A \ C) /\ IsFiniteSet(B \ D)
  BY FS_Subset
<1>2. QED
  BY <1>1, FS_Subset, FS_CardinalityType

LEMMA PricedStep == Inv /\ Priced /\ [Next]_vars => Priced'
<1> SUFFICES ASSUME Inv, Priced, [Next]_vars, Trusted'
             PROVE  IsFiniteSet(Written') /\ Cardinality(Written' \ Contents'.doc) <= damages'
  BY DEF Priced
<1>1. Trusted /\ TypeOK /\ IsFiniteSet(Written)
  BY TrustedBefore DEF Inv, Priced
<1>2. Cardinality(Written \ Contents.doc) <= damages /\ damages \in Nat
  BY <1>1, StoreAssumption DEF Priced, TypeOK
<1>3. ASSUME IsFiniteSet(Written'), damages' = damages,
             Written' \ Contents'.doc \subseteq Written \ Contents.doc
      PROVE  Cardinality(Written' \ Contents'.doc) <= damages'
  <2>1. /\ Cardinality(Written' \ Contents'.doc) <= Cardinality(Written \ Contents.doc)
        /\ Cardinality(Written \ Contents.doc) \in Nat
        /\ Cardinality(Written' \ Contents'.doc) \in Nat
    BY <1>1, <1>3, FewerMissing
  <2>2. QED
    BY <1>2, <1>3, <2>1
<1>4. ASSUME NEW p \in Processes, Rename(p)
      PROVE  IsFiniteSet(Written') /\ Cardinality(Written' \ Contents'.doc) <= damages'
  <2>1. Contents'.doc = Contents.doc \cup {op[p]} /\ damages' = damages
    BY <1>1, <1>4, RenameAdds DEF Rename, faults
  <2>2. Written' \subseteq Written \cup {op[p]}
    BY <1>1, <1>4 DEF Rename, Goto, TypeOK, Written
  <2>3. Written' \ Contents'.doc \subseteq Written \ Contents.doc
    BY <2>1, <2>2
  <2>4. IsFiniteSet(Written')
    BY <1>1, <2>2, FS_AddElement, FS_Subset
  <2>5. QED
    BY <1>3, <2>1, <2>3, <2>4
<1>5. CASE Damage
  <2>1. PICK u \in Updates : Contents.doc \subseteq Contents'.doc \cup {u}
    BY <1>1, <1>5, DamageCosts
  <2>2. Written' \subseteq Written
    BY <1>1, <1>5, WrittenKept DEF Damage, Rename, Writing
  <2>3. damages' = damages + 1
    BY <1>5 DEF Damage
  <2>4. Written' \ Contents'.doc \subseteq (Written \ Contents.doc) \cup {u}
    BY <2>1, <2>2
  <2>5. IsFiniteSet(Written') /\ IsFiniteSet(Written \ Contents.doc)
    BY <1>1, <2>2, FS_Subset
  <2>6. /\ IsFiniteSet((Written \ Contents.doc) \cup {u})
        /\ \/ Cardinality((Written \ Contents.doc) \cup {u}) = Cardinality(Written \ Contents.doc)
           \/ Cardinality((Written \ Contents.doc) \cup {u}) = Cardinality(Written \ Contents.doc) + 1
    BY <2>5, FS_AddElement
  <2>7. Cardinality(Written' \ Contents'.doc) <= Cardinality((Written \ Contents.doc) \cup {u})
    BY <2>4, <2>6, FS_Subset
  <2>8. IsFiniteSet(Written' \ Contents'.doc)
    BY <2>5, FS_Subset
  <2>9. /\ Cardinality(Written' \ Contents'.doc) \in Nat
        /\ Cardinality(Written \ Contents.doc) \in Nat
    BY <2>5, <2>8, FS_CardinalityType
  <2>10. QED
    BY <1>2, <2>3, <2>5, <2>6, <2>7, <2>9
<1>6. CASE ~Damage /\ \A p \in Processes : ~Rename(p)
  <2>1. Contents' = Contents
    BY <1>1, <1>6, ContentsKept
  <2>2. Written' \subseteq Written
    BY <1>1, <1>6, WrittenKept
  <2>3. damages' = damages
    BY <1>6 DEF Next, Step, vars, faults, Start, TakeLock, FindLocked,
       Stat, RemoveStale, TryAgain, GiveUp, Release, Abandon, Unlock, Read,
       BeginCopy, EndCopy, WriteFails, Late, Crash, AgeLock, Suspend
  <2>4. IsFiniteSet(Written')
    BY <1>1, <2>2, FS_Subset
  <2>5. QED
    BY <1>3, <2>1, <2>2, <2>3, <2>4
<1>7. QED
  BY <1>4, <1>5, <1>6

\* Every damage of the file costs one returned update at most, and without
\* damage none is lost (the backup of writeTextFileAtomic).
THEOREM OneUpdatePerDamageHolds == Spec => []OneUpdatePerDamage
<1>1. Init => Priced
  <2> SUFFICES ASSUME Init PROVE Priced
    OBVIOUS
  <2>1. Written = {}
    BY DEF Init, Written
  <2>2. IsFiniteSet(Written) /\ Cardinality(Written \ Contents.doc) = 0
    BY <2>1, FS_EmptySet
  <2>3. QED
    BY <2>2 DEF Priced, Init
<1>2. Inv /\ Priced => OneUpdatePerDamage
  <2> SUFFICES ASSUME Inv, Priced, Trusted
               PROVE  Contents # Broken /\ Cardinality(acked \ Contents.doc) <= damages
    BY DEF OneUpdatePerDamage, Trusted
  <2>1. acked \subseteq Written /\ IsFiniteSet(Written) /\ IsFiniteSet(acked)
    BY FS_Subset DEF Written, Priced
  <2>2. /\ Cardinality(acked \ Contents.doc) <= Cardinality(Written \ Contents.doc)
        /\ Cardinality(acked \ Contents.doc) \in Nat
        /\ Cardinality(Written \ Contents.doc) \in Nat
    BY <2>1, FewerMissing
  <2>3. damages \in Nat
    BY StoreAssumption DEF Inv, TypeOK
  <2>4. QED
    BY <2>2, <2>3, Readable DEF Priced
<1>3. QED
  BY <1>1, <1>2, PricedStep, InvHolds, PTL DEF Spec
=============================================================================

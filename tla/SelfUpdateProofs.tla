-------------------------- MODULE SelfUpdateProofs --------------------------
(* Theorems about SelfUpdate, for every value of its constants.            *)
EXTENDS SelfUpdate, TLAPS

-----------------------------------------------------------------------------
(* Type correctness.  That the markers name releases rests on what the      *)
(* locals of the commands that write them hold.                             *)

Staging == {"latest", "staged", "record", "write"}
Startup == {"pending", "stale", "blame"}

WorkOK(p) ==
  /\ pc[p] \in Staging => job[p].op = "stage"
  /\ pc[p] \in Startup => job[p].op = "activate"
  /\ pc[p] = "target" => job[p].op = "rollback"
  /\ job[p].op \in {"activate", "stage"} /\ pc[p] \notin {"pending", "latest"}
       => job[p].ver \in Releases
  /\ pc[p] \in Changing \cup Undoing => job[p].ver \in Versions
  /\ pc[p] \in Undoing => job[p].step \in UndoSteps

TypeInv == TypeOK /\ \A p \in Procs : WorkOK(p)

LEMMA NoJobType == NoJob \in Job
BY DEF NoJob, Job, NoSave, Saved, VersionOrNone, OpNames, UndoSteps

LEMMA DiskType == ASSUME TypeOK PROVE Disk \in Saved
BY DEF TypeOK, Disk, Saved

\* A process moves to l with new locals j, the others stay where they are.
Moves(p, l, j) ==
  /\ pc' \in [Procs -> PCs] /\ job' \in [Procs -> Job]
  /\ pc'[p] = l /\ job'[p] = j
  /\ \A q \in Procs \ {p} : pc'[q] = pc[q] /\ job'[q] = job[q]

LEMMA MoveBoth ==
  ASSUME TypeOK, NEW p \in Procs, NEW l \in PCs, NEW j \in Job,
         Go(p, l), SetJob(p, j)
  PROVE  Moves(p, l, j)
BY DEF TypeOK, Go, SetJob, Moves

LEMMA MovePc ==
  ASSUME TypeOK, NEW p \in Procs, NEW l \in PCs, Go(p, l), UNCHANGED job
  PROVE  Moves(p, l, job[p])
BY DEF TypeOK, Go, Moves

LEMMA MoveJob ==
  ASSUME TypeOK, NEW p \in Procs, NEW j \in Job, SetJob(p, j), UNCHANGED pc
  PROVE  Moves(p, pc[p], j)
BY DEF TypeOK, SetJob, Moves

LEMMA MoveEnd ==
  ASSUME TypeOK, NEW p \in Procs, Finish(p)
  PROVE  Moves(p, "idle", NoJob)
<1>1. "idle" \in PCs
  BY DEF PCs
<1> QED BY <1>1, NoJobType, MoveBoth DEF Finish

\* The updates of the locals, and what they leave.
LEMMA JobUpdates ==
  ASSUME NEW j \in Job
  PROVE  /\ \A v \in VersionOrNone :
              /\ [j EXCEPT !.ver = v] \in Job
              /\ [j EXCEPT !.ver = v].op = j.op
              /\ [j EXCEPT !.ver = v].ver = v
         /\ \A v \in VersionOrNone :
              /\ [j EXCEPT !.base = v] \in Job
              /\ [j EXCEPT !.base = v].op = j.op
              /\ [j EXCEPT !.base = v].ver = j.ver
         /\ \A s \in Saved :
              /\ [j EXCEPT !.saved = s] \in Job
              /\ [j EXCEPT !.saved = s].op = j.op
              /\ [j EXCEPT !.saved = s].ver = j.ver
              /\ [j EXCEPT !.saved = s].saved = s
         /\ \A s \in UndoSteps :
              /\ [j EXCEPT !.step = s] \in Job
              /\ [j EXCEPT !.step = s].op = j.op
              /\ [j EXCEPT !.step = s].ver = j.ver
              /\ [j EXCEPT !.step = s].saved = j.saved
              /\ [j EXCEPT !.step = s].step = s
         /\ \A D \in SUBSET Versions :
              /\ [j EXCEPT !.doomed = D] \in Job
              /\ [j EXCEPT !.doomed = D].op = j.op
              /\ [j EXCEPT !.doomed = D].ver = j.ver
              /\ [j EXCEPT !.doomed = D].doomed = D
         /\ /\ [j EXCEPT !.staged = TRUE] \in Job
            /\ [j EXCEPT !.staged = TRUE].op = j.op
            /\ [j EXCEPT !.staged = TRUE].ver = j.ver
         /\ /\ [j EXCEPT !.ok = FALSE] \in Job
            /\ [j EXCEPT !.ok = FALSE].op = j.op
            /\ [j EXCEPT !.ok = FALSE].ver = j.ver
BY DEF Job

LEMMA JobTakes ==
  ASSUME NEW j \in Job, NEW v \in VersionOrNone
  PROVE  /\ [j EXCEPT !.ver = v] \in Job
         /\ [j EXCEPT !.ver = v].op = j.op
         /\ [j EXCEPT !.ver = v].ver = v
BY JobUpdates

LEMMA JobDooms ==
  ASSUME NEW j \in Job, NEW D \in SUBSET Versions
  PROVE  /\ [j EXCEPT !.doomed = D] \in Job
         /\ [j EXCEPT !.doomed = D].op = j.op
         /\ [j EXCEPT !.doomed = D].ver = j.ver
BY JobUpdates

\* What a move must respect for WorkOK to go on holding.
LEMMA WorkKept ==
  ASSUME TypeInv, NEW p \in Procs, NEW l, NEW j, Moves(p, l, j),
         l \in Staging => j.op = "stage",
         l \in Startup => j.op = "activate",
         l = "target" => j.op = "rollback",
         j.op \in {"activate", "stage"} /\ l \notin {"pending", "latest"}
           => j.ver \in Releases,
         l \in Changing \cup Undoing => j.ver \in Versions,
         l \in Undoing => j.step \in UndoSteps
  PROVE  \A q \in Procs : WorkOK(q)'
BY DEF TypeInv, WorkOK, Moves

LEMMA WorkEnds ==
  ASSUME TypeInv, NEW p \in Procs, Moves(p, "idle", NoJob)
  PROVE  \A q \in Procs : WorkOK(q)'
BY WorkKept, ConstantsAssumption
   DEF NoJob, Staging, Startup, OpNames, Activating, Switching, Changing, Applying, Undoing

\* TypeOK but for the control state and the locals.
StoreOK ==
  /\ bundle \in [Versions -> {"complete", "partial", "absent"}]
  /\ current \in VersionOrNone /\ previous \in VersionOrNone
  /\ sideFile \in {None} \cup SUBSET Names /\ links \in SUBSET Names
  /\ control \in VersionOrNone /\ backup \in VersionOrNone
  /\ pending \in Releases \cup {None} /\ attempt \in Releases \cup {None}
  /\ lock \in Procs \cup {None}
  /\ started \in Nat /\ faults \in Nat /\ kills \in Nat /\ torn \in BOOLEAN

LEMMA TypeSplit == TypeOK <=> StoreOK /\ pc \in [Procs -> PCs] /\ job \in [Procs -> Job]
BY DEF TypeOK, StoreOK

LEMMA TypeKept ==
  ASSUME TypeInv, StoreOK', NEW p \in Procs, NEW l, NEW j, Moves(p, l, j),
         l \in Staging => j.op = "stage",
         l \in Startup => j.op = "activate",
         l = "target" => j.op = "rollback",
         j.op \in {"activate", "stage"} /\ l \notin {"pending", "latest"}
           => j.ver \in Releases,
         l \in Changing \cup Undoing => j.ver \in Versions,
         l \in Undoing => j.step \in UndoSteps
  PROVE  TypeInv'
<1>1. TypeOK'
  BY TypeSplit DEF Moves, TypeOK, StoreOK
<1> QED BY <1>1, WorkKept DEF TypeInv

LEMMA TypeEnds ==
  ASSUME TypeInv, StoreOK', NEW p \in Procs, Finish(p)
  PROVE  TypeInv'
<1>1. Moves(p, "idle", NoJob)
  BY MoveEnd DEF TypeInv
<1>2. TypeOK'
  BY <1>1 DEF Moves, TypeOK, StoreOK
<1> QED BY <1>1, <1>2, WorkEnds DEF TypeInv

LEMMA StoreFrame ==
  ASSUME StoreOK, UNCHANGED disk, lock' \in Procs \cup {None},
         started' \in Nat, faults' \in Nat, kills' \in Nat, torn' \in BOOLEAN
  PROVE  StoreOK'
BY DEF StoreOK, disk, pointers, launchers, planes, markers

LEMMA StoreStays ==
  ASSUME TypeInv, UNCHANGED disk, Keep
  PROVE  StoreOK'
BY StoreFrame DEF TypeInv, TypeOK, StoreOK, Keep, counters

\* A move that only changes the program counter, to a place no constraint is
\* attached to.
FreePCs == PCs \ (Staging \cup Startup \cup {"target", "latest", "pending"})

LEMMA TypeGoes ==
  ASSUME TypeInv, StoreOK', NEW p \in Procs, NEW l \in FreePCs,
         Go(p, l), UNCHANGED job, pc[p] \notin {"pending", "latest"},
         l \in Changing \cup Undoing => job[p].ver \in Versions, l \notin Undoing
  PROVE  TypeInv'
<1>1. Moves(p, l, job[p])
  BY MovePc DEF TypeInv, FreePCs
<1>2. WorkOK(p)
  BY DEF TypeInv
<1> QED BY <1>1, <1>2, TypeKept DEF FreePCs, WorkOK

\* The same with an update of the locals that keeps the command and its version.
LEMMA TypeSets ==
  ASSUME TypeInv, StoreOK', NEW p \in Procs, NEW l \in FreePCs, NEW j \in Job,
         Go(p, l), SetJob(p, j), pc[p] \notin {"pending", "latest"},
         j.op = job[p].op, j.ver = job[p].ver,
         l \in Changing \cup Undoing => j.ver \in Versions,
         l \in Undoing => j.step \in UndoSteps
  PROVE  TypeInv'
<1>1. Moves(p, l, j)
  BY MoveBoth DEF TypeInv, FreePCs
<1>2. WorkOK(p)
  BY DEF TypeInv
<1> QED BY <1>1, <1>2, TypeKept DEF FreePCs, WorkOK

LEMMA TypeFails ==
  ASSUME TypeInv, StoreOK', NEW p \in Procs, Fail(p), pc[p] \notin {"pending", "latest"}
  PROVE  TypeInv'
<1>1. job[p] \in Job
  BY DEF TypeInv, TypeOK
<1>2. "unlock" \in FreePCs /\ "unlock" \notin Changing \cup Undoing
  BY DEF FreePCs, PCs, Locked, Staging, Startup, Changing, Applying, Undoing
<1>3. PICK j \in Job : SetJob(p, j) /\ j.op = job[p].op /\ j.ver = job[p].ver
  BY <1>1, JobUpdates DEF Fail
<1> QED BY <1>2, <1>3, TypeSets DEF Fail

LEMMA TypeUndoes ==
  ASSUME TypeInv, StoreOK', NEW p \in Procs, NEW l \in Undoing, StartUndo(p, l),
         pc[p] \in Changing \cup Undoing
  PROVE  TypeInv'
<1>0. job[p].ver \in Versions /\ pc[p] \notin {"pending", "latest"}
  BY DEF TypeInv, WorkOK, Changing, Applying, Undoing
<1>1. job[p] \in Job
  BY DEF TypeInv, TypeOK
<1>2. l \in FreePCs
  BY DEF FreePCs, PCs, Locked, Staging, Startup, Undoing
<1> DEFINE j == [job[p] EXCEPT !.step = "unlinkCurrent"]
<1>3. j \in Job /\ j.op = job[p].op /\ j.ver = job[p].ver /\ j.step \in UndoSteps
  BY <1>1, JobUpdates DEF UndoSteps
<1> HIDE DEF j
<1>4. SetJob(p, j) /\ Go(p, l)
  BY DEF StartUndo, j
<1> QED BY <1>0, <1>2, <1>3, <1>4, TypeSets

LEMMA FreeOnes ==
  /\ {"idle", "resolve", "gate", "offer", "base", "fetch", "lock", "drop", "clear",
      "forget"} \subseteq FreePCs \ (Changing \cup Undoing)
  /\ Locked \ {"target"} \subseteq FreePCs
BY DEF FreePCs, PCs, Unlocked, Locked, Staging, Startup, Changing, Applying,
       Undoing, Removing

LEMMA StartType == ASSUME TypeInv, NEW p \in Procs, Start(p) PROVE TypeInv'
<1>1. PICK o \in Ops[p] : \E v \in IF o = "use" THEN Versions ELSE {None} :
        Go(p, Entry[o]) /\ SetJob(p, [NoJob EXCEPT !.op = o, !.ver = v])
  BY DEF Start
<1>2. PICK v \in IF o = "use" THEN Versions ELSE {None} :
        Go(p, Entry[o]) /\ SetJob(p, [NoJob EXCEPT !.op = o, !.ver = v])
  BY <1>1
<1>3. o \in OpNames /\ v \in VersionOrNone
  BY <1>1, <1>2, ConstantsAssumption DEF VersionOrNone
<1> DEFINE j == [NoJob EXCEPT !.op = o, !.ver = v]
<1>4. j \in Job /\ j.op = o
  BY <1>3, NoJobType DEF Job, NoJob
<1>5. /\ Entry[o] \in PCs /\ Entry[o] # "target"
      /\ Entry[o] \in Staging => o = "stage"
      /\ Entry[o] \in Startup => o = "activate"
      /\ o = "stage" => Entry[o] = "latest"
      /\ o = "activate" => Entry[o] = "pending"
      /\ Entry[o] \notin Changing \cup Undoing
  BY <1>3 DEF Entry, PCs, Unlocked, OpNames, Activating, Switching, Staging, Startup,
              Changing, Applying, Undoing
<1> HIDE DEF j
<1>6. Moves(p, Entry[o], j)
  BY <1>2, <1>4, <1>5, MoveBoth DEF j, TypeInv
<1>7. StoreOK'
  BY StoreFrame DEF Start, TypeInv, TypeOK, StoreOK
<1> QED BY <1>4, <1>5, <1>6, <1>7, TypeKept

\* A command finds its release: r becomes the version it works on.
LEMMA TypeTakes ==
  ASSUME TypeInv, StoreOK', NEW p \in Procs, NEW l \in PCs, NEW r \in Releases,
         SetJob(p, [job[p] EXCEPT !.ver = r]), Go(p, l),
         l \in Staging => job[p].op = "stage",
         l \in Startup => job[p].op = "activate",
         l # "target", l \notin Changing \cup Undoing
  PROVE  TypeInv'
<1>1. job[p] \in Job /\ r \in VersionOrNone
  BY DEF TypeInv, TypeOK, VersionOrNone, Versions
<1> DEFINE j == [job[p] EXCEPT !.ver = r]
<1>2. j \in Job /\ j.op = job[p].op /\ j.ver = r
  BY <1>1, JobTakes
<1> HIDE DEF j
<1>3. SetJob(p, j)
  BY DEF j
<1>4. Moves(p, l, j)
  BY <1>2, <1>3, MoveBoth DEF TypeInv
<1> QED BY <1>2, <1>4, TypeKept

LEMMA EarlyType ==
  ASSUME TypeInv, NEW p \in Procs,
         Resolve(p) \/ Gate(p) \/ ReadPending(p) \/ CheckStale(p) \/ ReadLatest(p)
           \/ CheckStaged(p) \/ MarkerUnreadable(p) \/ Record(p) \/ Offer(p)
           \/ ReadBase(p) \/ Fetch(p)
  PROVE  TypeInv'
<1>0. WorkOK(p) /\ job[p] \in Job
  BY DEF TypeInv, TypeOK
<1> USE DEF Changing, Applying, Undoing
<1>1. CASE Resolve(p)
  <2>1. StoreOK'
    BY <1>1, StoreStays DEF Resolve
  <2>2. "gate" \in PCs /\ "gate" \notin Staging \cup Startup
    BY DEF PCs, Unlocked, Staging, Startup
  <2> QED BY <1>1, <2>1, <2>2, TypeTakes, TypeEnds DEF Resolve
<1>2. CASE Gate(p)
  <2>1. StoreOK'
    BY <1>2, StoreStays DEF Gate
  <2> QED BY <1>2, <2>1, FreeOnes, TypeGoes, TypeEnds DEF Gate
<1>3. CASE ReadPending(p)
  <2>1. StoreOK'
    BY <1>3, StoreStays DEF ReadPending
  <2>2. "stale" \in PCs /\ "stale" \notin Staging /\ job[p].op = "activate"
    BY <1>0, <1>3 DEF PCs, Unlocked, Staging, Startup, WorkOK, ReadPending
  <2>3. CASE Finish(p)
    BY <1>3, <2>1, <2>3, TypeEnds DEF ReadPending
  <2>4. CASE ~ Finish(p)
    <3>1. pending \in Releases /\ Go(p, "stale")
            /\ SetJob(p, [job[p] EXCEPT !.ver = pending])
      BY <1>3, <2>4 DEF ReadPending, TypeInv, TypeOK
    <3> QED BY <2>1, <2>2, <3>1, TypeTakes
  <2> QED BY <2>3, <2>4
<1>4. CASE CheckStale(p)
  <2>1. StoreOK'
    BY <1>4, StoreStays DEF CheckStale
  <2> QED BY <1>4, <2>1, FreeOnes, TypeGoes DEF CheckStale
<1>5. CASE ReadLatest(p)
  <2>1. StoreOK'
    BY <1>5, StoreStays DEF ReadLatest
  <2>2. "staged" \in PCs /\ "staged" \notin Startup /\ job[p].op = "stage"
    BY <1>0, <1>5 DEF PCs, Unlocked, Staging, Startup, WorkOK, ReadLatest
  <2> QED BY <1>5, <2>1, <2>2, TypeTakes, TypeEnds DEF ReadLatest
<1>6. CASE CheckStaged(p)
  <2>1. StoreOK'
    BY <1>6, StoreStays DEF CheckStaged
  <2>2. /\ "record" \in PCs /\ "record" \notin Startup /\ job[p].op = "stage"
        /\ job[p].ver \in Releases
    BY <1>0, <1>6 DEF PCs, Unlocked, Staging, Startup, WorkOK, CheckStaged
  <2>3. CASE Go(p, "record") /\ UNCHANGED job
    <3>1. Moves(p, "record", job[p])
      BY <2>2, <2>3, MovePc DEF TypeInv
    <3> QED BY <2>1, <2>2, <3>1, TypeKept
  <2> QED BY <1>6, <2>1, <2>3, TypeEnds DEF CheckStaged
<1>7. CASE Record(p)
  <2>1. job[p].ver \in Releases
    BY <1>0, <1>7 DEF WorkOK, Record, Staging
  <2>2. StoreOK'
    BY <1>7, <2>1 DEF Record, TypeInv, TypeOK, StoreOK, pointers, launchers, planes
  <2> QED BY <1>7, <2>2, FreeOnes, TypeGoes, TypeEnds DEF Record
<1>8. CASE Offer(p)
  <2>1. StoreOK'
    BY <1>8, StoreStays DEF Offer
  <2> QED BY <1>8, <2>1, FreeOnes, TypeGoes, TypeEnds DEF Offer
<1>9. CASE ReadBase(p)
  <2>1. StoreOK'
    BY <1>9, StoreStays DEF ReadBase
  <2>2. CASE current \in Releases
    <3>1. current \in VersionOrNone
      BY DEF TypeInv, TypeOK
    <3>2. SetJob(p, [job[p] EXCEPT !.base = current]) /\ Go(p, "fetch")
      BY <1>9, <2>2 DEF ReadBase
    <3> DEFINE j == [job[p] EXCEPT !.base = current]
    <3>3. j \in Job /\ j.op = job[p].op /\ j.ver = job[p].ver
      BY <1>0, <3>1, JobUpdates
    <3> HIDE DEF j
    <3>4. SetJob(p, j)
      BY <3>2 DEF j
    <3> QED BY <1>9, <3>4, <2>1, <3>2, <3>3, FreeOnes, TypeSets DEF ReadBase
  <2> QED BY <1>9, <2>1, <2>2, TypeEnds DEF ReadBase
<1>10. CASE MarkerUnreadable(p)
  <2>1. job[p].ver \in Releases
    BY <1>0, <1>10 DEF WorkOK, MarkerUnreadable, Staging
  <2>2. StoreOK'
    BY <1>10, <2>1 DEF MarkerUnreadable, TypeInv, TypeOK, StoreOK, pointers, launchers,
                       planes
  <2> QED BY <1>10, <2>2, TypeEnds DEF MarkerUnreadable
<1>11. CASE Fetch(p)
  <2>1. StoreOK'
    BY <1>11, StoreStays DEF Fetch
  <2>2. "lock" \in PCs /\ "lock" \notin Staging \cup Startup
    BY DEF PCs, Unlocked, Staging, Startup
  <2> QED BY <1>11, <2>1, <2>2, TypeTakes, TypeEnds DEF Fetch
<1> QED BY <1>1, <1>2, <1>3, <1>4, <1>5, <1>6, <1>7, <1>8, <1>9, <1>10, <1>11

LEMMA FirstType ==
  ASSUME NEW j
  PROVE  /\ FirstLocked(j) \in Locked \ (Changing \cup Undoing)
         /\ FirstLocked(j) = "target" => j.op = "rollback"
BY DEF FirstLocked, Locked, Changing, Applying, Undoing

LEMMA LockType ==
  ASSUME TypeInv, NEW p \in Procs,
         Acquire(p) \/ InstallBundle(p) \/ RollbackTarget(p) \/ Snapshot(p)
  PROVE  TypeInv'
<1>0. WorkOK(p) /\ job[p] \in Job
  BY DEF TypeInv, TypeOK
<1> USE DEF Changing, Applying, Undoing
<1>1. CASE Acquire(p)
  <2>1. StoreOK'
    BY <1>1, StoreFrame DEF Acquire, TypeInv, TypeOK, StoreOK, counters
  <2>2. CASE lock = None /\ Go(p, FirstLocked(job[p])) /\ UNCHANGED job
    <3> DEFINE l == FirstLocked(job[p])
    <3>1. /\ l \in PCs /\ l \notin Staging \cup Startup \cup {"pending", "latest"}
          /\ l \notin Changing \cup Undoing
          /\ l = "target" => job[p].op = "rollback"
      BY FirstType DEF PCs, Locked, Staging, Startup, Removing
    <3> HIDE DEF l
    <3>2. Moves(p, l, job[p])
      BY <2>2, <3>1, MovePc DEF l, TypeInv
    <3>3. job[p].op \in {"activate", "stage"} => job[p].ver \in Releases
      BY <1>0, <1>1 DEF WorkOK, Acquire
    <3> QED BY <2>1, <3>1, <3>2, <3>3, TypeKept
  <2> QED BY <1>1, <2>1, <2>2, TypeEnds DEF Acquire
<1>2. CASE InstallBundle(p)
  <2>1. StoreOK'
    BY <1>2 DEF InstallBundle, TypeInv, TypeOK, StoreOK, pointers, launchers, planes,
                markers, Keep, counters
  <2>2. \/ Go(p, "snapshot") /\ UNCHANGED job
        \/ Go(p, "unlock") /\ UNCHANGED job
        \/ Fail(p)
    BY <1>2 DEF InstallBundle
  <2>3. pc[p] = "install"
    BY <1>2 DEF InstallBundle
  <2>4. {"snapshot", "unlock"} \subseteq FreePCs
    BY FreeOnes DEF Locked
  <2> QED BY <2>1, <2>2, <2>3, <2>4, TypeGoes, TypeFails
<1>3. CASE RollbackTarget(p)
  <2>1. StoreOK'
    BY <1>3, StoreStays DEF RollbackTarget
  <2>2. job[p].op = "rollback" /\ previous \in VersionOrNone
    BY <1>0, <1>3 DEF WorkOK, RollbackTarget, TypeInv, TypeOK
  <2>3. CASE SetJob(p, [job[p] EXCEPT !.ver = previous]) /\ Go(p, "snapshot")
    <3> DEFINE j == [job[p] EXCEPT !.ver = previous]
    <3>1. j \in Job /\ j.op = "rollback"
      BY <1>0, <2>2, JobUpdates
    <3> HIDE DEF j
    <3>4. SetJob(p, j)
      BY <2>3 DEF j
    <3>2. "snapshot" \in PCs /\ "snapshot" \notin Staging \cup Startup
      BY DEF PCs, Locked, Staging, Startup
    <3>3. Moves(p, "snapshot", j)
      BY <2>3, <3>1, <3>2, <3>4, MoveBoth DEF TypeInv
    <3> QED BY <2>1, <3>1, <3>2, <3>3, TypeKept
  <2> QED BY <1>3, <2>1, <2>3, TypeFails DEF RollbackTarget
<1>4. CASE Snapshot(p)
  <2>1. StoreOK'
    BY <1>4, StoreStays DEF Snapshot
  <2>2. CASE Complete(job[p].ver)
    <3>1. /\ SetJob(p, [job[p] EXCEPT !.saved = Disk])
          /\ Go(p, "backup") \/ Go(p, "sides")
          /\ pc[p] = "snapshot"
      BY <1>4, <2>2 DEF Snapshot
    <3> DEFINE j == [job[p] EXCEPT !.saved = Disk]
    <3>2. j \in Job /\ j.op = job[p].op /\ j.ver = job[p].ver
      BY <1>0, DiskType, JobUpdates DEF TypeInv
    <3> HIDE DEF j
    <3>3. SetJob(p, j)
      BY <3>1 DEF j
    <3>4. {"backup", "sides"} \subseteq FreePCs
      BY FreeOnes DEF Locked
    <3>5. job[p].ver \in Versions
      BY <1>0, <2>2 DEF Complete, Job, VersionOrNone
    <3> QED BY <2>1, <3>1, <3>2, <3>3, <3>4, <3>5, TypeSets
  <2>3. CASE ~ Complete(job[p].ver)
    BY <1>4, <2>1, <2>3, TypeFails DEF Snapshot
  <2> QED BY <2>2, <2>3
<1> QED BY <1>1, <1>2, <1>3, <1>4

\* The steps that apply a change only move the program counter.
LEMMA SideNames == \A v \in Versions : Side[v] \subseteq Names
BY DEF Names

LEMMA ChangeType ==
  ASSUME TypeInv, NEW p \in Procs,
         BackUp(p) \/ CopyControl(p) \/ PrepareSideLinks(p) \/ SwitchPrevious(p)
           \/ SwitchCurrent(p) \/ RemoveObsolete(p) \/ WriteSideFile(p)
           \/ ReconcileLaunchers(p)
  PROVE  TypeInv'
<1> USE DEF BackUp, CopyControl, PrepareSideLinks, SwitchPrevious, SwitchCurrent,
            RemoveObsolete, WriteSideFile, ReconcileLaunchers
<1>1. pc[p] \in Changing
  BY DEF Changing, Applying
<1>2. job[p].ver \in Versions /\ pc[p] \notin {"pending", "latest"}
  BY <1>1 DEF TypeInv, WorkOK, Changing, Applying
<1>3. StoreOK'
  <2>1. StoreOK /\ job[p].ver \in VersionOrNone /\ Side[job[p].ver] \subseteq Names
    BY <1>2, SideNames DEF TypeInv, TypeOK, StoreOK, VersionOrNone
  <2>2. CASE BackUp(p) \/ CopyControl(p) \/ SwitchPrevious(p) \/ SwitchCurrent(p)
    BY <2>1, <2>2 DEF StoreOK, Keep, counters, pointers, launchers, planes, markers
  <2>3. CASE PrepareSideLinks(p) \/ WriteSideFile(p) \/ RemoveObsolete(p)
    BY <2>1, <2>3 DEF StoreOK, Keep, counters, pointers, launchers, planes, markers
  <2>4. CASE ReconcileLaunchers(p)
    BY <2>4, StoreStays
  <2> QED BY <2>2, <2>3, <2>4
<1>4. \E l \in Changing \cup {"unlock"} : Go(p, l) /\ UNCHANGED job
  BY DEF Changing, Applying
<1>5. Changing \cup {"unlock"} \subseteq FreePCs \ Undoing
  BY FreeOnes DEF Locked, Changing, Applying, Undoing
<1> QED BY <1>2, <1>3, <1>4, <1>5, TypeGoes

LEMMA ProbeType == ASSUME TypeInv, NEW p \in Procs, Probe(p) PROVE TypeInv'
<1>1. StoreOK' /\ pc[p] = "probe"
  BY StoreStays DEF Probe
<1>2. CASE ProbePasses(job[p].ver)
  <2> DEFINE j == [job[p] EXCEPT !.doomed = Inactive(Devs)]
  <2>1. SetJob(p, j) /\ Go(p, "prune")
    BY <1>2 DEF Probe
  <2>2. Inactive(Devs) \in SUBSET Versions /\ job[p] \in Job
    BY DEF Inactive, Versions, TypeInv, TypeOK
  <2>3. j \in Job /\ j.op = job[p].op /\ j.ver = job[p].ver
    BY <2>2, JobUpdates
  <2>4. "prune" \in FreePCs \ (Changing \cup Undoing)
    BY FreeOnes DEF Locked, Removing, Changing, Applying, Undoing
  <2> HIDE DEF j
  <2> QED BY <1>1, <2>1, <2>3, <2>4, TypeSets
<1>3. CASE ~ ProbePasses(job[p].ver)
  BY <1>1, <1>3, TypeUndoes DEF Probe, Changing, Undoing
<1> QED BY <1>2, <1>3

LEMMA NextStepType ==
  ASSUME NEW l, NEW s \in UndoSteps, s # "done"
  PROVE  NextStep(l, s) \in UndoSteps
BY DEF NextStep, UndoNext, UndoSteps

\* An undo walks on to step s, at the same place.
LEMMA TypeUndoing ==
  ASSUME TypeInv, StoreOK', NEW p \in Procs, pc[p] \in Undoing, UNCHANGED pc,
         NEW j \in Job, SetJob(p, j), j.op = job[p].op, j.ver = job[p].ver,
         j.step \in UndoSteps
  PROVE  TypeInv'
<1>1. Moves(p, pc[p], j)
  BY MoveJob DEF TypeInv
<1>2. WorkOK(p)
  BY DEF TypeInv
<1> QED BY <1>1, <1>2, TypeKept DEF WorkOK, Undoing, Staging, Startup

LEMMA UndoType ==
  ASSUME TypeInv, NEW p \in Procs, Undo(p) \/ Undone(p) \/ UndoFault(p)
  PROVE  TypeInv'
<1>0. job[p] \in Job /\ job[p].saved \in Saved /\ job[p].undone \in BOOLEAN
  BY DEF TypeInv, TypeOK, Job
<1>1. pc[p] \in Undoing
  BY DEF Undo, Undone, UndoFault
<1>2. job[p].ver \in Versions /\ job[p].step \in UndoSteps
  BY <1>1 DEF TypeInv, WorkOK
<1>3. CASE Undo(p)
  <2>1. NextStep(pc[p], job[p].step) \in UndoSteps
    BY <1>2, <1>3, NextStepType DEF Undo
  <2> DEFINE j == [job[p] EXCEPT !.step = NextStep(pc[p], @)]
  <2>2. j \in Job /\ j.op = job[p].op /\ j.ver = job[p].ver /\ j.step \in UndoSteps
    BY <1>0, <2>1, JobUpdates
  <2> HIDE DEF j
  <2>3. SetJob(p, j) /\ UNCHANGED pc
    BY <1>3 DEF Undo, j
  <2>4. StoreOK'
    <3>1. StoreOK
      BY DEF TypeInv, TypeOK, StoreOK
    <3>2. Restore(p, job[p].saved, job[p].step) /\ UNCHANGED <<bundle, markers>> /\ Keep
      BY <1>3 DEF Undo
    <3>3. /\ job[p].saved.current \in VersionOrNone
          /\ job[p].saved.previous \in VersionOrNone
          /\ job[p].saved.sideFile \in {None} \cup SUBSET Names
          /\ job[p].saved.links \in SUBSET Names
          /\ job[p].saved.control \in VersionOrNone
          /\ job[p].saved.backup \in VersionOrNone
      BY <1>0 DEF Saved
    <3>4. current' \in VersionOrNone /\ previous' \in VersionOrNone
      BY <3>1, <3>2, <3>3 DEF Restore, StoreOK, VersionOrNone
    <3>5. sideFile' \in {None} \cup SUBSET Names
      BY <3>1, <3>2, <3>3 DEF Restore, StoreOK
    <3>6. links' \in SUBSET Names
      BY <3>1, <3>2, <3>3 DEF Restore, StoreOK
    <3>7. control' \in VersionOrNone /\ backup' \in VersionOrNone
      BY <3>1, <3>2, <3>3 DEF Restore, StoreOK
    <3> QED
      BY <3>1, <3>2, <3>4, <3>5, <3>6, <3>7 DEF StoreOK, Keep, counters, markers
  <2> QED BY <1>1, <2>2, <2>3, <2>4, TypeUndoing
<1>4. CASE Undone(p)
  <2>1. StoreOK'
    BY <1>4, StoreStays DEF Undone
  <2>2. pc[p] \notin {"pending", "latest"} /\ "undo" \in Undoing
    BY <1>1 DEF Undoing
  <2> QED BY <1>1, <1>4, <2>1, <2>2, TypeUndoes, TypeFails DEF Undone
<1>5. CASE UndoFault(p)
  <2>1. StoreOK'
    BY <1>5, StoreFrame DEF UndoFault, TypeInv, TypeOK, StoreOK
  <2>2. PICK next \in UndoSteps :
          SetJob(p, [job[p] EXCEPT !.step = next, !.undone = @ /\ ~ LastRestore(p)])
    BY <1>2, <1>5, NextStepType DEF UndoFault, UndoSteps
  <2> DEFINE b == job[p].undone /\ ~ LastRestore(p)
             j == [job[p] EXCEPT !.step = next, !.undone = b]
  <2>3. b \in BOOLEAN
    OBVIOUS
  <2> HIDE DEF b
  <2>4. /\ j \in Job /\ j.op = job[p].op /\ j.ver = job[p].ver
        /\ j.step \in UndoSteps
    BY <1>0, <2>2, <2>3 DEF Job
  <2>5. SetJob(p, j)
    BY <2>2 DEF b
  <2> HIDE DEF j
  <2> QED BY <1>1, <1>5, <2>1, <2>4, <2>5, TypeUndoing DEF UndoFault
<1> QED BY <1>3, <1>4, <1>5

\* A prune sets out the versions it removes, or crosses one off.
LEMMA TypeDooms ==
  ASSUME TypeInv, StoreOK', NEW p \in Procs, NEW D \in SUBSET Versions,
         NEW l \in FreePCs \ (Changing \cup Undoing),
         SetJob(p, [job[p] EXCEPT !.doomed = D]), Go(p, l),
         pc[p] \notin {"pending", "latest"}
  PROVE  TypeInv'
<1> DEFINE j == [job[p] EXCEPT !.doomed = D]
<1>1. j \in Job /\ j.op = job[p].op /\ j.ver = job[p].ver
  <2>1. job[p] \in Job
    BY DEF TypeInv, TypeOK
  <2> QED BY <2>1, JobDooms
<1> HIDE DEF j
<1>2. SetJob(p, j)
  BY DEF j
<1> QED BY <1>1, <1>2, TypeSets

LEMMA RemoveType ==
  ASSUME TypeInv, NEW p \in Procs,
         ChooseDoomed(p) \/ ChooseOld(p) \/ RemoveVersion(p) \/ Removed(p)
           \/ RepairControl(p)
  PROVE  TypeInv'
<1>0. job[p] \in Job /\ job[p].doomed \in SUBSET Versions
  BY DEF TypeInv, TypeOK, Job
<1>1. \A V \in SUBSET Versions : Inactive(V) \in SUBSET Versions
  BY DEF Inactive
<1>2. {"prune", "retire", "retain", "unlock"} \subseteq FreePCs \ (Changing \cup Undoing)
  BY FreeOnes DEF Locked, Removing, Changing, Applying, Undoing
<1>3. CASE ChooseDoomed(p)
  <2>1. PICK D \in SUBSET Versions :
          SetJob(p, [job[p] EXCEPT !.doomed = D]) /\ Go(p, "prune")
    BY <1>1, <1>3 DEF ChooseDoomed, Versions
  <2>2. StoreOK' /\ pc[p] = "doom"
    BY <1>3, StoreStays DEF ChooseDoomed
  <2> QED BY <1>2, <2>1, <2>2, TypeDooms
<1>4. CASE ChooseOld(p)
  <2>1. PICK D \in SUBSET Versions :
          SetJob(p, [job[p] EXCEPT !.doomed = D]) /\ Go(p, "retire")
    BY <1>1, <1>4 DEF ChooseOld, Versions
  <2>2. StoreOK' /\ pc[p] = "retain"
    BY <1>4, StoreStays DEF ChooseOld
  <2> QED BY <1>2, <2>1, <2>2, TypeDooms
<1>5. CASE RemoveVersion(p)
  <2>1. pc[p] \in Removing /\ UNCHANGED pc
    BY <1>5 DEF RemoveVersion
  <2>2. StoreOK'
    BY <1>5 DEF RemoveVersion, TypeInv, TypeOK, StoreOK, pointers, launchers, planes,
                markers, Keep, counters
  <2>3. \E D \in SUBSET Versions :
          job' = job \/ SetJob(p, [job[p] EXCEPT !.doomed = D])
    BY <1>0, <1>5 DEF RemoveVersion
  <2>4. CASE job' = job
    BY <2>1, <2>2, <2>4, TypeSplit DEF TypeInv, WorkOK, StoreOK, TypeOK
  <2>5. ASSUME NEW D \in SUBSET Versions, SetJob(p, [job[p] EXCEPT !.doomed = D])
        PROVE  TypeInv'
    <3>1. pc[p] \in FreePCs \ (Changing \cup Undoing) /\ pc[p] \notin {"pending", "latest"}
      BY <1>2, <2>1 DEF Removing
    <3>2. Go(p, pc[p])
      BY <2>1 DEF Go, TypeInv, TypeOK
    <3> QED BY <2>2, <2>5, <3>1, <3>2, TypeDooms
  <2> QED BY <2>3, <2>4, <2>5
<1>6. CASE Removed(p)
  <2>1. StoreOK' /\ pc[p] \in Removing
    BY <1>6, StoreStays DEF Removed
  <2> QED BY <1>2, <1>6, <2>1, TypeGoes DEF Removed, Removing
<1>7. CASE RepairControl(p)
  <2>1. StoreOK'
    BY <1>7 DEF RepairControl, TypeInv, TypeOK, StoreOK, pointers, launchers, markers,
                Keep, counters
  <2> QED BY <1>2, <1>7, <2>1, TypeGoes, TypeFails DEF RepairControl
<1> QED BY <1>3, <1>4, <1>5, <1>6, <1>7

LEMMA AfterClearType ==
  ASSUME TypeInv, StoreOK', NEW p \in Procs, pc[p] \in {"drop", "clear"}, AfterClear(p)
  PROVE  TypeInv'
<1> USE DEF Changing, Applying, Undoing
<1>1. CASE pc[p] = "clear" /\ job[p].op = "activate"
  <2>1. job[p].ver \in Releases
    BY <1>1 DEF TypeInv, WorkOK
  <2>2. \E l \in {"forget", "blame"} : Go(p, l) /\ UNCHANGED job
    BY <1>1 DEF AfterClear
  <2>3. {"forget", "blame"} \subseteq PCs \ (Staging \cup Changing \cup Undoing)
    BY DEF PCs, Unlocked, Staging
  <2>4. PICK l \in {"forget", "blame"} : Moves(p, l, job[p])
    BY <2>2, <2>3, MovePc DEF TypeInv
  <2> QED BY <1>1, <2>1, <2>3, <2>4, TypeKept
<1>2. CASE ~ (pc[p] = "clear" /\ job[p].op = "activate")
  BY <1>2, TypeEnds DEF AfterClear
<1> QED BY <1>1, <1>2

LEMMA AfterType ==
  ASSUME TypeInv, NEW p \in Procs,
         Unlock(p) \/ WritePending(p) \/ ClearPending(p) \/ Forget(p) \/ Blame(p)
  PROVE  TypeInv'
<1> USE DEF Changing, Applying, Undoing
<1>0. WorkOK(p) /\ job[p] \in Job
  BY DEF TypeInv, TypeOK
<1>1. CASE Unlock(p)
  <2>1. StoreOK'
    BY <1>1, StoreFrame DEF Unlock, TypeInv, TypeOK, StoreOK, counters
  <2> DEFINE l == AfterLock(job[p])
             j == [job[p] EXCEPT !.staged = TRUE]
  <2>2. /\ l \in PCs \ (Changing \cup Undoing) /\ l # "target"
        /\ l \in Staging => job[p].op = "stage"
        /\ l \in Startup => job[p].op = "activate"
    BY DEF AfterLock, PCs, Unlocked, Staging, Startup
  <2>3. j \in Job /\ j.op = job[p].op /\ j.ver = job[p].ver
    BY <1>0, JobUpdates
  <2>4. job[p].op \in {"activate", "stage"} => job[p].ver \in Releases
    BY <1>0, <1>1 DEF WorkOK, Unlock
  <2> HIDE DEF l, j
  <2>5. Go(p, l) /\ (IF l = "idle" THEN SetJob(p, NoJob) ELSE SetJob(p, j))
    BY <1>1 DEF Unlock, l, j
  <2>6. CASE l = "idle"
    BY <2>1, <2>5, <2>6, TypeEnds DEF Finish
  <2>7. CASE l # "idle"
    <3>1. Moves(p, l, j)
      BY <2>2, <2>3, <2>5, <2>7, MoveBoth DEF TypeInv
    <3> QED BY <2>1, <2>2, <2>3, <2>4, <3>1, TypeKept
  <2> QED BY <2>6, <2>7
<1>2. CASE WritePending(p)
  <2>1. job[p].ver \in Releases
    BY <1>0, <1>2 DEF WorkOK, WritePending, Staging
  <2>2. StoreOK'
    BY <1>2, <2>1 DEF WritePending, TypeInv, TypeOK, StoreOK, pointers, launchers,
                      planes, Keep, counters
  <2> QED BY <1>2, <2>2, TypeEnds DEF WritePending
<1>3. CASE ClearPending(p)
  <2>1. StoreOK'
    BY <1>3 DEF ClearPending, TypeInv, TypeOK, StoreOK, pointers, launchers, planes,
                Keep, counters
  <2> QED BY <1>3, <2>1, AfterClearType DEF ClearPending
<1>4. CASE Forget(p)
  <2>1. StoreOK'
    BY <1>4 DEF Forget, TypeInv, TypeOK, StoreOK, pointers, launchers, planes, Keep,
                counters
  <2> QED BY <1>4, <2>1, TypeEnds DEF Forget
<1>5. CASE Blame(p)
  <2>1. job[p].ver \in Releases
    BY <1>0, <1>5 DEF WorkOK, Blame, Startup
  <2>2. StoreOK'
    BY <1>5, <2>1 DEF Blame, TypeInv, TypeOK, StoreOK, pointers, launchers, planes,
                      Keep, counters
  <2> QED BY <1>5, <2>2, TypeEnds DEF Blame
<1> QED BY <1>1, <1>2, <1>3, <1>4, <1>5

LEMMA FailureType ==
  ASSUME TypeInv, NEW p \in Procs, Fault(p) \/ Interrupt(p) \/ Kill(p)
  PROVE  TypeInv'
<1>1. CASE Fault(p)
  <2>1. StoreOK'
    BY <1>1, StoreFrame DEF Fault, TypeInv, TypeOK, StoreOK
  <2>2. CASE Fail(p) /\ pc[p] \in {"install", "snapshot", "prune", "repair"}
    BY <2>1, <2>2, TypeFails
  <2>3. CASE pc[p] \in Changing /\ \E l \in Undoing : StartUndo(p, l)
    BY <2>1, <2>3, TypeUndoes
  <2>4. CASE pc[p] = "retire" /\ Go(p, "unlock") /\ UNCHANGED job
    <3>1. "unlock" \in FreePCs \ (Changing \cup Undoing)
      BY FreeOnes DEF Locked, Changing, Applying, Undoing
    <3> QED BY <2>1, <2>4, <3>1, TypeGoes
  <2>5. CASE pc[p] \in {"drop", "clear"} /\ AfterClear(p)
    BY <2>1, <2>5, AfterClearType
  <2> QED BY <1>1, <2>2, <2>3, <2>4, <2>5 DEF Fault, FaultyStep, Changing, Undoing
<1>2. CASE Interrupt(p) \/ Kill(p)
  <2>1. lock' \in Procs \cup {None} /\ started' \in Nat /\ faults' \in Nat
          /\ kills' \in Nat
    BY <1>2 DEF Interrupt, Kill, Die, TypeInv, TypeOK, StoreOK
  <2>2. torn' \in BOOLEAN
    <3>1. CASE Interrupt(p)
      BY <3>1 DEF Interrupt, TypeInv, TypeOK, StoreOK
    <3>2. CASE Kill(p)
      BY <3>2, Zenon DEF Kill, TypeInv, TypeOK, StoreOK
    <3> QED BY <1>2, <3>1, <3>2
  <2>3. StoreOK /\ UNCHANGED disk
    BY <1>2 DEF Interrupt, Kill, Die, TypeInv, TypeOK, StoreOK
  <2>4. StoreOK'
    BY <2>1, <2>2, <2>3, StoreFrame
  <2> QED BY <1>2, <2>4, TypeEnds DEF Interrupt, Kill, Die
<1> QED BY <1>1, <1>2

LEMMA InitType == Init => TypeInv
<1> SUFFICES ASSUME Init PROVE TypeInv
  OBVIOUS
<1> USE ConstantsAssumption
<1>1. current \in Versions /\ Side[current] \subseteq Names
  BY SideNames DEF Init
<1>2. StoreOK
  BY <1>1 DEF Init, StoreOK, VersionOrNone, Versions
<1>3. pc \in [Procs -> PCs] /\ job \in [Procs -> Job]
  BY NoJobType DEF Init, PCs
<1>4. \A p \in Procs : WorkOK(p)
  BY DEF Init, WorkOK, NoJob, Staging, Startup, OpNames, Activating, Switching,
         Changing, Applying, Undoing
<1> QED BY <1>2, <1>3, <1>4, TypeSplit DEF TypeInv

LEMMA NextType == ASSUME TypeInv, [Next]_vars PROVE TypeInv'
<1>1. ASSUME NEW p \in Procs, Step(p) PROVE TypeInv'
  BY <1>1, StartType, EarlyType, LockType, ChangeType, ProbeType, UndoType,
     RemoveType, AfterType, FailureType DEF Step, Advance
<1>2. CASE UNCHANGED vars
  BY <1>2 DEF TypeInv, TypeOK, WorkOK, vars, disk, pointers, launchers, planes,
              markers, counters
<1> QED BY <1>1, <1>2 DEF Next

\* Whatever the commands do and wherever they fail or are killed, the pointers
\* name versions, the markers releases, and every process is at one of its steps.
THEOREM SelfTypeCorrect == Spec => []TypeOK
<1>1. TypeInv /\ [Next]_vars => TypeInv'
  BY NextType
<1>2. TypeInv => TypeOK
  BY DEF TypeInv
<1> QED BY InitType, <1>1, <1>2, PTL DEF Spec

-----------------------------------------------------------------------------
(* The selected version, the one a rollback returns to and the control     *)
(* plane.                                                                  *)

Whole(v) == v # None => bundle[v] = "complete"

\* What a process that works under the lock relies on: the lock is its own,
\* what it selects and what it may have to select again are complete, and what
\* it removes is not selected.
Holds(p) ==
  /\ pc[p] \in Locked => lock = p
  /\ pc[p] \in Changing => bundle[job[p].ver] = "complete"
  /\ pc[p] \in Changing \cup Undoing
       => Whole(job[p].saved.current) /\ Whole(job[p].saved.previous)
  /\ pc[p] \in Removing
       => current \notin job[p].doomed /\ previous \notin job[p].doomed

PointerInv == TypeInv /\ PointersComplete /\ \A p \in Procs : Holds(p)

\* The other processes stay where they are.
Apart(p) == \A q \in Procs \ {p} : pc'[q] = pc[q] /\ job'[q] = job[q]

\* Plain work under the lock is bound by the lock alone.
Plain == PCs \ (Changing \cup Undoing \cup Removing)

LEMMA PCsSplit ==
  /\ Changing \subseteq Locked /\ Undoing \subseteq Locked /\ Removing \subseteq Locked
  /\ Changing \cap Undoing = {} /\ Removing \cap (Changing \cup Undoing) = {}
BY DEF Locked, Changing, Applying, Undoing, Removing

LEMMA GoApart ==
  ASSUME TypeOK, NEW p \in Procs, NEW l, Go(p, l)
  PROVE  pc'[p] = l /\ \A q \in Procs \ {p} : pc'[q] = pc[q]
BY DEF TypeOK, Go

LEMMA SetApart ==
  ASSUME TypeOK, NEW p \in Procs, NEW j, SetJob(p, j)
  PROVE  job'[p] = j /\ \A q \in Procs \ {p} : job'[q] = job[q]
BY DEF TypeOK, SetJob

LEMMA MoveApart ==
  ASSUME TypeOK, NEW p \in Procs,
         (\E l : Go(p, l)) \/ UNCHANGED pc, (\E j : SetJob(p, j)) \/ UNCHANGED job
  PROVE  Apart(p)
BY GoApart, SetApart DEF Apart

\* Whoever holds the lock is the only one under it.
LEMMA OthersUnlocked ==
  ASSUME PointerInv, NEW p \in Procs, lock \in {p, None}, Apart(p)
  PROVE  \A q \in Procs \ {p} : Holds(q)'
<1> SUFFICES ASSUME NEW q \in Procs \ {p} PROVE Holds(q)'
  OBVIOUS
<1>1. pc[q] \notin Locked
  BY ConstantsAssumption DEF PointerInv, Holds
<1>2. pc'[q] \notin Locked
  BY <1>1 DEF Apart
<1> QED BY <1>2, PCsSplit DEF Holds

\* A step on nothing that Holds reads, towards plain work or out of the lock.
LEMMA PlainStep ==
  ASSUME PointerInv, TypeInv', NEW p \in Procs, Apart(p),
         UNCHANGED <<bundle, current, previous>>,
         pc'[p] \in Plain, pc'[p] \in Locked => lock' = p,
         lock' = lock \/ lock \in {p, None}
  PROVE  PointerInv'
<1>1. PointersComplete'
  BY DEF PointerInv, PointersComplete
<1>2. Holds(p)'
  BY DEF Holds, Plain
<1>3. ASSUME NEW q \in Procs \ {p} PROVE Holds(q)'
  <2>1. CASE lock \in {p, None}
    BY <2>1, OthersUnlocked
  <2>2. CASE lock' = lock
    BY <2>2 DEF PointerInv, Holds, Apart, Whole
  <2> QED BY <2>1, <2>2
<1> QED BY <1>1, <1>2, <1>3 DEF PointerInv

\* A step of the holder of the lock that keeps it.
LEMMA HolderStep ==
  ASSUME PointerInv, TypeInv', NEW p \in Procs, Apart(p), pc[p] \in Locked,
         lock' = lock, PointersComplete',
         pc'[p] \in Changing => bundle'[job'[p].ver] = "complete",
         pc'[p] \in Changing \cup Undoing
           => Whole(job[p].saved.current)' /\ Whole(job[p].saved.previous)',
         pc'[p] \in Removing
           => current' \notin job'[p].doomed /\ previous' \notin job'[p].doomed
  PROVE  PointerInv'
<1>1. lock = p
  BY DEF PointerInv, Holds
<1>2. Holds(p)'
  BY <1>1 DEF Holds, Whole
<1>3. \A q \in Procs \ {p} : Holds(q)'
  BY <1>1, OthersUnlocked
<1> QED BY <1>2, <1>3 DEF PointerInv

-----------------------------------------------------------------------------
(* The steps.                                                               *)

LEMMA PlainOnes ==
  /\ Unlocked \cup {"idle"} \subseteq Plain \ Locked
  /\ {"install", "target", "snapshot", "doom", "repair", "retain", "unlock"}
       \subseteq Plain
BY DEF Plain, PCs, Unlocked, Locked, Changing, Applying, Undoing, Removing

LEMMA UnlockedSteps ==
  ASSUME PointerInv, TypeInv', NEW p \in Procs,
         Start(p) \/ Resolve(p) \/ Gate(p) \/ ReadPending(p) \/ CheckStale(p)
           \/ ReadLatest(p) \/ CheckStaged(p) \/ MarkerUnreadable(p) \/ Record(p)
           \/ Offer(p) \/ ReadBase(p) \/ Fetch(p) \/ WritePending(p)
           \/ ClearPending(p) \/ Forget(p) \/ Blame(p)
  PROVE  PointerInv'
<1>1. TypeOK
  BY DEF PointerInv, TypeInv
<1>2. UNCHANGED <<bundle, current, previous, lock>>
  BY DEF Start, Resolve, Gate, ReadPending, CheckStale, ReadLatest, CheckStaged,
         MarkerUnreadable, Record, Offer, ReadBase, Fetch, WritePending, ClearPending,
         Forget, Blame, Keep, disk, pointers
<1>3. \E l \in Unlocked \cup {"idle"} : Go(p, l)
  <2>1. \A o \in OpNames : Entry[o] \in Unlocked
    BY DEF OpNames, Activating, Switching, Entry, Unlocked
  <2>2. CASE Start(p)
    BY <2>1, <2>2, ConstantsAssumption DEF Start
  <2>3. CASE ~ Start(p)
    BY <2>3 DEF Resolve, Gate, ReadPending, CheckStale, ReadLatest, CheckStaged,
           MarkerUnreadable, Record, Offer, ReadBase, Fetch, WritePending,
           ClearPending, AfterClear, Forget, Blame, Finish, Unlocked
  <2> QED BY <2>2, <2>3
<1>4. (\E j : SetJob(p, j)) \/ UNCHANGED job
  BY DEF Start, Resolve, Gate, ReadPending, CheckStale, ReadLatest, CheckStaged,
         MarkerUnreadable, Record, Offer, ReadBase, Fetch, WritePending, ClearPending,
         AfterClear, Forget, Blame, Finish
<1>5. Apart(p)
  BY <1>1, <1>3, <1>4, MoveApart
<1>6. pc'[p] \in Plain \ Locked
  BY <1>1, <1>3, GoApart, PlainOnes
<1> QED BY <1>2, <1>5, <1>6, PlainStep

LEMMA LockedPlainSteps ==
  ASSUME PointerInv, TypeInv', NEW p \in Procs,
         Acquire(p) \/ RollbackTarget(p) \/ RepairControl(p) \/ Unlock(p)
           \/ Interrupt(p) \/ Kill(p)
  PROVE  PointerInv'
<1>1. TypeOK
  BY DEF PointerInv, TypeInv
<1>2. UNCHANGED <<bundle, current, previous>>
  BY DEF Acquire, RollbackTarget, RepairControl, Unlock, Interrupt, Kill, Die, disk,
         pointers
<1>3. (\E l : Go(p, l)) /\ ((\E j : SetJob(p, j)) \/ UNCHANGED job)
  BY DEF Acquire, RollbackTarget, RepairControl, Unlock, Interrupt, Kill, Die, Finish,
         Fail
<1>4. Apart(p)
  BY <1>1, <1>3, MoveApart
<1>5. CASE Acquire(p) /\ lock = None
  <2>1. FirstLocked(job[p]) \in {"install", "target", "snapshot", "doom", "repair"}
    BY DEF FirstLocked
  <2>2. pc'[p] = FirstLocked(job[p]) /\ lock' = p
    BY <1>1, <1>5, GoApart DEF Acquire
  <2> QED BY <1>2, <1>4, <1>5, <2>1, <2>2, PlainOnes, PlainStep
<1>6. CASE Acquire(p) /\ lock # None
  <2>1. pc'[p] = "idle" /\ lock' = lock
    BY <1>1, <1>6, GoApart DEF Acquire, Finish
  <2> QED BY <1>2, <1>4, <2>1, PlainOnes, PlainStep
<1>7. CASE RollbackTarget(p) \/ RepairControl(p)
  <2>1. pc[p] \in Locked /\ lock' = lock
    BY <1>7 DEF RollbackTarget, RepairControl, Locked, Keep
  <2>2. lock = p
    BY <2>1 DEF PointerInv, Holds
  <2>3. pc'[p] \in {"snapshot", "unlock"}
    BY <1>1, <1>7, GoApart DEF RollbackTarget, RepairControl, Fail
  <2> QED BY <1>2, <1>4, <2>1, <2>2, <2>3, PlainOnes, PlainStep
<1>8. CASE Unlock(p)
  <2>1. lock = p
    BY <1>8 DEF PointerInv, Holds, Unlock, Locked
  <2>2. AfterLock(job[p]) \in Unlocked \cup {"idle"}
    BY DEF AfterLock, Unlocked
  <2>3. pc'[p] = AfterLock(job[p])
    BY <1>1, <1>8, GoApart DEF Unlock
  <2> QED BY <1>2, <1>4, <2>1, <2>2, <2>3, PlainOnes, PlainStep
<1>9. CASE Interrupt(p) \/ Kill(p)
  <2>1. pc'[p] = "idle" /\ (lock' = lock \/ lock = p)
    BY <1>1, <1>9, GoApart DEF Interrupt, Kill, Die, Finish
  <2> QED BY <1>2, <1>4, <2>1, PlainOnes, PlainStep
<1> QED BY <1>5, <1>6, <1>7, <1>8, <1>9

LEMMA InstallStep ==
  ASSUME PointerInv, TypeInv', NEW p \in Procs, InstallBundle(p)
  PROVE  PointerInv'
<1>1. TypeOK
  BY DEF PointerInv, TypeInv
<1>2. pc[p] \in Locked /\ lock' = lock /\ UNCHANGED <<current, previous>>
  BY DEF InstallBundle, Locked, Keep, pointers
<1>3. (\E l \in {"snapshot", "unlock"} : Go(p, l))
        /\ ((\E j : SetJob(p, j)) \/ UNCHANGED job)
  BY DEF InstallBundle, Fail
<1>4. Apart(p) /\ pc'[p] \in {"snapshot", "unlock"}
  BY <1>1, <1>3, MoveApart, GoApart
<1>5. \A v \in Versions : bundle[v] = "complete" => bundle'[v] = "complete"
  BY <1>1 DEF InstallBundle, TypeOK
<1>6. PointersComplete'
  BY <1>1, <1>2, <1>5 DEF PointerInv, PointersComplete, TypeOK, VersionOrNone
<1>7. pc'[p] \notin Changing \cup Undoing \cup Removing
  BY <1>4, PlainOnes DEF Plain
<1> QED BY <1>2, <1>4, <1>6, <1>7, HolderStep

LEMMA SnapshotStep ==
  ASSUME PointerInv, TypeInv', NEW p \in Procs, Snapshot(p)
  PROVE  PointerInv'
<1>1. TypeOK /\ pc[p] \in Locked /\ job[p] \in Job /\ Disk \in Saved
  BY DiskType DEF PointerInv, TypeInv, TypeOK, Snapshot, Locked
<1>2. lock' = lock /\ UNCHANGED <<bundle, current, previous>>
  BY DEF Snapshot, Keep, disk, pointers
<1>3. PointersComplete'
  BY <1>2 DEF PointerInv, PointersComplete
<1>4. CASE Complete(job[p].ver)
  <2> DEFINE j == [job[p] EXCEPT !.saved = Disk]
  <2>1. j.ver = job[p].ver /\ j.saved = Disk
    BY <1>1, JobUpdates
  <2> HIDE DEF j
  <2>2. SetJob(p, j) /\ \E l \in {"backup", "sides"} : Go(p, l)
    BY <1>4 DEF Snapshot, j
  <2>3. Apart(p) /\ job'[p] = j /\ pc'[p] \in {"backup", "sides"}
    BY <1>1, <2>2, MoveApart, GoApart, SetApart
  <2>4. Disk.current = current /\ Disk.previous = previous
    BY DEF Disk
  <2>5. bundle'[job'[p].ver] = "complete"
    BY <1>2, <1>4, <2>1, <2>3 DEF Complete
  <2>6. Whole(job[p].saved.current)' /\ Whole(job[p].saved.previous)'
    BY <1>2, <2>1, <2>3, <2>4 DEF Whole, PointerInv, PointersComplete
  <2>7. pc'[p] \notin Removing
    BY <2>3 DEF Removing
  <2> QED BY <1>1, <1>2, <1>3, <2>3, <2>5, <2>6, <2>7, HolderStep
<1>5. CASE ~ Complete(job[p].ver)
  <2>1. Go(p, "unlock") /\ \E j : SetJob(p, j)
    BY <1>5 DEF Snapshot, Fail
  <2>2. Apart(p) /\ pc'[p] = "unlock"
    BY <1>1, <2>1, MoveApart, GoApart
  <2>3. pc'[p] \notin Changing \cup Undoing \cup Removing
    BY <2>2, PlainOnes DEF Plain
  <2> QED BY <1>1, <1>2, <1>3, <2>2, <2>3, HolderStep
<1> QED BY <1>4, <1>5

LEMMA ChangeSteps ==
  ASSUME PointerInv, TypeInv', NEW p \in Procs,
         BackUp(p) \/ CopyControl(p) \/ PrepareSideLinks(p) \/ SwitchPrevious(p)
           \/ SwitchCurrent(p) \/ RemoveObsolete(p) \/ WriteSideFile(p)
           \/ ReconcileLaunchers(p)
  PROVE  PointerInv'
<1> USE DEF BackUp, CopyControl, PrepareSideLinks, SwitchPrevious, SwitchCurrent,
            RemoveObsolete, WriteSideFile, ReconcileLaunchers
<1>1. TypeOK /\ pc[p] \in Changing
  BY DEF PointerInv, TypeInv, Changing, Applying
<1>2. UNCHANGED <<bundle, lock, job>>
  BY DEF Keep, disk
<1>3. \E l \in Changing \cup {"unlock"} : Go(p, l)
  BY DEF Changing, Applying
<1>4. Apart(p) /\ pc'[p] \in Changing \cup {"unlock"}
  BY <1>1, <1>2, <1>3, MoveApart, GoApart
<1>5. /\ bundle[job[p].ver] = "complete"
      /\ Whole(job[p].saved.current) /\ Whole(job[p].saved.previous)
  BY <1>1 DEF PointerInv, Holds
<1>6. /\ current' \in {current, job[p].ver}
      /\ previous' = previous \/ previous' = current
  BY DEF disk, pointers
<1>7. PointersComplete'
  BY <1>2, <1>5, <1>6 DEF PointerInv, PointersComplete
<1>8. Whole(job[p].saved.current)' /\ Whole(job[p].saved.previous)'
  BY <1>2, <1>5 DEF Whole
<1>9. pc'[p] \notin Removing
  BY <1>4 DEF Changing, Applying, Removing
<1> QED BY <1>1, <1>2, <1>4, <1>5, <1>7, <1>8, <1>9, PCsSplit, HolderStep

\* What a probe, a prune or a retention sets out to remove is not selected.
LEMMA DoomStep ==
  ASSUME PointerInv, TypeInv', NEW p \in Procs, pc[p] \in Locked,
         UNCHANGED <<bundle, current, previous, lock>>,
         NEW V, NEW D \in SUBSET Versions, D \subseteq Inactive(V),
         SetJob(p, [job[p] EXCEPT !.doomed = D]), NEW l \in Removing, Go(p, l)
  PROVE  PointerInv'
<1>1. TypeOK /\ job[p] \in Job
  BY DEF PointerInv, TypeInv, TypeOK
<1> DEFINE j == [job[p] EXCEPT !.doomed = D]
<1>2. j.doomed = D
  BY <1>1, JobUpdates
<1> HIDE DEF j
<1>3. SetJob(p, j)
  BY DEF j
<1>4. Apart(p) /\ pc'[p] = l /\ job'[p] = j
  BY <1>1, <1>3, MoveApart, GoApart, SetApart
<1>5. PointersComplete'
  BY DEF PointerInv, PointersComplete
<1>6. current' \notin D /\ previous' \notin D
  BY DEF Inactive
<1> QED BY <1>2, <1>4, <1>5, <1>6, PCsSplit, HolderStep

\* Work under the lock that is over, or goes on to the retention.
LEMMA OverStep ==
  ASSUME PointerInv, TypeInv', NEW p \in Procs, pc[p] \in Locked,
         UNCHANGED <<bundle, current, previous, lock>>,
         NEW l \in {"unlock", "retain"}, Go(p, l),
         (\E j : SetJob(p, j)) \/ UNCHANGED job
  PROVE  PointerInv'
<1>1. TypeOK /\ lock = p
  BY DEF PointerInv, TypeInv, Holds
<1>2. Apart(p) /\ pc'[p] = l
  BY <1>1, MoveApart, GoApart
<1> QED BY <1>1, <1>2, PlainOnes, PlainStep

LEMMA StartsUndo ==
  ASSUME PointerInv, TypeInv', NEW p \in Procs, pc[p] \in Changing \cup Undoing,
         UNCHANGED <<bundle, current, previous, lock>>,
         NEW l \in Undoing, StartUndo(p, l)
  PROVE  PointerInv'
<1>1. TypeOK /\ job[p] \in Job /\ "unlinkCurrent" \in UndoSteps
  BY DEF PointerInv, TypeInv, TypeOK, UndoSteps
<1> DEFINE j == [job[p] EXCEPT !.step = "unlinkCurrent"]
<1>2. j.saved = job[p].saved
  BY <1>1, JobUpdates
<1> HIDE DEF j
<1>3. SetJob(p, j) /\ Go(p, l)
  BY DEF j, StartUndo
<1>4. Apart(p) /\ pc'[p] = l /\ job'[p] = j
  BY <1>1, <1>3, MoveApart, GoApart, SetApart
<1>5. PointersComplete'
  BY DEF PointerInv, PointersComplete
<1>6. Whole(job[p].saved.current)' /\ Whole(job[p].saved.previous)'
  BY <1>2, <1>4 DEF PointerInv, Holds, Whole
<1>7. pc'[p] \notin Changing \cup Removing
  BY <1>4, PCsSplit
<1> QED BY <1>4, <1>5, <1>6, <1>7, PCsSplit, HolderStep

\* A path is put back, or is not: the pointers name what they did, what the
\* snapshot names, or nothing.
LEMMA RestoreSteps ==
  ASSUME PointerInv, TypeInv', NEW p \in Procs, Undo(p) \/ UndoFault(p)
  PROVE  PointerInv'
<1>1. TypeOK /\ job[p] \in Job /\ pc[p] \in Undoing
  BY DEF PointerInv, TypeInv, TypeOK, Undo, UndoFault
<1>2. UNCHANGED <<bundle, lock, pc>>
  BY DEF Undo, UndoFault, Keep, disk
<1>3. PICK j : SetJob(p, j) /\ j.saved = job[p].saved
  <2>1. CASE Undo(p)
    <3>1. SetJob(p, [job[p] EXCEPT !.step = NextStep(pc[p], @)])
      BY <2>1 DEF Undo
    <3>2. [job[p] EXCEPT !.step = NextStep(pc[p], @)].saved = job[p].saved
      BY <1>1 DEF Job
    <3> QED BY <3>1, <3>2
  <2>2. CASE UndoFault(p)
    <3>1. PICK n : SetJob(p, [job[p] EXCEPT !.step = n,
                                            !.undone = @ /\ ~ LastRestore(p)])
      BY <2>2 DEF UndoFault
    <3>2. [job[p] EXCEPT !.step = n, !.undone = @ /\ ~ LastRestore(p)].saved
            = job[p].saved
      BY <1>1 DEF Job
    <3> QED BY <3>1, <3>2
  <2> QED BY <2>1, <2>2
<1>4. Apart(p) /\ job'[p] = j
  BY <1>1, <1>2, <1>3, MoveApart, SetApart
<1>5. Whole(job[p].saved.current) /\ Whole(job[p].saved.previous)
  BY <1>1 DEF PointerInv, Holds
<1>6. /\ current' \in {None, current, job[p].saved.current}
      /\ previous' \in {None, previous, job[p].saved.previous}
  BY DEF Undo, UndoFault, Restore, disk, pointers
<1>7. PointersComplete'
  BY <1>2, <1>5, <1>6 DEF PointerInv, PointersComplete, Whole
<1>8. Whole(job[p].saved.current)' /\ Whole(job[p].saved.previous)'
  BY <1>2, <1>3, <1>4, <1>5 DEF Whole
<1>9. pc'[p] \notin Changing \cup Removing
  BY <1>1, <1>2, PCsSplit
<1> QED BY <1>1, <1>2, <1>4, <1>7, <1>8, <1>9, PCsSplit, HolderStep

LEMMA RemoveSteps ==
  ASSUME PointerInv, TypeInv', NEW p \in Procs,
         ChooseDoomed(p) \/ ChooseOld(p) \/ RemoveVersion(p) \/ Removed(p)
  PROVE  PointerInv'
<1>1. TypeOK /\ job[p] \in Job /\ pc[p] \in Locked
  BY DEF PointerInv, TypeInv, TypeOK, ChooseDoomed, ChooseOld, RemoveVersion, Removed,
         Locked, Removing
<1>2. lock' = lock /\ UNCHANGED <<current, previous>>
  BY DEF ChooseDoomed, ChooseOld, RemoveVersion, Removed, Keep, disk, pointers
<1>3. CASE ChooseDoomed(p)
  <2>1. PICK D \in SUBSET Inactive(Devs) : SetJob(p, [job[p] EXCEPT !.doomed = D])
    BY <1>3 DEF ChooseDoomed
  <2>2. D \in SUBSET Versions /\ "prune" \in Removing /\ Go(p, "prune")
          /\ UNCHANGED bundle
    BY <1>3 DEF ChooseDoomed, Inactive, Versions, Removing, disk
  <2> QED BY <1>1, <1>2, <2>1, <2>2, DoomStep
<1>4. CASE ChooseOld(p)
  <2>1. PICK D \in SUBSET Inactive(Releases) :
          SetJob(p, [job[p] EXCEPT !.doomed = D])
    BY <1>4 DEF ChooseOld
  <2>2. D \in SUBSET Versions /\ "retire" \in Removing /\ Go(p, "retire")
          /\ UNCHANGED bundle
    BY <1>4 DEF ChooseOld, Inactive, Versions, Removing, disk
  <2> QED BY <1>1, <1>2, <2>1, <2>2, DoomStep
<1>5. CASE RemoveVersion(p)
  <2>1. pc[p] \in Removing /\ UNCHANGED pc
    BY <1>5 DEF RemoveVersion
  <2>2. current \notin job[p].doomed /\ previous \notin job[p].doomed
    BY <2>1 DEF PointerInv, Holds
  <2>3. PICK v \in job[p].doomed :
          /\ \E b : bundle' = [bundle EXCEPT ![v] = b]
          /\ UNCHANGED job \/ SetJob(p, [job[p] EXCEPT !.doomed = @ \ {v}])
    BY <1>5 DEF RemoveVersion
  <2>4. \A w \in Versions \ {v} : bundle'[w] = bundle[w]
    BY <1>1, <2>3 DEF TypeOK
  <2>5. PointersComplete'
    BY <1>1, <1>2, <2>2, <2>3, <2>4
       DEF PointerInv, PointersComplete, TypeOK, VersionOrNone
  <2>6. Apart(p)
    BY <1>1, <2>1, <2>3, MoveApart
  <2>7. job'[p].doomed \subseteq job[p].doomed
    <3>1. CASE UNCHANGED job
      BY <3>1
    <3>2. CASE SetJob(p, [job[p] EXCEPT !.doomed = @ \ {v}])
      <4>1. [job[p] EXCEPT !.doomed = @ \ {v}].doomed = job[p].doomed \ {v}
        BY <1>1 DEF Job
      <4> QED BY <1>1, <3>2, <4>1, SetApart
    <3> QED BY <2>3, <3>1, <3>2
  <2>8. pc'[p] \notin Changing \cup Undoing
    BY <2>1, PCsSplit
  <2> QED BY <1>1, <1>2, <2>2, <2>5, <2>6, <2>7, <2>8, HolderStep
<1>6. CASE Removed(p)
  <2>1. UNCHANGED bundle /\ UNCHANGED job /\ \E l \in {"unlock", "retain"} : Go(p, l)
    BY <1>6 DEF Removed, disk
  <2> QED BY <1>1, <1>2, <2>1, OverStep
<1> QED BY <1>3, <1>4, <1>5, <1>6

LEMMA VerdictSteps ==
  ASSUME PointerInv, TypeInv', NEW p \in Procs, Probe(p) \/ Undone(p)
  PROVE  PointerInv'
<1>1. UNCHANGED <<bundle, current, previous, lock>>
  BY DEF Probe, Undone, Keep, disk, pointers
<1>2. pc[p] \in Changing \cup Undoing
  BY DEF Probe, Undone, Changing
<1>3. CASE Probe(p) /\ ProbePasses(job[p].ver)
  <2>1. SetJob(p, [job[p] EXCEPT !.doomed = Inactive(Devs)]) /\ Go(p, "prune")
    BY <1>3 DEF Probe
  <2>2. Inactive(Devs) \in SUBSET Versions /\ "prune" \in Removing
    BY DEF Inactive, Versions, Removing
  <2> QED BY <1>1, <1>2, <2>1, <2>2, PCsSplit, DoomStep
<1>4. CASE StartUndo(p, "undo")
  BY <1>1, <1>2, <1>4, StartsUndo DEF Undoing
<1>5. CASE Fail(p)
  BY <1>1, <1>2, <1>5, PCsSplit, OverStep DEF Fail
<1> QED BY <1>3, <1>4, <1>5 DEF Probe, Undone

LEMMA FaultStep ==
  ASSUME PointerInv, TypeInv', NEW p \in Procs, Fault(p)
  PROVE  PointerInv'
<1>1. UNCHANGED <<bundle, current, previous, lock>>
  BY DEF Fault, disk, pointers
<1>2. CASE pc[p] \in {"install", "snapshot", "prune", "repair", "retire"}
             /\ Go(p, "unlock") /\ ((\E j : SetJob(p, j)) \/ UNCHANGED job)
  <2>1. pc[p] \in Locked
    BY <1>2 DEF Locked, Removing
  <2> QED BY <1>1, <1>2, <2>1, OverStep
<1>3. CASE pc[p] \in Changing /\ \E l \in Undoing : StartUndo(p, l)
  BY <1>1, <1>3, StartsUndo
<1>4. CASE pc[p] \in {"drop", "clear"} /\ AfterClear(p)
  <2>1. TypeOK
    BY DEF PointerInv, TypeInv
  <2>2. (\E l \in Unlocked \cup {"idle"} : Go(p, l))
          /\ ((\E j : SetJob(p, j)) \/ UNCHANGED job)
    BY <1>4 DEF AfterClear, Finish, Unlocked
  <2>3. Apart(p) /\ pc'[p] \in Plain \ Locked
    BY <2>1, <2>2, MoveApart, GoApart, PlainOnes
  <2> QED BY <1>1, <2>3, PlainStep
<1> QED BY <1>2, <1>3, <1>4 DEF Fault, FaultyStep, Fail, Changing, Undoing

LEMMA PointerNext == ASSUME PointerInv, [Next]_vars PROVE PointerInv'
<1>1. TypeInv'
  BY NextType DEF PointerInv
<1>2. ASSUME NEW p \in Procs, Step(p) PROVE PointerInv'
  BY <1>1, <1>2, UnlockedSteps, LockedPlainSteps, InstallStep, SnapshotStep,
     ChangeSteps, RestoreSteps, RemoveSteps, VerdictSteps, FaultStep DEF Step, Advance
<1>3. CASE UNCHANGED vars
  BY <1>1, <1>3 DEF PointerInv, PointersComplete, Holds, Whole, vars, disk, pointers
<1> QED BY <1>2, <1>3 DEF Next

LEMMA PointerInit == Init => PointerInv
<1> SUFFICES ASSUME Init PROVE PointerInv
  OBVIOUS
<1>1. TypeInv
  BY InitType
<1>2. PointersComplete
  BY ConstantsAssumption DEF Init, PointersComplete
<1>3. ASSUME NEW p \in Procs PROVE Holds(p)
  <2>1. pc[p] = "idle"
    BY DEF Init
  <2>2. pc[p] \notin Locked
    BY <2>1, PlainOnes
  <2> QED BY <2>2, PCsSplit DEF Holds
<1> QED BY <1>1, <1>2, <1>3 DEF PointerInv

\* Neither the selected version nor the one a rollback returns to is ever
\* removed, in part or as a whole, however many processes update, switch, prune,
\* fail, undo and are killed (prunable_dev_versions, prune_releases_older_than).
THEOREM PointersStayComplete == Spec => []PointersComplete
<1>1. PointerInv /\ [Next]_vars => PointerInv'
  BY PointerNext
<1>2. PointerInv => PointersComplete
  BY DEF PointerInv
<1> QED BY PointerInit, <1>1, <1>2, PTL DEF Spec

-----------------------------------------------------------------------------
(* The control plane an update replaces is there until the update is over. *)

\* Where the old control plane of an activation is: in place until it has been
\* backed up, then the backup, and while it is undone either of them until it
\* is back in place.  Only then is the old backup restored over it.
OldPlane(p) ==
  LET old == job[p].saved.control
  IN  /\ old # None
      /\ pc[p] = "backup" => control = old
      /\ pc[p] \in Changing \ {"backup"} => backup = old
      /\ pc[p] \in Undoing /\ job[p].undone => old \in {control, backup}
      /\ pc[p] = "undo" /\ job[p].undone /\ job[p].step \in {"backup", "done"}
           => control = old

Kept(p) ==
  /\ pc[p] \in {"backup", "control", "probe", "undo"} => job[p].op \in Activating
  /\ pc[p] = "undoUse" => job[p].step \notin {"control", "backup"}
  /\ pc[p] \in Changing \cup Undoing /\ job[p].op \in Activating => OldPlane(p)

ControlInv == PointerInv /\ control # None /\ \A p \in Procs : Kept(p)

LEMMA KeptOutside ==
  ASSUME NEW p \in Procs, pc[p] \notin Changing \cup Undoing
  PROVE  Kept(p)
BY DEF Kept, Changing, Undoing

LEMMA ControlFrame ==
  ASSUME ControlInv, PointerInv', NEW p \in Procs, Apart(p),
         pc[p] \in Locked \/ UNCHANGED <<control, backup>>,
         control' # None, Kept(p)'
  PROVE  ControlInv'
<1>1. ASSUME NEW q \in Procs \ {p} PROVE Kept(q)'
  <2>1. CASE pc[p] \in Locked
    <3>1. pc[q] \notin Locked
      BY <2>1 DEF ControlInv, PointerInv, Holds
    <3>2. pc'[q] \notin Changing \cup Undoing
      BY <3>1, PCsSplit DEF Apart
    <3> QED BY <3>2 DEF Kept, Changing, Undoing
  <2>2. CASE UNCHANGED <<control, backup>>
    BY <2>2 DEF ControlInv, Apart, Kept, OldPlane
  <2> QED BY <2>1, <2>2
<1> QED BY <1>1 DEF ControlInv

-----------------------------------------------------------------------------
(* Steps that end outside of a change.                                      *)

LEMMA OutsideGoes ==
  ASSUME TypeInv, NEW p \in Procs,
         Start(p) \/ Resolve(p) \/ Gate(p) \/ ReadPending(p) \/ CheckStale(p)
           \/ ReadLatest(p) \/ CheckStaged(p) \/ MarkerUnreadable(p) \/ Record(p)
           \/ Offer(p) \/ ReadBase(p) \/ Fetch(p) \/ WritePending(p)
           \/ ClearPending(p) \/ Forget(p) \/ Blame(p)
           \/ Acquire(p) \/ InstallBundle(p) \/ RollbackTarget(p) \/ Unlock(p)
           \/ ChooseDoomed(p) \/ ChooseOld(p) \/ Removed(p)
           \/ Interrupt(p) \/ Kill(p)
  PROVE  /\ Apart(p) /\ pc'[p] \notin Changing \cup Undoing
         /\ UNCHANGED <<current, previous, sideFile, links, control, backup>>
<1>1. TypeOK
  BY DEF TypeInv
<1>2. UNCHANGED <<current, previous, sideFile, links, control, backup>>
  BY DEF Start, Resolve, Gate, ReadPending, CheckStale, ReadLatest, CheckStaged,
         MarkerUnreadable, Record, Offer, ReadBase, Fetch, WritePending, ClearPending,
         Forget, Blame, Acquire, InstallBundle, RollbackTarget, Unlock, ChooseDoomed,
         ChooseOld, Removed, Interrupt, Kill, Die, disk, pointers, launchers, planes
<1>3. \E l : Go(p, l) /\ l \notin Changing \cup Undoing
  <2> USE DEF Changing, Applying, Undoing
  <2>1. CASE Start(p)
    <3>1. \A o \in OpNames : Entry[o] \in Unlocked
      BY DEF OpNames, Activating, Switching, Entry, Unlocked
    <3> QED BY <2>1, <3>1, ConstantsAssumption DEF Start, Unlocked
  <2>2. CASE Acquire(p)
    <3>1. FirstLocked(job[p]) \notin Changing \cup Undoing
      BY FirstType
    <3>2. Go(p, FirstLocked(job[p])) \/ Go(p, "idle")
      BY <2>2 DEF Acquire, Finish
    <3> QED BY <3>1, <3>2
  <2>3. CASE Unlock(p)
    <3>1. AfterLock(job[p]) \notin Changing \cup Undoing
      BY DEF AfterLock
    <3>2. Go(p, AfterLock(job[p]))
      BY <2>3 DEF Unlock
    <3> QED BY <3>1, <3>2
  <2>4. CASE InstallBundle(p) \/ RollbackTarget(p) \/ ChooseDoomed(p) \/ ChooseOld(p)
               \/ Removed(p) \/ Interrupt(p) \/ Kill(p)
    <3>1. \E l \in {"snapshot", "unlock", "prune", "retire", "retain", "idle"} : Go(p, l)
      BY <2>4 DEF InstallBundle, RollbackTarget, Fail, ChooseDoomed, ChooseOld,
             Removed, Interrupt, Kill, Die, Finish
    <3> QED BY <3>1
  <2>5. CASE Resolve(p) \/ Gate(p) \/ ReadPending(p) \/ CheckStale(p) \/ ReadLatest(p)
               \/ CheckStaged(p) \/ MarkerUnreadable(p) \/ Record(p) \/ Offer(p)
               \/ ReadBase(p) \/ Fetch(p) \/ WritePending(p) \/ ClearPending(p)
               \/ Forget(p) \/ Blame(p)
    <3>1. \E l \in Unlocked \cup {"idle"} : Go(p, l)
      BY <2>5 DEF Resolve, Gate, ReadPending, CheckStale, ReadLatest, CheckStaged,
             MarkerUnreadable, Record, Offer, ReadBase, Fetch, WritePending,
             ClearPending, AfterClear, Forget, Blame, Finish, Unlocked
    <3> QED BY <3>1, PlainOnes DEF Plain
  <2> QED BY <2>1, <2>2, <2>3, <2>4, <2>5
<1>4. (\E j : SetJob(p, j)) \/ UNCHANGED job
  BY DEF Start, Resolve, Gate, ReadPending, CheckStale, ReadLatest, CheckStaged,
         MarkerUnreadable, Record, Offer, ReadBase, Fetch, WritePending, ClearPending,
         AfterClear, Forget, Blame, Finish, Acquire, InstallBundle, RollbackTarget,
         Fail, Unlock, ChooseDoomed, ChooseOld, Removed, Interrupt, Kill, Die
<1>5. Apart(p) /\ pc'[p] \notin Changing \cup Undoing
  BY <1>1, <1>3, <1>4, MoveApart, GoApart
<1> QED BY <1>2, <1>5

LEMMA OutsideSteps ==
  ASSUME ControlInv, PointerInv', NEW p \in Procs,
         Start(p) \/ Resolve(p) \/ Gate(p) \/ ReadPending(p) \/ CheckStale(p)
           \/ ReadLatest(p) \/ CheckStaged(p) \/ MarkerUnreadable(p) \/ Record(p)
           \/ Offer(p) \/ ReadBase(p) \/ Fetch(p) \/ WritePending(p)
           \/ ClearPending(p) \/ Forget(p) \/ Blame(p)
           \/ Acquire(p) \/ InstallBundle(p) \/ RollbackTarget(p) \/ Unlock(p)
           \/ ChooseDoomed(p) \/ ChooseOld(p) \/ Removed(p)
           \/ Interrupt(p) \/ Kill(p)
  PROVE  ControlInv'
<1>1. Apart(p) /\ pc'[p] \notin Changing \cup Undoing /\ UNCHANGED <<control, backup>>
  BY OutsideGoes DEF ControlInv, PointerInv
<1>2. Kept(p)'
  BY <1>1 DEF Kept, Changing, Undoing
<1> QED BY <1>1, <1>2, ControlFrame DEF ControlInv

LEMMA RemoveOne ==
  ASSUME ControlInv, PointerInv', NEW p \in Procs, RemoveVersion(p)
  PROVE  ControlInv'
<1>1. TypeOK
  BY DEF ControlInv, PointerInv, TypeInv
<1>2. UNCHANGED <<control, backup, pc>> /\ pc[p] \in Removing
  BY DEF RemoveVersion, planes
<1>3. (\E j : SetJob(p, j)) \/ UNCHANGED job
  BY DEF RemoveVersion
<1>4. Kept(p)'
  BY <1>2, PCsSplit DEF Kept, Changing, Undoing, Removing
<1> QED BY <1>1, <1>2, <1>3, <1>4, MoveApart, ControlFrame DEF ControlInv

LEMMA RepairStep ==
  ASSUME ControlInv, PointerInv', NEW p \in Procs, RepairControl(p)
  PROVE  ControlInv'
<1>1. TypeOK /\ pc[p] \in Locked
  BY DEF ControlInv, PointerInv, TypeInv, RepairControl, Locked
<1>2. control' # None
  BY DEF ControlInv, RepairControl
<1>3. Go(p, "unlock") /\ ((\E j : SetJob(p, j)) \/ UNCHANGED job)
  BY DEF RepairControl, Fail
<1>4. Apart(p) /\ pc'[p] = "unlock"
  BY <1>1, <1>3, MoveApart, GoApart
<1>5. Kept(p)'
  BY <1>4 DEF Kept, Changing, Applying, Undoing
<1> QED BY <1>1, <1>2, <1>4, <1>5, ControlFrame

-----------------------------------------------------------------------------
(* Steps of a change.                                                       *)

LEMMA KeptSnapshot ==
  ASSUME ControlInv, PointerInv', NEW p \in Procs, Snapshot(p)
  PROVE  ControlInv'
<1>1. TypeOK /\ job[p] \in Job /\ Disk \in Saved
  BY DiskType DEF ControlInv, PointerInv, TypeInv, TypeOK
<1>2. UNCHANGED <<control, backup>>
  BY DEF Snapshot, disk, planes
<1>3. CASE Complete(job[p].ver)
  <2> DEFINE j == [job[p] EXCEPT !.saved = Disk]
             l == IF job[p].op \in Activating THEN "backup" ELSE "sides"
  <2>1. j.op = job[p].op /\ j.saved = Disk /\ Disk.control = control
    BY <1>1, JobUpdates DEF Disk
  <2> HIDE DEF j
  <2>2. SetJob(p, j) /\ Go(p, l)
    BY <1>3 DEF Snapshot, j
  <2>3. Apart(p) /\ job'[p] = j /\ pc'[p] = l
    BY <1>1, <2>2, MoveApart, GoApart, SetApart
  <2>4. Kept(p)'
    BY <1>2, <2>1, <2>3 DEF Kept, OldPlane, ControlInv, Undoing
  <2> QED BY <1>2, <2>3, <2>4, ControlFrame DEF ControlInv
<1>4. CASE ~ Complete(job[p].ver)
  <2>1. Go(p, "unlock") /\ \E j : SetJob(p, j)
    BY <1>4 DEF Snapshot, Fail
  <2>2. Apart(p) /\ pc'[p] = "unlock"
    BY <1>1, <2>1, MoveApart, GoApart
  <2>3. Kept(p)'
    BY <2>2 DEF Kept, Changing, Applying, Undoing
  <2> QED BY <1>2, <2>2, <2>3, ControlFrame DEF ControlInv
<1> QED BY <1>3, <1>4

LEMMA KeptChange ==
  ASSUME ControlInv, PointerInv', NEW p \in Procs,
         BackUp(p) \/ CopyControl(p) \/ PrepareSideLinks(p) \/ SwitchPrevious(p)
           \/ SwitchCurrent(p) \/ RemoveObsolete(p) \/ WriteSideFile(p)
           \/ ReconcileLaunchers(p)
  PROVE  ControlInv'
<1> USE DEF BackUp, CopyControl, PrepareSideLinks, SwitchPrevious, SwitchCurrent,
            RemoveObsolete, WriteSideFile, ReconcileLaunchers
<1>1. TypeOK /\ pc[p] \in Changing /\ UNCHANGED job
  BY DEF ControlInv, PointerInv, TypeInv, Changing, Applying
<1>2. PICK l \in Changing \cup {"unlock"} :
        Go(p, l) /\ l # "backup" /\ (l = "probe" => job[p].op \in Activating)
        /\ (l = "control" => pc[p] = "backup")
  BY DEF Changing, Applying
<1>3. Apart(p) /\ pc'[p] = l
  BY <1>1, <1>2, MoveApart, GoApart
<1>4. Kept(p) /\ control # None /\ job[p].ver \in Versions
  BY <1>1 DEF ControlInv, PointerInv, TypeInv, WorkOK
<1>5. CASE BackUp(p)
  BY <1>1, <1>2, <1>3, <1>4, <1>5, PCsSplit, ControlFrame
     DEF Kept, OldPlane, Changing, Applying, Undoing
<1>6. CASE CopyControl(p)
  BY <1>1, <1>2, <1>3, <1>4, <1>6, PCsSplit, ControlFrame, ConstantsAssumption
     DEF Kept, OldPlane, Changing, Applying, Undoing
<1>7. CASE ~ (BackUp(p) \/ CopyControl(p))
  <2>1. UNCHANGED <<control, backup>> /\ pc[p] # "backup" /\ l # "control"
    BY <1>2, <1>7 DEF disk, planes
  <2>2. Kept(p)'
    BY <1>1, <1>2, <1>3, <1>4, <2>1
       DEF Kept, OldPlane, Changing, Applying, Undoing
  <2> QED BY <1>3, <1>4, <2>1, <2>2, ControlFrame
<1> QED BY <1>5, <1>6, <1>7

\* An undo begins: the old control plane is in place or is the backup.
LEMMA KeptStartUndo ==
  ASSUME ControlInv, PointerInv', NEW p \in Procs, UNCHANGED <<control, backup>>,
         pc[p] \in Changing \cup {"undoUse"}, NEW l \in Undoing, StartUndo(p, l),
         l = "undo" => job[p].op \in Activating
  PROVE  ControlInv'
<1>1. TypeOK /\ job[p] \in Job /\ pc[p] \in Locked
  BY PCsSplit DEF ControlInv, PointerInv, TypeInv, TypeOK, Undoing
<1> DEFINE j == [job[p] EXCEPT !.step = "unlinkCurrent"]
<1>2. /\ j.op = job[p].op /\ j.saved = job[p].saved
      /\ j.undone = job[p].undone /\ j.step = "unlinkCurrent"
  BY <1>1 DEF Job
<1> HIDE DEF j
<1>3. SetJob(p, j) /\ Go(p, l)
  BY DEF j, StartUndo
<1>4. Apart(p) /\ pc'[p] = l /\ job'[p] = j
  BY <1>1, <1>3, MoveApart, GoApart, SetApart
<1>5. Kept(p) /\ pc[p] \in Changing \cup Undoing
  BY DEF ControlInv, Undoing
<1>6. CASE job[p].op \in Activating
  <2>1. OldPlane(p)
    BY <1>5, <1>6 DEF Kept
  <2>2. job[p].undone => job[p].saved.control \in {control, backup}
    BY <2>1 DEF OldPlane, Undoing
  <2>3. OldPlane(p)'
    BY <1>2, <1>4, <2>1, <2>2, PCsSplit DEF OldPlane, Changing, Applying
  <2>4. Kept(p)'
    BY <1>2, <1>4, <1>6, <2>3 DEF Kept, Undoing
  <2> QED BY <1>1, <1>4, <2>4, ControlFrame DEF ControlInv
<1>7. CASE job[p].op \notin Activating
  <2>1. Kept(p)'
    BY <1>2, <1>4, <1>7 DEF Kept, Undoing
  <2> QED BY <1>1, <1>4, <2>1, ControlFrame DEF ControlInv
<1> QED BY <1>6, <1>7

LEMMA KeptVerdict ==
  ASSUME ControlInv, PointerInv', NEW p \in Procs, Probe(p) \/ Undone(p)
  PROVE  ControlInv'
<1>1. TypeOK /\ UNCHANGED <<control, backup>>
  BY DEF ControlInv, PointerInv, TypeInv, Probe, Undone, disk, planes
<1>2. CASE \E l \in {"prune", "unlock"} : Go(p, l) /\ \E j : SetJob(p, j)
  <2>1. Apart(p) /\ pc'[p] \in {"prune", "unlock"}
    BY <1>1, <1>2, MoveApart, GoApart
  <2>2. Kept(p)'
    BY <2>1 DEF Kept, Changing, Applying, Undoing
  <2> QED BY <1>1, <2>1, <2>2, ControlFrame DEF ControlInv
<1>3. CASE Probe(p) /\ StartUndo(p, "undo")
  <2>1. job[p].op \in Activating /\ pc[p] \in Changing
    BY <1>3 DEF Probe, ControlInv, Kept, Changing
  <2> QED BY <1>1, <1>3, <2>1, KeptStartUndo DEF Undoing
<1>4. CASE Undone(p) /\ pc[p] = "undoUse" /\ job[p].op \in Activating
  BY <1>1, <1>4, KeptStartUndo DEF Undone, Undoing
<1> QED BY <1>2, <1>3, <1>4 DEF Probe, Undone, Fail

LEMMA KeptFault ==
  ASSUME ControlInv, PointerInv', NEW p \in Procs, Fault(p)
  PROVE  ControlInv'
<1>1. TypeOK /\ UNCHANGED <<control, backup>>
  BY DEF ControlInv, PointerInv, TypeInv, Fault, disk, planes
<1>2. CASE \E l \in {"unlock", "forget", "blame", "idle"} :
             Go(p, l) /\ ((\E j : SetJob(p, j)) \/ UNCHANGED job)
  <2>1. Apart(p) /\ pc'[p] \in {"unlock", "forget", "blame", "idle"}
    BY <1>1, <1>2, MoveApart, GoApart
  <2>2. Kept(p)'
    BY <2>1 DEF Kept, Changing, Applying, Undoing
  <2> QED BY <1>1, <2>1, <2>2, ControlFrame DEF ControlInv
<1>3. CASE pc[p] \in {"backup", "control", "probe"} /\ StartUndo(p, "undo")
  <2>1. job[p].op \in Activating /\ pc[p] \in Changing
    BY <1>3 DEF ControlInv, Kept, Changing
  <2> QED BY <1>1, <1>3, <2>1, KeptStartUndo DEF Undoing
<1>4. CASE pc[p] \in Applying /\ StartUndo(p, "undoUse")
  BY <1>1, <1>4, KeptStartUndo DEF Undoing, Changing
<1> QED BY <1>2, <1>3, <1>4 DEF Fault, FaultyStep, Fail, AfterClear, Finish

-----------------------------------------------------------------------------
(* Steps of an undo.                                                        *)

LEMMA StepOrder ==
  ASSUME NEW l \in Undoing, NEW s \in UndoSteps \ {"done"},
         l = "undoUse" => s \notin {"control", "backup"}
  PROVE  /\ l = "undoUse" => NextStep(l, s) \notin {"control", "backup"}
         /\ NextStep(l, s) \in {"backup", "done"} /\ l = "undo"
              => s \in {"control", "backup"}
BY DEF Undoing, UndoSteps, NextStep, UndoNext

LEMMA KeptUndo ==
  ASSUME ControlInv, PointerInv', NEW p \in Procs, Undo(p)
  PROVE  ControlInv'
<1>1. TypeOK /\ job[p] \in Job /\ pc[p] \in Undoing /\ UNCHANGED pc
  BY DEF ControlInv, PointerInv, TypeInv, TypeOK, Undo
<1>2. job[p].step \in UndoSteps \ {"done"} /\ Kept(p)
  BY <1>1 DEF ControlInv, PointerInv, TypeInv, WorkOK, Undo
<1> DEFINE n == NextStep(pc[p], job[p].step)
           j == [job[p] EXCEPT !.step = n]
<1>3. /\ j.op = job[p].op /\ j.saved = job[p].saved
      /\ j.undone = job[p].undone /\ j.step = n
  BY <1>1 DEF Job
<1>4. SetJob(p, j)
  BY DEF Undo
<1> HIDE DEF j
<1>5. Apart(p) /\ job'[p] = j
  BY <1>1, <1>4, MoveApart, SetApart
<1>6. /\ pc[p] = "undoUse" => n \notin {"control", "backup"}
      /\ n \in {"backup", "done"} /\ pc[p] = "undo"
           => job[p].step \in {"control", "backup"}
  BY <1>1, <1>2, StepOrder DEF Kept
<1> HIDE DEF n
<1>7. /\ control' = IF job[p].step = "control" THEN job[p].saved.control ELSE control
      /\ backup' = IF job[p].step = "backup" THEN job[p].saved.backup ELSE backup
  BY DEF Undo, Restore
<1>8. job[p].op \in Activating => OldPlane(p)
  BY <1>1, <1>2 DEF Kept
<1>9. control' # None
  BY <1>1, <1>2, <1>7, <1>8 DEF ControlInv, Kept, OldPlane, Undoing
<1>10. OldPlane(p)' \/ job[p].op \notin Activating
  BY <1>1, <1>2, <1>3, <1>5, <1>6, <1>7, <1>8, PCsSplit
     DEF OldPlane, Kept, Undoing, Changing, Applying
<1>11. Kept(p)'
  BY <1>1, <1>2, <1>3, <1>5, <1>6, <1>10 DEF Kept, Undoing
<1> QED BY <1>1, <1>5, <1>9, <1>11, PCsSplit, ControlFrame

LEMMA KeptUndoFault ==
  ASSUME ControlInv, PointerInv', NEW p \in Procs, UndoFault(p)
  PROVE  ControlInv'
<1>1. TypeOK /\ job[p] \in Job /\ pc[p] \in Undoing
        /\ UNCHANGED <<control, backup, pc>>
  BY DEF ControlInv, PointerInv, TypeInv, TypeOK, UndoFault, disk, planes
<1>2. job[p].step \in UndoSteps \ {"done"} /\ Kept(p)
  BY <1>1 DEF ControlInv, PointerInv, TypeInv, WorkOK, UndoFault
<1>3. PICK n : /\ SetJob(p, [job[p] EXCEPT !.step = n,
                                           !.undone = @ /\ ~ LastRestore(p)])
               /\ n \in {"unlinkPrevious", "sideLinks"}
                    \/ n = NextStep(pc[p], job[p].step)
  BY DEF UndoFault
<1> DEFINE j == [job[p] EXCEPT !.step = n, !.undone = @ /\ ~ LastRestore(p)]
<1>4. /\ j.op = job[p].op /\ j.saved = job[p].saved /\ j.step = n
      /\ j.undone = (job[p].undone /\ ~ LastRestore(p))
  BY <1>1 DEF Job
<1> HIDE DEF j
<1>5. SetJob(p, j)
  BY <1>3 DEF j
<1>6. Apart(p) /\ job'[p] = j
  BY <1>1, <1>5, MoveApart, SetApart
<1>7. pc[p] = "undoUse" => n \notin {"control", "backup"}
  BY <1>1, <1>2, <1>3, StepOrder DEF Kept
<1>8. j.undone => job[p].undone /\ pc[p] = "undoUse"
  BY <1>1, <1>4 DEF LastRestore, Undoing
<1>9. job[p].op \in Activating => OldPlane(p)'
  BY <1>1, <1>2, <1>4, <1>6, <1>8, PCsSplit DEF Kept, OldPlane
<1>10. Kept(p)'
  BY <1>1, <1>2, <1>4, <1>6, <1>7, <1>9 DEF Kept, Undoing
<1> QED BY <1>1, <1>6, <1>10, ControlFrame DEF ControlInv

-----------------------------------------------------------------------------
(* The theorem.                                                             *)

LEMMA ControlNext == ASSUME ControlInv, [Next]_vars PROVE ControlInv'
<1>1. PointerInv'
  BY PointerNext DEF ControlInv
<1>2. ASSUME NEW p \in Procs, Step(p) PROVE ControlInv'
  BY <1>1, <1>2, OutsideSteps, RemoveOne, RepairStep, KeptSnapshot, KeptChange,
     KeptVerdict, KeptFault, KeptUndo, KeptUndoFault DEF Step, Advance
<1>3. CASE UNCHANGED vars
  BY <1>1, <1>3 DEF ControlInv, Kept, OldPlane, vars, disk, planes
<1> QED BY <1>2, <1>3 DEF Next

LEMMA ControlInit == Init => ControlInv
<1> SUFFICES ASSUME Init PROVE ControlInv
  OBVIOUS
<1>1. control # None
  BY ConstantsAssumption DEF Init
<1>2. ASSUME NEW p \in Procs PROVE Kept(p)
  BY KeptOutside DEF Init, Changing, Applying, Undoing
<1> QED BY <1>1, <1>2, PointerInit DEF ControlInv

\* From the backup of the control plane to the end of the undo, whatever fails
\* on the way and wherever the process is killed, the control plane that was in
\* use is in place or is the backup `self repair` restores, as long as every
\* restore succeeded (refresh_control_plane, activate_release).
THEOREM OldControlStays == Spec => []OldControlKept
<1>1. ControlInv /\ [Next]_vars => ControlInv'
  BY ControlNext
<1>2. ControlInv => OldControlKept
  <2> SUFFICES ASSUME ControlInv, NEW p \in Procs, pc[p] \in Changing \cup Undoing,
                      job[p].op \in Activating, job[p].undone
               PROVE  job[p].saved.control \in {control, backup}
    BY DEF OldControlKept
  <2>1. OldPlane(p)
    BY DEF ControlInv, Kept
  <2> QED BY <2>1 DEF OldPlane
<1> QED BY ControlInit, <1>1, <1>2, PTL DEF Spec
-----------------------------------------------------------------------------
(* A change is made as a whole or undone as a whole.  What is on disk while *)
(* a process changes the selection is known from its snapshot, step by step *)
(* and, once it undoes the change, path by path.                            *)

\* What is on disk while p changes it, step by step.
Mid(p) ==
  LET s == job[p].saved
      v == job[p].ver
      activates == job[p].op \in Activating
  IN  /\ control = IF activates /\ pc[p] \notin {"backup", "control"} THEN v ELSE s.control
      /\ backup = IF activates /\ pc[p] # "backup" THEN s.control ELSE s.backup
      /\ current = IF pc[p] \in {"obsolete", "sideFile", "reconcile", "probe"}
                   THEN v ELSE s.current
      /\ previous = IF pc[p] \in {"current", "obsolete", "sideFile", "reconcile", "probe"}
                         /\ s.current \notin {v, None}
                    THEN s.current ELSE s.previous
      /\ pc[p] \in {"previous", "current"} => s.current # v
      /\ sideFile = IF pc[p] \in {"reconcile", "probe"} THEN Side[v] ELSE s.sideFile
      /\ links = IF pc[p] \in {"backup", "control", "sides"} THEN s.links
                 ELSE IF pc[p] \in {"previous", "current", "obsolete"} THEN s.links \cup Side[v]
                 ELSE (s.links \cup Side[v]) \ (OldNames(s) \ Side[v])

\* What an undo has put back when its last attempts have succeeded so far.
Restored(p) ==
  LET s == job[p].saved
      before == job[p].step
  IN  /\ before \notin {"unlinkCurrent", "linkCurrent"} => current = s.current
      /\ before \in {"sideLinks", "launchers", "control", "backup", "done"}
           => previous = s.previous
      /\ before \in {"launchers", "control", "backup", "done"} => sideFile = s.sideFile
      /\ before \in {"control", "backup", "done"} => links = s.links
      /\ pc[p] = "undo" /\ before \in {"backup", "done"} => control = s.control
      /\ pc[p] = "undo" /\ before = "done" => backup = s.backup

Back(p) ==
  LET s == job[p].saved
  IN  /\ links \ Captured(s, job[p].ver) = s.links \ Captured(s, job[p].ver)
      /\ job[p].op \notin Activating => control = s.control /\ backup = s.backup
      /\ job[p].undone /\ LastRestore(p) => Restored(p)

Sound(s) ==
  /\ s.current # None
  /\ s.sideFile \in {None, Side[s.current]} /\ s.links = Side[s.current]
  /\ s.control \notin Broken /\ s.backup \notin Broken
  /\ s.previous # s.current

Switches(p) ==
  /\ pc[p] \in {"snapshot"} \cup Changing \cup Undoing => job[p].op \in Activating \cup Switching
  /\ pc[p] \in Changing => Mid(p)
  /\ pc[p] \in Undoing => Back(p)
  /\ pc[p] = "unlock" /\ job[p].step = "done" /\ job[p].undone => Disk = job[p].saved
  /\ job[p].step # None => /\ pc[p] \in Undoing \cup {"unlock", "clear", "blame"}
                           /\ pc[p] \in {"unlock", "clear"} => ~ job[p].ok
  /\ ~ torn => job[p].undone
  /\ ~ torn /\ InDoubt(p) => Sound(job[p].saved)

SwitchInv ==
  /\ \A p \in Procs : Switches(p)
  /\ ~ torn /\ (\A p \in Procs : ~ InDoubt(p)) => Sound(Disk)

Swapped == ControlInv /\ SwitchInv

LEMMA JobMarks ==
  ASSUME NEW j \in Job
  PROVE  /\ \A v : /\ [j EXCEPT !.ver = v].step = j.step /\ [j EXCEPT !.ver = v].ok = j.ok
                   /\ [j EXCEPT !.ver = v].undone = j.undone /\ [j EXCEPT !.ver = v].op = j.op
         /\ \A v : /\ [j EXCEPT !.base = v].step = j.step /\ [j EXCEPT !.base = v].ok = j.ok
                   /\ [j EXCEPT !.base = v].undone = j.undone /\ [j EXCEPT !.base = v].op = j.op
         /\ \A D : /\ [j EXCEPT !.doomed = D].step = j.step /\ [j EXCEPT !.doomed = D].ok = j.ok
                   /\ [j EXCEPT !.doomed = D].undone = j.undone /\ [j EXCEPT !.doomed = D].op = j.op
                   /\ [j EXCEPT !.doomed = D].saved = j.saved /\ [j EXCEPT !.doomed = D].ver = j.ver
         /\ \A s : /\ [j EXCEPT !.saved = s].step = j.step /\ [j EXCEPT !.saved = s].ok = j.ok
                   /\ [j EXCEPT !.saved = s].undone = j.undone /\ [j EXCEPT !.saved = s].op = j.op
                   /\ [j EXCEPT !.saved = s].saved = s /\ [j EXCEPT !.saved = s].ver = j.ver
         /\ \A s : /\ [j EXCEPT !.step = s].step = s /\ [j EXCEPT !.step = s].ok = j.ok
                   /\ [j EXCEPT !.step = s].undone = j.undone /\ [j EXCEPT !.step = s].op = j.op
                   /\ [j EXCEPT !.step = s].saved = j.saved /\ [j EXCEPT !.step = s].ver = j.ver
         /\ /\ [j EXCEPT !.staged = TRUE].step = j.step /\ [j EXCEPT !.staged = TRUE].ok = j.ok
            /\ [j EXCEPT !.staged = TRUE].undone = j.undone /\ [j EXCEPT !.staged = TRUE].op = j.op
         /\ /\ [j EXCEPT !.ok = FALSE].step = j.step /\ [j EXCEPT !.ok = FALSE].ok = FALSE
            /\ [j EXCEPT !.ok = FALSE].undone = j.undone /\ [j EXCEPT !.ok = FALSE].op = j.op
            /\ [j EXCEPT !.ok = FALSE].saved = j.saved /\ [j EXCEPT !.ok = FALSE].ver = j.ver
BY DEF Job

\* What a process does out of the lock, or under it, another one that is under
\* the lock does not see.
LEMMA SwitchFrame ==
  ASSUME Swapped, NEW p \in Procs, Apart(p), ~ torn' => ~ torn, Switches(p)',
         pc[p] \in Locked
           \/ UNCHANGED <<bundle, current, previous, sideFile, links, control, backup>>,
         ~ torn' /\ (\A q \in Procs : ~ InDoubt(q)') => Sound(Disk)'
  PROVE  SwitchInv'
<1> SUFFICES ASSUME NEW q \in Procs \ {p} PROVE Switches(q)'
  BY DEF SwitchInv
<1>1. pc'[q] = pc[q] /\ job'[q] = job[q] /\ Switches(q)
  BY DEF Apart, Swapped, SwitchInv
<1>2. CASE pc[p] \in Locked
  <2>1. pc[q] \notin Locked
    BY <1>2 DEF Swapped, ControlInv, PointerInv, Holds
  <2>2. pc[q] \notin {"snapshot", "unlock"} \cup Changing \cup Undoing
    BY <2>1, PCsSplit DEF Locked
  <2> QED BY <1>1, <2>2 DEF Switches, InDoubt
<1>3. CASE UNCHANGED <<bundle, current, previous, sideFile, links, control, backup>>
  <2>1. Mid(q) => Mid(q)'
    BY <1>1, <1>3 DEF Mid, OldNames
  <2>2. Back(q) => Back(q)'
    BY <1>1, <1>3 DEF Back, Restored, LastRestore, Captured, OldNames
  <2>3. Disk' = Disk
    BY <1>3 DEF Disk
  <2>4. InDoubt(q)' <=> InDoubt(q)
    BY <1>1 DEF InDoubt
  <2>5. ~ torn' /\ InDoubt(q)' => Sound(job[q].saved)
    BY <1>1, <2>4 DEF Switches
  <2>6. Sound(job[q].saved) => Sound(job[q].saved)'
    BY <1>1 DEF Sound
  <2> QED BY <1>1, <2>1, <2>2, <2>3, <2>5, <2>6 DEF Switches
<1> QED BY <1>2, <1>3

\* The disk between changes, when the step that ends there leaves it.
LEMMA SoundStays ==
  ASSUME Swapped, NEW p \in Procs, Apart(p), ~ InDoubt(p), ~ torn' => ~ torn,
         UNCHANGED <<current, previous, sideFile, links, control, backup>>
  PROVE  ~ torn' /\ (\A q \in Procs : ~ InDoubt(q)') => Sound(Disk)'
<1> SUFFICES ASSUME ~ torn', \A q \in Procs : ~ InDoubt(q)' PROVE Sound(Disk)'
  OBVIOUS
<1>1. \A q \in Procs : ~ InDoubt(q)
  BY DEF Apart, InDoubt
<1>2. Sound(Disk)
  BY <1>1 DEF Swapped, SwitchInv
<1> QED BY <1>2 DEF Sound, Disk

\* A step that begins and ends outside of a change.
LEMMA SwitchOutside ==
  ASSUME Swapped, NEW p \in Procs, Apart(p), UNCHANGED torn, ~ InDoubt(p), ~ InDoubt(p)',
         UNCHANGED <<current, previous, sideFile, links, control, backup>>,
         pc[p] \in Locked \/ UNCHANGED bundle,
         pc'[p] = "snapshot" => job'[p].op \in Activating \cup Switching,
         \/ job'[p].step = None
         \/ /\ pc'[p] \in {"clear", "blame"} /\ (pc'[p] = "clear" => ~ job'[p].ok),
         ~ torn => job'[p].undone
  PROVE  SwitchInv'
<1>1. pc'[p] \notin Changing \cup Undoing
  BY DEF InDoubt
<1>2. None # "done"
  BY ConstantsAssumption DEF UndoSteps
<1>3. Switches(p)'
  BY <1>1, <1>2 DEF Switches, InDoubt
<1> QED BY <1>3, SoundStays, SwitchFrame

LEMMA StepKept ==
  ASSUME Swapped, NEW p \in Procs, pc[p] \notin Undoing \cup {"unlock", "clear", "blame"}
  PROVE  job[p].step = None
BY DEF Swapped, SwitchInv, Switches

LEMMA SwUnlocked ==
  ASSUME Swapped, NEW p \in Procs,
         Start(p) \/ Resolve(p) \/ Gate(p) \/ ReadPending(p) \/ CheckStale(p)
           \/ ReadLatest(p) \/ CheckStaged(p) \/ MarkerUnreadable(p) \/ Record(p)
           \/ Offer(p) \/ ReadBase(p) \/ Fetch(p) \/ WritePending(p) \/ Forget(p) \/ Blame(p)
  PROVE  SwitchInv'
<1>1. TypeOK /\ job[p] \in Job /\ Switches(p)
  BY DEF Swapped, SwitchInv, ControlInv, PointerInv, TypeInv, TypeOK
<1>2. UNCHANGED <<bundle, current, previous, sideFile, links, control, backup, torn>>
  BY DEF Start, Resolve, Gate, ReadPending, CheckStale, ReadLatest, CheckStaged,
         MarkerUnreadable, Record, Offer, ReadBase, Fetch, WritePending, Forget, Blame, Keep,
         disk, pointers, launchers, planes
<1>3. \E l \in Unlocked \cup {"idle"} : Go(p, l)
  <2>1. \A o \in OpNames : Entry[o] \in Unlocked
    BY DEF OpNames, Activating, Switching, Entry, Unlocked
  <2>2. CASE Start(p)
    BY <2>1, <2>2, ConstantsAssumption DEF Start
  <2>3. CASE ~ Start(p)
    BY <2>3 DEF Resolve, Gate, ReadPending, CheckStale, ReadLatest, CheckStaged,
           MarkerUnreadable, Record, Offer, ReadBase, Fetch, WritePending,
           Forget, Blame, Finish, Unlocked
  <2> QED BY <2>2, <2>3
<1>4. pc[p] \in Unlocked \cup {"idle"} /\ pc[p] # "clear"
  BY DEF Start, Resolve, Gate, ReadPending, CheckStale, ReadLatest, CheckStaged,
         MarkerUnreadable, Record, Offer, ReadBase, Fetch, WritePending, Forget, Blame, Unlocked
<1>5. ~ Blame(p) => job[p].step = None
  <2>1. pc[p] \notin Undoing \cup {"unlock"}
    BY <1>4, PlainOnes, PCsSplit DEF Locked, Plain
  <2>2. ~ Blame(p) => pc[p] # "blame"
    BY DEF Start, Resolve, Gate, ReadPending, CheckStale, ReadLatest, CheckStaged,
           MarkerUnreadable, Record, Offer, ReadBase, Fetch, WritePending, Forget
  <2> QED BY <1>4, <2>1, <2>2, StepKept
<1>6. PICK j : /\ SetJob(p, j) \/ (UNCHANGED job /\ j = job[p])
               /\ j.step = None /\ (~ torn => j.undone)
  <2>1. NoJob.step = None /\ NoJob.undone
    BY DEF NoJob
  <2>2. CASE Finish(p)
    BY <2>1, <2>2 DEF Finish
  <2>3. CASE UNCHANGED job /\ ~ Blame(p)
    BY <1>1, <1>5, <2>3 DEF Switches
  <2>4. CASE /\ ~ Blame(p)
             /\ \E v : SetJob(p, [job[p] EXCEPT !.ver = v]) \/ SetJob(p, [job[p] EXCEPT !.base = v])
    <3>1. PICK v, k : SetJob(p, k) /\ (k = [job[p] EXCEPT !.ver = v] \/ k = [job[p] EXCEPT !.base = v])
      BY <2>4
    <3>2. k.step = job[p].step /\ k.undone = job[p].undone
      BY <1>1, <3>1 DEF Job
    <3> QED BY <1>1, <1>5, <2>4, <3>1, <3>2 DEF Switches
  <2>5. CASE Start(p)
    <3>1. PICK o, v : SetJob(p, [NoJob EXCEPT !.op = o, !.ver = v])
      BY <2>5 DEF Start
    <3>2. [NoJob EXCEPT !.op = o, !.ver = v].step = None /\ [NoJob EXCEPT !.op = o, !.ver = v].undone
      BY DEF NoJob
    <3> QED BY <3>1, <3>2
  <2> QED BY <2>2, <2>3, <2>4, <2>5 DEF Start, Resolve, Gate, ReadPending, CheckStale, ReadLatest,
         CheckStaged, MarkerUnreadable, Record, Offer, ReadBase, Fetch, WritePending, Forget, Blame
<1>7. Apart(p) /\ job'[p] = j /\ pc'[p] \in Unlocked \cup {"idle"}
  BY <1>1, <1>3, <1>6, MoveApart, GoApart, SetApart
<1>8. ~ InDoubt(p) /\ ~ InDoubt(p)' /\ pc'[p] # "snapshot"
  BY <1>4, <1>7, PlainOnes DEF InDoubt, Plain, Unlocked
<1> QED BY <1>2, <1>6, <1>7, <1>8, SwitchOutside

\* Work under the lock before and after a change.
LEMMA SwAround ==
  ASSUME Swapped, NEW p \in Procs,
         Acquire(p) \/ InstallBundle(p) \/ RollbackTarget(p) \/ ChooseDoomed(p) \/ ChooseOld(p)
           \/ RemoveVersion(p) \/ Removed(p) \/ (Snapshot(p) /\ ~ Complete(job[p].ver))
  PROVE  SwitchInv'
<1>1. TypeOK /\ job[p] \in Job /\ Switches(p) /\ WorkOK(p)
  BY DEF Swapped, SwitchInv, ControlInv, PointerInv, TypeInv, TypeOK
<1>2. UNCHANGED <<current, previous, sideFile, links, control, backup, torn>>
  BY DEF Acquire, InstallBundle, RollbackTarget, ChooseDoomed, ChooseOld, RemoveVersion, Removed,
         Snapshot, Keep, counters, disk, pointers, launchers, planes
<1>3. pc[p] \in Locked \/ UNCHANGED bundle
  BY DEF Acquire, InstallBundle, RollbackTarget, ChooseDoomed, ChooseOld, RemoveVersion, Removed,
         Snapshot, Locked, Removing, disk
<1>4. pc[p] \in {"lock", "install", "target", "doom", "retain", "prune", "retire", "snapshot"}
  BY DEF Acquire, InstallBundle, RollbackTarget, ChooseDoomed, ChooseOld, RemoveVersion, Removed,
         Snapshot, Removing
<1>5. job[p].step = None /\ ~ InDoubt(p)
  <2>1. pc[p] \notin Changing \cup Undoing \cup {"unlock", "clear", "blame"}
    BY <1>4 DEF Changing, Applying, Undoing
  <2> QED BY <2>1, StepKept DEF InDoubt
<1>6. PICK l : /\ Go(p, l) \/ (UNCHANGED pc /\ l = pc[p])
               /\ l \notin Changing \cup Undoing \cup {"clear", "blame"}
               /\ l = "snapshot" => job[p].op \in Activating \cup Switching
  <2> USE DEF Changing, Applying, Undoing
  <2>1. CASE Acquire(p)
    <3>1. /\ FirstLocked(job[p]) \notin Changing \cup Undoing \cup {"clear", "blame"}
          /\ FirstLocked(job[p]) = "snapshot" => job[p].op \in Activating \cup Switching
      BY DEF FirstLocked, Activating, Switching
    <3> QED BY <2>1, <3>1 DEF Acquire, Finish
  <2>2. CASE InstallBundle(p)
    BY <2>2 DEF InstallBundle, Fail, Activating
  <2>3. CASE RollbackTarget(p)
    BY <1>1, <2>3 DEF RollbackTarget, Fail, WorkOK, Switching
  <2>4. CASE RemoveVersion(p)
    BY <2>4 DEF RemoveVersion, Removing
  <2> QED BY <2>1, <2>2, <2>3, <2>4 DEF ChooseDoomed, ChooseOld, Removed, Snapshot, Fail
<1>7. PICK j : /\ SetJob(p, j) \/ (UNCHANGED job /\ j = job[p])
               /\ j.step = None /\ (~ torn => j.undone)
               /\ l = "snapshot" => j.op = job[p].op
  <2>1. ~ torn => job[p].undone
    BY <1>1 DEF Switches
  <2>2. CASE Finish(p)
    BY <1>1, <1>6, <2>2, GoApart DEF Finish, NoJob
  <2>3. CASE UNCHANGED job
    BY <1>5, <2>1, <2>3
  <2>4. CASE \E v : SetJob(p, [job[p] EXCEPT !.ver = v]) \/ SetJob(p, [job[p] EXCEPT !.doomed = v])
    <3>1. PICK v, k : SetJob(p, k) /\ (k = [job[p] EXCEPT !.ver = v] \/ k = [job[p] EXCEPT !.doomed = v])
      BY <2>4
    <3>2. k.step = job[p].step /\ k.undone = job[p].undone /\ k.op = job[p].op
      BY <1>1, <3>1 DEF Job
    <3> QED BY <1>5, <2>1, <3>1, <3>2
  <2>5. CASE Fail(p)
    <3>1. PICK k : SetJob(p, k) /\ k = [job[p] EXCEPT !.ok = FALSE]
      BY <2>5 DEF Fail
    <3>2. k.step = job[p].step /\ k.undone = job[p].undone /\ k.op = job[p].op
      BY <1>1, <3>1 DEF Job
    <3> QED BY <1>5, <2>1, <3>1, <3>2
  <2> QED BY <2>2, <2>3, <2>4, <2>5 DEF Acquire, InstallBundle, RollbackTarget, ChooseDoomed,
         ChooseOld, RemoveVersion, Removed, Snapshot
<1>8. Apart(p) /\ job'[p] = j /\ pc'[p] = l
  BY <1>1, <1>6, <1>7, MoveApart, GoApart, SetApart
<1>9. ~ InDoubt(p)'
  BY <1>6, <1>8 DEF InDoubt
<1> QED BY <1>2, <1>3, <1>5, <1>6, <1>7, <1>8, <1>9, SwitchOutside

LEMMA SwAfter ==
  ASSUME Swapped, NEW p \in Procs, Unlock(p) \/ ClearPending(p)
  PROVE  SwitchInv'
<1>1. TypeOK /\ job[p] \in Job /\ Switches(p) /\ WorkOK(p)
  BY DEF Swapped, SwitchInv, ControlInv, PointerInv, TypeInv, TypeOK
<1>2. UNCHANGED <<bundle, current, previous, sideFile, links, control, backup, torn>>
  BY DEF Unlock, ClearPending, Keep, disk, pointers, launchers, planes
<1>3. ~ torn => job[p].undone
  BY <1>1 DEF Switches
<1>4. pc[p] \in {"unlock", "drop", "clear"} /\ pc[p] \notin Changing \cup Undoing
  BY DEF Unlock, ClearPending, Changing, Applying, Undoing
<1>5. CASE Unlock(p)
  <2> DEFINE l == AfterLock(job[p])
             j == [job[p] EXCEPT !.staged = TRUE]
  <2>1. /\ l \in {"forget", "clear", "lock", "write", "idle"}
        /\ l \in {"forget", "lock", "write"} => job[p].ok
    BY DEF AfterLock
  <2>2. /\ job[p].step = None \/ ~ job[p].ok
        /\ j.step = job[p].step /\ j.ok = job[p].ok /\ j.undone = job[p].undone
    BY <1>1, <1>5, JobMarks DEF Switches, Unlock
  <2> HIDE DEF l, j
  <2>3. Go(p, l) /\ (IF l = "idle" THEN SetJob(p, NoJob) ELSE SetJob(p, j))
    BY <1>5 DEF Unlock, l, j
  <2>4. Apart(p) /\ pc'[p] = l /\ job'[p] = IF l = "idle" THEN NoJob ELSE j
    BY <1>1, <2>3, MoveApart, GoApart, SetApart
  <2>5. ~ InDoubt(p) /\ ~ InDoubt(p)'
    BY <1>4, <2>1, <2>4 DEF InDoubt, Changing, Applying, Undoing
  <2>6. /\ job'[p].step = None \/ (l = "clear" /\ ~ job'[p].ok)
        /\ ~ torn => job'[p].undone
    BY <1>3, <2>1, <2>2, <2>4 DEF NoJob
  <2> QED BY <1>2, <2>1, <2>4, <2>5, <2>6, SwitchOutside
<1>6. CASE ClearPending(p)
  <2>1. PICK l \in {"forget", "blame", "idle"} :
          /\ Go(p, l)
          /\ l = "idle" => SetJob(p, NoJob)
          /\ l # "idle" => UNCHANGED job /\ pc[p] = "clear"
          /\ l = "forget" => job[p].ok
    BY <1>6 DEF ClearPending, AfterClear, Finish
  <2>2. Apart(p) /\ pc'[p] = l /\ job'[p] = IF l = "idle" THEN NoJob ELSE job[p]
    BY <1>1, <2>1, MoveApart, GoApart, SetApart
  <2>3. ~ InDoubt(p) /\ ~ InDoubt(p)'
    BY <1>4, <2>1, <2>2 DEF InDoubt, Changing, Applying, Undoing
  <2>4. job'[p].step = None \/ l = "blame"
    BY <1>1, <2>1, <2>2 DEF Switches, NoJob, Undoing
  <2>5. ~ torn => job'[p].undone
    BY <1>3, <2>2 DEF NoJob
  <2> QED BY <1>2, <2>1, <2>2, <2>3, <2>4, <2>5, SwitchOutside
<1> QED BY <1>5, <1>6

-----------------------------------------------------------------------------
(* The steps of a change.                                                   *)

LEMMA MidBegins ==
  ASSUME Swapped, NEW p \in Procs, Snapshot(p), Complete(job[p].ver)
  PROVE  SwitchInv'
<1>1. TypeOK /\ job[p] \in Job /\ Switches(p) /\ pc[p] = "snapshot"
  BY DEF Swapped, SwitchInv, ControlInv, PointerInv, TypeInv, TypeOK, Snapshot
<1>2. /\ UNCHANGED <<bundle, current, previous, sideFile, links, control, backup, torn>>
      /\ pc[p] \in Locked
  BY <1>1 DEF Snapshot, Keep, disk, pointers, launchers, planes, Locked
<1> DEFINE j == [job[p] EXCEPT !.saved = Disk]
           l == IF job[p].op \in Activating THEN "backup" ELSE "sides"
<1>3. /\ j.saved = Disk /\ j.op = job[p].op /\ j.ver = job[p].ver
      /\ j.step = job[p].step /\ j.undone = job[p].undone
  BY <1>1, JobMarks
<1> HIDE DEF j
<1>4. SetJob(p, j) /\ Go(p, l)
  BY DEF Snapshot, j
<1>5. Apart(p) /\ job'[p] = j /\ pc'[p] = l
  BY <1>1, <1>4, MoveApart, GoApart, SetApart
<1>6. Mid(p)'
  BY <1>2, <1>3, <1>5 DEF Mid, Disk
<1>7. ~ torn => Sound(Disk)
  <2>1. \A q \in Procs : ~ InDoubt(q)
    <3>1. \A q \in Procs \ {p} : pc[q] \notin Locked
      BY <1>2 DEF Swapped, ControlInv, PointerInv, Holds
    <3> QED BY <1>1, <3>1, PCsSplit DEF InDoubt, Changing, Applying, Undoing
  <2> QED BY <2>1 DEF Swapped, SwitchInv
<1>8. job[p].step = None /\ (~ torn => job[p].undone)
  BY <1>1 DEF Switches, Undoing
<1>9. ~ torn' => Sound(job[p].saved)'
  BY <1>2, <1>3, <1>5, <1>7 DEF Sound
<1>10. Switches(p)'
  BY <1>1, <1>2, <1>3, <1>5, <1>6, <1>8, <1>9 DEF Switches, Changing, Applying, Undoing
<1>11. InDoubt(p)'
  BY <1>5 DEF InDoubt, Changing, Applying
<1> QED BY <1>2, <1>5, <1>10, <1>11, SwitchFrame

LEMMA MidGoes ==
  ASSUME Swapped, NEW p \in Procs,
         BackUp(p) \/ CopyControl(p) \/ PrepareSideLinks(p) \/ SwitchPrevious(p)
           \/ SwitchCurrent(p) \/ RemoveObsolete(p) \/ WriteSideFile(p)
           \/ (ReconcileLaunchers(p) /\ job[p].op \in Activating)
  PROVE  SwitchInv'
<1> USE DEF BackUp, CopyControl, PrepareSideLinks, SwitchPrevious, SwitchCurrent,
            RemoveObsolete, WriteSideFile, ReconcileLaunchers
<1>1. TypeOK /\ Switches(p) /\ UNCHANGED <<job, bundle, torn>> /\ pc[p] \in Changing /\ control # None
  BY DEF Swapped, SwitchInv, ControlInv, PointerInv, TypeInv, Changing, Applying, Keep, disk
<1>2. Mid(p) /\ Kept(p)
  BY <1>1 DEF Switches, Swapped, ControlInv
<1>3. \E l \in Changing : Go(p, l)
  BY DEF Changing, Applying
<1>4. Apart(p) /\ pc'[p] \in Changing
  BY <1>1, <1>3, MoveApart, GoApart
<1>5. \A s : OldNames(s)' = OldNames(s)
  BY <1>1 DEF OldNames
<1>6. ASSUME BackUp(p) PROVE Mid(p)'
  <2>1. job[p].op \in Activating /\ pc'[p] = "control"
    BY <1>1, <1>2, <1>6, GoApart DEF Kept
  <2> QED BY <1>1, <1>2, <1>6, <2>1 DEF Mid, launchers, pointers
<1>7. ASSUME CopyControl(p) PROVE Mid(p)'
  <2>1. job[p].op \in Activating /\ pc'[p] = "sides"
    BY <1>1, <1>2, <1>7, GoApart DEF Kept
  <2> QED BY <1>1, <1>2, <1>7, <2>1 DEF Mid, launchers, pointers
<1>8. ASSUME PrepareSideLinks(p) PROVE Mid(p)'
  <2>1. pc'[p] = IF current = job[p].ver THEN "obsolete" ELSE "previous"
    BY <1>1, <1>8, GoApart
  <2> QED BY <1>1, <1>2, <1>8, <2>1 DEF Mid, planes, pointers
<1>9. ASSUME SwitchPrevious(p) PROVE Mid(p)'
  <2>1. pc'[p] = "current"
    BY <1>1, <1>9, GoApart
  <2> QED BY <1>1, <1>2, <1>9, <2>1 DEF Mid, planes, launchers
<1>10. ASSUME SwitchCurrent(p) PROVE Mid(p)'
  <2>1. pc'[p] = "obsolete"
    BY <1>1, <1>10, GoApart
  <2> QED BY <1>1, <1>2, <1>10, <2>1 DEF Mid, planes, launchers
<1>11. ASSUME RemoveObsolete(p) PROVE Mid(p)'
  <2>1. pc'[p] = "sideFile"
    BY <1>1, <1>11, GoApart
  <2> QED BY <1>1, <1>2, <1>5, <1>11, <2>1 DEF Mid, planes, pointers
<1>12. ASSUME WriteSideFile(p) PROVE Mid(p)'
  <2>1. pc'[p] = "reconcile"
    BY <1>1, <1>12, GoApart
  <2> QED BY <1>1, <1>2, <1>5, <1>12, <2>1 DEF Mid, planes, pointers
<1>13. ASSUME ReconcileLaunchers(p) /\ job[p].op \in Activating PROVE Mid(p)'
  <2>1. pc'[p] = "probe"
    BY <1>1, <1>13, GoApart
  <2> QED BY <1>1, <1>2, <1>5, <1>13, <2>1 DEF Mid, planes, pointers, launchers, disk
<1>14. Mid(p)'
  BY <1>6, <1>7, <1>8, <1>9, <1>10, <1>11, <1>12, <1>13
<1>15. job[p].step = None /\ job[p].op \in Activating \cup Switching
         /\ (~ torn => job[p].undone /\ Sound(job[p].saved))
  BY <1>1, PCsSplit DEF Switches, Changing, Applying, Undoing, InDoubt
<1>16. ~ torn' => Sound(job[p].saved)'
  BY <1>1, <1>15 DEF Sound
<1>17. Switches(p)'
  BY <1>1, <1>4, <1>14, <1>15, <1>16, PCsSplit DEF Switches, Changing, Applying
<1>18. InDoubt(p)' /\ pc[p] \in Locked
  BY <1>1, <1>4, PCsSplit DEF InDoubt
<1> QED BY <1>1, <1>4, <1>17, <1>18, SwitchFrame

\* The change is made: the disk is as sound as it was.
LEMMA MidEnds ==
  ASSUME Swapped, NEW p \in Procs, pc[p] \in {"reconcile", "probe"}, ~ torn,
         control \notin Broken
  PROVE  Sound(Disk) /\ current = job[p].ver /\ Sound(job[p].saved)
<1>1. Switches(p) /\ InDoubt(p) /\ pc[p] \in Changing
  BY DEF Swapped, SwitchInv, InDoubt, Changing, Applying
<1>2. Mid(p) /\ Sound(job[p].saved)
  BY <1>1 DEF Switches
<1>3. Whole(job[p].saved.current) /\ job[p].ver \in Versions
  BY <1>1 DEF Swapped, ControlInv, PointerInv, Holds, TypeInv, WorkOK
<1> DEFINE s == job[p].saved
           v == job[p].ver
<1>4. OldNames(s) = Side[s.current] /\ s.links = Side[s.current]
  BY <1>2, <1>3 DEF OldNames, Sound, Whole
<1>5. links = Side[v] /\ current = v /\ v # None
  <2>1. links = (s.links \cup Side[v]) \ (OldNames(s) \ Side[v]) /\ current = v
    BY <1>2 DEF Mid
  <2> QED BY <1>3, <1>4, <2>1, ConstantsAssumption
<1>6. sideFile \in {None, Side[v]}
  BY <1>2 DEF Mid
<1>7. backup \notin Broken /\ previous # v
  BY <1>2 DEF Mid, Sound
<1> QED BY <1>2, <1>5, <1>6, <1>7 DEF Sound, Disk

\* A switch, or an activation whose probe has passed, is over.
LEMMA MidOver ==
  ASSUME Swapped, NEW p \in Procs,
         \/ ReconcileLaunchers(p) /\ job[p].op \notin Activating
         \/ Probe(p) /\ ProbePasses(job[p].ver)
  PROVE  SwitchInv'
<1>1. TypeOK /\ job[p] \in Job /\ Switches(p) /\ pc[p] \in {"reconcile", "probe"}
  BY DEF Swapped, SwitchInv, ControlInv, PointerInv, TypeInv, TypeOK, ReconcileLaunchers, Probe
<1>2. UNCHANGED <<bundle, current, previous, sideFile, links, control, backup, torn>>
  BY DEF ReconcileLaunchers, Probe, Keep, disk, pointers, launchers, planes
<1>3. pc[p] \in Changing /\ pc[p] \in Locked
  BY <1>1, PCsSplit DEF Changing, Applying
<1>4. job[p].step = None /\ (~ torn => job[p].undone /\ Sound(job[p].saved))
  BY <1>1, <1>3, PCsSplit DEF Switches, Changing, Applying, Undoing, InDoubt
<1>5. PICK l, j :
        /\ l \in {"unlock", "prune"}
        /\ Go(p, l) /\ (SetJob(p, j) \/ (UNCHANGED job /\ j = job[p]))
        /\ j.step = None /\ (~ torn => j.undone)
  <2>1. CASE ReconcileLaunchers(p) /\ job[p].op \notin Activating
    <3>1. Go(p, "unlock") /\ UNCHANGED job
      BY <2>1 DEF ReconcileLaunchers
    <3> WITNESS "unlock", job[p]
    <3> QED BY <1>4, <3>1
  <2>2. CASE Probe(p) /\ ProbePasses(job[p].ver)
    <3>1. PICK k : SetJob(p, k) /\ k = [job[p] EXCEPT !.doomed = Inactive(Devs)]
      BY <2>2 DEF Probe
    <3>2. k.step = job[p].step /\ k.undone = job[p].undone
      BY <1>1, <3>1 DEF Job
    <3>3. Go(p, "prune")
      BY <2>2 DEF Probe
    <3> WITNESS "prune", k
    <3> QED BY <1>4, <3>1, <3>2, <3>3
  <2> QED BY <2>1, <2>2
<1>6. Apart(p) /\ pc'[p] = l /\ job'[p] = j
  BY <1>1, <1>5, MoveApart, GoApart, SetApart
<1>7. ~ torn => control \notin Broken
  <2>1. CASE job[p].op \in Activating
    BY <2>1 DEF ProbePasses
  <2>2. CASE job[p].op \notin Activating
    BY <1>1, <1>3, <1>4, <2>2 DEF Switches, Mid, Sound
  <2> QED BY <2>1, <2>2
<1>8. ~ torn' => Sound(Disk)'
  <2>1. ~ torn => Sound(Disk)
    BY <1>1, <1>7, MidEnds
  <2> QED BY <1>2, <2>1 DEF Sound, Disk
<1>9. Switches(p)'
  BY <1>2, <1>5, <1>6, ConstantsAssumption
     DEF Switches, Changing, Applying, Undoing, InDoubt, UndoSteps
<1> QED BY <1>2, <1>3, <1>6, <1>8, <1>9, SwitchFrame

-----------------------------------------------------------------------------
(* The steps of an undo.                                                    *)

LEMMA UndoBegins ==
  ASSUME Swapped, NEW p \in Procs, pc[p] \in Changing \cup {"undoUse"},
         UNCHANGED <<bundle, current, previous, sideFile, links, control, backup, torn>>,
         NEW l \in Undoing, StartUndo(p, l)
  PROVE  SwitchInv'
<1>1. TypeOK /\ job[p] \in Job /\ Switches(p)
  BY DEF Swapped, SwitchInv, ControlInv, PointerInv, TypeInv, TypeOK
<1>2. pc[p] \in Changing \cup Undoing /\ pc[p] \in Locked
  BY PCsSplit DEF Undoing
<1> DEFINE s == job[p].saved
           v == job[p].ver
           j == [job[p] EXCEPT !.step = "unlinkCurrent"]
<1>3. /\ j.saved = s /\ j.op = job[p].op /\ j.ver = v
      /\ j.step = "unlinkCurrent" /\ j.undone = job[p].undone
  BY <1>1 DEF Job
<1> HIDE DEF j
<1>4. SetJob(p, j) /\ Go(p, l)
  BY DEF StartUndo, j
<1>5. Apart(p) /\ job'[p] = j /\ pc'[p] = l
  BY <1>1, <1>4, MoveApart, GoApart, SetApart
<1>6. /\ links \ Captured(s, v) = s.links \ Captured(s, v)
      /\ job[p].op \notin Activating => control = s.control /\ backup = s.backup
  <2>1. CASE pc[p] \in Changing
    <3>1. Mid(p)
      BY <1>1, <2>1 DEF Switches
    <3>2. links \ Captured(s, v) = s.links \ Captured(s, v)
      BY <3>1 DEF Mid, Captured
    <3> QED BY <3>1, <3>2 DEF Mid
  <2>2. CASE pc[p] = "undoUse"
    BY <1>1, <2>2 DEF Switches, Back, Undoing
  <2> QED BY <2>1, <2>2
<1>7. Back(p)'
  <2>1. Captured(s, v)' = Captured(s, v)
    BY <1>3, <1>5 DEF Captured, OldNames
  <2>2. Restored(p)'
    BY <1>3, <1>5 DEF Restored
  <2> QED BY <1>3, <1>5, <1>6, <2>1, <2>2 DEF Back
<1>8. ~ torn => job[p].undone /\ Sound(s)
  BY <1>1, <1>2 DEF Switches, InDoubt
<1>9. ~ torn' => Sound(job[p].saved)'
  BY <1>3, <1>5, <1>8 DEF Sound
<1>10. job[p].op \in Activating \cup Switching
  BY <1>1, <1>2 DEF Switches
<1>11. Switches(p)'
  BY <1>3, <1>5, <1>7, <1>8, <1>9, <1>10, PCsSplit DEF Switches, Changing, Applying, Undoing
<1>12. InDoubt(p)'
  BY <1>5 DEF InDoubt
<1> QED BY <1>2, <1>5, <1>11, <1>12, SwitchFrame

\* In which order the paths are put back.
LEMMA UndoOrder ==
  ASSUME NEW l \in Undoing, NEW a \in UndoSteps \ {"done"}, NEW b, b = NextStep(l, a)
  PROVE  /\ b \notin {"unlinkCurrent", "linkCurrent"}
              => a = "linkCurrent" \/ a \notin {"unlinkCurrent", "linkCurrent"}
         /\ b \in {"sideLinks", "launchers", "control", "backup", "done"}
              => a = "linkPrevious" \/ a \in {"sideLinks", "launchers", "control", "backup"}
         /\ b \in {"launchers", "control", "backup", "done"}
              => a = "sideLinks" \/ a \in {"launchers", "control", "backup"}
         /\ b \in {"control", "backup", "done"} => a = "launchers" \/ a \in {"control", "backup"}
         /\ l = "undo" /\ b \in {"backup", "done"} => a \in {"control", "backup"}
         /\ l = "undo" /\ b = "done" => a = "backup"
BY DEF Undoing, UndoSteps, NextStep, UndoNext

LEMMA BackGoes ==
  ASSUME Swapped, NEW p \in Procs, Undo(p)
  PROVE  SwitchInv'
<1>1. TypeOK /\ job[p] \in Job /\ Switches(p) /\ WorkOK(p) /\ Kept(p)
  BY DEF Swapped, SwitchInv, ControlInv, PointerInv, TypeInv, TypeOK
<1>2. pc[p] \in Undoing /\ UNCHANGED <<pc, bundle, torn>>
  BY DEF Undo, Keep
<1>3. Back(p) /\ job[p].step \in UndoSteps \ {"done"}
  BY <1>1, <1>2 DEF Switches, WorkOK, Undo
<1> DEFINE s == job[p].saved
           v == job[p].ver
           a == job[p].step
           b == NextStep(pc[p], a)
           j == [job[p] EXCEPT !.step = b]
           paths == Captured(s, v)
<1>4. /\ j.saved = s /\ j.op = job[p].op /\ j.ver = v
      /\ j.step = b /\ j.undone = job[p].undone
  BY <1>1 DEF Job
<1>5. SetJob(p, j)
  BY DEF Undo
<1> HIDE DEF j
<1>6. Apart(p) /\ job'[p] = j
  BY <1>1, <1>2, <1>5, MoveApart, SetApart
<1>7. /\ current' = IF a = "unlinkCurrent" THEN None
                    ELSE IF a = "linkCurrent" THEN s.current ELSE current
      /\ previous' = IF a = "unlinkPrevious" THEN None
                     ELSE IF a = "linkPrevious" THEN s.previous ELSE previous
      /\ sideFile' = IF a = "sideLinks" THEN s.sideFile ELSE sideFile
      /\ links' = IF a = "launchers" THEN (links \ paths) \cup (s.links \cap paths) ELSE links
      /\ control' = IF a = "control" THEN s.control ELSE control
      /\ backup' = IF a = "backup" THEN s.backup ELSE backup
  BY DEF Undo, Restore
<1>8. paths' = paths
  BY <1>2, <1>4, <1>6 DEF Captured, OldNames
<1>9. links' \ paths = s.links \ paths /\ (a = "launchers" => links' = s.links)
  BY <1>3, <1>7 DEF Back
<1>10. job[p].op \notin Activating => control' = s.control /\ backup' = s.backup
  BY <1>3, <1>7 DEF Back
<1>11. ASSUME job[p].undone, LastRestore(p) PROVE Restored(p)'
  <2>1. Restored(p)
    BY <1>3, <1>11 DEF Back
  <2> HIDE DEF b, paths
  <2>2. b = NextStep(pc[p], a)
    BY DEF b
  <2>3. b \notin {"unlinkCurrent", "linkCurrent"} => current' = s.current
    BY <1>2, <1>3, <1>7, <2>1, <2>2, UndoOrder DEF Restored
  <2>4. b \in {"sideLinks", "launchers", "control", "backup", "done"} => previous' = s.previous
    BY <1>2, <1>3, <1>7, <2>1, <2>2, UndoOrder DEF Restored
  <2>5. b \in {"launchers", "control", "backup", "done"} => sideFile' = s.sideFile
    BY <1>2, <1>3, <1>7, <2>1, <2>2, UndoOrder DEF Restored
  <2>6. b \in {"control", "backup", "done"} => links' = s.links
    BY <1>2, <1>3, <1>7, <1>9, <2>1, <2>2, UndoOrder DEF Restored
  <2>7. pc[p] = "undo" /\ b \in {"backup", "done"} => control' = s.control
    BY <1>2, <1>3, <1>7, <2>1, <2>2, UndoOrder DEF Restored
  <2>8. pc[p] = "undo" /\ b = "done" => backup' = s.backup
    BY <1>2, <1>3, <1>7, <2>1, <2>2, UndoOrder DEF Restored
  <2> QED BY <1>2, <1>4, <1>6, <2>3, <2>4, <2>5, <2>6, <2>7, <2>8 DEF Restored
<1>12. Back(p)'
  <2>1. LastRestore(p)' <=> LastRestore(p)
    BY <1>2, <1>4, <1>6 DEF LastRestore
  <2> QED BY <1>4, <1>6, <1>8, <1>9, <1>10, <1>11, <2>1 DEF Back
<1>13. ~ torn => job[p].undone /\ Sound(s)
  BY <1>1, <1>2 DEF Switches, InDoubt
<1>14. ~ torn' => Sound(job[p].saved)'
  BY <1>2, <1>4, <1>6, <1>13 DEF Sound
<1>15. Switches(p)'
  BY <1>1, <1>2, <1>4, <1>6, <1>12, <1>13, <1>14, PCsSplit
     DEF Switches, Changing, Applying, Undoing
<1>16. InDoubt(p)' /\ pc[p] \in Locked
  BY <1>2, PCsSplit DEF InDoubt
<1> QED BY <1>2, <1>6, <1>15, <1>16, SwitchFrame

LEMMA BackFails ==
  ASSUME Swapped, NEW p \in Procs, UndoFault(p)
  PROVE  SwitchInv'
<1>1. TypeOK /\ job[p] \in Job /\ Switches(p) /\ torn \in BOOLEAN
  BY DEF Swapped, SwitchInv, ControlInv, PointerInv, TypeInv, TypeOK
<1>2. /\ pc[p] \in Undoing
      /\ UNCHANGED <<bundle, current, previous, sideFile, links, control, backup, pc>>
  BY DEF UndoFault, disk, pointers, launchers, planes
<1>3. Back(p)
  BY <1>1, <1>2 DEF Switches
<1>4. PICK n : SetJob(p, [job[p] EXCEPT !.step = n, !.undone = @ /\ ~ LastRestore(p)])
  BY DEF UndoFault
<1> DEFINE j == [job[p] EXCEPT !.step = n, !.undone = @ /\ ~ LastRestore(p)]
<1>5. /\ j.saved = job[p].saved /\ j.op = job[p].op /\ j.ver = job[p].ver
      /\ j.undone = (job[p].undone /\ ~ LastRestore(p))
  BY <1>1 DEF Job
<1> HIDE DEF j
<1>6. SetJob(p, j)
  BY <1>4 DEF j
<1>7. Apart(p) /\ job'[p] = j
  BY <1>1, <1>2, <1>6, MoveApart, SetApart
<1>8. LastRestore(p)' <=> LastRestore(p)
  BY <1>2, <1>5, <1>7 DEF LastRestore
<1>9. Back(p)'
  BY <1>2, <1>3, <1>5, <1>7, <1>8 DEF Back, Captured, OldNames
<1>10. ~ torn' => ~ torn /\ ~ LastRestore(p)
  BY Zenon DEF UndoFault
<1>11. ~ torn => job[p].undone /\ Sound(job[p].saved)
  BY <1>1, <1>2 DEF Switches, InDoubt
<1>12. ~ torn' => job'[p].undone /\ Sound(job[p].saved)'
  BY <1>5, <1>7, <1>10, <1>11 DEF Sound
<1>13. Switches(p)'
  BY <1>1, <1>2, <1>5, <1>7, <1>9, <1>12, PCsSplit DEF Switches, Changing, Applying, Undoing
<1>14. InDoubt(p)' /\ pc[p] \in Locked
  BY <1>2, PCsSplit DEF InDoubt
<1> QED BY <1>7, <1>10, <1>13, <1>14, SwitchFrame

\* A change that was undone: every path is what the snapshot says.
LEMMA BackEnds ==
  ASSUME Swapped, NEW p \in Procs, pc[p] \in Undoing, job[p].step = "done", job[p].undone,
         LastRestore(p)
  PROVE  Disk = job[p].saved
<1>1. Back(p) /\ job[p].saved \in Saved /\ job[p].op \in Activating \cup Switching
  BY DEF Swapped, SwitchInv, Switches, ControlInv, PointerInv, TypeInv, TypeOK, Job
<1>2. Restored(p)
  BY <1>1 DEF Back
<1>3. control = job[p].saved.control /\ backup = job[p].saved.backup
  BY <1>1, <1>2 DEF Back, Restored, LastRestore, Undoing, Activating, Switching
<1>4. /\ current = job[p].saved.current /\ previous = job[p].saved.previous
      /\ sideFile = job[p].saved.sideFile /\ links = job[p].saved.links
  BY <1>2 DEF Restored
<1> QED BY <1>1, <1>3, <1>4 DEF Disk, Saved

LEMMA BackOver ==
  ASSUME Swapped, NEW p \in Procs, Undone(p), Fail(p), LastRestore(p)
  PROVE  SwitchInv'
<1>1. TypeOK /\ job[p] \in Job /\ Switches(p)
  BY DEF Swapped, SwitchInv, ControlInv, PointerInv, TypeInv, TypeOK
<1>2. /\ pc[p] \in Undoing /\ pc[p] \in Locked /\ job[p].step = "done"
      /\ UNCHANGED <<bundle, current, previous, sideFile, links, control, backup, torn>>
  BY PCsSplit DEF Undone, Keep, disk, pointers, launchers, planes
<1> DEFINE j == [job[p] EXCEPT !.ok = FALSE]
<1>3. j.saved = job[p].saved /\ j.step = "done" /\ j.undone = job[p].undone /\ ~ j.ok
  BY <1>1, <1>2 DEF Job
<1> HIDE DEF j
<1>4. SetJob(p, j) /\ Go(p, "unlock")
  BY DEF Fail, j
<1>5. Apart(p) /\ pc'[p] = "unlock" /\ job'[p] = j
  BY <1>1, <1>4, MoveApart, GoApart, SetApart
<1>6. job[p].undone => Disk = job[p].saved
  BY <1>2, BackEnds
<1>7. ~ torn => job[p].undone /\ Sound(job[p].saved)
  BY <1>1, <1>2 DEF Switches, InDoubt
<1>8. Disk' = Disk
  BY <1>2 DEF Disk
<1>9. Switches(p)'
  BY <1>2, <1>3, <1>5, <1>6, <1>7, <1>8 DEF Switches, Changing, Applying, Undoing, InDoubt
<1>10. ~ torn' => Sound(Disk)'
  <2>1. ~ torn => Sound(Disk)
    BY <1>6, <1>7
  <2> QED BY <1>2, <2>1 DEF Sound, Disk
<1> QED BY <1>2, <1>5, <1>9, <1>10, SwitchFrame

LEMMA SwVerdict ==
  ASSUME Swapped, NEW p \in Procs, Probe(p) \/ Undone(p) \/ ReconcileLaunchers(p)
  PROVE  SwitchInv'
<1>1. UNCHANGED <<bundle, current, previous, sideFile, links, control, backup, torn>>
  BY DEF Probe, Undone, ReconcileLaunchers, Keep, disk, pointers, launchers, planes
<1>2. CASE ReconcileLaunchers(p)
  BY <1>2, MidGoes, MidOver
<1>3. CASE Probe(p) /\ ProbePasses(job[p].ver)
  BY <1>3, MidOver
<1>4. CASE Probe(p) /\ ~ ProbePasses(job[p].ver)
  <2>1. StartUndo(p, "undo") /\ pc[p] \in Changing /\ "undo" \in Undoing
    BY <1>4 DEF Probe, Changing, Undoing
  <2> QED BY <1>1, <2>1, UndoBegins
<1>5. CASE Undone(p)
  <2>1. CASE pc[p] = "undoUse" /\ job[p].op \in Activating
    <3>1. StartUndo(p, "undo") /\ "undo" \in Undoing
      BY <1>5, <2>1 DEF Undone, Undoing
    <3> QED BY <1>1, <2>1, <3>1, UndoBegins
  <2>2. CASE ~ (pc[p] = "undoUse" /\ job[p].op \in Activating)
    <3>1. Fail(p) /\ pc[p] \in Undoing
      BY <1>5, <2>2 DEF Undone
    <3>2. job[p].op \in Activating \cup Switching
      BY <3>1 DEF Swapped, SwitchInv, Switches
    <3>3. LastRestore(p)
      BY <2>2, <3>1, <3>2 DEF LastRestore, Undoing
    <3> QED BY <1>5, <3>1, <3>3, BackOver
  <2> QED BY <2>1, <2>2
<1> QED BY <1>2, <1>3, <1>4, <1>5

LEMMA SwRepair ==
  ASSUME Swapped, NEW p \in Procs, RepairControl(p)
  PROVE  SwitchInv'
<1>1. TypeOK /\ job[p] \in Job /\ Switches(p) /\ pc[p] = "repair" /\ pc[p] \in Locked
  BY DEF Swapped, SwitchInv, ControlInv, PointerInv, TypeInv, TypeOK, RepairControl, Locked
<1>2. /\ UNCHANGED <<bundle, current, previous, sideFile, links, backup, torn>>
      /\ control' \in {control, backup}
  BY DEF RepairControl, Keep, pointers, launchers
<1>3. ~ InDoubt(p) /\ job[p].step = None /\ (~ torn => job[p].undone)
  BY <1>1 DEF InDoubt, Switches, Changing, Applying, Undoing
<1>4. PICK j : /\ Go(p, "unlock") /\ (SetJob(p, j) \/ (UNCHANGED job /\ j = job[p]))
               /\ j.step = None /\ (~ torn => j.undone)
  <2>1. CASE backup = None
    <3>1. PICK k : SetJob(p, k) /\ Go(p, "unlock") /\ k = [job[p] EXCEPT !.ok = FALSE]
      BY <2>1 DEF RepairControl, Fail
    <3>2. k.step = job[p].step /\ k.undone = job[p].undone
      BY <1>1, <3>1 DEF Job
    <3> QED BY <1>3, <3>1, <3>2
  <2>2. CASE backup # None
    BY <1>3, <2>2 DEF RepairControl
  <2> QED BY <2>1, <2>2
<1>5. Apart(p) /\ pc'[p] = "unlock" /\ job'[p] = j
  BY <1>1, <1>4, MoveApart, GoApart, SetApart
<1>6. ~ torn => Sound(Disk)
  <2>1. \A q \in Procs \ {p} : pc[q] \notin Locked
    BY <1>1 DEF Swapped, ControlInv, PointerInv, Holds
  <2>2. \A q \in Procs : ~ InDoubt(q)
    BY <1>3, <2>1, PCsSplit DEF InDoubt
  <2> QED BY <2>2 DEF Swapped, SwitchInv
<1>7. ~ torn' => Sound(Disk)'
  BY <1>2, <1>6 DEF Sound, Disk
<1>8. Switches(p)'
  BY <1>2, <1>4, <1>5, ConstantsAssumption
     DEF Switches, Changing, Applying, Undoing, InDoubt, UndoSteps
<1> QED BY <1>1, <1>2, <1>5, <1>7, <1>8, SwitchFrame

LEMMA SwFault ==
  ASSUME Swapped, NEW p \in Procs, Fault(p)
  PROVE  SwitchInv'
<1>1. TypeOK /\ job[p] \in Job /\ Switches(p)
  BY DEF Swapped, SwitchInv, ControlInv, PointerInv, TypeInv, TypeOK
<1>2. UNCHANGED <<bundle, current, previous, sideFile, links, control, backup, torn>>
  BY DEF Fault, disk, pointers, launchers, planes
<1>3. CASE pc[p] \in Changing /\ \E l \in Undoing : StartUndo(p, l)
  BY <1>2, <1>3, UndoBegins
<1>4. ~ torn => job[p].undone
  BY <1>1 DEF Switches
<1>5. CASE /\ pc[p] \in {"install", "snapshot", "prune", "repair", "retire"}
           /\ Go(p, "unlock") /\ (SetJob(p, [job[p] EXCEPT !.ok = FALSE]) \/ UNCHANGED job)
  <2>1. ~ InDoubt(p) /\ job[p].step = None
    BY <1>1, <1>5 DEF InDoubt, Switches, Changing, Applying, Undoing
  <2>2. PICK j : /\ SetJob(p, j) \/ (UNCHANGED job /\ j = job[p])
                 /\ j.step = None /\ (~ torn => j.undone)
    <3>1. PICK k : (SetJob(p, k) /\ k = [job[p] EXCEPT !.ok = FALSE]) \/ (UNCHANGED job /\ k = job[p])
      BY <1>5
    <3>2. k.step = job[p].step /\ k.undone = job[p].undone
      BY <1>1, <3>1 DEF Job
    <3> QED BY <1>4, <2>1, <3>1, <3>2
  <2>3. Apart(p) /\ pc'[p] = "unlock" /\ job'[p] = j
    BY <1>1, <1>5, <2>2, MoveApart, GoApart, SetApart
  <2>4. ~ InDoubt(p)'
    BY <2>3 DEF InDoubt, Changing, Applying, Undoing
  <2> QED BY <1>2, <2>1, <2>2, <2>3, <2>4, SwitchOutside
<1>6. CASE pc[p] \in {"drop", "clear"} /\ AfterClear(p)
  <2>1. PICK l \in {"forget", "blame", "idle"} :
          /\ Go(p, l)
          /\ l = "idle" => SetJob(p, NoJob)
          /\ l # "idle" => UNCHANGED job /\ pc[p] = "clear"
          /\ l = "forget" => job[p].ok
    BY <1>6 DEF AfterClear, Finish
  <2>2. Apart(p) /\ pc'[p] = l /\ job'[p] = IF l = "idle" THEN NoJob ELSE job[p]
    BY <1>1, <2>1, MoveApart, GoApart, SetApart
  <2>3. ~ InDoubt(p) /\ ~ InDoubt(p)'
    BY <1>6, <2>1, <2>2 DEF InDoubt, Changing, Applying, Undoing
  <2>4. job'[p].step = None \/ l = "blame"
    BY <1>1, <2>1, <2>2 DEF Switches, NoJob, Undoing
  <2>5. ~ torn => job'[p].undone
    BY <1>4, <2>2 DEF NoJob
  <2> QED BY <1>2, <2>1, <2>2, <2>3, <2>4, <2>5, SwitchOutside
<1> QED BY <1>3, <1>5, <1>6 DEF Fault, FaultyStep, Fail, Changing, Undoing

\* A signal waits for the end of a change; a kill does not.
LEMMA SwDeath ==
  ASSUME Swapped, NEW p \in Procs, Interrupt(p) \/ Kill(p)
  PROVE  SwitchInv'
<1>1. TypeOK /\ torn \in BOOLEAN
  BY DEF Swapped, ControlInv, PointerInv, TypeInv, TypeOK
<1>2. UNCHANGED <<bundle, current, previous, sideFile, links, control, backup>>
  BY DEF Interrupt, Kill, Die, disk, pointers, launchers, planes
<1>3. Go(p, "idle") /\ SetJob(p, NoJob)
  BY DEF Interrupt, Kill, Die, Finish
<1>4. Apart(p) /\ pc'[p] = "idle" /\ job'[p] = NoJob
  BY <1>1, <1>3, MoveApart, GoApart, SetApart
<1>5. ~ torn' => ~ torn /\ ~ InDoubt(p)
  <2>1. CASE Interrupt(p)
    BY <2>1 DEF Interrupt, Masked, InDoubt
  <2>2. CASE Kill(p)
    BY <2>2, Zenon DEF Kill, InDoubt
  <2> QED BY <2>1, <2>2
<1>6. Switches(p)' /\ ~ InDoubt(p)'
  BY <1>4 DEF NoJob, Switches, InDoubt, Changing, Applying, Undoing
<1>7. CASE torn'
  BY <1>2, <1>4, <1>5, <1>6, <1>7, SwitchFrame
<1>8. CASE ~ torn'
  BY <1>2, <1>4, <1>5, <1>6, <1>8, SoundStays, SwitchFrame
<1> QED BY <1>7, <1>8

-----------------------------------------------------------------------------
(* The theorems.                                                            *)

LEMMA SwitchNext == ASSUME Swapped, [Next]_vars PROVE Swapped'
<1>1. ControlInv'
  BY ControlNext DEF Swapped
<1>2. ASSUME NEW p \in Procs, Step(p) PROVE SwitchInv'
  <2>1. CASE Snapshot(p)
    BY <2>1, SwAround, MidBegins
  <2> QED BY <1>2, <2>1, SwUnlocked, SwAround, SwAfter, MidGoes, SwVerdict, BackGoes, BackFails,
             SwRepair, SwFault, SwDeath DEF Step, Advance
<1>3. CASE UNCHANGED vars
  BY <1>1, <1>3 DEF Swapped, SwitchInv, Switches, Mid, Back, Restored, LastRestore, Captured,
       OldNames, InDoubt, Sound, Disk, vars, disk, pointers, launchers, planes
<1> QED BY <1>1, <1>2, <1>3 DEF Next, Swapped

LEMMA SwitchInit == Init => Swapped
<1> SUFFICES ASSUME Init PROVE SwitchInv
  BY ControlInit DEF Swapped
<1>1. ASSUME NEW p \in Procs PROVE Switches(p)
  BY DEF Init, NoJob, Switches, InDoubt, Changing, Applying, Undoing
<1>2. Sound(Disk)
  BY ConstantsAssumption DEF Init, Sound, Disk
<1> QED BY <1>1, <1>2 DEF SwitchInv

\* A change that failed and was undone leaves pointers, side links, control plane
\* and backup as they were when it began, whichever of its steps failed, and
\* whatever other commands wait for the lock (use_version, activate_release).
THEOREM UndoneCorrect == Spec => []UndoneIsUnchanged
<1>1. Swapped /\ [Next]_vars => Swapped'
  BY SwitchNext
<1>2. Swapped => UndoneIsUnchanged
  BY DEF Swapped, SwitchInv, Switches, UndoneIsUnchanged
<1> QED BY SwitchInit, <1>1, <1>2, PTL DEF Spec

\* Between changes the side links are those of the selected version, the control
\* plane and its backup pass their probe, and a rollback goes somewhere else:
\* signals, I/O errors and broken releases leave no change half made.
THEOREM CoherentAlways == Spec => []Coherent
<1>1. Swapped /\ [Next]_vars => Swapped'
  BY SwitchNext
<1>2. Swapped => Coherent
  <2> SUFFICES ASSUME Swapped, lock = None, ~ torn PROVE Sound(Disk)
    BY DEF Coherent, Sound, Disk
  <2>1. \A p \in Procs : pc[p] \notin Locked
    BY ConstantsAssumption DEF Swapped, ControlInv, PointerInv, Holds
  <2>2. \A p \in Procs : ~ InDoubt(p)
    BY <2>1, PCsSplit DEF InDoubt
  <2> QED BY <2>2 DEF Swapped, SwitchInv
<1> QED BY SwitchInit, <1>1, <1>2, PTL DEF Spec

-----------------------------------------------------------------------------
(* The promise: seen through the snapshot while a change is in doubt, every *)
(* step is one of SelectionPromise or changes nothing.                      *)

SettledOK ==
  /\ \A p \in Procs : pc[p] \in Locked => lock = p
  /\ \A p \in Procs : InDoubt(p) => Settled = job[p].saved
  /\ (\A p \in Procs : ~ InDoubt(p)) => Settled = Disk

LEMMA SettledIs == Swapped => SettledOK
<1> SUFFICES ASSUME Swapped PROVE SettledOK
  OBVIOUS
<1>1. \A p \in Procs : pc[p] \in Locked => lock = p
  BY DEF Swapped, ControlInv, PointerInv, Holds
<1>2. \A p, q \in Procs : InDoubt(p) /\ InDoubt(q) => p = q
  BY <1>1, PCsSplit DEF InDoubt
<1>3. ASSUME NEW p \in Procs, InDoubt(p) PROVE Settled = job[p].saved
  <2>1. p = CHOOSE q \in Procs : InDoubt(q)
    BY <1>2, <1>3
  <2> QED BY <1>3, <2>1 DEF Settled
<1>4. ASSUME \A p \in Procs : ~ InDoubt(p) PROVE Settled = Disk
  BY <1>4 DEF Settled
<1> QED BY <1>1, <1>3, <1>4 DEF SettledOK

\* What a step of p settles is seen from p alone.
LEMMA SettledMoves ==
  ASSUME Swapped, Swapped', NEW p \in Procs, Apart(p),
         UNCHANGED <<current, previous, sideFile, links, control, backup>> \/ pc[p] \in Locked
  PROVE  /\ InDoubt(p) => Settled = job[p].saved
         /\ InDoubt(p)' => Settled' = job'[p].saved
         /\ ~ InDoubt(p) /\ pc[p] \in Locked => Settled = Disk
         /\ ~ InDoubt(p)' /\ pc[p] \in Locked => Settled' = Disk'
         /\ ~ InDoubt(p) /\ ~ InDoubt(p)'
              /\ UNCHANGED <<current, previous, sideFile, links, control, backup>>
              => Settled' = Settled
<1>1. SettledOK /\ SettledOK'
  BY SettledIs, PTL
<1>2. \A q \in Procs \ {p} : InDoubt(q)' <=> InDoubt(q)
  BY DEF Apart, InDoubt
<1>3. pc[p] \in Locked => \A q \in Procs \ {p} : ~ InDoubt(q)
  BY <1>1, PCsSplit DEF SettledOK, InDoubt
<1>4. ASSUME ~ InDoubt(p), ~ InDoubt(p)',
             UNCHANGED <<current, previous, sideFile, links, control, backup>>
      PROVE  Settled' = Settled
  <2>1. CASE \E q \in Procs : InDoubt(q)
    <3>1. PICK q \in Procs \ {p} : InDoubt(q)
      BY <1>4, <2>1
    <3>2. job'[q] = job[q] /\ InDoubt(q)'
      BY <1>2, <3>1 DEF Apart
    <3> QED BY <1>1, <3>1, <3>2 DEF SettledOK
  <2>2. CASE \A q \in Procs : ~ InDoubt(q)
    <3>1. Disk' = Disk
      BY <1>4 DEF Disk
    <3> QED BY <1>1, <1>2, <1>4, <2>2, <3>1 DEF SettledOK
  <2> QED BY <2>1, <2>2
<1> QED BY <1>1, <1>2, <1>3, <1>4 DEF SettledOK

\* One step of the promise.
Keeps == UNCHANGED <<Settled.current, Settled.previous, Settled.control, Settled.backup, torn>>
Promised == Promise!Next \/ Keeps

LEMMA TornPromised == ASSUME torn' PROVE Promised
BY DEF Promised, Promise!Next, Promise!Torn

LEMMA StutterPromised == ASSUME Settled' = Settled, UNCHANGED torn PROVE Promised
BY DEF Promised, Keeps

LEMMA DoubtStays ==
  ASSUME Swapped, Swapped', NEW p \in Procs, Apart(p), InDoubt(p), InDoubt(p)',
         job'[p].saved = job[p].saved, ~ torn' => ~ torn
  PROVE  Promised
<1>1. torn \in BOOLEAN /\ torn' \in BOOLEAN
  BY DEF Swapped, ControlInv, PointerInv, TypeInv, TypeOK
<1>2. pc[p] \in Locked
  BY PCsSplit DEF InDoubt
<1>3. Settled' = Settled
  BY <1>2, SettledMoves
<1> QED BY <1>1, <1>3, TornPromised, StutterPromised

LEMMA NoDoubt ==
  ASSUME Swapped, Swapped', NEW p \in Procs, Apart(p), ~ InDoubt(p), ~ InDoubt(p)',
         UNCHANGED <<current, previous, sideFile, links, control, backup>>, ~ torn' => ~ torn
  PROVE  Promised
<1>1. torn \in BOOLEAN /\ torn' \in BOOLEAN
  BY DEF Swapped, ControlInv, PointerInv, TypeInv, TypeOK
<1>2. Settled' = Settled
  BY SettledMoves
<1> QED BY <1>1, <1>2, TornPromised, StutterPromised

LEMMA OutsidePromised ==
  ASSUME Swapped, Swapped', NEW p \in Procs, ~ InDoubt(p),
         Start(p) \/ Resolve(p) \/ Gate(p) \/ ReadPending(p) \/ CheckStale(p)
           \/ ReadLatest(p) \/ CheckStaged(p) \/ MarkerUnreadable(p) \/ Record(p)
           \/ Offer(p) \/ ReadBase(p) \/ Fetch(p) \/ WritePending(p)
           \/ ClearPending(p) \/ Forget(p) \/ Blame(p)
           \/ Acquire(p) \/ InstallBundle(p) \/ RollbackTarget(p) \/ Unlock(p)
           \/ ChooseDoomed(p) \/ ChooseOld(p) \/ Removed(p)
           \/ Interrupt(p) \/ Kill(p)
  PROVE  Promised
<1>1. /\ Apart(p) /\ ~ InDoubt(p)'
      /\ UNCHANGED <<current, previous, sideFile, links, control, backup>>
  BY OutsideGoes DEF Swapped, ControlInv, PointerInv, InDoubt
<1>2. ~ torn' => ~ torn
  <2>1. CASE Kill(p)
    BY <2>1, Zenon DEF Kill
  <2>2. CASE ~ Kill(p)
    BY <2>2 DEF Start, Resolve, Gate, ReadPending, CheckStale, ReadLatest, CheckStaged,
         MarkerUnreadable, Record, Offer, ReadBase, Fetch, WritePending, ClearPending,
         Forget, Blame, Acquire, InstallBundle, RollbackTarget, Unlock, ChooseDoomed,
         ChooseOld, Removed, Interrupt, Keep
  <2> QED BY <2>1, <2>2
<1> QED BY <1>1, <1>2, NoDoubt

\* What ends under the lock without a change.
LEMMA PlainPromised ==
  ASSUME Swapped, Swapped', NEW p \in Procs, ~ InDoubt(p),
         \/ RemoveVersion(p)
         \/ Snapshot(p) /\ ~ Complete(job[p].ver)
         \/ Fault(p)
  PROVE  Promised
<1>1. TypeOK
  BY DEF Swapped, ControlInv, PointerInv, TypeInv
<1>2. UNCHANGED <<current, previous, sideFile, links, control, backup, torn>>
  BY DEF RemoveVersion, Snapshot, Fault, Keep, counters, disk, pointers, launchers, planes
<1>3. /\ \/ UNCHANGED pc
         \/ \E l \in {"unlock", "forget", "blame", "idle"} : Go(p, l)
      /\ (\E j : SetJob(p, j)) \/ UNCHANGED job
  <2>1. CASE Fault(p)
    <3>1. pc[p] \notin Changing
      BY DEF InDoubt
    <3> QED BY <2>1, <3>1 DEF Fault, FaultyStep, Fail, AfterClear, Finish, Changing
  <2>2. CASE RemoveVersion(p)
    BY <2>2 DEF RemoveVersion
  <2>3. CASE Snapshot(p) /\ ~ Complete(job[p].ver)
    BY <2>3 DEF Snapshot, Fail
  <2> QED BY <2>1, <2>2, <2>3
<1>4. Apart(p) /\ (pc' = pc \/ pc'[p] \in {"unlock", "forget", "blame", "idle"})
  BY <1>1, <1>3, MoveApart, GoApart
<1>5. ~ InDoubt(p)'
  BY <1>4 DEF InDoubt, Changing, Applying, Undoing
<1> QED BY <1>2, <1>4, <1>5, NoDoubt

LEMMA SnapshotPromised ==
  ASSUME Swapped, Swapped', NEW p \in Procs, Snapshot(p), Complete(job[p].ver)
  PROVE  Promised
<1>1. TypeOK /\ job[p] \in Job
  BY DEF Swapped, ControlInv, PointerInv, TypeInv, TypeOK
<1>2. /\ UNCHANGED <<current, previous, sideFile, links, control, backup, torn>>
      /\ pc[p] \in Locked /\ ~ InDoubt(p)
  BY DEF Snapshot, Keep, disk, pointers, launchers, planes, Locked, InDoubt, Changing,
         Applying, Undoing
<1> DEFINE j == [job[p] EXCEPT !.saved = Disk]
<1>3. j.saved = Disk
  BY <1>1 DEF Job
<1> HIDE DEF j
<1>4. SetJob(p, j) /\ \E l \in {"backup", "sides"} : Go(p, l)
  BY DEF Snapshot, j
<1>5. Apart(p) /\ job'[p] = j /\ pc'[p] \in {"backup", "sides"}
  BY <1>1, <1>4, MoveApart, GoApart, SetApart
<1>6. InDoubt(p)'
  BY <1>5 DEF InDoubt, Changing, Applying
<1>7. Settled' = Settled
  BY <1>2, <1>3, <1>5, <1>6, SettledMoves
<1> QED BY <1>2, <1>7, StutterPromised

LEMMA ChangePromised ==
  ASSUME Swapped, Swapped', NEW p \in Procs,
         BackUp(p) \/ CopyControl(p) \/ PrepareSideLinks(p) \/ SwitchPrevious(p)
           \/ SwitchCurrent(p) \/ RemoveObsolete(p) \/ WriteSideFile(p)
           \/ (ReconcileLaunchers(p) /\ job[p].op \in Activating)
  PROVE  Promised
<1> USE DEF BackUp, CopyControl, PrepareSideLinks, SwitchPrevious, SwitchCurrent,
            RemoveObsolete, WriteSideFile, ReconcileLaunchers
<1>1. TypeOK /\ UNCHANGED <<job, torn>> /\ pc[p] \in Changing
  BY DEF Swapped, ControlInv, PointerInv, TypeInv, Changing, Applying, Keep
<1>2. \E l \in Changing : Go(p, l)
  BY DEF Changing, Applying
<1>3. Apart(p) /\ pc'[p] \in Changing
  BY <1>1, <1>2, MoveApart, GoApart
<1>4. InDoubt(p) /\ InDoubt(p)'
  BY <1>1, <1>3 DEF InDoubt
<1> QED BY <1>1, <1>3, <1>4, DoubtStays

\* The begin of an undo, and every step of it.
LEMMA UndoPromised ==
  ASSUME Swapped, Swapped', NEW p \in Procs, InDoubt(p),
         \/ Undo(p) \/ UndoFault(p)
         \/ UNCHANGED torn /\ \E l \in Undoing : StartUndo(p, l)
  PROVE  Promised
<1>1. TypeOK /\ job[p] \in Job
  BY DEF Swapped, ControlInv, PointerInv, TypeInv, TypeOK
<1>2. PICK j : SetJob(p, j) /\ j.saved = job[p].saved
  <2>1. CASE UndoFault(p)
    <3>1. PICK n : SetJob(p, [job[p] EXCEPT !.step = n, !.undone = @ /\ ~ LastRestore(p)])
      BY <2>1 DEF UndoFault
    <3>2. [job[p] EXCEPT !.step = n, !.undone = @ /\ ~ LastRestore(p)].saved = job[p].saved
      BY <1>1 DEF Job
    <3> QED BY <3>1, <3>2
  <2>2. CASE ~ UndoFault(p)
    <3>1. PICK n : SetJob(p, [job[p] EXCEPT !.step = n])
      BY <2>2 DEF Undo, StartUndo
    <3>2. [job[p] EXCEPT !.step = n].saved = job[p].saved
      BY <1>1 DEF Job
    <3> QED BY <3>1, <3>2
  <2> QED BY <2>1, <2>2
<1>3. (\E l \in Undoing : Go(p, l)) \/ (UNCHANGED pc /\ pc[p] \in Undoing)
  BY DEF Undo, UndoFault, StartUndo
<1>4. Apart(p) /\ job'[p] = j /\ pc'[p] \in Undoing
  BY <1>1, <1>2, <1>3, MoveApart, GoApart, SetApart
<1>5. ~ torn' => ~ torn
  <2>1. CASE UndoFault(p)
    BY <2>1, Zenon DEF UndoFault
  <2>2. CASE ~ UndoFault(p)
    BY <2>2 DEF Undo, Keep
  <2> QED BY <2>1, <2>2
<1>6. InDoubt(p)'
  BY <1>4 DEF InDoubt
<1> QED BY <1>2, <1>4, <1>5, <1>6, DoubtStays

\* A switch or an activation becomes visible as one step.
LEMMA OverPromised ==
  ASSUME Swapped, Swapped', NEW p \in Procs,
         \/ ReconcileLaunchers(p) /\ job[p].op \notin Activating
         \/ Probe(p) /\ ProbePasses(job[p].ver)
  PROVE  Promised
<1>1. TypeOK /\ torn \in BOOLEAN /\ Switches(p) /\ pc[p] \in {"reconcile", "probe"}
  BY DEF Swapped, SwitchInv, ControlInv, PointerInv, TypeInv, TypeOK, ReconcileLaunchers, Probe
<1>2. UNCHANGED <<current, previous, sideFile, links, control, backup, torn>>
  BY DEF ReconcileLaunchers, Probe, Keep, disk, pointers, launchers, planes
<1>3. pc[p] \in Changing /\ pc[p] \in Locked /\ InDoubt(p)
  BY <1>1, PCsSplit DEF Changing, Applying, InDoubt
<1>4. \E l \in {"unlock", "prune"} : Go(p, l) /\ ((\E j : SetJob(p, j)) \/ UNCHANGED job)
  BY DEF ReconcileLaunchers, Probe
<1>5. Apart(p) /\ pc'[p] \in {"unlock", "prune"}
  BY <1>1, <1>4, MoveApart, GoApart
<1>6. ~ InDoubt(p)'
  BY <1>5 DEF InDoubt, Changing, Applying, Undoing
<1> DEFINE s == job[p].saved
           v == job[p].ver
<1>7. Settled = s /\ Settled' = Disk
  <2>1. Settled' = Disk'
    BY <1>3, <1>5, <1>6, SettledMoves
  <2>2. Disk' = Disk
    BY <1>2 DEF Disk
  <2> QED BY <1>3, <1>5, <2>1, <2>2, SettledMoves
<1>8. Mid(p) /\ v \in Versions
  BY <1>1, <1>3 DEF Switches, Swapped, ControlInv, PointerInv, TypeInv, WorkOK
<1>9. CASE ~ torn
  <2>1. s.current # None
    BY <1>1, <1>3, <1>9 DEF Switches, Sound
  <2>2. /\ Disk.current = v
        /\ Disk.previous = IF v = s.current THEN s.previous ELSE s.current
    BY <1>1, <1>8, <2>1 DEF Mid, Disk
  <2>3. CASE job[p].op \in Activating
    <3>1. Disk.control = v /\ Disk.backup = s.control
      BY <1>1, <1>8, <2>3 DEF Mid, Disk
    <3>2. Promise!Activate
      BY <1>7, <1>8, <2>2, <3>1 DEF Promise!Activate, Promise!Switch
    <3> QED BY <1>2, <1>9, <3>2 DEF Promised, Promise!Next
  <2>4. CASE job[p].op \notin Activating
    <3>1. Disk.control = s.control /\ Disk.backup = s.backup
      BY <1>1, <1>8, <2>4 DEF Mid, Disk
    <3>2. Promise!Use
      BY <1>7, <1>8, <2>2, <3>1 DEF Promise!Use, Promise!Switch
    <3> QED BY <1>2, <1>9, <3>2 DEF Promised, Promise!Next
  <2> QED BY <2>3, <2>4
<1>10. CASE torn
  BY <1>2, <1>10, TornPromised
<1> QED BY <1>9, <1>10

\* A change that was undone was never seen.
LEMMA UndonePromised ==
  ASSUME Swapped, Swapped', NEW p \in Procs, Undone(p), Fail(p), LastRestore(p)
  PROVE  Promised
<1>1. TypeOK /\ torn \in BOOLEAN /\ Switches(p)
  BY DEF Swapped, SwitchInv, ControlInv, PointerInv, TypeInv, TypeOK
<1>2. /\ UNCHANGED <<current, previous, sideFile, links, control, backup, torn>>
      /\ pc[p] \in Undoing /\ pc[p] \in Locked /\ InDoubt(p) /\ job[p].step = "done"
  BY PCsSplit DEF Undone, Keep, disk, pointers, launchers, planes, InDoubt
<1>3. Apart(p) /\ pc'[p] = "unlock"
  BY <1>1, MoveApart, GoApart DEF Fail
<1>4. ~ InDoubt(p)'
  BY <1>3 DEF InDoubt, Changing, Applying, Undoing
<1>5. CASE ~ torn
  <2>1. Disk = job[p].saved
    BY <1>1, <1>2, <1>5, BackEnds DEF Switches
  <2>2. Disk' = Disk
    BY <1>2 DEF Disk
  <2>3. Settled' = Settled
    BY <1>2, <1>3, <1>4, <2>1, <2>2, SettledMoves
  <2> QED BY <1>2, <2>3, StutterPromised
<1>6. CASE torn
  BY <1>2, <1>6, TornPromised
<1> QED BY <1>5, <1>6

LEMMA RepairPromised ==
  ASSUME Swapped, Swapped', NEW p \in Procs, RepairControl(p)
  PROVE  Promised
<1>1. TypeOK /\ torn \in BOOLEAN
  BY DEF Swapped, ControlInv, PointerInv, TypeInv, TypeOK
<1>2. /\ UNCHANGED <<current, previous, sideFile, links, backup, torn>>
      /\ pc[p] \in Locked /\ ~ InDoubt(p)
  BY DEF RepairControl, Keep, pointers, launchers, Locked, InDoubt, Changing, Applying, Undoing
<1>3. Go(p, "unlock") /\ ((\E j : SetJob(p, j)) \/ UNCHANGED job)
  BY DEF RepairControl, Fail
<1>4. Apart(p) /\ pc'[p] = "unlock"
  BY <1>1, <1>3, MoveApart, GoApart
<1>5. ~ InDoubt(p)'
  BY <1>4 DEF InDoubt, Changing, Applying, Undoing
<1>6. Settled = Disk /\ Settled' = Disk'
  BY <1>2, <1>4, <1>5, SettledMoves
<1>7. /\ Disk'.current = Disk.current /\ Disk'.previous = Disk.previous
      /\ Disk'.backup = Disk.backup /\ Disk.backup = backup
      /\ Disk'.control = control' /\ Disk.control = control
  BY <1>2 DEF Disk
<1>8. CASE backup = None
  <2>1. UNCHANGED control
    BY <1>8 DEF RepairControl
  <2>2. Settled' = Settled
    BY <1>2, <1>6, <2>1 DEF Disk
  <2> QED BY <1>2, <2>2, StutterPromised
<1>9. CASE backup # None
  <2>1. control' = backup
    BY <1>9 DEF RepairControl
  <2>2. Promise!Repair
    BY <1>6, <1>7, <1>9, <2>1 DEF Promise!Repair
  <2> QED BY <1>1, <1>2, <2>2 DEF Promised, Promise!Next, Promise!Torn
<1> QED BY <1>8, <1>9

LEMMA PromiseStep ==
  ASSUME Swapped, Swapped', [Next]_vars
  PROVE  Promised
<1>1. ASSUME NEW p \in Procs, Step(p) PROVE Promised
  <2>1. CASE Snapshot(p) \/ RemoveVersion(p)
    <3>1. ~ InDoubt(p)
      BY <2>1 DEF Snapshot, RemoveVersion, Removing, InDoubt, Changing, Applying, Undoing
    <3> QED BY <2>1, <3>1, SnapshotPromised, PlainPromised
  <2>2. CASE Fault(p)
    <3>1. CASE InDoubt(p)
      <4>1. \E l \in Undoing : StartUndo(p, l)
        BY <2>2, <3>1 DEF Fault, FaultyStep, InDoubt, Changing, Applying, Undoing
      <4>2. UNCHANGED torn
        BY <2>2 DEF Fault
      <4> QED BY <3>1, <4>1, <4>2, UndoPromised
    <3> QED BY <2>2, <3>1, PlainPromised
  <2>3. CASE Undo(p) \/ UndoFault(p)
    <3>1. InDoubt(p)
      BY <2>3 DEF Undo, UndoFault, InDoubt
    <3> QED BY <2>3, <3>1, UndoPromised
  <2>4. CASE ReconcileLaunchers(p)
    BY <2>4, ChangePromised, OverPromised
  <2>5. CASE Probe(p)
    <3>1. CASE ~ ProbePasses(job[p].ver)
      <4>1. /\ InDoubt(p) /\ UNCHANGED torn
            /\ \E l \in Undoing : StartUndo(p, l)
        BY <2>5, <3>1 DEF Probe, InDoubt, Changing, Undoing, Keep
      <4> QED BY <4>1, UndoPromised
    <3> QED BY <2>5, <3>1, OverPromised
  <2>6. CASE Undone(p)
    <3>1. pc[p] \in Undoing /\ InDoubt(p) /\ UNCHANGED torn
      BY <2>6 DEF Undone, InDoubt, Keep
    <3>2. CASE pc[p] = "undoUse" /\ job[p].op \in Activating
      <4>1. \E l \in Undoing : StartUndo(p, l)
        BY <2>6, <3>2 DEF Undone, Undoing
      <4> QED BY <3>1, <4>1, UndoPromised
    <3>3. CASE ~ (pc[p] = "undoUse" /\ job[p].op \in Activating)
      <4>1. Fail(p) /\ job[p].op \in Activating \cup Switching
        BY <2>6, <3>1, <3>3 DEF Undone, Swapped, SwitchInv, Switches
      <4>2. LastRestore(p)
        BY <3>1, <3>3, <4>1 DEF LastRestore, Undoing
      <4> QED BY <2>6, <4>1, <4>2, UndonePromised
    <3> QED BY <3>2, <3>3
  <2>7. CASE Interrupt(p) \/ Kill(p)
    <3>1. CASE InDoubt(p)
      <4>1. Kill(p)
        BY <2>7, <3>1 DEF Interrupt, Masked, InDoubt
      <4>2. torn'
        BY <3>1, <4>1, Zenon DEF Kill, InDoubt
      <4> QED BY <4>2, TornPromised
    <3> QED BY <2>7, <3>1, OutsidePromised
  <2>8. CASE Start(p) \/ Resolve(p) \/ Gate(p) \/ ReadPending(p) \/ CheckStale(p)
           \/ ReadLatest(p) \/ CheckStaged(p) \/ MarkerUnreadable(p) \/ Record(p)
           \/ Offer(p) \/ ReadBase(p) \/ Fetch(p) \/ WritePending(p)
           \/ ClearPending(p) \/ Forget(p) \/ Blame(p)
           \/ Acquire(p) \/ InstallBundle(p) \/ RollbackTarget(p) \/ Unlock(p)
           \/ ChooseDoomed(p) \/ ChooseOld(p) \/ Removed(p)
    <3>1. pc[p] \in Unlocked \cup {"idle", "install", "target", "doom", "retain", "unlock"} \cup Removing
      BY <2>8 DEF Start, Resolve, Gate, ReadPending, CheckStale, ReadLatest, CheckStaged,
         MarkerUnreadable, Record, Offer, ReadBase, Fetch, WritePending, ClearPending,
         Forget, Blame, Acquire, InstallBundle, RollbackTarget, Unlock, ChooseDoomed,
         ChooseOld, Removed, Unlocked
    <3>2. ~ InDoubt(p)
      BY <3>1, PCsSplit, PlainOnes DEF InDoubt, Plain
    <3> QED BY <2>8, <3>2, OutsidePromised
  <2> QED BY <1>1, <2>1, <2>2, <2>3, <2>4, <2>5, <2>6, <2>7, <2>8, ChangePromised, RepairPromised
          DEF Step, Advance
<1>2. CASE UNCHANGED vars
  <2>1. UNCHANGED <<Settled, torn>>
    BY <1>2 DEF Settled, InDoubt, Disk, vars, disk, pointers, launchers, planes
  <2> QED BY <2>1, StutterPromised
<1> QED BY <1>1, <1>2 DEF Next

\* SelfUpdate implements SelectionPromise: selection and control plane change
\* together or not at all, for any number of processes and faults, until a process
\* is killed in the middle of a change or an undo fails.
THEOREM PromiseCorrect == Spec => PromiseKept
<1>1. Init => Promise!Init
  <2> SUFFICES ASSUME Init PROVE Promise!Init
    OBVIOUS
  <2>1. \A p \in Procs : ~ InDoubt(p)
    BY DEF Init, InDoubt, Changing, Applying, Undoing
  <2>2. Settled = Disk
    BY <2>1 DEF Settled
  <2>3. /\ Disk.current = current /\ Disk.previous = previous
        /\ Disk.control = control /\ Disk.backup = backup
    BY DEF Disk
  <2> QED BY <2>2, <2>3, ConstantsAssumption DEF Init, Promise!Init
<1>2. Swapped /\ [Next]_vars => Swapped'
  BY SwitchNext
<1>3. Swapped /\ Swapped' /\ [Next]_vars => [Promise!Next]_(Promise!promise)
  BY PromiseStep DEF Promised, Keeps, Promise!promise
<1> QED BY SwitchInit, <1>1, <1>2, <1>3, PTL DEF Spec, PromiseKept, Promise!Spec
=============================================================================

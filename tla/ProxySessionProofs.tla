------------------------- MODULE ProxySessionProofs -------------------------
(* What the claudex sessions keep of each other and of their proxy, for any *)
(* number of commands, versions and daemons.                                *)
EXTENDS ProxySession, TLAPS

-----------------------------------------------------------------------------
(* What a command at l carries in its locals j.                             *)

Joining == {"launch", "update"}
Stops == {"stop", "dying", "unlink"}
Switching == {"check", "identify", "switch", "clear", "back"}
Spawned == {"record", "await", "reap"}
Served == {"downgrade", "unlock"}

JobFits(l, j) ==
  /\ l \in Preparing => j.op = "launch"
  /\ l = "lock" => j.op \in Joining \cup {"stop"}
  /\ l = "lock" /\ j.op = "update" => j.ver \in Versions
  /\ l \in Stops => j.op \in OpNames
  /\ l \in Staging \cup {"join"} \cup Switching \cup Ensuring \cup Served => j.op \in Joining
  /\ l \in Staging \cup {"identify", "switch"} => j.ver \in Versions
  /\ l \in Stops /\ j.op \in Joining => j.ver \in Versions
  /\ IF l \in {"dying", "unlink"} \cup Served THEN j.seen \in Daemons ELSE j.seen = None
  /\ IF l \in Spawned THEN j.child \in Daemons ELSE j.child = None
  /\ l \notin Ensuring \cup {"clear", "back"} => j.phase = "session"

\* Of the state, what is not control.
StoreOK ==
  /\ installed \subseteq Versions /\ current \in VersionOrNone
  /\ pending \in Pending \cup {None} /\ config \in Config /\ pidfile \in Record \cup {None}
  /\ daemon \in [Daemons -> [state : {"gone", "alive", "stopping"},
                             bin : Binaries \cup {None}]]
  /\ port \in Daemons \cup {Foreign, None}
  /\ skewed \subseteq Daemons /\ excused \subseteq Daemons
  /\ started \in 0..MaxOps /\ faults \in 0..MaxFaults /\ torn \in BOOLEAN

ControlOK ==
  /\ pc \in [Procs -> PCs] /\ job \in [Procs -> Job]
  /\ \A p \in Procs : JobFits(pc[p], job[p])

FreeLocks ==
  /\ lock \in Procs \cup {None} /\ exclusive \in Procs \cup {None} /\ leases \subseteq Procs

TypeInv == StoreOK /\ FreeLocks /\ ControlOK

\* Where a step leaves a command.
Goes(p, l, j) == pc' = [pc EXCEPT ![p] = l] /\ job' = [job EXCEPT ![p] = j]

LEMMA Constants ==
  /\ None \notin Versions /\ None \notin Procs /\ None \notin OpNames /\ None \notin Daemons
  /\ Foreign \notin Daemons /\ Foreign # None /\ System \notin Versions
  /\ Versions \subseteq Nat /\ Daemons \subseteq Nat /\ Broken \subseteq Versions
  /\ Selected \subseteq VersionOrNone /\ Staged \subseteq {None} \cup Pending
  /\ Configs \subseteq Config /\ Ops \in [Procs -> SUBSET OpNames]
  /\ MaxOps \in Nat /\ MaxFaults \in Nat /\ None \notin Record /\ None \notin Pending
  BY ConstantsAssumption DEF ConstantsAssumption, Pending, Config, VersionOrNone, Record

LEMMA JobFields ==
  ASSUME NEW j, j \in Job
  PROVE  /\ j.op \in OpNames \cup {None} /\ j.inside \in BOOLEAN
         /\ j.ver \in VersionOrNone /\ j.config \in Config /\ j.base \in VersionOrNone
         /\ j.prev \in VersionOrNone /\ j.phase \in Phases
         /\ j.child \in Daemons \cup {None} /\ j.bin \in Binaries \cup {None}
         /\ j.seen \in Daemons \cup {None}
  BY DEF Job

LEMMA ConfigFields ==
  ASSUME NEW c \in Config
  PROVE  c.pin \in VersionOrNone /\ c.auto \in BOOLEAN
  BY DEF Config

LEMMA NoJobFits ==
  /\ NoJob \in Job /\ JobFits("idle", NoJob)
  /\ NoJob.op = None /\ NoJob.seen = None /\ NoJob.child = None /\ NoJob.phase = "session"
  /\ NoJob.config = NoConfig /\ NoConfig.pin = None
<1>1. NoJob \in Job
  BY DEF NoJob, Job, NoConfig, Config, VersionOrNone, Phases
<1> QED
  BY <1>1 DEF NoJob, NoConfig, JobFits, Preparing, Stops, Staging, Switching, Ensuring,
     Served, Spawned

LEMMA GoesTyped ==
  ASSUME TypeInv, NEW p \in Procs, NEW l \in PCs, NEW j \in Job, JobFits(l, j),
         Goes(p, l, j)
  PROVE  /\ pc' \in [Procs -> PCs] /\ job' \in [Procs -> Job]
         /\ \A q \in Procs : JobFits(pc[q], job[q])'
         /\ pc'[p] = l /\ job'[p] = j
         /\ \A q \in Procs : q # p => pc'[q] = pc[q] /\ job'[q] = job[q]
<1>1. /\ pc' \in [Procs -> PCs] /\ job' \in [Procs -> Job]
      /\ pc'[p] = l /\ job'[p] = j
      /\ \A q \in Procs : q # p => pc'[q] = pc[q] /\ job'[q] = job[q]
  BY DEF Goes, TypeInv, StoreOK, FreeLocks, ControlOK
<1>2. ASSUME NEW q \in Procs PROVE JobFits(pc'[q], job'[q])
  <2>1. JobFits(pc[q], job[q])
    BY DEF TypeInv, ControlOK
  <2> QED BY <1>1, <2>1
<1> QED BY <1>1, <1>2

LEMMA FinishTyped ==
  ASSUME TypeInv, NEW p \in Procs, Finish(p)
  PROVE  /\ Goes(p, "idle", NoJob) /\ FreeLocks'
         /\ lock' = (IF lock = p THEN None ELSE lock)
         /\ exclusive' = (IF exclusive = p THEN None ELSE exclusive)
         /\ leases' = leases \ {p}
  BY DEF Finish, Release, Go, SetJob, Goes, FreeLocks, TypeInv, StoreOK, ControlOK

LEMMA ContinueTyped ==
  ASSUME TypeInv, NEW p \in Procs, NEW l, NEW j, Continue(p, l, j)
  PROVE  Goes(p, l, j) /\ FreeLocks' /\ lock' = lock /\ exclusive' = exclusive /\ leases' = leases
  BY DEF Continue, locks, Go, SetJob, Goes, FreeLocks, TypeInv, StoreOK, ControlOK

\* What comes of the operations that return to different places.
LEMMA ActivatedGoes ==
  ASSUME TypeInv, NEW p \in Procs, Activated(p)
  PROVE  \/ Finish(p) /\ job[p].op # "launch"
         \/ \E j \in Job : /\ Continue(p, "probe", j) /\ JobFits("probe", j)
                           /\ job[p].op = "launch" /\ j.op = "launch" /\ j.phase = "session"
                           /\ j.config = job[p].config
<1>1. CASE job[p].op # "launch"
  BY <1>1 DEF Activated
<1>2. CASE job[p].op = "launch"
  <2> DEFINE j == [job[p] EXCEPT !.phase = "session", !.ver = None, !.prev = None,
                                 !.child = None, !.seen = None]
  <2>1. Continue(p, "probe", j)
    BY <1>2 DEF Activated
  <2>2. job[p] \in Job
    BY DEF TypeInv, StoreOK, FreeLocks, ControlOK
  <2>3. j \in Job /\ j.op = "launch" /\ j.phase = "session" /\ j.config = job[p].config
        /\ j.child = None /\ j.seen = None
    BY <1>2, <2>2 DEF Job, Phases, VersionOrNone
  <2> HIDE DEF j
  <2>4. JobFits("probe", j)
    BY <2>3 DEF JobFits, Preparing, Stops, Staging, Switching, Ensuring, Served, Spawned, Joining
  <2> QED BY <1>2, <2>1, <2>3, <2>4
<1> QED BY <1>1, <1>2

LEMMA ChildGone ==
  ASSUME NEW i \in Job, NEW j, j = [i EXCEPT !.child = None]
  PROVE  /\ j \in Job /\ j.op = i.op /\ j.inside = i.inside /\ j.ver = i.ver
         /\ j.config = i.config /\ j.prev = i.prev /\ j.phase = i.phase
         /\ j.child = None /\ j.bin = i.bin /\ j.seen = i.seen
  BY DEF Job

LEMMA RunningGoes ==
  ASSUME TypeInv, NEW p \in Procs, pc[p] \in Ensuring, NEW d \in Daemons, Running(p, d)
  PROVE  \/ \E j \in Job : /\ Continue(p, "downgrade", j) /\ JobFits("downgrade", j)
                           /\ job[p].phase = "session" /\ j.op = job[p].op /\ j.seen = d
                           /\ j.config = job[p].config /\ j.phase = "session"
         \/ \E j \in Job : /\ Continue(p, "clear", j) /\ JobFits("clear", j)
                           /\ job[p].phase = "activated" /\ j.phase = "activated"
                           /\ j.op = job[p].op /\ j.ver = job[p].ver
                           /\ j.config = job[p].config /\ j.prev = job[p].prev
         \/ job[p].phase = "restored" /\ Activated(p)
<1>1. job[p] \in Job /\ job[p].op \in Joining /\ job[p].phase \in Phases /\ job[p].seen = None
  BY DEF TypeInv, StoreOK, FreeLocks, ControlOK, JobFits, Ensuring, Served, Job
<1>2. CASE job[p].phase = "session"
  <2> DEFINE j == [job[p] EXCEPT !.seen = d, !.child = None]
  <2>1. Continue(p, "downgrade", j)
    BY <1>2 DEF Running
  <2>2. j \in Job /\ j.op = job[p].op /\ j.seen = d /\ j.child = None /\ j.phase = "session"
        /\ j.config = job[p].config
    BY <1>1, <1>2 DEF Job
  <2> HIDE DEF j
  <2>3. JobFits("downgrade", j)
    BY <1>1, <2>2 DEF JobFits, Preparing, Stops, Staging, Switching, Ensuring, Served, Spawned
  <2> QED BY <1>2, <2>1, <2>2, <2>3
<1>3. CASE job[p].phase = "activated"
  <2> DEFINE j == [job[p] EXCEPT !.child = None]
  <2>1. Continue(p, "clear", j)
    BY <1>3 DEF Running
  <2> HIDE DEF j
  <2>2. j = [job[p] EXCEPT !.child = None]
    BY DEF j
  <2>3. JobFits("clear", j)
    BY <1>1, <2>2, ChildGone
    DEF JobFits, Preparing, Stops, Staging, Switching, Ensuring, Served, Spawned
  <2> QED BY <1>1, <1>3, <2>1, <2>2, <2>3, ChildGone
<1>4. CASE job[p].phase = "restored"
  BY <1>4 DEF Running
<1> QED BY <1>1, <1>2, <1>3, <1>4 DEF Phases

LEMMA NotRunningGoes ==
  ASSUME TypeInv, NEW p \in Procs, pc[p] \in Ensuring, NotRunning(p)
  PROVE  \/ job[p].phase = "session" /\ Finish(p)
         \/ \E j \in Job : /\ Continue(p, "back", j) /\ JobFits("back", j)
                           /\ job[p].phase = "activated" /\ j.phase = "activated"
                           /\ j.op = job[p].op /\ j.ver = job[p].ver
                           /\ j.config = job[p].config /\ j.prev = job[p].prev
                           /\ j.prev # None
         \/ /\ \/ job[p].phase = "restored"
               \/ job[p].phase = "activated" /\ job[p].prev = None
            /\ Activated(p)
<1>1. job[p] \in Job /\ job[p].op \in Joining /\ job[p].phase \in Phases /\ job[p].seen = None
  BY DEF TypeInv, StoreOK, FreeLocks, ControlOK, JobFits, Ensuring, Served, Job
<1>2. CASE job[p].phase = "session"
  BY <1>2 DEF NotRunning
<1>3. CASE job[p].phase = "activated" /\ job[p].prev # None
  <2> DEFINE j == [job[p] EXCEPT !.child = None]
  <2>1. Continue(p, "back", j)
    BY <1>3 DEF NotRunning
  <2> HIDE DEF j
  <2>2. j = [job[p] EXCEPT !.child = None]
    BY DEF j
  <2>3. JobFits("back", j)
    BY <1>1, <2>2, ChildGone
    DEF JobFits, Preparing, Stops, Staging, Switching, Ensuring, Served, Spawned
  <2>4. /\ j \in Job /\ j.phase = "activated" /\ j.op = job[p].op /\ j.ver = job[p].ver
        /\ j.config = job[p].config /\ j.prev = job[p].prev
    BY <1>1, <1>3, <2>2, ChildGone
  <2> QED BY <1>3, <2>1, <2>3, <2>4
<1>4. CASE job[p].phase = "restored"
  BY <1>4 DEF NotRunning
<1>5. CASE job[p].phase = "activated" /\ job[p].prev = None
  <2>1. Activated(p)
    BY <1>5 DEF NotRunning
  <2> QED BY <1>5, <2>1
<1> QED BY <1>1, <1>2, <1>3, <1>4, <1>5 DEF Phases

LEMMA StoppedGoes ==
  ASSUME TypeInv, NEW p \in Procs, pc[p] \in Stops, Stopped(p)
  PROVE  \/ Finish(p)
         \/ \E j \in Job : /\ Continue(p, "switch", j) /\ JobFits("switch", j)
                           /\ job[p].op \in Joining /\ j.op = job[p].op /\ j.ver = job[p].ver
                           /\ j.config = job[p].config /\ j.prev = job[p].prev
<1>1. job[p] \in Job /\ job[p].op \in OpNames
      /\ (job[p].op \in Joining => job[p].ver \in Versions)
      /\ job[p].phase = "session" /\ job[p].child = None
  BY DEF TypeInv, StoreOK, FreeLocks, ControlOK, JobFits, Ensuring, Stops, Spawned
<1>2. CASE job[p].op \in {"stop", "uninstall"}
  BY <1>2 DEF Stopped
<1>3. CASE job[p].op \notin {"stop", "uninstall"}
  <2> DEFINE j == [job[p] EXCEPT !.seen = None]
  <2>1. Continue(p, "switch", j)
    BY <1>3 DEF Stopped
  <2>2. j \in Job /\ j.op = job[p].op /\ j.ver = job[p].ver /\ j.config = job[p].config
        /\ j.prev = job[p].prev /\ j.phase = "session" /\ j.seen = None /\ j.child = None
    BY <1>1 DEF Job
  <2>3. job[p].op \in Joining
    BY <1>1, <1>3 DEF OpNames, Joining
  <2> HIDE DEF j
  <2>4. JobFits("switch", j)
    BY <1>1, <2>2, <2>3
    DEF JobFits, Preparing, Stops, Staging, Switching, Ensuring, Served, Spawned
  <2> QED BY <2>1, <2>2, <2>3, <2>4
<1> QED BY <1>2, <1>3

LEMMA NotStoppedGoes ==
  ASSUME TypeInv, NEW p \in Procs, NotStopped(p)
  PROVE  Finish(p) \/ Activated(p)
  BY DEF NotStopped

-----------------------------------------------------------------------------
(* Every step keeps the types.                                              *)

LEMMA TypeFinish ==
  ASSUME TypeInv, NEW p \in Procs, Finish(p)
  PROVE  FreeLocks' /\ ControlOK'
<1>1. Goes(p, "idle", NoJob) /\ FreeLocks'
  BY FinishTyped
<1>2. "idle" \in PCs
  BY DEF PCs
<1> QED BY <1>1, <1>2, NoJobFits, GoesTyped DEF ControlOK

LEMMA TypeContinue ==
  ASSUME TypeInv, NEW p \in Procs, NEW l \in PCs, NEW j \in Job, JobFits(l, j),
         Continue(p, l, j)
  PROVE  FreeLocks' /\ ControlOK'
  BY ContinueTyped, GoesTyped DEF ControlOK

LEMMA TypeActivated ==
  ASSUME TypeInv, NEW p \in Procs, Activated(p)
  PROVE  FreeLocks' /\ ControlOK'
<1>1. "probe" \in PCs
  BY DEF PCs, Ensuring
<1> QED BY <1>1, ActivatedGoes, TypeFinish, TypeContinue

LEMMA TypeRunning ==
  ASSUME TypeInv, NEW p \in Procs, pc[p] \in Ensuring,
         NotRunning(p) \/ \E d \in Daemons : Running(p, d)
  PROVE  FreeLocks' /\ ControlOK'
<1>1. {"downgrade", "clear", "back"} \subseteq PCs
  BY DEF PCs, Replacing
<1>2. CASE NotRunning(p)
  BY <1>1, <1>2, NotRunningGoes, TypeFinish, TypeContinue, TypeActivated
<1>3. CASE \E d \in Daemons : Running(p, d)
  BY <1>1, <1>3, RunningGoes, TypeContinue, TypeActivated
<1> QED BY <1>2, <1>3

LEMMA TypeStopped ==
  ASSUME TypeInv, NEW p \in Procs, (Stopped(p) /\ pc[p] \in Stops) \/ NotStopped(p)
  PROVE  FreeLocks' /\ ControlOK'
<1>1. "switch" \in PCs
  BY DEF PCs, Replacing
<1>2. CASE Stopped(p) /\ pc[p] \in Stops
  BY <1>1, <1>2, StoppedGoes, TypeFinish, TypeContinue
<1>3. CASE NotStopped(p)
  BY <1>3, NotStoppedGoes, TypeFinish, TypeActivated
<1> QED BY <1>2, <1>3

LEMMA TypeMove ==
  ASSUME TypeInv, NEW p \in Procs, NEW l \in PCs, NEW j \in Job, JobFits(l, j),
         Goes(p, l, j) \/ (Go(p, l) /\ SetJob(p, j))
  PROVE  ControlOK'
  BY GoesTyped DEF ControlOK, Goes, Go, SetJob

LEMMA TypeStay ==
  ASSUME TypeInv, NEW p \in Procs, NEW l \in PCs, JobFits(l, job[p]),
         Go(p, l), UNCHANGED job
  PROVE  ControlOK' /\ Goes(p, l, job[p])
<1>1. Goes(p, l, job[p]) /\ job[p] \in Job
  BY DEF Go, Goes, TypeInv, StoreOK, FreeLocks, ControlOK
<1> QED BY <1>1, TypeMove

\* Where a fresh command stands.
LEMMA EntryFits ==
  ASSUME NEW j \in Job, j.op \in OpNames, j.op = "update" => j.ver \in Versions,
         j.seen = None, j.child = None, j.phase = "session"
  PROVE  JobFits(Entry[j.op], j) /\ Entry[j.op] \in {"prepare", "lock", "stop"}
<1>1. j.op \in {"launch", "update", "stop", "uninstall"}
  BY DEF OpNames
<1> USE DEF JobFits, Preparing, Stops, Staging, Switching, Ensuring, Served, Spawned, Joining, Entry
<1>2. CASE j.op = "launch"
  BY <1>2
<1>3. CASE j.op = "update"
  BY <1>3
<1>4. CASE j.op = "stop"
  BY <1>4
<1>5. CASE j.op = "uninstall"
  BY <1>5 DEF OpNames
<1> QED BY <1>1, <1>2, <1>3, <1>4, <1>5

LEMMA StartGoes ==
  ASSUME TypeInv, NEW p \in Procs, Start(p)
  PROVE  \E j \in Job : /\ Goes(p, Entry[j.op], j) /\ JobFits(Entry[j.op], j)
                        /\ j.op \in OpNames /\ Entry[j.op] \in {"prepare", "lock", "stop"}
                        /\ (Entry[j.op] = "stop" => j.op = "uninstall")
<1>1. PICK o \in Ops[p] :
        \E v \in IF o = "update" THEN Versions ELSE {None} :
        \E i \in IF o = "update" THEN BOOLEAN ELSE {FALSE} :
          /\ SetJob(p, [NoJob EXCEPT !.op = o, !.ver = v, !.inside = i, !.config = config])
          /\ Go(p, Entry[o])
  BY DEF Start
<1>2. PICK v \in IF o = "update" THEN Versions ELSE {None} :
        \E i \in IF o = "update" THEN BOOLEAN ELSE {FALSE} :
          /\ SetJob(p, [NoJob EXCEPT !.op = o, !.ver = v, !.inside = i, !.config = config])
          /\ Go(p, Entry[o])
  BY <1>1
<1>3. PICK i \in IF o = "update" THEN BOOLEAN ELSE {FALSE} :
          /\ SetJob(p, [NoJob EXCEPT !.op = o, !.ver = v, !.inside = i, !.config = config])
          /\ Go(p, Entry[o])
  BY <1>2
<1> DEFINE j == [NoJob EXCEPT !.op = o, !.ver = v, !.inside = i, !.config = config]
<1>4. o \in OpNames
  BY Constants
<1>5. config \in Config
  BY DEF TypeInv, StoreOK, FreeLocks, ControlOK
<1>6. i \in BOOLEAN /\ v \in VersionOrNone /\ (o = "update" => v \in Versions)
  BY DEF VersionOrNone
<1>7. j \in Job /\ j.op = o /\ j.ver = v /\ j.seen = None /\ j.child = None
      /\ j.phase = "session"
  BY <1>4, <1>5, <1>6, NoJobFits DEF Job
<1>8. Goes(p, Entry[o], j)
  BY <1>3 DEF Go, SetJob, Goes
<1>9. Entry[o] = "stop" => o = "uninstall"
  BY <1>4 DEF OpNames, Entry
<1> HIDE DEF j
<1> QED BY <1>4, <1>6, <1>7, <1>8, <1>9, EntryFits

LEMMA TypeStart ==
  ASSUME TypeInv, NEW p \in Procs, Start(p)
  PROVE  TypeInv'
<1>1. ControlOK'
  BY StartGoes, TypeMove DEF PCs, Preparing, Replacing
<1>2. StoreOK' /\ FreeLocks'
  BY Constants DEF Start, TypeInv, StoreOK, FreeLocks, ControlOK, disk, world, locks, history
<1> QED BY <1>1, <1>2 DEF TypeInv

\* An automatic update is prepared, an update staged.
LEMMA TypePrepare ==
  ASSUME TypeInv, NEW p \in Procs, ReadBase(p) \/ TryLock(p) \/ Decide(p)
  PROVE  TypeInv'
<1>0. StoreOK' /\ (FreeLocks' \/ Decide(p))
  BY DEF ReadBase, TryLock, Decide, TypeInv, StoreOK, FreeLocks, ControlOK,
         disk, world, locks, counters, history
<1>1. job[p] \in Job /\ JobFits(pc[p], job[p]) /\ current \in VersionOrNone
  BY DEF TypeInv, StoreOK, FreeLocks, ControlOK
<1>2. {"tryLock", "lock", "decide", "stage"} \subseteq PCs
  BY DEF PCs, Preparing, Staging
<1> USE DEF JobFits, Preparing, Stops, Staging, Switching, Ensuring, Served, Spawned, Joining
<1>3. CASE ReadBase(p)
  <2> DEFINE b == IF job[p].config.auto /\ job[p].config.pin = None /\ current \in installed
                  THEN current ELSE None
             l == IF job[p].config.auto /\ job[p].config.pin = None /\ current \in installed
                  THEN "tryLock" ELSE "lock"
             j == [job[p] EXCEPT !.base = b]
  <2>1. b \in VersionOrNone /\ l \in {"tryLock", "lock"}
    BY <1>1 DEF VersionOrNone
  <2>2. Go(p, l) /\ SetJob(p, j) /\ pc[p] = "prepare"
    BY <1>3 DEF ReadBase
  <2> HIDE DEF b, l
  <2>3. j \in Job /\ j.op = "launch" /\ j.seen = None /\ j.child = None /\ j.phase = "session"
    BY <1>1, <2>1, <2>2 DEF Job
  <2> HIDE DEF j
  <2>4. JobFits(l, j)
    BY <2>1, <2>3
  <2> QED BY <1>0, <1>2, <1>3, <2>1, <2>2, <2>3, <2>4, TypeMove DEF TypeInv, ReadBase, Decide
<1>4. CASE TryLock(p)
  <2>1. PICK l \in {"decide", "lock"} : Go(p, l)
    BY <1>4 DEF TryLock
  <2>2. JobFits(l, job[p])
    BY <1>1, <1>4 DEF TryLock
  <2> QED BY <1>0, <1>2, <1>4, <2>1, <2>2, TypeStay DEF TypeInv, TryLock, Decide
<1>5. CASE Decide(p)
  <2>1. CASE \E latest \in Versions : Continue(p, "stage", [job[p] EXCEPT !.ver = latest])
    <3>1. PICK latest \in Versions : Continue(p, "stage", [job[p] EXCEPT !.ver = latest])
      BY <2>1
    <3> DEFINE j == [job[p] EXCEPT !.ver = latest]
    <3>2. j \in Job /\ j.op = "launch" /\ j.ver \in Versions /\ j.seen = None /\ j.child = None
          /\ j.phase = "session"
      BY <1>1, <1>5 DEF Job, VersionOrNone, Decide
    <3> HIDE DEF j
    <3>3. JobFits("stage", j) /\ Continue(p, "stage", j)
      BY <3>1, <3>2 DEF j
    <3> QED BY <1>0, <1>2, <3>2, <3>3, TypeContinue DEF TypeInv
  <2>2. CASE Go(p, "lock") /\ UNCHANGED job /\ Release(p)
    <3>1. JobFits("lock", job[p])
      BY <1>1, <1>5 DEF Decide
    <3>2. FreeLocks'
      BY <2>2 DEF TypeInv, StoreOK, FreeLocks, ControlOK, Release
    <3> QED BY <1>0, <1>2, <2>2, <3>1, <3>2, TypeStay DEF TypeInv
  <2> QED BY <1>5, <2>1, <2>2 DEF Decide
<1> QED BY <1>3, <1>4, <1>5

\* An update is staged.
LEMMA TypeStaging ==
  ASSUME TypeInv, NEW p \in Procs, Install(p) \/ Mark(p)
  PROVE  TypeInv'
<1>0. /\ job[p] \in Job /\ JobFits(pc[p], job[p]) /\ pc[p] \in Staging
      /\ job[p].op \in Joining /\ job[p].ver \in Versions
      /\ job[p].seen = None /\ job[p].child = None /\ job[p].phase = "session"
  BY DEF TypeInv, StoreOK, FreeLocks, ControlOK, Install, Mark, JobFits, Staging, Served,
     Spawned, Ensuring
<1>1. StoreOK'
  <2>1. CASE Install(p)
    BY <1>0, <2>1 DEF Install, TypeInv, StoreOK, world, counters, history
  <2>2. CASE Mark(p)
    <3>1. PICK v \in BOOLEAN :
            pending' = [ver |-> job[p].ver, auto |-> job[p].op = "launch", vouched |-> v]
      BY <2>2 DEF Mark
    <3>2. pending' \in Pending
      BY <1>0, <3>1 DEF Pending
    <3> QED BY <2>2, <3>2 DEF Mark, TypeInv, StoreOK, world, counters, history
  <2> QED BY <2>1, <2>2
<1>2. {"lock", "mark", "join", "idle"} \subseteq PCs
  BY DEF PCs, Staging
<1>3. JobFits("mark", job[p]) /\ JobFits("join", job[p])
      /\ JobFits("lock", job[p])
  BY <1>0 DEF JobFits, Preparing, Stops, Staging, Switching, Ensuring, Served, Spawned, Joining
<1>4. CASE Finish(p)
  BY <1>1, <1>4, TypeFinish DEF TypeInv
<1>5. CASE Go(p, "lock") /\ UNCHANGED job /\ Release(p)
  <2>1. FreeLocks'
    BY <1>5 DEF TypeInv, Release, FreeLocks
  <2> QED BY <1>1, <1>2, <1>3, <1>5, <2>1, TypeStay DEF TypeInv
<1>6. CASE Continue(p, "mark", job[p])
  BY <1>0, <1>1, <1>2, <1>3, <1>6, TypeContinue DEF TypeInv
<1>7. CASE Continue(p, "join", [job[p] EXCEPT !.config = config])
  <2> DEFINE j == [job[p] EXCEPT !.config = config]
  <2>1. config \in Config
    BY DEF TypeInv, StoreOK
  <2>2. j \in Job /\ j.op = job[p].op /\ j.seen = None /\ j.child = None /\ j.phase = "session"
    BY <1>0, <2>1 DEF Job
  <2>3. Continue(p, "join", j)
    BY <1>7
  <2> HIDE DEF j
  <2>4. JobFits("join", j)
    BY <1>0, <2>2 DEF JobFits, Preparing, Stops, Staging, Switching,
         Ensuring, Served, Spawned, Joining
  <2> QED BY <1>1, <1>2, <2>2, <2>3, <2>4, TypeContinue DEF TypeInv
<1> QED BY <1>4, <1>5, <1>6, <1>7 DEF Install, Mark

\* The locks are taken and given back.
LEMMA TypeLocks ==
  ASSUME TypeInv, NEW p \in Procs, Acquire(p) \/ Join(p) \/ Downgrade(p) \/ Unlock(p)
                                     \/ SessionEnds(p)
  PROVE  TypeInv'
<1>0. job[p] \in Job /\ JobFits(pc[p], job[p])
  BY DEF TypeInv, ControlOK
<1>1. StoreOK'
  BY DEF Acquire, Join, Downgrade, Unlock, SessionEnds, TypeInv, StoreOK,
     disk, world, counters, history
<1>2. {"join", "stage", "stop", "check", "probe", "unlock", "session", "idle"} \subseteq PCs
  BY DEF PCs, Staging, Replacing, Ensuring
<1>3. CASE Acquire(p)
  <2>1. FreeLocks'
    BY <1>3 DEF Acquire, TypeInv, FreeLocks
  <2>2. JobFits("lock", job[p])
    BY <1>0, <1>3 DEF Acquire
  <2>3. job[p].op \in Joining \cup {"stop"} /\ job[p].seen = None /\ job[p].child = None
        /\ job[p].phase = "session" /\ (job[p].op = "update" => job[p].ver \in Versions)
    BY <2>2 DEF JobFits, Served, Spawned, Ensuring
  <2> DEFINE l == FirstLocked[job[p].op]
  <2>4. l \in {"join", "stage", "stop"} /\ JobFits(l, job[p])
    BY <2>3 DEF JobFits, Preparing, Stops, Staging, Switching, Ensuring, Served, Spawned,
       Joining, FirstLocked, OpNames
  <2>5. Go(p, l) /\ UNCHANGED job
    BY <1>3 DEF Acquire
  <2> HIDE DEF l
  <2> QED BY <1>1, <1>2, <2>1, <2>4, <2>5, TypeStay DEF TypeInv
<1>4. CASE Join(p)
  <2>0. /\ pc[p] = "join" /\ job[p].op \in Joining /\ job[p].seen = None /\ job[p].child = None
        /\ job[p].phase = "session"
    BY <1>0, <1>4 DEF Join, JobFits, Served, Spawned, Ensuring
  <2>1. CASE Finish(p)
    BY <1>1, <2>1, TypeFinish DEF TypeInv
  <2>2. CASE /\ exclusive' = p /\ Go(p, "check") /\ UNCHANGED <<lock, leases, job>>
    <3>1. JobFits("check", job[p])
      BY <2>0 DEF JobFits, Preparing, Stops, Staging, Switching, Ensuring, Served, Spawned
    <3>2. FreeLocks'
      BY <2>2 DEF TypeInv, FreeLocks
    <3> QED BY <1>1, <1>2, <2>2, <3>1, <3>2, TypeStay DEF TypeInv
  <2>3. CASE /\ leases' = leases \cup {p} /\ Go(p, "probe")
             /\ SetJob(p, [job[p] EXCEPT !.phase = "session"]) /\ UNCHANGED <<lock, exclusive>>
    <3> DEFINE j == [job[p] EXCEPT !.phase = "session"]
    <3>1. j = job[p]
      BY <1>0, <2>0 DEF Job
    <3>2. JobFits("probe", job[p])
      BY <2>0 DEF JobFits, Preparing, Stops, Staging, Switching, Ensuring, Served, Spawned
    <3>3. FreeLocks'
      BY <2>3 DEF TypeInv, FreeLocks
    <3>4. SetJob(p, job[p])
      BY <2>3, <3>1
    <3> QED BY <1>0, <1>1, <1>2, <2>3, <3>2, <3>3, <3>4, TypeMove DEF TypeInv
  <2> QED BY <1>4, <2>1, <2>2, <2>3 DEF Join
<1>5. CASE Downgrade(p)
  <2>1. FreeLocks' /\ Go(p, "unlock") /\ UNCHANGED job /\ pc[p] = "downgrade"
    BY <1>5 DEF Downgrade, TypeInv, FreeLocks
  <2>2. JobFits("unlock", job[p])
    BY <1>0, <2>1 DEF JobFits, Preparing, Stops, Staging, Switching, Ensuring, Served, Spawned
  <2> QED BY <1>1, <1>2, <2>1, <2>2, TypeStay DEF TypeInv
<1>6. CASE Unlock(p)
  <2> DEFINE j == [NoJob EXCEPT !.op = "launch"]
  <2>1. FreeLocks' /\ Go(p, "session") /\ SetJob(p, j)
    BY <1>6 DEF Unlock, TypeInv, FreeLocks
  <2>2. j \in Job /\ j.seen = None /\ j.child = None /\ j.phase = "session"
    BY NoJobFits DEF Job, OpNames
  <2> HIDE DEF j
  <2>3. JobFits("session", j)
    BY <2>2 DEF JobFits, Preparing, Stops, Staging, Switching, Ensuring, Served, Spawned
  <2> QED BY <1>1, <1>2, <2>1, <2>2, <2>3, TypeMove DEF TypeInv
<1>7. CASE SessionEnds(p)
  BY <1>1, <1>7, TypeFinish DEF SessionEnds, TypeInv
<1> QED BY <1>3, <1>4, <1>5, <1>6, <1>7

\* The staged update is activated.
LEMMA TypeSwitching ==
  ASSUME TypeInv, NEW p \in Procs,
         Check(p) \/ Identify(p) \/ CannotVerify(p) \/ Switch(p) \/ ClearPending(p)
           \/ SwitchBack(p)
  PROVE  TypeInv'
<1>0. /\ job[p] \in Job /\ JobFits(pc[p], job[p]) /\ pc[p] \in Switching
      /\ job[p].op \in Joining /\ job[p].seen = None /\ job[p].child = None
  BY DEF TypeInv, ControlOK, Check, Identify, CannotVerify, Switch, ClearPending, SwitchBack,
     JobFits, Switching, Served, Spawned
<1>1. /\ job[p].ver \in VersionOrNone /\ job[p].prev \in VersionOrNone
      /\ current \in VersionOrNone /\ pending \in Pending \cup {None}
  BY <1>0, JobFields DEF TypeInv, StoreOK
<1>2. StoreOK'
  <2>1. CASE CannotVerify(p)
    BY <2>1, Constants DEF CannotVerify, Fault, TypeInv, StoreOK, disk, world
  <2> QED BY <1>1, <2>1 DEF Check, Identify, Switch, ClearPending, SwitchBack,
               TypeInv, StoreOK, world, counters, history
<1>3. {"identify", "switch", "stop", "probe"} \subseteq PCs
  BY DEF PCs, Replacing, Ensuring
<1>4. CASE Activated(p)
  BY <1>2, <1>4, TypeActivated DEF TypeInv
<1>5. CASE Check(p) /\ ~ Activated(p)
  <2> DEFINE j == [job[p] EXCEPT !.ver = pending.ver, !.prev = current]
  <2>1. pending # None /\ Continue(p, "identify", j) /\ job[p].phase = "session"
    BY <1>0, <1>5 DEF Check, JobFits, Ensuring
  <2>2. pending.ver \in Versions
    BY <1>1, <2>1 DEF Pending
  <2>3. j \in Job /\ j.op = job[p].op /\ j.ver \in Versions /\ j.seen = None
        /\ j.child = None /\ j.phase = "session"
    BY <1>0, <1>1, <2>1, <2>2 DEF Job, VersionOrNone
  <2> HIDE DEF j
  <2>4. JobFits("identify", j)
    BY <1>0, <2>3 DEF JobFits, Preparing, Stops, Staging, Switching, Ensuring, Served, Spawned
  <2> QED BY <1>2, <1>3, <2>1, <2>3, <2>4, TypeContinue DEF TypeInv
<1>6. CASE (Identify(p) \/ CannotVerify(p)) /\ ~ Activated(p)
  <2>1. PICK l \in {"switch", "stop"} : Continue(p, l, job[p])
    BY <1>6 DEF Identify, CannotVerify
  <2>2. pc[p] = "identify"
    BY <1>6 DEF Identify, CannotVerify
  <2>3. job[p].ver \in Versions /\ job[p].phase = "session" /\ job[p].op \in OpNames
    BY <1>0, <2>2 DEF JobFits, Joining, OpNames, Ensuring
  <2>4. JobFits(l, job[p])
    BY <1>0, <2>1, <2>3
    DEF JobFits, Preparing, Stops, Staging, Switching, Ensuring, Served, Spawned
  <2> QED BY <1>0, <1>2, <1>3, <2>1, <2>4, TypeContinue DEF TypeInv
<1>7. ASSUME NEW f \in {"activated", "restored"},
             Continue(p, "probe", [job[p] EXCEPT !.phase = f])
      PROVE  TypeInv'
  <2> DEFINE j == [job[p] EXCEPT !.phase = f]
  <2>1. Continue(p, "probe", j)
    BY <1>7
  <2>2. j \in Job /\ j.op = job[p].op /\ j.seen = None /\ j.child = None
    BY <1>0 DEF Job, Phases
  <2> HIDE DEF j
  <2>3. JobFits("probe", j)
    BY <1>0, <2>2 DEF JobFits, Preparing, Stops, Staging, Switching, Ensuring, Served, Spawned
  <2> QED BY <1>2, <1>3, <2>1, <2>2, <2>3, TypeContinue DEF TypeInv
<1> QED BY <1>4, <1>5, <1>6, <1>7 DEF Switch, SwitchBack, ClearPending

LEMMA FaultTyped ==
  ASSUME TypeInv, Fault
  PROVE  started' \in 0..MaxOps /\ faults' \in 0..MaxFaults
  BY Constants DEF Fault, TypeInv, StoreOK

\* The proxy is stopped.
LEMMA TypeStopping ==
  ASSUME TypeInv, NEW p \in Procs,
         Signal(p) \/ CannotIdentify(p) \/ AwaitExit(p) \/ ExitTimesOut(p) \/ Unlink(p)
  PROVE  TypeInv'
<1>0. /\ job[p] \in Job /\ JobFits(pc[p], job[p]) /\ pc[p] \in Stops
      /\ job[p].op \in OpNames /\ job[p].child = None /\ job[p].phase = "session"
      /\ (job[p].op \in Joining => job[p].ver \in Versions)
      /\ (pc[p] # "stop" => job[p].seen \in Daemons)
  BY DEF TypeInv, ControlOK, Signal, CannotIdentify, AwaitExit, ExitTimesOut, Unlink,
     JobFits, Stops, Spawned, Ensuring
<1>1. pidfile # None => pidfile \in Record /\ pidfile.pid \in Daemons
  BY DEF TypeInv, StoreOK, Record
<1>2. StoreOK'
  <2>1. CASE Signal(p)
    <3>1. daemon' \in [Daemons -> [state : {"gone", "alive", "stopping"},
                                    bin : Binaries \cup {None}]]
      BY <1>1, <2>1 DEF Signal, TypeInv, StoreOK
    <3>2. excused' \subseteq Daemons
      BY <1>1, <2>1 DEF Signal, TypeInv, StoreOK
    <3> QED BY <2>1, <3>1, <3>2 DEF Signal, TypeInv, StoreOK, disk, counters
  <2>2. CASE CannotIdentify(p) \/ ExitTimesOut(p)
    <3>1. excused' \subseteq Daemons
      BY <1>0, <2>2 DEF CannotIdentify, ExitTimesOut, history, TypeInv, StoreOK
    <3>2. started' \in 0..MaxOps /\ faults' \in 0..MaxFaults
      BY <2>2, FaultTyped DEF CannotIdentify, ExitTimesOut
    <3> QED BY <2>2, <3>1, <3>2
            DEF CannotIdentify, ExitTimesOut, TypeInv, StoreOK, disk, world, history
  <2>3. CASE AwaitExit(p)
    BY <2>3 DEF AwaitExit, TypeInv, StoreOK, disk, world, counters, history
  <2>4. CASE Unlink(p)
    <3>1. excused' \subseteq Daemons
      BY <1>1, <2>4 DEF Unlink, TypeInv, StoreOK
    <3> QED BY <2>4, <3>1 DEF Unlink, TypeInv, StoreOK, world, counters
  <2> QED BY <2>1, <2>2, <2>3, <2>4
<1>3. {"dying", "unlink"} \subseteq PCs
  BY DEF PCs, Replacing
<1>4. CASE Stopped(p) \/ NotStopped(p)
  BY <1>0, <1>2, <1>4, TypeStopped DEF TypeInv
<1>5. ASSUME pidfile # None, NEW l \in {"dying", "unlink"},
             Continue(p, l, [job[p] EXCEPT !.seen = pidfile.pid])
      PROVE  TypeInv'
  <2> DEFINE j == [job[p] EXCEPT !.seen = pidfile.pid]
  <2>1. Continue(p, l, j)
    BY <1>5
  <2>2. j \in Job /\ j.op = job[p].op /\ j.ver = job[p].ver /\ j.seen \in Daemons
        /\ j.child = None /\ j.phase = "session"
    BY <1>0, <1>1, <1>5 DEF Job
  <2> HIDE DEF j
  <2>3. JobFits(l, j)
    BY <1>0, <2>2 DEF JobFits, Preparing, Stops, Staging, Switching, Ensuring, Served, Spawned
  <2> QED BY <1>2, <1>3, <2>1, <2>2, <2>3, TypeContinue DEF TypeInv
<1>6. CASE AwaitExit(p)
  <2>1. JobFits("unlink", job[p]) /\ Continue(p, "unlink", job[p])
    BY <1>0, <1>6
    DEF AwaitExit, JobFits, Preparing, Stops, Staging, Switching, Ensuring, Served, Spawned
  <2> QED BY <1>0, <1>2, <1>3, <2>1, TypeContinue DEF TypeInv
<1> QED BY <1>4, <1>5, <1>6 DEF Signal, CannotIdentify, ExitTimesOut, Unlink

LEMMA GoneTyped ==
  ASSUME TypeInv, NEW d \in Daemons, Gone(d)
  PROVE  /\ daemon' \in [Daemons -> [state : {"gone", "alive", "stopping"},
                                     bin : Binaries \cup {None}]]
         /\ port' \in Daemons \cup {Foreign, None}
         /\ port' = (IF port = d THEN None ELSE port)
         /\ daemon'[d].state = "gone" /\ daemon'[d].bin = daemon[d].bin
         /\ \A e \in Daemons : e # d => daemon'[e] = daemon[e]
  BY DEF Gone, TypeInv, StoreOK

\* A version or what is on PATH.
LEMMA ResolveTyped ==
  ASSUME TypeInv, NEW pin \in VersionOrNone, Resolve(pin) # None
  PROVE  /\ Resolve(pin) \in Binaries
         /\ pin # None => Resolve(pin) = pin
         /\ pin = None /\ current \in installed => Resolve(pin) = current
<1>1. installed \subseteq Versions
  BY DEF TypeInv, StoreOK
<1>2. CASE pin # None
  BY <1>1, <1>2 DEF Resolve, Binaries
<1>3. CASE pin = None /\ current \in installed
  BY <1>1, <1>3 DEF Resolve, Binaries
<1>4. CASE pin = None /\ current \notin installed
  BY <1>4 DEF Resolve, Binaries
<1> QED BY <1>2, <1>3, <1>4

LEMMA VerifiedPort ==
  ASSUME TypeInv, Verified
  PROVE  /\ port \in Daemons /\ pidfile # None /\ pidfile.pid = port /\ pidfile \in Record
         /\ Alive(port) /\ port \notin skewed /\ daemon[port].bin \notin Broken
  BY DEF TypeInv, StoreOK, Verified, Matches

\* The proxy is started.
LEMMA TypeEnsuring ==
  ASSUME TypeInv, NEW p \in Procs,
         Probe(p) \/ CannotConfirm(p) \/ Spawn(p) \/ RecordPid(p) \/ ComesUp(p)
           \/ StartFails(p) \/ Reap(p)
  PROVE  TypeInv'
<1>0. /\ job[p] \in Job /\ JobFits(pc[p], job[p]) /\ pc[p] \in Ensuring
      /\ job[p].op \in Joining /\ job[p].seen = None /\ job[p].config.pin \in VersionOrNone
      /\ job[p].bin \in Binaries \cup {None}
      /\ (pc[p] \in Spawned => job[p].child \in Daemons)
      /\ (pc[p] \notin Spawned => job[p].child = None)
  <2>1. job[p] \in Job /\ JobFits(pc[p], job[p]) /\ pc[p] \in Ensuring
    BY DEF TypeInv, ControlOK, Probe, CannotConfirm, Spawn, RecordPid, ComesUp, StartFails,
       Reap, Ensuring
  <2> QED BY <2>1, JobFields, ConfigFields DEF JobFits, Ensuring, Spawned, Served
<1>1. {"spawn", "record", "await", "reap"} \subseteq PCs
  BY DEF PCs, Ensuring
<1> USE DEF JobFits, Preparing, Stops, Staging, Switching, Ensuring, Served, Spawned
<1>2. CASE Probe(p) \/ CannotConfirm(p)
  <2>1. StoreOK'
    BY <1>2, Constants DEF Probe, CannotConfirm, Fault, TypeInv, StoreOK, disk, world, counters,
       history
  <2>2. CASE NotRunning(p) \/ (Verified /\ Running(p, port))
    BY <1>0, <2>1, <2>2, TypeRunning, VerifiedPort DEF TypeInv
  <2>3. CASE ~ NotRunning(p) /\ ~ (Verified /\ Running(p, port))
    <3> DEFINE bin == Resolve(job[p].config.pin)
               j == [job[p] EXCEPT !.bin = bin]
    <3>1. bin # None /\ Continue(p, "spawn", j) /\ pc[p] = "probe"
      BY <1>2, <2>3 DEF Probe, CannotConfirm
    <3>2. bin \in Binaries
      BY <1>0, <3>1, ResolveTyped
    <3> HIDE DEF bin
    <3>3. j \in Job /\ j.op = job[p].op /\ j.seen = None /\ j.child = None
      BY <1>0, <3>1, <3>2 DEF Job
    <3> HIDE DEF j
    <3>4. JobFits("spawn", j)
      BY <1>0, <3>3
    <3> QED BY <1>1, <2>1, <3>1, <3>3, <3>4, TypeContinue DEF TypeInv
  <2> QED BY <2>2, <2>3
<1>3. CASE Spawn(p)
  <2>1. PICK d \in NextPid :
          /\ daemon' = [daemon EXCEPT ![d] = [state |-> "alive", bin |-> job[p].bin]]
          /\ skewed' = skewed \ {d} /\ excused' = excused \ {d}
          /\ Continue(p, "record", [job[p] EXCEPT !.child = d, !.bin = None])
    BY <1>3 DEF Spawn
  <2>2. d \in Daemons
    BY DEF NextPid
  <2>3. StoreOK'
    BY <1>0, <1>3, <2>1, <2>2 DEF Spawn, TypeInv, StoreOK, disk, counters
  <2> DEFINE j == [job[p] EXCEPT !.child = d, !.bin = None]
  <2>4. Continue(p, "record", j)
    BY <2>1
  <2>5. j \in Job /\ j.op = job[p].op /\ j.seen = None /\ j.child = d
    BY <1>0, <2>2 DEF Job
  <2> HIDE DEF j
  <2>6. JobFits("record", j)
    BY <1>0, <2>2, <2>5
  <2> QED BY <1>1, <2>3, <2>4, <2>5, <2>6, TypeContinue DEF TypeInv
<1>4. CASE RecordPid(p)
  <2>1. pidfile' \in Record
    BY <1>0, <1>4 DEF RecordPid, Record
  <2>2. StoreOK'
    BY <1>4, <2>1 DEF RecordPid, TypeInv, StoreOK, world, counters, history
  <2>3. JobFits("await", job[p]) /\ Continue(p, "await", job[p])
    BY <1>0, <1>4 DEF RecordPid
  <2> QED BY <1>0, <1>1, <2>2, <2>3, TypeContinue DEF TypeInv
<1>5. CASE ComesUp(p)
  <2>1. StoreOK'
    BY <1>5 DEF ComesUp, TypeInv, StoreOK, disk, world, counters, history
  <2>2. \E d \in Daemons : Running(p, d)
    BY <1>5, VerifiedPort DEF ComesUp
  <2> QED BY <1>0, <2>1, <2>2, TypeRunning DEF TypeInv
<1>6. CASE StartFails(p)
  <2>1. StoreOK'
    BY <1>6, Constants DEF StartFails, Fault, TypeInv, StoreOK, disk, world, counters, history
  <2>2. JobFits("reap", job[p]) /\ Continue(p, "reap", job[p])
    BY <1>0, <1>6 DEF StartFails
  <2> QED BY <1>0, <1>1, <2>1, <2>2, TypeContinue DEF TypeInv
<1>7. CASE Reap(p)
  <2>1. job[p].child \in Daemons
    BY <1>0, <1>7 DEF Reap
  <2>2. StoreOK'
    BY <1>7, <2>1, GoneTyped DEF Reap, TypeInv, StoreOK, counters, history
  <2> QED BY <1>0, <1>7, <2>2, TypeRunning DEF Reap, TypeInv
<1> QED BY <1>2, <1>3, <1>4, <1>5, <1>6, <1>7

\* The daemons, the clock, the user, and what kills a command.
LEMMA TypeOutside ==
  ASSUME TypeInv,
         \/ EditConfig \/ ClockJumps \/ ForeignListens
         \/ \E d \in Daemons : Bind(d) \/ Exit(d) \/ BrokenExits(d) \/ Crash(d)
  PROVE  TypeInv'
<1>1. UNCHANGED <<locks, pc, job>>
  BY DEF EditConfig, ClockJumps, ForeignListens, Bind, Exit, BrokenExits, Crash
<1>2. FreeLocks' /\ ControlOK'
  BY <1>1 DEF locks, TypeInv, FreeLocks, ControlOK
<1>3. CASE EditConfig
  BY <1>2, <1>3, Constants DEF EditConfig, Fault, TypeInv, StoreOK, world, history
<1>4. CASE ClockJumps
  <2>1. skewed' \subseteq Daemons /\ excused' \subseteq Daemons
    BY <1>4 DEF ClockJumps, TypeInv, StoreOK
  <2>2. started' \in 0..MaxOps /\ faults' \in 0..MaxFaults
    BY <1>4, FaultTyped DEF ClockJumps
  <2> QED BY <1>2, <1>4, <2>1, <2>2 DEF ClockJumps, TypeInv, StoreOK, disk
<1>5. CASE ForeignListens
  BY <1>2, <1>5, Constants DEF ForeignListens, Fault, TypeInv, StoreOK, disk, history, counters
<1>6. ASSUME NEW d \in Daemons, Bind(d) \/ Exit(d) \/ BrokenExits(d) \/ Crash(d)
      PROVE  TypeInv'
  <2>1. /\ daemon' \in [Daemons -> [state : {"gone", "alive", "stopping"},
                                    bin : Binaries \cup {None}]]
        /\ port' \in Daemons \cup {Foreign, None}
    BY <1>6, GoneTyped DEF Bind, Exit, BrokenExits, Crash, TypeInv, StoreOK
  <2>2. started' \in 0..MaxOps /\ faults' \in 0..MaxFaults
    BY <1>6, FaultTyped DEF Bind, Exit, BrokenExits, Crash, counters, TypeInv, StoreOK
  <2>3. excused' \subseteq Daemons /\ torn' = torn /\ skewed' = skewed /\ UNCHANGED disk
    BY <1>6 DEF Bind, Exit, BrokenExits, Crash, history, TypeInv, StoreOK
  <2> QED BY <1>2, <2>1, <2>2, <2>3 DEF TypeInv, StoreOK, disk
<1> QED BY <1>3, <1>4, <1>5, <1>6

LEMMA TypeKill ==
  ASSUME TypeInv, NEW p \in Procs, Kill(p)
  PROVE  TypeInv'
<1>1. JobFits(pc[p], job[p])
  BY DEF TypeInv, ControlOK
<1>2. excused' \subseteq Daemons
  <2>1. CASE pc[p] \in Spawned
    BY <1>1, <2>1 DEF Kill, JobFits, Spawned, TypeInv, StoreOK
  <2>2. CASE pc[p] = "dying"
    BY <1>1, <2>2 DEF Kill, JobFits, TypeInv, StoreOK
  <2>3. CASE pc[p] \notin Spawned \cup {"dying"}
    BY <2>3 DEF Kill, Spawned, TypeInv, StoreOK
  <2> QED BY <2>1, <2>2, <2>3
<1>3. StoreOK'
  <2>1. torn' \in BOOLEAN
    BY DEF Kill, TypeInv, StoreOK
  <2> QED BY <1>2, <2>1, Constants DEF Kill, Fault, TypeInv, StoreOK, disk, world
<1> QED BY <1>3, TypeFinish DEF Kill, TypeInv

LEMMA TypeInit == Init => TypeInv
<1> SUFFICES ASSUME Init PROVE TypeInv
  OBVIOUS
<1>1. current \in VersionOrNone /\ pending \in Pending \cup {None} /\ installed \subseteq Versions
      /\ config \in Config
  BY Constants DEF Init, Pending, VersionOrNone
<1> DEFINE gone == [d \in Daemons |-> [state |-> "gone", bin |-> None]]
<1>2. gone \in [Daemons -> [state : {"gone", "alive", "stopping"}, bin : Binaries \cup {None}]]
  OBVIOUS
<1>3. Resolve(None) \in Binaries \cup {None}
  BY <1>1 DEF Resolve, Binaries
<1>4. /\ pidfile \in Record \cup {None} /\ port \in Daemons \cup {Foreign, None}
      /\ daemon \in [Daemons -> [state : {"gone", "alive", "stopping"}, bin : Binaries \cup {None}]]
  <2> HIDE DEF gone
  <2>1. CASE daemon = gone /\ port = None /\ pidfile = None
    BY <1>2, <2>1
  <2>2. CASE \E d \in Daemons, guarded \in BOOLEAN, listens \in BOOLEAN :
               /\ pidfile = [pid |-> d, guarded |-> guarded]
               /\ IF listens /\ Resolve(None) # None
                  THEN /\ port = d
                       /\ daemon = [gone EXCEPT ![d] = [state |-> "alive", bin |-> Resolve(None)]]
                  ELSE port = None /\ daemon = gone
    BY <1>2, <1>3, <2>2 DEF Record
  <2> QED BY <2>1, <2>2 DEF Init, gone
<1>5. StoreOK
  <2>1. started \in 0..MaxOps /\ faults \in 0..MaxFaults
    BY Constants DEF Init
  <2>2. skewed = {} /\ excused = {} /\ torn = FALSE
    BY DEF Init
  <2> QED BY <1>1, <1>4, <2>1, <2>2 DEF StoreOK
<1>6. ControlOK
  BY NoJobFits DEF Init, ControlOK, PCs
<1> QED BY <1>5, <1>6 DEF Init, TypeInv, FreeLocks

LEMMA TypeNext == TypeInv /\ [Next]_vars => TypeInv'
<1> SUFFICES ASSUME TypeInv, [Next]_vars PROVE TypeInv'
  OBVIOUS
<1>1. CASE UNCHANGED vars
  BY <1>1 DEF vars, disk, world, locks, counters, history, TypeInv, StoreOK, FreeLocks, ControlOK
<1>2. ASSUME NEW p \in Procs, Start(p) \/ Step(p) \/ SessionEnds(p) \/ Fails(p)
      PROVE  TypeInv'
  BY <1>2, TypeStart, TypePrepare, TypeStaging, TypeLocks, TypeSwitching, TypeStopping,
     TypeEnsuring, TypeKill DEF Step, Fails
<1>3. CASE \/ EditConfig \/ ClockJumps \/ ForeignListens
           \/ \E d \in Daemons : Bind(d) \/ Exit(d) \/ BrokenExits(d) \/ Crash(d)
  BY <1>3, TypeOutside
<1> QED BY <1>1, <1>2, <1>3 DEF Next, Serve

LEMMA TypeImplied == TypeInv => TypeOK
  BY DEF TypeInv, StoreOK, FreeLocks, ControlOK, TypeOK

\* What the commands, the daemons and the files hold is of the kind the code takes
\* it for, whatever is killed or fails.
THEOREM ProxyTypeCorrect == Spec => []TypeOK
<1>1. Spec => []TypeInv
  BY TypeInit, TypeNext, PTL DEF Spec
<1> QED BY <1>1, TypeImplied, PTL

-----------------------------------------------------------------------------
(* What a command relies on while it holds the update lock.  Only the       *)
(* uninstall works without it: it can remove the pid record and stop the    *)
(* daemon it names.                                                         *)

Locked == {"decide", "join"} \cup Staging \cup Replacing \cup Ensuring \cup Served

Held(p, l, j) == l \in Locked /\ j.op # "uninstall" => lock = p

\* Who replaces the proxy has the sessions to itself; who starts one, a lease.
Guarded(p, l, j) ==
  /\ l \in {"check", "identify"} \/ (l \in Stops /\ j.op \in Joining) => exclusive = p
  /\ l = "unlock" => p \in leases /\ exclusive # p

LeaseInv == exclusive # None => lock = exclusive /\ leases = {}

\* A daemon nobody has to find.
Lost(d) == ~ Alive(d) \/ d \in excused

Serving(d) ==
  /\ port = d /\ daemon[d].state = "alive" /\ daemon[d].bin \notin Broken
  /\ pidfile # None /\ pidfile.pid = d

\* Whose record is removed is gone, or a fault has come to it.
SeenFits(l, j) == l = "unlink" \/ (l = "dying" /\ j.op = "uninstall") => Lost(j.seen)

\* The pid file, at each step of a replacement.
RecordFits(l, j) ==
  j.op # "uninstall" =>
    /\ l \in {"dying", "unlink"} /\ pidfile # None => pidfile.pid = j.seen
    /\ l = "stop" /\ j.op \in Joining /\ pidfile # None
         => pidfile.guarded \/ (j.op = "update" /\ ~ j.inside)
    /\ l \in {"spawn", "record"} /\ pidfile # None => Lost(pidfile.pid)
    /\ l \in {"await", "reap"} /\ pidfile # None => pidfile.pid = j.child
    /\ l \in Served => j.seen \in excused \/ Serving(j.seen)

\* The proxy it starts, or was served by, is the pinned one.
PinFits(l, j) ==
  j.config.pin # None =>
    /\ l = "spawn" => j.bin = j.config.pin
    /\ l \in Spawned => daemon[j.child].bin = j.config.pin
    /\ l \in Served => daemon[j.seen].bin = j.config.pin

\* It is about to activate the staged update, or has just selected it.
Activating(l, j) ==
  \/ l \in {"identify", "switch", "clear"}
  \/ l \in Stops /\ j.op \in Joining
  \/ l \in Ensuring \cup {"back"} /\ j.phase = "activated"

PendingFits(l, j) ==
  /\ l \in Staging /\ j.op = "launch" /\ pending # None => pending.auto
  /\ Activating(l, j) => pending # None /\ pending.ver = j.ver
  /\ l = "clear" \/ (l \in Ensuring \cup {"back"} /\ j.phase = "activated") => current = j.ver

Keeps(p, l, j) ==
  /\ Held(p, l, j) /\ Guarded(p, l, j) /\ SeenFits(l, j)
  /\ RecordFits(l, j) /\ PinFits(l, j) /\ PendingFits(l, j)

\* Of the daemons no fault has come to: who is stopping is waited for; the one
\* the record names listens, unless it is still awaited; and a record names them
\* all but one that has just been spawned.
Stopping(d) ==
  daemon[d].state = "stopping" /\ d \notin excused
    => \E p \in Procs : pc[p] = "dying" /\ job[p].op # "uninstall" /\ job[p].seen = d

Listening ==
  pidfile # None /\ ~ Lost(pidfile.pid) /\ port # pidfile.pid
    => \E p \in Procs : pc[p] \in {"await", "reap"} /\ job[p].child = pidfile.pid

Named(d) ==
  ~ Lost(d) => \/ pidfile # None /\ pidfile.pid = d
               \/ \E p \in Procs : pc[p] = "record" /\ job[p].child = d

DaemonInv ==
  /\ skewed \subseteq excused
  /\ \A d \in Daemons : Stopping(d) /\ Named(d)
  /\ Listening

ProxyInv == LeaseInv /\ DaemonInv /\ \A p \in Procs : Keeps(p, pc[p], job[p])

\* Nobody but p takes a step.
Only(p) == \A q \in Procs : q # p => pc'[q] = pc[q] /\ job'[q] = job[q]

-----------------------------------------------------------------------------
(* What a step leaves to the others.                                        *)

\* Where nothing is claimed.
Unclaimed == {"idle", "session", "prepare", "tryLock", "lock"}

LEMMA NoClaims ==
  ASSUME NEW p, NEW j, NEW l \in Unclaimed
  PROVE  Keeps(p, l, j) /\ Keeps(p, l, j)'
<1>1. l \notin Locked /\ l \notin Stops
  BY DEF Unclaimed, Locked, Staging, Replacing, Ensuring, Served, Stops
<1>2. l \notin Served /\ l \notin Spawned /\ l \notin Ensuring /\ l \notin Staging
      /\ l \notin {"check", "identify", "unlock", "spawn", "switch", "clear", "back"}
  BY DEF Unclaimed, Staging, Ensuring, Served, Spawned
<1> QED
  BY <1>1, <1>2
  DEF Keeps, Held, Guarded, SeenFits, RecordFits, PinFits, PendingFits, Activating, Stops,
      Spawned, Unclaimed

\* Whoever is not under the lock claims nothing, but what an uninstall has seen.
LEMMA UnlockedClaims ==
  ASSUME NEW p, NEW j, NEW l, JobFits(l, j), ~ (l \in Locked /\ j.op # "uninstall")
  PROVE  /\ SeenFits(l, j) => Keeps(p, l, j)
         /\ SeenFits(l, j)' => Keeps(p, l, j)'
<1>1. CASE l \notin Locked
  BY <1>1
  DEF Keeps, Held, Guarded, SeenFits, RecordFits, PinFits, PendingFits, Activating, Stops,
      Locked, Staging, Replacing, Ensuring, Served, Spawned
<1>2. CASE j.op = "uninstall"
  <2>1. l \notin Served /\ l \notin Ensuring /\ l \notin Staging /\ l \notin Switching
        /\ l # "join" /\ "uninstall" \notin Joining
    BY <1>2 DEF JobFits, Joining
  <2> QED
    BY <1>2, <2>1
    DEF Keeps, Held, Guarded, SeenFits, RecordFits, PinFits, PendingFits, Activating, Stops,
        Spawned, Ensuring, Switching, Served
<1> QED BY <1>1, <1>2

\* p has the lock, or nobody has.
LEMMA KeeperStep ==
  ASSUME TypeInv, ProxyInv, NEW p \in Procs, Only(p), lock \in {p, None},
         \A q \in Procs \ {p} : \A d \in Daemons : d = job[q].seen /\ Lost(d) => Lost(d)',
         Keeps(p, pc[p], job[p])', LeaseInv', DaemonInv'
  PROVE  ProxyInv'
<1> SUFFICES ASSUME NEW q \in Procs, q # p
             PROVE  Keeps(q, pc[q], job[q])'
  BY DEF ProxyInv
<1>1. pc'[q] = pc[q] /\ job'[q] = job[q]
  BY DEF Only
<1>2. Keeps(q, pc[q], job[q]) /\ JobFits(pc[q], job[q])
  BY DEF ProxyInv, TypeInv, ControlOK
<1>3. ~ (pc[q] \in Locked /\ job[q].op # "uninstall")
  BY <1>2, Constants DEF Keeps, Held
<1>4. pc[q] \in {"dying", "unlink"} => job[q].seen \in Daemons
  BY <1>2 DEF JobFits
<1>5. PICK l : l = pc[q]
  OBVIOUS
<1>6. PICK j : j = job[q]
  OBVIOUS
<1>7. SeenFits(l, j)'
  <2>1. CASE l \in {"dying", "unlink"}
    <3>1. PICK d \in Daemons : d = j.seen
      BY <1>4, <1>5, <1>6, <2>1
    <3>2. SeenFits(l, j) /\ (Lost(d) => Lost(d)')
      BY <1>2, <1>5, <1>6, <3>1 DEF Keeps
    <3> QED BY <3>1, <3>2 DEF SeenFits
  <2>2. CASE l \notin {"dying", "unlink"}
    BY <2>2 DEF SeenFits
  <2> QED BY <2>1, <2>2
<1>8. Keeps(q, l, j)'
  BY <1>2, <1>3, <1>5, <1>6, <1>7, UnlockedClaims
<1> QED BY <1>1, <1>5, <1>6, <1>8

\* p has not: it may take a record away, and what befalls daemons befalls them
\* with a fault.
Fades ==
  /\ pidfile' = pidfile \/ (pidfile' = None /\ pidfile # None /\ pidfile.pid \in excused')
  /\ \A d \in Daemons : /\ daemon'[d].bin = daemon[d].bin
                        /\ Lost(d) => Lost(d)'
                        /\ d \in excused \/ Serving(d) => d \in excused' \/ Serving(d)'

Decays == Fades /\ UNCHANGED <<pending, current, lock, exclusive>>

LEMMA DecayKeeps ==
  ASSUME TypeInv, ProxyInv, NEW q \in Procs, Decays, pc'[q] = pc[q], job'[q] = job[q],
         q \in leases => q \in leases'
  PROVE  Keeps(q, pc[q], job[q])'
<1>1. Keeps(q, pc[q], job[q]) /\ JobFits(pc[q], job[q])
  BY DEF ProxyInv, TypeInv, ControlOK
<1>2. pidfile # None => pidfile.pid \in Daemons
  BY DEF TypeInv, StoreOK, Record
<1>3. Held(q, pc[q], job[q])' /\ Guarded(q, pc[q], job[q])'
  BY <1>1 DEF Decays, Fades, Keeps, Held, Guarded
<1>4. SeenFits(pc[q], job[q])'
  BY <1>1 DEF Decays, Fades, Keeps, SeenFits, JobFits
<1>5. RecordFits(pc[q], job[q])'
  BY <1>1, <1>2 DEF Decays, Fades, Keeps, RecordFits, JobFits, Served
<1>6. PinFits(pc[q], job[q])'
  BY <1>1 DEF Decays, Fades, Keeps, PinFits, JobFits, Served, Spawned
<1>7. PendingFits(pc[q], job[q])'
  BY <1>1 DEF Decays, Fades, Keeps, PendingFits, Activating
<1> QED BY <1>3, <1>4, <1>5, <1>6, <1>7 DEF Keeps

LEMMA DecayStep ==
  ASSUME TypeInv, ProxyInv, NEW p \in Procs, Only(p), Decays, leases \ {p} \subseteq leases',
         Keeps(p, pc[p], job[p])', LeaseInv', DaemonInv'
  PROVE  ProxyInv'
<1> SUFFICES ASSUME NEW q \in Procs, q # p
             PROVE  Keeps(q, pc[q], job[q])'
  BY DEF ProxyInv
<1> QED BY DecayKeeps DEF Only

LEMMA OutsideStep ==
  ASSUME TypeInv, ProxyInv, Decays, UNCHANGED <<locks, pc, job>>, DaemonInv'
  PROVE  ProxyInv'
<1>1. LeaseInv'
  BY DEF ProxyInv, LeaseInv, locks
<1>2. \A q \in Procs : Keeps(q, pc[q], job[q])'
  BY DecayKeeps DEF locks
<1> QED BY <1>1, <1>2 DEF ProxyInv

\* Nothing befalls the daemons, and p is no witness of any more.
LEMMA QuietDaemons ==
  ASSUME TypeInv, DaemonInv, NEW p \in Procs, Only(p),
         UNCHANGED <<daemon, port, skewed, pidfile>>, excused \subseteq excused',
         pc[p] = "dying" => job[p].seen \in excused' \/ daemon[job[p].seen].state # "stopping",
         pc[p] = "record" => job[p].child \in excused',
         pc[p] \in {"await", "reap"} =>
           \/ pc'[p] \in {"await", "reap"} /\ job'[p].child = job[p].child
           \/ job[p].child \in excused'
           \/ port = pidfile.pid
  PROVE  DaemonInv'
<1>1. skewed' \subseteq excused'
  BY DEF DaemonInv
<1>2. ASSUME NEW d \in Daemons PROVE Stopping(d)'
  <2> SUFFICES ASSUME daemon[d].state = "stopping", d \notin excused'
               PROVE  \E q \in Procs : pc'[q] = "dying" /\ job'[q].op # "uninstall"
                                         /\ job'[q].seen = d
    BY DEF Stopping
  <2>1. PICK q \in Procs : pc[q] = "dying" /\ job[q].op # "uninstall" /\ job[q].seen = d
    BY DEF DaemonInv, Stopping
  <2>2. q # p
    BY <2>1
  <2> QED BY <2>1, <2>2 DEF Only
<1>3. ASSUME NEW d \in Daemons PROVE Named(d)'
  <2> SUFFICES ASSUME ~ Lost(d), d \notin excused', ~ (pidfile # None /\ pidfile.pid = d)
               PROVE  \E q \in Procs : pc'[q] = "record" /\ job'[q].child = d
    BY DEF Named, Lost, Alive
  <2>1. PICK q \in Procs : pc[q] = "record" /\ job[q].child = d
    BY DEF DaemonInv, Named
  <2>2. q # p
    BY <2>1
  <2> QED BY <2>1, <2>2 DEF Only
<1>4. Listening'
  <2> SUFFICES ASSUME pidfile # None, ~ Lost(pidfile.pid), pidfile.pid \notin excused',
                      port # pidfile.pid
               PROVE  \E q \in Procs : pc'[q] \in {"await", "reap"} /\ job'[q].child = pidfile.pid
    BY DEF Listening, Lost, Alive
  <2>1. PICK q \in Procs : pc[q] \in {"await", "reap"} /\ job[q].child = pidfile.pid
    BY DEF DaemonInv, Listening
  <2>2. CASE q # p
    BY <2>1, <2>2 DEF Only
  <2>3. CASE q = p
    BY <2>1, <2>3
  <2> QED BY <2>2, <2>3
<1> QED BY <1>1, <1>2, <1>3, <1>4 DEF DaemonInv

LEMMA QuietFades ==
  ASSUME UNCHANGED <<daemon, port, pidfile>>, excused \subseteq excused'
  PROVE  Fades /\ \A d \in Daemons : Lost(d) => Lost(d)'
  BY DEF Fades, Lost, Alive, Serving

LEMMA GoesOnly ==
  ASSUME TypeInv, NEW p \in Procs, NEW l, NEW j, Goes(p, l, j)
  PROVE  Only(p) /\ pc'[p] = l /\ job'[p] = j
  BY DEF Goes, Only, TypeInv, ControlOK

LEMMA HasLock ==
  ASSUME ProxyInv, NEW p \in Procs, pc[p] \in Locked, job[p].op # "uninstall"
  PROVE  lock = p
  BY DEF ProxyInv, Keeps, Held

LEMMA LockedJoins ==
  ASSUME TypeInv, NEW p \in Procs, pc[p] \in Locked \ (Stops \cup {"decide"})
  PROVE  job[p].op \in Joining /\ job[p].op # "uninstall"
<1>1. JobFits(pc[p], job[p])
  BY DEF TypeInv, ControlOK
<1> QED BY <1>1 DEF JobFits, Locked, Replacing, Stops, Staging, Switching, Joining

\* A command ends.
LEMMA FinishStep ==
  ASSUME TypeInv, ProxyInv, NEW p \in Procs, Finish(p), DaemonInv',
         \A d \in Daemons : Lost(d) => Lost(d)',
         lock \in {p, None} \/ (Fades /\ UNCHANGED <<pending, current>>)
  PROVE  ProxyInv'
<1>1. /\ Goes(p, "idle", NoJob)
      /\ lock' = (IF lock = p THEN None ELSE lock)
      /\ exclusive' = (IF exclusive = p THEN None ELSE exclusive)
      /\ leases' = leases \ {p}
  BY FinishTyped
<1>2. Only(p) /\ Keeps(p, pc[p], job[p])'
  BY <1>1, GoesOnly, NoClaims DEF Unclaimed
<1>3. LeaseInv'
  BY <1>1 DEF ProxyInv, LeaseInv
<1>4. CASE lock \in {p, None}
  BY <1>2, <1>3, <1>4, KeeperStep
<1>5. CASE lock \notin {p, None}
  <2>1. lock' = lock /\ exclusive' = exclusive
    BY <1>1, <1>5, Constants DEF ProxyInv, LeaseInv
  <2> QED BY <1>1, <1>2, <1>3, <1>5, <2>1, DecayStep DEF Decays
<1> QED BY <1>4, <1>5

\* It goes on under the lock.
LEMMA ContinueStep ==
  ASSUME TypeInv, ProxyInv, NEW p \in Procs, NEW l, NEW j, Continue(p, l, j), lock = p,
         Keeps(p, l, j)', DaemonInv',
         \A q \in Procs \ {p} : \A d \in Daemons : d = job[q].seen /\ Lost(d) => Lost(d)'
  PROVE  ProxyInv'
<1>1. Goes(p, l, j) /\ lock' = lock /\ exclusive' = exclusive /\ leases' = leases
  BY ContinueTyped
<1>2. Only(p) /\ Keeps(p, pc[p], job[p])' /\ LeaseInv'
  BY <1>1, GoesOnly DEF ProxyInv, LeaseInv
<1> QED BY <1>2, KeeperStep

\* What holds at the return of an activation, and of a start.
LEMMA ProbeClaims ==
  ASSUME NEW p, NEW j, j.phase = "session", lock' = p
  PROVE  Keeps(p, "probe", j)'
  BY DEF Keeps, Held, Guarded, SeenFits, RecordFits, PinFits, PendingFits, Activating, Stops,
     Staging, Served, Spawned

LEMMA ActivatedStep ==
  ASSUME TypeInv, ProxyInv, NEW p \in Procs, Activated(p), lock = p, DaemonInv',
         \A d \in Daemons : Lost(d) => Lost(d)'
  PROVE  ProxyInv'
<1>1. CASE Finish(p)
  BY <1>1, FinishStep
<1>2. ASSUME NEW j \in Job, Continue(p, "probe", j), j.phase = "session"
      PROVE  ProxyInv'
  <2>1. lock' = p
    BY <1>2 DEF Continue, locks
  <2> QED BY <1>2, <2>1, ProbeClaims, ContinueStep
<1> QED BY <1>1, <1>2, ActivatedGoes

\* A proxy that answers serves.
LEMMA VerifiedServes ==
  ASSUME TypeInv, ProxyInv, NEW p \in Procs, lock = p, pc[p] # "dying", Verified
  PROVE  port \in excused \/ Serving(port)
<1>1. /\ port \in Daemons /\ pidfile # None /\ pidfile.pid = port /\ Alive(port)
      /\ daemon[port].bin \notin Broken
  BY VerifiedPort
<1>2. CASE daemon[port].state = "stopping" /\ port \notin excused
  <2>1. PICK q \in Procs : pc[q] = "dying" /\ job[q].op # "uninstall"
    BY <1>1, <1>2 DEF ProxyInv, DaemonInv, Stopping
  <2>2. lock = q
    BY <2>1, HasLock DEF Locked, Replacing
  <2> QED BY <2>1, <2>2
<1> QED BY <1>1, <1>2 DEF Alive, Serving

LEMMA RunningStep ==
  ASSUME TypeInv, ProxyInv, NEW p \in Procs, pc[p] \in Ensuring, lock = p,
         Verified, Running(p, port),
         job[p].config.pin # None => daemon[port].bin = job[p].config.pin,
         UNCHANGED <<pending, current, daemon, port, skewed, pidfile, excused>>,
         DaemonInv'
  PROVE  ProxyInv'
<1>0. /\ Keeps(p, pc[p], job[p]) /\ JobFits(pc[p], job[p]) /\ port \in Daemons
      /\ \A d \in Daemons : Lost(d) => Lost(d)'
  BY VerifiedPort, QuietFades DEF ProxyInv, TypeInv, ControlOK
<1>1. ASSUME NEW j \in Job, Continue(p, "downgrade", j), j.seen = port,
             j.config = job[p].config, j.phase = "session"
      PROVE  ProxyInv'
  <2>1. lock' = p /\ (port \in excused \/ Serving(port))
    BY <1>1, VerifiedServes DEF Continue, locks, Ensuring
  <2>2. Keeps(p, "downgrade", j)'
    BY <1>1, <2>1
    DEF Keeps, Held, Guarded, SeenFits, RecordFits, PinFits, PendingFits, Activating, Stops,
        Staging, Served, Spawned, Ensuring, Serving
  <2> QED BY <1>0, <1>1, <2>2, ContinueStep
<1>2. ASSUME NEW j \in Job, Continue(p, "clear", j), job[p].phase = "activated",
             j.ver = job[p].ver
      PROVE  ProxyInv'
  <2>1. lock' = p /\ pending # None /\ pending.ver = j.ver /\ current = j.ver
    BY <1>0, <1>2 DEF Continue, locks, Keeps, PendingFits, Activating
  <2>2. Keeps(p, "clear", j)'
    BY <1>2, <2>1
    DEF Keeps, Held, Guarded, SeenFits, RecordFits, PinFits, PendingFits, Activating, Stops,
        Staging, Served, Spawned, Ensuring
  <2> QED BY <1>0, <1>2, <2>2, ContinueStep
<1> QED BY <1>0, <1>1, <1>2, RunningGoes, ActivatedStep

LEMMA NotRunningStep ==
  ASSUME TypeInv, ProxyInv, NEW p \in Procs, pc[p] \in Ensuring, lock = p, NotRunning(p),
         UNCHANGED <<pending, current>>, DaemonInv', \A d \in Daemons : Lost(d) => Lost(d)'
  PROVE  ProxyInv'
<1>0. Keeps(p, pc[p], job[p])
  BY DEF ProxyInv
<1>1. ASSUME NEW j \in Job, Continue(p, "back", j), job[p].phase = "activated",
             j.ver = job[p].ver
      PROVE  ProxyInv'
  <2>1. lock' = p /\ pending # None /\ pending.ver = j.ver /\ current = j.ver
    BY <1>0, <1>1 DEF Continue, locks, Keeps, PendingFits, Activating
  <2>2. Keeps(p, "back", j)'
    BY <1>1, <2>1
    DEF Keeps, Held, Guarded, SeenFits, RecordFits, PinFits, PendingFits, Activating, Stops,
        Staging, Served, Spawned, Ensuring
  <2> QED BY <1>1, <2>2, ContinueStep
<1> QED BY <1>1, NotRunningGoes, FinishStep, ActivatedStep

\* A command that neither spawns, awaits nor stops a proxy is no witness.
LEMMA AsideDaemons ==
  ASSUME TypeInv, ProxyInv, NEW p \in Procs, Only(p), UNCHANGED <<world, pidfile, excused>>,
         pc[p] \notin {"dying", "record", "await", "reap"}
  PROVE  DaemonInv' /\ Fades /\ \A d \in Daemons : Lost(d) => Lost(d)'
<1>1. UNCHANGED <<daemon, port, skewed, pidfile>> /\ excused \subseteq excused'
  BY DEF world
<1>2. DaemonInv'
  BY <1>1, QuietDaemons DEF ProxyInv
<1> QED BY <1>1, <1>2, QuietFades

LEMMA ReleaseFrees ==
  ASSUME LeaseInv, NEW p \in Procs, Release(p)
  PROVE  LeaseInv'
  BY Constants DEF Release, LeaseInv

-----------------------------------------------------------------------------
(* Step by step.                                                            *)

LEMMA StartStep ==
  ASSUME TypeInv, ProxyInv, NEW p \in Procs, Start(p)
  PROVE  ProxyInv'
<1>1. PICK j \in Job : /\ Goes(p, Entry[j.op], j) /\ JobFits(Entry[j.op], j)
                       /\ Entry[j.op] \in {"prepare", "lock", "stop"}
                       /\ (Entry[j.op] = "stop" => j.op = "uninstall")
  BY StartGoes
<1>2. PICK l \in {"prepare", "lock", "stop"} : l = Entry[j.op]
  BY <1>1
<1>3. Only(p) /\ pc'[p] = l /\ job'[p] = j
  BY <1>1, <1>2, GoesOnly
<1>4. DaemonInv' /\ Fades
  BY <1>3, AsideDaemons DEF Start, disk, history
<1>5. Keeps(p, l, j)'
  <2>1. CASE l \in {"prepare", "lock"}
    BY <2>1, NoClaims DEF Unclaimed
  <2>2. CASE l = "stop"
    <3>1. j.op = "uninstall" /\ JobFits(l, j) /\ SeenFits(l, j)'
      BY <1>1, <1>2, <2>2 DEF SeenFits
    <3> QED BY <3>1, UnlockedClaims
  <2> QED BY <2>1, <2>2
<1>6. LeaseInv'
  BY DEF Start, locks, ProxyInv, LeaseInv
<1>7. Decays /\ leases \subseteq leases'
  BY <1>4 DEF Start, disk, locks, Decays
<1> QED BY <1>3, <1>4, <1>5, <1>6, <1>7, DecayStep

LEMMA ReadBaseStep ==
  ASSUME TypeInv, ProxyInv, NEW p \in Procs, ReadBase(p)
  PROVE  ProxyInv'
<1>1. PICK l \in {"tryLock", "lock"} : \E j : Goes(p, l, j)
  BY DEF ReadBase, Go, SetJob, Goes
<1>2. Only(p) /\ pc'[p] = l
  BY <1>1, GoesOnly
<1>3. DaemonInv' /\ Fades
  BY <1>2, AsideDaemons DEF ReadBase, disk, history
<1>4. Decays /\ leases \subseteq leases' /\ LeaseInv'
  BY <1>3 DEF ReadBase, disk, locks, Decays, ProxyInv, LeaseInv
<1>5. Keeps(p, pc[p], job[p])'
  BY <1>2, NoClaims DEF Unclaimed
<1> QED BY <1>2, <1>3, <1>4, <1>5, DecayStep

LEMMA StayOnly ==
  ASSUME TypeInv, NEW p \in Procs, NEW l, Go(p, l), UNCHANGED job
  PROVE  Only(p) /\ pc'[p] = l /\ job'[p] = job[p]
  BY DEF Go, Only, TypeInv, ControlOK

LEMMA TryLockStep ==
  ASSUME TypeInv, ProxyInv, NEW p \in Procs, TryLock(p)
  PROVE  ProxyInv'
<1>1. PICK l \in {"decide", "lock"} : Go(p, l) /\ l = (IF lock = None THEN "decide" ELSE "lock")
  BY DEF TryLock
<1>2. Only(p) /\ pc'[p] = l /\ job'[p] = job[p]
  BY <1>1, StayOnly DEF TryLock
<1>3. DaemonInv' /\ Fades /\ \A d \in Daemons : Lost(d) => Lost(d)'
  BY <1>2, AsideDaemons DEF TryLock, disk, history
<1>4. LeaseInv'
  BY Constants DEF TryLock, ProxyInv, LeaseInv
<1>5. CASE lock = None
  <2>1. l = "decide" /\ lock' = p
    BY <1>1, <1>5 DEF TryLock
  <2>2. ASSUME NEW j PROVE Keeps(p, "decide", j)'
    BY <2>1 DEF Keeps, Held, Guarded, SeenFits, RecordFits, PinFits, PendingFits, Activating, Stops,
        Staging, Served, Spawned, Ensuring
  <2> QED BY <1>2, <1>3, <1>4, <1>5, <2>1, <2>2, KeeperStep
<1>6. CASE lock # None
  <2>1. Decays /\ leases \subseteq leases'
    BY <1>3, <1>6 DEF TryLock, disk, Decays
  <2>2. Keeps(p, pc[p], job[p])'
    BY <1>1, <1>2, <1>6, NoClaims DEF Unclaimed
  <2> QED BY <1>2, <1>3, <1>4, <2>1, <2>2, DecayStep
<1> QED BY <1>5, <1>6

\* The lock is given back, and waited for again.
LEMMA ReleaseStep ==
  ASSUME TypeInv, ProxyInv, NEW p \in Procs, lock = p, Go(p, "lock"), UNCHANGED job, Release(p),
         DaemonInv', \A d \in Daemons : Lost(d) => Lost(d)'
  PROVE  ProxyInv'
<1>1. Only(p) /\ Keeps(p, pc[p], job[p])'
  BY StayOnly, NoClaims DEF Unclaimed
<1> QED BY <1>1, ReleaseFrees, KeeperStep DEF ProxyInv

\* What a launch stages replaces nothing the user asked for.
LEMMA StagingClaims ==
  ASSUME NEW p, NEW j, NEW l \in Staging, lock' = p,
         j.op = "launch" /\ pending' # None => pending'.auto
  PROVE  Keeps(p, l, j)'
  BY DEF Keeps, Held, Guarded, SeenFits, RecordFits, PinFits, PendingFits, Activating, Stops,
     Staging, Served, Spawned, Ensuring

LEMMA DecideStep ==
  ASSUME TypeInv, ProxyInv, NEW p \in Procs, Decide(p)
  PROVE  ProxyInv'
<1>1. lock = p
  <2>1. job[p].op = "launch"
    BY DEF Decide, TypeInv, ControlOK, JobFits, Preparing
  <2> QED BY <2>1, HasLock DEF Decide, Locked
<1>2. CASE Go(p, "lock") /\ UNCHANGED job /\ Release(p)
  <2>1. DaemonInv' /\ \A d \in Daemons : Lost(d) => Lost(d)'
    BY <1>2, StayOnly, AsideDaemons DEF Decide, disk, history
  <2> QED BY <1>1, <1>2, <2>1, ReleaseStep
<1>3. ASSUME NEW latest \in Versions, pending # None => pending.auto,
             Continue(p, "stage", [job[p] EXCEPT !.ver = latest])
      PROVE  ProxyInv'
  <2>1. PICK j : j = [job[p] EXCEPT !.ver = latest]
    OBVIOUS
  <2>2. Continue(p, "stage", j)
    BY <1>3, <2>1
  <2>3. DaemonInv' /\ \A d \in Daemons : Lost(d) => Lost(d)'
    BY <2>2, ContinueTyped, GoesOnly, AsideDaemons DEF Decide, disk, history
  <2>4. lock' = p /\ pending' = pending
    BY <1>1, <2>2 DEF Continue, locks, Decide, disk
  <2>5. Keeps(p, "stage", j)'
    BY <1>3, <2>4, StagingClaims DEF Staging
  <2> QED BY <1>1, <2>2, <2>3, <2>5, ContinueStep
<1> QED BY <1>2, <1>3 DEF Decide

LEMMA ContinueAside ==
  ASSUME TypeInv, ProxyInv, NEW p \in Procs, NEW l, NEW j, Continue(p, l, j),
         UNCHANGED <<world, pidfile, excused>>,
         pc[p] \notin {"dying", "record", "await", "reap"}
  PROVE  /\ DaemonInv' /\ \A d \in Daemons : Lost(d) => Lost(d)'
         /\ lock' = lock /\ exclusive' = exclusive /\ leases' = leases
  BY ContinueTyped, GoesOnly, AsideDaemons

LEMMA FinishAside ==
  ASSUME TypeInv, ProxyInv, NEW p \in Procs, Finish(p),
         UNCHANGED <<world, pidfile, excused>>,
         pc[p] \notin {"dying", "record", "await", "reap"}
  PROVE  DaemonInv' /\ Fades /\ \A d \in Daemons : Lost(d) => Lost(d)'
  BY FinishTyped, GoesOnly, AsideDaemons

LEMMA ActivatedAside ==
  ASSUME TypeInv, ProxyInv, NEW p \in Procs, Activated(p), lock = p,
         UNCHANGED <<world, pidfile, excused>>,
         pc[p] \notin {"dying", "record", "await", "reap"}
  PROVE  ProxyInv'
<1>1. DaemonInv' /\ \A d \in Daemons : Lost(d) => Lost(d)'
  BY ActivatedGoes, ContinueAside, FinishAside
<1> QED BY <1>1, ActivatedStep

LEMMA InstallStep ==
  ASSUME TypeInv, ProxyInv, NEW p \in Procs, Install(p)
  PROVE  ProxyInv'
<1>1. lock = p
  BY LockedJoins, HasLock DEF Install, Locked, Staging, Stops
<1>2. UNCHANGED <<world, pidfile, excused, pending, current>> /\ pc[p] = "stage"
  BY DEF Install, history
<1>3. CASE Continue(p, "mark", job[p])
  <2>1. PICK j : j = job[p]
    OBVIOUS
  <2>2. Keeps(p, "stage", j)
    BY <1>2, <2>1 DEF ProxyInv
  <2>3. j.op = "launch" /\ pending # None => pending.auto
    BY <2>2 DEF Keeps, PendingFits, Staging
  <2>4. Keeps(p, "mark", j)'
    BY <1>1, <1>2, <1>3, <2>3, ContinueAside, StagingClaims DEF Staging
  <2> QED BY <1>1, <1>2, <1>3, <2>1, <2>4, ContinueAside, ContinueStep
<1>4. CASE Go(p, "lock") /\ UNCHANGED job /\ Release(p)
  <2>1. DaemonInv' /\ \A d \in Daemons : Lost(d) => Lost(d)'
    BY <1>2, <1>4, StayOnly, AsideDaemons
  <2> QED BY <1>1, <1>4, <2>1, ReleaseStep
<1>5. CASE Finish(p)
  BY <1>1, <1>2, <1>5, FinishAside, FinishStep
<1> QED BY <1>3, <1>4, <1>5 DEF Install

LEMMA JoinClaims ==
  ASSUME NEW p, NEW j, lock' = p
  PROVE  Keeps(p, "join", j)'
  BY DEF Keeps, Held, Guarded, SeenFits, RecordFits, PinFits, PendingFits, Activating, Stops,
     Staging, Served, Spawned, Ensuring

LEMMA MarkStep ==
  ASSUME TypeInv, ProxyInv, NEW p \in Procs, Mark(p)
  PROVE  ProxyInv'
<1>1. lock = p
  BY LockedJoins, HasLock DEF Mark, Locked, Staging, Stops
<1>2. UNCHANGED <<world, pidfile, excused>> /\ pc[p] = "mark"
  BY DEF Mark, history
<1>3. CASE Go(p, "lock") /\ UNCHANGED job /\ Release(p)
  <2>1. DaemonInv' /\ \A d \in Daemons : Lost(d) => Lost(d)'
    BY <1>2, <1>3, StayOnly, AsideDaemons
  <2> QED BY <1>1, <1>3, <2>1, ReleaseStep
<1>4. CASE Continue(p, "join", [job[p] EXCEPT !.config = config])
  <2>1. PICK j : j = [job[p] EXCEPT !.config = config]
    OBVIOUS
  <2>2. Continue(p, "join", j)
    BY <1>4, <2>1
  <2>3. Keeps(p, "join", j)'
    BY <1>1, <1>2, <2>2, ContinueAside, JoinClaims
  <2> QED BY <1>1, <1>2, <2>2, <2>3, ContinueAside, ContinueStep
<1> QED BY <1>3, <1>4 DEF Mark

\* Nobody else is under the lock when it is taken.
LEMMA AcquireStep ==
  ASSUME TypeInv, ProxyInv, NEW p \in Procs, Acquire(p)
  PROVE  ProxyInv'
<1>1. lock = None /\ lock' = p
      /\ UNCHANGED <<exclusive, leases, job, world, pidfile, excused, pending>>
      /\ pc[p] = "lock"
  BY DEF Acquire, disk, history
<1>2. JobFits("lock", job[p])
  BY <1>1 DEF TypeInv, ControlOK
<1>3. PICK l \in {"join", "stage", "stop"} :
        /\ Go(p, l)
        /\ l = "stage" => job[p].op = "update"
        /\ l = "stop" => job[p].op = "stop"
  <2>1. job[p].op \in {"launch", "update", "stop"}
    BY <1>2 DEF JobFits, Joining
  <2>2. Go(p, FirstLocked[job[p].op])
    BY DEF Acquire
  <2> QED BY <2>1, <2>2 DEF FirstLocked
<1>4. Only(p) /\ pc'[p] = l /\ job'[p] = job[p]
  BY <1>1, <1>3, StayOnly
<1>5. DaemonInv' /\ \A d \in Daemons : Lost(d) => Lost(d)'
  BY <1>1, <1>4, AsideDaemons
<1>6. LeaseInv'
  BY <1>1, Constants DEF ProxyInv, LeaseInv
<1>7. PICK j : j = job[p]
  OBVIOUS
<1>8. Keeps(p, l, j)'
  <2>1. CASE l = "join"
    BY <1>1, <2>1, JoinClaims
  <2>2. CASE l = "stage"
    BY <1>1, <1>3, <1>7, <2>2, StagingClaims DEF Staging
  <2>3. CASE l = "stop"
    BY <1>1, <1>3, <1>7, <2>3
    DEF Keeps, Held, Guarded, SeenFits, RecordFits, PinFits, PendingFits, Activating, Stops,
        Staging, Served, Spawned, Ensuring, Joining
  <2> QED BY <2>1, <2>2, <2>3
<1> QED BY <1>1, <1>4, <1>5, <1>6, <1>7, <1>8, KeeperStep

\* Who has the sessions to itself lets nobody join until it has one.
LEMMA JoinStep ==
  ASSUME TypeInv, ProxyInv, NEW p \in Procs, Join(p)
  PROVE  ProxyInv'
<1>1. lock = p
  BY LockedJoins, HasLock DEF Join, Locked, Staging, Stops
<1>2. /\ UNCHANGED <<world, pidfile, excused, pending, current>> /\ pc[p] = "join"
      /\ exclusive = None
  BY DEF Join, disk, history
<1>3. CASE Finish(p)
  BY <1>1, <1>2, <1>3, FinishAside, FinishStep
<1>4. CASE leases = {} /\ exclusive' = p /\ Go(p, "check") /\ UNCHANGED <<lock, leases, job>>
  <2>1. Only(p) /\ pc'[p] = "check" /\ job'[p] = job[p]
    BY <1>4, StayOnly
  <2>2. DaemonInv' /\ \A d \in Daemons : Lost(d) => Lost(d)'
    BY <1>2, <2>1, AsideDaemons
  <2>3. LeaseInv'
    BY <1>1, <1>4 DEF LeaseInv
  <2>4. ASSUME NEW j PROVE Keeps(p, "check", j)'
    BY <1>1, <1>4
    DEF Keeps, Held, Guarded, SeenFits, RecordFits, PinFits, PendingFits, Activating, Stops,
        Staging, Served, Spawned, Ensuring
  <2> QED BY <1>1, <2>1, <2>2, <2>3, <2>4, KeeperStep
<1>5. CASE /\ leases' = leases \cup {p} /\ Go(p, "probe")
           /\ SetJob(p, [job[p] EXCEPT !.phase = "session"]) /\ UNCHANGED <<lock, exclusive>>
  <2>1. PICK j : j = [job[p] EXCEPT !.phase = "session"]
    OBVIOUS
  <2>2. j.phase = "session"
    BY <2>1 DEF TypeInv, ControlOK, Job
  <2>3. Only(p) /\ pc'[p] = "probe" /\ job'[p] = j
    BY <1>5, <2>1, GoesOnly DEF Go, SetJob, Goes
  <2>4. DaemonInv' /\ \A d \in Daemons : Lost(d) => Lost(d)'
    BY <1>2, <2>3, AsideDaemons
  <2>5. LeaseInv' /\ Keeps(p, "probe", j)'
    BY <1>1, <1>2, <1>5, <2>2, ProbeClaims DEF LeaseInv
  <2> QED BY <1>1, <2>3, <2>4, <2>5, KeeperStep
<1> QED BY <1>3, <1>4, <1>5 DEF Join

LEMMA DowngradeStep ==
  ASSUME TypeInv, ProxyInv, NEW p \in Procs, Downgrade(p)
  PROVE  ProxyInv'
<1>1. lock = p /\ lock' = p
  BY LockedJoins, HasLock DEF Downgrade, Locked, Served, Stops
<1>2. UNCHANGED <<world, pidfile, excused, daemon, port>> /\ pc[p] = "downgrade"
  BY DEF Downgrade, disk, history, world
<1>3. exclusive' = None /\ p \in leases'
  BY <1>1 DEF Downgrade, ProxyInv, LeaseInv
<1>4. Only(p) /\ pc'[p] = "unlock" /\ job'[p] = job[p]
  BY StayOnly DEF Downgrade
<1>5. DaemonInv' /\ \A d \in Daemons : Lost(d) => Lost(d)'
  BY <1>2, <1>4, AsideDaemons
<1>6. LeaseInv'
  BY <1>3 DEF LeaseInv
<1>7. PICK j : j = job[p]
  OBVIOUS
<1>8. Keeps(p, "downgrade", j)
  BY <1>2, <1>7 DEF ProxyInv
<1>9. Keeps(p, "unlock", j)'
  BY <1>1, <1>2, <1>3, <1>8, Constants
  DEF Keeps, Held, Guarded, SeenFits, RecordFits, PinFits, PendingFits, Activating, Stops,
      Staging, Served, Spawned, Ensuring, Serving
<1> QED BY <1>1, <1>4, <1>5, <1>6, <1>7, <1>9, KeeperStep

LEMMA UnlockStep ==
  ASSUME TypeInv, ProxyInv, NEW p \in Procs, Unlock(p)
  PROVE  ProxyInv' /\ p \in leases /\ exclusive = None
<1>1. lock = p /\ lock' = None
  BY LockedJoins, HasLock DEF Unlock, Locked, Served, Stops
<1>2. p \in leases /\ exclusive # p
  BY DEF Unlock, ProxyInv, Keeps, Guarded
<1>3. exclusive = None
  BY <1>1, <1>2 DEF ProxyInv, LeaseInv
<1>4. Only(p) /\ pc'[p] = "session"
  BY GoesOnly DEF Unlock, Go, SetJob, Goes
<1>5. DaemonInv' /\ \A d \in Daemons : Lost(d) => Lost(d)'
  BY <1>4, AsideDaemons DEF Unlock, disk, history
<1>6. LeaseInv' /\ Keeps(p, pc[p], job[p])'
  BY <1>3, <1>4, NoClaims DEF Unlock, LeaseInv, Unclaimed
<1> QED BY <1>1, <1>2, <1>3, <1>4, <1>5, <1>6, KeeperStep

LEMMA SessionEndsStep ==
  ASSUME TypeInv, ProxyInv, NEW p \in Procs, SessionEnds(p)
  PROVE  ProxyInv'
<1>1. /\ Finish(p) /\ UNCHANGED <<world, pidfile, excused, pending, current>> /\ pc[p] = "session"
  BY DEF SessionEnds, disk, history
<1> QED BY <1>1, FinishAside, FinishStep

LEMMA CheckStep ==
  ASSUME TypeInv, ProxyInv, NEW p \in Procs, Check(p)
  PROVE  ProxyInv'
<1>1. lock = p
  BY LockedJoins, HasLock DEF Check, Locked, Replacing, Stops
<1>2. UNCHANGED <<world, pidfile, excused>> /\ pc[p] = "check"
  BY DEF Check, history
<1>3. CASE Activated(p)
  BY <1>1, <1>2, <1>3, ActivatedAside
<1>4. CASE ~ Activated(p)
  <2>1. PICK j : j = [job[p] EXCEPT !.ver = pending.ver, !.prev = current]
    OBVIOUS
  <2>2. Continue(p, "identify", j) /\ pending # None /\ pending' = pending
    BY <1>4, <2>1 DEF Check, MayActivate
  <2>3. j.ver = pending.ver
    BY <2>1 DEF TypeInv, ControlOK, Job
  <2>4. exclusive = p
    BY <1>2 DEF ProxyInv, Keeps, Guarded
  <2>5. Keeps(p, "identify", j)'
    BY <1>1, <1>2, <2>2, <2>3, <2>4, ContinueAside
    DEF Keeps, Held, Guarded, SeenFits, RecordFits, PinFits, PendingFits, Activating, Stops,
        Staging, Served, Spawned, Ensuring
  <2> QED BY <1>1, <1>2, <2>2, <2>5, ContinueAside, ContinueStep
<1> QED BY <1>3, <1>4

\* It is stopped only with the consent of who uses it.
LEMMA IdentifyStep ==
  ASSUME TypeInv, ProxyInv, NEW p \in Procs, Identify(p) \/ CannotVerify(p)
  PROVE  ProxyInv'
<1>1. lock = p
  BY LockedJoins, HasLock DEF Identify, CannotVerify, Locked, Replacing, Stops
<1>2. UNCHANGED <<world, pidfile, excused, current>> /\ pc[p] = "identify"
  BY DEF Identify, CannotVerify, history, disk
<1>3. CASE Activated(p)
  BY <1>1, <1>2, <1>3, ActivatedAside
<1>4. CASE ~ Activated(p)
  <2>1. PICK l \in {"switch", "stop"} :
          /\ Continue(p, l, job[p])
          /\ l = "stop" => pidfile.guarded \/ Explicit(p)
    BY <1>4 DEF Identify, CannotVerify
  <2>2. pending' = pending
    BY <1>4 DEF Identify, CannotVerify, disk
  <2>3. PICK j : j = job[p]
    OBVIOUS
  <2>4. Keeps(p, "identify", j) /\ j.op \in Joining
    BY <1>2, <2>3, LockedJoins DEF ProxyInv, Locked, Replacing, Stops
  <2>5. l = "stop" => pidfile.guarded \/ (j.op = "update" /\ ~ j.inside)
    BY <2>1, <2>3 DEF Explicit
  <2>6. Keeps(p, l, j)'
    BY <1>1, <1>2, <2>1, <2>2, <2>4, <2>5, ContinueAside
    DEF Keeps, Held, Guarded, SeenFits, RecordFits, PinFits, PendingFits, Activating, Stops,
        Staging, Served, Spawned, Ensuring
  <2> QED BY <1>1, <1>2, <2>1, <2>3, <2>6, ContinueAside, ContinueStep
<1> QED BY <1>3, <1>4

LEMMA SwitchStep ==
  ASSUME TypeInv, ProxyInv, NEW p \in Procs, Switch(p) \/ SwitchBack(p)
  PROVE  ProxyInv'
<1>1. lock = p
  BY LockedJoins, HasLock DEF Switch, SwitchBack, Locked, Replacing, Stops
<1>2. UNCHANGED <<world, pidfile, excused, pending>> /\ pc[p] \in {"switch", "back"}
  BY DEF Switch, SwitchBack, history
<1>3. PICK f \in {"activated", "restored"} :
        /\ Continue(p, "probe", [job[p] EXCEPT !.phase = f])
        /\ f = "activated" => pc[p] = "switch" /\ current' = job[p].ver
  BY DEF Switch, SwitchBack
<1>4. PICK j : j = [job[p] EXCEPT !.phase = f]
  OBVIOUS
<1>5. j.phase = f /\ j.ver = job[p].ver
  BY <1>4 DEF TypeInv, ControlOK, Job
<1>6. f = "activated" => pending # None /\ pending.ver = j.ver
  BY <1>3, <1>5 DEF ProxyInv, Keeps, PendingFits, Activating
<1>7. Keeps(p, "probe", j)'
  BY <1>1, <1>2, <1>3, <1>4, <1>5, <1>6, ContinueAside
  DEF Keeps, Held, Guarded, SeenFits, RecordFits, PinFits, PendingFits, Activating, Stops,
      Staging, Served, Spawned, Ensuring
<1> QED BY <1>1, <1>2, <1>3, <1>4, <1>7, ContinueAside, ContinueStep

LEMMA ClearPendingStep ==
  ASSUME TypeInv, ProxyInv, NEW p \in Procs, ClearPending(p)
  PROVE  ProxyInv'
<1>1. lock = p
  BY LockedJoins, HasLock DEF ClearPending, Locked, Replacing, Stops
<1> QED BY <1>1, ActivatedAside DEF ClearPending, history

\* The lock of a stop is there unless it is an uninstall's.
LEMMA StopLock ==
  ASSUME TypeInv, ProxyInv, NEW p \in Procs, pc[p] \in Stops
  PROVE  /\ job[p].op \in OpNames /\ JobFits(pc[p], job[p]) /\ Keeps(p, pc[p], job[p])
         /\ lock = p \/ job[p].op = "uninstall"
<1>1. JobFits(pc[p], job[p]) /\ Keeps(p, pc[p], job[p]) /\ pc[p] \in Locked
  BY DEF TypeInv, ControlOK, ProxyInv, Locked, Replacing, Stops
<1> QED BY <1>1, HasLock DEF JobFits

\* stop has returned, from wherever.
LEMMA StoppedStep ==
  ASSUME TypeInv, ProxyInv, NEW p \in Procs, pc[p] \in Stops, Stopped(p) \/ NotStopped(p),
         lock = p \/ Fades, UNCHANGED <<pending, current>>, DaemonInv',
         \A d \in Daemons : Lost(d) => Lost(d)'
  PROVE  ProxyInv'
<1>1. CASE Finish(p)
  BY <1>1, FinishStep
<1>2. CASE Activated(p) /\ ~ Finish(p)
  <2>1. job[p].op = "launch"
    BY <1>2 DEF Activated
  <2>2. lock = p
    BY <2>1, StopLock
  <2> QED BY <1>2, <2>2, ActivatedStep
<1>3. ASSUME NEW j \in Job, Continue(p, "switch", j), job[p].op \in Joining,
             j.op = job[p].op, j.ver = job[p].ver
      PROVE  ProxyInv'
  <2>1. lock = p /\ lock' = p
    BY <1>3, StopLock DEF Continue, locks, Joining
  <2>2. pending # None /\ pending.ver = j.ver
    BY <1>3, StopLock DEF Keeps, PendingFits, Activating
  <2>3. Keeps(p, "switch", j)'
    BY <2>1, <2>2
    DEF Keeps, Held, Guarded, SeenFits, RecordFits, PinFits, PendingFits, Activating, Stops,
        Staging, Served, Spawned, Ensuring
  <2> QED BY <1>3, <2>1, <2>3, ContinueStep
<1> QED BY <1>1, <1>2, <1>3, StoppedGoes, NotStoppedGoes

LEMMA StoppedOnly ==
  ASSUME TypeInv, NEW p \in Procs, (Stopped(p) /\ pc[p] \in Stops) \/ NotStopped(p)
  PROVE  Only(p) /\ pc'[p] \in {"idle", "switch", "probe"}
<1>1. Finish(p) => Only(p) /\ pc'[p] = "idle"
  BY FinishTyped, GoesOnly
<1>2. \A j, l : Continue(p, l, j) => Only(p) /\ pc'[p] = l
  BY ContinueTyped, GoesOnly
<1> QED BY <1>1, <1>2, StoppedGoes, NotStoppedGoes, ActivatedGoes

LEMMA UninstallGoesOn ==
  ASSUME TypeInv, ProxyInv, NEW p \in Procs, NEW l, NEW j, Continue(p, l, j),
         j.op = "uninstall", JobFits(l, j), SeenFits(l, j)',
         Fades, UNCHANGED <<pending, current>>, DaemonInv'
  PROVE  ProxyInv'
<1>1. Goes(p, l, j) /\ lock' = lock /\ exclusive' = exclusive /\ leases' = leases
  BY ContinueTyped
<1>2. Keeps(p, l, j)'
  BY UnlockedClaims
<1>3. Only(p) /\ Keeps(p, pc[p], job[p])'
  BY <1>1, <1>2, GoesOnly
<1>4. LeaseInv' /\ Decays
  BY <1>1 DEF ProxyInv, LeaseInv, Decays
<1> QED BY <1>1, <1>3, <1>4, DecayStep

LEMMA StopClaims ==
  ASSUME NEW p, NEW j, NEW l \in {"dying", "unlink"}, lock' = p, j.op # "uninstall",
         j.op \in Joining => /\ exclusive' = p
                             /\ pending' # None /\ pending'.ver = j.ver,
         pidfile' # None => pidfile'.pid = j.seen,
         l = "unlink" => Lost(j.seen)'
  PROVE  Keeps(p, l, j)'
  BY DEF Keeps, Held, Guarded, SeenFits, RecordFits, PinFits, PendingFits, Activating, Stops,
     Staging, Served, Spawned, Ensuring

LEMMA SignalStep ==
  ASSUME TypeInv, ProxyInv, NEW p \in Procs, Signal(p)
  PROVE  ProxyInv'
<1>0. /\ pc[p] = "stop" /\ UNCHANGED <<pidfile, pending, current, port, skewed>>
      /\ pc[p] \in Stops
  BY DEF Signal, disk, Stops
<1>1. /\ job[p].op \in OpNames /\ Keeps(p, "stop", job[p]) /\ JobFits("stop", job[p])
      /\ lock = p \/ job[p].op = "uninstall"
  BY <1>0, StopLock
<1>2. pidfile # None => pidfile.pid \in Daemons
  BY DEF TypeInv, StoreOK, Record
<1>3. skewed \subseteq excused
  BY DEF ProxyInv, DaemonInv
<1>4. CASE pidfile = None /\ Stopped(p) /\ UNCHANGED <<daemon, excused>>
  <2>1. DaemonInv' /\ Fades /\ \A d \in Daemons : Lost(d) => Lost(d)'
    BY <1>0, <1>4, StoppedOnly, AsideDaemons DEF world
  <2> QED BY <1>0, <1>4, <2>1, StoppedStep
<1> DEFINE i == [job[p] EXCEPT !.seen = pidfile.pid]
<1>5. PICK j : j = i
  OBVIOUS
<1>6. /\ j.op = job[p].op /\ j.ver = job[p].ver
      /\ pidfile # None => j.seen = pidfile.pid
      /\ j.child = None /\ j.phase = "session"
  <2>1. job[p] \in Job
    BY DEF TypeInv, ControlOK
  <2> QED BY <1>1, <1>5, <2>1 DEF Job, JobFits, Spawned, Ensuring
<1>7. ASSUME NEW l \in {"dying", "unlink"}, pidfile # None, Continue(p, l, j), DaemonInv',
             job[p].op = "uninstall" => Fades,
             l = "unlink" \/ job[p].op = "uninstall" => Lost(pidfile.pid)',
             \A q \in Procs \ {p} : \A d \in Daemons : d = job[q].seen /\ Lost(d) => Lost(d)'
      PROVE  ProxyInv'
  <2>1. JobFits(l, j)
    BY <1>1, <1>2, <1>6, <1>7
    DEF JobFits, Preparing, Stops, Staging, Switching, Ensuring, Served, Spawned, OpNames
  <2>2. CASE job[p].op = "uninstall"
    <3>1. SeenFits(l, j)'
      BY <1>0, <1>6, <1>7, <2>2 DEF SeenFits
    <3> QED BY <1>0, <1>6, <1>7, <2>1, <2>2, <3>1, UninstallGoesOn
  <2>3. CASE job[p].op # "uninstall"
    <3>1. lock = p /\ lock' = p /\ exclusive' = exclusive
      BY <1>1, <1>7, <2>3 DEF Continue, locks
    <3>2. j.op \in Joining => exclusive' = p /\ pending' # None /\ pending'.ver = j.ver
      BY <1>0, <1>1, <1>6, <3>1 DEF Keeps, Guarded, PendingFits, Activating, Stops
    <3>3. (pidfile' # None => pidfile'.pid = j.seen) /\ (l = "unlink" => Lost(j.seen)')
      BY <1>0, <1>6, <1>7
    <3>4. Keeps(p, l, j)'
      BY <1>6, <2>3, <3>1, <3>2, <3>3, StopClaims
    <3> QED BY <1>7, <3>1, <3>4, ContinueStep
  <2> QED BY <2>2, <2>3
<1>8. CASE /\ pidfile # None /\ ~ Matches(pidfile) /\ Continue(p, "unlink", i)
           /\ UNCHANGED <<daemon, excused>>
  <2>1. DaemonInv' /\ Fades /\ \A d \in Daemons : Lost(d) => Lost(d)'
    BY <1>0, <1>8, ContinueTyped, GoesOnly, AsideDaemons DEF world
  <2>2. Lost(pidfile.pid)
    BY <1>3, <1>8 DEF Lost, Matches
  <2> QED BY <1>0, <1>2, <1>5, <1>7, <1>8, <2>1, <2>2
<1>9. CASE /\ pidfile # None /\ Matches(pidfile) /\ Continue(p, "dying", i)
           /\ daemon' = [daemon EXCEPT ![pidfile.pid].state = "stopping"]
           /\ excused' = IF job[p].op = "uninstall" THEN excused \cup {pidfile.pid} ELSE excused
  <2>1. Only(p) /\ pc'[p] = "dying" /\ job'[p] = j
    BY <1>5, <1>9, ContinueTyped, GoesOnly
  <2>2. /\ daemon'[pidfile.pid].state = "stopping"
        /\ \A d \in Daemons : /\ daemon'[d].bin = daemon[d].bin
                              /\ d # pidfile.pid => daemon'[d] = daemon[d]
        /\ Alive(pidfile.pid)
    BY <1>2, <1>9 DEF TypeInv, StoreOK, Matches
  <2>3. \A d \in Daemons : Alive(d)' <=> Alive(d)
    BY <1>2, <2>2 DEF Alive
  <2>4. \A d \in Daemons : /\ Lost(d) => Lost(d)'
                           /\ Lost(d)' => Lost(d) \/ d = pidfile.pid
                           /\ Lost(d)' /\ d = pidfile.pid => Lost(d) \/ job[p].op = "uninstall"
    BY <1>9, <2>3 DEF Lost
  <2>5. ASSUME NEW d \in Daemons PROVE Stopping(d)'
    <3> SUFFICES ASSUME daemon'[d].state = "stopping", d \notin excused'
                 PROVE  \E q \in Procs : pc'[q] = "dying" /\ job'[q].op # "uninstall"
                                           /\ job'[q].seen = d
      BY DEF Stopping
    <3>1. CASE d = pidfile.pid
      BY <1>6, <1>9, <2>1, <3>1
    <3>2. CASE d # pidfile.pid
      <4>1. PICK q \in Procs : pc[q] = "dying" /\ job[q].op # "uninstall" /\ job[q].seen = d
        BY <1>9, <2>2, <3>2 DEF ProxyInv, DaemonInv, Stopping
      <4> QED BY <1>0, <2>1, <4>1 DEF Only
    <3> QED BY <3>1, <3>2
  <2>6. ASSUME NEW d \in Daemons PROVE Named(d)'
    <3> SUFFICES ASSUME ~ Lost(d), pidfile.pid # d
                 PROVE  \E q \in Procs : pc'[q] = "record" /\ job'[q].child = d
      BY <1>0, <1>9, <2>4 DEF Named
    <3>1. PICK q \in Procs : pc[q] = "record" /\ job[q].child = d
      BY DEF ProxyInv, DaemonInv, Named
    <3> QED BY <1>0, <2>1, <3>1 DEF Only
  <2>7. Listening'
    <3> SUFFICES ASSUME ~ Lost(pidfile.pid), port # pidfile.pid
                 PROVE  \E q \in Procs : pc'[q] \in {"await", "reap"} /\ job'[q].child = pidfile.pid
      BY <1>0, <1>2, <2>4 DEF Listening
    <3>1. PICK q \in Procs : pc[q] \in {"await", "reap"} /\ job[q].child = pidfile.pid
      BY <1>9 DEF ProxyInv, DaemonInv, Listening
    <3> QED BY <1>0, <2>1, <3>1 DEF Only
  <2>8. skewed' \subseteq excused'
    BY <1>0, <1>3, <1>9
  <2>9. DaemonInv'
    BY <2>5, <2>6, <2>7, <2>8 DEF DaemonInv
  <2>10. ASSUME job[p].op = "uninstall" PROVE Fades /\ Lost(pidfile.pid)'
    <3>1. pidfile.pid \in excused' /\ excused \subseteq excused'
      BY <1>9, <2>10
    <3> QED BY <1>0, <2>2, <2>4, <3>1 DEF Fades, Lost, Serving
  <2> QED BY <1>0, <1>5, <1>7, <1>9, <2>4, <2>9, <2>10
<1> QED BY <1>4, <1>8, <1>9 DEF Signal

LEMMA CannotIdentifyStep ==
  ASSUME TypeInv, ProxyInv, NEW p \in Procs, CannotIdentify(p)
  PROVE  ProxyInv'
<1>1. /\ pc[p] = "stop" /\ NotStopped(p) /\ UNCHANGED <<pending, current, world, pidfile, excused>>
  BY DEF CannotIdentify, disk, history
<1>2. DaemonInv' /\ Fades /\ \A d \in Daemons : Lost(d) => Lost(d)'
  BY <1>1, StoppedOnly, AsideDaemons
<1> QED BY <1>1, <1>2, StoppedStep DEF Stops

LEMMA ExitTimesOutStep ==
  ASSUME TypeInv, ProxyInv, NEW p \in Procs, ExitTimesOut(p)
  PROVE  ProxyInv'
<1>1. /\ pc[p] = "dying" /\ NotStopped(p)
      /\ UNCHANGED <<pending, current, daemon, port, skewed, pidfile>>
      /\ excused \subseteq excused' /\ job[p].seen \in excused'
  BY DEF ExitTimesOut, disk, world
<1>2. DaemonInv' /\ Fades /\ \A d \in Daemons : Lost(d) => Lost(d)'
  BY <1>1, StoppedOnly, QuietDaemons, QuietFades DEF ProxyInv
<1> QED BY <1>1, <1>2, StoppedStep DEF Stops

LEMMA AwaitExitStep ==
  ASSUME TypeInv, ProxyInv, NEW p \in Procs, AwaitExit(p)
  PROVE  ProxyInv'
<1>1. /\ pc[p] = "dying" /\ Continue(p, "unlink", job[p])
      /\ UNCHANGED <<pending, current, daemon, port, skewed, pidfile, excused>>
      /\ ~ (Alive(job[p].seen) /\ job[p].seen \notin skewed)
  BY DEF AwaitExit, disk, world, history
<1>2. Lost(job[p].seen)
  BY <1>1 DEF Lost, ProxyInv, DaemonInv
<1>3. Only(p) /\ lock' = lock /\ exclusive' = exclusive
  BY <1>1, ContinueTyped, GoesOnly
<1>4. DaemonInv' /\ Fades /\ \A d \in Daemons : Lost(d) => Lost(d)'
  BY <1>1, <1>2, <1>3, QuietDaemons, QuietFades DEF ProxyInv, Lost, Alive
<1>5. PICK j : j = job[p]
  OBVIOUS
<1>6. /\ j.op \in OpNames /\ Keeps(p, "dying", j) /\ JobFits("dying", j) /\ Lost(j.seen)
      /\ lock = p \/ j.op = "uninstall"
  BY <1>1, <1>2, <1>5, StopLock DEF Stops
<1>7. Lost(j.seen)'
  BY <1>4, <1>6 DEF JobFits
<1>8. CASE j.op = "uninstall"
  <2>1. JobFits("unlink", j)
    BY <1>6
    DEF JobFits, Preparing, Stops, Staging, Switching, Ensuring, Served, Spawned
  <2> QED BY <1>1, <1>4, <1>5, <1>7, <1>8, <2>1, UninstallGoesOn DEF SeenFits
<1>9. CASE j.op # "uninstall"
  <2>1. Keeps(p, "unlink", j)'
    BY <1>1, <1>3, <1>6, <1>7, <1>9, StopClaims
    DEF Keeps, Guarded, RecordFits, PendingFits, Activating, Stops
  <2> QED BY <1>1, <1>4, <1>5, <1>6, <1>9, <2>1, ContinueStep
<1> QED BY <1>8, <1>9

LEMMA UnlinkStep ==
  ASSUME TypeInv, ProxyInv, NEW p \in Procs, Unlink(p)
  PROVE  ProxyInv'
<1>0. /\ pc[p] = "unlink" /\ pc[p] \in Stops /\ pidfile' = None
      /\ UNCHANGED <<pending, current, daemon, port, skewed>> /\ excused \subseteq excused'
      /\ job[p].op = "uninstall" /\ pidfile # None => pidfile.pid \in excused'
      /\ Stopped(p) \/ NotStopped(p)
  BY DEF Unlink, world, Stops
<1>1. Keeps(p, "unlink", job[p])
  BY <1>0 DEF ProxyInv
<1>2. pidfile # None => Lost(pidfile.pid) \/ pidfile.pid \in excused'
  BY <1>0, <1>1 DEF Keeps, SeenFits, RecordFits
<1>3. Only(p)
  BY <1>0, StoppedOnly
<1>4. ASSUME NEW d \in Daemons PROVE Stopping(d)' /\ Named(d)'
  <2>1. Stopping(d)'
    <3> SUFFICES ASSUME daemon[d].state = "stopping", d \notin excused'
                 PROVE  \E q \in Procs : pc'[q] = "dying" /\ job'[q].op # "uninstall"
                                           /\ job'[q].seen = d
      BY <1>0 DEF Stopping
    <3>1. PICK q \in Procs : pc[q] = "dying" /\ job[q].op # "uninstall" /\ job[q].seen = d
      BY <1>0 DEF ProxyInv, DaemonInv, Stopping
    <3> QED BY <1>0, <1>3, <3>1 DEF Only
  <2>2. Named(d)'
    <3> SUFFICES ASSUME Alive(d), d \notin excused'
                 PROVE  \E q \in Procs : pc'[q] = "record" /\ job'[q].child = d
      BY <1>0 DEF Named, Lost, Alive
    <3>1. PICK q \in Procs : pc[q] = "record" /\ job[q].child = d
      BY <1>0, <1>2 DEF ProxyInv, DaemonInv, Named, Lost
    <3> QED BY <1>0, <1>3, <3>1 DEF Only
  <2> QED BY <2>1, <2>2
<1>5. DaemonInv'
  BY <1>0, <1>4 DEF ProxyInv, DaemonInv, Listening
<1>6. lock = p \/ job[p].op = "uninstall"
  BY <1>0, StopLock
<1>7. ASSUME job[p].op = "uninstall" PROVE Fades
  <2>1. pidfile # None => pidfile.pid \in excused'
    BY <1>0, <1>7
  <2> QED BY <1>0, <2>1 DEF Fades, Lost, Alive, Serving
<1>8. \A d \in Daemons : Lost(d) => Lost(d)'
  BY <1>0 DEF Lost, Alive
<1> QED BY <1>0, <1>5, <1>6, <1>7, <1>8, StoppedStep

\* Of the processes under the lock there is one.
LEMMA OneEnsures ==
  ASSUME TypeInv, ProxyInv, NEW p \in Procs, lock = p, NEW q \in Procs, pc[q] \in Spawned
  PROVE  q = p
<1>1. lock = q
  BY LockedJoins, HasLock DEF Spawned, Ensuring, Locked, Stops
<1> QED BY <1>1

LEMMA ProbeStep ==
  ASSUME TypeInv, ProxyInv, NEW p \in Procs, Probe(p) \/ CannotConfirm(p)
  PROVE  ProxyInv'
<1>0. /\ pc[p] = "probe" /\ pc[p] \in Ensuring
      /\ UNCHANGED <<pending, current, daemon, port, skewed, pidfile, excused, world>>
  BY DEF Probe, CannotConfirm, disk, world, history, Ensuring
<1>1. lock = p
  BY <1>0, LockedJoins, HasLock DEF Ensuring, Locked, Stops
<1>2. JobFits("probe", job[p]) /\ job[p] \in Job /\ Keeps(p, "probe", job[p])
  BY <1>0 DEF TypeInv, ControlOK, ProxyInv
<1>3. \A d \in Daemons : Lost(d) => Lost(d)'
  BY <1>0 DEF Lost, Alive
<1>4. ASSUME Only(p) PROVE DaemonInv'
  BY <1>0, <1>4, AsideDaemons
<1>5. CASE NotRunning(p)
  <2>1. Only(p)
    BY <1>0, <1>5, NotRunningGoes, ActivatedGoes, FinishTyped, ContinueTyped, GoesOnly
  <2> QED BY <1>0, <1>1, <1>3, <1>4, <1>5, <2>1, NotRunningStep
<1>6. CASE Verified /\ Running(p, port) /\ ~ NotRunning(p)
  <2>1. port \in Daemons /\ pidfile.pid = port
    BY <1>6, VerifiedPort
  <2>2. Only(p)
    BY <1>0, <1>6, <2>1, RunningGoes, ActivatedGoes, FinishTyped, ContinueTyped, GoesOnly
  <2>3. job[p].config.pin # None => daemon[port].bin = job[p].config.pin
    <3>1. Probe(p) /\ port # None
      BY <1>6, <2>1, Constants DEF CannotConfirm
    <3>2. ~ (Down /\ Resolve(job[p].config.pin) # None
               /\ Continue(p, "spawn", [job[p] EXCEPT !.bin = Resolve(job[p].config.pin)]))
      BY <3>1 DEF Down
    <3>3. job[p].config.pin = None \/ daemon[pidfile.pid].bin = job[p].config.pin
      BY <1>6, <3>1, <3>2 DEF Probe, Down
    <3> QED BY <2>1, <3>3
  <2> QED BY <1>0, <1>1, <1>4, <1>6, <2>2, <2>3, RunningStep
<1>7. ASSUME Down, Resolve(job[p].config.pin) # None,
             Continue(p, "spawn", [job[p] EXCEPT !.bin = Resolve(job[p].config.pin)])
      PROVE  ProxyInv'
  <2>1. PICK j : j = [job[p] EXCEPT !.bin = Resolve(job[p].config.pin)]
    OBVIOUS
  <2>2. /\ j.op = job[p].op /\ j.ver = job[p].ver /\ j.config = job[p].config
        /\ j.phase = job[p].phase /\ j.bin = Resolve(job[p].config.pin)
    BY <1>2, <2>1 DEF Job
  <2>3. job[p].config.pin \in VersionOrNone
    BY <1>2, JobFields, ConfigFields
  <2>4. j.config.pin # None => j.bin = j.config.pin
    BY <1>7, <2>2, <2>3, ResolveTyped
  <2>5. pidfile # None => Lost(pidfile.pid)
    <3> SUFFICES ASSUME pidfile # None, ~ Lost(pidfile.pid) PROVE FALSE
      OBVIOUS
    <3>1. pidfile.pid \in Daemons /\ port # pidfile.pid
      BY <1>7, Constants DEF TypeInv, StoreOK, Record, Down
    <3>2. PICK q \in Procs : pc[q] \in {"await", "reap"}
      BY <3>1 DEF ProxyInv, DaemonInv, Listening
    <3> QED BY <1>0, <1>1, <3>2, OneEnsures DEF Spawned
  <2>6. Only(p) /\ lock' = p /\ Continue(p, "spawn", j)
    BY <1>1, <1>7, <2>1, ContinueTyped, GoesOnly
  <2>7. pidfile' # None => Lost(pidfile.pid)'
    BY <1>0, <2>5 DEF Lost, Alive
  <2>8. Keeps(p, "spawn", j)'
    BY <1>0, <1>2, <2>2, <2>4, <2>6, <2>7
    DEF Keeps, Held, Guarded, SeenFits, RecordFits, PinFits, PendingFits, Activating, Stops,
        Staging, Served, Spawned, Ensuring
  <2> QED BY <1>1, <1>3, <1>4, <2>6, <2>8, ContinueStep
<1> QED BY <1>5, <1>6, <1>7 DEF Probe, CannotConfirm

LEMMA SpawnStep ==
  ASSUME TypeInv, ProxyInv, NEW p \in Procs, Spawn(p)
  PROVE  ProxyInv'
<1>0. /\ pc[p] = "spawn" /\ UNCHANGED <<pending, current, port, pidfile>>
  BY DEF Spawn, disk
<1>1. lock = p
  BY <1>0, LockedJoins, HasLock DEF Ensuring, Locked, Stops
<1>2. JobFits("spawn", job[p]) /\ job[p] \in Job /\ Keeps(p, "spawn", job[p])
  BY <1>0 DEF TypeInv, ControlOK, ProxyInv
<1>3. PICK d \in NextPid :
        /\ daemon' = [daemon EXCEPT ![d] = [state |-> "alive", bin |-> job[p].bin]]
        /\ skewed' = skewed \ {d} /\ excused' = excused \ {d}
        /\ Continue(p, "record", [job[p] EXCEPT !.child = d, !.bin = None])
  BY DEF Spawn
<1>4. PICK j : j = [job[p] EXCEPT !.child = d, !.bin = None]
  OBVIOUS
<1>5. /\ j.op = job[p].op /\ j.ver = job[p].ver /\ j.config = job[p].config
      /\ j.phase = job[p].phase /\ j.child = d
  BY <1>2, <1>4 DEF Job
<1>6. /\ d \in Daemons /\ ~ Alive(d)
      /\ pidfile # None => pidfile.pid # d /\ pidfile.pid \in Daemons
      /\ \A q \in Procs : job[q].seen # d /\ job[q].child # d
  BY DEF NextPid, Fresh, TypeInv, StoreOK, Record
<1>7. Only(p) /\ pc'[p] = "record" /\ job'[p] = j /\ lock' = p /\ Continue(p, "record", j)
  BY <1>1, <1>3, <1>4, ContinueTyped, GoesOnly
<1>8. /\ daemon'[d].state = "alive" /\ daemon'[d].bin = job[p].bin
      /\ \A e \in Daemons : e # d => daemon'[e] = daemon[e] /\ (e \in excused' <=> e \in excused)
  BY <1>3, <1>6 DEF TypeInv, StoreOK
<1>9. \A e \in Daemons : e # d => (Lost(e)' <=> Lost(e))
  BY <1>8 DEF Lost, Alive
<1>10. pidfile' # None => Lost(pidfile.pid)'
  <2>1. pidfile # None => Lost(pidfile.pid)
    BY <1>2, LockedJoins, <1>0 DEF Keeps, RecordFits, Ensuring, Locked, Stops
  <2>2. pidfile # None => Lost(pidfile.pid)'
    BY <1>0, <1>6, <1>9, <2>1
  <2> QED BY <1>0, <2>2
<1>11. Keeps(p, "record", j)'
  BY <1>0, <1>2, <1>5, <1>7, <1>8, <1>10
  DEF Keeps, Held, Guarded, SeenFits, RecordFits, PinFits, PendingFits, Activating, Stops,
      Staging, Served, Spawned, Ensuring
<1>12. ASSUME NEW e \in Daemons PROVE Stopping(e)' /\ Named(e)'
  <2>1. Stopping(e)'
    <3> SUFFICES ASSUME daemon'[e].state = "stopping", e \notin excused'
                 PROVE  \E q \in Procs : pc'[q] = "dying" /\ job'[q].op # "uninstall"
                                           /\ job'[q].seen = e
      BY DEF Stopping
    <3>1. PICK q \in Procs : pc[q] = "dying" /\ job[q].op # "uninstall" /\ job[q].seen = e
      BY <1>8 DEF ProxyInv, DaemonInv, Stopping
    <3> QED BY <1>0, <1>7, <3>1 DEF Only
  <2>2. Named(e)'
    <3>1. CASE e = d
      BY <1>5, <1>7, <3>1 DEF Named
    <3>2. CASE e # d
      <4> SUFFICES ASSUME ~ Lost(e), ~ (pidfile # None /\ pidfile.pid = e)
                   PROVE  \E q \in Procs : pc'[q] = "record" /\ job'[q].child = e
        BY <1>0, <1>9, <3>2 DEF Named
      <4>1. PICK q \in Procs : pc[q] = "record" /\ job[q].child = e
        BY DEF ProxyInv, DaemonInv, Named
      <4> QED BY <1>0, <1>7, <4>1 DEF Only
    <3> QED BY <3>1, <3>2
  <2> QED BY <2>1, <2>2
<1>13. Listening'
  BY <1>10 DEF Listening
<1>14. DaemonInv'
  BY <1>3, <1>12, <1>13 DEF DaemonInv, ProxyInv
<1> QED BY <1>1, <1>6, <1>7, <1>9, <1>11, <1>14, ContinueStep

LEMMA RecordPidStep ==
  ASSUME TypeInv, ProxyInv, NEW p \in Procs, RecordPid(p)
  PROVE  ProxyInv'
<1>0. /\ pc[p] = "record" /\ Continue(p, "await", job[p])
      /\ UNCHANGED <<pending, current, port, daemon, skewed, excused>>
      /\ pidfile' = [pid |-> job[p].child, guarded |-> TRUE]
  BY DEF RecordPid, world, history
<1>1. lock = p /\ job[p].op # "uninstall"
  BY <1>0, LockedJoins, HasLock DEF Ensuring, Locked, Stops
<1>2. PICK j : j = job[p]
  OBVIOUS
<1>3. JobFits("record", j) /\ Keeps(p, "record", j)
  BY <1>0, <1>2 DEF TypeInv, ControlOK, ProxyInv
<1>4. Only(p) /\ pc'[p] = "await" /\ job'[p] = j /\ lock' = p
  BY <1>0, <1>1, <1>2, ContinueTyped, GoesOnly
<1>5. \A d \in Daemons : Lost(d) => Lost(d)'
  BY <1>0 DEF Lost, Alive
<1>6. pidfile'.pid = j.child /\ pidfile' # None
  <2>1. pidfile' \in Record
    BY <1>0, <1>2, <1>3 DEF JobFits, Spawned, Record
  <2> QED BY <1>0, <1>2, <2>1, Constants
<1>7. Keeps(p, "await", j)'
  BY <1>0, <1>3, <1>4, <1>6
  DEF Keeps, Held, Guarded, SeenFits, RecordFits, PinFits, PendingFits, Activating, Stops,
      Staging, Served, Spawned, Ensuring
<1>8. ASSUME NEW e \in Daemons PROVE Stopping(e)' /\ Named(e)'
  <2>1. Stopping(e)'
    <3> SUFFICES ASSUME daemon[e].state = "stopping", e \notin excused
                 PROVE  \E q \in Procs : pc'[q] = "dying" /\ job'[q].op # "uninstall"
                                           /\ job'[q].seen = e
      BY <1>0 DEF Stopping
    <3>1. PICK q \in Procs : pc[q] = "dying" /\ job[q].op # "uninstall" /\ job[q].seen = e
      BY DEF ProxyInv, DaemonInv, Stopping
    <3> QED BY <1>0, <1>4, <3>1 DEF Only
  <2>2. Named(e)'
    <3> SUFFICES ASSUME ~ Lost(e) PROVE e = j.child
      BY <1>0, <1>6 DEF Named, Lost, Alive
    <3>1. ~ (pidfile # None /\ pidfile.pid = e)
      BY <1>1, <1>2, <1>3 DEF Keeps, RecordFits
    <3>2. PICK q \in Procs : pc[q] = "record" /\ job[q].child = e
      BY <3>1 DEF ProxyInv, DaemonInv, Named
    <3>3. q = p
      BY <1>1, <3>2, OneEnsures DEF Spawned
    <3> QED BY <1>2, <3>2, <3>3
  <2> QED BY <2>1, <2>2
<1>9. Listening'
  BY <1>4, <1>6 DEF Listening
<1>10. DaemonInv'
  BY <1>0, <1>8, <1>9 DEF DaemonInv, ProxyInv
<1> QED BY <1>0, <1>1, <1>2, <1>5, <1>7, <1>10, ContinueStep

LEMMA ComesUpStep ==
  ASSUME TypeInv, ProxyInv, NEW p \in Procs, ComesUp(p)
  PROVE  ProxyInv'
<1>0. /\ pc[p] = "await" /\ pc[p] \in Ensuring /\ Verified /\ Running(p, port)
      /\ UNCHANGED <<pending, current, daemon, port, skewed, pidfile, excused>>
  BY DEF ComesUp, disk, world, history, Ensuring
<1>1. lock = p /\ job[p].op # "uninstall"
  BY <1>0, LockedJoins, HasLock DEF Ensuring, Locked, Stops
<1>2. port \in Daemons /\ pidfile.pid = port /\ pidfile # None
  BY <1>0, VerifiedPort
<1>3. Keeps(p, "await", job[p])
  BY <1>0 DEF ProxyInv
<1>4. job[p].child = port
  BY <1>1, <1>2, <1>3 DEF Keeps, RecordFits
<1>5. job[p].config.pin # None => daemon[port].bin = job[p].config.pin
  BY <1>3, <1>4 DEF Keeps, PinFits, Spawned
<1>6. Only(p)
  BY <1>0, <1>2, RunningGoes, ActivatedGoes, FinishTyped, ContinueTyped, GoesOnly
<1>7. DaemonInv'
  BY <1>0, <1>2, <1>6, QuietDaemons DEF ProxyInv
<1> QED BY <1>0, <1>1, <1>5, <1>7, RunningStep

LEMMA StartFailsStep ==
  ASSUME TypeInv, ProxyInv, NEW p \in Procs, StartFails(p)
  PROVE  ProxyInv'
<1>0. /\ pc[p] = "await" /\ Continue(p, "reap", job[p])
      /\ UNCHANGED <<pending, current, daemon, port, skewed, pidfile, excused>>
  BY DEF StartFails, disk, world, history
<1>1. lock = p
  BY <1>0, LockedJoins, HasLock DEF Ensuring, Locked, Stops
<1>2. PICK j : j = job[p]
  OBVIOUS
<1>3. Keeps(p, "await", j)
  BY <1>0, <1>2 DEF ProxyInv
<1>4. Only(p) /\ pc'[p] = "reap" /\ job'[p] = j /\ lock' = p
  BY <1>0, <1>1, <1>2, ContinueTyped, GoesOnly
<1>5. DaemonInv' /\ \A d \in Daemons : Lost(d) => Lost(d)'
  BY <1>0, <1>2, <1>4, QuietDaemons, QuietFades DEF ProxyInv
<1>6. Keeps(p, "reap", j)'
  BY <1>0, <1>3, <1>4
  DEF Keeps, Held, Guarded, SeenFits, RecordFits, PinFits, PendingFits, Activating, Stops,
      Staging, Served, Spawned, Ensuring
<1> QED BY <1>0, <1>1, <1>2, <1>5, <1>6, ContinueStep

\* A daemon goes: whoever awaits or stops it finds it gone.
LEMMA GoneFades ==
  ASSUME TypeInv, NEW d \in Daemons, Gone(d), excused \subseteq excused'
  PROVE  /\ \A e \in Daemons : Lost(e) => Lost(e)'
         /\ Lost(d)'
         /\ \A e \in Daemons : e # d /\ e \notin excused' => (Lost(e)' => Lost(e))
<1>1. /\ daemon'[d].state = "gone"
      /\ \A e \in Daemons : e # d => daemon'[e] = daemon[e]
  BY GoneTyped
<1> QED BY <1>1 DEF Lost, Alive

LEMMA ReapStep ==
  ASSUME TypeInv, ProxyInv, NEW p \in Procs, Reap(p)
  PROVE  ProxyInv'
<1>0. /\ pc[p] = "reap" /\ pc[p] \in Ensuring /\ Gone(job[p].child) /\ pidfile' = None
      /\ NotRunning(p) /\ UNCHANGED <<pending, current, skewed, excused>>
  BY DEF Reap, history, Ensuring
<1>1. lock = p /\ job[p].op # "uninstall" /\ job[p].child \in Daemons
  BY <1>0, LockedJoins, HasLock DEF Ensuring, Locked, Stops, TypeInv, ControlOK, JobFits, Spawned
<1>2. Keeps(p, "reap", job[p])
  BY <1>0 DEF ProxyInv
<1>3. pidfile # None => pidfile.pid = job[p].child
  BY <1>1, <1>2 DEF Keeps, RecordFits
<1>4. Only(p)
  BY <1>0, NotRunningGoes, ActivatedGoes, FinishTyped, ContinueTyped, GoesOnly
<1>5. /\ daemon'[job[p].child].state = "gone"
      /\ \A e \in Daemons : e # job[p].child => daemon'[e] = daemon[e]
  BY <1>0, <1>1, GoneTyped
<1>6. \A d \in Daemons : Lost(d) => Lost(d)'
  BY <1>0, <1>1, GoneFades
<1>7. ASSUME NEW d \in Daemons PROVE Stopping(d)' /\ Named(d)'
  <2>1. CASE d = job[p].child
    BY <1>5, <2>1 DEF Stopping, Named, Lost, Alive
  <2>2. CASE d # job[p].child
    <3>1. Stopping(d)'
      <4> SUFFICES ASSUME daemon[d].state = "stopping", d \notin excused
                   PROVE  \E q \in Procs : pc'[q] = "dying" /\ job'[q].op # "uninstall"
                                             /\ job'[q].seen = d
        BY <1>0, <1>5, <2>2 DEF Stopping
      <4>1. PICK q \in Procs : pc[q] = "dying" /\ job[q].op # "uninstall" /\ job[q].seen = d
        BY DEF ProxyInv, DaemonInv, Stopping
      <4> QED BY <1>0, <1>4, <4>1 DEF Only
    <3>2. Named(d)'
      <4> SUFFICES ASSUME Alive(d), d \notin excused
                   PROVE  \E q \in Procs : pc'[q] = "record" /\ job'[q].child = d
        BY <1>0, <1>5, <2>2 DEF Named, Lost, Alive
      <4>1. PICK q \in Procs : pc[q] = "record" /\ job[q].child = d
        BY <1>3, <2>2 DEF ProxyInv, DaemonInv, Named, Lost
      <4> QED BY <1>0, <1>4, <4>1 DEF Only
    <3> QED BY <3>1, <3>2
  <2> QED BY <2>1, <2>2
<1>8. DaemonInv'
  BY <1>0, <1>7 DEF ProxyInv, DaemonInv, Listening
<1> QED BY <1>0, <1>1, <1>6, <1>8, NotRunningStep

-----------------------------------------------------------------------------
(* What happens outside the commands, and to them.                          *)

LEMMA GoneStep ==
  ASSUME TypeInv, ProxyInv, NEW d \in Daemons, Gone(d), excused \subseteq excused',
         d \in excused' \/ ~ Serving(d), UNCHANGED <<disk, skewed, locks, pc, job>>
  PROVE  ProxyInv'
<1>0. /\ daemon'[d].state = "gone" /\ daemon'[d].bin = daemon[d].bin
      /\ \A e \in Daemons : e # d => daemon'[e] = daemon[e]
      /\ port' = (IF port = d THEN None ELSE port)
      /\ UNCHANGED <<pidfile, pending, current, lock, exclusive, leases>>
  BY GoneTyped DEF disk, locks
<1>1. \A e \in Daemons : Lost(e) => Lost(e)'
  BY GoneFades
<1>2. ASSUME NEW e \in Daemons, e \in excused \/ Serving(e) PROVE e \in excused' \/ Serving(e)'
  BY <1>0, <1>2 DEF Serving
<1>3. ASSUME NEW e \in Daemons PROVE daemon'[e].bin = daemon[e].bin
  BY <1>0
<1>4. Decays
  BY <1>0, <1>1, <1>2, <1>3 DEF Decays, Fades
<1>5. ASSUME NEW e \in Daemons PROVE Stopping(e)' /\ Named(e)'
  <2>1. CASE e = d
    BY <1>0, <2>1 DEF Stopping, Named, Lost, Alive
  <2>2. CASE e # d
    BY <1>0, <2>2 DEF Stopping, Named, Lost, Alive, ProxyInv, DaemonInv
  <2> QED BY <2>1, <2>2
<1>6. Listening'
  <2> SUFFICES ASSUME pidfile # None, Alive(pidfile.pid)', pidfile.pid \notin excused',
                      port' # pidfile.pid
               PROVE  \E q \in Procs : pc[q] \in {"await", "reap"} /\ job[q].child = pidfile.pid
    BY <1>0 DEF Listening, Lost
  <2>1. pidfile.pid \in Daemons
    BY DEF TypeInv, StoreOK, Record
  <2>2. pidfile.pid # d
    BY <1>0 DEF Alive
  <2> QED BY <1>0, <2>1, <2>2 DEF ProxyInv, DaemonInv, Listening, Lost, Alive
<1>7. DaemonInv'
  BY <1>5, <1>6 DEF ProxyInv, DaemonInv
<1> QED BY <1>4, <1>7, OutsideStep

LEMMA DaemonStep ==
  ASSUME TypeInv, ProxyInv, NEW d \in Daemons, Bind(d) \/ Exit(d) \/ BrokenExits(d) \/ Crash(d)
  PROVE  ProxyInv'
<1>1. CASE Gone(d)
  <2>1. /\ excused \subseteq excused' /\ UNCHANGED <<disk, skewed, locks, pc, job>>
        /\ d \in excused' \/ ~ Serving(d)
    BY DEF Bind, Exit, BrokenExits, Crash, history, Serving
  <2> QED BY <1>1, <2>1, GoneStep
<1>2. CASE Down /\ port' = d /\ UNCHANGED <<daemon, disk, skewed, locks, pc, job, history>>
  <2>1. /\ port = None
        /\ UNCHANGED <<pidfile, pending, current, lock, exclusive, leases, daemon, skewed,
                       excused, pc, job>>
    BY <1>2 DEF Down, disk, locks, history
  <2>2. Decays
    BY <2>1, Constants DEF Decays, Fades, Lost, Alive, Serving
  <2>3. pidfile # None => pidfile.pid # port
    BY <2>1, Constants DEF TypeInv, StoreOK, Record
  <2>4. Listening'
    BY <2>1, <2>3 DEF Listening, Lost, Alive, ProxyInv, DaemonInv
  <2>5. DaemonInv'
    BY <2>1, <2>4 DEF ProxyInv, DaemonInv, Stopping, Named, Lost, Alive
  <2> QED BY <1>2, <2>2, <2>5, OutsideStep
<1> QED BY <1>1, <1>2 DEF Bind, Exit, BrokenExits, Crash

LEMMA OutsideSteps ==
  ASSUME TypeInv, ProxyInv, EditConfig \/ ClockJumps \/ ForeignListens
  PROVE  ProxyInv'
<1>0. /\ UNCHANGED <<pidfile, pending, current, daemon, lock, exclusive, leases, pc, job>>
      /\ excused \subseteq excused'
  BY DEF EditConfig, ClockJumps, ForeignListens, disk, world, locks, history
<1>1. port' = port \/ (port \notin Daemons /\ port' \notin Daemons)
  BY Constants DEF EditConfig, ClockJumps, ForeignListens, world, Down
<1>2. skewed' \subseteq excused'
  BY DEF EditConfig, ClockJumps, ForeignListens, world, history, ProxyInv, DaemonInv
<1>3. Decays
  BY <1>0, <1>1 DEF Decays, Fades, Lost, Alive, Serving
<1>4. pidfile # None => pidfile.pid \in Daemons
  BY DEF TypeInv, StoreOK, Record
<1>5. Listening'
  BY <1>0, <1>1, <1>4 DEF Listening, Lost, Alive, ProxyInv, DaemonInv
<1>6. DaemonInv'
  BY <1>0, <1>2, <1>5 DEF ProxyInv, DaemonInv, Stopping, Named, Lost, Alive
<1> QED BY <1>0, <1>3, <1>6, OutsideStep DEF locks

LEMMA KillStep ==
  ASSUME TypeInv, ProxyInv, NEW p \in Procs, Kill(p)
  PROVE  ProxyInv'
<1>0. /\ Finish(p) /\ UNCHANGED <<pidfile, pending, current, daemon, port, skewed>>
      /\ excused \subseteq excused'
      /\ pc[p] = "dying" => job[p].seen \in excused'
      /\ pc[p] \in {"record", "await", "reap"} => job[p].child \in excused'
  BY DEF Kill, disk, world
<1>1. Only(p)
  BY <1>0, FinishTyped, GoesOnly
<1>2. DaemonInv'
  BY <1>0, <1>1, QuietDaemons DEF ProxyInv
<1>3. Fades /\ \A d \in Daemons : Lost(d) => Lost(d)'
  BY <1>0, QuietFades
<1> QED BY <1>0, <1>2, <1>3, FinishStep

LEMMA ProxyInit == Init => ProxyInv
<1> SUFFICES ASSUME Init PROVE ProxyInv
  OBVIOUS
<1>1. LeaseInv /\ \A p \in Procs : Keeps(p, pc[p], job[p])
  <2>1. exclusive = None /\ \A p \in Procs : pc[p] = "idle"
    BY DEF Init
  <2> QED BY <2>1, NoClaims DEF LeaseInv, Unclaimed
<1>2. skewed \subseteq excused
  BY DEF Init
<1> DEFINE gone == [d \in Daemons |-> [state |-> "gone", bin |-> None]]
<1>3. CASE daemon = gone
  <2>1. \A d \in Daemons : daemon[d].state = "gone"
    BY <1>3
  <2>2. pidfile # None => pidfile.pid \in Daemons
    BY TypeInit DEF TypeInv, StoreOK, Record
  <2> QED BY <1>1, <1>2, <2>1, <2>2 DEF ProxyInv, DaemonInv, Stopping, Named, Listening, Lost, Alive
<1>4. CASE daemon # gone
  <2>1. PICK e \in Daemons :
          /\ pidfile # None /\ pidfile.pid = e /\ port = e
          /\ daemon = [gone EXCEPT ![e] = [state |-> "alive", bin |-> Resolve(None)]]
    <3>1. pidfile # None => pidfile \in Record
      BY TypeInit DEF TypeInv, StoreOK
    <3>2. PICK e \in Daemons, guarded \in BOOLEAN :
            /\ pidfile = [pid |-> e, guarded |-> guarded] /\ port = e
            /\ daemon = [gone EXCEPT ![e] = [state |-> "alive", bin |-> Resolve(None)]]
      BY <1>4 DEF Init
    <3>3. [pid |-> e, guarded |-> guarded] \in Record
      BY DEF Record
    <3> QED BY <3>2, <3>3, Constants
  <2>2. \A d \in Daemons : d # e => daemon[d].state = "gone"
    BY <2>1
  <2>3. daemon[e].state = "alive"
    BY <2>1
  <2> QED BY <1>1, <1>2, <2>1, <2>2, <2>3
          DEF ProxyInv, DaemonInv, Stopping, Named, Listening, Lost, Alive
<1> QED BY <1>3, <1>4

LEMMA ProxyNext == TypeInv /\ ProxyInv /\ [Next]_vars => ProxyInv'
<1> SUFFICES ASSUME TypeInv, ProxyInv, [Next]_vars PROVE ProxyInv'
  OBVIOUS
<1>1. CASE UNCHANGED vars
  <2>1. UNCHANGED <<pidfile, pending, current, daemon, port, skewed, excused, lock, exclusive,
                    leases, pc, job>>
    BY <1>1 DEF vars, disk, world, locks, history
  <2>2. Decays
    BY <2>1 DEF Decays, Fades, Lost, Alive, Serving
  <2>3. DaemonInv'
    BY <2>1 DEF ProxyInv, DaemonInv, Stopping, Named, Listening, Lost, Alive
  <2> QED BY <2>1, <2>2, <2>3, OutsideStep DEF locks
<1>2. ASSUME NEW p \in Procs, Start(p) \/ Step(p) \/ SessionEnds(p) \/ Fails(p)
      PROVE  ProxyInv'
  BY <1>2, StartStep, ReadBaseStep, TryLockStep, DecideStep, InstallStep, MarkStep,
     AcquireStep, JoinStep, DowngradeStep, UnlockStep, SessionEndsStep, CheckStep, IdentifyStep,
     SwitchStep, ClearPendingStep, SignalStep, CannotIdentifyStep, ExitTimesOutStep,
     AwaitExitStep, UnlinkStep, ProbeStep, SpawnStep, RecordPidStep, ComesUpStep,
     StartFailsStep, ReapStep, KillStep
  DEF Step, Fails
<1>3. ASSUME NEW d \in Daemons, Serve(d) \/ BrokenExits(d) \/ Crash(d)
      PROVE  ProxyInv'
  BY <1>3, DaemonStep DEF Serve
<1>4. CASE EditConfig \/ ClockJumps \/ ForeignListens
  BY <1>4, OutsideSteps
<1> QED BY <1>1, <1>2, <1>3, <1>4 DEF Next

LEMMA ProxyAlways == Spec => []TypeInv /\ []ProxyInv
  BY TypeInit, TypeNext, ProxyInit, ProxyNext, PTL DEF Spec

-----------------------------------------------------------------------------
(* The properties.                                                          *)

LEMMA StrayImplied == TypeInv /\ ProxyInv => NoStrayProxy
<1> SUFFICES ASSUME TypeInv, ProxyInv, NEW d \in Daemons \ excused, Alive(d)
             PROVE  d \in AtWork \/ (pidfile # None /\ pidfile.pid = d)
  BY DEF NoStrayProxy
<1> QED BY DEF ProxyInv, DaemonInv, Named, Lost, AtWork

\* However many commands start, stop and replace it, fail and are killed: a proxy
\* that runs is named by the pid file or some command is at it, unless a fault
\* came between.
THEOREM NoStrayCorrect == Spec => []NoStrayProxy
  BY ProxyAlways, StrayImplied, PTL

LEMMA PinImplied == ProxyInv => PinnedPair
  BY DEF ProxyInv, Keeps, PinFits, Served, PinnedPair

\* Whatever was activated or started just before: a session under a pinned pair
\* is served by the pinned proxy.
THEOREM PinnedCorrect == Spec => []PinnedPair
  BY ProxyAlways, PinImplied, PTL

\* A command's place is changed by its own steps.
LEMMA Moves ==
  ASSUME TypeInv, NEW p \in Procs,
         Finish(p) \/ Activated(p) \/ NotRunning(p) \/ Stopped(p) \/ NotStopped(p)
           \/ \E d : Running(p, d)
  PROVE  \E l : Go(p, l)
<1>1. (\E l, j : Continue(p, l, j)) \/ Finish(p) => \E l : Go(p, l)
  BY DEF Continue, Finish
<1>2. Activated(p) => \E l : Go(p, l)
  BY <1>1 DEF Activated
<1>3. job[p].phase \in Phases
  BY DEF TypeInv, ControlOK, Job
<1>4. NotRunning(p) \/ (\E d : Running(p, d)) => \E l : Go(p, l)
  <2>1. CASE job[p].phase = "session"
    BY <1>1, <2>1 DEF NotRunning, Running
  <2>2. CASE job[p].phase = "restored"
    BY <1>2, <2>2 DEF NotRunning, Running
  <2>3. CASE job[p].phase = "activated"
    <3>1. (\E d : Running(p, d)) => \E l : Go(p, l)
      BY <1>1, <2>3 DEF Running
    <3>2. NotRunning(p) => \E l : Go(p, l)
      BY <1>1, <1>2, <2>3 DEF NotRunning
    <3> QED BY <3>1, <3>2
  <2> QED BY <1>3, <2>1, <2>2, <2>3 DEF Phases
<1> QED BY <1>1, <1>2, <1>4 DEF Stopped, NotStopped

LEMMA OnlyItself ==
  ASSUME TypeInv, NEW q \in Procs, Start(q) \/ Step(q) \/ SessionEnds(q) \/ Fails(q)
  PROVE  \A r \in Procs : r # q => pc'[r] = pc[r]
<1>1. \E l : Go(q, l)
  <2>1. (\E l, j : Continue(q, l, j)) => \E l : Go(q, l)
    BY DEF Continue
  <2>2. Start(q) \/ ReadBase(q) \/ TryLock(q) \/ Decide(q) \/ Install(q) \/ Mark(q) \/ Acquire(q)
          \/ Join(q) \/ Downgrade(q) \/ Unlock(q) \/ SessionEnds(q) => \E l : Go(q, l)
    BY <2>1, Moves DEF Start, ReadBase, TryLock, Decide, Install, Mark, Acquire, Join,
       Downgrade, Unlock, SessionEnds
  <2>3. Check(q) \/ Identify(q) \/ CannotVerify(q) \/ Switch(q) \/ ClearPending(q) \/ SwitchBack(q)
          => \E l : Go(q, l)
    BY <2>1, Moves DEF Check, Identify, CannotVerify, Switch, ClearPending, SwitchBack
  <2>4. Signal(q) \/ CannotIdentify(q) \/ AwaitExit(q) \/ ExitTimesOut(q) \/ Unlink(q)
          => \E l : Go(q, l)
    BY <2>1, Moves DEF Signal, CannotIdentify, AwaitExit, ExitTimesOut, Unlink
  <2>5. Probe(q) \/ CannotConfirm(q) \/ Spawn(q) \/ RecordPid(q) \/ ComesUp(q) \/ StartFails(q)
          \/ Reap(q) \/ Kill(q) => \E l : Go(q, l)
    BY <2>1, Moves DEF Probe, CannotConfirm, Spawn, RecordPid, ComesUp, StartFails, Reap, Kill
  <2> QED BY <2>2, <2>3, <2>4, <2>5 DEF Step, Fails
<1> QED BY <1>1 DEF Go, TypeInv, ControlOK

\* SIGTERM goes to the process the record names, and nobody else sends it.
LEMMA WhoSignals ==
  ASSUME TypeInv, [Next]_vars, NEW p \in Procs, pc[p] = "stop", pc'[p] = "dying"
  PROVE  pidfile # None
<1>1. pc' # pc
  BY DEF TypeInv, ControlOK
<1>2. PICK q \in Procs : Start(q) \/ Step(q) \/ SessionEnds(q) \/ Fails(q)
  BY <1>1 DEF Next, vars, Serve, EditConfig, ClockJumps, ForeignListens, Bind, Exit,
     BrokenExits, Crash
<1>3. q = p
  BY <1>2, OnlyItself
<1>4. Signal(p) \/ CannotIdentify(p) \/ Kill(p)
  BY <1>2, <1>3
  DEF Step, Fails, Start, ReadBase, TryLock, Decide, Install, Mark, Acquire, Join, Downgrade,
      Unlock, SessionEnds, Check, Identify, CannotVerify, Switch, ClearPending, SwitchBack,
      AwaitExit, ExitTimesOut, Unlink, Probe, CannotConfirm, Spawn, RecordPid, ComesUp,
      StartFails, Reap
<1>5. ~ Finish(p)
  BY FinishTyped, GoesOnly
<1>6. ~ (Stopped(p) \/ NotStopped(p))
  BY StoppedOnly DEF Stops
<1> QED BY <1>4, <1>5, <1>6 DEF Signal, CannotIdentify, Kill

LEMMA KeepsProxyStep ==
  ASSUME TypeInv, ProxyInv, [Next]_vars, NEW p \in Procs, pc[p] = "stop", pc'[p] = "dying",
         job[p].op \in {"launch", "update"}
  PROVE  leases = {} /\ (pidfile.guarded \/ Explicit(p))
<1>1. Keeps(p, "stop", job[p]) /\ LeaseInv
  BY DEF ProxyInv
<1>2. exclusive = p
  BY <1>1 DEF Keeps, Guarded, Stops, Joining
<1>3. leases = {}
  BY <1>1, <1>2, Constants DEF LeaseInv
<1>4. pidfile.guarded \/ Explicit(p)
  BY <1>1, WhoSignals DEF Keeps, RecordFits, Explicit, Joining
<1> QED BY <1>3, <1>4

\* However launches, updates and uninstalls interleave: a launch or an update
\* stops the proxy only while nobody holds a lease.
THEOREM SessionsKeepCorrect == Spec => SessionsKeepProxy
<1>1. TypeInv /\ ProxyInv /\ [Next]_vars
        => [\A p \in Procs :
              pc[p] = "stop" /\ pc'[p] = "dying" /\ job[p].op \in {"launch", "update"}
                => leases = {} /\ (pidfile.guarded \/ Explicit(p))]_vars
  BY KeepsProxyStep
<1> QED BY <1>1, ProxyAlways, PTL DEF Spec, SessionsKeepProxy

LEMMA StartsServedStep ==
  ASSUME TypeInv, ProxyInv, NEW p \in Procs, pc[p] = "unlock"
  PROVE  /\ p \in leases /\ exclusive = None
         /\ \/ job[p].seen \in excused
            \/ port = job[p].seen /\ daemon[port].state = "alive"
<1>1. Keeps(p, "unlock", job[p]) /\ LeaseInv /\ lock = p /\ job[p].op # "uninstall"
  BY LockedJoins, HasLock DEF ProxyInv, Locked, Served, Stops
<1>2. p \in leases /\ exclusive = None
  BY <1>1 DEF Keeps, Guarded, LeaseInv
<1>3. job[p].seen \in excused \/ Serving(job[p].seen)
  BY <1>1 DEF Keeps, RecordFits, Served
<1> QED BY <1>2, <1>3 DEF Serving

\* When a launcher lets go of the lock the proxy it verified still serves, and it
\* holds its lease, whatever the others do meanwhile.
THEOREM StartsServedCorrect == Spec => SessionStartsServed
<1>1. TypeInv /\ ProxyInv /\ [Next]_vars
        => [\A p \in Procs :
              pc[p] = "unlock" /\ pc'[p] = "session"
                => /\ p \in leases /\ exclusive = None
                   /\ \/ job[p].seen \in excused
                      \/ port = job[p].seen /\ daemon[port].state = "alive"]_vars
  BY StartsServedStep
<1> QED BY <1>1, ProxyAlways, PTL DEF Spec, SessionStartsServed

LEMMA WhoStages ==
  ASSUME [Next]_vars, pending' # pending
  PROVE  \E p \in Procs : Mark(p) \/ Check(p) \/ Identify(p) \/ ClearPending(p)
<1>1. PICK q \in Procs : Start(q) \/ Step(q) \/ SessionEnds(q) \/ Fails(q)
  BY DEF Next, vars, disk, Serve, EditConfig, ClockJumps, ForeignListens, Bind, Exit,
     BrokenExits, Crash
<1> QED BY <1>1
  DEF Step, Fails, Start, ReadBase, TryLock, Decide, Install, Acquire, Join, Downgrade, Unlock,
      SessionEnds, CannotVerify, Switch, SwitchBack, Signal, CannotIdentify, AwaitExit,
      ExitTimesOut, Unlink, Probe, CannotConfirm, Spawn, RecordPid, ComesUp, StartFails, Reap,
      Kill, disk

LEMMA UserUpdateStep ==
  ASSUME TypeInv, ProxyInv, [Next]_vars, pending # None, ~ pending.auto, pending' # pending
  PROVE  \/ pending' # None /\ ~ pending'.auto
         \/ /\ pending' = None
            /\ \/ current = pending.ver
               \/ Verified /\ daemon[port].bin = pending.ver
<1>1. PICK p \in Procs : Mark(p) \/ Check(p) \/ Identify(p) \/ ClearPending(p)
  BY WhoStages
<1>2. Keeps(p, pc[p], job[p]) /\ JobFits(pc[p], job[p])
  BY DEF ProxyInv, TypeInv, ControlOK
<1>3. CASE Mark(p)
  <2>1. PICK v \in BOOLEAN :
          pending' = [ver |-> job[p].ver, auto |-> job[p].op = "launch", vouched |-> v]
    BY <1>3 DEF Mark
  <2>2. job[p].op # "launch" /\ job[p].ver \in Versions
    BY <1>2, <1>3 DEF Mark, Keeps, PendingFits, JobFits, Staging
  <2>3. pending' \in Pending
    BY <2>1, <2>2 DEF Pending
  <2> QED BY <2>1, <2>2, <2>3, Constants
<1>4. CASE Check(p)
  BY <1>4 DEF Check
<1>5. CASE Identify(p)
  BY <1>2, <1>5 DEF Identify, Keeps, PendingFits, Activating
<1>6. CASE ClearPending(p)
  BY <1>2, <1>6 DEF ClearPending, Keeps, PendingFits, Activating
<1> QED BY <1>1, <1>3, <1>4, <1>5, <1>6

\* No automatic update and no failed activation takes the place of an update the
\* user has staged.
THEOREM UserUpdateCorrect == Spec => UserUpdateKept
<1>1. TypeInv /\ ProxyInv /\ [Next]_vars
        => [pending # None /\ ~ pending.auto /\ pending' # pending
              => \/ pending' # None /\ ~ pending'.auto
                 \/ /\ pending' = None
                    /\ \/ current = pending.ver
                       \/ Verified /\ daemon[port].bin = pending.ver]_vars
  BY UserUpdateStep
<1> QED BY <1>1, ProxyAlways, PTL DEF Spec, UserUpdateKept

-----------------------------------------------------------------------------
(* What is selected works: the invariant needs what an activation has seen  *)
(* when it began, and that no other proxy comes up behind its back.         *)

\* It has selected the staged update and does not know yet that it works.
Activator(p) == pc[p] \in Ensuring \cup {"back"} /\ job[p].phase = "activated"

SelFits(l, j) ==
  /\ Activating(l, j) /\ l # "clear" =>
       /\ j.config.pin = None /\ j.ver \in installed /\ j.prev \in installed
       /\ torn \/ j.prev \notin Broken
  /\ l = "switch" \/ (l \in {"probe", "spawn", "record"} /\ j.phase = "activated")
       => torn \/ ~ Verified
  /\ l = "spawn" /\ j.phase = "activated" => j.bin = j.ver
  /\ l \in Spawned /\ j.phase = "activated" => daemon[j.child].bin = j.ver
  /\ l = "back" => j.phase = "activated"

WorksSel == torn \/ current \notin Broken \/ \E p \in Procs : Activator(p)

\* Unlike Listening, also of the daemons a fault has come to.
ListenSel ==
  ~ torn /\ pidfile # None /\ daemon[pidfile.pid].state = "alive" /\ port # pidfile.pid
    => \E p \in Procs : pc[p] \in {"await", "reap"} /\ job[p].child = pidfile.pid

SelInv ==
  /\ current \in installed /\ WorksSel /\ ListenSel
  /\ \A p \in Procs : SelFits(pc[p], job[p])

\* No proxy comes up but one that is awaited, and none changes its binary.
Calm ==
  /\ \A d \in Daemons : daemon'[d].bin = daemon[d].bin
  /\ Verified' => Verified \/ torn' \/ \E q \in Procs : pc[q] \in {"await", "reap"}

LEMMA SelUnlocked ==
  ASSUME NEW l, NEW j, JobFits(l, j), ~ (l \in Locked /\ j.op # "uninstall")
  PROVE  SelFits(l, j)'
<1>1. CASE l \notin Locked
  BY <1>1
  DEF SelFits, Activating, Stops, Locked, Staging, Replacing, Ensuring, Served, Spawned
<1>2. CASE j.op = "uninstall"
  <2>1. l \notin Ensuring /\ l \notin Switching /\ "uninstall" \notin Joining
    BY <1>2 DEF JobFits, Joining
  <2> QED BY <1>2, <2>1 DEF SelFits, Activating, Spawned, Ensuring, Switching
<1> QED BY <1>1, <1>2

LEMMA SelSame ==
  ASSUME TypeInv, ProxyInv, SelInv, NEW q \in Procs, NEW l, NEW j, l = pc[q], j = job[q],
         torn => torn', installed \subseteq installed', Calm
  PROVE  SelFits(l, j)'
<1>1. SelFits(l, j) /\ JobFits(l, j)
  BY DEF SelInv, TypeInv, ControlOK
<1>2. CASE l = "switch" \/ (l \in {"probe", "spawn", "record"} /\ j.phase = "activated")
  <2>1. ASSUME NEW r \in Procs, pc[r] \in {"await", "reap"} PROVE FALSE
    <3>1. lock = q
      BY <1>2, LockedJoins, HasLock DEF Locked, Replacing, Ensuring, Stops
    <3>2. r = q
      BY <2>1, <3>1, OneEnsures DEF Spawned
    <3> QED BY <1>2, <2>1, <3>2
  <2> QED BY <1>1, <1>2, <2>1 DEF SelFits, Calm, JobFits
<1>3. CASE ~ (l = "switch" \/ (l \in {"probe", "spawn", "record"} /\ j.phase = "activated"))
  BY <1>1, <1>3 DEF SelFits, Calm, JobFits
<1> QED BY <1>2, <1>3

\* p takes a step and selects nothing.
LEMMA SelStep ==
  ASSUME TypeInv, ProxyInv, SelInv, NEW p \in Procs, NEW l, NEW j, Only(p),
         pc'[p] = l, job'[p] = j, torn => torn', UNCHANGED current,
         installed \subseteq installed', lock = p \/ Calm, SelFits(l, j)',
         Activator(p) => torn' \/ current \notin Broken \/ Activator(p)', ListenSel'
  PROVE  SelInv'
<1>1. ASSUME NEW q \in Procs, q # p PROVE SelFits(pc[q], job[q])'
  <2>1. PICK m : m = pc[q]
    OBVIOUS
  <2>2. PICK k : k = job[q]
    OBVIOUS
  <2>3. pc'[q] = m /\ job'[q] = k
    BY <1>1, <2>1, <2>2 DEF Only
  <2>4. JobFits(m, k)
    BY <2>1, <2>2 DEF TypeInv, ControlOK
  <2>5. SelFits(m, k)'
    <3>1. CASE Calm
      BY <2>1, <2>2, <3>1, SelSame
    <3>2. CASE lock = p
      <4>1. ~ (m \in Locked /\ k.op # "uninstall")
        BY <1>1, <2>1, <2>2, <3>2, HasLock
      <4> QED BY <2>4, <4>1, SelUnlocked
    <3> QED BY <3>1, <3>2
  <2> QED BY <2>3, <2>5
<1>2. WorksSel'
  <2> SUFFICES ASSUME ~ torn', current \in Broken PROVE \E q \in Procs : Activator(q)'
    BY DEF WorksSel
  <2>1. PICK q \in Procs : Activator(q)
    BY DEF SelInv, WorksSel
  <2>2. CASE q = p
    BY <2>1, <2>2
  <2>3. CASE q # p
    BY <2>1, <2>3 DEF Activator, Only
  <2> QED BY <2>2, <2>3
<1>3. current' \in installed'
  BY DEF SelInv
<1> QED BY <1>1, <1>2, <1>3 DEF SelInv

\* Nothing but the selection is left alone, or the record goes.
LEMMA CalmWorld ==
  ASSUME TypeInv, SelInv, NEW p \in Procs, Only(p), port' = port,
         \A d \in Daemons : /\ daemon'[d].bin = daemon[d].bin
                            /\ \/ daemon'[d] = daemon[d]
                               \/ (daemon'[d].state = "stopping" /\ Alive(d)),
         skewed \subseteq skewed', pidfile' \in {pidfile, None}, torn => torn',
         pc[p] \in {"await", "reap"} =>
           \/ pc'[p] \in {"await", "reap"} /\ job'[p].child = job[p].child
           \/ torn' \/ pidfile' = None \/ port = pidfile.pid
  PROVE  Calm /\ ListenSel'
<1>1. Calm
  BY DEF Calm, Verified, Matches, Alive
<1>0. pidfile # None => pidfile.pid \in Daemons
  BY DEF TypeInv, StoreOK, Record
<1>2. ListenSel'
  <2> SUFFICES ASSUME ~ torn', pidfile' # None, daemon'[pidfile.pid].state = "alive",
                      port # pidfile.pid
               PROVE  \E q \in Procs : pc'[q] \in {"await", "reap"} /\ job'[q].child = pidfile.pid
    BY DEF ListenSel
  <2>1. PICK q \in Procs : pc[q] \in {"await", "reap"} /\ job[q].child = pidfile.pid
    BY <1>0 DEF SelInv, ListenSel
  <2>2. CASE q = p
    BY <2>1, <2>2
  <2>3. CASE q # p
    BY <2>1, <2>3 DEF Only
  <2> QED BY <2>2, <2>3
<1> QED BY <1>1, <1>2

LEMMA Settled ==
  ASSUME NEW l, NEW j, l \notin {"identify", "switch", "back"},
         l \notin Stops \/ j.op \notin Joining,
         j.phase = "session" \/ l = "clear"
  PROVE  SelFits(l, j)'
  BY DEF SelFits, Activating, Ensuring, Spawned

\* p takes a step that touches neither the selection nor a daemon and activates
\* nothing.
LEMMA SettledStep ==
  ASSUME TypeInv, ProxyInv, SelInv, NEW p \in Procs, NEW l, NEW j, Only(p),
         pc'[p] = l, job'[p] = j, l \notin {"identify", "switch", "back"},
         l \notin Stops \/ j.op \notin Joining, j.phase = "session",
         torn => torn', UNCHANGED <<current, world>>, pidfile' \in {pidfile, None},
         installed \subseteq installed',
         Activator(p) => torn' \/ current \notin Broken,
         pc[p] \in {"await", "reap"} => torn' \/ pidfile' = None \/ port = pidfile.pid
  PROVE  SelInv'
<1>1. Calm /\ ListenSel'
  BY CalmWorld DEF world
<1>2. SelFits(l, j)'
  BY Settled
<1> QED BY <1>1, <1>2, SelStep

LEMMA FinishSel ==
  ASSUME TypeInv, ProxyInv, SelInv, NEW p \in Procs, Finish(p) \/ Activated(p),
         torn => torn', UNCHANGED <<current, world>>, pidfile' \in {pidfile, None},
         installed \subseteq installed',
         Activator(p) => torn' \/ current \notin Broken,
         pc[p] \in {"await", "reap"} => torn' \/ pidfile' = None \/ port = pidfile.pid
  PROVE  SelInv'
<1>1. CASE Finish(p)
  <2>1. Only(p) /\ pc'[p] = "idle" /\ job'[p] = NoJob
    BY <1>1, FinishTyped, GoesOnly
  <2>2. NoJob.phase = "session" /\ "idle" \notin Stops
    BY NoJobFits DEF Stops
  <2> QED BY <2>1, <2>2, SettledStep
<1>2. CASE ~ Finish(p)
  <2>1. PICK j \in Job : Continue(p, "probe", j) /\ j.phase = "session"
    BY <1>2, ActivatedGoes
  <2>2. Only(p) /\ pc'[p] = "probe" /\ job'[p] = j
    BY <2>1, ContinueTyped, GoesOnly
  <2>3. "probe" \notin Stops
    BY DEF Stops
  <2> QED BY <2>1, <2>2, <2>3, SettledStep
<1> QED BY <1>1, <1>2

LEMMA GoOnly ==
  ASSUME TypeInv, NEW p \in Procs, NEW l, Go(p, l), (\E j : SetJob(p, j)) \/ UNCHANGED job
  PROVE  Only(p) /\ pc'[p] = l
  BY DEF Go, SetJob, Only, TypeInv, ControlOK

Early(p) == \/ ReadBase(p) \/ TryLock(p) \/ Decide(p) \/ Install(p) \/ Mark(p) \/ Acquire(p)
            \/ Join(p) \/ Downgrade(p) \/ Unlock(p)

\* Where a command goes that has not come to the proxy yet.
LEMMA EarlyGoes ==
  ASSUME TypeInv, NEW p \in Procs, Early(p)
  PROVE  \/ Finish(p)
         \/ Only(p) /\ pc'[p] \in {"tryLock", "lock", "decide", "stage", "mark", "join", "check",
                                   "unlock", "session"}
         \/ Only(p) /\ pc'[p] = "stop" /\ job'[p].op = "stop"
         \/ Only(p) /\ pc'[p] = "probe" /\ job'[p].phase = "session"
<1>0. job[p] \in Job /\ JobFits(pc[p], job[p])
  BY DEF TypeInv, ControlOK
<1>1. CASE ReadBase(p)
  <2>1. \E l \in {"tryLock", "lock"} : Go(p, l) /\ \E j : SetJob(p, j)
    BY <1>1 DEF ReadBase
  <2> QED BY <2>1, GoOnly
<1>2. CASE TryLock(p)
  <2>1. \E l \in {"decide", "lock"} : Go(p, l) /\ UNCHANGED job
    BY <1>2 DEF TryLock
  <2> QED BY <2>1, GoOnly
<1>3. CASE Decide(p) \/ Install(p) \/ Mark(p)
  <2>1. \/ Finish(p)
        \/ \E l \in {"stage", "mark", "lock", "join"} :
             Go(p, l) /\ ((\E j : SetJob(p, j)) \/ UNCHANGED job)
    BY <1>3 DEF Decide, Install, Mark, Continue
  <2> QED BY <2>1, GoOnly
<1>4. CASE Acquire(p)
  <2>1. JobFits("lock", job[p])
    BY <1>0, <1>4 DEF Acquire
  <2>2. job[p].op \in {"launch", "update", "stop"}
    BY <2>1 DEF JobFits, Joining
  <2>3. Go(p, FirstLocked[job[p].op]) /\ UNCHANGED job
    BY <1>4 DEF Acquire
  <2>4. Only(p) /\ pc'[p] = FirstLocked[job[p].op] /\ job'[p] = job[p]
    BY <2>3, GoOnly
  <2> QED BY <2>2, <2>4 DEF FirstLocked
<1>5. CASE Join(p)
  <2>1. CASE Go(p, "check") /\ UNCHANGED job
    BY <2>1, GoOnly
  <2>2. CASE Go(p, "probe") /\ SetJob(p, [job[p] EXCEPT !.phase = "session"])
    <3>1. job'[p].phase = "session"
      BY <1>0, <2>2 DEF SetJob, TypeInv, ControlOK, Job
    <3> QED BY <2>2, <3>1, GoOnly
  <2> QED BY <1>5, <2>1, <2>2 DEF Join
<1>6. CASE Downgrade(p) \/ Unlock(p)
  <2>1. \E l \in {"unlock", "session"} : Go(p, l) /\ ((\E j : SetJob(p, j)) \/ UNCHANGED job)
    BY <1>6 DEF Downgrade, Unlock
  <2> QED BY <2>1, GoOnly
<1> QED BY <1>1, <1>2, <1>3, <1>4, <1>5, <1>6 DEF Early

LEMMA EarlySel ==
  ASSUME TypeInv, ProxyInv, SelInv, TypeInv', NEW p \in Procs, Early(p)
  PROVE  SelInv'
<1>1. /\ UNCHANGED <<current, world, pidfile, torn>> /\ installed \subseteq installed'
      /\ pc[p] \notin Ensuring \cup {"back"}
  BY DEF Early, ReadBase, TryLock, Decide, Install, Mark, Acquire, Join, Downgrade, Unlock, disk,
     history, Ensuring
<1>2. ~ Activator(p) /\ pc[p] \notin {"await", "reap"}
  BY <1>1 DEF Activator, Ensuring
<1>3. CASE Finish(p)
  BY <1>1, <1>2, <1>3, FinishSel
<1>4. CASE ~ Finish(p)
  <2>1. PICK l : l = pc'[p]
    OBVIOUS
  <2>2. PICK j : j = job'[p]
    OBVIOUS
  <2>3. /\ Only(p)
        /\ \/ l \in {"tryLock", "lock", "decide", "stage", "mark",
                       "join", "check", "unlock", "session"}
           \/ l = "stop" /\ j.op = "stop"
           \/ l = "probe" /\ j.phase = "session"
    BY <1>4, <2>1, <2>2, EarlyGoes
  <2>4. JobFits(l, j)
    BY <2>1, <2>2 DEF TypeInv, ControlOK
  <2>5. j.phase = "session"
    BY <2>3, <2>4 DEF JobFits, Ensuring
  <2>6. l \notin {"identify", "switch", "back"} /\ (l \notin Stops \/ j.op \notin Joining)
    BY <2>3 DEF Stops, Joining
  <2> QED BY <1>1, <1>2, <2>1, <2>2, <2>3, <2>5, <2>6, SettledStep
<1> QED BY <1>3, <1>4

LEMMA StartSel ==
  ASSUME TypeInv, ProxyInv, SelInv, NEW p \in Procs, Start(p)
  PROVE  SelInv'
<1>1. /\ UNCHANGED <<current, world, pidfile, torn, installed>> /\ pc[p] = "idle"
  BY DEF Start, disk, history
<1>2. ~ Activator(p) /\ pc[p] \notin {"await", "reap"}
  BY <1>1 DEF Activator, Ensuring
<1>3. PICK j \in Job : /\ Goes(p, Entry[j.op], j) /\ JobFits(Entry[j.op], j)
                       /\ Entry[j.op] \in {"prepare", "lock", "stop"}
                       /\ (Entry[j.op] = "stop" => j.op = "uninstall")
  BY StartGoes
<1>4. PICK l : l = Entry[j.op]
  OBVIOUS
<1>5. Only(p) /\ pc'[p] = l /\ job'[p] = j
  BY <1>3, <1>4, GoesOnly
<1>6. j.phase = "session" /\ l \notin {"identify", "switch", "back"}
      /\ (l \notin Stops \/ j.op \notin Joining)
  BY <1>3, <1>4 DEF JobFits, Ensuring, Stops, Joining
<1> QED BY <1>1, <1>2, <1>5, <1>6, SettledStep

LEMMA SessionEndsSel ==
  ASSUME TypeInv, ProxyInv, SelInv, NEW p \in Procs, SessionEnds(p)
  PROVE  SelInv'
<1>1. /\ UNCHANGED <<current, world, pidfile, torn, installed>> /\ pc[p] = "session" /\ Finish(p)
  BY DEF SessionEnds, disk, history
<1>2. ~ Activator(p) /\ pc[p] \notin {"await", "reap"}
  BY <1>1 DEF Activator, Ensuring
<1> QED BY <1>1, <1>2, FinishSel

LEMMA CheckSel ==
  ASSUME TypeInv, ProxyInv, SelInv, NEW p \in Procs, Check(p)
  PROVE  SelInv'
<1>1. /\ UNCHANGED <<current, world, pidfile, torn, installed>> /\ pc[p] = "check"
      /\ job[p] \in Job /\ pending \in Pending \cup {None} /\ current \in VersionOrNone
  BY DEF Check, history, TypeInv, StoreOK, ControlOK
<1>2. ~ Activator(p) /\ pc[p] \notin {"await", "reap"}
  BY <1>1 DEF Activator, Ensuring
<1>3. CASE Activated(p)
  BY <1>1, <1>2, <1>3, FinishSel
<1>4. CASE ~ Activated(p)
  <2>1. PICK j : j = [job[p] EXCEPT !.ver = pending.ver, !.prev = current]
    OBVIOUS
  <2>2. /\ Continue(p, "identify", j) /\ pending.ver \in installed /\ job[p].config.pin = None
    BY <1>4, <2>1 DEF Check, MayActivate
  <2>3. j.ver = pending.ver /\ j.prev = current /\ j.config = job[p].config
    BY <1>1, <2>1 DEF Job
  <2>4. Only(p) /\ pc'[p] = "identify" /\ job'[p] = j
    BY <2>2, ContinueTyped, GoesOnly
  <2>5. torn \/ current \notin Broken
    <3>1. lock = p
      BY <1>1, LockedJoins, HasLock DEF Locked, Replacing, Stops
    <3>2. ASSUME NEW q \in Procs, Activator(q) PROVE FALSE
      <4>1. lock = q
        BY <3>2, LockedJoins, HasLock DEF Activator, Locked, Replacing, Ensuring, Stops
      <4> QED BY <1>2, <3>1, <3>2, <4>1
    <3> QED BY <3>2 DEF SelInv, WorksSel
  <2>6. SelFits("identify", j)'
    BY <1>1, <2>2, <2>3, <2>5 DEF SelFits, SelInv, Spawned
  <2>7. Calm /\ ListenSel'
    BY <1>1, <1>2, <2>4, CalmWorld DEF world
  <2> QED BY <1>1, <1>2, <2>4, <2>6, <2>7, SelStep
<1> QED BY <1>3, <1>4

LEMMA IdentifySel ==
  ASSUME TypeInv, ProxyInv, SelInv, NEW p \in Procs, Identify(p) \/ CannotVerify(p)
  PROVE  SelInv'
<1>1. /\ UNCHANGED <<current, world, pidfile, installed>> /\ pc[p] = "identify" /\ (torn => torn')
  BY DEF Identify, CannotVerify, history, disk
<1>2. ~ Activator(p) /\ pc[p] \notin {"await", "reap"}
  BY <1>1 DEF Activator, Ensuring
<1>3. CASE Activated(p)
  BY <1>1, <1>2, <1>3, FinishSel
<1>4. CASE ~ Activated(p)
  <2>1. PICK j : j = job[p]
    OBVIOUS
  <2>2. PICK l \in {"switch", "stop"} : Continue(p, l, j) /\ (l = "switch" => torn' \/ ~ Verified)
    BY <1>4, <2>1 DEF Identify, CannotVerify
  <2>3. SelFits("identify", j) /\ JobFits("identify", j)
    BY <1>1, <2>1 DEF SelInv, TypeInv, ControlOK
  <2>4. Only(p) /\ pc'[p] = l /\ job'[p] = j
    BY <2>2, ContinueTyped, GoesOnly
  <2>5. Verified' <=> Verified
    BY <1>1 DEF Verified, Matches, Alive, world
  <2>6. SelFits(l, j)'
    BY <1>1, <2>2, <2>3, <2>5 DEF SelFits, Activating, Spawned, Ensuring
  <2>7. Calm /\ ListenSel'
    BY <1>1, <1>2, <2>4, CalmWorld DEF world
  <2> QED BY <1>1, <1>2, <2>4, <2>6, <2>7, SelStep
<1> QED BY <1>3, <1>4

LEMMA ClearPendingSel ==
  ASSUME TypeInv, ProxyInv, SelInv, NEW p \in Procs, ClearPending(p)
  PROVE  SelInv'
<1>1. /\ UNCHANGED <<current, world, pidfile, installed, torn>> /\ pc[p] = "clear" /\ Activated(p)
  BY DEF ClearPending, history, disk
<1>2. ~ Activator(p) /\ pc[p] \notin {"await", "reap"}
  BY <1>1 DEF Activator, Ensuring
<1> QED BY <1>1, <1>2, FinishSel

LEMMA OthersUnlocked ==
  ASSUME TypeInv, ProxyInv, NEW p \in Procs, lock = p, Only(p), NEW q \in Procs, q # p
  PROVE  SelFits(pc[q], job[q])'
<1>1. PICK m : m = pc[q]
  OBVIOUS
<1>2. PICK k : k = job[q]
  OBVIOUS
<1>3. JobFits(m, k) /\ ~ (m \in Locked /\ k.op # "uninstall")
  BY <1>1, <1>2, HasLock DEF TypeInv, ControlOK
<1>4. SelFits(m, k)'
  BY <1>3, SelUnlocked
<1> QED BY <1>1, <1>2, <1>4 DEF Only

LEMMA SwitchSel ==
  ASSUME TypeInv, ProxyInv, SelInv, NEW p \in Procs, Switch(p) \/ SwitchBack(p)
  PROVE  SelInv'
<1>1. PICK l : l = pc[p]
  OBVIOUS
<1>2. PICK i : i = job[p]
  OBVIOUS
<1>3. /\ l \in {"switch", "back"} /\ UNCHANGED <<world, pidfile, installed, torn>>
      /\ i \in Job /\ SelFits(l, i) /\ JobFits(l, i)
  BY <1>1, <1>2 DEF Switch, SwitchBack, history, SelInv, TypeInv, ControlOK
<1>4. PICK f \in {"activated", "restored"} :
        /\ Continue(p, "probe", [i EXCEPT !.phase = f])
        /\ current' = IF f = "activated" THEN i.ver ELSE i.prev
        /\ f = IF l = "switch" THEN "activated" ELSE "restored"
  BY <1>1, <1>2 DEF Switch, SwitchBack
<1>5. PICK j : j = [i EXCEPT !.phase = f]
  OBVIOUS
<1>6. j.ver = i.ver /\ j.prev = i.prev /\ j.config = i.config /\ j.phase = f
  BY <1>3, <1>5 DEF Job
<1>7. Only(p) /\ pc'[p] = "probe" /\ job'[p] = j
  BY <1>4, <1>5, ContinueTyped, GoesOnly
<1>8. lock = p
  BY <1>1, <1>3, LockedJoins, HasLock DEF Locked, Replacing, Stops
<1>9. /\ i.config.pin = None /\ i.ver \in installed /\ i.prev \in installed
      /\ torn \/ i.prev \notin Broken
  BY <1>3 DEF SelFits, Activating
<1>10. Verified' <=> Verified
  BY <1>3 DEF Verified, Matches, Alive, world
<1>11. SelFits("probe", j)'
  BY <1>3, <1>4, <1>6, <1>9, <1>10 DEF SelFits, Activating, Ensuring, Spawned, Stops
<1>12. WorksSel'
  <2>1. CASE f = "activated"
    BY <1>6, <1>7, <2>1 DEF WorksSel, Activator, Ensuring
  <2>2. CASE f = "restored"
    BY <1>3, <1>4, <1>9, <2>2 DEF WorksSel
  <2> QED BY <2>1, <2>2
<1>13. current' \in installed'
  BY <1>3, <1>4, <1>9
<1>14. ListenSel'
  BY <1>1, <1>3, <1>7, CalmWorld DEF world
<1> QED BY <1>7, <1>8, <1>11, <1>12, <1>13, <1>14, OthersUnlocked DEF SelInv

LEMMA StoppingSel ==
  ASSUME TypeInv, ProxyInv, SelInv, NEW p \in Procs,
         Signal(p) \/ CannotIdentify(p) \/ AwaitExit(p) \/ ExitTimesOut(p) \/ Unlink(p)
  PROVE  SelInv'
<1>1. PICK l : l = pc[p]
  OBVIOUS
<1>2. PICK i : i = job[p]
  OBVIOUS
<1>3. /\ l \in Stops /\ UNCHANGED <<port, skewed, installed, current, torn>>
      /\ pidfile' \in {pidfile, None} /\ SelFits(l, i) /\ i \in Job /\ JobFits(l, i)
  BY <1>1, <1>2 DEF Signal, CannotIdentify, AwaitExit, ExitTimesOut, Unlink, Stops, disk, world,
     history, SelInv, TypeInv, ControlOK
<1>4. ~ Activator(p) /\ pc[p] \notin {"await", "reap"}
  BY <1>1, <1>3 DEF Activator, Ensuring, Stops
<1>5. i.op \in Joining => /\ i.config.pin = None /\ i.ver \in installed /\ i.prev \in installed
                          /\ torn \/ i.prev \notin Broken
  BY <1>3 DEF SelFits, Activating, Stops
<1>6. CASE UNCHANGED daemon /\ (Finish(p) \/ Activated(p))
  BY <1>3, <1>4, <1>6, FinishSel DEF world
<1>7. ASSUME NEW j \in Job, Continue(p, "switch", j), i.op \in Joining, j.op = i.op, j.ver = i.ver,
             j.config = i.config, j.prev = i.prev, pidfile' = None, UNCHANGED daemon
      PROVE  SelInv'
  <2>1. Only(p) /\ pc'[p] = "switch" /\ job'[p] = j
    BY <1>7, ContinueTyped, GoesOnly
  <2>2. SelFits("switch", j)'
    BY <1>3, <1>5, <1>7 DEF SelFits, Spawned, Verified
  <2>3. Calm /\ ListenSel'
    BY <1>3, <1>4, <2>1, <1>7, CalmWorld
  <2> QED BY <1>3, <1>4, <2>1, <2>2, <2>3, SelStep
<1>8. ASSUME NEW m \in {"dying", "unlink"}, NEW j, Continue(p, m, j),
             j = i \/ \E d \in Daemons : j = [i EXCEPT !.seen = d],
             pidfile' = pidfile,
             \/ UNCHANGED daemon
             \/ /\ pidfile # None /\ Alive(pidfile.pid)
                /\ daemon' = [daemon EXCEPT ![pidfile.pid].state = "stopping"]
      PROVE  SelInv'
  <2>1. Only(p) /\ pc'[p] = m /\ job'[p] = j
    BY <1>8, ContinueTyped, GoesOnly
  <2>2. j.op = i.op /\ j.ver = i.ver /\ j.config = i.config /\ j.prev = i.prev
    BY <1>3, <1>8 DEF Job
  <2>3. SelFits(m, j)'
    BY <1>3, <1>5, <2>2 DEF SelFits, Activating, Spawned, Ensuring
  <2>4. \A d \in Daemons : /\ daemon'[d].bin = daemon[d].bin
                           /\ daemon'[d] = daemon[d] \/ (daemon'[d].state = "stopping" /\ Alive(d))
    BY <1>8 DEF TypeInv, StoreOK
  <2>5. Calm /\ ListenSel'
    BY <1>3, <1>4, <1>8, <2>1, <2>4, CalmWorld
  <2> QED BY <1>3, <1>4, <2>1, <2>3, <2>5, SelStep
<1>9. CASE Stopped(p) /\ pidfile' = None /\ UNCHANGED daemon
  <2>1. \/ Finish(p)
        \/ \E j \in Job : /\ Continue(p, "switch", j) /\ i.op \in Joining /\ j.op = i.op
                          /\ j.ver = i.ver /\ j.config = i.config /\ j.prev = i.prev
    BY <1>1, <1>2, <1>3, <1>9, StoppedGoes
  <2> QED BY <1>6, <1>7, <1>9, <2>1
<1>10. CASE NotStopped(p) /\ UNCHANGED daemon
  BY <1>6, <1>10, NotStoppedGoes
<1>11. CASE Signal(p)
  <2>1. pidfile' = pidfile
    BY <1>11 DEF Signal, disk
  <2>2. pidfile # None => pidfile.pid \in Daemons
    BY DEF TypeInv, StoreOK, Record
  <2>3. CASE pidfile = None
    BY <1>9, <1>11, <2>1, <2>3 DEF Signal
  <2>4. CASE pidfile # None
    <3>1. PICK m \in {"dying", "unlink"} : Continue(p, m, [i EXCEPT !.seen = pidfile.pid])
      BY <1>2, <1>11, <2>4 DEF Signal
    <3>2. PICK j : j = [i EXCEPT !.seen = pidfile.pid]
      OBVIOUS
    <3>3. \/ UNCHANGED daemon
          \/ /\ Alive(pidfile.pid)
             /\ daemon' = [daemon EXCEPT ![pidfile.pid].state = "stopping"]
      BY <1>11, <2>4 DEF Signal, Matches
    <3> QED BY <1>8, <2>1, <2>2, <2>4, <3>1, <3>2, <3>3
  <2> QED BY <2>3, <2>4
<1>12. CASE AwaitExit(p)
  <2>1. Continue(p, "unlink", i) /\ pidfile' = pidfile /\ UNCHANGED daemon
    BY <1>2, <1>12 DEF AwaitExit, disk, world
  <2> QED BY <1>8, <2>1
<1>13. CASE CannotIdentify(p) \/ ExitTimesOut(p)
  BY <1>10, <1>13 DEF CannotIdentify, ExitTimesOut, world
<1>14. CASE Unlink(p)
  BY <1>9, <1>10, <1>14 DEF Unlink, world
<1> QED BY <1>11, <1>12, <1>13, <1>14

LEMMA SettledEnds ==
  ASSUME TypeInv, NEW p \in Procs, Finish(p) \/ Activated(p)
  PROVE  \E l \in {"idle", "probe"} : \E j \in Job :
           Only(p) /\ pc'[p] = l /\ job'[p] = j /\ j.phase = "session"
<1>1. CASE Finish(p)
  BY <1>1, FinishTyped, GoesOnly, NoJobFits
<1>2. CASE ~ Finish(p)
  <2>1. PICK j \in Job : Continue(p, "probe", j) /\ j.phase = "session"
    BY <1>2, ActivatedGoes
  <2> QED BY <2>1, ContinueTyped, GoesOnly
<1> QED BY <1>1, <1>2

LEMMA SettledSel ==
  ASSUME TypeInv, ProxyInv, SelInv, NEW p \in Procs, Finish(p) \/ Activated(p), lock = p,
         torn' = torn, UNCHANGED current, installed' = installed, ListenSel',
         Activator(p) => torn \/ current \notin Broken
  PROVE  SelInv'
<1>1. PICK l \in {"idle", "probe"} : \E j \in Job :
        Only(p) /\ pc'[p] = l /\ job'[p] = j /\ j.phase = "session"
  BY SettledEnds
<1>2. PICK j \in Job : Only(p) /\ pc'[p] = l /\ job'[p] = j /\ j.phase = "session"
  BY <1>1
<1>3. SelFits(l, j)'
  BY <1>1, <1>2, Settled DEF Stops
<1> QED BY <1>2, <1>3, SelStep

\* The activation's proxy did not come up: what was selected before is selected.
LEMMA NotRunningSel ==
  ASSUME TypeInv, ProxyInv, SelInv, NEW p \in Procs, pc[p] \in Ensuring, NotRunning(p), lock = p,
         torn' = torn, UNCHANGED current, installed' = installed, ListenSel'
  PROVE  SelInv'
<1>1. PICK i : i = job[p]
  OBVIOUS
<1>2. SelFits(pc[p], i)
  BY <1>1 DEF SelInv
<1>3. i.phase = "activated" => /\ i.config.pin = None /\ i.ver \in installed /\ i.prev \in installed
                               /\ torn \/ i.prev \notin Broken
  BY <1>2 DEF SelFits, Activating, Ensuring
<1>4. CASE \E j \in Job : /\ Continue(p, "back", j) /\ i.phase = "activated"
                          /\ j.phase = "activated"
                          /\ j.ver = i.ver /\ j.config = i.config /\ j.prev = i.prev
  <2>1. PICK j \in Job : /\ Continue(p, "back", j) /\ i.phase = "activated" /\ j.phase = "activated"
                         /\ j.ver = i.ver /\ j.config = i.config /\ j.prev = i.prev
    BY <1>4
  <2>2. Only(p) /\ pc'[p] = "back" /\ job'[p] = j
    BY <2>1, ContinueTyped, GoesOnly
  <2>3. SelFits("back", j)'
    BY <1>3, <2>1 DEF SelFits, Spawned
  <2>4. Activator(p)'
    BY <2>1, <2>2 DEF Activator
  <2> QED BY <2>2, <2>3, <2>4, SelStep
<1>5. CASE (Finish(p) \/ Activated(p)) /\ i.phase # "activated"
  BY <1>1, <1>5, SettledSel DEF Activator
<1>6. installed \subseteq Versions
  BY DEF TypeInv, StoreOK
<1>7. ~ (i.phase = "activated" /\ i.prev = None)
  BY <1>3, <1>6, Constants
<1> QED BY <1>1, <1>4, <1>5, <1>7, NotRunningGoes

LEMMA RunningSel ==
  ASSUME TypeInv, ProxyInv, SelInv, NEW p \in Procs, pc[p] \in Ensuring, Verified,
         Running(p, port), lock = p, torn' = torn, UNCHANGED current, installed' = installed,
         ListenSel', job[p].phase = "activated" => torn \/ current \notin Broken
  PROVE  SelInv'
<1>1. port \in Daemons
  BY VerifiedPort
<1>2. ASSUME NEW l \in {"downgrade", "clear"}, NEW j \in Job, Continue(p, l, j),
             l = "clear" \/ j.phase = "session"
      PROVE  SelInv'
  <2>1. Only(p) /\ pc'[p] = l /\ job'[p] = j
    BY <1>2, ContinueTyped, GoesOnly
  <2>2. SelFits(l, j)'
    BY <1>2, Settled DEF Stops
  <2> QED BY <2>1, <2>2, SelStep DEF Activator
<1>3. CASE job[p].phase = "restored" /\ Activated(p)
  BY <1>3, SettledSel DEF Activator
<1> QED BY <1>1, <1>2, <1>3, RunningGoes

LEMMA EnsuringLock ==
  ASSUME TypeInv, ProxyInv, SelInv, NEW p \in Procs, pc[p] \in Ensuring
  PROVE  /\ lock = p /\ job[p] \in Job /\ job[p].op # "uninstall"
         /\ JobFits(pc[p], job[p]) /\ Keeps(p, pc[p], job[p]) /\ SelFits(pc[p], job[p])
<1>1. lock = p /\ job[p].op # "uninstall"
  <2>1. pc[p] \in Locked \ (Stops \cup {"decide"})
    BY DEF Locked, Ensuring, Stops
  <2> QED BY <2>1, LockedJoins, HasLock
<1> QED BY <1>1 DEF TypeInv, ControlOK, ProxyInv, SelInv

LEMMA ProbeSel ==
  ASSUME TypeInv, ProxyInv, SelInv, NEW p \in Procs, Probe(p) \/ CannotConfirm(p)
  PROVE  SelInv'
<1>0. /\ pc[p] = "probe" /\ pc[p] \in Ensuring
      /\ UNCHANGED <<installed, current, world, pidfile, torn>>
  BY DEF Probe, CannotConfirm, disk, history, Ensuring
<1>1. /\ lock = p /\ job[p] \in Job /\ Keeps(p, "probe", job[p]) /\ SelFits("probe", job[p])
  BY <1>0, EnsuringLock
<1>2. Verified' <=> Verified
  BY <1>0 DEF Verified, Matches, Alive, world
<1>3. ASSUME Only(p) PROVE ListenSel'
  BY <1>0, <1>3, CalmWorld DEF world
<1>4. CASE NotRunning(p)
  <2>1. Only(p)
    BY <1>0, <1>4, NotRunningGoes, ActivatedGoes, FinishTyped, ContinueTyped, GoesOnly
  <2> QED BY <1>0, <1>1, <1>3, <1>4, <2>1, NotRunningSel
<1>5. CASE Verified /\ Running(p, port)
  <2>1. Only(p)
    BY <1>0, <1>5, VerifiedPort, RunningGoes, ActivatedGoes, FinishTyped, ContinueTyped, GoesOnly
  <2>2. job[p].phase = "activated" => torn
    BY <1>1, <1>5 DEF SelFits
  <2> QED BY <1>0, <1>1, <1>3, <1>5, <2>1, <2>2, RunningSel
<1>6. ASSUME Resolve(job[p].config.pin) # None,
             Continue(p, "spawn", [job[p] EXCEPT !.bin = Resolve(job[p].config.pin)])
      PROVE  SelInv'
  <2>1. PICK j : j = [job[p] EXCEPT !.bin = Resolve(job[p].config.pin)]
    OBVIOUS
  <2>2. /\ j.ver = job[p].ver /\ j.config = job[p].config /\ j.prev = job[p].prev
        /\ j.phase = job[p].phase /\ j.bin = Resolve(job[p].config.pin)
    BY <1>1, <2>1 DEF Job
  <2>3. j.phase = "activated" => j.config.pin = None /\ j.bin = j.ver
    <3> SUFFICES ASSUME j.phase = "activated" PROVE j.config.pin = None /\ j.bin = j.ver
      OBVIOUS
    <3>1. j.config.pin = None
      BY <1>1, <2>2 DEF SelFits, Activating, Ensuring
    <3>2. current = j.ver /\ current \in installed
      BY <1>1, <2>2 DEF Keeps, PendingFits, Ensuring, SelInv
    <3> QED BY <1>6, <2>2, <3>1, <3>2, ResolveTyped DEF VersionOrNone
  <2>4. Only(p) /\ pc'[p] = "spawn" /\ job'[p] = j
    BY <1>6, <2>1, ContinueTyped, GoesOnly
  <2>5. SelFits("spawn", j)'
    BY <1>0, <1>1, <1>2, <2>2, <2>3 DEF SelFits, Activating, Ensuring, Spawned, Stops
  <2>6. Activator(p) => Activator(p)'
    BY <2>2, <2>4 DEF Activator, Ensuring
  <2> QED BY <1>0, <1>1, <1>3, <2>4, <2>5, <2>6, SelStep
<1> QED BY <1>4, <1>5, <1>6 DEF Probe, CannotConfirm

LEMMA SpawnSel ==
  ASSUME TypeInv, ProxyInv, SelInv, NEW p \in Procs, Spawn(p)
  PROVE  SelInv'
<1>0. /\ pc[p] = "spawn" /\ pc[p] \in Ensuring
      /\ UNCHANGED <<installed, current, port, pidfile, torn>>
  BY DEF Spawn, disk, Ensuring
<1>1. /\ lock = p /\ job[p] \in Job /\ SelFits("spawn", job[p])
  BY <1>0, EnsuringLock
<1>2. PICK d \in NextPid :
        /\ daemon' = [daemon EXCEPT ![d] = [state |-> "alive", bin |-> job[p].bin]]
        /\ skewed' = skewed \ {d}
        /\ Continue(p, "record", [job[p] EXCEPT !.child = d, !.bin = None])
  BY DEF Spawn
<1>3. PICK j : j = [job[p] EXCEPT !.child = d, !.bin = None]
  OBVIOUS
<1>4. /\ j.ver = job[p].ver /\ j.config = job[p].config /\ j.prev = job[p].prev
      /\ j.phase = job[p].phase /\ j.child = d
  BY <1>1, <1>3 DEF Job
<1>5. d \in Daemons /\ (pidfile # None => pidfile.pid # d /\ pidfile.pid \in Daemons)
  BY DEF NextPid, Fresh, TypeInv, StoreOK, Record
<1>6. Only(p) /\ pc'[p] = "record" /\ job'[p] = j
  BY <1>2, <1>3, ContinueTyped, GoesOnly
<1>7. daemon'[d].bin = job[p].bin /\ \A e \in Daemons : e # d => daemon'[e] = daemon[e]
  BY <1>2, <1>5 DEF TypeInv, StoreOK
<1>8. Verified' => Verified
  BY <1>0, <1>2, <1>5, <1>7 DEF Verified, Matches, Alive
<1>9. SelFits("record", j)'
  BY <1>0, <1>1, <1>4, <1>7, <1>8 DEF SelFits, Activating, Ensuring, Spawned, Stops
<1>10. ListenSel'
  <2> SUFFICES ASSUME ~ torn, pidfile # None, daemon[pidfile.pid].state = "alive",
                      port # pidfile.pid
               PROVE  \E q \in Procs : pc'[q] \in {"await", "reap"} /\ job'[q].child = pidfile.pid
    BY <1>0, <1>5, <1>7 DEF ListenSel
  <2>1. PICK q \in Procs : pc[q] \in {"await", "reap"} /\ job[q].child = pidfile.pid
    BY DEF SelInv, ListenSel
  <2> QED BY <1>0, <1>6, <2>1 DEF Only
<1>11. Activator(p) => Activator(p)'
  BY <1>4, <1>6 DEF Activator, Ensuring
<1> QED BY <1>0, <1>1, <1>6, <1>9, <1>10, <1>11, SelStep

LEMMA RecordPidSel ==
  ASSUME TypeInv, ProxyInv, SelInv, NEW p \in Procs, RecordPid(p) \/ StartFails(p)
  PROVE  SelInv'
<1>1. PICK j : j = job[p]
  OBVIOUS
<1>2. PICK l \in {"await", "reap"} : Continue(p, l, j)
  BY <1>1 DEF RecordPid, StartFails
<1>3. /\ pc[p] \in Spawned /\ pc[p] \in Ensuring
      /\ UNCHANGED <<installed, current, world, torn>>
  BY DEF RecordPid, StartFails, disk, history, Ensuring, Spawned
<1>4. /\ lock = p /\ SelFits(pc[p], j)
  BY <1>1, <1>3, EnsuringLock
<1>5. Only(p) /\ pc'[p] = l /\ job'[p] = j
  BY <1>2, ContinueTyped, GoesOnly
<1>6. SelFits(l, j)'
  BY <1>3, <1>4 DEF SelFits, Activating, Ensuring, Spawned, Stops, world
<1>7. ListenSel'
  <2>1. CASE RecordPid(p)
    <3>1. pidfile' = [pid |-> j.child, guarded |-> TRUE]
      BY <1>1, <2>1 DEF RecordPid
    <3> QED BY <1>5, <3>1 DEF ListenSel
  <2>2. CASE StartFails(p)
    BY <1>1, <1>3, <1>5, <2>2, CalmWorld DEF StartFails, disk, world
  <2> QED BY <2>1, <2>2
<1>8. Activator(p) => Activator(p)'
  BY <1>1, <1>5 DEF Activator, Ensuring
<1> QED BY <1>3, <1>4, <1>5, <1>6, <1>7, <1>8, SelStep

LEMMA ComesUpSel ==
  ASSUME TypeInv, ProxyInv, SelInv, NEW p \in Procs, ComesUp(p)
  PROVE  SelInv'
<1>0. /\ pc[p] = "await" /\ pc[p] \in Ensuring /\ Verified /\ Running(p, port)
      /\ UNCHANGED <<installed, current, world, pidfile, torn>>
  BY DEF ComesUp, disk, history, Ensuring
<1>1. /\ lock = p /\ job[p].op # "uninstall" /\ Keeps(p, "await", job[p])
      /\ SelFits("await", job[p])
  BY <1>0, EnsuringLock
<1>2. port \in Daemons /\ pidfile # None /\ pidfile.pid = port /\ daemon[port].bin \notin Broken
  BY <1>0, VerifiedPort
<1>3. job[p].child = port
  BY <1>1, <1>2 DEF Keeps, RecordFits
<1>4. job[p].phase = "activated" => current \notin Broken
  BY <1>1, <1>2, <1>3 DEF SelFits, Spawned, Keeps, PendingFits, Ensuring
<1>5. Only(p)
  BY <1>0, <1>2, RunningGoes, ActivatedGoes, FinishTyped, ContinueTyped, GoesOnly
<1>6. ListenSel'
  BY <1>0, <1>2, <1>5, CalmWorld DEF world
<1> QED BY <1>0, <1>1, <1>4, <1>6, RunningSel

LEMMA ReapSel ==
  ASSUME TypeInv, ProxyInv, SelInv, NEW p \in Procs, Reap(p)
  PROVE  SelInv'
<1>0. /\ pc[p] = "reap" /\ pc[p] \in Ensuring /\ NotRunning(p) /\ pidfile' = None
      /\ UNCHANGED <<installed, current, torn>>
  BY DEF Reap, history, Ensuring
<1>1. lock = p
  BY <1>0, EnsuringLock
<1>2. ListenSel'
  BY <1>0 DEF ListenSel
<1> QED BY <1>0, <1>1, <1>2, NotRunningSel

\* Nobody moves; a daemon, the clock or the user does.
LEMMA OutsideSel ==
  ASSUME TypeInv, ProxyInv, SelInv, UNCHANGED <<current, installed, torn, pc, job>>, Calm,
         ListenSel'
  PROVE  SelInv'
<1>1. ASSUME NEW q \in Procs PROVE SelFits(pc[q], job[q])'
  <2>1. PICK l : l = pc[q]
    OBVIOUS
  <2>2. PICK j : j = job[q]
    OBVIOUS
  <2>3. SelFits(l, j)'
    BY <2>1, <2>2, SelSame
  <2> QED BY <2>1, <2>2, <2>3
<1>2. WorksSel'
  BY DEF SelInv, WorksSel, Activator
<1> QED BY <1>1, <1>2 DEF SelInv

LEMMA DaemonSel ==
  ASSUME TypeInv, ProxyInv, SelInv, NEW d \in Daemons,
         Bind(d) \/ Exit(d) \/ BrokenExits(d) \/ Crash(d)
  PROVE  SelInv'
<1>0. /\ UNCHANGED <<current, installed, torn, pc, job, pidfile, skewed>>
      /\ pidfile # None => pidfile.pid \in Daemons
  BY DEF Bind, Exit, BrokenExits, Crash, disk, history, TypeInv, StoreOK, Record
<1>1. CASE Gone(d)
  <2>1. /\ daemon'[d].state = "gone" /\ daemon'[d].bin = daemon[d].bin
        /\ \A e \in Daemons : e # d => daemon'[e] = daemon[e]
        /\ port' = (IF port = d THEN None ELSE port)
    BY <1>1, GoneTyped
  <2>2. Calm
    <3>1. Verified' => Verified
      BY <1>0, <2>1, Constants DEF Verified, Matches, Alive
    <3> QED BY <2>1, <3>1 DEF Calm
  <2>3. ListenSel'
    BY <1>0, <2>1 DEF ListenSel, SelInv
  <2> QED BY <1>0, <2>2, <2>3, OutsideSel
<1>2. CASE Down /\ port' = d /\ UNCHANGED daemon /\ daemon[d].state = "alive"
  <2>1. port = None /\ None \notin Daemons
    BY <1>2, Constants DEF Down
  <2>2. Calm
    <3>1. ASSUME Verified', ~ torn PROVE \E q \in Procs : pc[q] \in {"await", "reap"}
      BY <1>0, <1>2, <2>1, <3>1 DEF Verified, SelInv, ListenSel
    <3> QED BY <1>0, <1>2, <3>1 DEF Calm
  <2>3. ListenSel'
    BY <1>0, <1>2, <2>1 DEF ListenSel, SelInv
  <2> QED BY <1>0, <2>2, <2>3, OutsideSel
<1> QED BY <1>1, <1>2 DEF Bind, Exit, BrokenExits, Crash

LEMMA ElsewhereSel ==
  ASSUME TypeInv, ProxyInv, SelInv, EditConfig \/ ClockJumps \/ ForeignListens
  PROVE  SelInv'
<1>0. /\ UNCHANGED <<current, installed, torn, pc, job, pidfile, daemon>>
      /\ pidfile # None => pidfile.pid \in Daemons
  BY DEF EditConfig, ClockJumps, ForeignListens, disk, world, history, TypeInv, StoreOK, Record
<1>1. /\ skewed \subseteq skewed'
      /\ port' = port \/ (port \notin Daemons /\ port' \notin Daemons)
  BY Constants DEF EditConfig, ClockJumps, ForeignListens, world, Down
<1>2. Calm
  BY <1>0, <1>1 DEF Calm, Verified, Matches, Alive
<1>3. ListenSel'
  BY <1>0, <1>1 DEF ListenSel, SelInv
<1> QED BY <1>0, <1>2, <1>3, OutsideSel

LEMMA KillSel ==
  ASSUME TypeInv, ProxyInv, SelInv, NEW p \in Procs, Kill(p)
  PROVE  SelInv'
<1>1. /\ Finish(p) /\ UNCHANGED <<current, world, pidfile, installed>> /\ (torn => torn')
      /\ job[p].phase # "session" \/ pc[p] \in {"await", "reap"} => torn'
  BY DEF Kill, disk
<1> QED BY <1>1, FinishSel DEF Activator

LEMMA SelInit ==
  ASSUME Selected \cap (Broken \cup {None}) = {}
  PROVE  Init => SelInv
<1> SUFFICES ASSUME Init PROVE SelInv
  OBVIOUS
<1>1. current \in installed /\ WorksSel
  BY DEF Init, WorksSel
<1>2. \A p \in Procs : SelFits(pc[p], job[p])
  BY DEF Init, SelFits, Activating, Stops, Ensuring, Spawned
<1>3. ListenSel
  <2>1. CASE port \in Daemons
    BY <2>1, Constants DEF Init, ListenSel
  <2>2. CASE port \notin Daemons
    <3>1. \A d \in Daemons : daemon[d].state = "gone"
      BY <2>2 DEF Init
    <3>2. pidfile # None => pidfile.pid \in Daemons
      BY TypeInit DEF TypeInv, StoreOK, Record
    <3> QED BY <3>1, <3>2 DEF ListenSel
  <2> QED BY <2>1, <2>2
<1> QED BY <1>1, <1>2, <1>3 DEF SelInv

LEMMA SelNext == TypeInv /\ TypeInv' /\ ProxyInv /\ SelInv /\ [Next]_vars => SelInv'
<1> SUFFICES ASSUME TypeInv, TypeInv', ProxyInv, SelInv, [Next]_vars PROVE SelInv'
  OBVIOUS
<1>1. CASE UNCHANGED vars
  <2>1. UNCHANGED <<current, installed, torn, pc, job, pidfile, daemon, port, skewed>>
    BY <1>1 DEF vars, disk, world, history
  <2>2. Calm /\ ListenSel'
    BY <2>1 DEF Calm, Verified, Matches, Alive, ListenSel, SelInv
  <2> QED BY <2>1, <2>2, OutsideSel
<1>2. ASSUME NEW p \in Procs, Start(p) \/ Step(p) \/ SessionEnds(p) \/ Fails(p)
      PROVE  SelInv'
  BY <1>2, StartSel, EarlySel, SessionEndsSel, CheckSel, IdentifySel, ClearPendingSel, SwitchSel,
     StoppingSel, ProbeSel, SpawnSel, RecordPidSel, ComesUpSel, ReapSel, KillSel
  DEF Step, Fails, Early
<1>3. ASSUME NEW d \in Daemons, Serve(d) \/ BrokenExits(d) \/ Crash(d)
      PROVE  SelInv'
  BY <1>3, DaemonSel DEF Serve
<1>4. CASE EditConfig \/ ClockJumps \/ ForeignListens
  BY <1>4, ElsewhereSel
<1> QED BY <1>1, <1>2, <1>3, <1>4 DEF Next

LEMMA SelImplied == TypeInv /\ ProxyInv /\ SelInv => SelectedWorks
<1> SUFFICES ASSUME TypeInv, ProxyInv, SelInv, lock = None, ~ torn PROVE current \notin Broken
  BY DEF SelectedWorks
<1>1. ASSUME NEW p \in Procs, Activator(p) PROVE FALSE
  <2>1. lock = p
    BY <1>1, LockedJoins, HasLock DEF Activator, Locked, Replacing, Ensuring, Stops
  <2> QED BY <2>1, Constants
<1> QED BY <1>1 DEF SelInv, WorksSel

\* If what is selected at the start works, so does what is selected whenever the
\* update lock is free: whichever update is activated, fails to come up or is
\* rolled back.
THEOREM SelectedCorrect ==
  ASSUME Selected \cap (Broken \cup {None}) = {}
  PROVE  Spec => []SelectedWorks
<1>1. Init => SelInv
  BY SelInit
<1> QED BY <1>1, SelNext, SelImplied, ProxyAlways, PTL DEF Spec

=============================================================================

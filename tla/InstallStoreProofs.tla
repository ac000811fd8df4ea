------------------------- MODULE InstallStoreProofs -------------------------
(* Theorems about InstallStore, for every value of its constants.          *)
EXTENDS InstallStore, TLAPS

-----------------------------------------------------------------------------
(* Type correctness.  TypeOK is not inductive alone: that a lock is taken  *)
(* on a version, and a tree written at a source, rests on the locals being *)
(* set wherever they are used.                                             *)

WithVariant == {"i_product", "u_rest"} \cup Locking \cup Installing

WithVersion ==
  WithVariant \cup {"u_marker", "u_pre", "u_switch", "u_pin", "u_post",
                    "d_check", "d_pre", "d_remove", "d_post", "x_remove",
                    "r_pre", "r_remove", "r_post"}

JobOK ==
  \A p \in Procs :
    /\ pc[p] \in WithVersion => job[p].ver \in Versions
    /\ pc[p] \in WithVariant => job[p].variant \in Variants

TypeInv == TypeOK /\ JobOK

LEMMA NoJobType == NoJob \in Job
BY DEF NoJob, Job

\* Ending a command leaves locks and control well typed.
LEMMA EndType ==
  ASSUME NEW p \in Procs, TypeInv, End(p)
  PROVE  /\ lockFiles' \subseteq Versions
         /\ versionLock' \in [Versions -> Procs \cup {None}]
         /\ productShared' \subseteq Procs
         /\ productExclusive' \in Procs \cup {None}
         /\ pc' \in [Procs -> PCs]
         /\ job' \in [Procs -> Job]
         /\ started' \in 0..MaxOps
         /\ JobOK'
<1> USE DEF TypeInv, TypeOK, End
<1>0. \A j \in Job : [j EXCEPT !.parent = None] \in Job
  BY DEF Job
<1>1. \A q \in Procs : [job[q] EXCEPT !.parent = None] \in Job
  BY <1>0
<1>2. job' \in [Procs -> Job]
  BY <1>1, NoJobType
<1>3. \A q \in Procs : pc'[q] = IF q = p THEN "idle" ELSE pc[q]
  BY DEF Goto
<1>4. \A q \in Procs : q # p => job'[q].ver = job[q].ver /\ job'[q].variant = job[q].variant
  BY DEF Job
<1>5. JobOK'
  BY <1>3, <1>4 DEF JobOK, WithVersion, WithVariant, Locking, Installing, Transaction
<1> QED BY <1>2, <1>5 DEF Goto, PCs

\* What the updates of a process's locals leave as it was.
LEMMA ExistedUpdate ==
  ASSUME NEW p \in Procs, job \in [Procs -> Job], NEW b \in BOOLEAN,
         job' = [job EXCEPT ![p].existed = b]
  PROVE  /\ job' \in [Procs -> Job]
         /\ \A q \in Procs : job'[q].ver = job[q].ver
         /\ \A q \in Procs : job'[q].variant = job[q].variant
         /\ \A q \in Procs : job'[q].targets = job[q].targets
<1>1. job[p] \in Job
  OBVIOUS
<1>2. job'[p] = [job[p] EXCEPT !.existed = b]
  OBVIOUS
<1>3. [job[p] EXCEPT !.existed = b] \in Job
  BY <1>1 DEF Job
<1>4. [job[p] EXCEPT !.existed = b].ver = job[p].ver
  BY <1>1 DEF Job
<1>5. [job[p] EXCEPT !.existed = b].variant = job[p].variant
  BY <1>1 DEF Job
<1>6. [job[p] EXCEPT !.existed = b].targets = job[p].targets
  BY <1>1 DEF Job
<1> QED BY <1>2, <1>3, <1>4, <1>5, <1>6

LEMMA LeftUpdate ==
  ASSUME NEW p \in Procs, job \in [Procs -> Job], NEW l \in SUBSET Contents,
         job' = [job EXCEPT ![p].left = l]
  PROVE  /\ job' \in [Procs -> Job]
         /\ \A q \in Procs : job'[q].ver = job[q].ver
         /\ \A q \in Procs : job'[q].variant = job[q].variant
         /\ \A q \in Procs : job'[q].targets = job[q].targets
<1>1. job[p] \in Job
  OBVIOUS
<1>2. job'[p] = [job[p] EXCEPT !.left = l]
  OBVIOUS
<1>3. [job[p] EXCEPT !.left = l] \in Job
  BY <1>1 DEF Job
<1>4. [job[p] EXCEPT !.left = l].ver = job[p].ver
  BY <1>1 DEF Job
<1>5. [job[p] EXCEPT !.left = l].variant = job[p].variant
  BY <1>1 DEF Job
<1>6. [job[p] EXCEPT !.left = l].targets = job[p].targets
  BY <1>1 DEF Job
<1> QED BY <1>2, <1>3, <1>4, <1>5, <1>6

LEMMA VariantUpdate ==
  ASSUME NEW p \in Procs, job \in [Procs -> Job], NEW s \in Variants,
         job' = [job EXCEPT ![p].variant = s]
  PROVE  /\ job' \in [Procs -> Job]
         /\ \A q \in Procs : job'[q].ver = job[q].ver
         /\ \A q \in Procs : job'[q].variant = IF q = p THEN s ELSE job[q].variant
<1>1. job[p] \in Job
  OBVIOUS
<1>2. job'[p] = [job[p] EXCEPT !.variant = s]
  OBVIOUS
<1>3. [job[p] EXCEPT !.variant = s] \in Job
  BY <1>1 DEF Job
<1>4. [job[p] EXCEPT !.variant = s].ver = job[p].ver
  BY <1>1 DEF Job
<1>5. [job[p] EXCEPT !.variant = s].variant = s
  BY <1>1 DEF Job
<1> QED BY <1>2, <1>3, <1>4, <1>5

\* A removal takes v off its list and turns to it.
LEMMA NextUpdate ==
  ASSUME NEW p \in Procs, job \in [Procs -> Job], NEW v \in job[p].todo,
         job' = [job EXCEPT ![p].todo = @ \ {v}, ![p].ver = v]
  PROVE  /\ v \in Versions
         /\ job' \in [Procs -> Job]
         /\ \A q \in Procs : job'[q].ver = IF q = p THEN v ELSE job[q].ver
         /\ \A q \in Procs : job'[q].variant = job[q].variant
         /\ \A q \in Procs : job'[q].targets = job[q].targets
<1> DEFINE t == job[p].todo \ {v}
           k == [job[p] EXCEPT !.todo = t]
           j == [k EXCEPT !.ver = v]
<1>1. job[p] \in Job
  OBVIOUS
<1>2. v \in Versions /\ t \in SUBSET Versions
  BY <1>1 DEF Job
<1>3. job'[p] = j /\ \A q \in Procs \ {p} : job'[q] = job[q]
  OBVIOUS
<1> HIDE DEF t
<1>4. k \in Job /\ k.variant = job[p].variant /\ k.targets = job[p].targets
  BY <1>1, <1>2 DEF Job
<1> HIDE DEF k
<1>5. j \in Job /\ j.ver = v
  BY <1>2, <1>4 DEF Job
<1>6. j.variant = k.variant /\ j.targets = k.targets
  BY <1>4 DEF Job
<1> HIDE DEF j
<1>7. DOMAIN job' = Procs /\ job' = [q \in Procs |-> job'[q]]
  OBVIOUS
<1> QED BY <1>2, <1>3, <1>4, <1>5, <1>6, <1>7

\* A mass removal writes down what it listed.
LEMMA ListUpdate ==
  ASSUME NEW p \in Procs, job \in [Procs -> Job],
         NEW t \in SUBSET Versions, NEW w \in SUBSET Versions,
         job' = [job EXCEPT ![p].todo = t, ![p].targets = w]
  PROVE  /\ job' \in [Procs -> Job]
         /\ \A q \in Procs : job'[q].ver = job[q].ver /\ job'[q].variant = job[q].variant
<1> DEFINE k == [job[p] EXCEPT !.todo = t]
           j == [k EXCEPT !.targets = w]
<1>1. job[p] \in Job
  OBVIOUS
<1>2. job'[p] = j /\ \A q \in Procs \ {p} : job'[q] = job[q]
  OBVIOUS
<1>3. k \in Job /\ k.variant = job[p].variant /\ k.ver = job[p].ver
  BY <1>1 DEF Job
<1> HIDE DEF k
<1>4. j \in Job /\ j.ver = k.ver
  BY <1>3 DEF Job
<1>5. j.variant = k.variant
  BY <1>3 DEF Job
<1> HIDE DEF j
<1>6. DOMAIN job' = Procs /\ job' = [q \in Procs |-> job'[q]]
  OBVIOUS
<1> QED BY <1>2, <1>3, <1>4, <1>5, <1>6

\* remove_dir_all takes entries away and adds none.
LEMMA EraseType ==
  ASSUME TypeOK, NEW v \in Versions, EraseWithin(v) \/ EraseVersionDir(v)
  PROVE  /\ tree' \in [Sources -> SUBSET Entries]
         /\ quarantine' \subseteq Sources
         /\ versionDir' \subseteq Versions
<1>1. CASE EraseWithin(v)
  BY <1>1 DEF TypeOK, EraseWithin, EraseEntry, Sources
<1>2. CASE EraseVersionDir(v)
  BY <1>2 DEF TypeOK, EraseVersionDir
<1> QED BY <1>1, <1>2

LEMMA InstallStepType ==
  ASSUME TypeInv, NEW p \in Procs, InstallStep(p)
  PROVE  TypeInv'
<1> USE ConstantsAssumption
<1> USE DEF TypeInv, store, selection, locks, control,
            WithVersion, WithVariant, PCs, Locking, Installing, Transaction
<1>1. CASE LockProduct(p)
  BY <1>1 DEF TypeOK, JobOK, LockProduct, Goto
<1>2. CASE LockVersion(p)
  BY <1>2 DEF TypeOK, JobOK, LockVersion, TakeVersionLock, Goto
<1>3. CASE BlockOnVersion(p)
  BY <1>3 DEF TypeOK, JobOK, BlockOnVersion, Goto
<1>4. CASE RefuseOwnHook(p)
  BY <1>4, EndType DEF TypeOK, RefuseOwnHook
<1>5. CASE AwaitVersion(p)
  BY <1>5 DEF TypeOK, JobOK, AwaitVersion, TakeVersionLock, Goto
<1>6. CASE Reuse(p)
  BY <1>6, EndType DEF TypeOK, Reuse
<1>7. CASE BeginTransaction(p)
  <2> DEFINE b == job[p].ver \in versionDir
  <2>1. b \in BOOLEAN /\ job' = [job EXCEPT ![p].existed = b]
    BY <1>7 DEF BeginTransaction
  <2> HIDE DEF b
  <2>2. /\ job' \in [Procs -> Job]
        /\ \A q \in Procs : job'[q].ver = job[q].ver /\ job'[q].variant = job[q].variant
    BY <2>1, ExistedUpdate DEF TypeOK
  <2> QED BY <1>7, <2>2 DEF TypeOK, JobOK, BeginTransaction, Goto
<1>8. CASE PreInstall(p)
  BY <1>8 DEF TypeOK, JobOK, PreInstall, AfterHook, Goto
<1>9. CASE PrepareRetire(p)
  BY <1>9 DEF TypeOK, JobOK, PrepareRetire, RetireRoot, Goto, At, Sources
<1>10. CASE PrepareCreate(p)
  BY <1>10 DEF TypeOK, JobOK, PrepareCreate, Goto, At, Sources, Entries
<1>11. CASE PrepareMark(p)
  <2>1. CASE "dir" \in tree[At(p)]
    <3>1. tree' = [tree EXCEPT ![At(p)] = @ \cup {"installing"}]
      BY <1>11, <2>1 DEF PrepareMark, Marked
    <3>2. tree' \in [Sources -> SUBSET Entries]
      BY <3>1 DEF TypeOK, Entries
    <3> QED BY <1>11, <2>1, <3>2 DEF TypeOK, JobOK, PrepareMark, Goto
  <2>2. CASE "dir" \notin tree[At(p)]
    BY <1>11, <2>2, EndType DEF TypeOK, PrepareMark
  <2> QED BY <2>1, <2>2
<1>12. CASE PrepareDiscard(p)
  <2>1. Payload[job[p].variant] \in SUBSET Contents
    BY <1>12 DEF JobOK, PrepareDiscard
  <2>2. /\ job' \in [Procs -> Job]
        /\ \A q \in Procs : job'[q].ver = job[q].ver /\ job'[q].variant = job[q].variant
    BY <1>12, <2>1, LeftUpdate DEF TypeOK, PrepareDiscard
  <2> QED BY <1>12, <2>2 DEF TypeOK, JobOK, PrepareDiscard, Goto, At, Sources
<1>13. CASE Fetch(p)
  <2> PICK f \in job[p].left :
        /\ tree' = [tree EXCEPT ![At(p)] = @ \cup {"dir", f}]
        /\ job' = [job EXCEPT ![p].left = job[p].left \ {f}]
    BY <1>13 DEF Fetch
  <2> DEFINE l == job[p].left \ {f}
  <2>1. f \in Contents /\ l \in SUBSET Contents /\ job' = [job EXCEPT ![p].left = l]
    BY DEF TypeOK, Job
  <2> HIDE DEF l
  <2>2. /\ job' \in [Procs -> Job]
        /\ \A q \in Procs : job'[q].ver = job[q].ver /\ job'[q].variant = job[q].variant
    BY <2>1, LeftUpdate DEF TypeOK
  <2> QED BY <1>13, <2>1, <2>2 DEF TypeOK, JobOK, Fetch, At, Sources, Entries
<1>14. CASE Publish(p)
  BY <1>14 DEF TypeOK, JobOK, Publish, Goto, At, Sources, Entries
<1>15. CASE Unmark(p)
  BY <1>15 DEF TypeOK, JobOK, Unmark, Goto, At, Sources, Entries
<1>16. CASE PostInstall(p)
  BY <1>16, EndType DEF TypeOK, PostInstall
<1>17. CASE InstallFails(p)
  BY <1>17 DEF TypeOK, JobOK, InstallFails, Goto
<1>18. CASE AbortRetire(p)
  BY <1>18 DEF TypeOK, JobOK, AbortRetire, RetireRoot, Goto, At, Sources
<1>19. CASE AbortDiscard(p)
  BY <1>19, EndType DEF TypeOK, JobOK, AbortDiscard, Goto, At, Sources
<1>20. CASE AbortVersion(p)
  <2>0. job[p].ver \in Versions
    BY <1>20 DEF AbortVersion, JobOK
  <2>1. CASE EraseWithin(job[p].ver) /\ UNCHANGED <<locks, control>>
    BY <1>20, <2>0, <2>1, EraseType DEF AbortVersion, TypeOK, JobOK
  <2>2. CASE EraseVersionDir(job[p].ver) /\ End(p)
    BY <1>20, <2>2, EndType DEF AbortVersion, TypeOK, EraseVersionDir
  <2>3. CASE End(p) /\ UNCHANGED store
    BY <1>20, <2>3, EndType DEF AbortVersion, TypeOK
  <2> QED BY <1>20, <2>1, <2>2, <2>3 DEF AbortVersion
<1> QED
  BY <1>1, <1>2, <1>3, <1>4, <1>5, <1>6, <1>7, <1>8, <1>9, <1>10, <1>11, <1>12,
     <1>13, <1>14, <1>15, <1>16, <1>17, <1>18, <1>19, <1>20 DEF InstallStep

LEMMA UseStepType ==
  ASSUME TypeInv, NEW p \in Procs, UseStep(p)
  PROVE  TypeInv'
<1> USE ConstantsAssumption
<1> USE DEF TypeInv, store, selection, locks, control,
            WithVersion, WithVariant, PCs, Locking, Installing, Transaction
<1>1. CASE ReadMarker(p)
  <2>0. PICK s \in Variants : job' = [job EXCEPT ![p].variant = s]
    BY <1>1 DEF ReadMarker
  <2>1. /\ job' \in [Procs -> Job]
        /\ \A q \in Procs : job'[q].ver = job[q].ver
        /\ \A q \in Procs : job'[q].variant = IF q = p THEN s ELSE job[q].variant
    <3>1. job \in [Procs -> Job]
      BY DEF TypeOK
    <3> HIDE ConstantsAssumption DEF TypeInv
    <3> QED BY <2>0, <3>1, VariantUpdate
  <2> QED BY <1>1, <2>1 DEF TypeOK, JobOK, ReadMarker, Goto
<1>2. CASE RefuseMarked(p)
  BY <1>2, EndType DEF TypeOK, RefuseMarked
<1>3. CASE ReadRest(p)
  <2>1. CASE LooksFinished(p)
    BY <1>3, <2>1 DEF TypeOK, JobOK, ReadRest, Goto
  <2>2. CASE ~LooksFinished(p)
    BY <1>3, <2>2, EndType DEF TypeOK, ReadRest
  <2> QED BY <2>1, <2>2
<1>4. CASE PreSwitch(p)
  BY <1>4 DEF TypeOK, JobOK, PreSwitch, AfterHook, Goto
<1>5. CASE SwitchCurrent(p)
  BY <1>5 DEF TypeOK, JobOK, SwitchCurrent, Goto
<1>6. CASE WritePin(p)
  BY <1>6 DEF TypeOK, JobOK, WritePin, Goto
<1>7. CASE PostSwitch(p)
  BY <1>7, EndType DEF TypeOK, PostSwitch
<1> QED
  BY <1>1, <1>2, <1>3, <1>4, <1>5, <1>6, <1>7 DEF UseStep

LEMMA RemoveStepType ==
  ASSUME TypeInv, NEW p \in Procs, RemoveStep(p)
  PROVE  TypeInv'
<1> USE ConstantsAssumption
<1> USE DEF TypeInv, store, selection, locks, control,
            WithVersion, WithVariant, PCs, Locking, Installing, Transaction
<1>1. CASE NextPlanned(p)
  <2>0. PICK v \in job[p].todo : job' = [job EXCEPT ![p].todo = @ \ {v}, ![p].ver = v]
    BY <1>1 DEF NextPlanned
  <2>1. /\ v \in Versions
        /\ job' \in [Procs -> Job]
        /\ \A q \in Procs : job'[q].ver = IF q = p THEN v ELSE job[q].ver
        /\ \A q \in Procs : job'[q].variant = job[q].variant
    <3>1. job \in [Procs -> Job]
      BY DEF TypeOK
    <3> HIDE ConstantsAssumption DEF TypeInv
    <3> QED BY <2>0, <3>1, NextUpdate
  <2>2. /\ pc[p] = "d_next"
        /\ pc' = pc \/ pc' = [pc EXCEPT ![p] = "d_check"]
        /\ UNCHANGED <<store, selection, locks, started>>
    BY <1>1 DEF NextPlanned, Goto
  <2>3. pc' \in [Procs -> PCs] /\ \A q \in Procs \ {p} : pc'[q] = pc[q]
    BY <2>2 DEF TypeOK
  <2>4. pc'[p] \in {"d_next", "d_check"} /\ pc'[p] \notin WithVariant
    BY <2>2 DEF TypeOK
  <2> HIDE DEF WithVersion, WithVariant
  <2>5. JobOK'
    BY <2>1, <2>3, <2>4 DEF JobOK
  <2> QED BY <2>1, <2>2, <2>3, <2>5 DEF TypeOK
<1>2. CASE PlanDone(p)
  BY <1>2, EndType DEF TypeOK, PlanDone
<1>3. CASE CheckUninstall(p)
  <2>1. CASE Removable(job[p].ver)
    BY <1>3, <2>1 DEF TypeOK, JobOK, CheckUninstall, Goto
  <2>2. CASE ~Removable(job[p].ver)
    BY <1>3, <2>2, EndType DEF TypeOK, CheckUninstall
  <2> QED BY <2>1, <2>2
<1>4. CASE PreUninstall(p)
  BY <1>4 DEF TypeOK, JobOK, PreUninstall, AfterHook, Goto
<1>5. CASE RemoveVersion(p)
  <2>0. job[p].ver \in Versions
    BY <1>5 DEF RemoveVersion, TypeOK, JobOK
  <2>1. CASE EraseWithin(job[p].ver) /\ UNCHANGED <<locks, control>>
    BY <1>5, <2>0, <2>1, EraseType DEF RemoveVersion, TypeOK, JobOK
  <2>2. CASE EraseVersionDir(job[p].ver) /\ Goto(p, "d_post") /\ UNCHANGED <<locks, job, started>>
    <3>1. /\ tree' \in [Sources -> SUBSET Entries]
          /\ quarantine' \subseteq Sources
          /\ versionDir' \subseteq Versions
      BY <2>0, <2>2, EraseType
    <3> QED BY <1>5, <2>0, <2>2, <3>1 DEF RemoveVersion, TypeOK, JobOK, Goto
  <2>3. CASE End(p) /\ UNCHANGED store
    BY <1>5, <2>3, EndType DEF RemoveVersion, TypeOK
  <2> QED BY <1>5, <2>1, <2>2, <2>3 DEF RemoveVersion
<1>6. CASE PostUninstall(p)
  BY <1>6 DEF TypeOK, JobOK, PostUninstall, AfterHook, Goto
<1>7. CASE NextArchived(p)
  <2>1. CASE job[p].todo = {}
    BY <1>7, <2>1, EndType DEF TypeOK, NextArchived
  <2>2. CASE job[p].todo # {}
    <3>0. PICK v \in job[p].todo : job' = [job EXCEPT ![p].todo = @ \ {v}, ![p].ver = v]
      BY <1>7, <2>2 DEF NextArchived
    <3>1. /\ v \in Versions
          /\ job' \in [Procs -> Job]
          /\ \A q \in Procs : job'[q].ver = IF q = p THEN v ELSE job[q].ver
          /\ \A q \in Procs : job'[q].variant = job[q].variant
      <4>1. job \in [Procs -> Job]
        BY DEF TypeOK
      <4> HIDE ConstantsAssumption DEF TypeInv
      <4> QED BY <3>0, <4>1, NextUpdate
    <3>2. /\ pc' = [pc EXCEPT ![p] = "x_remove"]
          /\ UNCHANGED <<store, selection, locks, started>>
      BY <1>7, <2>2 DEF NextArchived, Goto
    <3> QED BY <3>1, <3>2 DEF TypeOK, JobOK
  <2> QED BY <2>1, <2>2
<1>8. CASE ArchiveVersion(p)
  <2>1. tree' \in [Sources -> SUBSET Entries]
    <3>1. \/ tree' = tree
          \/ \E s \in Variants, f \in Entries :
               tree' = [tree EXCEPT ![<<job[p].ver, s>>] = @ \ {f}]
      BY <1>8 DEF TypeOK, JobOK, ArchiveVersion, Archivable, Sources, Entries
    <3>2. CASE tree' = tree
      BY <3>2 DEF TypeOK
    <3>3. ASSUME NEW s \in Variants, NEW f \in Entries,
                 tree' = [tree EXCEPT ![<<job[p].ver, s>>] = @ \ {f}]
          PROVE  tree' \in [Sources -> SUBSET Entries]
      BY <3>3 DEF TypeOK
    <3> QED BY <3>1, <3>2, <3>3
  <2>2. /\ pc[p] = "x_remove"
        /\ pc' = pc \/ pc' = [pc EXCEPT ![p] = "x_next"]
        /\ UNCHANGED <<quarantine, versionDir, selection, locks, job, started>>
    BY <1>8 DEF ArchiveVersion, Goto
  <2> QED BY <2>1, <2>2 DEF TypeOK, JobOK
<1> QED
  BY <1>1, <1>2, <1>3, <1>4, <1>5, <1>6, <1>7, <1>8 DEF RemoveStep

LEMMA RemoveAllStepType ==
  ASSUME TypeInv, NEW p \in Procs, RemoveAllStep(p)
  PROVE  TypeInv'
<1> USE ConstantsAssumption
<1> USE DEF TypeInv, store, selection, locks, control, WithVersion, WithVariant,
            PCs, Locking, Installing, Transaction, MassRemoval, Sweeping
<1>1. CASE TryProductLock(p)
  <2>1. CASE NoInstallRunning
    BY <1>1, <2>1 DEF TypeOK, JobOK, TryProductLock, Goto
  <2>2. CASE ~NoInstallRunning
    BY <1>1, <2>2, EndType DEF TypeOK, TryProductLock
  <2> QED BY <2>1, <2>2
<1>2. CASE ListVersions(p)
  <2>1. CASE versionDir = {}
    BY <1>2, <2>1, EndType DEF TypeOK, ListVersions
  <2>2. CASE versionDir # {}
    <3> DEFINE t == Listed
               w == Listed \cup lockFiles
    <3>1. t \in SUBSET Versions /\ w \in SUBSET Versions
      BY DEF TypeOK, Listed
    <3>2. job' = [job EXCEPT ![p].todo = t, ![p].targets = w]
      BY <1>2, <2>2 DEF ListVersions
    <3> HIDE DEF t, w
    <3>3. /\ job' \in [Procs -> Job]
          /\ \A q \in Procs : job'[q].ver = job[q].ver /\ job'[q].variant = job[q].variant
      BY <3>1, <3>2, ListUpdate DEF TypeOK
    <3> QED BY <1>2, <2>2, <3>3 DEF TypeOK, JobOK, ListVersions, Goto
  <2> QED BY <2>1, <2>2
<1>3. CASE TryVersionLock(p)
  <2> PICK v \in job[p].targets :
        IF RemovalMayTake(p, v)
          THEN /\ versionLock' = [versionLock EXCEPT ![v] = p]
               /\ lockFiles' = lockFiles \cup {v}
               /\ UNCHANGED <<productShared, productExclusive, control>>
          ELSE End(p)
    BY <1>3 DEF TryVersionLock
  <2>1. v \in Versions
    BY DEF TypeOK, Job
  <2>2. CASE RemovalMayTake(p, v)
    BY <1>3, <2>1, <2>2 DEF TypeOK, JobOK, TryVersionLock
  <2>3. CASE ~RemovalMayTake(p, v)
    BY <1>3, <2>3, EndType DEF TypeOK, TryVersionLock
  <2> QED BY <2>2, <2>3
<1>4. CASE RecheckLocks(p)
  <2>1. CASE lockFiles \subseteq job[p].targets
    BY <1>4, <2>1 DEF TypeOK, JobOK, RecheckLocks, Goto
  <2>2. CASE ~(lockFiles \subseteq job[p].targets)
    BY <1>4, <2>2, EndType DEF TypeOK, RecheckLocks
  <2> QED BY <2>1, <2>2
<1>5. CASE ClearCurrent(p)
  BY <1>5 DEF TypeOK, JobOK, ClearCurrent, Goto
<1>6. CASE ClearPin(p)
  BY <1>6 DEF TypeOK, JobOK, ClearPin, Goto
<1>7. CASE NextListed(p)
  <2>1. CASE job[p].todo = {}
    BY <1>7, <2>1 DEF TypeOK, JobOK, NextListed, Goto
  <2>2. CASE job[p].todo # {}
    <3> PICK v \in job[p].todo :
          IF v \in versionDir
            THEN /\ job' = [job EXCEPT ![p].todo = @ \ {v}, ![p].ver = v]
                 /\ Goto(p, "r_pre")
                 /\ UNCHANGED <<locks, started>>
            ELSE End(p)
      BY <1>7, <2>2 DEF NextListed
    <3>1. CASE v \in versionDir
      <4>1. /\ v \in Versions
            /\ job' \in [Procs -> Job]
            /\ \A q \in Procs : job'[q].ver = IF q = p THEN v ELSE job[q].ver
            /\ \A q \in Procs : job'[q].variant = job[q].variant
        BY <3>1, NextUpdate DEF TypeOK
      <4> QED BY <1>7, <3>1, <4>1 DEF TypeOK, JobOK, NextListed, Goto
    <3>2. CASE v \notin versionDir
      BY <1>7, <3>2, EndType DEF TypeOK, NextListed
    <3> QED BY <3>1, <3>2
  <2> QED BY <2>1, <2>2
<1>8. CASE PreUninstallListed(p)
  BY <1>8 DEF TypeOK, JobOK, PreUninstallListed, AfterHook, Goto
<1>9. CASE RemoveListed(p)
  <2>0. job[p].ver \in Versions
    BY <1>9 DEF RemoveListed, TypeOK, JobOK
  <2>1. CASE EraseWithin(job[p].ver) /\ UNCHANGED <<locks, control>>
    BY <1>9, <2>0, <2>1, EraseType DEF RemoveListed, TypeOK, JobOK
  <2>2. CASE EraseVersionDir(job[p].ver) /\ Goto(p, "r_post") /\ UNCHANGED <<locks, job, started>>
    <3>1. /\ tree' \in [Sources -> SUBSET Entries]
          /\ quarantine' \subseteq Sources
          /\ versionDir' \subseteq Versions
      BY <2>0, <2>2, EraseType
    <3> QED BY <1>9, <2>0, <2>2, <3>1 DEF RemoveListed, TypeOK, JobOK, Goto
  <2>3. CASE End(p) /\ UNCHANGED store
    BY <1>9, <2>3, EndType DEF RemoveListed, TypeOK
  <2> QED BY <1>9, <2>1, <2>2, <2>3 DEF RemoveListed
<1>10. CASE PostUninstallListed(p)
  BY <1>10 DEF TypeOK, JobOK, PostUninstallListed, AfterHook, Goto
<1>11. CASE SweepLeftovers(p)
  <2>1. CASE /\ \E v \in versionDir : EraseWithin(v) \/ EraseVersionDir(v)
             /\ UNCHANGED <<locks, control>>
    <3>1. /\ tree' \in [Sources -> SUBSET Entries]
          /\ quarantine' \subseteq Sources
          /\ versionDir' \subseteq Versions
      BY <2>1, EraseType DEF TypeOK
    <3> QED BY <1>11, <2>1, <3>1 DEF SweepLeftovers, TypeOK, JobOK
  <2>2. CASE End(p) /\ UNCHANGED store
    BY <1>11, <2>2, EndType DEF SweepLeftovers, TypeOK
  <2> QED BY <1>11, <2>1, <2>2 DEF SweepLeftovers
<1> QED
  BY <1>1, <1>2, <1>3, <1>4, <1>5, <1>6, <1>7, <1>8, <1>9, <1>10, <1>11 DEF RemoveAllStep

\* The locals each command starts with.
LEMMA FreshJobs ==
  /\ \A v \in Versions, s \in Variants :
       LET j == [NoJob EXCEPT !.ver = v, !.variant = s]
       IN  j \in Job /\ j.ver = v /\ j.variant = s
  /\ \A v \in Versions, b \in BOOLEAN :
       LET j == [NoJob EXCEPT !.ver = v, !.follow = b] IN j \in Job /\ j.ver = v
  /\ \A v \in Versions : LET j == [NoJob EXCEPT !.ver = v] IN j \in Job /\ j.ver = v
  /\ \A t \in SUBSET Versions : [NoJob EXCEPT !.todo = t] \in Job
<1>1. \A v \in Versions, s \in Variants :
        LET j == [NoJob EXCEPT !.ver = v, !.variant = s]
        IN  j \in Job /\ j.ver = v /\ j.variant = s
  BY DEF NoJob, Job
<1>2. \A v \in Versions, b \in BOOLEAN :
        LET j == [NoJob EXCEPT !.ver = v, !.follow = b] IN j \in Job /\ j.ver = v
  BY DEF NoJob, Job
<1>3. \A v \in Versions : LET j == [NoJob EXCEPT !.ver = v] IN j \in Job /\ j.ver = v
  BY DEF NoJob, Job
<1>4. \A t \in SUBSET Versions : [NoJob EXCEPT !.todo = t] \in Job
  BY DEF NoJob, Job
<1> QED BY <1>1, <1>2, <1>3, <1>4

LEMMA StartType ==
  ASSUME TypeInv, NEW p \in Procs, NEW j \in Job, NEW l \in PCs,
         l \in WithVersion => j.ver \in Versions,
         l \in WithVariant => j.variant \in Variants,
         started < MaxOps, Start(p, l, j), UNCHANGED <<store, selection, locks>>
  PROVE  TypeInv'
<1> USE ConstantsAssumption
<1>1. /\ pc' \in [Procs -> PCs]
      /\ job' \in [Procs -> Job]
      /\ started' \in 0..MaxOps
  BY DEF TypeInv, TypeOK, Start, Goto
<1>2. JobOK'
  BY DEF TypeInv, TypeOK, JobOK, Start, Goto
<1> QED BY <1>1, <1>2 DEF TypeInv, TypeOK, store, selection, locks

LEMMA StartCommandType ==
  ASSUME TypeInv, NEW p \in Procs, StartCommand(p)
  PROVE  TypeInv'
<1> USE DEF CanStart
<1> DEFINE Unlocked == {"u_marker", "d_check", "d_next", "x_next", "r_product"}
<1>0. /\ "i_product" \in PCs /\ Unlocked \subseteq PCs
      /\ Unlocked \cap WithVariant = {}
      /\ {"d_next", "x_next", "r_product"} \cap WithVersion = {}
  BY DEF PCs, WithVersion, WithVariant, Locking, Installing, Transaction
<1>1. CASE StartInstall(p)
  <2> PICK v \in Versions, s \in Variants :
        Start(p, "i_product", [NoJob EXCEPT !.ver = v, !.variant = s])
    BY <1>1 DEF StartInstall
  <2> DEFINE j == [NoJob EXCEPT !.ver = v, !.variant = s]
  <2>1. j \in Job /\ j.ver = v /\ j.variant = s /\ Start(p, "i_product", j)
    BY FreshJobs
  <2> HIDE DEF j
  <2> QED BY <1>0, <1>1, <2>1, StartType DEF StartInstall
<1>2. CASE StartUse(p)
  <2> PICK v \in versionDir, b \in BOOLEAN :
        Start(p, "u_marker", [NoJob EXCEPT !.ver = v, !.follow = b])
    BY <1>2 DEF StartUse
  <2> DEFINE j == [NoJob EXCEPT !.ver = v, !.follow = b]
  <2>1. v \in Versions
    BY DEF TypeInv, TypeOK
  <2>2. j \in Job /\ j.ver = v /\ Start(p, "u_marker", j)
    BY <2>1, FreshJobs
  <2> HIDE DEF j
  <2> QED BY <1>0, <1>2, <2>1, <2>2, StartType DEF StartUse
<1>3. CASE StartUninstall(p)
  <2> PICK v \in versionDir : Start(p, "d_check", [NoJob EXCEPT !.ver = v])
    BY <1>3 DEF StartUninstall
  <2> DEFINE j == [NoJob EXCEPT !.ver = v]
  <2>1. v \in Versions
    BY DEF TypeInv, TypeOK
  <2>2. j \in Job /\ j.ver = v /\ Start(p, "d_check", j)
    BY <2>1, FreshJobs
  <2> HIDE DEF j
  <2> QED BY <1>0, <1>3, <2>1, <2>2, StartType DEF StartUninstall
<1>4. CASE StartCleanup(p)
  <2> PICK plan \in SUBSET Listed : Start(p, "d_next", [NoJob EXCEPT !.todo = plan])
    BY <1>4 DEF StartCleanup
  <2> DEFINE j == [NoJob EXCEPT !.todo = plan]
  <2>1. plan \in SUBSET Versions
    BY DEF TypeInv, TypeOK, Listed
  <2>2. j \in Job /\ Start(p, "d_next", j)
    BY <2>1, FreshJobs
  <2> HIDE DEF j
  <2> QED BY <1>0, <1>4, <2>2, StartType DEF StartCleanup
<1>5. CASE StartArchive(p)
  <2> PICK v \in versionDir : Start(p, "x_next", [NoJob EXCEPT !.todo = {v}])
    BY <1>5 DEF StartArchive
  <2> DEFINE j == [NoJob EXCEPT !.todo = {v}]
  <2>1. {v} \in SUBSET Versions
    BY DEF TypeInv, TypeOK
  <2>2. j \in Job /\ Start(p, "x_next", j)
    BY <2>1, FreshJobs
  <2> HIDE DEF j
  <2> QED BY <1>0, <1>5, <2>2, StartType DEF StartArchive
<1>6. CASE StartArchiveBelow(p)
  <2> PICK below \in SUBSET Listed : Start(p, "x_next", [NoJob EXCEPT !.todo = below])
    BY <1>6 DEF StartArchiveBelow
  <2> DEFINE j == [NoJob EXCEPT !.todo = below]
  <2>1. below \in SUBSET Versions
    BY DEF TypeInv, TypeOK, Listed
  <2>2. j \in Job /\ Start(p, "x_next", j)
    BY <2>1, FreshJobs
  <2> HIDE DEF j
  <2> QED BY <1>0, <1>6, <2>2, StartType DEF StartArchiveBelow
<1>7. CASE StartUninstallAll(p)
  BY <1>0, <1>7, NoJobType, StartType DEF StartUninstallAll
<1> QED
  BY <1>1, <1>2, <1>3, <1>4, <1>5, <1>6, <1>7 DEF StartCommand

LEMMA HookInstallType ==
  ASSUME TypeInv, NEW p \in Procs, NEW q \in Procs, HookInstall(p, q)
  PROVE  TypeInv'
<1>1. job[p].ver \in Versions
  BY DEF HookInstall, HookPoints, TypeInv, TypeOK, JobOK, WithVersion, WithVariant,
         Installing, Transaction
<1>2. PICK v \in HookTargets[<<pc[p], job[p].ver>>], s \in Variants :
        Start(q, "i_product", [NoJob EXCEPT !.ver = v, !.variant = s,
                                            !.parent = p, !.env = job[p].ver])
  BY DEF HookInstall
<1>3. v \in Versions
  BY <1>1, ConstantsAssumption DEF HookInstall
<1> DEFINE e == job[p].ver
           j == [NoJob EXCEPT !.ver = v, !.variant = s, !.parent = p, !.env = e]
<1>4. e \in Versions /\ Start(q, "i_product", j)
  BY <1>1, <1>2
<1> HIDE DEF e
<1>5. j = [NoJob EXCEPT !.ver = v, !.variant = s, !.parent = p, !.env = e]
  OBVIOUS
<1> HIDE DEF j
<1>6. j \in Job /\ j.ver = v /\ j.variant = s
  BY <1>3, <1>4, <1>5 DEF NoJob, Job
<1>7. "i_product" \in PCs
  BY DEF PCs
<1> QED BY <1>3, <1>4, <1>6, <1>7, StartType DEF HookInstall, CanStart

LEMMA InitType == Init => TypeInv
<1> SUFFICES ASSUME Init PROVE TypeInv
  OBVIOUS
<1> USE ConstantsAssumption
<1>1. PICK old \in SUBSET PreMarker :
        /\ tree = [x \in Sources |-> IF x \in old THEN PreMarkerTree(x[2]) ELSE {}]
        /\ versionDir = {x[1] : x \in old}
  BY DEF Init
<1>2. \A x \in Sources : PreMarkerTree(x[2]) \subseteq Entries
  BY DEF PreMarkerTree, Entries, Sources
<1>3. tree \in [Sources -> SUBSET Entries]
  BY <1>1, <1>2
<1>4. versionDir \subseteq Versions
  BY <1>1 DEF Sources
<1>5. JobOK
  BY DEF Init, JobOK, WithVersion, WithVariant, Locking, Installing, Transaction
<1> QED BY <1>3, <1>4, <1>5, NoJobType DEF Init, TypeInv, TypeOK, PCs

LEMMA StutterType ==
  ASSUME TypeInv, UNCHANGED vars
  PROVE  TypeInv'
BY DEF TypeInv, TypeOK, JobOK, vars, store, selection, locks, control

LEMMA NextType ==
  ASSUME TypeInv, [Next]_vars
  PROVE  TypeInv'
<1>1. ASSUME NEW p \in Procs, Crash(p) PROVE TypeInv'
  BY <1>1, EndType DEF Crash, TypeInv, TypeOK, store, selection
<1>2. ASSUME NEW p \in Procs, Step(p) PROVE TypeInv'
  BY <1>2, InstallStepType, UseStepType, RemoveStepType, RemoveAllStepType DEF Step
<1>3. CASE AllDone
  BY <1>3, StutterType DEF AllDone
<1>4. CASE UNCHANGED vars
  BY <1>4, StutterType
<1> QED
  BY <1>1, <1>2, <1>3, <1>4, StartCommandType, HookInstallType DEF Next

\* Whatever the processes do and wherever they are killed, the state of the
\* store, the locks and every process stays well formed.
THEOREM TypeCorrect == Spec => []TypeOK
<1>1. TypeInv /\ [Next]_vars => TypeInv'
  BY NextType
<1>2. TypeInv => TypeOK
  BY DEF TypeInv
<1> QED BY InitType, <1>1, <1>2, PTL DEF Spec

-----------------------------------------------------------------------------
(* SingleFlight is not inductive: it says nothing of who holds a lock.  An *)
(* install holds the lock of its version from the check on; a mass removal *)
(* that has begun to remove holds every lock it set out to take.           *)

InstallHolds(p) == pc[p] \in Installing => versionLock[job[p].ver] = p

RemovalHolds(p) == pc[p] \in Sweeping => \A v \in job[p].targets : versionLock[v] = p

LockInv == \A p \in Procs : InstallHolds(p) /\ RemovalHolds(p)

\* A process that touches nobody else's lock and keeps its own obligations
\* keeps the invariant.
LEMMA LockFrame ==
  ASSUME LockInv, TypeInv, NEW p \in Procs,
         \A q \in Procs \ {p} : pc'[q] = pc[q],
         \A q \in Procs \ {p} : job'[q].ver = job[q].ver /\ job'[q].targets = job[q].targets,
         \A v \in Versions : versionLock[v] \in Procs \ {p} => versionLock'[v] = versionLock[v],
         InstallHolds(p)', RemovalHolds(p)'
  PROVE  LockInv'
<1> SUFFICES ASSUME NEW q \in Procs \ {p} PROVE InstallHolds(q)' /\ RemovalHolds(q)'
  BY DEF LockInv
<1>1. InstallHolds(q)'
  BY DEF LockInv, InstallHolds, TypeInv, JobOK, WithVersion, WithVariant
<1>2. job[q].targets \subseteq Versions
  BY DEF TypeInv, TypeOK, Job
<1>3. RemovalHolds(q)'
  BY <1>2 DEF LockInv, RemovalHolds
<1> QED BY <1>1, <1>3

\* A step within a command that takes and drops no per-version lock, and moves
\* neither into an install nor into a removal.
LEMMA Moves ==
  ASSUME LockInv, TypeInv, NEW p \in Procs, NEW l,
         pc' = [pc EXCEPT ![p] = l], UNCHANGED versionLock,
         \A q \in Procs : job'[q].ver = job[q].ver /\ job'[q].targets = job[q].targets,
         l \in Installing => pc[p] \in Installing,
         l \in Sweeping => pc[p] \in Sweeping
  PROVE  LockInv'
<1>1. pc'[p] = l /\ \A q \in Procs \ {p} : pc'[q] = pc[q]
  BY DEF TypeInv, TypeOK
<1>2. InstallHolds(p)' /\ RemovalHolds(p)'
  BY <1>1 DEF LockInv, InstallHolds, RemovalHolds
<1> QED BY <1>1, <1>2, LockFrame

\* A step that leaves control alone.
LEMMA Stays ==
  ASSUME LockInv, UNCHANGED versionLock, UNCHANGED pc,
         \A q \in Procs : job'[q].ver = job[q].ver /\ job'[q].targets = job[q].targets
  PROVE  LockInv'
BY DEF LockInv, InstallHolds, RemovalHolds

LEMMA Ends ==
  ASSUME LockInv, TypeInv, NEW p \in Procs, End(p)
  PROVE  LockInv'
<1>1. pc'[p] = "idle" /\ \A q \in Procs \ {p} : pc'[q] = pc[q]
  BY DEF End, Goto, TypeInv, TypeOK
<1>2. \A q \in Procs \ {p} : job'[q].ver = job[q].ver /\ job'[q].targets = job[q].targets
  BY DEF End, TypeInv, TypeOK, Job
<1>3. \A v \in Versions : versionLock[v] \in Procs \ {p} => versionLock'[v] = versionLock[v]
  BY DEF End
<1>4. InstallHolds(p)' /\ RemovalHolds(p)'
  BY <1>1 DEF InstallHolds, RemovalHolds, Installing, Transaction, Sweeping
<1> QED BY <1>1, <1>2, <1>3, <1>4, LockFrame

\* Only a lock that is free is taken.
LEMMA Takes ==
  ASSUME LockInv, TypeInv, NEW p \in Procs, TakeVersionLock(p),
         pc[p] \in Locking, VersionLockFree(job[p].ver)
  PROVE  LockInv'
<1> USE DEF TakeVersionLock, Goto
<1>1. pc'[p] = "i_check" /\ \A q \in Procs \ {p} : pc'[q] = pc[q]
  BY DEF TypeInv, TypeOK
<1>2. job[p].ver \in Versions
  BY DEF TypeInv, JobOK, WithVersion, WithVariant
<1>3. \A v \in Versions : versionLock[v] \in Procs \ {p} => versionLock'[v] = versionLock[v]
  BY <1>2, ConstantsAssumption DEF TypeInv, TypeOK, VersionLockFree
<1>4. InstallHolds(p)'
  BY <1>2 DEF InstallHolds, TypeInv, TypeOK
<1>5. RemovalHolds(p)'
  BY <1>1 DEF RemovalHolds, Sweeping
<1> QED BY <1>1, <1>3, <1>4, <1>5, LockFrame

LEMMA InstallStepLocks ==
  ASSUME LockInv, TypeInv, NEW p \in Procs, InstallStep(p)
  PROVE  LockInv'
<1> USE DEF Goto, locks, Locking, Installing, Transaction, Sweeping
<1>1. CASE LockProduct(p)
  BY <1>1, Moves DEF LockProduct
<1>2. CASE LockVersion(p)
  BY <1>2, Takes DEF LockVersion
<1>3. CASE BlockOnVersion(p)
  BY <1>3, Moves DEF BlockOnVersion
<1>4. CASE RefuseOwnHook(p) \/ Reuse(p) \/ PostInstall(p)
  BY <1>4, Ends DEF RefuseOwnHook, Reuse, PostInstall
<1>5. CASE AwaitVersion(p)
  BY <1>5, Takes DEF AwaitVersion
<1>6. CASE BeginTransaction(p)
  <2> DEFINE b == job[p].ver \in versionDir
  <2>1. b \in BOOLEAN /\ job' = [job EXCEPT ![p].existed = b]
    BY <1>6 DEF BeginTransaction
  <2> HIDE DEF b
  <2>2. \A q \in Procs : job'[q].ver = job[q].ver /\ job'[q].targets = job[q].targets
    BY <2>1, ExistedUpdate DEF TypeInv, TypeOK
  <2> QED BY <1>6, <2>2, Moves DEF BeginTransaction
<1>7. CASE PreInstall(p)
  BY <1>7, Moves DEF PreInstall, AfterHook
<1>8. CASE PrepareRetire(p)
  BY <1>8, Moves DEF PrepareRetire
<1>9. CASE PrepareCreate(p)
  BY <1>9, Moves DEF PrepareCreate
<1>10. CASE PrepareMark(p)
  <2>1. CASE "dir" \in tree[At(p)]
    BY <1>10, <2>1, Moves DEF PrepareMark
  <2>2. CASE "dir" \notin tree[At(p)]
    BY <1>10, <2>2, Ends DEF PrepareMark
  <2> QED BY <2>1, <2>2
<1>11. CASE PrepareDiscard(p)
  <2>1. Payload[job[p].variant] \in SUBSET Contents
    BY <1>11, ConstantsAssumption DEF TypeInv, JobOK, PrepareDiscard, WithVariant
  <2>2. \A q \in Procs : job'[q].ver = job[q].ver /\ job'[q].targets = job[q].targets
    BY <1>11, <2>1, LeftUpdate DEF TypeInv, TypeOK, PrepareDiscard
  <2> QED BY <1>11, <2>2, Moves DEF PrepareDiscard
<1>12. CASE Fetch(p)
  <2>0. PICK f \in job[p].left : job' = [job EXCEPT ![p].left = job[p].left \ {f}]
    BY <1>12 DEF Fetch
  <2> DEFINE l == job[p].left \ {f}
  <2>1. l \in SUBSET Contents /\ job' = [job EXCEPT ![p].left = l]
    BY <2>0 DEF TypeInv, TypeOK, Job
  <2> HIDE DEF l
  <2>2. \A q \in Procs : job'[q].ver = job[q].ver /\ job'[q].targets = job[q].targets
    BY <2>1, LeftUpdate DEF TypeInv, TypeOK
  <2> QED BY <1>12, <2>2, Stays DEF Fetch
<1>13. CASE Publish(p)
  BY <1>13, Moves DEF Publish
<1>14. CASE Unmark(p)
  BY <1>14, Moves DEF Unmark
<1>15. CASE InstallFails(p)
  BY <1>15, Moves DEF InstallFails
<1>16. CASE AbortRetire(p)
  BY <1>16, Moves DEF AbortRetire
<1>17. CASE AbortDiscard(p)
  BY <1>17, Moves, Ends DEF AbortDiscard
<1>18. CASE AbortVersion(p)
  BY <1>18, Stays, Ends DEF AbortVersion, control
<1> QED
  BY <1>1, <1>2, <1>3, <1>4, <1>5, <1>6, <1>7, <1>8, <1>9, <1>10, <1>11, <1>12,
     <1>13, <1>14, <1>15, <1>16, <1>17, <1>18 DEF InstallStep

LEMMA UseStepLocks ==
  ASSUME LockInv, TypeInv, NEW p \in Procs, UseStep(p)
  PROVE  LockInv'
<1> USE DEF Goto, locks, Installing, Transaction, Sweeping
<1>1. CASE ReadMarker(p)
  <2>1. PICK s \in Variants : job' = [job EXCEPT ![p].variant = s]
    BY <1>1 DEF ReadMarker
  <2>2. \A q \in Procs : job'[q].ver = job[q].ver /\ job'[q].targets = job[q].targets
    BY <2>1 DEF TypeInv, TypeOK, Job
  <2> QED BY <1>1, <2>2, Moves DEF ReadMarker
<1>2. CASE RefuseMarked(p) \/ PostSwitch(p)
  BY <1>2, Ends DEF RefuseMarked, PostSwitch
<1>3. CASE ReadRest(p)
  BY <1>3, Moves, Ends DEF ReadRest
<1>4. CASE PreSwitch(p)
  BY <1>4, Moves DEF PreSwitch, AfterHook
<1>5. CASE SwitchCurrent(p)
  BY <1>5, Moves DEF SwitchCurrent
<1>6. CASE WritePin(p)
  BY <1>6, Moves DEF WritePin
<1> QED
  BY <1>1, <1>2, <1>3, <1>4, <1>5, <1>6 DEF UseStep

\* A removal turns to the next version: outside installs the version worked on
\* matters to no lock.
LEMMA Turns ==
  ASSUME LockInv, TypeInv, NEW p \in Procs, NEW v \in job[p].todo,
         job' = [job EXCEPT ![p].todo = @ \ {v}, ![p].ver = v],
         UNCHANGED versionLock,
         \A q \in Procs \ {p} : pc'[q] = pc[q],
         pc'[p] \notin Installing,
         pc'[p] \in Sweeping => pc[p] \in Sweeping
  PROVE  LockInv'
<1>1. job \in [Procs -> Job]
  BY DEF TypeInv, TypeOK
<1>2. /\ \A q \in Procs : job'[q].ver = IF q = p THEN v ELSE job[q].ver
      /\ \A q \in Procs : job'[q].targets = job[q].targets
  BY <1>1, NextUpdate
<1>3. InstallHolds(p)' /\ RemovalHolds(p)'
  BY <1>2 DEF InstallHolds, RemovalHolds, LockInv
<1> QED BY <1>2, <1>3, LockFrame

LEMMA RemoveStepLocks ==
  ASSUME LockInv, TypeInv, NEW p \in Procs, RemoveStep(p)
  PROVE  LockInv'
<1> USE DEF Goto, locks, Installing, Transaction, Sweeping
<1>1. CASE NextPlanned(p)
  <2>1. PICK v \in job[p].todo : job' = [job EXCEPT ![p].todo = @ \ {v}, ![p].ver = v]
    BY <1>1 DEF NextPlanned
  <2>2. /\ \A q \in Procs \ {p} : pc'[q] = pc[q]
        /\ pc'[p] \in {"d_next", "d_check"}
        /\ UNCHANGED versionLock
    BY <1>1 DEF NextPlanned, TypeInv, TypeOK
  <2> QED BY <2>1, <2>2, Turns
<1>2. CASE PlanDone(p)
  BY <1>2, Ends DEF PlanDone
<1>3. CASE CheckUninstall(p)
  BY <1>3, Moves, Ends DEF CheckUninstall
<1>4. CASE PreUninstall(p)
  BY <1>4, Moves DEF PreUninstall, AfterHook
<1>5. CASE RemoveVersion(p)
  BY <1>5, Stays, Moves, Ends DEF RemoveVersion, control
<1>6. CASE PostUninstall(p)
  BY <1>6, Moves DEF PostUninstall, AfterHook
<1>7. CASE NextArchived(p)
  <2>1. CASE job[p].todo = {}
    BY <1>7, <2>1, Ends DEF NextArchived
  <2>2. CASE job[p].todo # {}
    <3>1. PICK v \in job[p].todo : job' = [job EXCEPT ![p].todo = @ \ {v}, ![p].ver = v]
      BY <1>7, <2>2 DEF NextArchived
    <3>2. /\ \A q \in Procs \ {p} : pc'[q] = pc[q]
          /\ pc'[p] = "x_remove"
          /\ UNCHANGED versionLock
      BY <1>7, <2>2 DEF NextArchived, TypeInv, TypeOK
    <3> QED BY <3>1, <3>2, Turns
  <2> QED BY <2>1, <2>2
<1>8. CASE ArchiveVersion(p)
  BY <1>8, Moves, Stays DEF ArchiveVersion
<1> QED
  BY <1>1, <1>2, <1>3, <1>4, <1>5, <1>6, <1>7, <1>8 DEF RemoveStep

LEMMA RemoveAllStepLocks ==
  ASSUME LockInv, TypeInv, NEW p \in Procs, RemoveAllStep(p)
  PROVE  LockInv'
<1> USE DEF Goto, locks, Installing, Transaction, Sweeping
<1>1. CASE TryProductLock(p)
  BY <1>1, Moves, Ends DEF TryProductLock
<1>2. CASE ListVersions(p)
  <2>1. CASE versionDir = {}
    BY <1>2, <2>1, Ends DEF ListVersions
  <2>2. CASE versionDir # {}
    <3>1. /\ pc'[p] = "r_lock" /\ \A q \in Procs \ {p} : pc'[q] = pc[q]
          /\ UNCHANGED versionLock
      BY <1>2, <2>2 DEF ListVersions, TypeInv, TypeOK
    <3>2. \A q \in Procs \ {p} : job'[q] = job[q]
      BY <1>2, <2>2 DEF ListVersions, TypeInv, TypeOK
    <3>3. InstallHolds(p)' /\ RemovalHolds(p)'
      BY <3>1 DEF InstallHolds, RemovalHolds
    <3> QED BY <3>1, <3>2, <3>3, LockFrame
  <2> QED BY <2>1, <2>2
<1>3. CASE TryVersionLock(p)
  <2>0. PICK v \in job[p].targets :
          IF RemovalMayTake(p, v)
            THEN /\ versionLock' = [versionLock EXCEPT ![v] = p]
                 /\ UNCHANGED control
            ELSE End(p)
    BY <1>3 DEF TryVersionLock
  <2>1. CASE RemovalMayTake(p, v)
    <3>1. UNCHANGED <<pc, job>>
      BY <2>0, <2>1 DEF control
    <3>2. \A w \in Versions : versionLock[w] \in Procs \ {p} => versionLock'[w] = versionLock[w]
      BY <2>0, <2>1, ConstantsAssumption DEF RemovalMayTake, TypeInv, TypeOK
    <3>3. InstallHolds(p)' /\ RemovalHolds(p)'
      BY <1>3, <3>1 DEF TryVersionLock, InstallHolds, RemovalHolds
    <3> QED BY <3>1, <3>2, <3>3, LockFrame
  <2>2. CASE ~RemovalMayTake(p, v)
    BY <2>0, <2>2, Ends
  <2> QED BY <2>1, <2>2
<1>4. CASE RecheckLocks(p)
  <2>1. CASE lockFiles \subseteq job[p].targets
    <3>1. /\ pc'[p] = "r_clear" /\ \A q \in Procs \ {p} : pc'[q] = pc[q]
          /\ UNCHANGED <<versionLock, job>>
      BY <1>4, <2>1 DEF RecheckLocks, TypeInv, TypeOK
    <3>2. InstallHolds(p)' /\ RemovalHolds(p)'
      BY <1>4, <3>1 DEF RecheckLocks, InstallHolds, RemovalHolds
    <3> QED BY <3>1, <3>2, LockFrame
  <2>2. CASE ~(lockFiles \subseteq job[p].targets)
    BY <1>4, <2>2, Ends DEF RecheckLocks
  <2> QED BY <2>1, <2>2
<1>5. CASE ClearCurrent(p)
  BY <1>5, Moves DEF ClearCurrent
<1>6. CASE ClearPin(p)
  BY <1>6, Moves DEF ClearPin
<1>7. CASE NextListed(p)
  <2>1. CASE job[p].todo = {}
    BY <1>7, <2>1, Moves DEF NextListed
  <2>2. CASE job[p].todo # {}
    <3>0. PICK v \in job[p].todo :
            IF v \in versionDir
              THEN /\ job' = [job EXCEPT ![p].todo = @ \ {v}, ![p].ver = v]
                   /\ pc' = [pc EXCEPT ![p] = "r_pre"]
                   /\ UNCHANGED versionLock
              ELSE End(p)
      BY <1>7, <2>2 DEF NextListed
    <3>1. CASE v \in versionDir
      <4>1. job' = [job EXCEPT ![p].todo = @ \ {v}, ![p].ver = v] /\ UNCHANGED versionLock
        BY <3>0, <3>1
      <4>2. /\ \A q \in Procs \ {p} : pc'[q] = pc[q]
            /\ pc[p] \in Sweeping /\ pc'[p] = "r_pre"
        BY <1>7, <3>0, <3>1 DEF NextListed, TypeInv, TypeOK
      <4> QED BY <4>1, <4>2, Turns
    <3>2. CASE v \notin versionDir
      BY <3>0, <3>2, Ends
    <3> QED BY <3>1, <3>2
  <2> QED BY <2>1, <2>2
<1>8. CASE PreUninstallListed(p)
  BY <1>8, Moves DEF PreUninstallListed, AfterHook
<1>9. CASE RemoveListed(p)
  BY <1>9, Stays, Moves, Ends DEF RemoveListed, control
<1>10. CASE PostUninstallListed(p)
  BY <1>10, Moves DEF PostUninstallListed, AfterHook
<1>11. CASE SweepLeftovers(p)
  BY <1>11, Stays, Ends DEF SweepLeftovers, control
<1> QED
  BY <1>1, <1>2, <1>3, <1>4, <1>5, <1>6, <1>7, <1>8, <1>9, <1>10, <1>11 DEF RemoveAllStep

\* No command starts inside an install or a removal.
LEMMA StartLocks ==
  ASSUME LockInv, TypeInv, NEW p \in Procs, NEW l, NEW j, Start(p, l, j),
         l \notin Installing, l \notin Sweeping, UNCHANGED versionLock
  PROVE  LockInv'
<1>1. /\ pc'[p] = l /\ \A q \in Procs \ {p} : pc'[q] = pc[q]
      /\ \A q \in Procs \ {p} : job'[q] = job[q]
  BY DEF Start, Goto, TypeInv, TypeOK
<1>2. InstallHolds(p)' /\ RemovalHolds(p)'
  BY <1>1 DEF InstallHolds, RemovalHolds
<1> QED BY <1>1, <1>2, LockFrame

LEMMA NextLocks ==
  ASSUME LockInv, TypeInv, [Next]_vars
  PROVE  LockInv'
<1> USE DEF locks, Installing, Transaction, Sweeping
<1>1. ASSUME NEW p \in Procs, StartCommand(p) PROVE LockInv'
  BY <1>1, StartLocks
     DEF StartCommand, StartInstall, StartUse, StartUninstall, StartCleanup,
         StartArchive, StartArchiveBelow, StartUninstallAll
<1>2. ASSUME NEW p \in Procs, NEW q \in Procs, HookInstall(p, q) PROVE LockInv'
  BY <1>2, StartLocks DEF HookInstall
<1>3. ASSUME NEW p \in Procs, Crash(p) PROVE LockInv'
  BY <1>3, Ends DEF Crash
<1>4. ASSUME NEW p \in Procs, Step(p) PROVE LockInv'
  BY <1>4, InstallStepLocks, UseStepLocks, RemoveStepLocks, RemoveAllStepLocks DEF Step
<1>5. CASE UNCHANGED vars
  BY <1>5, Stays DEF vars, control
<1> QED
  BY <1>1, <1>2, <1>3, <1>4, <1>5 DEF Next, AllDone

LEMMA InitLocks == Init => LockInv
BY DEF Init, LockInv, InstallHolds, RemovalHolds, Installing, Transaction, Sweeping

THEOREM LocksHeld == Spec => [](TypeInv /\ LockInv)
<1>1. Init => TypeInv /\ LockInv
  BY InitType, InitLocks
<1>2. TypeInv /\ LockInv /\ [Next]_vars => (TypeInv /\ LockInv)'
  BY NextType, NextLocks
<1> QED BY <1>1, <1>2, PTL DEF Spec

\* Two install transactions are never at work on one version: both would hold
\* its lock.
THEOREM SingleFlightCorrect == Spec => []SingleFlight
<1>1. LockInv => SingleFlight
  BY DEF LockInv, InstallHolds, SingleFlight, Installing
<1> QED BY <1>1, LocksHeld, PTL

\* No transaction runs on a version an uninstall --all has locked, even one of
\* an ovm that knows nothing of the product lock: it would hold the lock.
THEOREM NoWriterCorrect == Spec => []NoWriterUnderMassRemoval
<1>1. LockInv => NoWriterUnderMassRemoval
  BY DEF LockInv, InstallHolds, RemovalHolds, NoWriterUnderMassRemoval, Installing
<1> QED BY <1>1, LocksHeld, PTL

-----------------------------------------------------------------------------
(* What one step writes.  Each process writes the trees of the version it  *)
(* works on, and a sweep any; nobody writes the locals of another.         *)

Writing == {"i_retire", "i_create", "i_mark", "i_fetch", "i_unmark", "a_retire",
            "a_version"}
Removing == {"d_remove", "x_remove", "r_remove"}

Apart(p) ==
  \A q \in Procs \ {p} :
    /\ pc'[q] = pc[q]
    /\ job'[q].ver = job[q].ver /\ job'[q].variant = job[q].variant
    /\ job'[q].existed = job[q].existed /\ job'[q].left = job[q].left
    /\ job'[q].todo = job[q].todo

LEMMA AtSource ==
  ASSUME TypeInv, NEW p \in Procs, pc[p] \in WithVariant
  PROVE  /\ job[p].ver \in Versions /\ job[p].variant \in Variants
         /\ At(p) \in Sources /\ At(p)[1] = job[p].ver /\ At(p)[2] = job[p].variant
         /\ At(p) = <<job[p].ver, job[p].variant>>
BY DEF TypeInv, JobOK, WithVersion, At, Sources

LEMMA EndApart ==
  ASSUME TypeInv, NEW p \in Procs, End(p)
  PROVE  Apart(p) /\ pc'[p] = "idle" /\ job'[p] = NoJob
<1>1. \A q \in Procs : job[q] \in Job
  BY DEF TypeInv, TypeOK
<1>2. job'[p] = NoJob /\ \A q \in Procs \ {p} : job'[q] \in {job[q], [job[q] EXCEPT !.parent = None]}
  BY DEF End
<1>3. \A j \in Job : LET k == [j EXCEPT !.parent = None]
                     IN  /\ k.ver = j.ver /\ k.variant = j.variant /\ k.existed = j.existed
                         /\ k.left = j.left /\ k.todo = j.todo
  BY DEF Job
<1> QED BY <1>1, <1>2, <1>3 DEF Apart, End, Goto, TypeInv, TypeOK

\* A step that moves p, sets locals of p only, or leaves both alone.
LEMMA GoApart ==
  ASSUME TypeInv, NEW p \in Procs,
         UNCHANGED pc \/ \E l : Goto(p, l),
         UNCHANGED job \/ \E j : job' = [job EXCEPT ![p] = j]
  PROVE  Apart(p)
BY DEF Apart, Goto, TypeInv, TypeOK

LEMMA StartApart ==
  ASSUME TypeInv, NEW p \in Procs, NEW l, NEW j, Start(p, l, j)
  PROVE  Apart(p) /\ pc'[p] = l /\ job'[p] = j
BY DEF Apart, Start, Goto, TypeInv, TypeOK

\* Starting a command touches nothing but the control of the process that runs it.
LEMMA StartGoes ==
  ASSUME TypeInv, NEW p \in Procs, StartCommand(p)
  PROVE  /\ Apart(p) /\ UNCHANGED <<store, selection, locks>>
         /\ pc'[p] \in {"i_product", "u_marker", "d_check", "d_next", "x_next", "r_product"}
<1>1. CASE StartInstall(p)
  BY <1>1, StartApart DEF StartInstall
<1>2. CASE StartUse(p)
  BY <1>2, StartApart DEF StartUse
<1>3. CASE StartUninstall(p)
  BY <1>3, StartApart DEF StartUninstall
<1>4. CASE StartCleanup(p)
  BY <1>4, StartApart DEF StartCleanup
<1>5. CASE StartArchive(p)
  BY <1>5, StartApart DEF StartArchive
<1>6. CASE StartArchiveBelow(p)
  BY <1>6, StartApart DEF StartArchiveBelow
<1>7. CASE StartUninstallAll(p)
  BY <1>7, StartApart DEF StartUninstallAll
<1> QED BY <1>1, <1>2, <1>3, <1>4, <1>5, <1>6, <1>7 DEF StartCommand

LEMMA HookGoes ==
  ASSUME TypeInv, NEW p \in Procs, NEW q \in Procs, HookInstall(p, q)
  PROVE  /\ Apart(q) /\ UNCHANGED <<store, selection, locks>>
         /\ pc'[q] = "i_product"
BY StartApart DEF HookInstall

LEMMA InstallApart ==
  ASSUME TypeInv, NEW p \in Procs, InstallStep(p)
  PROVE  Apart(p)
<1> USE DEF locks, control
<1>1. CASE LockProduct(p)
  BY <1>1, GoApart DEF LockProduct
<1>2. CASE LockVersion(p) \/ AwaitVersion(p)
  BY <1>2, GoApart DEF LockVersion, AwaitVersion, TakeVersionLock
<1>3. CASE BlockOnVersion(p)
  BY <1>3, GoApart DEF BlockOnVersion
<1>4. CASE RefuseOwnHook(p) \/ Reuse(p) \/ PostInstall(p)
  BY <1>4, EndApart DEF RefuseOwnHook, Reuse, PostInstall
<1>5. CASE BeginTransaction(p)
  BY <1>5, GoApart DEF BeginTransaction
<1>6. CASE PreInstall(p)
  BY <1>6, GoApart DEF PreInstall, AfterHook
<1>7. CASE PrepareRetire(p) \/ PrepareCreate(p) \/ PrepareDiscard(p)
  BY <1>7, GoApart DEF PrepareRetire, PrepareCreate, PrepareDiscard
<1>8. CASE PrepareMark(p)
  BY <1>8, GoApart, EndApart DEF PrepareMark
<1>9. CASE Fetch(p)
  BY <1>9, GoApart DEF Fetch
<1>10. CASE Publish(p) \/ Unmark(p) \/ InstallFails(p) \/ AbortRetire(p)
  BY <1>10, GoApart DEF Publish, Unmark, InstallFails, AbortRetire
<1>11. CASE AbortDiscard(p)
  BY <1>11, GoApart, EndApart DEF AbortDiscard
<1>12. CASE AbortVersion(p)
  BY <1>12, GoApart, EndApart DEF AbortVersion
<1> QED
  BY <1>1, <1>2, <1>3, <1>4, <1>5, <1>6, <1>7, <1>8, <1>9, <1>10, <1>11, <1>12 DEF InstallStep

LEMMA OtherApart ==
  ASSUME TypeInv, NEW p \in Procs, UseStep(p) \/ RemoveStep(p) \/ RemoveAllStep(p)
  PROVE  Apart(p)
<1> USE DEF locks, control
<1>1. CASE UseStep(p)
  <2>1. CASE ReadMarker(p)
    BY <2>1, GoApart DEF ReadMarker
  <2>2. CASE RefuseMarked(p) \/ PostSwitch(p) \/ ReadRest(p)
    BY <2>2, GoApart, EndApart DEF RefuseMarked, PostSwitch, ReadRest
  <2>3. CASE PreSwitch(p) \/ SwitchCurrent(p) \/ WritePin(p)
    BY <2>3, GoApart DEF PreSwitch, AfterHook, SwitchCurrent, WritePin
  <2> QED BY <1>1, <2>1, <2>2, <2>3 DEF UseStep
<1>2. CASE RemoveStep(p)
  <2>1. CASE NextPlanned(p)
    BY <2>1, GoApart DEF NextPlanned
  <2>2. CASE PlanDone(p) \/ CheckUninstall(p)
    BY <2>2, GoApart, EndApart DEF PlanDone, CheckUninstall
  <2>3. CASE PreUninstall(p) \/ PostUninstall(p)
    BY <2>3, GoApart DEF PreUninstall, PostUninstall, AfterHook
  <2>4. CASE RemoveVersion(p)
    BY <2>4, GoApart, EndApart DEF RemoveVersion
  <2>5. CASE NextArchived(p)
    BY <2>5, GoApart, EndApart DEF NextArchived
  <2>6. CASE ArchiveVersion(p)
    BY <2>6, GoApart DEF ArchiveVersion
  <2> QED BY <1>2, <2>1, <2>2, <2>3, <2>4, <2>5, <2>6 DEF RemoveStep
<1>3. CASE RemoveAllStep(p)
  <2>1. CASE TryProductLock(p) \/ ListVersions(p)
    BY <2>1, GoApart, EndApart DEF TryProductLock, ListVersions
  <2>2. CASE TryVersionLock(p) \/ RecheckLocks(p)
    BY <2>2, GoApart, EndApart DEF TryVersionLock, RecheckLocks
  <2>3. CASE ClearCurrent(p) \/ ClearPin(p)
    BY <2>3, GoApart DEF ClearCurrent, ClearPin
  <2>4. CASE NextListed(p)
    BY <2>4, GoApart, EndApart DEF NextListed
  <2>5. CASE PreUninstallListed(p) \/ PostUninstallListed(p)
    BY <2>5, GoApart DEF PreUninstallListed, PostUninstallListed, AfterHook
  <2>6. CASE RemoveListed(p) \/ SweepLeftovers(p)
    BY <2>6, GoApart, EndApart DEF RemoveListed, SweepLeftovers
  <2> QED BY <1>3, <2>1, <2>2, <2>3, <2>4, <2>5, <2>6 DEF RemoveAllStep
<1> QED BY <1>1, <1>2, <1>3

\* remove_dir_all takes entries away, of one source at a time.
LEMMA Erases ==
  ASSUME TypeInv, NEW v \in Versions, EraseWithin(v)
  PROVE  /\ UNCHANGED versionDir
         /\ \E s \in Variants : /\ tree'[<<v, s>>] \subseteq tree[<<v, s>>]
                                /\ \A x \in Sources \ {<<v, s>>} : tree'[x] = tree[x]
<1>1. PICK s \in Variants : EraseEntry(<<v, s>>) /\ UNCHANGED versionDir
  BY DEF EraseWithin
<1>2. /\ tree'[<<v, s>>] \subseteq tree[<<v, s>>]
      /\ \A x \in Sources \ {<<v, s>>} : tree'[x] = tree[x]
  BY <1>1 DEF EraseEntry, TypeInv, TypeOK, Sources
<1> QED BY <1>1, <1>2

\* Where a step writes.
Writes(p, v) ==
  \/ pc[p] \in Writing \cup Removing /\ job[p].ver = v
  \/ pc[p] = "r_sweep"

LEMMA WritesWhere ==
  ASSUME TypeInv, NEW p \in Procs, Step(p),
         NEW x \in Sources, tree'[x] # tree[x]
  PROVE  Writes(p, x[1])
<1> USE DEF store, Writes, Writing, Removing
<1>0. ASSUME NEW v \in Versions, EraseWithin(v)
      PROVE  x[1] = v
  <2>1. PICK s \in Variants : \A y \in Sources \ {<<v, s>>} : tree'[y] = tree[y]
    BY <1>0, Erases
  <2>2. x = <<v, s>>
    BY <2>1
  <2> QED BY <2>2
<1>00. tree \in [Sources -> SUBSET Entries]
  BY DEF TypeInv, TypeOK
<1>01. At(p)[1] = job[p].ver
  BY DEF At
<1>1. CASE InstallStep(p)
  <2>1. CASE PrepareRetire(p) \/ AbortRetire(p)
    BY <1>00, <1>01, <2>1 DEF PrepareRetire, AbortRetire, RetireRoot
  <2>2. CASE PrepareCreate(p) \/ PrepareMark(p) \/ Publish(p) \/ Unmark(p)
    BY <1>00, <1>01, <2>2 DEF PrepareCreate, PrepareMark, Publish, Unmark
  <2>3. CASE Fetch(p)
    BY <1>00, <1>01, <2>3 DEF Fetch
  <2>4. CASE AbortVersion(p)
    <3>1. job[p].ver \in Versions
      BY <2>4, AtSource DEF AbortVersion, WithVariant, Installing, Transaction
    <3> QED BY <1>0, <2>4, <3>1 DEF AbortVersion, EraseVersionDir
  <2>5. CASE \/ LockProduct(p) \/ LockVersion(p) \/ BlockOnVersion(p) \/ RefuseOwnHook(p)
             \/ AwaitVersion(p) \/ Reuse(p) \/ BeginTransaction(p) \/ PreInstall(p)
             \/ PrepareDiscard(p) \/ PostInstall(p) \/ InstallFails(p) \/ AbortDiscard(p)
    BY <2>5 DEF LockProduct, LockVersion, BlockOnVersion, RefuseOwnHook, AwaitVersion, Reuse,
                BeginTransaction, PreInstall, AfterHook, PrepareDiscard, PostInstall,
                InstallFails, AbortDiscard
  <2> QED BY <1>1, <2>1, <2>2, <2>3, <2>4, <2>5 DEF InstallStep
<1>2. CASE UseStep(p)
  BY <1>2 DEF UseStep, ReadMarker, RefuseMarked, ReadRest, PreSwitch, AfterHook,
              SwitchCurrent, WritePin, PostSwitch
<1>3. CASE RemoveStep(p)
  <2>1. CASE RemoveVersion(p)
    <3>1. job[p].ver \in Versions
      BY <2>1 DEF RemoveVersion, WithVersion, TypeInv, JobOK
    <3> QED BY <1>0, <2>1, <3>1 DEF RemoveVersion, EraseVersionDir
  <2>2. CASE ArchiveVersion(p)
    <3>1. PICK s \in Variants : \E f : tree' = [tree EXCEPT ![<<job[p].ver, s>>] = @ \ {f}]
      BY <2>2 DEF ArchiveVersion
    <3>2. x = <<job[p].ver, s>>
      BY <1>00, <3>1
    <3> QED BY <2>2, <3>2 DEF ArchiveVersion
  <2>3. CASE \/ NextPlanned(p) \/ PlanDone(p) \/ CheckUninstall(p) \/ PreUninstall(p)
             \/ PostUninstall(p) \/ NextArchived(p)
    BY <2>3 DEF NextPlanned, PlanDone, CheckUninstall, PreUninstall, PostUninstall,
                AfterHook, NextArchived
  <2> QED BY <1>3, <2>1, <2>2, <2>3 DEF RemoveStep
<1>4. CASE RemoveAllStep(p)
  <2>1. CASE RemoveListed(p)
    <3>1. job[p].ver \in Versions
      BY <2>1 DEF RemoveListed, WithVersion, TypeInv, JobOK
    <3> QED BY <1>0, <2>1, <3>1 DEF RemoveListed, EraseVersionDir
  <2>2. CASE SweepLeftovers(p)
    BY <2>2 DEF SweepLeftovers
  <2>3. CASE \/ TryProductLock(p) \/ ListVersions(p) \/ TryVersionLock(p) \/ RecheckLocks(p)
             \/ ClearCurrent(p) \/ ClearPin(p) \/ NextListed(p) \/ PreUninstallListed(p)
             \/ PostUninstallListed(p)
    BY <2>3 DEF TryProductLock, ListVersions, TryVersionLock, RecheckLocks, ClearCurrent,
                ClearPin, NextListed, PreUninstallListed, PostUninstallListed, AfterHook
  <2> QED BY <1>4, <2>1, <2>2, <2>3 DEF RemoveAllStep
<1> QED BY <1>1, <1>2, <1>3, <1>4 DEF Step

-----------------------------------------------------------------------------
(* Trees lie in version directories, and what an install finds in its own. *)

Rooted == \A x \in Sources : tree[x] # {} => x[1] \in versionDir

LEMMA ErasesRooted ==
  ASSUME TypeInv, Rooted, NEW v \in Versions, EraseWithin(v) \/ EraseVersionDir(v)
  PROVE  Rooted'
<1>1. CASE EraseWithin(v)
  <2>1. UNCHANGED versionDir /\ \A x \in Sources : tree'[x] \subseteq tree[x]
    BY <1>1, Erases
  <2> QED BY <2>1 DEF Rooted
<1>2. CASE EraseVersionDir(v)
  <2>1. \A x \in Sources : tree[x] # {} => x[1] # v
    BY <1>2 DEF EraseVersionDir, IsEmptyDir, Sources
  <2> QED BY <1>2, <2>1 DEF EraseVersionDir, Rooted
<1> QED BY <1>1, <1>2

LEMMA RootedStep ==
  ASSUME TypeInv, Rooted, NEW p \in Procs, Step(p)
  PROVE  Rooted'
<1> USE DEF store
<1>0. tree \in [Sources -> SUBSET Entries]
  BY DEF TypeInv, TypeOK
<1>1. CASE UNCHANGED <<tree, versionDir>>
  BY <1>1 DEF Rooted
<1>2. CASE InstallStep(p)
  <2>1. CASE PrepareRetire(p) \/ AbortRetire(p)
    BY <1>0, <2>1 DEF PrepareRetire, AbortRetire, RetireRoot, Rooted
  <2>2. CASE PrepareCreate(p) \/ Fetch(p)
    <3>1. /\ versionDir' = versionDir \cup {At(p)[1]}
          /\ \A x \in Sources \ {At(p)} : tree'[x] = tree[x]
      BY <1>0, <2>2 DEF PrepareCreate, Fetch, At
    <3> QED BY <3>1 DEF Rooted
  <2>3. CASE PrepareMark(p) \/ Publish(p) \/ Unmark(p)
    <3>1. /\ UNCHANGED versionDir
          /\ \A x \in Sources : tree'[x] # tree[x] => tree[x] # {}
      BY <1>0, <2>3 DEF PrepareMark, Publish, RootIsOurs, Unmark
    <3> QED BY <3>1 DEF Rooted
  <2>4. CASE AbortVersion(p)
    <3>1. job[p].ver \in Versions
      BY <2>4, AtSource DEF AbortVersion, WithVariant, Installing, Transaction
    <3> QED BY <1>1, <2>4, <3>1, ErasesRooted DEF AbortVersion
  <2>5. CASE \/ LockProduct(p) \/ LockVersion(p) \/ BlockOnVersion(p) \/ RefuseOwnHook(p)
             \/ AwaitVersion(p) \/ Reuse(p) \/ BeginTransaction(p) \/ PreInstall(p)
             \/ PrepareDiscard(p) \/ PostInstall(p) \/ InstallFails(p) \/ AbortDiscard(p)
    BY <1>1, <2>5
       DEF LockProduct, LockVersion, BlockOnVersion, RefuseOwnHook, AwaitVersion, Reuse,
           BeginTransaction, PreInstall, AfterHook, PrepareDiscard, PostInstall,
           InstallFails, AbortDiscard
  <2> QED BY <1>2, <2>1, <2>2, <2>3, <2>4, <2>5 DEF InstallStep
<1>3. CASE UseStep(p)
  BY <1>1, <1>3 DEF UseStep, ReadMarker, RefuseMarked, ReadRest, PreSwitch, AfterHook,
                    SwitchCurrent, WritePin, PostSwitch
<1>4. CASE RemoveStep(p)
  <2>1. CASE RemoveVersion(p)
    <3>1. job[p].ver \in Versions
      BY <2>1 DEF RemoveVersion, WithVersion, TypeInv, JobOK
    <3> QED BY <1>1, <2>1, <3>1, ErasesRooted DEF RemoveVersion
  <2>2. CASE ArchiveVersion(p)
    <3>1. UNCHANGED versionDir
      BY <2>2 DEF ArchiveVersion
    <3>2. CASE UNCHANGED tree
      BY <1>1, <3>1, <3>2
    <3>3. CASE \E s \in Variants : \E f : tree' = [tree EXCEPT ![<<job[p].ver, s>>] = @ \ {f}]
      <4>1. \A x \in Sources : tree'[x] \subseteq tree[x]
        BY <1>0, <3>3
      <4> QED BY <3>1, <4>1 DEF Rooted
    <3> QED BY <2>2, <3>2, <3>3 DEF ArchiveVersion
  <2>3. CASE \/ NextPlanned(p) \/ PlanDone(p) \/ CheckUninstall(p) \/ PreUninstall(p)
             \/ PostUninstall(p) \/ NextArchived(p)
    BY <1>1, <2>3 DEF NextPlanned, PlanDone, CheckUninstall, PreUninstall, PostUninstall,
                      AfterHook, NextArchived
  <2> QED BY <1>4, <2>1, <2>2, <2>3 DEF RemoveStep
<1>5. CASE RemoveAllStep(p)
  <2>1. CASE RemoveListed(p)
    <3>1. job[p].ver \in Versions
      BY <2>1 DEF RemoveListed, WithVersion, TypeInv, JobOK
    <3> QED BY <1>1, <2>1, <3>1, ErasesRooted DEF RemoveListed
  <2>2. CASE SweepLeftovers(p)
    BY <1>1, <2>2, ErasesRooted DEF SweepLeftovers, TypeInv, TypeOK
  <2>3. CASE \/ TryProductLock(p) \/ ListVersions(p) \/ TryVersionLock(p) \/ RecheckLocks(p)
             \/ ClearCurrent(p) \/ ClearPin(p) \/ NextListed(p) \/ PreUninstallListed(p)
             \/ PostUninstallListed(p)
    BY <1>1, <2>3
       DEF TryProductLock, ListVersions, TryVersionLock, RecheckLocks, ClearCurrent,
           ClearPin, NextListed, PreUninstallListed, PostUninstallListed, AfterHook
  <2> QED BY <1>5, <2>1, <2>2, <2>3 DEF RemoveAllStep
<1> QED BY <1>2, <1>3, <1>4, <1>5 DEF Step

\* What p finds in the tree it installs, as long as nobody removes it.
Work(p) ==
  LET t == tree[At(p)]
  IN  /\ pc[p] \in {"i_pre", "i_retire"} => NeedsInstall(At(p))
      /\ pc[p] \in {"i_create", "a_discard"} => t = {}
      /\ pc[p] = "i_mark" => t = {"dir"}
      /\ pc[p] = "i_discard" => t = {"dir", "installing"}
      /\ pc[p] = "i_fetch" => /\ {"dir", "installing"} \subseteq t /\ "complete" \notin t
                              /\ Payload[job[p].variant] \subseteq t \cup job[p].left
      /\ pc[p] = "i_unmark" => {"installing"} \cup Payload[job[p].variant] \subseteq t
      /\ pc[p] = "a_retire" => "installing" \in t
      /\ pc[p] = "a_version" => t = {} /\ ~ job[p].existed

\* A version whose directory an install made has no other source.
Fresh(p) ==
  pc[p] \in Transaction /\ ~ job[p].existed
    => \A s \in Variants \ {job[p].variant} : tree[<<job[p].ver, s>>] = {}

\* Both speak of the version p installs only.
LEMMA WorkFrame ==
  ASSUME TypeInv, NEW p \in Procs, Work(p) /\ Fresh(p),
         pc'[p] = pc[p], job'[p].ver = job[p].ver, job'[p].variant = job[p].variant,
         job'[p].existed = job[p].existed, job'[p].left = job[p].left,
         pc[p] \in Transaction =>
           \A x \in Sources : x[1] = job[p].ver => tree'[x] = tree[x]
  PROVE  Work(p)' /\ Fresh(p)'
<1>1. CASE pc[p] \notin Transaction
  BY <1>1 DEF Work, Fresh, Transaction
<1>2. CASE pc[p] \in Transaction
  <2>1. /\ At(p) \in Sources /\ At(p)[1] = job[p].ver /\ At(p)' = At(p)
        /\ job[p].ver \in Versions
    BY <1>2, AtSource DEF WithVariant, Installing, At
  <2>2. tree'[At(p)] = tree[At(p)]
    BY <1>2, <2>1
  <2>3. \A s \in Variants : tree'[<<job[p].ver, s>>] = tree[<<job[p].ver, s>>]
    BY <1>2, <2>1 DEF Sources
  <2>4. Fresh(p)'
    BY <1>2, <2>3 DEF Fresh
  <2>5. NeedsInstall(At(p))' <=> NeedsInstall(At(p))
    BY <2>1, <2>2 DEF NeedsInstall, IsComplete, Finished
  <2>6. Work(p)'
    BY <2>1, <2>2, <2>5 DEF Work
  <2> QED BY <2>4, <2>6
<1> QED BY <1>1, <1>2

\* A step that writes at most the tree p installs, and keeps to it.
LEMMA FreshKept ==
  ASSUME TypeInv, NEW p \in Procs, Fresh(p), pc[p] \in Transaction,
         job'[p].ver = job[p].ver, job'[p].variant = job[p].variant,
         job'[p].existed = job[p].existed,
         UNCHANGED tree \/ \E t : tree' = [tree EXCEPT ![At(p)] = t]
  PROVE  Fresh(p)'
<1>1. \A s \in Variants \ {job[p].variant} : tree'[<<job[p].ver, s>>] = tree[<<job[p].ver, s>>]
  <2>1. job[p].ver \in Versions /\ At(p) = <<job[p].ver, job[p].variant>>
    BY AtSource DEF WithVariant, Installing
  <2>2. TAKE s \in Variants \ {job[p].variant}
  <2>3. <<job[p].ver, s>> \in Sources \ {At(p)}
    BY <2>1 DEF Sources
  <2> QED BY <2>3 DEF TypeInv, TypeOK
<1> QED BY <1>1 DEF Fresh

\* Only an install gets into one.
LEMMA OtherOut ==
  ASSUME TypeInv, NEW p \in Procs, UseStep(p) \/ RemoveStep(p) \/ RemoveAllStep(p)
  PROVE  pc'[p] \notin Transaction
<1> USE DEF locks, control, Transaction
<1>0. pc \in [Procs -> PCs]
  BY DEF TypeInv, TypeOK
<1>1. CASE UseStep(p)
  BY <1>0, <1>1, EndApart
     DEF UseStep, ReadMarker, RefuseMarked, ReadRest, PreSwitch, AfterHook, SwitchCurrent,
         WritePin, PostSwitch, Goto
<1>2. CASE RemoveStep(p)
  BY <1>0, <1>2, EndApart
     DEF RemoveStep, NextPlanned, PlanDone, CheckUninstall, PreUninstall, RemoveVersion,
         PostUninstall, AfterHook, NextArchived, ArchiveVersion, Goto
<1>3. CASE RemoveAllStep(p)
  <2>1. CASE TryProductLock(p) \/ ListVersions(p) \/ TryVersionLock(p) \/ RecheckLocks(p)
    BY <1>0, <2>1, EndApart
       DEF TryProductLock, ListVersions, TryVersionLock, RecheckLocks, Goto
  <2>2. CASE ClearCurrent(p) \/ ClearPin(p) \/ NextListed(p)
    BY <1>0, <2>2, EndApart DEF ClearCurrent, ClearPin, NextListed, Goto
  <2>3. CASE PreUninstallListed(p) \/ PostUninstallListed(p)
    BY <1>0, <2>3 DEF PreUninstallListed, PostUninstallListed, AfterHook, Goto
  <2>4. CASE RemoveListed(p) \/ SweepLeftovers(p)
    BY <1>0, <2>4, EndApart DEF RemoveListed, SweepLeftovers, Goto
  <2> QED BY <1>3, <2>1, <2>2, <2>3, <2>4 DEF RemoveAllStep
<1> QED BY <1>1, <1>2, <1>3

LEMMA WorkOwn ==
  ASSUME TypeInv, Rooted, NEW p \in Procs, Work(p) /\ Fresh(p), Step(p)
  PROVE  Work(p)' /\ Fresh(p)'
<1>0. tree \in [Sources -> SUBSET Entries] /\ pc \in [Procs -> PCs] /\ job \in [Procs -> Job]
  BY DEF TypeInv, TypeOK
<1>1. CASE pc'[p] \notin Transaction
  BY <1>1 DEF Work, Fresh, Transaction
<1>2. ASSUME pc[p] \in WithVariant, UNCHANGED job
      PROVE  /\ At(p) \in Sources /\ At(p)' = At(p)
             /\ job'[p] = job[p]
  BY <1>2, AtSource DEF At
<1>3. CASE BeginTransaction(p)
  <2>1. job[p].ver \in Versions /\ job[p].variant \in Variants
    BY <1>3, AtSource DEF BeginTransaction, WithVariant, Installing
  <2>2. pc'[p] = "i_pre" /\ UNCHANGED <<tree, versionDir>> /\ NeedsInstall(At(p))
    BY <1>0, <1>3 DEF BeginTransaction, Goto, store
  <2> DEFINE b == job[p].ver \in versionDir
  <2>3. b \in BOOLEAN /\ b = (job[p].ver \in versionDir)
        /\ job' = [job EXCEPT ![p].existed = b]
    BY <1>3 DEF BeginTransaction
  <2> HIDE DEF b
  <2>4. /\ job'[p].ver = job[p].ver /\ job'[p].variant = job[p].variant
        /\ job'[p].existed = b
    BY <1>0, <2>3 DEF Job
  <2>5. Fresh(p)'
    <3>1. SUFFICES ASSUME job[p].ver \notin versionDir, NEW s \in Variants
                   PROVE  tree[<<job[p].ver, s>>] = {}
      BY <2>2, <2>3, <2>4 DEF Fresh
    <3> QED BY <2>1, <3>1 DEF Rooted, Sources
  <2>6. NeedsInstall(At(p))'
    BY <2>2, <2>4 DEF NeedsInstall, IsComplete, At
  <2>7. Work(p)'
    BY <2>2, <2>6 DEF Work
  <2> QED BY <2>5, <2>7
<1>4. CASE PreInstall(p)
  <2>1. pc[p] = "i_pre" /\ pc'[p] = "i_retire" /\ UNCHANGED <<tree, job>>
    BY <1>0, <1>4 DEF PreInstall, AfterHook, Goto, store
  <2>2. Fresh(p)'
    BY <2>1, FreshKept DEF Transaction
  <2>3. NeedsInstall(At(p))'
    BY <2>1 DEF Work, NeedsInstall, IsComplete, At
  <2> QED BY <2>1, <2>2, <2>3 DEF Work
<1>5. CASE PrepareRetire(p)
  <2>1. pc[p] = "i_retire" /\ pc'[p] = "i_create" /\ UNCHANGED job
    BY <1>0, <1>5 DEF PrepareRetire, Goto
  <2>2. tree' = [tree EXCEPT ![At(p)] = {}]
    BY <1>5 DEF PrepareRetire, RetireRoot
  <2>3. Fresh(p)'
    BY <2>1, <2>2, FreshKept DEF Transaction
  <2>4. tree'[At(p)'] = {}
    BY <1>0, <1>2, <2>1, <2>2 DEF WithVariant, Installing, Transaction
  <2> QED BY <2>1, <2>3, <2>4 DEF Work
<1>6. CASE PrepareCreate(p)
  <2>1. pc[p] = "i_create" /\ pc'[p] = "i_mark" /\ UNCHANGED job
    BY <1>0, <1>6 DEF PrepareCreate, Goto
  <2>2. tree' = [tree EXCEPT ![At(p)] = tree[At(p)] \cup {"dir"}]
    BY <1>6 DEF PrepareCreate
  <2>3. Fresh(p)'
    BY <2>1, <2>2, FreshKept DEF Transaction
  <2>4. tree'[At(p)'] = {"dir"}
    BY <1>0, <1>2, <2>1, <2>2 DEF Work, WithVariant, Installing, Transaction
  <2> QED BY <2>1, <2>3, <2>4 DEF Work
<1>7. CASE PrepareMark(p)
  <2>0. CASE "dir" \notin tree[At(p)]
    BY <1>1, <1>7, <2>0, EndApart DEF PrepareMark, Transaction
  <2>1. CASE "dir" \in tree[At(p)]
    <3>1. pc[p] = "i_mark" /\ pc'[p] = "i_discard" /\ UNCHANGED job
      BY <1>0, <1>7, <2>1 DEF PrepareMark, Goto
    <3>2. tree' = [tree EXCEPT ![At(p)] = tree[At(p)] \cup {"installing"}]
      BY <1>7, <2>1 DEF PrepareMark, Marked
    <3>3. Fresh(p)'
      BY <3>1, <3>2, FreshKept DEF Transaction
    <3>4. tree'[At(p)'] = {"dir", "installing"}
      BY <1>0, <1>2, <3>1, <3>2 DEF Work, WithVariant, Installing, Transaction
    <3> QED BY <3>1, <3>3, <3>4 DEF Work
  <2> QED BY <2>0, <2>1
<1>8. CASE PrepareDiscard(p)
  <2>1. /\ pc[p] = "i_discard" /\ pc'[p] = "i_fetch" /\ UNCHANGED tree
        /\ job' = [job EXCEPT ![p].left = Payload[job[p].variant]]
    BY <1>0, <1>8 DEF PrepareDiscard, Goto
  <2>2. /\ job'[p].ver = job[p].ver /\ job'[p].variant = job[p].variant
        /\ job'[p].existed = job[p].existed /\ job'[p].left = Payload[job[p].variant]
    BY <1>0, <2>1 DEF Job
  <2>3. Fresh(p)'
    BY <2>1, <2>2, FreshKept DEF Transaction
  <2>4. tree'[At(p)'] = {"dir", "installing"}
    BY <2>1, <2>2 DEF Work, At
  <2> QED BY <2>1, <2>2, <2>3, <2>4 DEF Work
<1>9. CASE Fetch(p)
  <2>1. pc[p] = "i_fetch" /\ pc'[p] = "i_fetch"
    BY <1>9 DEF Fetch
  <2>2. PICK f \in job[p].left : /\ tree' = [tree EXCEPT ![At(p)] = tree[At(p)] \cup {"dir", f}]
                                 /\ job' = [job EXCEPT ![p].left = job[p].left \ {f}]
    BY <1>9 DEF Fetch
  <2>3. /\ job'[p].ver = job[p].ver /\ job'[p].variant = job[p].variant
        /\ job'[p].existed = job[p].existed /\ job'[p].left = job[p].left \ {f}
        /\ f \in Contents
    BY <1>0, <2>2 DEF Job
  <2>4. Fresh(p)'
    BY <2>1, <2>2, <2>3, FreshKept DEF Transaction
  <2>5. tree'[At(p)'] = tree[At(p)] \cup {"dir", f}
    BY <1>0, <2>1, <2>2, <2>3, AtSource DEF At, WithVariant, Installing, Transaction
  <2> QED BY <2>1, <2>3, <2>4, <2>5 DEF Work, Contents
<1>10. CASE Publish(p)
  <2>1. pc[p] = "i_fetch" /\ pc'[p] = "i_unmark" /\ UNCHANGED job /\ job[p].left = {}
    BY <1>0, <1>10 DEF Publish, DownloadDone, Goto
  <2>2. tree' = [tree EXCEPT ![At(p)] = tree[At(p)] \cup {"complete"}]
    BY <1>10 DEF Publish
  <2>3. Fresh(p)'
    BY <2>1, <2>2, FreshKept DEF Transaction
  <2>4. tree'[At(p)'] = tree[At(p)] \cup {"complete"}
    BY <1>0, <1>2, <2>1, <2>2 DEF WithVariant, Installing, Transaction
  <2> QED BY <2>1, <2>3, <2>4 DEF Work
<1>11. CASE Unmark(p)
  <2>1. pc[p] = "i_unmark" /\ pc'[p] = "i_post" /\ UNCHANGED job
    BY <1>0, <1>11 DEF Unmark, Goto
  <2>2. tree' = [tree EXCEPT ![At(p)] = tree[At(p)] \ {"installing"}]
    BY <1>11 DEF Unmark
  <2>3. Fresh(p)'
    BY <2>1, <2>2, FreshKept DEF Transaction
  <2> QED BY <2>1, <2>3 DEF Work
<1>12. CASE InstallFails(p)
  <2>1. pc[p] \in {"i_fetch", "i_unmark"} /\ pc'[p] = "a_retire" /\ UNCHANGED <<tree, job>>
    BY <1>0, <1>12 DEF InstallFails, Goto, store
  <2>2. Fresh(p)'
    BY <2>1, FreshKept DEF Transaction
  <2> QED BY <2>1, <2>2 DEF Work, At
<1>13. CASE AbortRetire(p)
  <2>1. pc[p] = "a_retire" /\ pc'[p] = "a_discard" /\ UNCHANGED job
    BY <1>0, <1>13 DEF AbortRetire, Goto
  <2>2. tree' = [tree EXCEPT ![At(p)] = {}]
    BY <1>13 DEF AbortRetire, RetireRoot
  <2>3. Fresh(p)'
    BY <2>1, <2>2, FreshKept DEF Transaction
  <2>4. tree'[At(p)'] = {}
    BY <1>0, <1>2, <2>1, <2>2 DEF WithVariant, Installing, Transaction
  <2> QED BY <2>1, <2>3, <2>4 DEF Work
<1>14. CASE AbortDiscard(p)
  <2>0. CASE ~ RemovesVersionDir(p)
    BY <1>1, <1>14, <2>0, EndApart DEF AbortDiscard, Transaction
  <2>1. CASE RemovesVersionDir(p)
    <3>1. /\ pc[p] = "a_discard" /\ pc'[p] = "a_version" /\ UNCHANGED <<tree, job>>
          /\ ~ job[p].existed
      BY <1>0, <1>14, <2>1 DEF AbortDiscard, RemovesVersionDir, Goto
    <3>2. Fresh(p)'
      BY <3>1, FreshKept DEF Transaction
    <3> QED BY <3>1, <3>2 DEF Work, At
  <2> QED BY <2>0, <2>1
<1>15. CASE AbortVersion(p)
  <2>0. CASE End(p)
    BY <1>1, <2>0, EndApart DEF Transaction
  <2>1. CASE EraseWithin(job[p].ver) /\ UNCHANGED control
    <3>1. pc[p] = "a_version" /\ UNCHANGED <<pc, job>>
      BY <1>15, <2>1 DEF AbortVersion, control
    <3>2. /\ job[p].ver \in Versions /\ At(p) = <<job[p].ver, job[p].variant>>
      BY <3>1, AtSource DEF WithVariant, Installing, Transaction
    <3>3. \A x \in Sources : tree'[x] \subseteq tree[x]
      BY <2>1, <3>2, Erases
    <3>4. \A s \in Variants : tree[<<job[p].ver, s>>] = {}
      BY <3>1, <3>2 DEF Work, Fresh, Transaction
    <3>5. \A x \in Sources : x[1] = job[p].ver => tree'[x] = tree[x]
      BY <3>3, <3>4 DEF Sources
    <3> QED BY <3>1, <3>5, WorkFrame
  <2> QED BY <1>15, <2>0, <2>1 DEF AbortVersion
<1>16. CASE \/ LockProduct(p) \/ LockVersion(p) \/ BlockOnVersion(p) \/ RefuseOwnHook(p)
            \/ AwaitVersion(p) \/ Reuse(p) \/ PostInstall(p)
  <2>1. CASE LockProduct(p) \/ LockVersion(p) \/ BlockOnVersion(p) \/ AwaitVersion(p)
    BY <1>0, <1>1, <2>1
       DEF LockProduct, LockVersion, BlockOnVersion, AwaitVersion, TakeVersionLock, Goto, Transaction
  <2>2. CASE RefuseOwnHook(p) \/ Reuse(p) \/ PostInstall(p)
    BY <1>1, <2>2, EndApart DEF RefuseOwnHook, Reuse, PostInstall, Transaction
  <2> QED BY <1>16, <2>1, <2>2
<1>17. CASE UseStep(p) \/ RemoveStep(p) \/ RemoveAllStep(p)
  BY <1>1, <1>17, OtherOut
<1> QED
  BY <1>3, <1>4, <1>5, <1>6, <1>7, <1>8, <1>9, <1>10, <1>11, <1>12, <1>13, <1>14, <1>15,
     <1>16, <1>17 DEF Step, InstallStep

\* What an install does to a tree it writes: only the tree it installs, of which
\* a complete one is retired if it is to be repaired, and which becomes complete
\* by losing its mark when it is whole.
LEMMA InstallWrites ==
  ASSUME TypeInv, NEW p \in Procs, Work(p), Fresh(p), InstallStep(p),
         NEW x \in Sources, tree'[x] # tree[x]
  PROVE  /\ x = At(p)
         /\ IsComplete(x) => pc[p] = "i_retire" /\ x[2] \in Repairable
         /\ IsComplete(x)' => Payload[x[2]] \subseteq tree'[x]
<1>0. tree \in [Sources -> SUBSET Entries] /\ UNCHANGED tree <=> tree' = tree
  BY DEF TypeInv, TypeOK
<1>1. CASE PrepareRetire(p)
  <2>1. pc[p] = "i_retire" /\ tree' = [tree EXCEPT ![At(p)] = {}]
    BY <1>1 DEF PrepareRetire, RetireRoot
  <2>2. x = At(p) /\ tree'[x] = {}
    BY <1>0, <2>1
  <2> QED BY <2>1, <2>2 DEF Work, NeedsInstall, IsComplete, Finished
<1>2. CASE PrepareCreate(p)
  <2>1. pc[p] = "i_create" /\ tree' = [tree EXCEPT ![At(p)] = tree[At(p)] \cup {"dir"}]
    BY <1>2 DEF PrepareCreate
  <2>2. x = At(p) /\ tree[x] = {} /\ tree'[x] = {"dir"}
    BY <1>0, <2>1 DEF Work
  <2> QED BY <2>2 DEF IsComplete, Finished
<1>3. CASE PrepareMark(p)
  <2>1. pc[p] = "i_mark" /\ tree' = [tree EXCEPT ![At(p)] = tree[At(p)] \cup {"installing"}]
    BY <1>0, <1>3 DEF PrepareMark, Marked
  <2>2. x = At(p) /\ tree[x] = {"dir"} /\ "installing" \in tree'[x]
    BY <1>0, <2>1 DEF Work
  <2> QED BY <2>2 DEF IsComplete, Finished
<1>4. CASE Fetch(p)
  <2>1. PICK f \in job[p].left : tree' = [tree EXCEPT ![At(p)] = tree[At(p)] \cup {"dir", f}]
    BY <1>4 DEF Fetch
  <2>2. x = At(p) /\ "installing" \in tree[x] /\ "installing" \in tree'[x]
    BY <1>0, <1>4, <2>1 DEF Work, Fetch
  <2> QED BY <2>2 DEF IsComplete
<1>5. CASE Publish(p)
  <2>1. tree' = [tree EXCEPT ![At(p)] = tree[At(p)] \cup {"complete"}]
    BY <1>5 DEF Publish
  <2>2. x = At(p) /\ "installing" \in tree[x] /\ "installing" \in tree'[x]
    BY <1>0, <1>5, <2>1 DEF Work, Publish
  <2> QED BY <2>2 DEF IsComplete
<1>6. CASE Unmark(p)
  <2>1. tree' = [tree EXCEPT ![At(p)] = tree[At(p)] \ {"installing"}]
    BY <1>6 DEF Unmark
  <2>2. /\ x = At(p) /\ "installing" \in tree[x]
        /\ Payload[job[p].variant] \subseteq tree[x] /\ tree'[x] = tree[x] \ {"installing"}
    BY <1>0, <1>6, <2>1 DEF Work, Unmark
  <2>3. x[2] = job[p].variant /\ "installing" \notin Payload[job[p].variant]
    BY <1>6, <2>2, AtSource, ConstantsAssumption
       DEF Unmark, WithVariant, Installing, Transaction, Contents
  <2> QED BY <2>2, <2>3 DEF IsComplete
<1>7. CASE AbortRetire(p)
  <2>1. tree' = [tree EXCEPT ![At(p)] = {}]
    BY <1>7 DEF AbortRetire, RetireRoot
  <2>2. x = At(p) /\ "installing" \in tree[x] /\ tree'[x] = {}
    BY <1>0, <1>7, <2>1 DEF Work, AbortRetire
  <2> QED BY <2>2 DEF IsComplete, Finished
<1>8. CASE AbortVersion(p)
  <2>1. pc[p] = "a_version" /\ EraseWithin(job[p].ver)
    BY <1>0, <1>8 DEF AbortVersion, EraseVersionDir, store
  <2>2. job[p].ver \in Versions /\ At(p) = <<job[p].ver, job[p].variant>>
    BY <2>1, AtSource DEF WithVariant, Installing, Transaction
  <2>3. \A s \in Variants : tree[<<job[p].ver, s>>] = {}
    BY <2>1, <2>2 DEF Work, Fresh, Transaction
  <2>4. PICK s \in Variants : /\ tree'[<<job[p].ver, s>>] \subseteq tree[<<job[p].ver, s>>]
                              /\ \A y \in Sources \ {<<job[p].ver, s>>} : tree'[y] = tree[y]
    BY <2>1, <2>2, Erases
  <2>5. tree'[<<job[p].ver, s>>] = tree[<<job[p].ver, s>>]
    BY <2>3, <2>4
  <2> QED BY <2>4, <2>5
<1>9. CASE UNCHANGED tree
  BY <1>9
<1> QED
  BY <1>1, <1>2, <1>3, <1>4, <1>5, <1>6, <1>7, <1>8, <1>9
     DEF InstallStep, LockProduct, LockVersion, BlockOnVersion, RefuseOwnHook, AwaitVersion,
         Reuse, BeginTransaction, PreInstall, AfterHook, PrepareDiscard, PostInstall,
         InstallFails, AbortDiscard, store

-----------------------------------------------------------------------------
(* Installs and switches alone.  A removal takes no lock of an install and  *)
(* takes a tree apart entry by entry: the two properties of trees are those *)
(* of processes that install and use, in any number.                        *)

InstallersOnly == \A p \in Procs : Ops[p] \subseteq {"install", "use"}

UsePCs == {"u_marker", "u_rest", "u_pre", "u_switch", "u_pin", "u_post"}
InstallPCs == {"i_product"} \cup Locking \cup Installing

LEMMA InstallGoes ==
  ASSUME TypeInv, NEW p \in Procs, InstallStep(p)
  PROVE  pc'[p] \in {"idle"} \cup InstallPCs
<1> USE DEF locks, control, InstallPCs, Locking, Installing, Transaction
<1>0. pc \in [Procs -> PCs]
  BY DEF TypeInv, TypeOK
<1>1. CASE \/ RefuseOwnHook(p) \/ Reuse(p) \/ PostInstall(p) \/ PrepareMark(p)
           \/ AbortDiscard(p) \/ AbortVersion(p)
  BY <1>0, <1>1, EndApart
     DEF RefuseOwnHook, Reuse, PostInstall, PrepareMark, AbortDiscard, AbortVersion, Goto
<1>2. CASE \/ LockProduct(p) \/ LockVersion(p) \/ BlockOnVersion(p) \/ AwaitVersion(p)
           \/ BeginTransaction(p) \/ PreInstall(p) \/ PrepareRetire(p)
  BY <1>0, <1>2
     DEF LockProduct, LockVersion, BlockOnVersion, AwaitVersion, TakeVersionLock,
         BeginTransaction, PreInstall, AfterHook, PrepareRetire, Goto
<1>3. CASE \/ PrepareCreate(p) \/ PrepareDiscard(p) \/ Fetch(p) \/ Publish(p) \/ Unmark(p)
           \/ InstallFails(p) \/ AbortRetire(p)
  BY <1>0, <1>3
     DEF PrepareCreate, PrepareDiscard, Fetch, Publish, Unmark, InstallFails, AbortRetire, Goto
<1> QED BY <1>1, <1>2, <1>3 DEF InstallStep

LEMMA UseGoes ==
  ASSUME TypeInv, NEW p \in Procs, UseStep(p)
  PROVE  pc'[p] \in {"idle"} \cup UsePCs
BY EndApart
   DEF UseStep, ReadMarker, RefuseMarked, ReadRest, PreSwitch, AfterHook, SwitchCurrent,
       WritePin, PostSwitch, Goto, UsePCs, TypeInv, TypeOK

\* A removal starts at d_, x_ or r_ and stays there.
LEMMA RemovesOnly ==
  ASSUME TypeInv, NEW p \in Procs, pc[p] \in {"idle"} \cup InstallPCs \cup UsePCs
  PROVE  ~ RemoveStep(p) /\ ~ RemoveAllStep(p)
BY DEF RemoveStep, NextPlanned, PlanDone, CheckUninstall, PreUninstall, RemoveVersion,
       PostUninstall, AfterHook, NextArchived, ArchiveVersion, RemoveAllStep,
       TryProductLock, ListVersions, TryVersionLock, RecheckLocks, ClearCurrent, ClearPin,
       NextListed, PreUninstallListed, RemoveListed, PostUninstallListed, SweepLeftovers,
       InstallPCs, UsePCs, Locking, Installing, Transaction

StoreInv ==
  /\ Rooted
  /\ \A p \in Procs : /\ pc[p] \in {"idle"} \cup InstallPCs \cup UsePCs
                      /\ Work(p) /\ Fresh(p)
  /\ CompleteIsWhole

LEMMA StoreFrame ==
  ASSUME TypeInv, StoreInv, NEW p \in Procs, Apart(p), UNCHANGED store,
         pc'[p] \in {"idle"} \cup InstallPCs \cup UsePCs, pc'[p] \notin Transaction
  PROVE  StoreInv'
<1>1. Rooted' /\ CompleteIsWhole'
  BY DEF StoreInv, store, Rooted, CompleteIsWhole, IsComplete
<1>2. ASSUME NEW q \in Procs
      PROVE  pc'[q] \in {"idle"} \cup InstallPCs \cup UsePCs /\ Work(q)' /\ Fresh(q)'
  <2>1. CASE q = p
    BY <2>1 DEF Work, Fresh, Transaction
  <2>2. CASE q # p
    BY <2>2, WorkFrame DEF StoreInv, store, Apart
  <2> QED BY <2>1, <2>2
<1> QED BY <1>1, <1>2 DEF StoreInv

LEMMA StoreStep ==
  ASSUME TypeInv, LockInv, StoreInv, NEW p \in Procs, Step(p)
  PROVE  StoreInv'
<1>1. InstallStep(p) \/ UseStep(p)
  BY RemovesOnly DEF Step, StoreInv
<1>2. Apart(p) /\ Rooted' /\ pc'[p] \in {"idle"} \cup InstallPCs \cup UsePCs
  BY <1>1, InstallApart, OtherApart, RootedStep, InstallGoes, UseGoes DEF StoreInv
<1>3. ASSUME NEW x \in Sources, tree'[x] # tree[x]
      PROVE  pc[p] \in Transaction /\ job[p].ver = x[1]
  BY <1>3, WritesWhere
     DEF StoreInv, Writes, Writing, Removing, InstallPCs, UsePCs, Locking, Installing, Transaction
<1>4. ASSUME NEW q \in Procs
      PROVE  pc'[q] \in {"idle"} \cup InstallPCs \cup UsePCs /\ Work(q)' /\ Fresh(q)'
  <2>1. CASE q = p
    BY <1>2, <2>1, WorkOwn DEF StoreInv
  <2>2. CASE q # p
    <3>1. pc[q] \in Transaction => \A x \in Sources : x[1] = job[q].ver => tree'[x] = tree[x]
      BY <1>3, <2>2 DEF LockInv, InstallHolds, Installing
    <3> QED BY <1>2, <2>2, <3>1, WorkFrame DEF StoreInv, Apart
  <2> QED BY <2>1, <2>2
<1>5. CompleteIsWhole'
  <2>1. SUFFICES ASSUME NEW x \in Sources, IsComplete(x)'
                 PROVE  Payload[x[2]] \subseteq tree'[x]
    BY DEF CompleteIsWhole
  <2>2. CASE tree'[x] = tree[x]
    BY <2>1, <2>2 DEF StoreInv, CompleteIsWhole, IsComplete
  <2>3. CASE tree'[x] # tree[x]
    <3>1. CASE InstallStep(p)
      BY <2>1, <2>3, <3>1, InstallWrites DEF StoreInv
    <3>2. CASE UseStep(p)
      BY <2>3, <3>2 DEF UseStep, ReadMarker, RefuseMarked, ReadRest, PreSwitch, AfterHook,
                        SwitchCurrent, WritePin, PostSwitch, store
    <3> QED BY <1>1, <3>1, <3>2
  <2> QED BY <2>2, <2>3
<1> QED BY <1>2, <1>4, <1>5 DEF StoreInv

LEMMA StoreNext ==
  ASSUME InstallersOnly, TypeInv, LockInv, StoreInv, [Next]_vars
  PROVE  StoreInv'
<1> USE DEF InstallPCs, UsePCs, Locking, Installing, Transaction
<1>1. ASSUME NEW p \in Procs, StartCommand(p) PROVE StoreInv'
  <2>1. StartInstall(p) \/ StartUse(p)
    BY <1>1 DEF StartCommand, InstallersOnly, CanStart, StartUninstall, StartCleanup,
                StartArchive, StartArchiveBelow, StartUninstallAll
  <2>2. Apart(p) /\ pc'[p] \in {"i_product", "u_marker"} /\ UNCHANGED store
    BY <2>1, StartApart DEF StartInstall, StartUse
  <2> QED BY <2>2, StoreFrame
<1>2. ASSUME NEW p \in Procs, NEW q \in Procs, HookInstall(p, q) PROVE StoreInv'
  <2>1. Apart(q) /\ pc'[q] = "i_product" /\ UNCHANGED store
    BY <1>2, HookGoes
  <2> QED BY <2>1, StoreFrame
<1>3. ASSUME NEW p \in Procs, Crash(p) PROVE StoreInv'
  <2>1. Apart(p) /\ pc'[p] = "idle" /\ UNCHANGED store
    BY <1>3, EndApart DEF Crash
  <2> QED BY <2>1, StoreFrame
<1>4. ASSUME NEW p \in Procs, Step(p) PROVE StoreInv'
  BY <1>4, StoreStep
<1>5. CASE UNCHANGED vars
  BY <1>5 DEF vars, control, store, StoreInv, Rooted, CompleteIsWhole, IsComplete, Work, Fresh,
              NeedsInstall, At
<1> QED BY <1>1, <1>2, <1>3, <1>4, <1>5 DEF Next, AllDone

LEMMA RootedInit == Init => Rooted
BY DEF Init, Rooted

LEMMA StoreInit == Init => StoreInv
<1> SUFFICES ASSUME Init PROVE StoreInv
  OBVIOUS
<1>1. \A p \in Procs : pc[p] = "idle"
  BY DEF Init
<1>2. CompleteIsWhole
  <2>1. SUFFICES ASSUME NEW x \in Sources, IsComplete(x) PROVE Payload[x[2]] \subseteq tree[x]
    BY DEF CompleteIsWhole
  <2>2. tree[x] = {} \/ tree[x] = {"dir"} \cup Payload[x[2]]
    BY DEF Init, PreMarkerTree
  <2> QED BY <2>1, <2>2 DEF IsComplete, Finished
<1>3. \A p \in Procs : Work(p) /\ Fresh(p)
  BY <1>1 DEF Work, Fresh, Transaction
<1> QED BY <1>1, <1>2, <1>3, RootedInit DEF StoreInv

THEOREM StoreHeld == ASSUME InstallersOnly PROVE Spec => [](TypeInv /\ LockInv /\ StoreInv)
<1>1. Init => StoreInv
  BY StoreInit
<1>2. TypeInv /\ LockInv /\ StoreInv /\ [Next]_vars => StoreInv'
  BY StoreNext
<1> QED BY <1>1, <1>2, LocksHeld, PTL DEF Spec

\* Among installs and switches, killed or failed at any step, what a lock-free
\* reader takes for complete holds its whole payload.
THEOREM WholeCorrect == ASSUME InstallersOnly PROVE Spec => []CompleteIsWhole
<1>1. StoreInv => CompleteIsWhole
  BY DEF StoreInv
<1> QED BY <1>1, StoreHeld, PTL

\* Among them no complete source is destroyed but a Codex release, by its own
\* reinstall.
THEOREM DestroyCorrect == ASSUME InstallersOnly PROVE Spec => OnlyRemovalDestroys
<1> DEFINE Destroyed(x) == IsComplete(x) /\ ~ IsComplete(x)'
           Excused(x) == \E p \in Procs :
              \/ pc[p] = "i_retire" /\ At(p) = x /\ x[2] \in Repairable
              \/ pc[p] \in {"d_remove", "r_remove", "x_remove"} /\ job[p].ver = x[1]
              \/ pc[p] = "r_sweep"
<1>1. ASSUME TypeInv, StoreInv, [Next]_vars, NEW x \in Sources, Destroyed(x)
      PROVE  Excused(x)
  <2>1. tree'[x] # tree[x]
    BY <1>1 DEF IsComplete
  <2>2. PICK p \in Procs : InstallStep(p)
    <3>1. ASSUME NEW p \in Procs, Step(p) PROVE InstallStep(p)
      BY <1>1, <2>1, <3>1, RemovesOnly
         DEF StoreInv, Step, UseStep, ReadMarker, RefuseMarked, ReadRest, PreSwitch, AfterHook,
             SwitchCurrent, WritePin, PostSwitch, store
    <3> QED BY <1>1, <2>1, <3>1
            DEF Next, AllDone, vars, store, StartCommand, StartInstall, StartUse, StartUninstall,
                StartCleanup, StartArchive, StartArchiveBelow, StartUninstallAll, Crash, HookInstall
  <2>3. x = At(p) /\ pc[p] = "i_retire" /\ x[2] \in Repairable
    BY <1>1, <2>1, <2>2, InstallWrites DEF StoreInv
  <2> QED BY <2>3
<1>2. TypeInv /\ StoreInv /\ [Next]_vars
        => [\A x \in Sources : Destroyed(x) => Excused(x)]_vars
  BY <1>1
<1> QED BY <1>2, StoreHeld, PTL DEF Spec, OnlyRemovalDestroys

-----------------------------------------------------------------------------
(* The product lock.  A mass removal holds it exclusively, an install of an  *)
(* ovm that knows it holds it shared: never both.                            *)

ProductHeld(p) ==
  /\ pc[p] \in MassRemoval => productExclusive = p
  /\ pc[p] \in Locking \cup Installing /\ p \notin LegacyProcs => p \in productShared

ProductInv ==
  /\ productExclusive # None => productShared = {}
  /\ \A p \in Procs : ProductHeld(p)

LEMMA ProductEnds ==
  ASSUME TypeInv, ProductInv, NEW p \in Procs, End(p)
  PROVE  ProductInv'
<1>1. Apart(p) /\ pc'[p] = "idle"
  BY EndApart
<1>2. \A q \in Procs : ProductHeld(q)'
  BY <1>1 DEF ProductInv, ProductHeld, Apart, End, MassRemoval, Sweeping, Locking, Installing,
              Transaction
<1> QED BY <1>2 DEF ProductInv, End

\* A step that does not touch the lock and comes from where it was needed.
LEMMA ProductMoves ==
  ASSUME TypeInv, ProductInv, NEW p \in Procs, Apart(p),
         UNCHANGED <<productShared, productExclusive>>,
         pc'[p] \in MassRemoval => pc[p] \in MassRemoval,
         pc'[p] \in Locking \cup Installing => pc[p] \in Locking \cup Installing
  PROVE  ProductInv'
BY DEF ProductInv, ProductHeld, Apart

LEMMA ProductInstall ==
  ASSUME TypeInv, ProductInv, NEW p \in Procs, InstallStep(p)
  PROVE  ProductInv'
<1> USE DEF locks, control, MassRemoval, Sweeping, Locking, Installing, Transaction
<1>0. pc \in [Procs -> PCs] /\ Apart(p)
  BY InstallApart DEF TypeInv, TypeOK
<1>1. CASE LockProduct(p)
  BY <1>0, <1>1, ConstantsAssumption
     DEF LockProduct, ProductLockFree, ProductInv, ProductHeld, Apart, Goto, TypeInv, TypeOK
<1>2. CASE \/ RefuseOwnHook(p) \/ Reuse(p) \/ PostInstall(p) \/ PrepareMark(p)
           \/ AbortDiscard(p) \/ AbortVersion(p)
  BY <1>0, <1>2, ProductEnds, ProductMoves
     DEF RefuseOwnHook, Reuse, PostInstall, PrepareMark, AbortDiscard, AbortVersion, Goto
<1>3. CASE \/ LockVersion(p) \/ BlockOnVersion(p) \/ AwaitVersion(p)
           \/ BeginTransaction(p) \/ PreInstall(p) \/ PrepareRetire(p)
  BY <1>0, <1>3, ProductMoves
     DEF LockVersion, BlockOnVersion, AwaitVersion, TakeVersionLock,
         BeginTransaction, PreInstall, AfterHook, PrepareRetire, Goto
<1>4. CASE \/ PrepareCreate(p) \/ PrepareDiscard(p) \/ Fetch(p) \/ Publish(p) \/ Unmark(p)
           \/ InstallFails(p) \/ AbortRetire(p)
  BY <1>0, <1>4, ProductMoves
     DEF PrepareCreate, PrepareDiscard, Fetch, Publish, Unmark, InstallFails, AbortRetire, Goto
<1> QED BY <1>1, <1>2, <1>3, <1>4 DEF InstallStep

LEMMA ProductOther ==
  ASSUME TypeInv, ProductInv, NEW p \in Procs, UseStep(p) \/ RemoveStep(p) \/ RemoveAllStep(p)
  PROVE  ProductInv'
<1> USE DEF locks, control, MassRemoval, Sweeping, Locking, Installing, Transaction
<1>0. pc \in [Procs -> PCs] /\ Apart(p)
  BY OtherApart DEF TypeInv, TypeOK
<1>1. CASE UseStep(p)
  BY <1>0, <1>1, ProductEnds, ProductMoves
     DEF UseStep, ReadMarker, RefuseMarked, ReadRest, PreSwitch, AfterHook, SwitchCurrent,
         WritePin, PostSwitch, Goto
<1>2. CASE RemoveStep(p)
  BY <1>0, <1>2, ProductEnds, ProductMoves
     DEF RemoveStep, NextPlanned, PlanDone, CheckUninstall, PreUninstall, RemoveVersion,
         PostUninstall, AfterHook, NextArchived, ArchiveVersion, Goto
<1>3. CASE RemoveAllStep(p)
  <2>1. CASE TryProductLock(p)
    BY <1>0, <2>1, ProductEnds, ConstantsAssumption
       DEF TryProductLock, NoInstallRunning, ProductInv, ProductHeld, Apart, Goto
  <2>2. CASE ListVersions(p) \/ TryVersionLock(p) \/ RecheckLocks(p)
    BY <1>0, <2>2, ProductEnds, ProductMoves
       DEF ListVersions, TryVersionLock, RecheckLocks, Goto
  <2>3. CASE ClearCurrent(p) \/ ClearPin(p) \/ NextListed(p)
    BY <1>0, <2>3, ProductEnds, ProductMoves DEF ClearCurrent, ClearPin, NextListed, Goto
  <2>4. CASE PreUninstallListed(p) \/ PostUninstallListed(p)
    BY <1>0, <2>4, ProductMoves DEF PreUninstallListed, PostUninstallListed, AfterHook, Goto
  <2>5. CASE RemoveListed(p) \/ SweepLeftovers(p)
    BY <1>0, <2>5, ProductEnds, ProductMoves DEF RemoveListed, SweepLeftovers, Goto
  <2> QED BY <1>3, <2>1, <2>2, <2>3, <2>4, <2>5 DEF RemoveAllStep
<1> QED BY <1>1, <1>2, <1>3

LEMMA ProductNext ==
  ASSUME TypeInv, ProductInv, [Next]_vars
  PROVE  ProductInv'
<1> USE DEF locks, MassRemoval, Sweeping, Locking, Installing, Transaction
<1>1. ASSUME NEW p \in Procs, StartCommand(p) PROVE ProductInv'
  BY <1>1, StartGoes, ProductMoves
<1>2. ASSUME NEW p \in Procs, NEW q \in Procs, HookInstall(p, q) PROVE ProductInv'
  BY <1>2, HookGoes, ProductMoves
<1>3. ASSUME NEW p \in Procs, Crash(p) PROVE ProductInv'
  BY <1>3, ProductEnds DEF Crash
<1>4. ASSUME NEW p \in Procs, Step(p) PROVE ProductInv'
  BY <1>4, ProductInstall, ProductOther DEF Step
<1>5. CASE UNCHANGED vars
  BY <1>5 DEF vars, control, ProductInv, ProductHeld
<1> QED BY <1>1, <1>2, <1>3, <1>4, <1>5 DEF Next, AllDone

LEMMA ProductInit == Init => ProductInv
BY DEF Init, ProductInv, ProductHeld, MassRemoval, Sweeping, Locking, Installing, Transaction

-----------------------------------------------------------------------------
(* What an uninstall --all has not listed is not complete.  An older ovm     *)
(* ignores the product lock, and a removal in place may take the mark of a   *)
(* killed install before the rest of its tree: both are kept out.            *)

NoOlderOvm == LegacyProcs = {}
NoOtherRemoval == \A p \in Procs : Ops[p] \subseteq {"install", "use", "uninstallAll"}

Listing(p) ==
  /\ pc[p] \in {"r_lock", "r_clear", "r_unpin", "r_next", "r_post"}
       => \A v \in Versions : VersionComplete(v) => v \in job[p].todo
  /\ pc[p] \in {"r_pre", "r_remove"}
       => \A v \in Versions : VersionComplete(v) => v \in job[p].todo \cup {job[p].ver}

RemoveAllPCs == {"r_product"} \cup MassRemoval

SweepInv ==
  /\ Rooted /\ ProductInv
  /\ \A p \in Procs : /\ pc[p] \in {"idle"} \cup InstallPCs \cup UsePCs \cup RemoveAllPCs
                      /\ Listing(p)

LEMMA ListingFrame ==
  ASSUME NEW p \in Procs, Listing(p), UNCHANGED tree,
         pc'[p] = pc[p], job'[p].ver = job[p].ver, job'[p].todo = job[p].todo
  PROVE  Listing(p)'
BY DEF Listing, VersionComplete, IsComplete

LEMMA SweepFrame ==
  ASSUME TypeInv, SweepInv, NEW p \in Procs, Apart(p), UNCHANGED store, ProductInv',
         pc'[p] \in {"idle", "r_product"} \cup InstallPCs \cup UsePCs
  PROVE  SweepInv'
<1>1. Rooted'
  BY DEF SweepInv, store, Rooted
<1>2. ASSUME NEW q \in Procs
      PROVE  /\ pc'[q] \in {"idle"} \cup InstallPCs \cup UsePCs \cup RemoveAllPCs
             /\ Listing(q)'
  <2>1. CASE q = p
    BY <2>1 DEF Listing, InstallPCs, UsePCs, RemoveAllPCs, Locking, Installing, Transaction
  <2>2. CASE q # p
    BY <2>2, ListingFrame DEF SweepInv, store, Apart
  <2> QED BY <2>1, <2>2
<1> QED BY <1>1, <1>2 DEF SweepInv

LEMMA RemoveAllGoes ==
  ASSUME TypeInv, NEW p \in Procs, RemoveAllStep(p)
  PROVE  pc'[p] \in {"idle"} \cup RemoveAllPCs
<1> USE DEF locks, control, RemoveAllPCs, MassRemoval, Sweeping
<1>0. pc \in [Procs -> PCs]
  BY DEF TypeInv, TypeOK
<1>1. CASE TryProductLock(p) \/ ListVersions(p) \/ TryVersionLock(p) \/ RecheckLocks(p)
  BY <1>0, <1>1, EndApart DEF TryProductLock, ListVersions, TryVersionLock, RecheckLocks, Goto
<1>2. CASE ClearCurrent(p) \/ ClearPin(p) \/ NextListed(p)
  BY <1>0, <1>2, EndApart DEF ClearCurrent, ClearPin, NextListed, Goto
<1>3. CASE PreUninstallListed(p) \/ PostUninstallListed(p)
  BY <1>0, <1>3 DEF PreUninstallListed, PostUninstallListed, AfterHook, Goto
<1>4. CASE RemoveListed(p) \/ SweepLeftovers(p)
  BY <1>0, <1>4, EndApart DEF RemoveListed, SweepLeftovers, Goto
<1> QED BY <1>1, <1>2, <1>3, <1>4 DEF RemoveAllStep

\* The steps of the removal itself.
LEMMA ListingOwn ==
  ASSUME TypeInv, Rooted, NEW p \in Procs, Listing(p), RemoveAllStep(p)
  PROVE  Listing(p)'
<1> USE DEF locks, control, store
<1>0. pc \in [Procs -> PCs] /\ job \in [Procs -> Job]
  BY DEF TypeInv, TypeOK
<1>1. ASSUME End(p) PROVE Listing(p)'
  BY <1>1, EndApart DEF Listing
<1>2. ASSUME UNCHANGED tree PROVE \A v \in Versions : VersionComplete(v)' <=> VersionComplete(v)
  BY <1>2 DEF VersionComplete, IsComplete
<1>3. CASE TryProductLock(p)
  BY <1>0, <1>1, <1>3 DEF TryProductLock, Goto, Listing
<1>4. CASE ListVersions(p)
  <2>1. CASE versionDir = {}
    BY <1>1, <1>4, <2>1 DEF ListVersions
  <2>2. CASE versionDir # {}
    <3>1. pc'[p] = "r_lock" /\ UNCHANGED tree
      BY <1>0, <1>4, <2>2 DEF ListVersions, Goto
    <3>2. job'[p].todo = Listed
      <4> DEFINE t == Listed
                 k == Listed \cup lockFiles
      <4>1. job' = [job EXCEPT ![p].todo = t, ![p].targets = k]
        BY <1>4, <2>2 DEF ListVersions
      <4> HIDE DEF t, k
      <4>2. job'[p].todo = t
        BY <1>0, <4>1 DEF Job
      <4> QED BY <4>2 DEF t
    <3>3. \A v \in Versions : VersionComplete(v) => v \in Listed
      <4>1. TAKE v \in Versions
      <4>2. SUFFICES ASSUME VersionComplete(v) PROVE v \in Listed
        OBVIOUS
      <4>3. PICK s \in Variants : "binary" \in tree[<<v, s>>]
        BY <4>2 DEF VersionComplete, IsComplete, Finished
      <4>4. v \in versionDir /\ ~ IsEmptyDir(v)
        BY <4>3 DEF Rooted, IsEmptyDir, Sources
      <4> QED BY <4>2, <4>4 DEF Listed
    <3> QED BY <1>2, <3>1, <3>2, <3>3 DEF Listing
  <2> QED BY <2>1, <2>2
<1>5. CASE TryVersionLock(p)
  BY <1>1, <1>2, <1>5 DEF TryVersionLock, Listing
<1>6. CASE RecheckLocks(p) \/ ClearCurrent(p) \/ ClearPin(p)
  BY <1>0, <1>1, <1>2, <1>6 DEF RecheckLocks, ClearCurrent, ClearPin, Goto, Listing
<1>7. CASE NextListed(p)
  <2>1. CASE job[p].todo = {}
    BY <1>0, <1>2, <1>7, <2>1 DEF NextListed, Goto, Listing
  <2>2. CASE job[p].todo # {}
    <3>1. CASE End(p)
      BY <1>1, <3>1
    <3>2. CASE /\ Goto(p, "r_pre")
               /\ \E v \in job[p].todo : job' = [job EXCEPT ![p].todo = @ \ {v}, ![p].ver = v]
      <4>1. PICK v \in job[p].todo : job' = [job EXCEPT ![p].todo = @ \ {v}, ![p].ver = v]
        BY <3>2
      <4>2. job'[p].todo = job[p].todo \ {v} /\ job'[p].ver = v
        BY <1>0, <4>1 DEF Job
      <4>3. pc[p] = "r_next" /\ pc'[p] = "r_pre" /\ UNCHANGED tree
        BY <1>0, <1>7, <3>2 DEF NextListed, Goto
      <4> QED BY <1>2, <4>2, <4>3 DEF Listing
    <3> QED BY <1>7, <2>2, <3>1, <3>2 DEF NextListed
  <2> QED BY <2>1, <2>2
<1>8. CASE PreUninstallListed(p) \/ PostUninstallListed(p)
  BY <1>0, <1>2, <1>8 DEF PreUninstallListed, PostUninstallListed, AfterHook, Goto, Listing
<1>9. CASE RemoveListed(p)
  <2>1. pc[p] = "r_remove" /\ job[p].ver \in Versions
    BY <1>9 DEF RemoveListed, WithVersion, TypeInv, JobOK
  <2>2. CASE EraseWithin(job[p].ver) /\ UNCHANGED control
    <3>1. PICK s \in Variants : \A x \in Sources \ {<<job[p].ver, s>>} : tree'[x] = tree[x]
      BY <2>1, <2>2, Erases
    <3>2. \A v \in Versions \ {job[p].ver} : VersionComplete(v)' => VersionComplete(v)
      BY <3>1 DEF VersionComplete, IsComplete, Sources
    <3> QED BY <2>1, <2>2, <3>2 DEF Listing
  <2>3. CASE EraseVersionDir(job[p].ver) /\ Goto(p, "r_post") /\ UNCHANGED job
    <3>1. UNCHANGED tree /\ ~ VersionComplete(job[p].ver) /\ pc'[p] = "r_post"
      BY <1>0, <2>3 DEF EraseVersionDir, IsEmptyDir, VersionComplete, IsComplete, Finished, Goto
    <3> QED BY <1>2, <2>1, <2>3, <3>1 DEF Listing
  <2> QED BY <1>1, <1>9, <2>2, <2>3 DEF RemoveListed
<1>10. CASE SweepLeftovers(p)
  BY <1>1, <1>10 DEF SweepLeftovers, Listing
<1> QED
  BY <1>3, <1>4, <1>5, <1>6, <1>7, <1>8, <1>9, <1>10 DEF RemoveAllStep

LEMMA SweepStep ==
  ASSUME NoOlderOvm, TypeInv, TypeInv', SweepInv, NEW p \in Procs, Step(p), ProductInv'
  PROVE  SweepInv'
<1>1. InstallStep(p) \/ UseStep(p) \/ RemoveAllStep(p)
  BY DEF Step, SweepInv, RemoveStep, NextPlanned, PlanDone, CheckUninstall, PreUninstall,
         RemoveVersion, PostUninstall, AfterHook, NextArchived, ArchiveVersion,
         InstallPCs, UsePCs, RemoveAllPCs, MassRemoval, Sweeping, Locking, Installing, Transaction
<1>2. Apart(p) /\ Rooted'
  BY <1>1, InstallApart, OtherApart, RootedStep DEF SweepInv
<1>3. pc'[p] \in {"idle"} \cup InstallPCs \cup UsePCs \cup RemoveAllPCs /\ Listing(p)'
  <2>1. CASE InstallStep(p) \/ UseStep(p)
    BY <2>1, InstallGoes, UseGoes DEF Listing, InstallPCs, UsePCs, Locking, Installing, Transaction
  <2>2. CASE RemoveAllStep(p)
    BY <2>2, ListingOwn, RemoveAllGoes DEF SweepInv
  <2> QED BY <1>1, <2>1, <2>2
<1>4. ASSUME NEW q \in Procs \ {p}
      PROVE  pc'[q] \in {"idle"} \cup InstallPCs \cup UsePCs \cup RemoveAllPCs /\ Listing(q)'
  <2>1. pc'[q] = pc[q] /\ job'[q].ver = job[q].ver /\ job'[q].todo = job[q].todo
    BY <1>2 DEF Apart
  <2>2. CASE pc[q] \notin MassRemoval
    BY <2>1, <2>2 DEF SweepInv, Listing, MassRemoval, Sweeping
  <2>3. CASE pc[q] \in MassRemoval
    <3>1. productExclusive = q /\ productShared = {}
      BY <2>3, ConstantsAssumption DEF SweepInv, ProductInv, ProductHeld
    <3>2. pc[p] \notin Locking \cup Installing \cup MassRemoval
      BY <3>1 DEF NoOlderOvm, SweepInv, ProductInv, ProductHeld
    <3>3. \A v : ~ Writes(p, v)
      BY <3>2 DEF SweepInv, Writes, Writing, Removing, Installing, Transaction, InstallPCs, UsePCs,
                  RemoveAllPCs, MassRemoval, Sweeping, Locking
    <3>4. UNCHANGED tree
      <4>1. \A x \in Sources : tree'[x] = tree[x]
        BY <3>3, WritesWhere
      <4> QED BY <4>1 DEF TypeInv, TypeOK
    <3> QED BY <2>1, <3>4, ListingFrame DEF SweepInv
  <2> QED BY <2>2, <2>3
<1>5. \A q \in Procs : /\ pc'[q] \in {"idle"} \cup InstallPCs \cup UsePCs \cup RemoveAllPCs
                       /\ Listing(q)'
  BY <1>3, <1>4
<1> QED BY <1>2, <1>5 DEF SweepInv

LEMMA SweepNext ==
  ASSUME NoOlderOvm, NoOtherRemoval, TypeInv, SweepInv, [Next]_vars
  PROVE  SweepInv'
<1> USE DEF InstallPCs, UsePCs
<1>0. ProductInv'
  BY ProductNext DEF SweepInv
<1>1. ASSUME NEW p \in Procs, StartCommand(p) PROVE SweepInv'
  <2>1. StartInstall(p) \/ StartUse(p) \/ StartUninstallAll(p)
    BY <1>1 DEF StartCommand, NoOtherRemoval, CanStart, StartUninstall, StartCleanup,
                StartArchive, StartArchiveBelow
  <2>2. Apart(p) /\ pc'[p] \in {"i_product", "u_marker", "r_product"} /\ UNCHANGED store
    BY <2>1, StartApart DEF StartInstall, StartUse, StartUninstallAll
  <2> QED BY <1>0, <2>2, SweepFrame
<1>2. ASSUME NEW p \in Procs, NEW q \in Procs, HookInstall(p, q) PROVE SweepInv'
  <2>1. Apart(q) /\ pc'[q] = "i_product" /\ UNCHANGED store
    BY <1>2, HookGoes
  <2> QED BY <1>0, <2>1, SweepFrame
<1>3. ASSUME NEW p \in Procs, Crash(p) PROVE SweepInv'
  <2>1. Apart(p) /\ pc'[p] = "idle" /\ UNCHANGED store
    BY <1>3, EndApart DEF Crash
  <2> QED BY <1>0, <2>1, SweepFrame
<1>4. ASSUME NEW p \in Procs, Step(p) PROVE SweepInv'
  BY <1>0, <1>4, SweepStep, NextType
<1>5. CASE UNCHANGED vars
  <2>1. Rooted' /\ \A p \in Procs : Listing(p)'
    BY <1>5, ListingFrame DEF vars, control, store, SweepInv, Rooted
  <2> QED BY <1>0, <1>5, <2>1 DEF vars, control, SweepInv
<1> QED BY <1>1, <1>2, <1>3, <1>4, <1>5 DEF Next, AllDone

LEMMA SweepInit == Init => SweepInv
<1> SUFFICES ASSUME Init PROVE SweepInv
  OBVIOUS
<1>1. \A p \in Procs : pc[p] = "idle"
  BY DEF Init
<1> QED BY <1>1, RootedInit, ProductInit DEF SweepInv, Listing

\* When an uninstall --all turns to what it did not list, nothing complete is
\* left to be swept without its hooks.
THEOREM SweepCorrect ==
  ASSUME NoOlderOvm, NoOtherRemoval
  PROVE  Spec => SweepRemovesNoInstall
<1>1. Init => SweepInv
  BY SweepInit
<1>2. TypeInv /\ SweepInv /\ [Next]_vars => SweepInv'
  BY SweepNext
<1>3. TypeInv /\ SweepInv /\ [Next]_vars
        => [\A p \in Procs : pc[p] = "r_next" /\ pc'[p] = "r_sweep"
              => \A v \in Versions : ~ VersionComplete(v)]_vars
  <2>1. SUFFICES ASSUME TypeInv, SweepInv, Next, NEW p \in Procs,
                        pc[p] = "r_next", pc'[p] = "r_sweep"
                 PROVE  job[p].todo = {}
    BY DEF SweepInv, Listing, vars
  <2>2. ASSUME NEW q \in Procs, StartCommand(q) \/ Crash(q) PROVE FALSE
    <3>1. Apart(q) /\ pc'[q] # "r_sweep"
      BY <2>1, <2>2, StartGoes, EndApart DEF Crash
    <3> QED BY <2>1, <3>1 DEF Apart
  <2>3. ASSUME NEW q \in Procs, NEW r \in Procs, HookInstall(q, r) PROVE FALSE
    <3>1. Apart(r) /\ pc'[r] # "r_sweep"
      BY <2>1, <2>3, HookGoes
    <3> QED BY <2>1, <3>1 DEF Apart
  <2>4. ASSUME NEW q \in Procs, Step(q) PROVE q = p
    BY <2>1, <2>4, InstallApart, OtherApart DEF Step, Apart
  <2>5. Step(p)
    BY <2>1, <2>2, <2>3, <2>4 DEF Next, AllDone, vars, control
  <2>6. NextListed(p)
    BY <2>1, <2>5
       DEF Step, InstallStep, LockProduct, LockVersion, BlockOnVersion, RefuseOwnHook,
           AwaitVersion, Reuse, BeginTransaction, PreInstall, AfterHook, PrepareRetire,
           PrepareCreate, PrepareMark, PrepareDiscard, Fetch, Publish, Unmark, PostInstall,
           InstallFails, AbortRetire, AbortDiscard, AbortVersion,
           UseStep, ReadMarker, RefuseMarked, ReadRest, PreSwitch, SwitchCurrent, WritePin,
           PostSwitch, RemoveStep, NextPlanned, PlanDone, CheckUninstall, PreUninstall,
           RemoveVersion, PostUninstall, NextArchived, ArchiveVersion, RemoveAllStep,
           TryProductLock, ListVersions, TryVersionLock, RecheckLocks, ClearCurrent, ClearPin,
           PreUninstallListed, RemoveListed, PostUninstallListed, SweepLeftovers
  <2> QED BY <2>1, <2>6, EndApart DEF NextListed, Goto, TypeInv, TypeOK
<1> QED BY <1>1, <1>2, <1>3, LocksHeld, PTL DEF Spec, SweepRemovesNoInstall

-----------------------------------------------------------------------------
(* One terminal.  With several, an uninstall may follow the check of a use, *)
(* which takes no lock; one after the other, and killed at any step, the    *)
(* commands keep what is selected.                                          *)

OneTerminal == \A p, q \in Procs : p = q

Alone(p) ==
  /\ pc[p] \in UsePCs => job[p].ver \in versionDir
  /\ pc[p] \in {"d_pre", "d_remove", "x_remove"} => job[p].ver # current
  /\ pc[p] \in {"x_next", "x_remove"} => current \notin job[p].todo
  /\ pc[p] \in Sweeping \ {"r_clear"} => current = None
  /\ pc[p] \in Transaction /\ ~ job[p].existed => job[p].ver # current

AloneInv ==
  /\ Rooted /\ CurrentNeverDangles
  /\ \A p \in Procs : Work(p) /\ Fresh(p) /\ Alone(p)

\* Whoever runs no command has nothing to lose.
LEMMA AloneIdle ==
  ASSUME NEW p \in Procs, pc[p] \in {"idle", "i_product", "r_product", "d_check", "d_next"}
  PROVE  Work(p) /\ Fresh(p) /\ Alone(p)
BY DEF Work, Fresh, Alone, UsePCs, Sweeping, Transaction

\* Within a transaction the version and what was there before stay the same.
LEMMA InstallWithin ==
  ASSUME TypeInv, NEW p \in Procs, InstallStep(p), ~ BeginTransaction(p), pc'[p] \in Transaction
  PROVE  /\ pc[p] \in Transaction
         /\ job'[p].ver = job[p].ver /\ job'[p].existed = job[p].existed
<1> USE DEF locks, control, Transaction
<1>0. pc \in [Procs -> PCs] /\ job \in [Procs -> Job]
  BY DEF TypeInv, TypeOK
<1>1. ~ End(p)
  BY EndApart
<1>2. CASE Fetch(p)
  BY <1>0, <1>2 DEF Fetch, Job
<1>3. CASE PrepareDiscard(p)
  BY <1>0, <1>3 DEF PrepareDiscard, Job
<1>4. CASE ~ Fetch(p) /\ ~ PrepareDiscard(p)
  BY <1>0, <1>1, <1>4
     DEF InstallStep, LockProduct, LockVersion, TakeVersionLock, BlockOnVersion, RefuseOwnHook,
         AwaitVersion, Reuse, PreInstall, AfterHook, PrepareRetire,
         PrepareCreate, PrepareMark, Publish, Unmark, PostInstall,
         InstallFails, AbortRetire, AbortDiscard, AbortVersion, Goto
<1> QED BY <1>2, <1>3, <1>4

LEMMA AloneInstall ==
  ASSUME TypeInv, Rooted, CurrentNeverDangles, NEW p \in Procs, Work(p), Fresh(p), Alone(p),
         InstallStep(p)
  PROVE  CurrentNeverDangles' /\ Alone(p)'
<1> USE DEF locks, control, store, selection
<1>0. pc \in [Procs -> PCs] /\ job \in [Procs -> Job] /\ UNCHANGED current
  BY DEF TypeInv, TypeOK, InstallStep, LockProduct, LockVersion, BlockOnVersion, RefuseOwnHook,
         AwaitVersion, Reuse, BeginTransaction, PreInstall, AfterHook, PrepareRetire,
         PrepareCreate, PrepareMark, PrepareDiscard, Fetch, Publish, Unmark, PostInstall,
         InstallFails, AbortRetire, AbortDiscard, AbortVersion
<1>1. CASE AbortVersion(p)
  <2>1. pc[p] = "a_version" /\ job[p].ver # current /\ job[p].ver \in Versions
    BY <1>1, AtSource
       DEF AbortVersion, Work, Alone, WithVariant, Installing, Transaction
  <2>2. versionDir \ {job[p].ver} \subseteq versionDir'
    BY <1>1, <2>1, Erases DEF AbortVersion, EraseVersionDir
  <2>3. CurrentNeverDangles'
    BY <1>0, <2>1, <2>2 DEF CurrentNeverDangles
  <2>4. pc'[p] \in {"idle", "a_version"} /\ (pc'[p] = "idle" \/ UNCHANGED job)
    BY <1>1, <2>1, EndApart DEF AbortVersion
  <2>5. Alone(p)'
    BY <1>0, <2>1, <2>4 DEF Alone, UsePCs, Sweeping, Transaction
  <2> QED BY <2>3, <2>5
<1>2. CASE ~ AbortVersion(p)
  <2>1. versionDir \subseteq versionDir'
    BY <1>2
       DEF InstallStep, LockProduct, LockVersion, BlockOnVersion, RefuseOwnHook,
           AwaitVersion, Reuse, BeginTransaction, PreInstall, AfterHook, PrepareRetire, RetireRoot,
           PrepareCreate, PrepareMark, PrepareDiscard, Fetch, Publish, Unmark, PostInstall,
           InstallFails, AbortRetire, AbortDiscard
  <2>2. CurrentNeverDangles'
    BY <1>0, <2>1 DEF CurrentNeverDangles
  <2>3. CASE pc'[p] \notin Transaction
    <3>1. pc'[p] \in {"idle"} \cup InstallPCs
      BY InstallGoes
    <3> QED BY <2>2, <2>3, <3>1
            DEF Alone, UsePCs, Sweeping, Transaction, InstallPCs, Installing, Locking
  <2>4. CASE pc'[p] \in Transaction
    <3>1. ~ job'[p].existed => job'[p].ver # current
      <4>1. CASE BeginTransaction(p)
        <5> DEFINE b == job[p].ver \in versionDir
        <5>1. b \in BOOLEAN /\ b = (job[p].ver \in versionDir)
              /\ job' = [job EXCEPT ![p].existed = b]
          BY <4>1 DEF BeginTransaction
        <5> HIDE DEF b
        <5>2. job'[p].existed = b /\ job'[p].ver = job[p].ver
          BY <1>0, <5>1 DEF Job
        <5>3. job[p].ver # None
          BY <4>1, AtSource, ConstantsAssumption DEF BeginTransaction, WithVariant, Installing
        <5> QED BY <5>1, <5>2, <5>3 DEF CurrentNeverDangles
      <4>2. CASE ~ BeginTransaction(p)
        <5>1. /\ pc[p] \in Transaction
              /\ job'[p].ver = job[p].ver /\ job'[p].existed = job[p].existed
          BY <2>4, <4>2, InstallWithin
        <5> QED BY <5>1 DEF Alone
      <4> QED BY <4>1, <4>2
    <3> QED BY <1>0, <2>2, <2>4, <3>1 DEF Alone, UsePCs, Sweeping, Transaction
  <2> QED BY <2>3, <2>4
<1> QED BY <1>1, <1>2

LEMMA AloneUse ==
  ASSUME TypeInv, CurrentNeverDangles, NEW p \in Procs, Alone(p), UseStep(p)
  PROVE  CurrentNeverDangles' /\ Alone(p)'
<1> USE DEF locks, store, selection
<1>0. pc \in [Procs -> PCs] /\ job \in [Procs -> Job] /\ UNCHANGED store
  BY DEF TypeInv, TypeOK, UseStep, ReadMarker, RefuseMarked, ReadRest, PreSwitch, AfterHook,
         SwitchCurrent, WritePin, PostSwitch
<1>1. ASSUME End(p) PROVE Alone(p)' /\ pc'[p] = "idle"
  <2>1. pc'[p] = "idle"
    BY <1>1, EndApart
  <2> QED BY <2>1 DEF Alone, UsePCs, Sweeping, Transaction
<1>2. CASE ReadMarker(p)
  <2>1. job'[p].ver = job[p].ver
    BY <1>0, <1>2 DEF ReadMarker, Job
  <2>2. pc[p] = "u_marker" /\ pc'[p] = "u_rest" /\ UNCHANGED current
    BY <1>0, <1>2 DEF ReadMarker, Goto
  <2> QED BY <1>0, <2>1, <2>2 DEF CurrentNeverDangles, Alone, UsePCs, Sweeping, Transaction
<1>3. CASE RefuseMarked(p) \/ PostSwitch(p)
  BY <1>1, <1>3 DEF RefuseMarked, PostSwitch, CurrentNeverDangles
<1>4. CASE ReadRest(p)
  <2>1. CASE End(p)
    BY <1>1, <1>4, <2>1 DEF ReadRest, CurrentNeverDangles
  <2>2. CASE Goto(p, "u_pre") /\ UNCHANGED job
    <3>1. pc[p] = "u_rest" /\ pc'[p] = "u_pre" /\ UNCHANGED current
      BY <1>0, <1>4, <2>2 DEF ReadRest, Goto
    <3> QED BY <1>0, <2>2, <3>1 DEF CurrentNeverDangles, Alone, UsePCs, Sweeping, Transaction
  <2> QED BY <1>4, <2>1, <2>2 DEF ReadRest
<1>5. CASE PreSwitch(p) \/ WritePin(p)
  BY <1>0, <1>5 DEF PreSwitch, AfterHook, WritePin, Goto, CurrentNeverDangles, Alone, UsePCs,
                    Sweeping, Transaction
<1>6. CASE SwitchCurrent(p)
  BY <1>0, <1>6 DEF SwitchCurrent, Goto, CurrentNeverDangles, Alone, UsePCs, Sweeping, Transaction
<1> QED BY <1>2, <1>3, <1>4, <1>5, <1>6 DEF UseStep

LEMMA AloneRemove ==
  ASSUME TypeInv, CurrentNeverDangles, NEW p \in Procs, Alone(p), RemoveStep(p)
  PROVE  CurrentNeverDangles' /\ Alone(p)'
<1> USE DEF locks, control, store, selection
<1>0. pc \in [Procs -> PCs] /\ job \in [Procs -> Job] /\ UNCHANGED current
  BY DEF TypeInv, TypeOK, RemoveStep, NextPlanned, PlanDone, CheckUninstall, PreUninstall,
         RemoveVersion, PostUninstall, AfterHook, NextArchived, ArchiveVersion
<1>1. ASSUME End(p) PROVE Alone(p)'
  <2>1. pc'[p] = "idle"
    BY <1>1, EndApart
  <2> QED BY <2>1 DEF Alone, UsePCs, Sweeping, Transaction
<1>2. CASE NextPlanned(p) \/ PlanDone(p) \/ CheckUninstall(p) \/ PreUninstall(p) \/ PostUninstall(p)
  <2>1. CurrentNeverDangles'
    BY <1>0, <1>2 DEF NextPlanned, PlanDone, CheckUninstall, PreUninstall, PostUninstall, AfterHook,
                      CurrentNeverDangles
  <2>2. CASE NextPlanned(p)
    <3>1. pc'[p] \in {"d_check", "d_next"}
      BY <1>0, <2>2 DEF NextPlanned, Goto
    <3> QED BY <2>1, <3>1 DEF Alone, UsePCs, Sweeping, Transaction
  <2>3. CASE PlanDone(p)
    BY <1>1, <2>1, <2>3 DEF PlanDone
  <2>4. CASE CheckUninstall(p)
    BY <1>0, <1>1, <2>1, <2>4 DEF CheckUninstall, Removable, Goto, Alone, UsePCs, Sweeping, Transaction
  <2>5. CASE PreUninstall(p) \/ PostUninstall(p)
    BY <1>0, <2>1, <2>5 DEF PreUninstall, PostUninstall, AfterHook, Goto, Alone, UsePCs, Sweeping,
                            Transaction
  <2> QED BY <1>2, <2>2, <2>3, <2>4, <2>5
<1>3. CASE RemoveVersion(p)
  <2>1. pc[p] = "d_remove" /\ job[p].ver # current /\ job[p].ver \in Versions
    BY <1>3 DEF RemoveVersion, Alone, WithVersion, TypeInv, JobOK
  <2>2. versionDir \ {job[p].ver} \subseteq versionDir'
    BY <1>3, <2>1, Erases DEF RemoveVersion, EraseVersionDir
  <2>3. CurrentNeverDangles'
    BY <1>0, <2>1, <2>2 DEF CurrentNeverDangles
  <2>4. CASE End(p)
    BY <1>1, <2>3, <2>4
  <2>5. CASE pc'[p] \in {"d_remove", "d_post"} /\ UNCHANGED job
    BY <1>0, <2>1, <2>3, <2>5 DEF Alone, UsePCs, Sweeping, Transaction
  <2> QED BY <1>0, <1>3, <2>4, <2>5 DEF RemoveVersion, Goto
<1>4. CASE NextArchived(p)
  <2>1. CurrentNeverDangles'
    BY <1>0, <1>4 DEF NextArchived, CurrentNeverDangles
  <2>2. CASE job[p].todo = {}
    BY <1>1, <1>4, <2>1, <2>2 DEF NextArchived
  <2>3. CASE job[p].todo # {}
    <3>1. PICK v \in job[p].todo : job' = [job EXCEPT ![p].todo = @ \ {v}, ![p].ver = v]
      BY <1>4, <2>3 DEF NextArchived
    <3>2. job'[p].todo = job[p].todo \ {v} /\ job'[p].ver = v
      BY <1>0, <3>1 DEF Job
    <3>3. pc[p] = "x_next" /\ pc'[p] = "x_remove"
      BY <1>0, <1>4, <2>3 DEF NextArchived, Goto
    <3> QED BY <1>0, <2>1, <3>2, <3>3 DEF Alone, UsePCs, Sweeping, Transaction
  <2> QED BY <2>2, <2>3
<1>5. CASE ArchiveVersion(p)
  <2>1. CurrentNeverDangles'
    BY <1>0, <1>5 DEF ArchiveVersion, CurrentNeverDangles
  <2>2. pc[p] = "x_remove" /\ pc'[p] \in {"x_next", "x_remove"} /\ UNCHANGED job
    BY <1>0, <1>5 DEF ArchiveVersion, Goto
  <2> QED BY <1>0, <2>1, <2>2 DEF Alone, UsePCs, Sweeping, Transaction
<1> QED BY <1>2, <1>3, <1>4, <1>5 DEF RemoveStep

LEMMA AloneRemoveAll ==
  ASSUME TypeInv, CurrentNeverDangles, NEW p \in Procs, Alone(p), RemoveAllStep(p)
  PROVE  /\ CurrentNeverDangles' /\ Alone(p)'
         /\ current' = current \/ (current' = None /\ UNCHANGED tree)
<1> USE DEF locks, control, store, selection
<1>0. pc \in [Procs -> PCs] /\ job \in [Procs -> Job]
  BY DEF TypeInv, TypeOK
<1>1. ASSUME End(p) PROVE Alone(p)'
  <2>1. pc'[p] = "idle"
    BY <1>1, EndApart
  <2> QED BY <2>1 DEF Alone, UsePCs, Sweeping, Transaction
<1>2. CASE TryProductLock(p) \/ ListVersions(p) \/ TryVersionLock(p) \/ RecheckLocks(p)
  <2>1. CurrentNeverDangles' /\ UNCHANGED current
    BY <1>2 DEF TryProductLock, ListVersions, TryVersionLock, RecheckLocks, CurrentNeverDangles
  <2>2. CASE End(p)
    BY <1>1, <2>1, <2>2
  <2>3. CASE pc'[p] \in {"r_list", "r_lock", "r_clear"}
    BY <2>1, <2>3 DEF Alone, UsePCs, Sweeping, Transaction
  <2> QED BY <1>0, <1>2, <2>2, <2>3
          DEF TryProductLock, ListVersions, TryVersionLock, RecheckLocks, Goto
<1>3. CASE ClearCurrent(p)
  BY <1>0, <1>3 DEF ClearCurrent, Goto, CurrentNeverDangles, Alone, UsePCs, Sweeping, Transaction
<1>4. CASE \/ ClearPin(p) \/ NextListed(p) \/ PreUninstallListed(p) \/ RemoveListed(p)
           \/ PostUninstallListed(p) \/ SweepLeftovers(p)
  <2>1. pc[p] \in Sweeping \ {"r_clear"} /\ UNCHANGED current
    BY <1>4 DEF ClearPin, NextListed, PreUninstallListed, AfterHook, RemoveListed,
                PostUninstallListed, SweepLeftovers, Sweeping
  <2>2. CurrentNeverDangles'
    BY <2>1 DEF Alone, CurrentNeverDangles
  <2>3. CASE End(p)
    BY <1>1, <2>1, <2>2, <2>3
  <2>4. CASE pc'[p] \in Sweeping \ {"r_clear"}
    BY <2>1, <2>2, <2>4 DEF Alone, UsePCs, Sweeping, Transaction
  <2> QED BY <1>0, <1>4, <2>1, <2>3, <2>4
          DEF ClearPin, NextListed, PreUninstallListed, AfterHook, RemoveListed,
              PostUninstallListed, SweepLeftovers, Sweeping, Goto
<1> QED BY <1>2, <1>3, <1>4 DEF RemoveAllStep

LEMMA AloneStep ==
  ASSUME OneTerminal, TypeInv, AloneInv, NEW p \in Procs, Step(p)
  PROVE  AloneInv'
<1>1. Rooted' /\ Work(p)' /\ Fresh(p)'
  BY RootedStep, WorkOwn DEF AloneInv
<1>2. CurrentNeverDangles' /\ Alone(p)'
  BY AloneInstall, AloneUse, AloneRemove, AloneRemoveAll DEF Step, AloneInv
<1> QED BY <1>1, <1>2 DEF OneTerminal, AloneInv

LEMMA AloneNext ==
  ASSUME OneTerminal, TypeInv, AloneInv, [Next]_vars
  PROVE  AloneInv'
<1> USE DEF store, selection
<1>0. ASSUME UNCHANGED <<store, current>> PROVE Rooted' /\ CurrentNeverDangles'
  BY <1>0 DEF AloneInv, Rooted, CurrentNeverDangles
<1>1. ASSUME NEW p \in Procs, UNCHANGED <<store, current>>,
             pc'[p] \in {"idle", "i_product", "r_product", "d_check", "d_next"}
      PROVE  AloneInv'
  <2>1. Work(p)' /\ Fresh(p)' /\ Alone(p)'
    BY <1>1 DEF Work, Fresh, Alone, UsePCs, Sweeping, Transaction
  <2> QED BY <1>0, <1>1, <2>1 DEF OneTerminal, AloneInv
<1>2. ASSUME NEW p \in Procs, StartCommand(p) PROVE AloneInv'
  <2>1. CASE StartUse(p)
    <3>1. PICK v \in versionDir, latest \in BOOLEAN :
            Start(p, "u_marker", [NoJob EXCEPT !.ver = v, !.follow = latest])
      BY <2>1 DEF StartUse
    <3> DEFINE j == [NoJob EXCEPT !.ver = v, !.follow = latest]
    <3>2. j.ver = v
      BY DEF NoJob
    <3>3. Start(p, "u_marker", j)
      BY <3>1
    <3> HIDE DEF j
    <3>4. pc'[p] = "u_marker" /\ job'[p].ver = v /\ UNCHANGED <<store, current>>
      BY <2>1, <3>2, <3>3, StartApart DEF StartUse
    <3>5. Work(p)' /\ Fresh(p)' /\ Alone(p)'
      BY <3>4 DEF Work, Fresh, Alone, UsePCs, Sweeping, Transaction
    <3> QED BY <1>0, <3>4, <3>5 DEF OneTerminal, AloneInv
  <2>2. CASE StartArchive(p) \/ StartArchiveBelow(p)
    <3>1. PICK t : /\ Start(p, "x_next", [NoJob EXCEPT !.todo = t])
                   /\ current \notin t
      <4>1. CASE StartArchive(p)
        <5>1. PICK v \in versionDir : /\ v # current
                                      /\ Start(p, "x_next", [NoJob EXCEPT !.todo = {v}])
          BY <4>1 DEF StartArchive, Removable
        <5> WITNESS {v}
        <5> QED BY <5>1
      <4>2. CASE StartArchiveBelow(p)
        BY <4>2 DEF StartArchiveBelow
      <4> QED BY <2>2, <4>1, <4>2
    <3>2. pc'[p] = "x_next" /\ job'[p].todo = t /\ UNCHANGED <<store, current>>
      BY <2>2, <3>1, StartApart DEF StartArchive, StartArchiveBelow, NoJob
    <3>3. Work(p)' /\ Fresh(p)' /\ Alone(p)'
      BY <3>1, <3>2 DEF Work, Fresh, Alone, UsePCs, Sweeping, Transaction
    <3> QED BY <1>0, <3>2, <3>3 DEF OneTerminal, AloneInv
  <2>3. CASE StartInstall(p) \/ StartUninstall(p) \/ StartCleanup(p) \/ StartUninstallAll(p)
    BY <1>1, <2>3, StartApart DEF StartInstall, StartUninstall, StartCleanup, StartUninstallAll
  <2> QED BY <1>2, <2>1, <2>2, <2>3 DEF StartCommand
<1>3. ASSUME NEW p \in Procs, NEW q \in Procs, HookInstall(p, q) PROVE AloneInv'
  BY <1>1, <1>3, HookGoes
<1>4. ASSUME NEW p \in Procs, Crash(p) PROVE AloneInv'
  BY <1>1, <1>4, EndApart DEF Crash
<1>5. ASSUME NEW p \in Procs, Step(p) PROVE AloneInv'
  BY <1>5, AloneStep
<1>6. CASE UNCHANGED vars
  <2>1. ASSUME NEW p \in Procs PROVE Work(p)' /\ Fresh(p)' /\ Alone(p)'
    BY <1>6 DEF vars, control, AloneInv, Work, Fresh, Alone, NeedsInstall, IsComplete, At
  <2> QED BY <1>0, <1>6, <2>1 DEF vars, AloneInv
<1> QED BY <1>2, <1>3, <1>4, <1>5, <1>6 DEF Next, AllDone

LEMMA AloneInit == Init => AloneInv
<1> SUFFICES ASSUME Init PROVE AloneInv
  OBVIOUS
<1>1. \A p \in Procs : Work(p) /\ Fresh(p) /\ Alone(p)
  BY AloneIdle DEF Init
<1> QED BY <1>1, RootedInit DEF Init, AloneInv, CurrentNeverDangles

\* In one terminal, whatever command is killed where, the version `current`
\* names has its directory.
THEOREM NeverDanglesAlone == ASSUME OneTerminal PROVE Spec => []CurrentNeverDangles
<1>1. Init => AloneInv
  BY AloneInit
<1>2. TypeInv /\ AloneInv /\ [Next]_vars => AloneInv'
  BY AloneNext
<1>3. AloneInv => CurrentNeverDangles
  BY DEF AloneInv
<1> QED BY <1>1, <1>2, <1>3, LocksHeld, PTL DEF Spec

-----------------------------------------------------------------------------
(* The promise of PublishedStore, for one terminal and sources that are      *)
(* never repaired: the repair of a Codex release takes it away first.        *)

NoRepair == Repairable = {}

Selects(p) ==
  /\ current # None => VersionComplete(current)
  /\ pc[p] = "u_rest" => "installing" \notin tree[At(p)]
  /\ pc[p] \in {"u_pre", "u_switch"} => VersionComplete(job[p].ver)

SelectInv == \A p \in Procs : Selects(p)

\* The one tree a step writes.
OneTree(x) == x \in Sources /\ \A y \in Sources \ {x} : tree'[y] = tree[y]

LEMMA InstallOne ==
  ASSUME TypeInv, NEW p \in Procs, Work(p), Fresh(p), InstallStep(p)
  PROVE  UNCHANGED current /\ (UNCHANGED tree \/ \E x : OneTree(x))
<1>1. UNCHANGED current
  BY DEF InstallStep, LockProduct, LockVersion, BlockOnVersion, RefuseOwnHook,
         AwaitVersion, Reuse, BeginTransaction, PreInstall, AfterHook, PrepareRetire,
         PrepareCreate, PrepareMark, PrepareDiscard, Fetch, Publish, Unmark, PostInstall,
         InstallFails, AbortRetire, AbortDiscard, AbortVersion, selection
<1>2. CASE At(p) \in Sources
  <2>1. OneTree(At(p))
    BY <1>2, InstallWrites DEF OneTree
  <2> QED BY <1>1, <2>1
<1>3. CASE At(p) \notin Sources
  <2>1. pc[p] \notin WithVariant
    BY <1>3, AtSource
  <2> QED BY <2>1
          DEF InstallStep, LockProduct, LockVersion, BlockOnVersion, RefuseOwnHook,
              AwaitVersion, Reuse, BeginTransaction, PreInstall, AfterHook, PrepareRetire,
              PrepareCreate, PrepareMark, PrepareDiscard, Fetch, Publish, Unmark, PostInstall,
              InstallFails, AbortRetire, AbortDiscard, AbortVersion, WithVariant, Locking,
              Installing, Transaction
<1> QED BY <1>2, <1>3

LEMMA RemoveOne ==
  ASSUME TypeInv, NEW p \in Procs, RemoveStep(p)
  PROVE  /\ UNCHANGED current
         /\ UNCHANGED tree \/ \E x : OneTree(x) /\ x[1] = job[p].ver /\ pc[p] \in {"d_remove", "x_remove"}
<1>0. tree \in [Sources -> SUBSET Entries]
  BY DEF TypeInv, TypeOK
<1>1. UNCHANGED current
  BY DEF RemoveStep, NextPlanned, PlanDone, CheckUninstall, PreUninstall,
         RemoveVersion, PostUninstall, AfterHook, NextArchived, ArchiveVersion, selection
<1>2. CASE RemoveVersion(p)
  <2>1. pc[p] = "d_remove" /\ job[p].ver \in Versions
    BY <1>2 DEF RemoveVersion, WithVersion, TypeInv, JobOK
  <2>2. CASE EraseWithin(job[p].ver)
    <3>1. PICK s \in Variants : \A y \in Sources \ {<<job[p].ver, s>>} : tree'[y] = tree[y]
      BY <2>1, <2>2, Erases
    <3>2. OneTree(<<job[p].ver, s>>) /\ <<job[p].ver, s>>[1] = job[p].ver
      BY <2>1, <3>1 DEF OneTree, Sources
    <3> QED BY <1>1, <2>1, <3>2
  <2>3. CASE UNCHANGED tree
    BY <1>1, <2>3
  <2> QED BY <1>2, <2>2, <2>3 DEF RemoveVersion, EraseVersionDir, store
<1>3. CASE ArchiveVersion(p)
  <2>1. pc[p] = "x_remove" /\ job[p].ver \in Versions
    BY <1>3 DEF ArchiveVersion, WithVersion, TypeInv, JobOK
  <2>2. CASE UNCHANGED tree
    BY <1>1, <2>2
  <2>3. CASE \E s \in Variants : \E f : tree' = [tree EXCEPT ![<<job[p].ver, s>>] = @ \ {f}]
    <3>1. PICK s \in Variants : \E f : tree' = [tree EXCEPT ![<<job[p].ver, s>>] = @ \ {f}]
      BY <2>3
    <3>2. OneTree(<<job[p].ver, s>>) /\ <<job[p].ver, s>>[1] = job[p].ver
      BY <1>0, <2>1, <3>1 DEF OneTree, Sources
    <3> QED BY <1>1, <2>1, <3>2
  <2> QED BY <1>3, <2>2, <2>3 DEF ArchiveVersion
<1>4. CASE UNCHANGED tree
  BY <1>1, <1>4
<1> QED BY <1>2, <1>3, <1>4
        DEF RemoveStep, NextPlanned, PlanDone, CheckUninstall, PreUninstall,
            PostUninstall, AfterHook, NextArchived, store

LEMMA RemoveAllOne ==
  ASSUME TypeInv, NEW p \in Procs, Alone(p), RemoveAllStep(p)
  PROVE  UNCHANGED tree \/ \E x : OneTree(x) /\ current = None /\ current' = None
<1>1. CASE RemoveListed(p)
  <2>1. pc[p] = "r_remove" /\ job[p].ver \in Versions
    BY <1>1 DEF RemoveListed, WithVersion, TypeInv, JobOK
  <2>2. current = None /\ current' = None
    BY <1>1, <2>1 DEF RemoveListed, Alone, Sweeping, selection
  <2>3. CASE EraseWithin(job[p].ver)
    <3>1. PICK s \in Variants : \A y \in Sources \ {<<job[p].ver, s>>} : tree'[y] = tree[y]
      BY <2>1, <2>3, Erases
    <3>2. OneTree(<<job[p].ver, s>>)
      BY <2>1, <3>1 DEF OneTree, Sources
    <3> QED BY <2>2, <3>2
  <2> QED BY <1>1, <2>3 DEF RemoveListed, EraseVersionDir, store
<1>2. CASE SweepLeftovers(p)
  <2>1. current = None /\ current' = None
    BY <1>2 DEF SweepLeftovers, Alone, Sweeping, selection
  <2>2. ASSUME NEW v \in Versions, EraseWithin(v) PROVE \E x : OneTree(x)
    <3>1. PICK s \in Variants : \A y \in Sources \ {<<v, s>>} : tree'[y] = tree[y]
      BY <2>2, Erases
    <3>2. OneTree(<<v, s>>)
      BY <3>1 DEF OneTree, Sources
    <3> QED BY <3>2
  <2> QED BY <1>2, <2>1, <2>2 DEF SweepLeftovers, EraseVersionDir, store, TypeInv, TypeOK
<1> QED BY <1>1, <1>2
        DEF RemoveAllStep, TryProductLock, ListVersions, TryVersionLock, RecheckLocks, ClearCurrent,
            ClearPin, NextListed, PreUninstallListed, PostUninstallListed, AfterHook, store

\* What is complete stays so while an install runs, and outside the tree written.
LEMMA CompleteStays ==
  ASSUME NoRepair, TypeInv, NEW p \in Procs, Work(p), Fresh(p), InstallStep(p),
         NEW v \in Versions, VersionComplete(v)
  PROVE  VersionComplete(v)'
<1>1. PICK s \in Variants : IsComplete(<<v, s>>)
  BY DEF VersionComplete
<1>2. <<v, s>> \in Sources
  BY DEF Sources
<1>3. tree'[<<v, s>>] = tree[<<v, s>>]
  BY <1>1, <1>2, InstallWrites DEF NoRepair
<1> QED BY <1>1, <1>3 DEF VersionComplete, IsComplete

LEMMA SelectStep ==
  ASSUME OneTerminal, NoRepair, TypeInv, AloneInv, SelectInv, NEW p \in Procs, Step(p)
  PROVE  SelectInv'
<1>0. /\ current \in Versions \cup {None}
      /\ pc \in [Procs -> PCs] /\ job \in [Procs -> Job]
  BY DEF TypeInv, TypeOK
<1> SUFFICES Selects(p)'
  BY DEF OneTerminal, SelectInv
<1>1. CASE InstallStep(p)
  <2>1. pc'[p] \notin {"u_rest", "u_pre", "u_switch"} /\ UNCHANGED current
    BY <1>1, InstallGoes, InstallOne DEF InstallPCs, Locking, Installing, Transaction, AloneInv
  <2> QED BY <1>0, <1>1, <2>1, CompleteStays DEF Selects, SelectInv, AloneInv
<1>2. CASE UseStep(p)
  <2>1. UNCHANGED tree
    BY <1>2 DEF UseStep, ReadMarker, RefuseMarked, ReadRest, PreSwitch, AfterHook,
                SwitchCurrent, WritePin, PostSwitch, store
  <2>2. \A v : VersionComplete(v)' <=> VersionComplete(v)
    BY <2>1 DEF VersionComplete, IsComplete
  <2>3. CASE SwitchCurrent(p)
    BY <1>0, <2>2, <2>3 DEF SwitchCurrent, Goto, Selects, SelectInv
  <2>4. CASE PreSwitch(p)
    <3>1. pc[p] = "u_pre" /\ pc'[p] = "u_switch" /\ UNCHANGED <<current, job>>
      BY <1>0, <2>4 DEF PreSwitch, AfterHook, selection, Goto
    <3> QED BY <2>2, <3>1 DEF Selects, SelectInv
  <2>5. CASE ReadMarker(p)
    <3>1. PICK s \in Variants : /\ "installing" \notin tree[<<job[p].ver, s>>]
                                /\ job' = [job EXCEPT ![p].variant = s]
      BY <2>5 DEF ReadMarker
    <3>2. job'[p].ver = job[p].ver /\ job'[p].variant = s
      BY <1>0, <3>1 DEF Job
    <3>3. pc'[p] = "u_rest" /\ UNCHANGED current
      BY <1>0, <2>5 DEF ReadMarker, Goto, selection
    <3> QED BY <2>1, <2>2, <3>1, <3>2, <3>3 DEF Selects, SelectInv, At
  <2>6. CASE ReadRest(p) /\ LooksFinished(p)
    <3>1. pc[p] = "u_rest" /\ pc'[p] = "u_pre" /\ UNCHANGED <<current, job>>
      BY <1>0, <2>6 DEF ReadRest, Goto, selection
    <3>2. IsComplete(At(p)) /\ job[p].variant \in Variants
      BY <2>6, <3>1, AtSource DEF SelectInv, Selects, IsComplete, LooksFinished, WithVariant, At
    <3>3. VersionComplete(job[p].ver)
      BY <3>2 DEF VersionComplete, At
    <3> QED BY <2>1, <2>2, <3>1, <3>3 DEF Selects, SelectInv, VersionComplete, IsComplete
  <2>7. CASE WritePin(p) \/ (\/ ReadRest(p) /\ ~ LooksFinished(p)
                             \/ RefuseMarked(p) \/ PostSwitch(p))
    <3>1. UNCHANGED current
      BY <2>7 DEF ReadRest, RefuseMarked, WritePin, PostSwitch, selection
    <3>2. pc'[p] \in {"idle", "u_post"}
      BY <1>0, <2>7, EndApart DEF ReadRest, RefuseMarked, WritePin, PostSwitch, Goto
    <3> QED BY <2>2, <3>1, <3>2 DEF Selects, SelectInv
  <2> QED BY <1>2, <2>3, <2>4, <2>5, <2>6, <2>7 DEF UseStep
<1>3. CASE RemoveStep(p)
  <2>1. pc'[p] \notin {"u_rest", "u_pre", "u_switch"}
    BY <1>0, <1>3, EndApart
       DEF RemoveStep, NextPlanned, PlanDone, CheckUninstall, PreUninstall,
           RemoveVersion, PostUninstall, AfterHook, NextArchived, ArchiveVersion, Goto, control, locks
  <2>2. UNCHANGED current
    BY <1>3, RemoveOne
  <2>3. CASE UNCHANGED tree
    BY <2>1, <2>2, <2>3 DEF Selects, SelectInv, VersionComplete, IsComplete
  <2>4. CASE \E x : OneTree(x) /\ x[1] = job[p].ver /\ pc[p] \in {"d_remove", "x_remove"}
    <3>1. PICK x : OneTree(x) /\ x[1] = job[p].ver /\ pc[p] \in {"d_remove", "x_remove"}
      BY <2>4
    <3>2. x[1] # current
      BY <3>1 DEF AloneInv, Alone
    <3>3. current # None => VersionComplete(current)'
      <4>1. SUFFICES ASSUME current # None PROVE VersionComplete(current)'
        OBVIOUS
      <4>2. PICK s \in Variants : IsComplete(<<current, s>>)
        BY <4>1 DEF SelectInv, Selects, VersionComplete
      <4>3. <<current, s>> \in Sources \ {x}
        BY <1>0, <3>2, <4>1 DEF Sources
      <4>4. tree'[<<current, s>>] = tree[<<current, s>>]
        BY <3>1, <4>3 DEF OneTree
      <4> QED BY <2>2, <4>2, <4>4 DEF VersionComplete, IsComplete
    <3> QED BY <2>1, <2>2, <3>3 DEF Selects, VersionComplete, IsComplete
  <2> QED BY <1>3, <2>3, <2>4, RemoveOne
<1>4. CASE RemoveAllStep(p)
  <2>1. pc'[p] \notin {"u_rest", "u_pre", "u_switch"}
    <3>1. pc[p] \notin {"u_rest", "u_pre", "u_switch"}
      BY <1>4 DEF RemoveAllStep, TryProductLock, ListVersions, TryVersionLock, RecheckLocks,
           ClearCurrent, ClearPin, NextListed, PreUninstallListed, AfterHook, RemoveListed,
           PostUninstallListed, SweepLeftovers
    <3> QED BY <1>0, <1>4, <3>1, EndApart
       DEF RemoveAllStep, TryProductLock, ListVersions, TryVersionLock, RecheckLocks,
           ClearCurrent, ClearPin, NextListed, PreUninstallListed, AfterHook, RemoveListed,
           PostUninstallListed, SweepLeftovers, Goto, control
  <2>2. current' = None \/ (current' = current /\ UNCHANGED tree)
    BY <1>4, AloneRemoveAll, RemoveAllOne DEF AloneInv
  <2> QED BY <2>1, <2>2 DEF Selects, SelectInv, VersionComplete, IsComplete
<1> QED BY <1>1, <1>2, <1>3, <1>4 DEF Step

LEMMA SelectNext ==
  ASSUME OneTerminal, NoRepair, TypeInv, AloneInv, SelectInv, [Next]_vars
  PROVE  SelectInv'
<1>1. ASSUME NEW p \in Procs, UNCHANGED <<store, current>>, pc'[p] \notin {"u_rest", "u_pre", "u_switch"}
      PROVE  SelectInv'
  <2>1. Selects(p)'
    BY <1>1 DEF store, SelectInv, Selects, VersionComplete, IsComplete
  <2> QED BY <2>1 DEF OneTerminal, SelectInv
<1>2. ASSUME NEW p \in Procs, StartCommand(p) PROVE SelectInv'
  BY <1>1, <1>2, StartGoes DEF selection
<1>3. ASSUME NEW p \in Procs, NEW q \in Procs, HookInstall(p, q) PROVE SelectInv'
  BY <1>1, <1>3, HookGoes DEF selection
<1>4. ASSUME NEW p \in Procs, Crash(p) PROVE SelectInv'
  BY <1>1, <1>4, EndApart DEF Crash, selection
<1>5. ASSUME NEW p \in Procs, Step(p) PROVE SelectInv'
  BY <1>5, SelectStep
<1>6. CASE UNCHANGED vars
  BY <1>6 DEF vars, control, store, selection, SelectInv, Selects, VersionComplete, IsComplete, At
<1> QED BY <1>2, <1>3, <1>4, <1>5, <1>6 DEF Next, AllDone

Promised == Promise!Next \/ UNCHANGED Promise!promise

\* At most one source appears or goes, and what is selected stays available.
LEMMA OnePromised ==
  ASSUME NEW x, OneTree(x), UNCHANGED current, current # None => VersionComplete(current)',
         current \in Versions \cup {None}
  PROVE  Promised
<1> DEFINE A == {y \in Sources : IsComplete(y)}
           B == {y \in Sources : IsComplete(y)'}
<1>1. x \in Sources /\ \A y \in Sources \ {x} : IsComplete(y)' <=> IsComplete(y)
  BY DEF OneTree, IsComplete
<1>2. B = A \/ (x \notin A /\ B = A \cup {x}) \/ (x \in A /\ B = A \ {x})
  BY <1>1
<1>3. current # None => \E s \in Variants : <<current, s>> \in B
  BY DEF VersionComplete, Sources
<1>4. CASE B = A
  BY <1>4 DEF Promised, Promise!promise
<1>5. CASE x \notin A /\ B = A \cup {x}
  <2>1. Promise!Publish
    BY <1>1, <1>5 DEF Promise!Publish, Promise!Sources, Sources
  <2> QED BY <2>1 DEF Promised, Promise!Next
<1>6. CASE x \in A /\ B = A \ {x}
  <2>1. Promise!Retire
    BY <1>3, <1>6 DEF Promise!Retire, Promise!Available
  <2> QED BY <2>1 DEF Promised, Promise!Next
<1> QED BY <1>2, <1>4, <1>5, <1>6

\* Nothing changes but what is selected.
LEMMA SamePromised ==
  ASSUME UNCHANGED tree,
         \/ UNCHANGED current
         \/ current' = None
         \/ current' \in Versions /\ VersionComplete(current')
  PROVE  Promised
<1>1. {y \in Sources : IsComplete(y)}' = {y \in Sources : IsComplete(y)}
  BY DEF IsComplete
<1>2. CASE UNCHANGED current
  BY <1>1, <1>2 DEF Promised, Promise!promise
<1>3. CASE current' = None
  BY <1>1, <1>3 DEF Promised, Promise!Next, Promise!Deselect
<1>4. CASE current' \in Versions /\ VersionComplete(current')
  <2>1. Promise!Available(current')
    BY <1>4 DEF Promise!Available, VersionComplete, Sources
  <2>2. Promise!Select
    BY <1>1, <1>4, <2>1 DEF Promise!Select
  <2> QED BY <2>2 DEF Promised, Promise!Next
<1> QED BY <1>2, <1>3, <1>4

LEMMA PromisedStep ==
  ASSUME OneTerminal, NoRepair, TypeInv, AloneInv, SelectInv, SelectInv', NEW p \in Procs, Step(p)
  PROVE  Promised
<1>0. /\ current \in Versions \cup {None}
      /\ current' # None => VersionComplete(current)'
  BY DEF TypeInv, TypeOK, SelectInv, Selects
<1>1. CASE InstallStep(p)
  <2>1. UNCHANGED current /\ (UNCHANGED tree \/ \E x : OneTree(x))
    BY <1>1, InstallOne DEF AloneInv
  <2>2. current # None => VersionComplete(current)'
    BY <1>0, <2>1 DEF VersionComplete, IsComplete
  <2> QED BY <1>0, <2>1, <2>2, OnePromised, SamePromised
<1>2. CASE UseStep(p)
  <2>1. UNCHANGED tree
    BY <1>2 DEF UseStep, ReadMarker, RefuseMarked, ReadRest, PreSwitch, AfterHook,
                SwitchCurrent, WritePin, PostSwitch, store
  <2>2. CASE SwitchCurrent(p)
    <3>1. current' = job[p].ver /\ pc[p] = "u_switch"
      BY <2>2 DEF SwitchCurrent
    <3>2. job[p].ver \in Versions /\ VersionComplete(job[p].ver)
      BY <3>1 DEF SelectInv, Selects, TypeInv, JobOK, WithVersion
    <3> QED BY <2>1, <3>1, <3>2, SamePromised
  <2>3. CASE ~ SwitchCurrent(p)
    <3>1. UNCHANGED current
      BY <1>2, <2>3 DEF UseStep, ReadMarker, RefuseMarked, ReadRest, PreSwitch, AfterHook, WritePin,
                        PostSwitch, selection
    <3> QED BY <2>1, <3>1, SamePromised
  <2> QED BY <2>2, <2>3
<1>3. CASE RemoveStep(p)
  <2>1. UNCHANGED current /\ (UNCHANGED tree \/ \E x : OneTree(x))
    BY <1>3, RemoveOne
  <2>2. current # None => VersionComplete(current)'
    BY <1>0, <2>1 DEF VersionComplete, IsComplete
  <2> QED BY <1>0, <2>1, <2>2, OnePromised, SamePromised
<1>4. CASE RemoveAllStep(p)
  <2>1. CASE UNCHANGED tree
    BY <1>4, <2>1, AloneRemoveAll, SamePromised DEF AloneInv
  <2>2. CASE \E x : OneTree(x) /\ current = None /\ current' = None
    BY <1>0, <2>2, OnePromised
  <2> QED BY <1>4, <2>1, <2>2, RemoveAllOne DEF AloneInv
<1> QED BY <1>1, <1>2, <1>3, <1>4 DEF Step

LEMMA PromisedNext ==
  ASSUME OneTerminal, NoRepair, TypeInv, AloneInv, SelectInv, SelectInv', [Next]_vars
  PROVE  Promised
<1>1. ASSUME NEW p \in Procs, Step(p) PROVE Promised
  BY <1>1, PromisedStep
<1>2. CASE UNCHANGED <<tree, current>>
  BY <1>2, SamePromised
<1> QED BY <1>1, <1>2, StartGoes, HookGoes
        DEF Next, AllDone, vars, Crash, store, selection

\* In one terminal, and without repairs, the store keeps its promise: sources
\* appear and go one at a time, and what is selected is available.
THEOREM PromiseCorrect == ASSUME OneTerminal, NoRepair PROVE Spec => KeepsPromise
<1>1. Init => AloneInv /\ SelectInv
  BY AloneInit DEF Init, SelectInv, Selects
<1>2. TypeInv /\ AloneInv /\ SelectInv /\ [Next]_vars => AloneInv' /\ SelectInv'
  BY AloneNext, SelectNext
<1>3. Init => Promise!Init
  BY DEF Init, Promise!Init, Promise!Sources, Sources
<1>4. TypeInv /\ AloneInv /\ SelectInv /\ SelectInv' /\ [Next]_vars
        => [Promise!Next]_(Promise!promise)
  BY PromisedNext DEF Promised
<1> QED BY <1>1, <1>2, <1>3, <1>4, LocksHeld, PTL DEF Spec, KeepsPromise, Promise!Spec

-----------------------------------------------------------------------------
(* One terminal among installs.  What it selects stands as well when other   *)
(* processes install, as long as their installs are neither killed nor fail: *)
(* their cleanup would take a new version's directory from under a use.      *)

AmongInstalls(u) ==
  /\ NoOlderOvm
  /\ Ops[u] \subseteq {"install", "use", "uninstallAll"}
  /\ \A p \in Procs \ {u} : Ops[p] \subseteq {"install"} /\ p \notin Unreliable

Aborting == {"a_retire", "a_discard", "a_version"}

AmongInv(u) ==
  /\ Rooted /\ ProductInv /\ CurrentNeverDangles
  /\ Alone(u) /\ pc[u] \in {"idle"} \cup InstallPCs \cup UsePCs \cup RemoveAllPCs
  /\ \A p \in Procs : Work(p) /\ Fresh(p)
  /\ \A p \in Procs \ {u} : pc[p] \in ({"idle"} \cup InstallPCs) \ Aborting

\* An install that nothing disturbs succeeds.
LEMMA InstallSucceeds ==
  ASSUME TypeInv, NEW p \in Procs, p \notin Unreliable, Work(p), pc[p] \notin Aborting,
         InstallStep(p)
  PROVE  pc'[p] \in ({"idle"} \cup InstallPCs) \ Aborting
<1>1. pc'[p] \in {"idle"} \cup InstallPCs
  BY InstallGoes
<1>2. ~ InstallFails(p)
  BY DEF InstallFails, RootIsOurs, Work
<1>3. pc'[p] \notin Aborting
  BY <1>2, EndApart
     DEF InstallStep, LockProduct, LockVersion, BlockOnVersion, RefuseOwnHook,
         AwaitVersion, TakeVersionLock, Reuse, BeginTransaction, PreInstall, AfterHook,
         PrepareRetire, PrepareCreate, PrepareMark, PrepareDiscard, Fetch, Publish, Unmark,
         PostInstall, AbortRetire, AbortDiscard, AbortVersion, Goto, Aborting, TypeInv, TypeOK
<1> QED BY <1>1, <1>3

\* The trees of an install are its own, also beside the terminal.
LEMMA AmongWork ==
  ASSUME NEW u \in Procs, AmongInstalls(u), TypeInv, LockInv, AmongInv(u),
         NEW p \in Procs, Step(p), Apart(p), NEW q \in Procs
  PROVE  Work(q)' /\ Fresh(q)'
<1>1. CASE q = p
  BY <1>1, WorkOwn DEF AmongInv
<1>2. CASE q # p
  <2>1. SUFFICES ASSUME pc[q] \in Transaction, NEW x \in Sources, x[1] = job[q].ver,
                        tree'[x] # tree[x]
                 PROVE  FALSE
    BY <1>2, WorkFrame DEF Apart, AmongInv
  <2>2. Writes(p, job[q].ver)
    BY <2>1, WritesWhere
  <2>3. CASE pc[p] \in MassRemoval
    BY <2>1, <2>3, ConstantsAssumption
       DEF AmongInstalls, NoOlderOvm, AmongInv, ProductInv, ProductHeld, Installing
  <2>4. CASE pc[p] \notin MassRemoval
    <3>1. pc[p] \in Transaction /\ job[p].ver = job[q].ver
      BY <2>2, <2>4
         DEF AmongInv, Writes, Writing, Removing, InstallPCs, UsePCs, RemoveAllPCs,
             MassRemoval, Sweeping, Locking, Installing, Transaction
    <3> QED BY <1>2, <2>1, <3>1 DEF LockInv, InstallHolds, Installing
  <2> QED BY <2>3, <2>4
<1> QED BY <1>1, <1>2

LEMMA AmongStep ==
  ASSUME NEW u \in Procs, AmongInstalls(u), TypeInv, LockInv, AmongInv(u), ProductInv',
         NEW p \in Procs, Step(p)
  PROVE  AmongInv(u)'
<1>1. Apart(p) /\ Rooted'
  BY InstallApart, OtherApart, RootedStep DEF Step, AmongInv
<1>2. \A q \in Procs : Work(q)' /\ Fresh(q)'
  BY <1>1, AmongWork
<1>3. ASSUME p # u
      PROVE  /\ CurrentNeverDangles' /\ Alone(u)' /\ pc'[u] = pc[u]
             /\ pc'[p] \in ({"idle"} \cup InstallPCs) \ Aborting
  <2>1. InstallStep(p)
    BY <1>3, RemovesOnly
       DEF Step, AmongInv, UseStep, ReadMarker, RefuseMarked, ReadRest, PreSwitch, AfterHook,
           SwitchCurrent, WritePin, PostSwitch, InstallPCs, Locking, Installing, Transaction
  <2>2. pc[p] \notin Aborting /\ p \notin Unreliable
    BY <1>3 DEF AmongInstalls, AmongInv
  <2>3. UNCHANGED current /\ versionDir \subseteq versionDir'
    BY <2>1, <2>2
       DEF InstallStep, LockProduct, LockVersion, BlockOnVersion, RefuseOwnHook,
           AwaitVersion, Reuse, BeginTransaction, PreInstall, AfterHook, PrepareRetire, RetireRoot,
           PrepareCreate, PrepareMark, PrepareDiscard, Fetch, Publish, Unmark, PostInstall,
           InstallFails, AbortRetire, AbortDiscard, AbortVersion, Aborting, store, selection
  <2>4. /\ pc'[u] = pc[u] /\ job'[u].ver = job[u].ver /\ job'[u].existed = job[u].existed
        /\ job'[u].todo = job[u].todo
    BY <1>1, <1>3 DEF Apart
  <2>5. CurrentNeverDangles' /\ Alone(u)'
    BY <2>3, <2>4 DEF AmongInv, CurrentNeverDangles, Alone
  <2> QED BY <2>1, <2>2, <2>4, <2>5, InstallSucceeds DEF AmongInv
<1>4. ASSUME p = u
      PROVE  /\ CurrentNeverDangles' /\ Alone(u)'
             /\ pc'[u] \in {"idle"} \cup InstallPCs \cup UsePCs \cup RemoveAllPCs
  <2>1. InstallStep(u) \/ UseStep(u) \/ RemoveAllStep(u)
    BY <1>4 DEF Step, AmongInv, RemoveStep, NextPlanned, PlanDone, CheckUninstall, PreUninstall,
           RemoveVersion, PostUninstall, AfterHook, NextArchived, ArchiveVersion,
           InstallPCs, UsePCs, RemoveAllPCs, MassRemoval, Sweeping, Locking, Installing, Transaction
  <2>2. CASE InstallStep(u)
    BY <2>2, AloneInstall, InstallGoes DEF AmongInv
  <2>3. CASE UseStep(u)
    BY <2>3, AloneUse, UseGoes DEF AmongInv
  <2>4. CASE RemoveAllStep(u)
    BY <2>4, AloneRemoveAll, RemoveAllGoes DEF AmongInv
  <2> QED BY <2>1, <2>2, <2>3, <2>4
<1>5. \A q \in Procs \ {u} : pc'[q] \in ({"idle"} \cup InstallPCs) \ Aborting
  BY <1>1, <1>3 DEF Apart, AmongInv
<1> QED BY <1>1, <1>2, <1>3, <1>4, <1>5 DEF AmongInv

LEMMA AmongFrame ==
  ASSUME NEW u \in Procs, TypeInv, AmongInv(u), ProductInv', NEW p \in Procs, Apart(p),
         UNCHANGED <<store, current>>,
         \/ pc'[p] \in {"idle", "i_product"}
         \/ p = u /\ pc'[p] = "r_product"
         \/ p = u /\ pc'[p] = "u_marker" /\ job'[p].ver \in versionDir
  PROVE  AmongInv(u)'
<1>1. Rooted' /\ CurrentNeverDangles'
  BY DEF AmongInv, store, Rooted, CurrentNeverDangles
<1>2. ASSUME NEW q \in Procs PROVE Work(q)' /\ Fresh(q)'
  <2>1. CASE q = p
    BY <2>1 DEF Work, Fresh, Transaction
  <2>2. CASE q # p
    BY <2>2, WorkFrame DEF AmongInv, store, Apart
  <2> QED BY <2>1, <2>2
<1>3. Alone(u)' /\ pc'[u] \in {"idle"} \cup InstallPCs \cup UsePCs \cup RemoveAllPCs
  <2>1. CASE u = p
    BY <2>1 DEF store, Alone, InstallPCs, UsePCs, RemoveAllPCs, Sweeping, Transaction
  <2>2. CASE u # p
    BY <2>2 DEF AmongInv, Apart, Alone, store
  <2> QED BY <2>1, <2>2
<1>4. \A q \in Procs \ {u} : pc'[q] \in ({"idle"} \cup InstallPCs) \ Aborting
  BY DEF AmongInv, Apart, InstallPCs, Aborting
<1> QED BY <1>1, <1>2, <1>3, <1>4 DEF AmongInv

LEMMA AmongNext ==
  ASSUME NEW u \in Procs, AmongInstalls(u), TypeInv, LockInv, AmongInv(u), [Next]_vars
  PROVE  AmongInv(u)'
<1> USE DEF selection
<1>0. ProductInv'
  BY ProductNext DEF AmongInv
<1>1. ASSUME NEW p \in Procs, StartCommand(p) PROVE AmongInv(u)'
  <2>1. StartInstall(p) \/ (p = u /\ (StartUse(p) \/ StartUninstallAll(p)))
    <3>1. Ops[p] \subseteq {"install", "use", "uninstallAll"}
          /\ (p # u => Ops[p] \subseteq {"install"})
      BY DEF AmongInstalls
    <3> QED BY <1>1, <3>1
            DEF StartCommand, CanStart, StartUse, StartUninstall, StartCleanup, StartArchive,
                StartArchiveBelow, StartUninstallAll
  <2>2. Apart(p) /\ UNCHANGED <<store, current>>
    BY <1>1, StartGoes
  <2>3. CASE StartInstall(p) \/ (p = u /\ StartUninstallAll(p))
    BY <1>0, <2>2, <2>3, AmongFrame, StartApart DEF StartInstall, StartUninstallAll
  <2>4. CASE p = u /\ StartUse(p)
    <3>1. PICK v \in versionDir, latest \in BOOLEAN :
            Start(p, "u_marker", [NoJob EXCEPT !.ver = v, !.follow = latest])
      BY <2>4 DEF StartUse
    <3> DEFINE j == [NoJob EXCEPT !.ver = v, !.follow = latest]
    <3>2. j.ver = v
      BY DEF NoJob
    <3>3. Start(p, "u_marker", j)
      BY <3>1
    <3> HIDE DEF j
    <3>4. pc'[p] = "u_marker" /\ job'[p].ver \in versionDir
      BY <3>2, <3>3, StartApart
    <3> QED BY <1>0, <2>2, <2>4, <3>4, AmongFrame
  <2> QED BY <2>1, <2>3, <2>4
<1>2. ASSUME NEW p \in Procs, NEW q \in Procs, HookInstall(p, q) PROVE AmongInv(u)'
  BY <1>0, <1>2, HookGoes, AmongFrame
<1>3. ASSUME NEW p \in Procs, Crash(p) PROVE AmongInv(u)'
  BY <1>0, <1>3, EndApart, AmongFrame DEF Crash
<1>4. ASSUME NEW p \in Procs, Step(p) PROVE AmongInv(u)'
  BY <1>0, <1>4, AmongStep
<1>5. CASE UNCHANGED vars
  <2>1. ASSUME NEW p \in Procs PROVE Work(p)' /\ Fresh(p)'
    BY <1>5 DEF vars, control, store, AmongInv, Work, Fresh, NeedsInstall, IsComplete, At
  <2> QED BY <1>0, <1>5, <2>1 DEF vars, control, store, AmongInv, Rooted, CurrentNeverDangles, Alone
<1> QED BY <1>1, <1>2, <1>3, <1>4, <1>5 DEF Next, AllDone

\* The version `current` names has its directory, whatever one terminal selects
\* or removes while others install.
THEOREM NeverDanglesAmongInstalls ==
  ASSUME NEW u \in Procs, AmongInstalls(u)
  PROVE  Spec => []CurrentNeverDangles
<1>1. Init => AmongInv(u)
  <2> SUFFICES ASSUME Init PROVE AmongInv(u)
    OBVIOUS
  <2>1. \A p \in Procs : pc[p] = "idle" /\ Work(p) /\ Fresh(p) /\ Alone(p)
    BY AloneIdle DEF Init
  <2> QED BY <2>1, RootedInit, ProductInit DEF Init, AmongInv, CurrentNeverDangles, Aborting
<1>2. TypeInv /\ LockInv /\ AmongInv(u) /\ [Next]_vars => AmongInv(u)'
  BY AmongNext
<1>3. AmongInv(u) => CurrentNeverDangles
  BY DEF AmongInv
<1> QED BY <1>1, <1>2, <1>3, LocksHeld, PTL DEF Spec
=============================================================================

------------------------ MODULE SelfUninstallProofs ------------------------
(* Theorems about SelfUninstall, for every value of its constants.         *)
EXTENDS SelfUninstall, TLAPS

-----------------------------------------------------------------------------
(* The inductive invariant.                                                *)

FilesOK ==
  /\ at \in Contents /\ profile \in [Profiles -> Texts]
  /\ outside \in Layouts /\ hidden \in Unreadable
  /\ stray \subseteq used /\ returned \subseteq used /\ used \subseteq Objects
CountsOK == runs \in 0..MaxRuns /\ changes \in 0..MaxChanges /\ faults \in 0..MaxFaults

\* Of a command at l with locals j: what it has aside, and when.
JobFits(l, j) ==
  /\ l \in {"move", "delete", "back"} => j.item \in Paths
  /\ l = "rewrite" => j.item \in Profiles
  /\ l \notin {"delete", "back"} => \A q \in Paths : j.aside[q] = None
  /\ l \in {"delete", "back"} =>
       /\ j.aside[j.item] # None
       /\ \A q \in Paths : j.aside[q] # None => q \in Within(j.item)
       /\ \A q \in Paths, r \in Paths : j.aside[q] = j.aside[r] /\ j.aside[q] # None => q = r
  /\ l = "delete" => j.aside[j.item] = j.plan[j.item]

ProcsOK ==
  /\ pc \in [Procs -> PCs] /\ job \in [Procs -> Job]
  /\ \A p \in Procs : JobFits(pc[p], job[p])

\* Every object lies in one place: at a path, aside, or among what was left.
AtApart == \A q \in Paths : at[q] # None => at[q] \in used /\ at[q] \notin stray
KeptApart ==
  \A p \in Procs, r \in Paths : job[p].aside[r] # None =>
    /\ job[p].aside[r] \in used /\ job[p].aside[r] \notin stray
    /\ \A q \in Paths : at[q] # job[p].aside[r]
KeptDistinct ==
  \A p \in Procs, q \in Procs : p # q =>
    \A r \in Paths, s \in Paths : job[p].aside[r] # None => job[p].aside[r] # job[q].aside[s]
Apart == WellFormed(at, outside) /\ AtApart /\ KeptApart /\ KeptDistinct

\* Of a command at l with locals j, while c lies at the paths, u is used and b came
\* back: what it found of ovm's, and that lies there still, it has failed on or will
\* come to.
FoundFits(l, j, c, u, b) ==
  /\ j.there \subseteq u
  /\ \A path \in Paths :
       c[path] \in j.there /\ c[path] \notin b =>
         \/ j.failed
         \/ path \in j.todo /\ (l = "delete" => path # j.item)
Founds == \A p \in Procs : FoundFits(pc[p], job[p], at, used, returned)

UninstallInv == FilesOK /\ CountsOK /\ ProcsOK /\ Apart /\ Founds

-----------------------------------------------------------------------------
(* What a step does to the commands, and to what lies where.               *)

LEMMA PathsFacts ==
  /\ "self" \in Paths /\ "base" \in Paths /\ "self" \notin Placed /\ "base" \notin Placed
  /\ "ovm" \in Placed /\ Links \subseteq Placed /\ Placed \subseteq Paths
  /\ Paths = Placed \cup {"self", "base"}
  /\ Paths \cap Profiles = {} /\ None \notin Items /\ Items = Profiles \cup Paths
  /\ None \notin Objects /\ Own \subseteq Objects /\ Alien \subseteq Objects
BY ConstantsAssumption DEF Paths, Placed, Items, Objects

LEMMA OutsideFacts ==
  ASSUME FilesOK
  PROVE  /\ outside \subseteq Placed /\ hidden \subseteq Placed
         /\ "base" \in Paths \ outside /\ "self" \in Paths \ outside
         /\ \A path \in Paths : path \in Within(path) /\ Within(path) \subseteq Paths
BY PathsFacts, ConstantsAssumption DEF FilesOK, Within

LEMMA NoJobFacts ==
  /\ NoJob \in Job /\ NoJob.plan = Nothing /\ NoJob.todo = {} /\ NoJob.item = None
  /\ NoJob.aside = Nothing /\ NoJob.lock = None /\ NoJob.failed = FALSE /\ NoJob.there = {}
  /\ Nothing \in Contents /\ \A q \in Paths : Nothing[q] = None
BY DEF NoJob, Job, Nothing, Contents, ObjectOrNone

\* A command moves to l with locals j, the others stay where they are.
Moves(p, l, j) ==
  /\ pc' \in [Procs -> PCs] /\ job' \in [Procs -> Job]
  /\ pc'[p] = l /\ job'[p] = j
  /\ \A q \in Procs \ {p} : pc'[q] = pc[q] /\ job'[q] = job[q]

LEMMA GoMoves ==
  ASSUME ProcsOK, NEW p \in Procs, NEW l \in PCs, NEW j \in Job, Go(p, l, j)
  PROVE  Moves(p, l, j)
BY DEF ProcsOK, Go, Moves

LEMMA ProcsMove ==
  ASSUME ProcsOK, NEW p \in Procs, NEW l \in PCs, NEW j \in Job,
         Moves(p, l, j), JobFits(l, j), UNCHANGED outside
  PROVE  ProcsOK'
<1>1. \A q \in Procs : JobFits(pc'[q], job'[q])
  BY DEF ProcsOK, Moves
<1>2. \A q \in Procs : JobFits(pc[q], job[q])'
  BY <1>1 DEF JobFits, Within
<1> QED BY <1>2 DEF ProcsOK, Moves

\* Nothing new lies anywhere, but for what came back.
FilesMove ==
  /\ \A q \in Paths : at'[q] = at[q] \/ at'[q] = None \/ at'[q] \notin used \/ at'[q] \in returned'
  /\ used \subseteq used' /\ returned \subseteq returned'

LEMMA FoundsMove ==
  ASSUME FilesOK, Founds, FilesMove, NEW p \in Procs, NEW l \in PCs, NEW j \in Job,
         Moves(p, l, j), FoundFits(l, j, at', used', returned')
  PROVE  Founds'
<1>1. ASSUME NEW q \in Procs \ {p}
      PROVE  FoundFits(pc[q], job[q], at', used', returned')
  BY <1>1, PathsFacts DEF FilesOK, Founds, FoundFits, FilesMove
<1> QED BY <1>1 DEF Founds, Moves

LEMMA FoundsStay ==
  ASSUME FilesOK, Founds, FilesMove, UNCHANGED <<pc, job>>
  PROVE  Founds'
BY PathsFacts DEF FilesOK, Founds, FoundFits, FilesMove

LEMMA ApartStays ==
  ASSUME Apart, NEW p \in Procs, NEW l \in PCs, NEW j \in Job, Moves(p, l, j),
         \A q \in Paths : j.aside[q] = job[p].aside[q] \/ j.aside[q] = None,
         UNCHANGED <<at, outside, stray, used>>
  PROVE  Apart'
<1>1. \A r \in Procs, q \in Paths : job'[r].aside[q] = job[r].aside[q] \/ job'[r].aside[q] = None
  BY DEF Moves
<1>2. WellFormed(at, outside)' /\ AtApart'
  BY DEF Apart, WellFormed, AtApart
<1>3. KeptApart'
  BY <1>1 DEF Apart, KeptApart
<1>4. KeptDistinct'
  BY <1>1 DEF Apart, KeptDistinct
<1> QED BY <1>2, <1>3, <1>4 DEF Apart

LEMMA ApartLeaves ==
  ASSUME Apart, NEW p \in Procs, NEW l \in PCs, NEW j \in Job, Moves(p, l, j),
         \A q \in Paths : j.aside[q] = None,
         stray' = stray \cup Left(job[p].aside), UNCHANGED <<at, outside, used>>
  PROVE  Apart'
<1>1. \A r \in Procs \ {p} : job'[r].aside = job[r].aside
  BY DEF Moves
<1>2. \A q \in Paths : job'[p].aside[q] = None
  BY DEF Moves
<1>3. WellFormed(at, outside)' /\ AtApart'
  BY DEF Apart, WellFormed, AtApart, KeptApart, Left
<1>4. KeptApart'
  BY <1>1, <1>2 DEF Apart, KeptApart, KeptDistinct, Left
<1>5. KeptDistinct'
  BY <1>1, <1>2 DEF Apart, KeptDistinct
<1> QED BY <1>3, <1>4, <1>5 DEF Apart

LEMMA ApartGains ==
  ASSUME Apart, FilesOK, used \subseteq used',
         \A p \in Procs, q \in Paths : job'[p].aside[q] = job[p].aside[q],
         \A q \in Paths : at'[q] # None => at'[q] \in used' /\ (at'[q] = at[q] \/ at'[q] \notin used),
         WellFormed(at', outside), UNCHANGED <<outside, stray>>
  PROVE  Apart'
<1>1. WellFormed(at, outside)' /\ AtApart'
  BY DEF Apart, WellFormed, AtApart, FilesOK
<1>2. KeptApart'
  BY DEF Apart, KeptApart
<1>3. KeptDistinct'
  BY DEF Apart, KeptDistinct
<1> QED BY <1>1, <1>2, <1>3 DEF Apart

-----------------------------------------------------------------------------
(* Steps that move no file.                                                *)

LEMMA LocalStep ==
  ASSUME UninstallInv, NEW p \in Procs, NEW l \in PCs, NEW j \in Job, Go(p, l, j),
         UNCHANGED <<files, layout, stray, history>>, CountsOK', JobFits(l, j),
         \A q \in Paths : j.aside[q] = job[p].aside[q] \/ j.aside[q] = None,
         FoundFits(l, j, at, used, returned)
  PROVE  UninstallInv'
<1>0. UNCHANGED <<at, profile, outside, hidden, stray, used, returned>>
  BY DEF files, layout, history
<1>1. Moves(p, l, j)
  BY GoMoves DEF UninstallInv
<1>2. FilesOK'
  BY <1>0 DEF UninstallInv, FilesOK
<1>3. ProcsOK'
  BY <1>0, <1>1, ProcsMove DEF UninstallInv
<1>4. Apart'
  BY <1>0, <1>1, ApartStays DEF UninstallInv
<1>5. Founds'
  <2>1. FilesMove
    BY <1>0 DEF FilesMove
  <2>2. FoundFits(l, j, at', used', returned')
    BY <1>0
  <2> QED BY <1>1, <2>1, <2>2, FoundsMove DEF UninstallInv
<1> QED BY <1>2, <1>3, <1>4, <1>5 DEF UninstallInv

\* A command that gives up what it has aside: End, Fault.
LEMMA LeaveStep ==
  ASSUME UninstallInv, NEW p \in Procs, NEW l \in PCs, NEW j \in Job, Go(p, l, j),
         l \notin {"move", "rewrite", "delete", "back"}, j.aside = Nothing,
         stray' = stray \cup Left(job[p].aside),
         UNCHANGED <<files, layout, history>>, CountsOK',
         FoundFits(l, j, at, used, returned)
  PROVE  UninstallInv'
<1>0. UNCHANGED <<at, profile, outside, hidden, used, returned>>
  BY DEF files, layout, history
<1>1. Moves(p, l, j)
  BY GoMoves DEF UninstallInv
<1>2. \A q \in Paths : j.aside[q] = None
  BY NoJobFacts
<1>3. FilesOK'
  <2>1. Left(job[p].aside) \subseteq used
    BY DEF UninstallInv, Apart, KeptApart, Left
  <2> QED BY <1>0, <2>1 DEF UninstallInv, FilesOK
<1>4. ProcsOK'
  <2>1. JobFits(l, j)
    BY <1>2 DEF JobFits
  <2> QED BY <1>0, <1>1, <2>1, ProcsMove DEF UninstallInv
<1>5. Apart'
  BY <1>0, <1>1, <1>2, ApartLeaves DEF UninstallInv
<1>6. Founds'
  <2>1. FilesMove
    BY <1>0 DEF FilesMove
  <2>2. FoundFits(l, j, at', used', returned')
    BY <1>0
  <2> QED BY <1>1, <2>1, <2>2, FoundsMove DEF UninstallInv
<1> QED BY <1>3, <1>4, <1>5, <1>6 DEF UninstallInv

LEMMA EndStep ==
  ASSUME UninstallInv, NEW p \in Procs, End(p), UNCHANGED <<files, layout, history>>, CountsOK'
  PROVE  UninstallInv'
<1>1. FoundFits("idle", NoJob, at, used, returned)
  BY NoJobFacts DEF FoundFits
<1>2. "idle" \in PCs
  BY DEF PCs
<1> QED BY <1>1, <1>2, NoJobFacts, LeaveStep DEF End

\* The next control point, the locals as they are.
LEMMA OnStep ==
  ASSUME UninstallInv, NEW p \in Procs, NEW l \in PCs, Go(p, l, job[p]),
         pc[p] \notin {"delete", "back"}, l \notin {"move", "rewrite", "delete", "back"},
         UNCHANGED <<files, layout, stray, history>>, CountsOK'
  PROVE  UninstallInv'
<1>1. job[p] \in Job /\ JobFits(pc[p], job[p]) /\ FoundFits(pc[p], job[p], at, used, returned)
  BY DEF UninstallInv, ProcsOK, Founds
<1>2. JobFits(l, job[p])
  BY <1>1 DEF JobFits
<1>3. FoundFits(l, job[p], at, used, returned)
  BY <1>1 DEF FoundFits
<1> QED BY <1>1, <1>2, <1>3, LocalStep

LEMMA CountsStay ==
  ASSUME CountsOK, UNCHANGED counters
  PROVE  CountsOK'
BY DEF CountsOK, counters

\* What a command that begins has found lies in its plan, or is a failure already.
LEMMA PlanStep ==
  ASSUME UninstallInv, NEW p \in Procs, NEW purge \in BOOLEAN, Plan(p, purge),
         UNCHANGED <<files, layout, stray, history>>, CountsOK'
  PROVE  UninstallInv'
<1> DEFINE todo == {f \in Profiles : profile[f] \in Suspect}
                   \cup {path \in Paths : Planned(purge)[path] # None}
           j == [NoJob EXCEPT !.plan = Planned(purge), !.failed = Blind, !.there = Expected,
                              !.todo = todo]
<1>1. Planned(purge) \in Contents /\ Blind \in BOOLEAN /\ Expected \subseteq Objects
      /\ todo \subseteq Items /\ Expected \subseteq used
  BY PathsFacts DEF Planned, Blind, Expected, UninstallInv, FilesOK, Contents, ObjectOrNone, Apart, AtApart
<1>2. Go(p, "confirm", j)
  BY DEF Plan
<1>3. j \in Job /\ j.aside = Nothing /\ j.there = Expected /\ j.failed = Blind /\ j.todo = todo
  BY <1>1, NoJobFacts DEF Job
<1>4. ASSUME NEW path \in Paths, at[path] \in Expected, ~ Blind
      PROVE  path \in todo
  <2>1. at[path] \in Own /\ at[path] # None
    BY <1>4, PathsFacts DEF Expected
  <2>2. path \in Placed \cup {"self"} /\ Visible(path)
    BY <1>4, <2>1, PathsFacts DEF Expected, UninstallInv, Apart, WellFormed
  <2>3. path = "self" \/ (path \in Placed \ hidden /\ IsManaged(path))
    BY <1>4, <2>1, <2>2 DEF Blind, IsManaged, Visible
  <2>4. Planned(purge)[path] = at[path]
    BY <2>2, <2>3 DEF Planned
  <2> QED BY <2>1, <2>4
<1> HIDE DEF j, todo
<1>5. FoundFits("confirm", j, at, used, returned)
  BY <1>1, <1>3, <1>4 DEF FoundFits
<1>6. JobFits("confirm", j) /\ \A q \in Paths : j.aside[q] = None
  BY <1>3, NoJobFacts DEF JobFits
<1>7. "confirm" \in PCs
  BY DEF PCs
<1> QED BY <1>2, <1>3, <1>5, <1>6, <1>7, LocalStep

LEMMA BeginKeeps ==
  ASSUME UninstallInv, NEW p \in Procs, Begin(p)
  PROVE  UninstallInv'
<1>1. CountsOK'
  BY ConstantsAssumption DEF UninstallInv, CountsOK, Begin
<1> QED BY <1>1, PlanStep DEF Begin

LEMMA CancelKeeps ==
  ASSUME UninstallInv, NEW p \in Procs, Cancel(p) \/ UpdateEnds(p) \/ TimesOut(p) \/ Finish(p)
  PROVE  UninstallInv'
<1>1. CountsOK'
  BY CountsStay DEF UninstallInv, Cancel, UpdateEnds, TimesOut, Finish
<1> QED BY <1>1, EndStep DEF Cancel, UpdateEnds, TimesOut, Finish

LEMMA KillKeeps ==
  ASSUME UninstallInv, NEW p \in Procs, Kill(p)
  PROVE  UninstallInv'
<1>1. CountsOK'
  BY ConstantsAssumption DEF UninstallInv, CountsOK, Kill
<1> QED BY <1>1, EndStep DEF Kill

LEMMA LockKeeps ==
  ASSUME UninstallInv, NEW p \in Procs, Lock(p) \/ UpdateLocks(p)
  PROVE  UninstallInv'
<1>1. CountsOK'
  BY CountsStay DEF UninstallInv, Lock, UpdateLocks
<1>2. "check" \in PCs /\ "u_work" \in PCs
  BY DEF PCs
<1>3. CASE Lock(p)
  BY <1>1, <1>2, <1>3, OnStep DEF Lock
<1>4. CASE UpdateLocks(p)
  BY <1>1, <1>2, <1>4, OnStep DEF UpdateLocks
<1> QED BY <1>3, <1>4

LEMMA RevalidateKeeps ==
  ASSUME UninstallInv, NEW p \in Procs, Revalidate(p)
  PROVE  UninstallInv'
<1>1. CountsOK'
  BY CountsStay DEF UninstallInv, Revalidate
<1>2. CASE Go(p, "next", job[p]) /\ UNCHANGED stray
  <2>1. "next" \in PCs
    BY DEF PCs
  <2> QED BY <1>1, <1>2, <2>1, OnStep DEF Revalidate
<1>3. CASE End(p)
  BY <1>1, <1>3, EndStep DEF Revalidate
<1> QED BY <1>2, <1>3 DEF Revalidate

\* An item that is done did not lie there, or was no path.
LEMMA DoneStep ==
  ASSUME UninstallInv, NEW p \in Procs, NEW i \in Items, Done(p, i),
         pc[p] \notin {"delete", "back"}, i \in Paths => at[i] \notin job[p].there,
         UNCHANGED <<files, layout, stray, history>>, CountsOK'
  PROVE  UninstallInv'
<1> DEFINE j == [job[p] EXCEPT !.todo = @ \ {i}, !.item = None]
<1>1. job[p] \in Job /\ JobFits(pc[p], job[p]) /\ FoundFits(pc[p], job[p], at, used, returned)
  BY DEF UninstallInv, ProcsOK, Founds
<1>2. j \in Job /\ j.aside = job[p].aside /\ j.there = job[p].there /\ j.failed = job[p].failed
      /\ j.todo = job[p].todo \ {i}
  BY <1>1 DEF Job
<1>3. Go(p, "next", j) /\ "next" \in PCs
  BY DEF Done, PCs
<1> HIDE DEF j
<1>4. JobFits("next", j)
  BY <1>1, <1>2 DEF JobFits
<1>5. FoundFits("next", j, at, used, returned)
  BY <1>1, <1>2 DEF FoundFits
<1> QED BY <1>2, <1>3, <1>4, <1>5, LocalStep

LEMMA FailsStep ==
  ASSUME UninstallInv, NEW p \in Procs, NEW i \in Items \cup {None}, Fails(p, i),
         pc[p] \notin {"delete", "back"},
         UNCHANGED <<files, layout, stray, history>>, CountsOK'
  PROVE  UninstallInv'
<1> DEFINE j == [job[p] EXCEPT !.todo = @ \ {i}, !.item = None, !.failed = TRUE]
<1>1. job[p] \in Job /\ JobFits(pc[p], job[p]) /\ FoundFits(pc[p], job[p], at, used, returned)
  BY DEF UninstallInv, ProcsOK, Founds
<1>2. j \in Job /\ j.aside = job[p].aside /\ j.there = job[p].there /\ j.failed = TRUE
  BY <1>1 DEF Job
<1>3. Go(p, "next", j) /\ "next" \in PCs
  BY DEF Fails, PCs
<1> HIDE DEF j
<1>4. JobFits("next", j)
  BY <1>1, <1>2 DEF JobFits
<1>5. FoundFits("next", j, at, used, returned)
  BY <1>1, <1>2 DEF FoundFits
<1> QED BY <1>2, <1>3, <1>4, <1>5, LocalStep

\* An item is taken up.
LEMMA ItemStep ==
  ASSUME UninstallInv, NEW p \in Procs, NEW i \in Items, NEW l \in {"rewrite", "move"},
         l = "rewrite" => i \in Profiles, l = "move" => i \in Paths,
         Go(p, l, [job[p] EXCEPT !.item = i]), pc[p] = "next",
         UNCHANGED <<files, layout, stray, history>>, CountsOK'
  PROVE  UninstallInv'
<1> DEFINE j == [job[p] EXCEPT !.item = i]
<1>1. job[p] \in Job /\ JobFits(pc[p], job[p]) /\ FoundFits(pc[p], job[p], at, used, returned)
  BY DEF UninstallInv, ProcsOK, Founds
<1>2. j \in Job /\ j.aside = job[p].aside /\ j.there = job[p].there /\ j.failed = job[p].failed
      /\ j.todo = job[p].todo /\ j.item = i
  BY <1>1 DEF Job
<1>3. Go(p, l, j) /\ l \in PCs
  BY DEF PCs
<1> HIDE DEF j
<1>4. JobFits(l, j)
  BY <1>1, <1>2 DEF JobFits
<1>5. FoundFits(l, j, at, used, returned)
  BY <1>1, <1>2 DEF FoundFits
<1> QED BY <1>2, <1>3, <1>4, <1>5, LocalStep

LEMMA ReadProfileKeeps ==
  ASSUME UninstallInv, NEW p \in Procs, NEW f \in Profiles, ReadProfile(p, f)
  PROVE  UninstallInv'
<1>1. CountsOK' /\ UNCHANGED <<files, layout, stray, history>> /\ pc[p] = "next"
  BY CountsStay DEF UninstallInv, ReadProfile
<1>2. f \in Items /\ f \notin Paths
  BY PathsFacts
<1>3. profile[f] = "plain" \/ profile[f] = "odd" \/ profile[f] = "block"
  BY DEF UninstallInv, FilesOK, Texts
<1>4. CASE profile[f] = "plain"
  <2>1. Done(p, f)
    BY <1>4 DEF ReadProfile
  <2> QED BY <1>1, <1>2, <2>1, DoneStep
<1>5. CASE profile[f] = "odd"
  <2>1. Fails(p, f)
    BY <1>5 DEF ReadProfile
  <2> QED BY <1>1, <1>2, <2>1, FailsStep
<1>6. CASE profile[f] = "block"
  <2>1. Go(p, "rewrite", [job[p] EXCEPT !.item = f])
    BY <1>6 DEF ReadProfile
  <2> QED BY <1>1, <1>2, <2>1, ItemStep
<1> QED BY <1>3, <1>4, <1>5, <1>6

LEMMA LookKeeps ==
  ASSUME UninstallInv, NEW p \in Procs, NEW path \in Paths, Look(p, path)
  PROVE  UninstallInv'
<1>1. CountsOK' /\ UNCHANGED <<files, layout, stray, history>> /\ pc[p] = "next"
  BY CountsStay DEF UninstallInv, Look
<1>2. path \in Items
  BY PathsFacts
<1>3. CASE Done(p, path) /\ at[path] = None
  <2>1. at[path] \notin job[p].there
    BY <1>3, PathsFacts DEF UninstallInv, Founds, FoundFits, FilesOK
  <2> QED BY <1>1, <1>2, <1>3, <2>1, DoneStep
<1>4. CASE Fails(p, path)
  BY <1>1, <1>2, <1>4, FailsStep
<1>5. CASE Go(p, "move", [job[p] EXCEPT !.item = path])
  BY <1>1, <1>2, <1>5, ItemStep
<1> QED BY <1>3, <1>4, <1>5 DEF Look

LEMMA MoveFailsKeeps ==
  ASSUME UninstallInv, NEW p \in Procs, MoveFails(p)
  PROVE  UninstallInv'
<1>1. CountsOK' /\ UNCHANGED <<files, layout, stray, history>> /\ pc[p] = "move"
  BY CountsStay DEF UninstallInv, MoveFails
<1>2. job[p].item \in Items
  BY <1>1, PathsFacts DEF UninstallInv, ProcsOK, JobFits
<1> QED BY <1>1, <1>2, FailsStep DEF MoveFails

LEMMA FaultKeeps ==
  ASSUME UninstallInv, NEW p \in Procs, Fault(p)
  PROVE  UninstallInv'
<1>1. CountsOK' /\ UNCHANGED <<files, layout, history>> /\ stray' = stray \cup Left(job[p].aside)
  BY ConstantsAssumption DEF UninstallInv, CountsOK, Fault
<1>2. PICK i \in IF pc[p] = "next" THEN First(job[p].todo) ELSE {job[p].item} :
        Go(p, "next", [job[p] EXCEPT !.todo = @ \ {i}, !.item = None, !.failed = TRUE,
                                     !.aside = Nothing])
  BY DEF Fault
<1> DEFINE j == [job[p] EXCEPT !.todo = @ \ {i}, !.item = None, !.failed = TRUE, !.aside = Nothing]
<1>3. job[p] \in Job /\ FoundFits(pc[p], job[p], at, used, returned)
  BY DEF UninstallInv, ProcsOK, Founds
<1>4. j \in Job /\ j.aside = Nothing /\ j.there = job[p].there /\ j.failed = TRUE
  BY <1>3, NoJobFacts DEF Job
<1>5. Go(p, "next", j) /\ "next" \in PCs
  BY <1>2 DEF PCs
<1> HIDE DEF j
<1>6. FoundFits("next", j, at, used, returned)
  BY <1>3, <1>4 DEF FoundFits
<1> QED BY <1>1, <1>4, <1>5, <1>6, LeaveStep

-----------------------------------------------------------------------------
(* Steps that move files.                                                  *)

\* Somebody puts something new somewhere, or takes something away.
LEMMA NewStep ==
  ASSUME UninstallInv, UNCHANGED <<outside, hidden, stray, returned>>, CountsOK', ProcsOK', Founds',
         \A p \in Procs, q \in Paths : job'[p].aside[q] = job[p].aside[q],
         used \subseteq used', used' \subseteq Objects,
         at' \in Contents, profile' \in [Profiles -> Texts],
         \A q \in Paths : at'[q] # None => at'[q] \in used' /\ (at'[q] = at[q] \/ at'[q] \notin used),
         WellFormed(at', outside)
  PROVE  UninstallInv'
<1>1. FilesOK'
  BY DEF UninstallInv, FilesOK
<1>2. Apart'
  BY ApartGains DEF UninstallInv
<1> QED BY <1>1, <1>2 DEF UninstallInv

\* ... where no command moves.
LEMMA OtherStep ==
  ASSUME UninstallInv, UNCHANGED <<outside, hidden, pc, job, stray, returned>>, CountsOK',
         used \subseteq used', used' \subseteq Objects,
         at' \in Contents, profile' \in [Profiles -> Texts],
         \A q \in Paths : at'[q] # None => at'[q] \in used' /\ (at'[q] = at[q] \/ at'[q] \notin used),
         WellFormed(at', outside)
  PROVE  UninstallInv'
<1>1. ProcsOK'
  BY DEF UninstallInv, ProcsOK, JobFits, Within
<1>2. FilesMove
  BY DEF FilesMove
<1>3. Founds'
  BY <1>2, FoundsStay DEF UninstallInv
<1>4. \A p \in Procs, q \in Paths : job'[p].aside[q] = job[p].aside[q]
  OBVIOUS
<1> QED BY <1>1, <1>3, <1>4, NewStep

\* A new ~/.ovm/self, with a new ~/.ovm if that is gone.
LEMMA NewSelf ==
  ASSUME FilesOK, Apart, at["self"] = None, NEW d \in Fresh(Own),
         NEW b \in IF at["base"] = None THEN Fresh(Own) \ {d} ELSE {at["base"]},
         at' = [at EXCEPT !["self"] = d, !["base"] = b], used' = used \cup {d, b}
  PROVE  /\ used \subseteq used' /\ used' \subseteq Objects /\ at' \in Contents
         /\ \A q \in Paths : at'[q] # None => at'[q] \in used' /\ (at'[q] = at[q] \/ at'[q] \notin used)
         /\ WellFormed(at', outside)
<1>1. d \in Objects /\ d \notin used /\ d # None
  BY PathsFacts DEF Fresh
<1>2. b \in Objects /\ b # None /\ b # d /\ (b = at["base"] \/ b \notin used)
  <2>1. CASE at["base"] = None
    BY <2>1, PathsFacts DEF Fresh
  <2>2. CASE at["base"] # None
    BY <1>1, <2>2, PathsFacts DEF FilesOK, Contents, ObjectOrNone, Apart, AtApart
  <2> QED BY <2>1, <2>2
<1>3. at'["self"] = d /\ at'["base"] = b /\ \A q \in Paths \ {"self", "base"} : at'[q] = at[q]
  BY PathsFacts DEF FilesOK, Contents
<1>4. at' \in Contents
  BY <1>1, <1>2 DEF FilesOK, Contents, ObjectOrNone
<1>5. used' \subseteq Objects
  BY <1>1, <1>2 DEF FilesOK
<1>6. \A q \in Paths : at'[q] # None => at'[q] \in used' /\ (at'[q] = at[q] \/ at'[q] \notin used)
  <2>1. d \in used' /\ b \in used' /\ used \subseteq used'
    OBVIOUS
  <2> QED BY <1>1, <1>2, <1>3, <2>1 DEF Apart, AtApart
<1>7. \A q \in Paths, r \in Paths : at'[q] = at'[r] /\ at'[q] # None => q = r
  BY <1>1, <1>2, <1>3, PathsFacts DEF Apart, AtApart, WellFormed
<1>8. WellFormed(at', outside)
  BY <1>2, <1>3, <1>7 DEF WellFormed
<1> QED BY <1>4, <1>5, <1>6, <1>8

LEMMA MakeSelfKeeps ==
  ASSUME UninstallInv, NEW p \in Procs, NEW l \in {"wait", "u_wait"}, MakeSelf(p, l),
         pc[p] \in {"idle", "confirm"},
         UNCHANGED <<profile, layout, stray, returned>>, CountsOK'
  PROVE  UninstallInv'
<1>1. job[p] \in Job /\ JobFits(pc[p], job[p]) /\ FoundFits(pc[p], job[p], at, used, returned)
  BY DEF UninstallInv, ProcsOK, Founds
<1>2. l \in PCs
  BY DEF PCs
<1>3. ASSUME NEW d \in ObjectOrNone
      PROVE  LET j == [job[p] EXCEPT !.lock = d]
             IN  /\ j \in Job /\ j.aside = job[p].aside /\ j.there = job[p].there
                 /\ j.failed = job[p].failed /\ j.todo = job[p].todo /\ j.item = job[p].item
  BY <1>1 DEF Job
<1>4. CASE at["self"] # None /\ Go(p, l, [job[p] EXCEPT !.lock = at["self"]]) /\ UNCHANGED <<at, used>>
  <2> DEFINE j == [job[p] EXCEPT !.lock = at["self"]]
  <2>1. at["self"] \in ObjectOrNone
    BY PathsFacts DEF UninstallInv, FilesOK, Contents
  <2>2. /\ j \in Job /\ j.aside = job[p].aside /\ j.there = job[p].there
        /\ j.failed = job[p].failed /\ j.todo = job[p].todo /\ j.item = job[p].item
    BY <1>3, <2>1
  <2>3. Go(p, l, j)
    BY <1>4
  <2> HIDE DEF j
  <2>4. JobFits(l, j) /\ FoundFits(l, j, at, used, returned)
    BY <1>1, <2>2 DEF JobFits, FoundFits
  <2> QED BY <1>2, <1>4, <2>2, <2>3, <2>4, LocalStep DEF files, history
<1>5. CASE at["self"] = None
  <2>1. PICK d \in Fresh(Own) :
          \E b \in IF at["base"] = None THEN Fresh(Own) \ {d} ELSE {at["base"]} :
            /\ at' = [at EXCEPT !["self"] = d, !["base"] = b]
            /\ used' = used \cup {d, b}
            /\ Go(p, l, [job[p] EXCEPT !.lock = d])
    BY <1>5 DEF MakeSelf
  <2>2. PICK b \in IF at["base"] = None THEN Fresh(Own) \ {d} ELSE {at["base"]} :
            /\ at' = [at EXCEPT !["self"] = d, !["base"] = b]
            /\ used' = used \cup {d, b}
            /\ Go(p, l, [job[p] EXCEPT !.lock = d])
    BY <2>1
  <2> DEFINE j == [job[p] EXCEPT !.lock = d]
  <2>3. d \in ObjectOrNone
    BY PathsFacts DEF Fresh, ObjectOrNone
  <2>4. /\ j \in Job /\ j.aside = job[p].aside /\ j.there = job[p].there
        /\ j.failed = job[p].failed /\ j.todo = job[p].todo /\ j.item = job[p].item
    BY <1>3, <2>3
  <2>5. Go(p, l, j)
    BY <2>2
  <2> HIDE DEF j
  <2>6. Moves(p, l, j)
    BY <1>2, <2>4, <2>5, GoMoves DEF UninstallInv
  <2>7. /\ used \subseteq used' /\ used' \subseteq Objects /\ at' \in Contents
        /\ \A q \in Paths : at'[q] # None => at'[q] \in used' /\ (at'[q] = at[q] \/ at'[q] \notin used)
        /\ WellFormed(at', outside)
    BY <1>5, <2>2, NewSelf DEF UninstallInv
  <2>8. JobFits(l, j)
    BY <1>1, <2>4 DEF JobFits
  <2>9. ProcsOK'
    BY <1>2, <2>4, <2>6, <2>8, ProcsMove DEF UninstallInv, layout
  <2>10. FilesMove
    BY <2>7 DEF FilesMove
  <2>11. FoundFits(l, j, at', used', returned')
    BY <1>1, <2>4, <2>7, PathsFacts DEF FoundFits, UninstallInv, FilesOK
  <2>12. Founds'
    BY <1>2, <2>4, <2>6, <2>10, <2>11, FoundsMove DEF UninstallInv
  <2>13. \A q \in Procs, r \in Paths : job'[q].aside[r] = job[q].aside[r]
    BY <2>4, <2>6 DEF Moves
  <2>14. profile' \in [Profiles -> Texts]
    BY DEF UninstallInv, FilesOK
  <2> QED BY <2>7, <2>9, <2>12, <2>13, <2>14, NewStep DEF layout
<1> QED BY <1>4, <1>5 DEF MakeSelf

LEMMA ConfirmKeeps ==
  ASSUME UninstallInv, NEW p \in Procs, Confirm(p)
  PROVE  UninstallInv'
<1>1. CountsOK'
  BY CountsStay DEF UninstallInv, Confirm
<1>2. CASE MakeSelf(p, "wait")
  BY <1>1, <1>2, MakeSelfKeeps DEF Confirm
<1>3. CASE Go(p, "check", job[p]) /\ UNCHANGED <<at, used>>
  <2>1. "check" \in PCs
    BY DEF PCs
  <2> QED BY <1>1, <1>3, <2>1, OnStep DEF Confirm, files, history
<1> QED BY <1>2, <1>3 DEF Confirm

LEMMA UpdateStartsKeeps ==
  ASSUME UninstallInv, NEW p \in Procs, UpdateStarts(p)
  PROVE  UninstallInv'
<1>1. CountsOK'
  BY ConstantsAssumption DEF UninstallInv, CountsOK, UpdateStarts
<1> QED BY <1>1, MakeSelfKeeps DEF UpdateStarts

LEMMA UpdateRemakesKeeps ==
  ASSUME UninstallInv, NEW p \in Procs, UpdateRemakes(p)
  PROVE  UninstallInv'
<1>1. CountsOK'
  BY CountsStay DEF UninstallInv, UpdateRemakes
<1>2. PICK d \in Fresh(Own) :
        \E b \in IF at["base"] = None THEN Fresh(Own) \ {d} ELSE {at["base"]} :
          at' = [at EXCEPT !["self"] = d, !["base"] = b] /\ used' = used \cup {d, b}
  BY DEF UpdateRemakes
<1>3. PICK b \in IF at["base"] = None THEN Fresh(Own) \ {d} ELSE {at["base"]} :
        at' = [at EXCEPT !["self"] = d, !["base"] = b] /\ used' = used \cup {d, b}
  BY <1>2
<1>4. /\ used \subseteq used' /\ used' \subseteq Objects /\ at' \in Contents
      /\ \A q \in Paths : at'[q] # None => at'[q] \in used' /\ (at'[q] = at[q] \/ at'[q] \notin used)
      /\ WellFormed(at', outside)
  BY <1>3, NewSelf DEF UninstallInv, UpdateRemakes
<1>5. profile' \in [Profiles -> Texts]
  BY DEF UninstallInv, FilesOK, UpdateRemakes
<1> QED BY <1>1, <1>4, <1>5, OtherStep DEF UpdateRemakes, layout

LEMMA UpdatePutsKeeps ==
  ASSUME UninstallInv, NEW p \in Procs, NEW path \in Placed, UpdatePuts(p, path)
  PROVE  UninstallInv'
<1>1. CountsOK'
  BY ConstantsAssumption DEF UninstallInv, CountsOK, UpdatePuts
<1>2. PICK o \in Fresh(Own) : at' = [at EXCEPT ![path] = o] /\ used' = used \cup {o}
  BY DEF UpdatePuts
<1>3. o \in Objects /\ o \notin used /\ o # None
  BY PathsFacts DEF Fresh
<1>4. path \in Paths /\ at'[path] = o /\ \A q \in Paths \ {path} : at'[q] = at[q]
  BY <1>2, PathsFacts DEF UninstallInv, FilesOK, Contents
<1>5. at' \in Contents /\ used' \subseteq Objects
  BY <1>2, <1>3 DEF UninstallInv, FilesOK, Contents, ObjectOrNone
<1>6. \A q \in Paths : at'[q] # None => at'[q] \in used' /\ (at'[q] = at[q] \/ at'[q] \notin used)
  BY <1>2, <1>3, <1>4 DEF UninstallInv, Apart, AtApart
<1>7. \A q \in Paths, r \in Paths : at'[q] = at'[r] /\ at'[q] # None => q = r
  BY <1>3, <1>4 DEF UninstallInv, Apart, AtApart, WellFormed
<1>8. at'["base"] = None => \A q \in Paths \ outside : at'[q] = None
  BY <1>4, PathsFacts DEF UninstallInv, Apart, WellFormed, UpdatePuts, Reachable
<1>9. WellFormed(at', outside)
  BY <1>7, <1>8 DEF WellFormed
<1>10. profile' \in [Profiles -> Texts] /\ used \subseteq used'
  BY <1>2 DEF UninstallInv, FilesOK, UpdatePuts
<1> QED BY <1>1, <1>5, <1>6, <1>9, <1>10, OtherStep DEF UpdatePuts, layout

LEMMA UserPutsKeeps ==
  ASSUME UninstallInv, NEW path \in Paths, UserPuts(path)
  PROVE  UninstallInv'
<1>1. CountsOK'
  BY ConstantsAssumption DEF UninstallInv, CountsOK, UserPuts
<1>2. PICK o \in Fresh(Alien) \cup {None} :
        /\ at' = [q \in Paths |-> IF q = path THEN o ELSE IF q \in Within(path) THEN None ELSE at[q]]
        /\ used' = used \cup ({o} \ {None})
  BY DEF UserPuts
<1>3. o \in ObjectOrNone /\ o \notin used /\ (o # None => o \in Objects /\ o \in used')
  BY <1>2, PathsFacts DEF Fresh, ObjectOrNone, UninstallInv, FilesOK
<1>4. at'[path] = o /\ \A q \in Paths \ {path} : at'[q] = IF q \in Within(path) THEN None ELSE at[q]
  BY <1>2
<1>5. at' \in Contents /\ used' \subseteq Objects /\ used \subseteq used'
  BY <1>2, <1>3, PathsFacts DEF UninstallInv, FilesOK, Contents, ObjectOrNone
<1>6. \A q \in Paths : at'[q] # None => at'[q] \in used' /\ (at'[q] = at[q] \/ at'[q] \notin used)
  BY <1>3, <1>4, <1>5 DEF UninstallInv, Apart, AtApart
<1>7. \A q \in Paths, r \in Paths : at'[q] = at'[r] /\ at'[q] # None => q = r
  BY <1>3, <1>4 DEF UninstallInv, Apart, AtApart, WellFormed
<1>8. at'["base"] = None => \A q \in Paths \ outside : at'[q] = None
  <2>1. CASE path = "base"
    BY <1>4, <2>1 DEF Within
  <2>2. CASE path # "base"
    BY <1>4, <2>2, PathsFacts DEF UninstallInv, Apart, WellFormed, UserPuts, Reachable, Within
  <2> QED BY <2>1, <2>2
<1>9. WellFormed(at', outside)
  BY <1>7, <1>8 DEF WellFormed
<1>10. profile' \in [Profiles -> Texts]
  BY DEF UninstallInv, FilesOK, UserPuts
<1> QED BY <1>1, <1>5, <1>6, <1>9, <1>10, OtherStep DEF UserPuts, layout

LEMMA UserEditsKeeps ==
  ASSUME UninstallInv, NEW f \in Profiles, UserEdits(f)
  PROVE  UninstallInv'
<1>1. CountsOK'
  BY ConstantsAssumption DEF UninstallInv, CountsOK, UserEdits
<1>2. profile' \in [Profiles -> Texts]
  BY DEF UninstallInv, FilesOK, UserEdits
<1>3. UNCHANGED <<at, outside, hidden, pc, job, stray, used, returned>>
  BY DEF UserEdits, layout, history
<1>4. \A q \in Paths : at'[q] # None => at'[q] \in used' /\ at'[q] = at[q]
  BY <1>3 DEF UninstallInv, Apart, AtApart
<1>5. at' \in Contents /\ used' \subseteq Objects /\ WellFormed(at', outside)
  BY <1>3 DEF UninstallInv, FilesOK, Apart
<1> QED BY <1>1, <1>2, <1>3, <1>4, <1>5, OtherStep

LEMMA RewriteKeeps ==
  ASSUME UninstallInv, NEW p \in Procs, Rewrite(p)
  PROVE  UninstallInv'
<1>1. CountsOK' /\ UNCHANGED <<at, outside, hidden, stray, used, returned>> /\ pc[p] = "rewrite"
  BY CountsStay DEF UninstallInv, Rewrite, layout, history
<1>2. job[p] \in Job /\ JobFits(pc[p], job[p]) /\ FoundFits(pc[p], job[p], at, used, returned)
  BY DEF UninstallInv, ProcsOK, Founds
<1> DEFINE j == [job[p] EXCEPT !.todo = @ \ {job[p].item}, !.item = None]
<1>3. job[p].item \in Profiles
  BY <1>1, <1>2 DEF JobFits
<1>4. j \in Job /\ j.aside = job[p].aside /\ j.there = job[p].there /\ j.failed = job[p].failed
      /\ j.todo = job[p].todo \ {job[p].item}
  BY <1>2 DEF Job
<1>5. Go(p, "next", j) /\ "next" \in PCs
  BY DEF Rewrite, Done, PCs
<1> HIDE DEF j
<1>6. Moves(p, "next", j)
  BY <1>4, <1>5, GoMoves DEF UninstallInv
<1>7. FilesOK'
  <2>1. profile' \in [Profiles -> Texts]
    BY DEF UninstallInv, FilesOK, Rewrite, Texts
  <2> QED BY <1>1, <2>1 DEF UninstallInv, FilesOK
<1>8. ProcsOK'
  <2>1. JobFits("next", j)
    BY <1>1, <1>2, <1>4 DEF JobFits
  <2> QED BY <1>1, <1>4, <1>5, <1>6, <2>1, ProcsMove DEF UninstallInv
<1>9. Apart'
  BY <1>1, <1>4, <1>5, <1>6, ApartStays DEF UninstallInv
<1>10. Founds'
  <2>1. FilesMove
    BY <1>1 DEF FilesMove
  <2>2. FoundFits("next", j, at', used', returned')
    BY <1>1, <1>2, <1>3, <1>4, PathsFacts DEF FoundFits
  <2> QED BY <1>4, <1>5, <1>6, <2>1, <2>2, FoundsMove DEF UninstallInv
<1> QED BY <1>1, <1>7, <1>8, <1>9, <1>10 DEF UninstallInv

LEMMA MoveKeeps ==
  ASSUME UninstallInv, NEW p \in Procs, Move(p)
  PROVE  UninstallInv'
<1> DEFINE path == job[p].item
           f == [q \in Paths |-> IF q \in Within(path) THEN at[q] ELSE None]
           j == [job[p] EXCEPT !.aside = f]
           l == IF at[path] = job[p].plan[path] THEN "delete" ELSE "back"
<1>1. CountsOK' /\ UNCHANGED <<profile, outside, hidden, stray, used, returned>> /\ pc[p] = "move"
      /\ at[path] # None
  BY CountsStay DEF UninstallInv, Move, layout, history
<1>2. job[p] \in Job /\ JobFits(pc[p], job[p]) /\ FoundFits(pc[p], job[p], at, used, returned)
  BY DEF UninstallInv, ProcsOK, Founds
<1>3. path \in Paths /\ path \in Within(path) /\ Within(path) \subseteq Paths
  BY <1>1, <1>2, OutsideFacts DEF JobFits, UninstallInv
<1>4. f \in Contents
  BY DEF UninstallInv, FilesOK, Contents, ObjectOrNone
<1>5. \A q \in Paths : f[q] = IF q \in Within(path) THEN at[q] ELSE None
  OBVIOUS
<1>6. at' = [q \in Paths |-> IF q \in Within(path) THEN None ELSE at[q]] /\ Go(p, l, j)
  BY DEF Move
<1> HIDE DEF f
<1>7. j \in Job /\ j.aside = f /\ j.there = job[p].there /\ j.failed = job[p].failed
      /\ j.todo = job[p].todo /\ j.item = path /\ j.plan = job[p].plan
  BY <1>2, <1>4 DEF Job
<1>8. l \in PCs /\ l \in {"delete", "back"} /\ (l = "delete" => at[path] = job[p].plan[path])
  BY DEF PCs
<1> HIDE DEF j, l
<1>9. Moves(p, l, j)
  BY <1>6, <1>7, <1>8, GoMoves DEF UninstallInv
<1>10. \A q \in Paths : at'[q] = IF q \in Within(path) THEN None ELSE at[q]
  BY <1>6
<1>11. FilesOK'
  <2>1. at' \in Contents
    BY <1>6 DEF UninstallInv, FilesOK, Contents, ObjectOrNone
  <2> QED BY <1>1, <2>1 DEF UninstallInv, FilesOK
<1>12. ProcsOK'
  <2>1. \A q \in Paths, r \in Paths : f[q] = f[r] /\ f[q] # None => q = r
    BY <1>5 DEF UninstallInv, Apart, WellFormed
  <2>2. JobFits(l, j)
    BY <1>1, <1>3, <1>5, <1>7, <1>8, <2>1 DEF JobFits
  <2> QED BY <1>1, <1>7, <1>8, <1>9, <2>2, ProcsMove DEF UninstallInv
<1>13. Apart'
  <2>1. WellFormed(at', outside)
    <3>1. \A q \in Paths, r \in Paths : at'[q] = at'[r] /\ at'[q] # None => q = r
      BY <1>10 DEF UninstallInv, Apart, WellFormed
    <3>2. at'["base"] = None => \A q \in Paths \ outside : at'[q] = None
      BY <1>3, <1>10, PathsFacts DEF UninstallInv, Apart, WellFormed, Within
    <3> QED BY <3>1, <3>2 DEF WellFormed
  <2>2. AtApart'
    BY <1>1, <1>10 DEF UninstallInv, Apart, AtApart
  <2>3. \A r \in Procs \ {p} : job'[r].aside = job[r].aside
    BY <1>9 DEF Moves
  <2>4. job'[p].aside = f
    BY <1>7, <1>9 DEF Moves
  <2>5. ASSUME NEW r \in Paths, f[r] # None
        PROVE  /\ f[r] \in used /\ f[r] \notin stray
               /\ \A q \in Paths : at'[q] # f[r]
    BY <1>5, <1>10, <2>5 DEF UninstallInv, Apart, AtApart, WellFormed
  <2>6. KeptApart'
    BY <1>1, <1>10, <2>3, <2>4, <2>5, PathsFacts DEF UninstallInv, Apart, KeptApart
  <2>7. KeptDistinct'
    BY <1>5, <2>3, <2>4 DEF UninstallInv, Apart, KeptApart, KeptDistinct
  <2> QED BY <1>1, <2>1, <2>2, <2>6, <2>7 DEF Apart
<1>14. Founds'
  <2>1. FilesMove
    BY <1>1, <1>10 DEF FilesMove
  <2>2. None \notin job[p].there
    BY <1>2, PathsFacts DEF UninstallInv, FilesOK, FoundFits
  <2>3. FoundFits(l, j, at', used', returned')
    BY <1>1, <1>2, <1>3, <1>7, <1>10, <2>2 DEF FoundFits
  <2> QED BY <1>7, <1>8, <1>9, <2>1, <2>3, FoundsMove DEF UninstallInv
<1> QED BY <1>1, <1>11, <1>12, <1>13, <1>14 DEF UninstallInv

LEMMA DeleteKeeps ==
  ASSUME UninstallInv, NEW p \in Procs, Delete(p)
  PROVE  UninstallInv'
<1> DEFINE j == [job[p] EXCEPT !.todo = @ \ {job[p].item}, !.item = None, !.aside = Nothing]
<1>1. CountsOK' /\ UNCHANGED <<files, layout, stray, history>> /\ pc[p] = "delete"
  BY CountsStay DEF UninstallInv, Delete
<1>2. job[p] \in Job /\ FoundFits(pc[p], job[p], at, used, returned)
  BY DEF UninstallInv, ProcsOK, Founds
<1>3. j \in Job /\ j.aside = Nothing /\ j.there = job[p].there /\ j.failed = job[p].failed
      /\ j.todo = job[p].todo \ {job[p].item}
  BY <1>2, NoJobFacts DEF Job
<1>4. Go(p, "next", j) /\ "next" \in PCs
  BY DEF Delete, PCs
<1> HIDE DEF j
<1>5. \A q \in Paths : j.aside[q] = None
  BY <1>3, NoJobFacts
<1>6. JobFits("next", j)
  BY <1>5 DEF JobFits
<1>7. FoundFits("next", j, at, used, returned)
  BY <1>1, <1>2, <1>3 DEF FoundFits
<1> QED BY <1>1, <1>3, <1>4, <1>5, <1>6, <1>7, LocalStep

LEMMA PutBackKeeps ==
  ASSUME UninstallInv, NEW p \in Procs, PutBack(p)
  PROVE  UninstallInv'
<1> DEFINE path == job[p].item
           f == job[p].aside
           j == [job[p] EXCEPT !.todo = @ \ {path}, !.item = None, !.failed = TRUE, !.aside = Nothing]
<1>1. CountsOK' /\ UNCHANGED <<profile, outside, hidden, used>> /\ pc[p] = "back"
  BY CountsStay DEF UninstallInv, PutBack, layout
<1>2. job[p] \in Job /\ JobFits(pc[p], job[p]) /\ FoundFits(pc[p], job[p], at, used, returned)
  BY DEF UninstallInv, ProcsOK, Founds
<1>3. path \in Paths /\ path \in Within(path) /\ Within(path) \subseteq Paths
  BY <1>1, <1>2, OutsideFacts DEF JobFits, UninstallInv
<1>4. /\ f \in Contents /\ f[path] # None
      /\ \A q \in Paths, r \in Paths : f[q] = f[r] /\ f[q] # None => q = r
  BY <1>1, <1>2 DEF Job, JobFits
<1>5. /\ j \in Job /\ j.aside = Nothing /\ j.there = job[p].there /\ j.failed = TRUE
  BY <1>2, NoJobFacts DEF Job
<1>6. Go(p, "next", j) /\ "next" \in PCs
  BY DEF PutBack, PCs
<1> HIDE DEF j
<1>7. Moves(p, "next", j)
  BY <1>5, <1>6, GoMoves DEF UninstallInv
<1>8. \A q \in Paths : j.aside[q] = None
  BY <1>5, NoJobFacts
<1>9. CASE stray' = stray \cup Left(f) /\ UNCHANGED <<at, returned>>
  <2>1. FoundFits("next", j, at, used, returned)
    BY <1>2, <1>5 DEF FoundFits
  <2>2. UNCHANGED <<files, layout, history>>
    BY <1>1, <1>9 DEF files, layout, history
  <2> QED BY <1>1, <1>5, <1>6, <1>9, <2>1, <2>2, LeaveStep
<1>10. CASE /\ Reachable(path) /\ (path \in Placed \/ at[path] = None)
            /\ at' = [q \in Paths |-> IF q \in Within(path) THEN f[q] ELSE at[q]]
            /\ returned' = returned \cup Left(f) /\ UNCHANGED stray
  <2>1. \A q \in Paths : at'[q] = IF q \in Within(path) THEN f[q] ELSE at[q]
    BY <1>10
  <2>2. ASSUME NEW r \in Paths, f[r] # None
        PROVE  f[r] \in used /\ f[r] \notin stray /\ \A q \in Paths : at[q] # f[r]
    BY <2>2 DEF UninstallInv, Apart, KeptApart
  <2>3. FilesOK'
    <3>1. at' \in Contents
      BY <1>4, <1>10 DEF UninstallInv, FilesOK, Contents, ObjectOrNone
    <3>2. returned' \subseteq used
      BY <1>10, <2>2 DEF UninstallInv, FilesOK, Left
    <3> QED BY <1>1, <1>10, <3>1, <3>2 DEF UninstallInv, FilesOK
  <2>4. ProcsOK'
    <3>1. JobFits("next", j)
      BY <1>8 DEF JobFits
    <3> QED BY <1>1, <1>5, <1>6, <1>7, <3>1, ProcsMove DEF UninstallInv
  <2>5. WellFormed(at', outside)
    <3>1. \A q \in Paths, r \in Paths : at'[q] = at'[r] /\ at'[q] # None => q = r
      BY <1>4, <2>1, <2>2 DEF UninstallInv, Apart, WellFormed
    <3>2. CASE path = "base"
      BY <1>3, <1>4, <2>1, <3>1, <3>2 DEF WellFormed
    <3>3. CASE path # "base"
      <4>1. at'["base"] = at["base"] /\ \A q \in Paths \ {path} : at'[q] = at[q]
        BY <2>1, <3>3, PathsFacts DEF Within
      <4>2. at["base"] = None => path \in outside
        BY <1>3, <1>10, <3>3 DEF Reachable
      <4> QED BY <3>1, <4>1, <4>2 DEF UninstallInv, Apart, WellFormed
    <3> QED BY <3>2, <3>3
  <2>6. AtApart'
    BY <1>1, <1>10, <2>1, <2>2 DEF UninstallInv, Apart, AtApart
  <2>7. \A r \in Procs \ {p} : job'[r].aside = job[r].aside
    BY <1>7 DEF Moves
  <2>8. \A q \in Paths : job'[p].aside[q] = None
    BY <1>7, <1>8 DEF Moves
  <2>9. KeptApart'
    BY <1>1, <1>10, <2>1, <2>7, <2>8 DEF UninstallInv, Apart, KeptApart, KeptDistinct
  <2>10. KeptDistinct'
    BY <2>7, <2>8 DEF UninstallInv, Apart, KeptDistinct
  <2>11. Founds'
    <3>1. FilesMove
      BY <1>1, <1>10, <2>1 DEF FilesMove, Left
    <3>2. FoundFits("next", j, at', used', returned')
      BY <1>1, <1>2, <1>5 DEF FoundFits
    <3> QED BY <1>5, <1>6, <1>7, <3>1, <3>2, FoundsMove DEF UninstallInv
  <2>12. Apart'
    BY <1>1, <2>5, <2>6, <2>9, <2>10 DEF Apart
  <2> QED BY <1>1, <2>3, <2>4, <2>11, <2>12 DEF UninstallInv
<1> QED BY <1>9, <1>10 DEF PutBack

-----------------------------------------------------------------------------
(* The invariant and the theorems.                                         *)

LEMMA UninstallInit == Init => UninstallInv
<1> SUFFICES ASSUME Init PROVE UninstallInv
  OBVIOUS
<1>1. PICK c \in Starts : WellFormed(c, outside) /\ at = c /\ used = Left(c)
  BY DEF Init
<1>2. at \in Contents /\ used \subseteq Objects
  BY <1>1, ConstantsAssumption DEF Contents, ObjectOrNone, Objects, Left
<1>3. FilesOK /\ CountsOK
  BY <1>2, ConstantsAssumption DEF Init, FilesOK, CountsOK
<1>4. ProcsOK
  BY NoJobFacts DEF Init, ProcsOK, JobFits, PCs
<1>5. Apart
  BY <1>1, NoJobFacts DEF Init, Apart, AtApart, KeptApart, KeptDistinct, Left
<1>6. Founds
  BY NoJobFacts DEF Init, Founds, FoundFits
<1> QED BY <1>3, <1>4, <1>5, <1>6 DEF UninstallInv

LEMMA UninstallStep == UninstallInv /\ [Next]_vars => UninstallInv'
<1> SUFFICES ASSUME UninstallInv, [Next]_vars PROVE UninstallInv'
  OBVIOUS
<1>1. ASSUME NEW p \in Procs, Uninstall(p) PROVE UninstallInv'
  <2>1. CASE Begin(p) \/ Cancel(p) \/ Confirm(p) \/ Lock(p) \/ Revalidate(p) \/ Finish(p)
    BY <2>1, BeginKeeps, CancelKeeps, ConfirmKeeps, LockKeeps, RevalidateKeeps
  <2>2. CASE \E f \in Profiles : ReadProfile(p, f)
    BY <2>2, ReadProfileKeeps
  <2>3. CASE \E path \in Paths : Look(p, path)
    BY <2>3, LookKeeps
  <2>4. CASE Rewrite(p) \/ Move(p) \/ MoveFails(p) \/ Delete(p) \/ PutBack(p)
    BY <2>4, RewriteKeeps, MoveKeeps, MoveFailsKeeps, DeleteKeeps, PutBackKeeps
  <2> QED BY <1>1, <2>1, <2>2, <2>3, <2>4 DEF Uninstall
<1>2. ASSUME NEW p \in Procs, Update(p) PROVE UninstallInv'
  BY <1>2, UpdateStartsKeeps, LockKeeps, UpdateRemakesKeeps, CancelKeeps, UpdatePutsKeeps DEF Update
<1>3. ASSUME NEW p \in Procs, TimesOut(p) \/ Fault(p) \/ Kill(p) PROVE UninstallInv'
  BY <1>3, CancelKeeps, FaultKeeps, KillKeeps
<1>4. ASSUME NEW path \in Paths, UserPuts(path) PROVE UninstallInv'
  BY <1>4, UserPutsKeeps
<1>5. ASSUME NEW f \in Profiles, UserEdits(f) PROVE UninstallInv'
  BY <1>5, UserEditsKeeps
<1>6. CASE UNCHANGED vars
  <2>1. UNCHANGED <<at, profile, outside, hidden, pc, job, stray, used, returned, runs, changes, faults>>
    BY <1>6 DEF vars, files, layout, history, counters
  <2> QED BY <2>1 DEF UninstallInv, FilesOK, CountsOK, ProcsOK, JobFits, Within, Apart, WellFormed,
                      AtApart, KeptApart, KeptDistinct, Founds, FoundFits
<1> QED BY <1>1, <1>2, <1>3, <1>4, <1>5, <1>6 DEF Next

\* Whatever users, updates and uninstalls do to the same places, no object ever lies
\* in two of them, nor in a directory that is gone.
THEOREM UninstallTypeCorrect == Spec => []TypeOK
<1>1. UninstallInv => TypeOK
  <2> SUFFICES ASSUME UninstallInv PROVE TypeOK
    OBVIOUS
  <2>1. Left(at) \subseteq used /\ Left(at) \cap stray = {}
    BY DEF UninstallInv, Apart, AtApart, Left
  <2>2. ASSUME NEW p \in Procs
        PROVE  Kept(p) \subseteq used /\ Kept(p) \cap (Left(at) \cup stray) = {}
    BY DEF UninstallInv, Apart, KeptApart, Left, Kept
  <2>3. ASSUME NEW p \in Procs, NEW q \in Procs \ {p}
        PROVE  Kept(p) \cap Kept(q) = {}
    BY DEF UninstallInv, Apart, KeptDistinct, Left, Kept
  <2> QED BY <2>1, <2>2, <2>3 DEF UninstallInv, FilesOK, CountsOK, ProcsOK, Apart, TypeOK
<1> QED BY <1>1, UninstallInit, UninstallStep, PTL DEF Spec

\* Only its own steps move a command.
LEMMA OwnStep ==
  ASSUME UninstallInv, NEW q \in Procs, NEW p \in Procs, pc'[p] # pc[p],
         Uninstall(q) \/ Update(q) \/ TimesOut(q) \/ Fault(q) \/ Kill(q)
  PROVE  p = q
<1>1. CASE Uninstall(q)
  <2>1. CASE Begin(q) \/ Cancel(q) \/ Lock(q) \/ Revalidate(q) \/ Finish(q)
    BY <2>1 DEF UninstallInv, ProcsOK, Begin, Plan, Cancel, Lock, Revalidate, Finish, End, Go
  <2>2. CASE Confirm(q)
    BY <2>2 DEF UninstallInv, ProcsOK, Confirm, MakeSelf, Go
  <2>3. CASE \E f \in Profiles : ReadProfile(q, f)
    <3>1. PICK f \in Profiles : ReadProfile(q, f)
      BY <2>3
    <3>2. Done(q, f) \/ Fails(q, f) \/ Go(q, "rewrite", [job[q] EXCEPT !.item = f])
      BY <3>1 DEF ReadProfile, UninstallInv, FilesOK, Texts
    <3> QED BY <3>2 DEF UninstallInv, ProcsOK, Done, Fails, Go
  <2>4. CASE \E path \in Paths : Look(q, path)
    BY <2>4 DEF UninstallInv, ProcsOK, Look, Done, Fails, Go
  <2>5. CASE Rewrite(q) \/ Move(q) \/ MoveFails(q) \/ Delete(q) \/ PutBack(q)
    BY <2>5 DEF UninstallInv, ProcsOK, Rewrite, Move, MoveFails, Delete, PutBack, Done, Fails, Go
  <2> QED BY <1>1, <2>1, <2>2, <2>3, <2>4, <2>5 DEF Uninstall
<1>2. CASE Update(q)
  BY <1>2 DEF UninstallInv, ProcsOK, Update, UpdateStarts, MakeSelf, UpdateLocks, UpdateRemakes,
              UpdatePuts, UpdateEnds, End, Go
<1>3. CASE TimesOut(q) \/ Fault(q) \/ Kill(q)
  BY <1>3 DEF UninstallInv, ProcsOK, TimesOut, Fault, Kill, End, Go
<1> QED BY <1>1, <1>2, <1>3

LEMMA MoverStep ==
  ASSUME UninstallInv, [Next]_vars, NEW p \in Procs, pc'[p] # pc[p]
  PROVE  Uninstall(p) \/ Update(p) \/ TimesOut(p) \/ Fault(p) \/ Kill(p)
<1>1. \E q \in Procs : Uninstall(q) \/ Update(q) \/ TimesOut(q) \/ Fault(q) \/ Kill(q)
  BY DEF Next, vars, UserPuts, UserEdits
<1> QED BY <1>1, OwnStep

-----------------------------------------------------------------------------
(* What a step of the uninstall loses.                                     *)

\* What lay at a path, was left or was aside and is found in one of these again is not lost.
LEMMA PresentStays ==
  ASSUME ProcsOK, NEW p \in Procs, NEW l \in PCs, NEW j \in Job, Go(p, l, j),
         \A o \in Left(at) \cup Left(job[p].aside) : o \in Left(at') \cup stray' \cup Left(j.aside),
         stray \subseteq stray'
  PROVE  Present \subseteq Present'
<1>1. Moves(p, l, j)
  BY GoMoves
<1>2. \A q \in Procs \ {p} : Left(job'[q].aside) = Left(job[q].aside)
  BY <1>1 DEF Moves
<1>3. Left(job'[p].aside) = Left(j.aside)
  BY <1>1 DEF Moves
<1>4. Present = Left(at) \cup stray \cup UNION {Left(job[q].aside) : q \in Procs}
  BY DEF Present, Kept
<1>5. Present' = Left(at') \cup stray' \cup UNION {Left(job'[q].aside) : q \in Procs}
  BY DEF Present, Kept, Left
<1> QED BY <1>2, <1>3, <1>4, <1>5

\* ... as long as what the command has aside stays there and no path changes.
LEMMA AsideStays ==
  ASSUME ProcsOK, NEW p \in Procs, NEW l \in PCs, NEW j \in Job, Go(p, l, j),
         j.aside = job[p].aside, UNCHANGED <<at, stray>>
  PROVE  Present \subseteq Present'
BY PresentStays

LEMMA EndLoses ==
  ASSUME ProcsOK, NEW p \in Procs, End(p), UNCHANGED at
  PROVE  Present \subseteq Present'
<1>1. "idle" \in PCs
  BY DEF PCs
<1> QED BY <1>1, NoJobFacts, PresentStays DEF End

LEMMA ItemLoses ==
  ASSUME ProcsOK, NEW p \in Procs, NEW i \in Items \cup {None}, UNCHANGED <<at, stray>>,
         \/ Done(p, i) \/ Fails(p, i)
         \/ \E l \in {"rewrite", "move"} : Go(p, l, [job[p] EXCEPT !.item = i])
         \/ \E l \in {"check", "next"} : Go(p, l, job[p])
  PROVE  Present \subseteq Present'
<1>0. job[p] \in Job /\ {"next", "rewrite", "move", "check"} \subseteq PCs
  BY DEF ProcsOK, PCs
<1>1. CASE Done(p, i)
  <2> DEFINE j == [job[p] EXCEPT !.todo = @ \ {i}, !.item = None]
  <2>1. j \in Job /\ j.aside = job[p].aside
    BY <1>0 DEF Job
  <2>2. Go(p, "next", j)
    BY <1>1 DEF Done
  <2> HIDE DEF j
  <2> QED BY <1>0, <2>1, <2>2, AsideStays
<1>2. CASE Fails(p, i)
  <2> DEFINE j == [job[p] EXCEPT !.todo = @ \ {i}, !.item = None, !.failed = TRUE]
  <2>1. j \in Job /\ j.aside = job[p].aside
    BY <1>0 DEF Job
  <2>2. Go(p, "next", j)
    BY <1>2 DEF Fails
  <2> HIDE DEF j
  <2> QED BY <1>0, <2>1, <2>2, AsideStays
<1>3. ASSUME NEW l \in {"rewrite", "move"}, Go(p, l, [job[p] EXCEPT !.item = i])
      PROVE  Present \subseteq Present'
  <2> DEFINE j == [job[p] EXCEPT !.item = i]
  <2>1. j \in Job /\ j.aside = job[p].aside
    BY <1>0 DEF Job
  <2>2. Go(p, l, j)
    BY <1>3
  <2> HIDE DEF j
  <2> QED BY <1>0, <2>1, <2>2, AsideStays
<1>4. ASSUME NEW l \in {"check", "next"}, Go(p, l, job[p])
      PROVE  Present \subseteq Present'
  BY <1>0, <1>4, AsideStays
<1> QED BY <1>1, <1>2, <1>3, <1>4

LEMMA ConfirmLoses ==
  ASSUME UninstallInv, NEW p \in Procs, Confirm(p)
  PROVE  Present \subseteq Present'
<1>1. job[p] \in Job /\ ProcsOK /\ {"wait", "check"} \subseteq PCs /\ stray' = stray
  BY DEF UninstallInv, ProcsOK, PCs, Confirm
<1>2. CASE Go(p, "check", job[p]) /\ UNCHANGED <<at, used>>
  BY <1>1, <1>2, AsideStays
<1>3. CASE MakeSelf(p, "wait")
  <2>1. PICK d \in ObjectOrNone :
          /\ Go(p, "wait", [job[p] EXCEPT !.lock = d])
          /\ \A q \in Paths : at[q] # None => at'[q] = at[q]
    <3>1. CASE at["self"] # None
      BY <1>3, <3>1, PathsFacts DEF MakeSelf, UninstallInv, FilesOK, Contents
    <3>2. CASE at["self"] = None
      <4>1. PICK d \in Fresh(Own) :
              \E b \in IF at["base"] = None THEN Fresh(Own) \ {d} ELSE {at["base"]} :
                at' = [at EXCEPT !["self"] = d, !["base"] = b] /\ Go(p, "wait", [job[p] EXCEPT !.lock = d])
        BY <1>3, <3>2 DEF MakeSelf
      <4>2. PICK b \in IF at["base"] = None THEN Fresh(Own) \ {d} ELSE {at["base"]} :
              at' = [at EXCEPT !["self"] = d, !["base"] = b] /\ Go(p, "wait", [job[p] EXCEPT !.lock = d])
        BY <4>1
      <4>3. \A q \in Paths \ {"self", "base"} : at'[q] = at[q]
        BY <4>2 DEF UninstallInv, FilesOK, Contents
      <4>4. at["base"] # None => at'["base"] = at["base"]
        BY <4>2, PathsFacts DEF UninstallInv, FilesOK, Contents
      <4>5. d \in ObjectOrNone
        BY PathsFacts DEF Fresh, ObjectOrNone
      <4> QED BY <3>2, <4>2, <4>3, <4>4, <4>5
    <3> QED BY <3>1, <3>2
  <2> DEFINE j == [job[p] EXCEPT !.lock = d]
  <2>2. j \in Job /\ j.aside = job[p].aside
    BY <1>1 DEF Job
  <2>3. Go(p, "wait", j)
    BY <2>1
  <2> HIDE DEF j
  <2>4. Left(at) \subseteq Left(at')
    BY <2>1 DEF Left
  <2> QED BY <1>1, <2>2, <2>3, <2>4, PresentStays
<1> QED BY <1>2, <1>3 DEF Confirm

LEMMA MoveLoses ==
  ASSUME UninstallInv, NEW p \in Procs, Move(p)
  PROVE  Present \subseteq Present'
<1> DEFINE path == job[p].item
           f == [q \in Paths |-> IF q \in Within(path) THEN at[q] ELSE None]
           j == [job[p] EXCEPT !.aside = f]
           l == IF at[path] = job[p].plan[path] THEN "delete" ELSE "back"
<1>1. job[p] \in Job /\ JobFits(pc[p], job[p]) /\ ProcsOK /\ pc[p] = "move" /\ stray' = stray
  BY DEF UninstallInv, ProcsOK, Move
<1>2. f \in Contents /\ \A q \in Paths : f[q] = IF q \in Within(path) THEN at[q] ELSE None
  BY DEF UninstallInv, FilesOK, Contents, ObjectOrNone
<1>3. at' = [q \in Paths |-> IF q \in Within(path) THEN None ELSE at[q]] /\ Go(p, l, j) /\ l \in PCs
  BY DEF Move, PCs
<1> HIDE DEF f
<1>4. j \in Job /\ j.aside = f
  BY <1>1, <1>2 DEF Job
<1> HIDE DEF j, l
<1>5. Left(at) \subseteq Left(at') \cup Left(f)
  BY <1>2, <1>3 DEF Left
<1>6. Left(job[p].aside) = {}
  BY <1>1 DEF JobFits, Left
<1> QED BY <1>1, <1>3, <1>4, <1>5, <1>6, PresentStays

LEMMA FaultLoses ==
  ASSUME UninstallInv, NEW p \in Procs, Fault(p)
  PROVE  Present \subseteq Present'
<1>1. PICK i \in IF pc[p] = "next" THEN First(job[p].todo) ELSE {job[p].item} :
        Go(p, "next", [job[p] EXCEPT !.todo = @ \ {i}, !.item = None, !.failed = TRUE,
                                     !.aside = Nothing])
  BY DEF Fault
<1> DEFINE j == [job[p] EXCEPT !.todo = @ \ {i}, !.item = None, !.failed = TRUE, !.aside = Nothing]
<1>2. j \in Job /\ "next" \in PCs /\ ProcsOK
  BY NoJobFacts DEF UninstallInv, ProcsOK, Job, PCs
<1>3. Go(p, "next", j)
  BY <1>1
<1> HIDE DEF j
<1>4. stray' = stray \cup Left(job[p].aside) /\ at' = at
  BY DEF Fault, files
<1> QED BY <1>2, <1>3, <1>4, PresentStays

\* Deletion takes what is aside, which then is what was confirmed.
LEMMA DeleteLoses ==
  ASSUME UninstallInv, NEW p \in Procs, Delete(p), NEW o \in Present \ Present'
  PROVE  \E path \in Confirmed(p) : \E q \in Within(path) : o = job[p].aside[q]
<1>1. JobFits(pc[p], job[p]) /\ pc[p] = "delete" /\ UNCHANGED <<at, stray>>
  BY DEF UninstallInv, ProcsOK, Delete, files
<1>2. \A q \in Procs \ {p} : job'[q] = job[q]
  BY DEF UninstallInv, ProcsOK, Delete, Go
<1>3. o \in Left(job[p].aside)
  <2>1. PICK q \in Procs : o \in Left(job[q].aside)
    BY <1>1 DEF Present, Kept, Left
  <2>2. CASE q # p
    <3>1. Left(job[q].aside)' = Left(job[q].aside)
      BY <1>2, <2>2 DEF Left
    <3> QED BY <2>1, <3>1 DEF Present, Kept
  <2> QED BY <2>1, <2>2
<1>4. PICK q \in Paths : o = job[p].aside[q] /\ o # None
  BY <1>3 DEF Left
<1>5. q \in Within(job[p].item)
  BY <1>1, <1>4 DEF JobFits
<1>6. job[p].item \in Confirmed(p)
  BY <1>1 DEF JobFits, Confirmed
<1> QED BY <1>4, <1>5, <1>6

\* What the uninstall destroys was in the confirmed plan, or in a directory that was,
\* whoever moves what to the same places at whatever moment: capture_quarantine and
\* the comparison of authorize_managed_removal.
THEOREM LosesOnlyConfirmedCorrect == Spec => LosesOnlyConfirmed
<1> DEFINE Fine ==
      \A p \in Procs : pc[p] \in Removing /\ pc'[p] # pc[p] =>
        \A o \in Present \ Present' : \E path \in Confirmed(p) : \E q \in Within(path) : o = job[p].aside[q]
<1>1. UninstallInv /\ [Next]_vars => Fine
  <2> SUFFICES ASSUME UninstallInv, [Next]_vars, NEW p \in Procs, pc[p] \in Removing,
                      pc'[p] # pc[p], NEW o \in Present \ Present'
               PROVE  \E path \in Confirmed(p) : \E q \in Within(path) : o = job[p].aside[q]
    OBVIOUS
  <2>0. ProcsOK
    BY DEF UninstallInv
  <2>1. ~ Begin(p) /\ ~ Update(p) /\ ~ PutBack(p)
    BY DEF Removing, Begin, Update, UpdateStarts, UpdateLocks, UpdateRemakes, UpdatePuts, UpdateEnds,
           PutBack
  <2>2. Cancel(p) \/ Finish(p) \/ TimesOut(p) \/ Kill(p) => Present \subseteq Present'
    BY <2>0, EndLoses DEF Cancel, Finish, TimesOut, Kill, files
  <2>3. Lock(p) \/ Revalidate(p) => Present \subseteq Present'
    BY <2>0, EndLoses, ItemLoses DEF Lock, Revalidate, files
  <2>4. ASSUME NEW f \in Profiles, ReadProfile(p, f) PROVE Present \subseteq Present'
    <3>1. Done(p, f) \/ Fails(p, f) \/ Go(p, "rewrite", [job[p] EXCEPT !.item = f])
      BY <2>4 DEF ReadProfile, UninstallInv, FilesOK, Texts
    <3>2. f \in Items /\ UNCHANGED <<at, stray>>
      BY <2>4, PathsFacts DEF ReadProfile, files
    <3> QED BY <2>0, <3>1, <3>2, ItemLoses
  <2>5. ASSUME NEW path \in Paths, Look(p, path) PROVE Present \subseteq Present'
    <3>1. Done(p, path) \/ Fails(p, path) \/ Go(p, "move", [job[p] EXCEPT !.item = path])
      BY <2>5 DEF Look
    <3>2. path \in Items /\ UNCHANGED <<at, stray>>
      BY <2>5, PathsFacts DEF Look, files
    <3> QED BY <2>0, <3>1, <3>2, ItemLoses
  <2>6. Rewrite(p) \/ MoveFails(p) => Present \subseteq Present'
    <3>1. job[p].item \in Items \cup {None}
      BY <2>0 DEF ProcsOK, Job
    <3> QED BY <2>0, <3>1, ItemLoses DEF Rewrite, MoveFails, files
  <2>7. Confirm(p) \/ Move(p) \/ Fault(p) => Present \subseteq Present'
    BY ConfirmLoses, MoveLoses, FaultLoses
  <2>8. Delete(p)
    BY <2>1, <2>2, <2>3, <2>4, <2>5, <2>6, <2>7, MoverStep DEF Uninstall
  <2> QED BY <2>8, DeleteLoses
<1> QED BY <1>1, UninstallInit, UninstallStep, PTL DEF Spec, LosesOnlyConfirmed

\* An uninstall that exits 0 has left nothing of ovm's that it found where it lay,
\* whatever failed, changed hands or ran beside it: execute, and the failures that
\* Plan::build and each item count.
THEOREM SuccessMeansGoneCorrect == Spec => SuccessMeansGone
<1> DEFINE Gone ==
      \A p \in Procs : pc[p] = "next" /\ pc'[p] = "idle" /\ job[p].todo = {} /\ ~ job[p].failed
        => Left(at) \cap job[p].there \subseteq returned
<1>1. UninstallInv => Gone
  BY DEF UninstallInv, Founds, FoundFits, Left
<1> QED BY <1>1, UninstallInit, UninstallStep, PTL DEF Spec, SuccessMeansGone
=============================================================================

--------------------------- MODULE SelfUninstall ----------------------------
(***************************************************************************)
(* `ovm self uninstall`: what it plans, has confirmed and removes, beside  *)
(* a self-management command that puts new files in the same places and a  *)
(* user who does.  Code: crates/ovm/src/commands/self_uninstall.rs, and    *)
(* the lock and ownership checks of self_manager.rs.                       *)
(*                                                                         *)
(* What lies at a path is an object, its identity what same_entry compares *)
(* (device and inode).  An object is ovm's own or somebody else's, which   *)
(* stands for what the ownership checks look at: link targets, digests,    *)
(* the entries of a directory.  A step is one file system effect; reads    *)
(* join the step that follows from them, but for the look before a rename. *)
(***************************************************************************)
EXTENDS Naturals, FiniteSets

CONSTANTS
  Procs,       \* bound: commands at a time
  Links,       \* side links and product launchers
  Layouts,     \* which of Links and "ovm" lie outside ~/.ovm, each possible choice
  Profiles,    \* shell profiles install.sh may have written to
  Own, Alien,  \* identities: of what ovm wrote, and of everything else
  Starts,      \* what may lie there at the start
  Unreadable,  \* which places nobody can inspect, each possible choice
  MaxRuns,     \* bound: commands
  MaxChanges,  \* bound: what users and other commands put somewhere
  MaxFaults,   \* bound: I/O errors and kills
  None

Objects == Own \cup Alien
Placed  == Links \cup {"ovm"}               \* what lies in a launcher directory
Paths   == Placed \cup {"self", "base"}     \* ~/.ovm/self and ~/.ovm

ASSUME ConstantsAssumption ==
  /\ Own \cap Alien = {} /\ None \notin Objects
  /\ Starts \subseteq [Paths -> Objects \cup {None}]
  /\ Layouts \subseteq SUBSET Placed /\ Unreadable \subseteq SUBSET Placed
  /\ {"ovm", "self", "base"} \cap Links = {} /\ Paths \cap Profiles = {}
  /\ None \notin Paths \cup Profiles
  /\ MaxRuns \in Nat /\ MaxChanges \in Nat /\ MaxFaults \in Nat

\* A directory that is not there holds nothing, and nothing lies in two places.
WellFormed(c, out) ==
  /\ c["base"] = None => \A path \in Paths \ out : c[path] = None
  /\ \A q \in Paths, r \in Paths : c[q] = c[r] /\ c[q] # None => q = r

VARIABLES
  at,       \* what lies at each path; of a directory, the directory itself
  profile,  \* what a profile holds of ovm's block
  outside,  \* what lies in a launcher directory outside ~/.ovm (launcher-dir)
  hidden,   \* what nobody can inspect
  pc, job,  \* control state and locals of each command
  stray,    \* what a command moved aside and left there
  used,     \* history: every identity there has been
  returned, \* history: what a command moved aside and put back
  runs, changes, faults   \* counted against the bounds

files    == <<at, profile>>
counters == <<runs, changes, faults>>
layout   == <<outside, hidden>>
history  == <<used, returned>>
vars     == <<files, layout, pc, job, stray, history, counters>>

\* No block, or no file; a complete block; one that is damaged or cannot be read.
Texts == {"plain", "block", "odd"}
Suspect == {"block", "odd"}    \* profile_may_hold_block

ObjectOrNone == Objects \cup {None}
Contents == [Paths -> ObjectOrNone]
Nothing  == [path \in Paths |-> None]
Left(c)  == {c[path] : path \in Paths} \ {None}
Items    == Profiles \cup Paths

Job == [plan   : Contents,              \* Boundary::planned
        todo   : SUBSET Items,
        item   : Items \cup {None},
        aside  : Contents,              \* what the quarantine entry holds
        lock   : ObjectOrNone,          \* the directory whose lock file is open
        failed : BOOLEAN,
        there  : SUBSET Objects]        \* history: what of ovm's it was to remove
NoJob == [plan |-> Nothing, todo |-> {}, item |-> None, aside |-> Nothing,
          lock |-> None, failed |-> FALSE, there |-> {}]

PCs == {"idle", "confirm", "wait", "check", "next", "rewrite", "move", "delete",
        "back", "u_wait", "u_work"}

\* Where a lock is held: from its grant to the end of the command.
Working == {"check", "next", "rewrite", "move", "delete", "back", "u_work"}

-----------------------------------------------------------------------------
(* Helpers.                                                                *)

Go(p, l, j) == pc' = [pc EXCEPT ![p] = l] /\ job' = [job EXCEPT ![p] = j]

\* The flock goes with the process, what it moved aside stays.
End(p) == /\ Go(p, "idle", NoJob)
          /\ stray' = stray \cup Left(job[p].aside)

Fresh(kind) == kind \ used

Within(path) == IF path = "base" THEN Paths \ outside ELSE {path}

\* The record of the launcher directory, and the snapshots that tell whether a
\* control plane outside ~/.ovm is ovm's, lie in ~/.ovm/self (launcher_dir).
Recorded == at["self"] \in Own

\* control_plane_ownership, product_launcher_is_managed, is_managed_side_link:
\* whatever is called `ovm` below ~/.ovm is taken to be ovm's.
IsManaged(path) ==
  IF path = "ovm"
    THEN IF path \in outside THEN Recorded /\ at[path] \in Own ELSE at[path] # None
    ELSE at[path] \in Own

\* The plan looks where launcher_dir() points.
Visible(path) == path \in outside => Recorded

\* The order in which execute goes through its plan.
Stage(i) == CASE i \in Profiles -> 1 [] i \in Links -> 2 [] i = "ovm" -> 3
              [] i = "self" -> 4 [] i = "base" -> 5
First(S) == {i \in S : \A k \in S : Stage(i) <= Stage(k)}

\* flock on the file that was opened, wherever its directory is by now.
LockFree(d) == \A q \in Procs : pc[q] \in Working => job[q].lock # d

-----------------------------------------------------------------------------
(* The uninstall.                                                          *)

\* Plan::build: what may hold a block, what is managed, the snapshots and, with
\* --purge, the whole tree; what could not be inspected is a failure already.
Planned(purge) ==
  [path \in Paths |->
     IF \/ path \in Placed \ hidden /\ Visible(path) /\ IsManaged(path)
        \/ path = "self"
        \/ path = "base" /\ purge
       THEN at[path] ELSE None]
Blind == {path \in hidden : Visible(path)} # {}
Expected == {at[path] : path \in {q \in Placed \cup {"self"} : Visible(q)}} \cap Own

\* (PlanTrusting: a mutant, what cannot be inspected is taken not to be there.)
PlanTrusting(p, purge) ==
  LET plan == Planned(purge) IN
  Go(p, "confirm", [NoJob EXCEPT
    !.plan = plan, !.there = Expected,
    !.todo = {f \in Profiles : profile[f] \in Suspect}
             \cup {path \in Paths : plan[path] # None}])

Plan(p, purge) ==
  LET plan == Planned(purge) IN
  Go(p, "confirm", [NoJob EXCEPT
    !.plan = plan, !.failed = Blind, !.there = Expected,
    !.todo = {f \in Profiles : profile[f] \in Suspect}
             \cup {path \in Paths : plan[path] # None}])

\* A ~/.ovm that is a link is refused before anything else.
Begin(p) ==
  /\ pc[p] = "idle" /\ runs < MaxRuns
  /\ \E purge \in BOOLEAN : Plan(p, purge)
  /\ runs' = runs + 1
  /\ UNCHANGED <<files, layout, stray, history, changes, faults>>

\* A user who says no, a shell that cannot ask, or a ~/.ovm that is a link.
Cancel(p) ==
  /\ pc[p] = "confirm" /\ End(p)
  /\ UNCHANGED <<files, layout, history, counters>>

\* acquire_operation_lock: create_dir_all, then open the lock file in there.
MakeSelf(p, l) ==
  \/ /\ at["self"] # None
     /\ Go(p, l, [job[p] EXCEPT !.lock = at["self"]])
     /\ UNCHANGED <<at, used>>
  \/ /\ at["self"] = None
     /\ \E d \in Fresh(Own) : \E b \in IF at["base"] = None THEN Fresh(Own) \ {d} ELSE {at["base"]} :
          /\ at' = [at EXCEPT !["self"] = d, !["base"] = b]
          /\ used' = used \cup {d, b}
          /\ Go(p, l, [job[p] EXCEPT !.lock = d])

\* The lock is only taken when the plan found ~/.ovm/self, for taking it makes that.
Confirm(p) ==
  /\ pc[p] = "confirm"
  /\ at["base"] \notin Alien
  /\ IF job[p].plan["self"] # None
       THEN MakeSelf(p, "wait")
       ELSE Go(p, "check", job[p]) /\ UNCHANGED <<at, used>>
  /\ UNCHANGED <<profile, layout, stray, returned, counters>>

Lock(p) ==
  /\ pc[p] = "wait" /\ LockFree(job[p].lock)
  /\ Go(p, "check", job[p])
  /\ UNCHANGED <<files, layout, stray, history, counters>>

\* revalidate_managed_entries: refuses everything if anything has changed hands.
Revalidate(p) ==
  /\ pc[p] = "check"
  /\ IF \A path \in job[p].todo \cap Placed : path \notin hidden /\ IsManaged(path)
       THEN Go(p, "next", job[p]) /\ UNCHANGED stray
       ELSE End(p)
  /\ UNCHANGED <<files, layout, history, counters>>

\* The next item, done or failed.
Done(p, i)  == Go(p, "next", [job[p] EXCEPT !.todo = @ \ {i}, !.item = None])
Fails(p, i) == Go(p, "next", [job[p] EXCEPT !.todo = @ \ {i}, !.item = None, !.failed = TRUE])

\* remove_path_block, up to the text it will write.
ReadProfile(p, f) ==
  /\ pc[p] = "next" /\ f \in First(job[p].todo) \cap Profiles
  /\ CASE profile[f] = "plain" -> Done(p, f)
       [] profile[f] = "odd" -> Fails(p, f)
       [] profile[f] = "block" -> Go(p, "rewrite", [job[p] EXCEPT !.item = f])
  /\ UNCHANGED <<files, layout, stray, history, counters>>

\* The text without the block takes the place of whatever the profile holds by
\* now; a snippet of ovm's own that is left empty is removed.
Rewrite(p) ==
  /\ pc[p] = "rewrite"
  /\ profile' = [profile EXCEPT ![job[p].item] = "plain"]
  /\ Done(p, job[p].item)
  /\ UNCHANGED <<at, layout, stray, history, counters>>

\* The ownership check of execute, then remove_entry or authorize up to the
\* rename.  A link or a control plane that is gone has changed; a directory that
\* is gone is removed already.
Look(p, path) ==
  /\ pc[p] = "next" /\ path \in First(job[p].todo) \cap Paths
  /\ IF path \notin Placed /\ at[path] = None THEN Done(p, path)
     ELSE IF /\ path \in Placed => path \notin hidden /\ IsManaged(path)
             /\ path \notin Placed => at[path] \in Own
             /\ at[path] = job[p].plan[path]
       THEN Go(p, "move", [job[p] EXCEPT !.item = path])
       ELSE Fails(p, path)
  /\ UNCHANGED <<files, layout, stray, history, counters>>

\* (MoveUnverified: a mutant, what was renamed is not compared with the plan.)
MoveUnverified(p) ==
  LET path == job[p].item IN
  /\ pc[p] = "move" /\ at[path] # None
  /\ at' = [q \in Paths |-> IF q \in Within(path) THEN None ELSE at[q]]
  /\ Go(p, "delete",
        [job[p] EXCEPT !.aside = [q \in Paths |-> IF q \in Within(path) THEN at[q] ELSE None]])
  /\ UNCHANGED <<profile, layout, stray, history, counters>>

\* Renames it beside itself, with what it holds, and compares identities again.
Move(p) ==
  LET path == job[p].item IN
  /\ pc[p] = "move" /\ at[path] # None
  /\ at' = [q \in Paths |-> IF q \in Within(path) THEN None ELSE at[q]]
  /\ Go(p, IF at[path] = job[p].plan[path] THEN "delete" ELSE "back",
        [job[p] EXCEPT !.aside = [q \in Paths |-> IF q \in Within(path) THEN at[q] ELSE None]])
  /\ UNCHANGED <<profile, layout, stray, history, counters>>

\* There is nothing left to rename.
MoveFails(p) ==
  /\ pc[p] = "move" /\ at[job[p].item] = None
  /\ Fails(p, job[p].item)
  /\ UNCHANGED <<files, layout, stray, history, counters>>

Delete(p) ==
  /\ pc[p] = "delete"
  /\ Go(p, "next", [job[p] EXCEPT !.todo = @ \ {job[p].item}, !.item = None, !.aside = Nothing])
  /\ UNCHANGED <<files, layout, stray, history, counters>>

\* The rename that puts it back, its error ignored: a file takes the place of what
\* was put there meanwhile, a directory stays aside.
Reachable(path) == path \in Paths \ (outside \cup {"base"}) => at["base"] # None
PutBack(p) ==
  LET path == job[p].item IN
  /\ pc[p] = "back"
  /\ Go(p, "next", [job[p] EXCEPT !.todo = @ \ {path}, !.item = None, !.failed = TRUE,
                                  !.aside = Nothing])
  /\ IF Reachable(path) /\ (path \in Placed \/ at[path] = None)
       THEN /\ at' = [q \in Paths |-> IF q \in Within(path) THEN job[p].aside[q] ELSE at[q]]
            /\ returned' = returned \cup Left(job[p].aside)
            /\ UNCHANGED stray
       ELSE stray' = stray \cup Left(job[p].aside) /\ UNCHANGED <<at, returned>>
  /\ UNCHANGED <<profile, layout, used, counters>>

\* Any other error: the item fails, what was moved aside stays there, and the
\* removal goes on.
Fault(p) ==
  /\ faults < MaxFaults /\ pc[p] \in {"next", "rewrite", "move", "delete"}
  /\ \E i \in IF pc[p] = "next" THEN First(job[p].todo) ELSE {job[p].item} :
       Go(p, "next", [job[p] EXCEPT !.todo = @ \ {i}, !.item = None, !.failed = TRUE,
                                    !.aside = Nothing])
  /\ stray' = stray \cup Left(job[p].aside)
  /\ faults' = faults + 1
  /\ UNCHANGED <<files, layout, history, runs, changes>>

\* Exit 0 unless something failed.  What is left is the empty launcher directory
\* below ~/.ovm, which holds nothing the properties are about.
Finish(p) ==
  /\ pc[p] = "next" /\ job[p].todo = {} /\ End(p)
  /\ UNCHANGED <<files, layout, history, counters>>

-----------------------------------------------------------------------------
(* Everybody else.                                                         *)

\* A command that updates or repairs ovm, under the same lock.
UpdateStarts(p) ==
  /\ pc[p] = "idle" /\ runs < MaxRuns /\ MakeSelf(p, "u_wait")
  /\ runs' = runs + 1
  /\ UNCHANGED <<profile, layout, stray, returned, changes, faults>>

UpdateLocks(p) ==
  /\ pc[p] = "u_wait" /\ LockFree(job[p].lock)
  /\ Go(p, "u_work", job[p])
  /\ UNCHANGED <<files, layout, stray, history, counters>>

\* ensure_dirs: the directories may be gone from under the lock file.
UpdateRemakes(p) ==
  /\ pc[p] = "u_work" /\ at["self"] = None
  /\ \E d \in Fresh(Own) : \E b \in IF at["base"] = None THEN Fresh(Own) \ {d} ELSE {at["base"]} :
       /\ at' = [at EXCEPT !["self"] = d, !["base"] = b]
       /\ used' = used \cup {d, b}
  /\ UNCHANGED <<profile, layout, pc, job, stray, returned, counters>>

\* The control plane and the links are renamed into place; a foreign link stays.
UpdatePuts(p, path) ==
  /\ pc[p] = "u_work" /\ changes < MaxChanges
  /\ path \notin hidden /\ Visible(path) /\ Reachable(path)
  /\ path \in Links => at[path] = None \/ IsManaged(path)
  /\ \E o \in Fresh(Own) : at' = [at EXCEPT ![path] = o] /\ used' = used \cup {o}
  /\ changes' = changes + 1
  /\ UNCHANGED <<profile, layout, pc, job, stray, returned, runs, faults>>

UpdateEnds(p) ==
  /\ pc[p] = "u_work" /\ End(p)
  /\ UNCHANGED <<files, layout, history, counters>>

\* A lock that is not granted within a minute ends the command.
TimesOut(p) ==
  /\ pc[p] \in {"wait", "u_wait"} /\ ~ LockFree(job[p].lock) /\ End(p)
  /\ UNCHANGED <<files, layout, history, counters>>

Kill(p) ==
  /\ pc[p] # "idle" /\ faults < MaxFaults /\ End(p)
  /\ faults' = faults + 1
  /\ UNCHANGED <<files, layout, history, runs, changes>>

\* A user moves something away, or puts something of their own in its place.
UserPuts(path) ==
  /\ changes < MaxChanges /\ path \notin hidden /\ Reachable(path)
  /\ \E o \in Fresh(Alien) \cup {None} :
       /\ at' = [q \in Paths |-> IF q = path THEN o
                                 ELSE IF q \in Within(path) THEN None ELSE at[q]]
       /\ used' = used \cup ({o} \ {None})
  /\ changes' = changes + 1
  /\ UNCHANGED <<profile, layout, pc, job, stray, returned, runs, faults>>

UserEdits(f) ==
  /\ changes < MaxChanges
  /\ \E text \in Texts \ {profile[f]} : profile' = [profile EXCEPT ![f] = text]
  /\ changes' = changes + 1
  /\ UNCHANGED <<at, layout, pc, job, stray, history, runs, faults>>

Init ==
  /\ outside \in Layouts /\ hidden \in Unreadable
  /\ \E c \in Starts : WellFormed(c, outside) /\ at = c /\ used = Left(c)
  /\ profile \in [Profiles -> Texts]
  /\ pc = [p \in Procs |-> "idle"] /\ job = [p \in Procs |-> NoJob]
  /\ stray = {} /\ returned = {}
  /\ runs = 0 /\ changes = 0 /\ faults = 0

Uninstall(p) ==
  \/ Begin(p) \/ Cancel(p) \/ Confirm(p) \/ Lock(p) \/ Revalidate(p)
  \/ \E f \in Profiles : ReadProfile(p, f)
  \/ Rewrite(p)
  \/ \E path \in Paths : Look(p, path)
  \/ Move(p) \/ MoveFails(p) \/ Delete(p) \/ PutBack(p) \/ Finish(p)

Update(p) ==
  \/ UpdateStarts(p) \/ UpdateLocks(p) \/ UpdateRemakes(p) \/ UpdateEnds(p)
  \/ \E path \in Placed : UpdatePuts(p, path)

Next ==
  \/ \E p \in Procs : Uninstall(p) \/ Update(p) \/ TimesOut(p) \/ Fault(p) \/ Kill(p)
  \/ \E path \in Paths : UserPuts(path)
  \/ \E f \in Profiles : UserEdits(f)

Spec == Init /\ [][Next]_vars

-----------------------------------------------------------------------------
(* Properties.                                                             *)

Kept(p) == Left(job[p].aside)

\* Types; and nothing lies in two places at once, in a directory that is gone, or
\* among what a command that ended has left.
TypeOK ==
  /\ at \in Contents /\ profile \in [Profiles -> Texts]
  /\ outside \in Layouts /\ hidden \in Unreadable
  /\ pc \in [Procs -> PCs] /\ job \in [Procs -> Job]
  /\ stray \subseteq used /\ returned \subseteq used /\ used \subseteq Objects
  /\ runs \in 0..MaxRuns /\ changes \in 0..MaxChanges /\ faults \in 0..MaxFaults
  /\ WellFormed(at, outside) /\ Left(at) \subseteq used /\ Left(at) \cap stray = {}
  /\ \A p \in Procs : /\ Kept(p) \subseteq used /\ Kept(p) \cap (Left(at) \cup stray) = {}
                      /\ \A q \in Procs \ {p} : Kept(p) \cap Kept(q) = {}

Present == Left(at) \cup stray \cup UNION {Kept(p) : p \in Procs}
Confirmed(p) == {path \in Paths : job[p].plan[path] # None /\ job[p].aside[path] = job[p].plan[path]}
Removing == {"confirm", "wait", "check", "next", "rewrite", "move", "delete"}

\* Whatever the uninstall destroys was in the plan that was shown and confirmed, or
\* lay in a directory that was: not what a user or another command has put in
\* its place since, at whatever moment.  The exception is a file that PutBack
\* replaces (remove_non_recursive_quarantined).
LosesOnlyConfirmed ==
  [][\A p \in Procs : pc[p] \in Removing /\ pc'[p] # pc[p] =>
       \A o \in Present \ Present' :
         \E path \in Confirmed(p) : \E q \in Within(path) : o = job[p].aside[q]]_vars

\* A run that exits 0 leaves nothing of ovm's where it found it: not what it could
\* not inspect, nor what changed hands, whatever failed and whoever runs beside it
\* (only what another uninstall had aside by mistake comes back unseen).
SuccessMeansGone ==
  [][\A p \in Procs : pc[p] = "next" /\ pc'[p] = "idle" /\ job[p].todo = {} /\ ~ job[p].failed
       => Left(at) \cap job[p].there \subseteq returned]_vars
=============================================================================

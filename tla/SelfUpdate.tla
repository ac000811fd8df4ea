----------------------------- MODULE SelfUpdate -----------------------------
(***************************************************************************)
(* The self-managed ovm, ~/.ovm/self and the control plane ~/.ovm/bin/ovm, *)
(* and the processes that change it: `self update`, the background staging *)
(* of an update and its activation by the next command, the install of a   *)
(* notify prompt, `self use`, `self rollback`, `self prune` and `self      *)
(* repair`.  Code: crates/ovm/src/self_manager.rs and, under commands/,    *)
(* self_update/direct.rs, self_autoupdate.rs and self_manage.rs.           *)
(*                                                                         *)
(* One step is one file-system effect or one read another process can come *)
(* between.  Contents are abstracted: a binary is the version it was built *)
(* from, a bundle directory is complete, partial (one file of it is gone)  *)
(* or absent, and the release feed answers with any release.               *)
(***************************************************************************)
EXTENDS Naturals, FiniteSets

CONSTANTS
  Procs,      \* ovm processes
  Releases,   \* release versions, in semver order
  Devs,       \* dev snapshots, unordered against releases
  Side,       \* [Versions -> side binaries beside `ovm` in the bundle]
  Installed,  \* the bundles that are there at the start
  Broken,     \* versions whose control plane fails its activation probe
  Ops,        \* [Procs -> SUBSET OpNames], the commands each process may run
  MaxOps,     \* bound: commands started in a behaviour
  MaxFaults,  \* bound: I/O errors and probe timeouts
  MaxKills,   \* bound: processes killed by SIGKILL or a power loss
  None        \* no version, no process, no file

Versions == Releases \cup Devs
Names == UNION {Side[v] : v \in Versions}

\* Commands that end in activate_release, and those that only switch.
Activating == {"update", "activate", "installNow"}
Switching  == {"use", "rollback"}
OpNames == Activating \cup Switching \cup {"stage", "prune", "repair"}

\* apply_version; what it and activate_release do before the change is final;
\* the two restores; removals.
Applying == {"sides", "previous", "current", "obsolete", "sideFile", "reconcile"}
Changing == {"backup", "control", "probe"} \cup Applying
Undoing  == {"undoUse", "undo"}
Removing == {"prune", "retire"}
Locked == {"install", "target", "snapshot", "doom", "repair", "retain", "unlock"}
            \cup Changing \cup Undoing \cup Removing
Unlocked == {"resolve", "gate", "pending", "stale", "latest", "staged", "record",
             "offer", "base", "fetch", "lock", "write", "drop", "clear",
             "forget", "blame"}
PCs == {"idle"} \cup Unlocked \cup Locked

\* The order restore_selection and then activate_release put paths back in.
\* Restoring a symlink unlinks it before it is linked again.
UndoSteps == {"unlinkCurrent", "linkCurrent", "unlinkPrevious", "linkPrevious",
              "sideLinks", "launchers", "control", "backup", "done"}

ASSUME ConstantsAssumption ==
  /\ Releases \subseteq Nat
  /\ None \notin Versions /\ None \notin Procs /\ None \notin OpNames
  /\ None \notin UndoSteps
  /\ Releases \cap Devs = {}
  /\ DOMAIN Side = Versions
  /\ Broken \subseteq Versions /\ Installed \subseteq Versions
  /\ Ops \in [Procs -> SUBSET OpNames]
  /\ MaxOps \in Nat /\ MaxFaults \in Nat /\ MaxKills \in Nat

VARIABLES
  bundle,    \* [Versions -> state of self/versions/<version>]
  current,   \* the version self/current names
  previous,  \* the version self/previous names
  sideFile,  \* side names recorded in self/side-links, None: no file
  links,     \* managed side links in the launcher directory
  control,   \* the version whose binary is the control plane
  backup,    \* the version whose binary is self/control-previous
  pending,   \* the version in the pending-update marker
  attempt,   \* the version of the last recorded staging attempt
  lock,      \* the holder of self/.operation.lock
  pc, job,   \* control state and locals of each process
  started, faults, kills,  \* counted against the bounds
  torn       \* history: a change was cut short, or its undo failed

pointers  == <<current, previous>>
launchers == <<sideFile, links>>
planes    == <<control, backup>>
markers   == <<pending, attempt>>
counters  == <<started, faults, kills>>
disk == <<bundle, pointers, launchers, planes, markers>>
vars == <<disk, lock, pc, job, counters, torn>>

VersionOrNone == Versions \cup {None}

\* SelectionSnapshot, and the two control-plane snapshots of activate_release.
Saved == [current  : VersionOrNone, previous : VersionOrNone,
          sideFile : {None} \cup SUBSET Names, links : SUBSET Names,
          control  : VersionOrNone, backup : VersionOrNone]

Disk == [current |-> current, previous |-> previous, sideFile |-> sideFile,
         links |-> links, control |-> control, backup |-> backup]

Job == [op     : OpNames \cup {None},
        ver    : VersionOrNone,       \* the version to install or select
        base   : VersionOrNone,       \* the version stage_latest found selected
        saved  : Saved,
        step   : UndoSteps \cup {None},
        doomed : SUBSET Versions,     \* versions a prune still removes
        staged : BOOLEAN,             \* stage_latest has returned
        ok     : BOOLEAN,             \* the result of what ran under the lock
        undone : BOOLEAN]             \* every restore succeeded

NoSave == [current |-> None, previous |-> None, sideFile |-> None, links |-> {},
           control |-> None, backup |-> None]
NoJob == [op |-> None, ver |-> None, base |-> None, saved |-> NoSave,
          step |-> None, doomed |-> {}, staged |-> FALSE, ok |-> TRUE,
          undone |-> TRUE]

-----------------------------------------------------------------------------
(* Helpers.                                                                *)

\* require_complete
Complete(v) == v # None /\ bundle[v] = "complete"

\* semver order; a dev snapshot is newer than nothing and nothing than it.
NewerThan(v, w) == v \in Releases /\ w \in Releases /\ w < v

\* selection_gate and update_decision: only an older or equal release stops an
\* explicit update.  With nothing selected the baseline is the release the
\* running binary was compiled as, any of them.
MayProceed(v) ==
  \/ current \in Devs
  \/ NewerThan(v, current)
  \/ current = None /\ \E compiled \in Releases : NewerThan(v, compiled)
MayRefuse(v) ==
  \/ current \in Releases /\ ~ NewerThan(v, current)
  \/ current = None

\* The side names a switch may remove: the recorded ones, or else those of the
\* bundle that is selected.
OldNames(s) ==
  IF s.sideFile # None THEN s.sideFile
  ELSE IF s.current # None /\ bundle[s.current] = "complete" THEN Side[s.current]
  ELSE {}

CapturedNew(s, v) == Side[v]

\* The launcher paths SelectionSnapshot holds.
Captured(s, v) == (OldNames(s) \cap s.links) \cup Side[v]

InactiveButPrevious(V) == {v \in V : v # current /\ Complete(v)}

Inactive(V) == {v \in V : v \notin {current, previous} /\ Complete(v)}

Go(p, l) == pc' = [pc EXCEPT ![p] = l]
SetJob(p, j) == job' = [job EXCEPT ![p] = j]
Keep == UNCHANGED <<lock, counters, torn>>

\* The process ends, its locals with it.
Finish(p) ==
  /\ Go(p, "idle")
  /\ SetJob(p, NoJob)

-----------------------------------------------------------------------------
(* A command starts.                                                       *)

Entry == [update |-> "resolve", activate |-> "pending", stage |-> "latest",
          installNow |-> "offer", use |-> "lock", rollback |-> "lock",
          prune |-> "lock", repair |-> "lock"]

Start(p) ==
  /\ pc[p] = "idle"
  /\ started < MaxOps
  /\ \E o \in Ops[p] : \E v \in IF o = "use" THEN Versions ELSE {None} :
       /\ Go(p, Entry[o])
       /\ SetJob(p, [NoJob EXCEPT !.op = o, !.ver = v])
  /\ started' = started + 1
  /\ UNCHANGED <<disk, lock, faults, kills, torn>>

-----------------------------------------------------------------------------
(* Before the lock: self update.                                           *)

\* prepare_from_api downloads and verifies the release the feed names.
Resolve(p) ==
  /\ pc[p] = "resolve"
  /\ \/ \E r \in Releases :
          /\ SetJob(p, [job[p] EXCEPT !.ver = r])
          /\ Go(p, "gate")
     \/ Finish(p)                       \* no such release, no network
  /\ UNCHANGED disk /\ Keep

\* update_with compares the release with the selected version, then waits for
\* the lock.  Nothing is compared again once the lock is held.
Gate(p) ==
  /\ pc[p] = "gate"
  /\ \/ MayProceed(job[p].ver) /\ Go(p, "lock") /\ UNCHANGED job
     \/ MayRefuse(job[p].ver) /\ Finish(p)
  /\ UNCHANGED disk /\ Keep

-----------------------------------------------------------------------------
(* Before the lock: a staged update is activated by the next command.      *)

ReadPending(p) ==
  /\ pc[p] = "pending"
  /\ \/ /\ pending # None
        /\ SetJob(p, [job[p] EXCEPT !.ver = pending])
        /\ Go(p, "stale")
     \/ Finish(p)              \* no marker, unreadable, not the control plane
  /\ UNCHANGED disk /\ Keep

\* The checks of try_activate_pending; a stale marker is dropped.
CheckStale(p) ==
  /\ pc[p] = "stale"
  /\ IF Complete(job[p].ver) /\ NewerThan(job[p].ver, current)
     THEN Go(p, "lock") ELSE Go(p, "drop")
  /\ UNCHANGED <<disk, job>> /\ Keep

-----------------------------------------------------------------------------
(* Before the lock: background staging and the notify prompt.              *)

\* try_refresh_self: a newer release in the cache or the feed.
ReadLatest(p) ==
  /\ pc[p] = "latest"
  /\ \/ \E r \in Releases :
          /\ NewerThan(r, current)
          /\ SetJob(p, [job[p] EXCEPT !.ver = r])
          /\ Go(p, "staged")
     \/ Finish(p)
  /\ UNCHANGED disk /\ Keep

\* Nothing to do when it is staged already, or when the last attempt of it was
\* too recent (the clock is not modelled: either outcome).
CheckStaged(p) ==
  /\ pc[p] = "staged"
  /\ \/ pending # job[p].ver /\ Go(p, "record") /\ UNCHANGED job
     \/ pending = job[p].ver /\ Finish(p)
     \/ attempt = job[p].ver /\ Finish(p)
  /\ UNCHANGED disk /\ Keep

\* A marker that cannot be read stops the staging and counts as an attempt.
MarkerUnreadable(p) ==
  /\ pc[p] = "staged"
  /\ faults < MaxFaults
  /\ faults' = faults + 1
  /\ attempt' = job[p].ver
  /\ Finish(p)
  /\ UNCHANGED <<bundle, pointers, launchers, planes, pending>>
  /\ UNCHANGED <<lock, started, kills, torn>>

\* record_staging_attempt, before the attempt runs; unrecorded, it does not run.
Record(p) ==
  /\ pc[p] = "record"
  /\ \/ /\ attempt' = job[p].ver
        /\ Go(p, "base") /\ UNCHANGED <<job, faults>>
     \/ /\ faults < MaxFaults
        /\ faults' = faults + 1
        /\ Finish(p) /\ UNCHANGED attempt
  /\ UNCHANGED <<bundle, pointers, launchers, planes, pending>>
  /\ UNCHANGED <<lock, started, kills, torn>>

\* try_notify_self: the cached latest is newer, and the user says install.
Offer(p) ==
  /\ pc[p] = "offer"
  /\ \/ (\E r \in Releases : NewerThan(r, current)) /\ Go(p, "base") /\ UNCHANGED job
     \/ Finish(p)
  /\ UNCHANGED disk /\ Keep

\* stage_latest_with reads the selected version, then downloads what the feed
\* names by now, and compares the two.
ReadBase(p) ==
  /\ pc[p] = "base"
  /\ IF current \in Releases
     THEN SetJob(p, [job[p] EXCEPT !.base = current]) /\ Go(p, "fetch")
     ELSE Finish(p)
  /\ UNCHANGED disk /\ Keep

Fetch(p) ==
  /\ pc[p] = "fetch"
  /\ \/ \E r \in Releases :
          /\ NewerThan(r, job[p].base)
          /\ SetJob(p, [job[p] EXCEPT !.ver = r])
          /\ Go(p, "lock")
     \/ Finish(p)
  /\ UNCHANGED disk /\ Keep

-----------------------------------------------------------------------------
(* The operation lock.                                                     *)

\* What a command does first once it holds the lock.
FirstLocked(j) ==
  CASE j.op \in {"update", "stage"} -> "install"
    [] j.op = "installNow" -> IF j.staged THEN "snapshot" ELSE "install"
    [] j.op \in {"activate", "use"} -> "snapshot"
    [] j.op = "rollback" -> "target"
    [] j.op = "prune"    -> "doom"
    [] OTHER             -> "repair"

\* acquire_operation_lock polls; after OPERATION_LOCK_TIMEOUT it gives up, and
\* with it the command: a pending marker stays for the next one.
Acquire(p) ==
  /\ pc[p] = "lock"
  /\ \/ /\ lock = None
        /\ lock' = p
        /\ Go(p, FirstLocked(job[p])) /\ UNCHANGED job
     \/ /\ lock # None
        /\ Finish(p) /\ UNCHANGED lock
  /\ UNCHANGED <<disk, counters, torn>>

Fail(p) == SetJob(p, [job[p] EXCEPT !.ok = FALSE]) /\ Go(p, "unlock")

\* install_bundle renames a finished staging directory into place.  A complete
\* directory of that version holds the same files; an incomplete one is an error.
InstallBundle(p) ==
  /\ pc[p] = "install"
  /\ LET next == IF job[p].op = "update" THEN "snapshot" ELSE "unlock"
     IN  CASE bundle[job[p].ver] = "absent" ->
                /\ bundle' = [bundle EXCEPT ![job[p].ver] = "complete"]
                /\ Go(p, next) /\ UNCHANGED job
           [] bundle[job[p].ver] = "complete" ->
                Go(p, next) /\ UNCHANGED <<bundle, job>>
           [] OTHER -> Fail(p) /\ UNCHANGED bundle
  /\ UNCHANGED <<pointers, launchers, planes, markers>> /\ Keep

\* rollback: the target is read, and confirmed, under the lock.
RollbackTarget(p) ==
  /\ pc[p] = "target"
  /\ \/ /\ previous # None
        /\ SetJob(p, [job[p] EXCEPT !.ver = previous])
        /\ Go(p, "snapshot")
     \/ Fail(p)
  /\ UNCHANGED disk /\ Keep

\* snapshot_selection and the snapshots of control plane and backup.
Snapshot(p) ==
  /\ pc[p] = "snapshot"
  /\ IF Complete(job[p].ver)
     THEN /\ SetJob(p, [job[p] EXCEPT !.saved = Disk])
          /\ Go(p, IF job[p].op \in Activating THEN "backup" ELSE "sides")
     ELSE Fail(p)
  /\ UNCHANGED disk /\ Keep

-----------------------------------------------------------------------------
(* activate_release and use_version, under the lock.                       *)

\* refresh_control_plane: the old control plane is copied aside, then replaced.
BackUp(p) ==
  /\ pc[p] = "backup"
  /\ backup' = IF control = None THEN backup ELSE control
  /\ Go(p, "control")
  /\ UNCHANGED <<bundle, pointers, launchers, control, markers, job>> /\ Keep

CopyControl(p) ==
  /\ pc[p] = "control"
  /\ control' = job[p].ver
  /\ Go(p, "sides")
  /\ UNCHANGED <<bundle, pointers, launchers, backup, markers, job>> /\ Keep

PrepareSideLinks(p) ==
  /\ pc[p] = "sides"
  /\ links' = links \cup Side[job[p].ver]
  /\ Go(p, IF current = job[p].ver THEN "obsolete" ELSE "previous")
  /\ UNCHANGED <<bundle, pointers, sideFile, planes, markers, job>> /\ Keep

SwitchPrevious(p) ==
  /\ pc[p] = "previous"
  /\ previous' = IF current = None THEN previous ELSE current
  /\ Go(p, "current")
  /\ UNCHANGED <<bundle, current, launchers, planes, markers, job>> /\ Keep

SwitchCurrent(p) ==
  /\ pc[p] = "current"
  /\ current' = job[p].ver
  /\ Go(p, "obsolete")
  /\ UNCHANGED <<bundle, previous, launchers, planes, markers, job>> /\ Keep

RemoveObsolete(p) ==
  /\ pc[p] = "obsolete"
  /\ links' = links \ (OldNames(job[p].saved) \ Side[job[p].ver])
  /\ Go(p, "sideFile")
  /\ UNCHANGED <<bundle, pointers, sideFile, planes, markers, job>> /\ Keep

WriteSideFile(p) ==
  /\ pc[p] = "sideFile"
  /\ sideFile' = Side[job[p].ver]
  /\ Go(p, "reconcile")
  /\ UNCHANGED <<bundle, pointers, links, planes, markers, job>> /\ Keep

\* reconcile_product_launchers, whose links name the control plane whatever is
\* selected, ends apply_version: a switch is done, an activation still has to
\* pass its probe.
ReconcileLaunchers(p) ==
  /\ pc[p] = "reconcile"
  /\ Go(p, IF job[p].op \in Activating THEN "probe" ELSE "unlock")
  /\ UNCHANGED <<disk, job>> /\ Keep

\* probe_control_plane runs `self current` with the new control plane.
ProbePasses(v) == control \notin Broken /\ current = v /\ Complete(v)

\* use_version failed: it restores its own snapshot.  Anything else of an
\* activation failed: activate_release restores everything.
StartUndo(p, l) ==
  /\ SetJob(p, [job[p] EXCEPT !.step = "unlinkCurrent"])
  /\ Go(p, l)

Probe(p) ==
  /\ pc[p] = "probe"
  /\ IF ProbePasses(job[p].ver)
     THEN /\ SetJob(p, [job[p] EXCEPT !.doomed = Inactive(Devs)])
          /\ Go(p, "prune")
     ELSE StartUndo(p, "undo")
  /\ UNCHANGED disk /\ Keep

-----------------------------------------------------------------------------
(* Restoring the snapshots.                                                *)

UndoBackupFirst ==
  [unlinkCurrent |-> "linkCurrent", linkCurrent |-> "unlinkPrevious",
   unlinkPrevious |-> "linkPrevious", linkPrevious |-> "sideLinks",
   sideLinks |-> "launchers", launchers |-> "backup",
   backup |-> "control", control |-> "done"]

UndoNext == [unlinkCurrent |-> "linkCurrent", linkCurrent |-> "unlinkPrevious",
             unlinkPrevious |-> "linkPrevious", linkPrevious |-> "sideLinks",
             sideLinks |-> "launchers", launchers |-> "control",
             control |-> "backup", backup |-> "done"]

\* restore_selection ends with the launchers; the control planes follow it.
NextStep(l, s) == IF l = "undoUse" /\ s = "launchers" THEN "done" ELSE UndoNext[s]

\* PathSnapshot::restore, one path after the other.
Restore(p, saved, s) ==
  /\ current' = CASE s = "unlinkCurrent" -> None
                  [] s = "linkCurrent" -> saved.current
                  [] OTHER -> current
  /\ previous' = CASE s = "unlinkPrevious" -> None
                   [] s = "linkPrevious" -> saved.previous
                   [] OTHER -> previous
  /\ sideFile' = IF s = "sideLinks" THEN saved.sideFile ELSE sideFile
  /\ links' = IF s = "launchers"
              THEN LET paths == Captured(saved, job[p].ver)
                   IN  (links \ paths) \cup (saved.links \cap paths)
              ELSE links
  /\ control' = IF s = "control" THEN saved.control ELSE control
  /\ backup' = IF s = "backup" THEN saved.backup ELSE backup

Undo(p) ==
  /\ pc[p] \in Undoing /\ job[p].step # "done"
  /\ Restore(p, job[p].saved, job[p].step)
  /\ SetJob(p, [job[p] EXCEPT !.step = NextStep(pc[p], @)])
  /\ UNCHANGED <<bundle, markers, pc>> /\ Keep

UndoneSwitch(p) ==
  /\ pc[p] \in Undoing /\ job[p].step = "done"
  /\ Fail(p)
  /\ UNCHANGED disk /\ Keep

\* An activation undoes the switch first and then everything.
Undone(p) ==
  /\ pc[p] \in Undoing /\ job[p].step = "done"
  /\ IF pc[p] = "undoUse" /\ job[p].op \in Activating
     THEN StartUndo(p, "undo")
     ELSE Fail(p)
  /\ UNCHANGED disk /\ Keep

-----------------------------------------------------------------------------
(* Removing versions, under the lock.                                      *)

\* `self prune` keeps the newest of the inactive dev snapshots; their order is
\* not modelled: any of them.
ChooseDoomed(p) ==
  /\ pc[p] = "doom"
  /\ \E D \in SUBSET Inactive(Devs) : SetJob(p, [job[p] EXCEPT !.doomed = D])
  /\ Go(p, "prune")
  /\ UNCHANGED disk /\ Keep

\* prune_releases_older_than: inactive releases, those of them that are old.
ChooseOld(p) ==
  /\ pc[p] = "retain"
  /\ \E D \in SUBSET Inactive(Releases) : SetJob(p, [job[p] EXCEPT !.doomed = D])
  /\ Go(p, "retire")
  /\ UNCHANGED disk /\ Keep

\* remove_dir_all of one version: its first file, then the rest of it.
RemoveVersion(p) ==
  /\ pc[p] \in Removing
  /\ \E v \in job[p].doomed :
       IF bundle[v] = "complete"
       THEN /\ \A w \in job[p].doomed : bundle[w] # "partial"
            /\ bundle' = [bundle EXCEPT ![v] = "partial"]
            /\ UNCHANGED job
       ELSE /\ bundle' = [bundle EXCEPT ![v] = "absent"]
            /\ SetJob(p, [job[p] EXCEPT !.doomed = @ \ {v}])
  /\ UNCHANGED <<pointers, launchers, planes, markers, pc>> /\ Keep

Removed(p) ==
  /\ pc[p] \in Removing /\ job[p].doomed = {}
  /\ Go(p, IF pc[p] = "prune" /\ job[p].op \in Activating THEN "retain" ELSE "unlock")
  /\ UNCHANGED <<disk, job>> /\ Keep

\* repair_control_plane
RepairControl(p) ==
  /\ pc[p] = "repair"
  /\ IF backup = None THEN Fail(p) /\ UNCHANGED control
     ELSE control' = backup /\ Go(p, "unlock") /\ UNCHANGED job
  /\ UNCHANGED <<bundle, pointers, launchers, backup, markers>> /\ Keep

-----------------------------------------------------------------------------
(* After the lock.                                                         *)

\* What a command does once the lock is dropped, by its result.
AfterLock(j) ==
  CASE j.op = "update" /\ j.ok                    -> "forget"
    [] j.op = "activate"                          -> "clear"
    [] j.op = "installNow" /\ j.staged            -> "clear"
    [] j.op = "installNow" /\ j.ok /\ ~j.staged   -> "lock"
    [] j.op = "stage" /\ j.ok                     -> "write"
    [] OTHER                                      -> "idle"

Unlock(p) ==
  /\ pc[p] = "unlock"
  /\ lock' = None
  /\ LET next == AfterLock(job[p])
     IN  /\ Go(p, next)
         /\ SetJob(p, IF next = "idle" THEN NoJob
                      ELSE [job[p] EXCEPT !.staged = TRUE])
  /\ UNCHANGED <<disk, counters, torn>>

\* write_pending: the marker of a staged update.
WritePending(p) ==
  /\ pc[p] = "write"
  /\ pending' = job[p].ver
  /\ Finish(p)
  /\ UNCHANGED <<bundle, pointers, launchers, planes, attempt>> /\ Keep

\* An activation goes on to clear_staging_failure, or records that it failed.
AfterClear(p) ==
  IF pc[p] = "clear" /\ job[p].op = "activate"
  THEN Go(p, IF job[p].ok THEN "forget" ELSE "blame") /\ UNCHANGED job
  ELSE Finish(p)

\* clear_pending removes whatever marker is there by now.
ClearPending(p) ==
  /\ pc[p] \in {"drop", "clear"}
  /\ pending' = None
  /\ AfterClear(p)
  /\ UNCHANGED <<bundle, pointers, launchers, planes, attempt>> /\ Keep

Forget(p) ==
  /\ pc[p] = "forget"
  /\ attempt' = None
  /\ Finish(p)
  /\ UNCHANGED <<bundle, pointers, launchers, planes, pending>> /\ Keep

Blame(p) ==
  /\ pc[p] = "blame"
  /\ attempt' = job[p].ver
  /\ Finish(p)
  /\ UNCHANGED <<bundle, pointers, launchers, planes, pending>> /\ Keep

-----------------------------------------------------------------------------
(* Failures.                                                               *)

\* An I/O error, or a probe that is too slow, instead of the step.  use_version
\* undoes what apply_version left; a prune that fails is reported as a failed
\* activation but undoes nothing; retention and the marker are best effort.
FaultyStep(p) ==
  \/ pc[p] \in {"install", "snapshot", "prune", "repair"} /\ Fail(p)
  \/ pc[p] \in {"backup", "control", "probe"} /\ StartUndo(p, "undo")
  \/ pc[p] \in Applying /\ StartUndo(p, "undoUse")
  \/ pc[p] = "retire" /\ Go(p, "unlock") /\ UNCHANGED job
  \/ pc[p] \in {"drop", "clear"} /\ AfterClear(p)

Fault(p) ==
  /\ faults < MaxFaults
  /\ FaultyStep(p)
  /\ faults' = faults + 1
  /\ UNCHANGED <<disk, lock, started, kills, torn>>

\* The last attempt to restore a path: an activation repeats those of its switch.
LastRestore(p) == pc[p] = "undo" \/ job[p].op \in Switching

\* A restore that fails goes on with the next path; a pointer that could not be
\* unlinked is not linked either.
UndoFault(p) ==
  /\ pc[p] \in Undoing /\ job[p].step # "done"
  /\ faults < MaxFaults
  /\ LET s == job[p].step
         next == CASE s = "unlinkCurrent"  -> "unlinkPrevious"
                   [] s = "unlinkPrevious" -> "sideLinks"
                   [] OTHER                -> NextStep(pc[p], s)
     IN  SetJob(p, [job[p] EXCEPT !.step = next,
                                  !.undone = @ /\ ~ LastRestore(p)])
  /\ faults' = faults + 1
  /\ torn' = (torn \/ LastRestore(p))
  /\ UNCHANGED <<disk, lock, pc, started, kills>>

MaskedBeforeProbe(p) ==
  \/ pc[p] \in (Changing \ {"probe"}) \cup Undoing \cup {"repair"}
  \/ pc[p] = "prune" /\ job[p].op \in Activating
  \/ pc[p] = "snapshot" /\ job[p].op \in Switching

\* BlockedTerminationSignals: from the end of the snapshots to the end of an
\* activation's prune; all of a switch and of a repair.
Masked(p) ==
  \/ pc[p] \in Changing \cup Undoing \cup {"repair"}
  \/ pc[p] = "prune" /\ job[p].op \in Activating
  \/ pc[p] = "snapshot" /\ job[p].op \in Switching

\* The kernel drops the lock of a dead process; the disk stays as it is.
Die(p) ==
  /\ pc[p] # "idle"
  /\ Finish(p)
  /\ lock' = IF lock = p THEN None ELSE lock
  /\ UNCHANGED <<disk, started, faults>>

\* SIGINT, SIGTERM or SIGHUP.
Interrupt(p) ==
  /\ ~ Masked(p)
  /\ Die(p)
  /\ UNCHANGED <<kills, torn>>

Kill(p) ==
  /\ kills < MaxKills
  /\ Die(p)
  /\ kills' = kills + 1
  /\ torn' = (torn \/ pc[p] \in Changing \cup Undoing)

-----------------------------------------------------------------------------
(* The direct installer has installed a version, selected it and copied its *)
(* `ovm` to the control plane; dev-install.sh may have added snapshots, or   *)
(* switched to one, and an earlier command may have staged an update.  An    *)
(* old install has no record of its side links.                              *)

Init ==
  /\ bundle = [v \in Versions |-> IF v \in Installed THEN "complete" ELSE "absent"]
  /\ current \in Installed \ Broken
  /\ previous \in (Installed \ {current}) \cup {None}
  /\ sideFile \in {None, Side[current]} /\ links = Side[current]
  /\ control = current /\ backup = None
  /\ pending \in (Installed \cap Releases) \cup {None}
  /\ attempt = pending
  /\ lock = None
  /\ pc = [p \in Procs |-> "idle"] /\ job = [p \in Procs |-> NoJob]
  /\ started = 0 /\ faults = 0 /\ kills = 0 /\ torn = FALSE

Advance(p) ==
  \/ Resolve(p) \/ Gate(p) \/ ReadPending(p) \/ CheckStale(p) \/ ReadLatest(p)
  \/ CheckStaged(p) \/ MarkerUnreadable(p) \/ Record(p) \/ Offer(p) \/ ReadBase(p) \/ Fetch(p)
  \/ Acquire(p) \/ InstallBundle(p) \/ RollbackTarget(p) \/ Snapshot(p)
  \/ BackUp(p) \/ CopyControl(p) \/ PrepareSideLinks(p) \/ SwitchPrevious(p)
  \/ SwitchCurrent(p) \/ RemoveObsolete(p) \/ WriteSideFile(p) \/ ReconcileLaunchers(p) \/ Probe(p)
  \/ Undo(p) \/ Undone(p) \/ ChooseDoomed(p) \/ ChooseOld(p) \/ RemoveVersion(p)
  \/ Removed(p) \/ RepairControl(p) \/ Unlock(p) \/ WritePending(p)
  \/ ClearPending(p) \/ Forget(p) \/ Blame(p)

Step(p) == Start(p) \/ Advance(p) \/ Fault(p) \/ UndoFault(p) \/ Interrupt(p) \/ Kill(p)

Next == \E p \in Procs : Step(p)

Spec == Init /\ [][Next]_vars

-----------------------------------------------------------------------------
(* Properties.                                                             *)

TypeOK ==
  /\ bundle \in [Versions -> {"complete", "partial", "absent"}]
  /\ current \in VersionOrNone /\ previous \in VersionOrNone
  /\ sideFile \in {None} \cup SUBSET Names /\ links \in SUBSET Names
  /\ control \in VersionOrNone /\ backup \in VersionOrNone
  /\ pending \in Releases \cup {None} /\ attempt \in Releases \cup {None}
  /\ lock \in Procs \cup {None}
  /\ pc \in [Procs -> PCs] /\ job \in [Procs -> Job]
  /\ started \in Nat /\ faults \in Nat /\ kills \in Nat /\ torn \in BOOLEAN

\* Neither the selected version nor the one a rollback returns to is ever
\* pruned, by whatever order of updates, switches, prunes, undos and kills:
\* prunable_dev_versions and prune_releases_older_than spare both.
PointersComplete ==
  /\ current # None => bundle[current] = "complete"
  /\ previous # None => bundle[previous] = "complete"

\* "A failed activation probe must roll back": a change that was undone leaves
\* pointers, side links, control plane and backup as they were when it began,
\* whichever of its steps failed.
UndoneIsUnchanged ==
  \A p \in Procs :
    pc[p] = "unlock" /\ job[p].step = "done" /\ job[p].undone
      => Disk = job[p].saved

\* Between changes the launcher directory has the side links of the selected
\* version, the control plane and its backup pass the probe, and a rollback
\* goes somewhere else: termination signals, I/O errors and broken releases
\* never leave a change half made (only a kill or a failed undo does).
Coherent ==
  lock = None /\ ~torn =>
    /\ current # None
    /\ sideFile \in {None, Side[current]} /\ links = Side[current]
    /\ control \notin Broken /\ backup \notin Broken
    /\ previous # current

\* While an activation is under way, even right after its process was killed,
\* the control plane it replaces is still there: in place or as the backup
\* that `self repair` restores.
OldControlKept ==
  \A p \in Procs :
    pc[p] \in Changing \cup Undoing /\ job[p].op \in Activating /\ job[p].undone
      => job[p].saved.control \in {control, backup}

\* Selection and control plane change together or not at all: seen through
\* the snapshot while a change is in doubt, every run is one of the promise.
InDoubt(p) == pc[p] \in Changing \cup Undoing
Settled == IF \E p \in Procs : InDoubt(p)
           THEN job[CHOOSE p \in Procs : InDoubt(p)].saved
           ELSE Disk

Promise == INSTANCE SelectionPromise WITH
  selected <- Settled.current, fallback <- Settled.previous,
  plane <- Settled.control, spare <- Settled.backup, intact <- ~torn

PromiseKept == Promise!Spec

\* "Never silently replace OVM with an older release" (update_with): an update,
\* or a staged activation, never replaces a release by an older one.
NoDowngrade ==
  \A p \in Procs :
    pc[p] = "current" /\ job[p].op \in Activating
      => ~ NewerThan(current, job[p].ver)
=============================================================================

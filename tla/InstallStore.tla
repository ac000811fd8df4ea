---------------------------- MODULE InstallStore ----------------------------
(***************************************************************************)
(* The store of one managed product, ~/.ovm/products/<product>, and every  *)
(* ovm process that works on it: installs (several sources per version),   *)
(* use, uninstall, uninstall --all, archive, cleanup, and the lifecycle    *)
(* hooks they run.  Code: crates/ovm/src/version_manager.rs, config.rs     *)
(* (completeness, layout), symlink.rs and hooks.rs.                        *)
(*                                                                         *)
(* One step is one file-system effect another process can observe, or one  *)
(* flock call.  A killed process, or one whose I/O error propagates with   *)
(* `?`, stops between two steps: the kernel drops its locks, its files     *)
(* stay.  Contents of files are abstracted to which of a handful of        *)
(* entries a source tree holds.                                            *)
(***************************************************************************)
EXTENDS FiniteSets, Naturals

CONSTANTS
  Procs,        \* ovm processes
  Versions,     \* storage version names of the product
  Variants,     \* source subtrees of a version directory: native, npm, release, ...
  Primary,      \* the variant resolved_binary falls back to: native or release
  Payload,      \* [Variants -> SUBSET Contents], what a finished download holds
  KeepsRoot,    \* variants of which archiving removes the payload, not the root
  Repairable,   \* variants whose complete tree may lack a sidecar (Codex release)
  PreMarker,    \* sources an ovm that predates the markers may have left
  Ops,          \* [Procs -> SUBSET OpNames], the commands each process may run
  HookTargets,  \* [HookPoints \X Versions -> SUBSET Versions], what hooks install
  LegacyProcs,  \* processes of an older ovm, which has no product lock
  Unreliable,   \* processes that may be killed and whose downloads may fail
  MaxOps,       \* bound: commands started in a behaviour
  None          \* no process, no version

Contents == {"binary", "rest", "meta"}
Entries  == Contents \cup {"dir", "installing", "complete"}

OpNames == {"install", "use", "uninstall", "uninstallAll", "archive",
            "archiveBelow", "cleanup"}

HookPoints == {"i_pre", "i_post", "u_pre", "u_post", "d_pre", "d_post",
               "r_pre", "r_post"}

\* Program counters: i_ install, a_ its cleanup arm, u_ use, d_ uninstall and
\* cleanup, x_ archive, r_ uninstall --all.
Transaction == {"i_pre", "i_retire", "i_create", "i_mark", "i_discard",
                "i_fetch", "i_unmark", "i_post",
                "a_retire", "a_discard", "a_version"}
Installing  == {"i_check"} \cup Transaction
Locking     == {"i_version", "i_wait"}
Sweeping    == {"r_clear", "r_unpin", "r_next", "r_pre", "r_remove", "r_post",
                "r_sweep"}
MassRemoval == {"r_list", "r_lock"} \cup Sweeping
PCs == {"idle", "i_product"} \cup Locking \cup Installing
         \cup {"u_marker", "u_rest", "u_pre", "u_switch", "u_pin", "u_post"}
         \cup {"d_next", "d_check", "d_pre", "d_remove", "d_post"}
         \cup {"x_next", "x_remove", "r_product"} \cup MassRemoval

Sources == Versions \X Variants

ASSUME ConstantsAssumption ==
  /\ None \notin Procs /\ None \notin Versions /\ None \notin Variants
  /\ Primary \in Variants
  /\ Payload \in [Variants -> SUBSET Contents]
  /\ \A s \in Variants : "binary" \in Payload[s]
  /\ KeepsRoot \subseteq Variants /\ Repairable \subseteq Variants
  /\ PreMarker \subseteq Sources
  /\ Ops \in [Procs -> SUBSET OpNames]
  /\ HookTargets \in [HookPoints \X Versions -> SUBSET Versions]
  /\ LegacyProcs \subseteq Procs /\ Unreliable \subseteq Procs
  /\ MaxOps \in Nat

VARIABLES
  tree,              \* [Sources -> SUBSET Entries]; "dir" is the root directory itself
  quarantine,        \* sources whose quarantine directory exists
  versionDir,        \* versions whose directory exists
  current,           \* the version the `current` symlink names
  pin,               \* the version the pin file names
  lockFiles,         \* versions with a per-version lock file
  versionLock,       \* [Versions -> holder of the per-version lock]
  productShared,     \* shared holders of the product lock
  productExclusive,  \* the exclusive holder of the product lock
  pc, job,           \* control state and locals of each process
  started            \* commands started so far

store == <<tree, quarantine, versionDir>>
selection == <<current, pin>>
locks == <<lockFiles, versionLock, productShared, productExclusive>>
control == <<pc, job, started>>
vars == <<store, selection, locks, control>>

Job == [ver     : Versions \cup {None},   \* the version worked on
        variant : Variants \cup {None},   \* and its source
        existed : BOOLEAN,                \* version_dir_existed_before
        left    : SUBSET Contents,        \* payload not written yet
        follow  : BOOLEAN,                \* `use latest`: clear the pin
        todo    : SUBSET Versions,        \* versions a removal still visits
        targets : SUBSET Versions,        \* lock_targets of uninstall_all
        parent  : Procs \cup {None},      \* the process whose hook runs this one
        env     : Versions \cup {None}]   \* OVM_VERSION when OVM_HOOK is set

NoJob == [ver |-> None, variant |-> None, existed |-> FALSE, left |-> {},
          follow |-> FALSE, todo |-> {}, targets |-> {}, parent |-> None,
          env |-> None]

At(p) == <<job[p].ver, job[p].variant>>

-----------------------------------------------------------------------------
(* What lock-free readers conclude from the files.                         *)

\* install_source_is_complete: `.installing` wins; then `.complete`, or for a
\* pre-marker tree its metadata file, which the npm layout never had.
Finished(t, s) ==
  /\ "binary" \in t
  /\ "complete" \in t \/ "meta" \in t \/ "meta" \notin Payload[s]

IsComplete(x) == "installing" \notin tree[x] /\ Finished(tree[x], x[2])
VersionComplete(v) == \E s \in Variants : IsComplete(<<v, s>>)

IsEmptyDir(v) == \A s \in Variants : tree[<<v, s>>] = {} /\ <<v, s>> \notin quarantine

\* version_sources and list_installed: complete somewhere, or "archived",
\* which is nothing complete and no `.installing` either.
Listed == {v \in versionDir :
             /\ ~IsEmptyDir(v)
             /\ \/ VersionComplete(v)
                \/ \A s \in Variants : "installing" \notin tree[<<v, s>>]}

\* active_binary_path(version).exists(), the first check of use_version.
BinaryResolves(v) == VersionComplete(v) \/ "binary" \in tree[<<v, Primary>>]

-----------------------------------------------------------------------------
(* Starting, ending and interrupting a command.                            *)

Goto(p, l) == pc' = [pc EXCEPT ![p] = l]

CanStart(p, op) == pc[p] = "idle" /\ op \in Ops[p] /\ started < MaxOps

Start(p, l, j) ==
  /\ started' = started + 1
  /\ Goto(p, l)
  /\ job' = [job EXCEPT ![p] = j]

\* Returning or dying drops every flock the process holds; a hook's child
\* that outlives its parent runs on.
End(p) ==
  /\ Goto(p, "idle")
  /\ job' = [q \in Procs |->
               IF q = p THEN NoJob
               ELSE IF job[q].parent = p THEN [job[q] EXCEPT !.parent = None]
               ELSE job[q]]
  /\ productShared' = productShared \ {p}
  /\ productExclusive' = IF productExclusive = p THEN None ELSE productExclusive
  /\ versionLock' = [v \in Versions |->
                       IF versionLock[v] = p THEN None ELSE versionLock[v]]
  /\ UNCHANGED <<lockFiles, started>>

Crash(p) ==
  /\ p \in Unreliable /\ pc[p] # "idle"
  /\ End(p)
  /\ UNCHANGED <<store, selection>>

\* run_hook waits for the script without a bound and ignores its status.  The
\* script may itself run `ovm install`, in a process that inherits OVM_VERSION.
HookInstall(p, q) ==
  /\ pc[p] \in HookPoints /\ CanStart(q, "install")
  /\ \A r \in Procs : job[r].parent # p
  /\ \E v \in HookTargets[<<pc[p], job[p].ver>>], s \in Variants :
       Start(q, "i_product", [NoJob EXCEPT !.ver = v, !.variant = s,
                                           !.parent = p, !.env = job[p].ver])
  /\ UNCHANGED <<store, selection, locks>>

HookReturned(p) == \A q \in Procs : job[q].parent # p

AfterHook(p, from, to) ==
  /\ pc[p] = from /\ HookReturned(p)
  /\ Goto(p, to)
  /\ UNCHANGED <<store, selection, locks, job, started>>

-----------------------------------------------------------------------------
(* Locks of an install.                                                    *)

\* install_standard, install_import and install_dev up to acquire_install_lock.
StartInstall(p) ==
  /\ CanStart(p, "install")
  /\ \E v \in Versions, s \in Variants :
       Start(p, "i_product", [NoJob EXCEPT !.ver = v, !.variant = s])
  /\ UNCHANGED <<store, selection, locks>>

\* lock_shared on the product lock waits out a mass removal.  An older ovm has
\* no such lock.
\* (ProductLockIgnored: a mutant, the lock is not waited for.)
ProductLockIgnored(p) == p \in Procs
ProductLockFree(p) == productExclusive = None

LockProduct(p) ==
  /\ pc[p] = "i_product"
  /\ \/ /\ p \in LegacyProcs
        /\ UNCHANGED productShared
     \/ /\ p \notin LegacyProcs /\ ProductLockFree(p)
        /\ productShared' = productShared \cup {p}
  /\ Goto(p, "i_version")
  /\ UNCHANGED <<store, selection, lockFiles, versionLock, productExclusive,
                 job, started>>

\* (VersionLockIgnored: a mutant, a held lock is taken over.)
VersionLockIgnored(v) == v \in Versions
VersionLockFree(v) == versionLock[v] = None

TakeVersionLock(p) ==
  /\ versionLock' = [versionLock EXCEPT ![job[p].ver] = p]
  /\ Goto(p, "i_check")
  /\ UNCHANGED <<productShared, productExclusive, job, started>>

\* The guard against a hook waiting for the install that runs it.
\* (NoHookGuard: a mutant without it.)
NoHookGuard(p) == p \notin Procs
OwnInstallHook(p) == job[p].env = job[p].ver

LockVersion(p) ==
  /\ pc[p] = "i_version"
  /\ lockFiles' = lockFiles \cup {job[p].ver}
  /\ VersionLockFree(job[p].ver)
  /\ TakeVersionLock(p)
  /\ UNCHANGED <<store, selection>>

BlockOnVersion(p) ==
  /\ pc[p] = "i_version"
  /\ ~VersionLockFree(job[p].ver) /\ ~OwnInstallHook(p)
  /\ Goto(p, "i_wait")
  /\ UNCHANGED <<store, selection, locks, job, started>>

RefuseOwnHook(p) ==
  /\ pc[p] = "i_version"
  /\ ~VersionLockFree(job[p].ver) /\ OwnInstallHook(p)
  /\ End(p)
  /\ UNCHANGED <<store, selection>>

AwaitVersion(p) ==
  /\ pc[p] = "i_wait"
  /\ VersionLockFree(job[p].ver)
  /\ TakeVersionLock(p)
  /\ UNCHANGED <<store, selection, lockFiles>>

\* Under the lock: a complete source is reused, or reported as installed
\* already; only a Codex tree that lacks a published sidecar is redone.
Reuse(p) ==
  /\ pc[p] = "i_check"
  /\ IsComplete(At(p))
  /\ End(p)
  /\ UNCHANGED <<store, selection>>

NeedsInstall(x) == ~IsComplete(x) \/ x[2] \in Repairable

BeginTransaction(p) ==
  /\ pc[p] = "i_check"
  /\ NeedsInstall(At(p))
  /\ job' = [job EXCEPT ![p].existed = job[p].ver \in versionDir]
  /\ Goto(p, "i_pre")
  /\ UNCHANGED <<store, selection, locks, started>>

-----------------------------------------------------------------------------
(* run_install_transaction.                                                *)

PreInstall(p) == AfterHook(p, "i_pre", "i_retire")

\* Moving the old root away in one rename, never deleting it in place.
RetireRoot(p) ==
  /\ quarantine' = IF tree[At(p)] = {} THEN quarantine \ {At(p)}
                                        ELSE quarantine \cup {At(p)}
  /\ tree' = [tree EXCEPT ![At(p)] = {}]
  /\ UNCHANGED versionDir

\* prepare_install_source: retire the old root, create an empty one, mark it
\* `.installing`, delete the retired one.
PrepareRetire(p) ==
  /\ pc[p] = "i_retire"
  /\ RetireRoot(p)
  /\ Goto(p, "i_create")
  /\ UNCHANGED <<selection, locks, job, started>>

PrepareCreate(p) ==
  /\ pc[p] = "i_create"
  /\ tree' = [tree EXCEPT ![At(p)] = @ \cup {"dir"}]
  /\ versionDir' = versionDir \cup {job[p].ver}
  /\ Goto(p, "i_mark")
  /\ UNCHANGED <<quarantine, selection, locks, job, started>>

Marked(t) == t \cup {"installing"}

PrepareMark(p) ==
  /\ pc[p] = "i_mark"
  /\ IF "dir" \in tree[At(p)]
       THEN /\ tree' = [tree EXCEPT ![At(p)] = Marked(@)]
            /\ Goto(p, "i_discard")
            /\ UNCHANGED <<locks, job, started>>
       ELSE End(p) /\ UNCHANGED tree
  /\ UNCHANGED <<quarantine, versionDir, selection>>

PrepareDiscard(p) ==
  /\ pc[p] = "i_discard"
  /\ quarantine' = quarantine \ {At(p)}
  /\ job' = [job EXCEPT ![p].left = Payload[job[p].variant]]
  /\ Goto(p, "i_fetch")
  /\ UNCHANGED <<tree, versionDir, selection, locks, started>>

\* The closure of the transaction writes the payload file by file, metadata
\* last; it creates missing parents, so also a root removed under it.
Fetch(p) ==
  /\ pc[p] = "i_fetch"
  /\ \E f \in job[p].left :
       /\ f = "meta" => job[p].left = {"meta"}
       /\ tree' = [tree EXCEPT ![At(p)] = @ \cup {"dir", f}]
       /\ job' = [job EXCEPT ![p].left = @ \ {f}]
  /\ versionDir' = versionDir \cup {job[p].ver}
  /\ UNCHANGED <<quarantine, selection, locks, pc, started>>

\* (BinaryArrived: a mutant that publishes before the rest is there.)
BinaryArrived(p) == "binary" \notin job[p].left
DownloadDone(p) == job[p].left = {}

\* refuse_if_the_install_root_moved, then create_new of `.complete`.
RootIsOurs(p) == "dir" \in tree[At(p)] /\ "complete" \notin tree[At(p)]

Publish(p) ==
  /\ pc[p] = "i_fetch" /\ DownloadDone(p)
  /\ RootIsOurs(p)
  /\ tree' = [tree EXCEPT ![At(p)] = @ \cup {"complete"}]
  /\ Goto(p, "i_unmark")
  /\ UNCHANGED <<quarantine, versionDir, selection, locks, job, started>>

Unmark(p) ==
  /\ pc[p] = "i_unmark"
  /\ "installing" \in tree[At(p)]
  /\ tree' = [tree EXCEPT ![At(p)] = @ \ {"installing"}]
  /\ Goto(p, "i_post")
  /\ UNCHANGED <<quarantine, versionDir, selection, locks, job, started>>

PostInstall(p) ==
  /\ pc[p] = "i_post" /\ HookReturned(p)
  /\ End(p)
  /\ UNCHANGED <<store, selection>>

\* A failed download, or a publishing step that found another writer's hand.
InstallFails(p) ==
  /\ \/ pc[p] = "i_fetch" /\ p \in Unreliable
     \/ pc[p] = "i_fetch" /\ DownloadDone(p) /\ ~RootIsOurs(p)
     \/ pc[p] = "i_unmark" /\ "installing" \notin tree[At(p)]
  /\ Goto(p, "a_retire")
  /\ UNCHANGED <<store, selection, locks, job, started>>

\* quarantine_and_remove_source.
AbortRetire(p) ==
  /\ pc[p] = "a_retire"
  /\ RetireRoot(p)
  /\ Goto(p, "a_discard")
  /\ UNCHANGED <<selection, locks, job, started>>

\* The version directory goes too when this install made it and no other
\* source of the version is complete.
\* (RemovesAnyVersionDir: a mutant that forgets the other source.)
RemovesAnyVersionDir(p) == job[p].ver \in versionDir
RemovesVersionDir(p) ==
  /\ ~job[p].existed
  /\ job[p].ver \in versionDir
  /\ ~VersionComplete(job[p].ver)

AbortDiscard(p) ==
  /\ pc[p] = "a_discard"
  /\ quarantine' = quarantine \ {At(p)}
  /\ IF RemovesVersionDir(p)
       THEN Goto(p, "a_version") /\ UNCHANGED <<locks, job, started>>
       ELSE End(p)
  /\ UNCHANGED <<tree, versionDir, selection>>

-----------------------------------------------------------------------------
(* remove_dir_all of a version directory: entry by entry, in any order, each *)
(* directory after its contents.                                           *)

EraseEntry(x) ==
  \/ /\ \E f \in tree[x] :
          /\ f = "dir" => tree[x] = {"dir"}
          /\ tree' = [tree EXCEPT ![x] = @ \ {f}]
     /\ UNCHANGED quarantine
  \/ /\ x \in quarantine
     /\ quarantine' = quarantine \ {x}
     /\ UNCHANGED tree

EraseWithin(v) == \E s \in Variants : EraseEntry(<<v, s>>) /\ UNCHANGED versionDir

EraseVersionDir(v) ==
  /\ v \in versionDir /\ IsEmptyDir(v)
  /\ versionDir' = versionDir \ {v}
  /\ UNCHANGED <<tree, quarantine>>

AbortVersion(p) ==
  /\ pc[p] = "a_version"
  /\ \/ EraseWithin(job[p].ver) /\ UNCHANGED <<locks, control>>
     \/ EraseVersionDir(job[p].ver) /\ End(p)
     \/ job[p].ver \notin versionDir /\ End(p) /\ UNCHANGED store
  /\ UNCHANGED selection

-----------------------------------------------------------------------------
(* use_version.  It takes no lock, and install_source_is_complete reads    *)
(* `.installing` before it reads the rest.                                 *)

StartUse(p) ==
  /\ CanStart(p, "use")
  /\ \E v \in versionDir, latest \in BOOLEAN :
       /\ BinaryResolves(v)
       /\ latest => VersionComplete(v)
       /\ Start(p, "u_marker", [NoJob EXCEPT !.ver = v, !.follow = latest])
  /\ UNCHANGED <<store, selection, locks>>

ReadMarker(p) ==
  /\ pc[p] = "u_marker"
  /\ \E s \in Variants :
       /\ "installing" \notin tree[<<job[p].ver, s>>]
       /\ job' = [job EXCEPT ![p].variant = s]
  /\ Goto(p, "u_rest")
  /\ UNCHANGED <<store, selection, locks, started>>

RefuseMarked(p) ==
  /\ pc[p] = "u_marker"
  /\ \A s \in Variants : "installing" \in tree[<<job[p].ver, s>>]
  /\ End(p)
  /\ UNCHANGED <<store, selection>>

LooksFinished(p) == Finished(tree[At(p)], job[p].variant)

ReadRest(p) ==
  /\ pc[p] = "u_rest"
  /\ IF LooksFinished(p)
       THEN Goto(p, "u_pre") /\ UNCHANGED <<locks, job, started>>
       ELSE End(p)
  /\ UNCHANGED <<store, selection>>

PreSwitch(p) == AfterHook(p, "u_pre", "u_switch")

\* switch_symlink renames a new link over `current`; the target is not looked at.
SwitchCurrent(p) ==
  /\ pc[p] = "u_switch"
  /\ current' = job[p].ver
  /\ Goto(p, "u_pin")
  /\ UNCHANGED <<store, pin, locks, job, started>>

WritePin(p) ==
  /\ pc[p] = "u_pin"
  /\ pin' = IF job[p].follow THEN None ELSE job[p].ver
  /\ Goto(p, "u_post")
  /\ UNCHANGED <<store, current, locks, job, started>>

PostSwitch(p) ==
  /\ pc[p] = "u_post" /\ HookReturned(p)
  /\ End(p)
  /\ UNCHANGED <<store, selection>>

-----------------------------------------------------------------------------
(* uninstall, and cleanup's remove_versions over a plan made earlier.      *)

StartUninstall(p) ==
  /\ CanStart(p, "uninstall")
  /\ \E v \in versionDir : Start(p, "d_check", [NoJob EXCEPT !.ver = v])
  /\ UNCHANGED <<store, selection, locks>>

\* plan_inactive_installs_older_than: which of the inactive complete versions
\* are old enough is left open.
StartCleanup(p) ==
  /\ CanStart(p, "cleanup")
  /\ current # None
  /\ \E plan \in SUBSET {v \in Listed \ {current} : VersionComplete(v)} :
       Start(p, "d_next", [NoJob EXCEPT !.todo = plan])
  /\ UNCHANGED <<store, selection, locks>>

\* remove_versions skips a version that is gone or became active meanwhile.
NextPlanned(p) ==
  /\ pc[p] = "d_next"
  /\ \E v \in job[p].todo :
       /\ job' = [job EXCEPT ![p].todo = @ \ {v}, ![p].ver = v]
       /\ IF v \in versionDir /\ v # current THEN Goto(p, "d_check")
                                             ELSE UNCHANGED pc
  /\ UNCHANGED <<store, selection, locks, started>>

PlanDone(p) ==
  /\ pc[p] = "d_next" /\ job[p].todo = {}
  /\ End(p)
  /\ UNCHANGED <<store, selection>>

\* (RemovableIfPresent: a mutant that does not look at `current`.)
RemovableIfPresent(v) == v \in versionDir
Removable(v) == v \in versionDir /\ v # current

CheckUninstall(p) ==
  /\ pc[p] = "d_check"
  /\ IF Removable(job[p].ver)
       THEN Goto(p, "d_pre") /\ UNCHANGED <<locks, job, started>>
       ELSE End(p)
  /\ UNCHANGED <<store, selection>>

PreUninstall(p) == AfterHook(p, "d_pre", "d_remove")

\* A directory that is already gone is an error, which ends the command.
RemoveVersion(p) ==
  /\ pc[p] = "d_remove"
  /\ \/ EraseWithin(job[p].ver) /\ UNCHANGED <<locks, control>>
     \/ /\ EraseVersionDir(job[p].ver)
        /\ Goto(p, "d_post")
        /\ UNCHANGED <<locks, job, started>>
     \/ /\ job[p].ver \notin versionDir
        /\ End(p)
        /\ UNCHANGED store
  /\ UNCHANGED selection

PostUninstall(p) == AfterHook(p, "d_post", "d_next")

-----------------------------------------------------------------------------
(* archive and archive_below.                                              *)

StartArchive(p) ==
  /\ CanStart(p, "archive")
  /\ \E v \in versionDir :
       /\ Removable(v)
       /\ Start(p, "x_next", [NoJob EXCEPT !.todo = {v}])
  /\ UNCHANGED <<store, selection, locks>>

\* Which of the inactive versions lie below the minimum is left open.  Unlike
\* remove_versions, archive_below reads `current` once for the whole batch.
StartArchiveBelow(p) ==
  /\ CanStart(p, "archiveBelow")
  /\ \E below \in SUBSET (Listed \ {current}) :
       Start(p, "x_next", [NoJob EXCEPT !.todo = below])
  /\ UNCHANGED <<store, selection, locks>>

NextArchived(p) ==
  /\ pc[p] = "x_next"
  /\ IF job[p].todo = {}
       THEN End(p)
       ELSE /\ \E v \in job[p].todo :
                 job' = [job EXCEPT ![p].todo = @ \ {v}, ![p].ver = v]
            /\ Goto(p, "x_remove")
            /\ UNCHANGED <<locks, started>>
  /\ UNCHANGED <<store, selection>>

\* archivable_paths: whole roots, but only the payload below an npm root.
Archivable(x) == IF x[2] \in KeepsRoot THEN tree[x] \cap Contents ELSE tree[x]

ArchiveVersion(p) ==
  /\ pc[p] = "x_remove"
  /\ IF \A s \in Variants : Archivable(<<job[p].ver, s>>) = {}
       THEN Goto(p, "x_next") /\ UNCHANGED <<tree, job>>
       ELSE /\ \E s \in Variants : \E f \in Archivable(<<job[p].ver, s>>) :
                 /\ f = "dir" => tree[<<job[p].ver, s>>] = {"dir"}
                 /\ tree' = [tree EXCEPT ![<<job[p].ver, s>>] = @ \ {f}]
            /\ UNCHANGED <<pc, job>>
  /\ UNCHANGED <<quarantine, versionDir, selection, locks, started>>

-----------------------------------------------------------------------------
(* uninstall_all.                                                          *)

StartUninstallAll(p) ==
  /\ CanStart(p, "uninstallAll")
  /\ Start(p, "r_product", NoJob)
  /\ UNCHANGED <<store, selection, locks>>

NoInstallRunning == productShared = {} /\ productExclusive = None

\* The product lock is tried, never awaited; so are the per-version locks.
TryProductLock(p) ==
  /\ pc[p] = "r_product"
  /\ IF NoInstallRunning
       THEN /\ productExclusive' = p
            /\ Goto(p, "r_list")
            /\ UNCHANGED <<lockFiles, versionLock, productShared, job, started>>
       ELSE End(p)
  /\ UNCHANGED <<store, selection>>

\* Nothing listed and no leftover directory either is an error.
ListVersions(p) ==
  /\ pc[p] = "r_list"
  /\ IF versionDir = {}
       THEN End(p)
       ELSE /\ job' = [job EXCEPT ![p].todo = Listed,
                                  ![p].targets = Listed \cup lockFiles]
            /\ Goto(p, "r_lock")
            /\ UNCHANGED <<locks, started>>
  /\ UNCHANGED <<store, selection>>

RemovalMayTake(p, v) == versionLock[v] = None

TryVersionLock(p) ==
  /\ pc[p] = "r_lock"
  /\ \E v \in job[p].targets :
       /\ versionLock[v] # p
       /\ IF RemovalMayTake(p, v)
            THEN /\ versionLock' = [versionLock EXCEPT ![v] = p]
                 /\ lockFiles' = lockFiles \cup {v}
                 /\ UNCHANGED <<productShared, productExclusive, control>>
            ELSE End(p)
  /\ UNCHANGED <<store, selection>>

\* (LocksDropped: a mutant whose guards are dropped where they are taken.)
LocksDropped(p) ==
  /\ pc[p] = "r_lock"
  /\ \A v \in job[p].targets : versionLock[v] = p
  /\ versionLock' = [v \in Versions |-> IF versionLock[v] = p THEN None ELSE versionLock[v]]
  /\ productExclusive' = None
  /\ Goto(p, "r_clear")
  /\ UNCHANGED <<store, selection, lockFiles, productShared, job, started>>

\* The lock files are listed again: one created meanwhile refuses the removal.
RecheckLocks(p) ==
  /\ pc[p] = "r_lock"
  /\ \A v \in job[p].targets : versionLock[v] = p
  /\ IF lockFiles \subseteq job[p].targets
       THEN Goto(p, "r_clear") /\ UNCHANGED <<locks, job, started>>
       ELSE End(p)
  /\ UNCHANGED <<store, selection>>

\* (KeepCurrent: a mutant that removes the versions first.)
KeepCurrent(p) ==
  /\ pc[p] = "r_clear"
  /\ Goto(p, "r_unpin")
  /\ UNCHANGED <<store, selection, locks, job, started>>

ClearCurrent(p) ==
  /\ pc[p] = "r_clear"
  /\ current' = None
  /\ Goto(p, "r_unpin")
  /\ UNCHANGED <<store, pin, locks, job, started>>

ClearPin(p) ==
  /\ pc[p] = "r_unpin"
  /\ pin' = None
  /\ Goto(p, "r_next")
  /\ UNCHANGED <<store, current, locks, job, started>>

\* dir_size fails, and the command with it, when the directory is gone.
NextListed(p) ==
  /\ pc[p] = "r_next"
  /\ IF job[p].todo = {}
       THEN Goto(p, "r_sweep") /\ UNCHANGED <<locks, job, started>>
       ELSE \E v \in job[p].todo :
              IF v \in versionDir
                THEN /\ job' = [job EXCEPT ![p].todo = @ \ {v}, ![p].ver = v]
                     /\ Goto(p, "r_pre")
                     /\ UNCHANGED <<locks, started>>
                ELSE End(p)
  /\ UNCHANGED <<store, selection>>

PreUninstallListed(p) == AfterHook(p, "r_pre", "r_remove")

RemoveListed(p) ==
  /\ pc[p] = "r_remove"
  /\ \/ EraseWithin(job[p].ver) /\ UNCHANGED <<locks, control>>
     \/ /\ EraseVersionDir(job[p].ver)
        /\ Goto(p, "r_post")
        /\ UNCHANGED <<locks, job, started>>
     \/ /\ job[p].ver \notin versionDir
        /\ End(p)
        /\ UNCHANGED store
  /\ UNCHANGED selection

PostUninstallListed(p) == AfterHook(p, "r_post", "r_next")

\* What is left below versions/ never was an install; it goes without hooks.
SweepLeftovers(p) ==
  /\ pc[p] = "r_sweep"
  /\ \/ /\ \E v \in versionDir : EraseWithin(v) \/ EraseVersionDir(v)
        /\ UNCHANGED <<locks, control>>
     \/ versionDir = {} /\ End(p) /\ UNCHANGED store
  /\ UNCHANGED selection

-----------------------------------------------------------------------------
PreMarkerTree(s) == {"dir"} \cup Payload[s]

Init ==
  /\ \E old \in SUBSET PreMarker :
       /\ tree = [x \in Sources |-> IF x \in old THEN PreMarkerTree(x[2]) ELSE {}]
       /\ versionDir = {x[1] : x \in old}
  /\ quarantine = {}
  /\ current = None /\ pin = None
  /\ lockFiles = {} /\ versionLock = [v \in Versions |-> None]
  /\ productShared = {} /\ productExclusive = None
  /\ pc = [p \in Procs |-> "idle"] /\ job = [p \in Procs |-> NoJob]
  /\ started = 0

InstallStep(p) ==
  \/ LockProduct(p) \/ LockVersion(p) \/ BlockOnVersion(p) \/ RefuseOwnHook(p)
  \/ AwaitVersion(p) \/ Reuse(p) \/ BeginTransaction(p) \/ PreInstall(p)
  \/ PrepareRetire(p) \/ PrepareCreate(p) \/ PrepareMark(p) \/ PrepareDiscard(p)
  \/ Fetch(p) \/ Publish(p) \/ Unmark(p) \/ PostInstall(p) \/ InstallFails(p)
  \/ AbortRetire(p) \/ AbortDiscard(p) \/ AbortVersion(p)

UseStep(p) ==
  \/ ReadMarker(p) \/ RefuseMarked(p) \/ ReadRest(p) \/ PreSwitch(p)
  \/ SwitchCurrent(p) \/ WritePin(p) \/ PostSwitch(p)

RemoveStep(p) ==
  \/ NextPlanned(p) \/ PlanDone(p) \/ CheckUninstall(p) \/ PreUninstall(p)
  \/ RemoveVersion(p) \/ PostUninstall(p) \/ NextArchived(p) \/ ArchiveVersion(p)

RemoveAllStep(p) ==
  \/ TryProductLock(p) \/ ListVersions(p) \/ TryVersionLock(p) \/ RecheckLocks(p)
  \/ ClearCurrent(p) \/ ClearPin(p) \/ NextListed(p) \/ PreUninstallListed(p)
  \/ RemoveListed(p) \/ PostUninstallListed(p) \/ SweepLeftovers(p)

StartCommand(p) ==
  \/ StartInstall(p) \/ StartUse(p) \/ StartUninstall(p) \/ StartCleanup(p)
  \/ StartArchive(p) \/ StartArchiveBelow(p) \/ StartUninstallAll(p)

Step(p) == InstallStep(p) \/ UseStep(p) \/ RemoveStep(p) \/ RemoveAllStep(p)

\* Every command has returned and the bound lets no other start.
AllDone ==
  /\ \A p \in Procs : pc[p] = "idle"
  /\ UNCHANGED vars

Next ==
  \/ \E p \in Procs : StartCommand(p) \/ Step(p) \/ Crash(p)
  \/ \E p, q \in Procs : HookInstall(p, q)
  \/ AllDone

Spec == Init /\ [][Next]_vars

\* A running command keeps running; nothing has to start, die or fail.
FairSpec == Spec /\ \A p \in Procs : WF_vars(Step(p))

-----------------------------------------------------------------------------
(* Properties.                                                             *)

TypeOK ==
  /\ tree \in [Sources -> SUBSET Entries]
  /\ quarantine \subseteq Sources
  /\ versionDir \subseteq Versions
  /\ current \in Versions \cup {None}
  /\ pin \in Versions \cup {None}
  /\ lockFiles \subseteq Versions
  /\ versionLock \in [Versions -> Procs \cup {None}]
  /\ productShared \subseteq Procs
  /\ productExclusive \in Procs \cup {None}
  /\ pc \in [Procs -> PCs]
  /\ job \in [Procs -> Job]
  /\ started \in 0..MaxOps

\* Single flight: two transactions never work on the same version at once,
\* whichever of its sources they install (run_install_transaction under the
\* per-version lock).
SingleFlight ==
  \A p, q \in Procs :
    p # q /\ pc[p] \in Transaction /\ pc[q] \in Transaction
      => job[p].ver # job[q].ver

\* "Removal must not race an install": while uninstall_all removes, no
\* transaction of another process runs on a version whose lock it took.
NoWriterUnderMassRemoval ==
  \A p, q \in Procs :
    p # q /\ pc[p] \in Sweeping /\ pc[q] \in Transaction
      => job[q].ver \notin job[p].targets

\* What a lock-free reader takes for complete holds the whole payload, through
\* crashes, failed downloads and take-overs, from the first step of publishing
\* to the last.
CompleteIsWhole ==
  \A x \in Sources : IsComplete(x) => Payload[x[2]] \subseteq tree[x]

\* The `current` link names a directory that exists, also after a removal that
\* died half-way: uninstall_all clears the selection before it removes, the
\* other removals look at `current` first.
CurrentNeverDangles == current # None => current \in versionDir

\* When uninstall_all turns to what it did not list, nothing complete is left:
\* no install can finish between listing and removal and be swept without its
\* hooks.
SweepRemovesNoInstall ==
  [][\A p \in Procs :
       pc[p] = "r_next" /\ pc'[p] = "r_sweep" => \A v \in Versions : ~VersionComplete(v)]_vars

\* The store keeps the promise of PublishedStore: what is available is what a
\* lock-free reader takes for complete.
Promise == INSTANCE PublishedStore
             WITH available <- {x \in Sources : IsComplete(x)}, selected <- current

KeepsPromise == Promise!Spec

\* A complete source is destroyed only by a removal of its version or, for a
\* Codex release that lacks a sidecar, by its own reinstall: contenders reuse a
\* completed install, and no cleanup arm deletes another valid source.
OnlyRemovalDestroys ==
  [][\A x \in Sources :
       IsComplete(x) /\ ~IsComplete(x)'
         => \E p \in Procs :
              \/ pc[p] = "i_retire" /\ At(p) = x /\ x[2] \in Repairable
              \/ pc[p] \in {"d_remove", "r_remove", "x_remove"} /\ job[p].ver = x[1]
              \/ pc[p] = "r_sweep"]_vars

\* Every command returns once started, however installs contend for the locks
\* and although a hook may itself install the version its parent holds.
CommandsReturn == \A p \in Procs : pc[p] # "idle" ~> pc[p] = "idle"
=============================================================================

# A verification project for ovm

`ovm` installs, switches, launches and removes versions of managed products
(Claude Code, Codex, Pi), and updates itself. This directory holds TLA+ models of
its state-changing core, the TLC configurations that check them on small
instances, and TLAPS proofs of what holds for every instance. Paths below are
relative to the root of the repository; `crates/ovm/src/` is left out where it is clear.

    tlc -workers 2 -config InstallCrash.cfg MCInstallStore.tla    # a run
    tlapm InstallStoreProofs.tla                                  # a proof module

## The system

| component | code | state it keeps | what is hard about it |
|---|---|---|---|
| install store | `version_manager.rs`, `symlink.rs` | `products/<p>/versions/<v>/<source>/…`, the markers `.installing` and `.complete`, the `current` link, the pin file, lock files | several processes, kills and failed downloads at any step, readers that take no lock, removals that do |
| layout and completeness | `config.rs` | none of its own: concludes from files whether a source is complete | trees made before the markers existed; reads that are not atomic |
| lifecycle hooks | `hooks.rs` | none | user scripts run while locks are held and may start ovm again |
| configuration | `config.rs` | `config.json` | load, change, save by several processes |
| download sources | `sources/*.rs` | temporary files | partial results |
| self manager, self update | `self_manager.rs`, `commands/self_update/direct.rs` | bundles of ovm itself, `current` and `previous` links, the control-plane copy and its backup, side links, `.operation.lock` | an update replaces the running program; probe and rollback; a gate decided before the lock |
| self auto-update | `commands/self_autoupdate.rs` | pending version, failure counts, notice times | staged at one launch, activated at the next, retried with backoff |
| self uninstall | `commands/self_uninstall.rs` | none; the plan it has confirmed | what is removed may have been replaced since it was looked at; a step that fails among many |
| background refresh | `commands/refresh_cache.rs`, `update_cache.rs`, `sources/registry.rs` | `latest-probe.json`, one listing per product, `refresh.lock`, `codex-skew.json` and its two sidecars | detached processes that die; an answer that is older than what is cached |
| launch, product auto-update | `commands/launch.rs`, `autoupdate.rs`, `commands/update.rs` | the pin, the record of a failed install, the snooze | policy, pin, active version and cache are written at different times by different processes |
| retention cleanup | `commands/cleanup.rs` | survey stamp | plan now, remove later |
| claudex | `crates/ovm-claudex` | the proxy daemon, its pid record, installed and staged versions, update lock and session lock | sessions share one daemon that an update replaces |
| limits | `crates/ovm-limits` | account registry (two files), snapshots, event log, `limits.json` | polls and edits at once, no lock; what is told must agree with what is recorded |
| codex skew check | `crates/ovm-codex-skew` | none; reads the database of Codex and the cached evidence | says nothing unless it is sure, and must be sure when it is silent |
| accounts, the home of Claude Code | `accounts.rs`, `commands/run.rs`, `claude_install.rs`, `commands/doctor.rs` | `accounts.json`, the `.claude.json` of each home, the launcher `~/.local/bin/claude`, Claude's own install tree | no lock at all; live sessions rewrite the same files; an updater that undoes a repair |
| adoption, plugins | `commands/adopt.rs`, `plugins.rs` | links, copies | one-shot operations; only the adoption at a first launch is modelled |
| user interface, packaging | `crates/ovm-tui`, `cli.rs`, `install.sh`, … | none | not modelled |

Components meet in the file system: the only daemon is the claudex proxy, and two
ovm processes know of each other through `flock` (a product lock, one lock per
version, the self operation lock, the update and the session lock of claudex),
through `refresh.lock`, which is a file that exists, through markers in the trees,
and through the links. A hook is the only callback; it runs in a child process. A
launch reads what a background refresh has cached, the companion of Codex reads
the evidence the same refresh has cached, and both outlive it by a day or more.

What makes the install store correct: one writer per version; nothing that is not
whole is ever taken for installed; no failure destroys what another command
published; `current` names something that exists and, in one terminal, something
complete; a mass removal meets no install; nobody waits for ever. For the self
manager: control plane and `current` agree after every activation or its rollback,
no automatic path downgrades, previous stays available. For configuration: no
save erases an unrelated setting. For launch: a pin is never overridden silently,
and where nothing is pinned the latest release arrives in the end. For the caches:
what they offer is at most a day old, whatever dies. For claudex: no session loses
its proxy, no proxy is lost, a bad update leaves no trace. For limits: an edit leaves
everybody else's account alone, wherever it is killed, and what is told is true, told
once and taken back (each with exceptions, see "Known gaps").
For self uninstall: it destroys what was confirmed and nothing else, and does not
claim success early. For the skew check: what a version has lost is told, no
warning is groundless, and one lagging answer does not silence it. For the home of
Claude Code: no write of ovm costs a login it could read, a repair lasts, and what is
set up in the main home reaches every account.

## Modules

| module | what it is |
|---|---|
| `InstallStore` | the files, locks and processes of one product |
| `PublishedStore` | what the store promises: available sources, a selected version |
| `SelfUpdate` | the self-managed ovm: bundles, pointers, control plane, and the commands that change them |
| `SelectionPromise` | what `SelfUpdate` promises: selection, rollback target, control plane and its spare change together |
| `SelfUninstall` | the removal of ovm, beside other commands and a user |
| `RefreshCache` | the probe, the listing and the detached processes that refresh them |
| `LaunchUpdate` | launches, `use`, `latest`, `update` and changes of settings of one product |
| `ProxySession` | the claudex proxy and the commands that start, stop and replace it |
| `Limits` | the usage tracker: registry, polls, edits, events |
| `CodexSkew` | the verdict on starting a Codex, and the cached evidence it rests on |
| `ClaudeHome` | accounts, the files of their homes, and the repair of a Claude install |
| `MCInstallStore`, `MCSelfUpdate`, `MCSelfUninstall`, `MCRefreshCache`, `MCLaunchUpdate`, `MCProxySession`, `MCLimits`, `MCCodexSkew`, `MCClaudeHome` | constants for TLC |
| `InstallStoreProofs` | type correctness of `InstallStore`, and what its locks give |
| `SelfUpdateProofs` | type correctness of `SelfUpdate`; the selection stays installed, the old control plane survives an update |
| `RefreshCacheProofs` | the theorems about the two caches a refresh writes: those of `RefreshCache` and of `CodexSkew` |
| `ProxySessionProofs` | what the claudex commands keep of each other and of their proxy |
| `SelfUninstallProofs`, `LaunchUpdateProofs`, `LimitsProofs`, `ClaudeHomeProofs` | the theorems about these modules |

The state machines meet in few places, and each is checked with the other one's
side left open. The install store lies below `~/.ovm/products`, the self-managed
ovm below `~/.ovm/self`, and neither takes the other's locks. `LaunchUpdate` takes
the caches to offer any version (`Learn`): `RefreshCache` says which they can be.
It takes an install to succeed or fail in one step: `InstallStore` has the rest.
`SelfUninstall` has its own view of what an update puts where (`UpdatePuts`), since
`SelfUpdate` is about versions and it is about files. `CodexSkew` holds both sides
of the evidence: the refresh that writes it and the guard that reads it.
`ClaudeHome` reads any `limits.json` (`Readings`): `Limits` is about what it says.

### InstallStore

State. `tree[<<v, s>>]` is what lies below the root of source `s` of version `v`:
the directory itself (`"dir"`), the two markers, and the payload, reduced to the
binary, the legacy metadata file, and everything else. `quarantine` is the hidden
`.name.incomplete` sibling a root is renamed to; `versionDir` the version
directories. `current` and `pin` are the selection. `versionLock`, `lockFiles`,
`productShared` and `productExclusive` are the flocks. `pc` and `job` are each
process's place in the code and its locals.

Steps. One action is one effect another process can observe: a rename, a
directory, a marker, a file of the payload, one entry of a recursive removal, a
`flock`, a symlink switch. What a process only reads and decides is part of the
action that follows from it, except where the code's reading is itself spread
out: `use` reads `.installing` in one step and the rest in the next
(`ReadMarker`, `ReadRest`), because `install_source_is_complete` does. The program
counters are named by command: `i_` install, `a_` its cleanup arm, `u_` use, `d_`
uninstall and cleanup, `x_` archive, `r_` uninstall --all.

Failure. `Crash(p)` ends a process of `Unreliable` between any two steps: its
locks go, its files stay, its hook's child lives on. An I/O error that propagates
with `?` outside the cleanup arm ends a command the same way. `InstallFails` is
the failure that does run the cleanup arm.

Hooks. A command at a hook point waits until the processes its hook started have
returned. `HookTargets` says what the scripts install; the child inherits
`OVM_VERSION` and meets the guard against waiting for its own parent.

Older ovm. Processes in `LegacyProcs` skip the product lock, as the release before
it did; uninstall --all still tries the per-version locks for their sake. One of
them installs in `InstallCrash`; that one beside uninstall --all writes no version
that is being removed is proved (`NoWriterCorrect`), and not run.

### SelfUpdate

State. `bundle[v]` is `self/versions/<v>`: complete, partial (a removal has begun)
or absent. `current` and `previous` are the pointers. `sideFile` and `links` are
the record of managed side links and the links themselves. `control` is the
version whose binary is `~/.ovm/bin/ovm`, `backup` that of `self/control-previous`.
`pending` and `attempt` are the marker of a staged update and the record of the
last staging attempt. `lock` is `self/.operation.lock`. `torn` is a history
variable: some change was cut short by a kill, or a restore failed.

Steps. A command starts at `Entry[op]`, decides without the lock (`Gate`,
`CheckStale`, `ReadBase`, ...), takes the lock, installs, switches or removes, and
may work on the markers after it. `Activating` commands end in `activate_release`:
snapshot, `BackUp`, `CopyControl`, the switch of `apply_version` (`PrepareSideLinks`
to `ReconcileLaunchers`), `Probe`, then a prune and the retention. `use` and
`rollback` run the switch alone. A failed switch is undone by `use_version`
(`undoUse`), a failed activation once more and with both control planes (`undo`);
each restored path is a step, a pointer two, because `PathSnapshot::restore`
removes a link before it makes it again.

Failure. `Fault` is an I/O error, or a probe that is too slow, in place of a step;
`UndoFault` a restore that fails while the others go on. `Interrupt` is SIGINT,
SIGTERM or SIGHUP, possible wherever `BlockedTerminationSignals` is not in force;
`Kill` is SIGKILL or a power loss, possible everywhere. The lock goes with its
process, the disk stays.

Abstractions. Releases are numbers in semver order, dev snapshots are unordered.
The feed, and the cached latest version, name any release at any time. What
depends on a clock (the retry backoff, the age a retention asks for, the wait of
60 s for the lock) is either outcome. The side links of one bundle are made,
removed and restored in one step: nobody reads them without the lock, and a change
that is cut short among them is torn wherever it stops.

The promise. `PromiseKept` maps a state to what it will be if the change in doubt
is undone: as long as a process is between its snapshot and its probe, or undoing,
the abstract state is the snapshot; the step that passes the probe is the
abstract `Activate`. A run of `SelfUpdate` without a torn change is therefore a
sequence of whole switches, activations and repairs.

### SelfUninstall

State. `at[path]` is the object that lies at a path, identified as `same_entry`
identifies it; an object is ovm's own or somebody else's, which stands for what
the ownership checks find. `outside` says what lies in a launcher directory
outside `~/.ovm`, `hidden` what nobody can inspect. `profile` is a shell profile
with or without ovm's block, or damaged. `job.plan` is what the user confirmed.

Steps. Plan, confirmation, lock, revalidation, and for each item a look
(`Boundary::authorize`), a rename into quarantine, a comparison and a deletion or
a rename back. An update beside it waits for the lock and puts files in place.

Failure. `Fault` fails a step, and the run goes on with the rest; `Kill` ends a
command anywhere and leaves what it moved aside. `UserPuts` and `UserEdits` change
files between any two steps.

Abstractions. A directory is an object of its own, and what lies in it goes with
it. The lock file goes with `~/.ovm/self`: `LockFree` is about the file a command
has opened, so that a command that waited may hold the lock of a removed file.

### RefreshCache

State. `feed` is the registry's listing and how often it has changed. `probe` is
`latest-probe.json`, reduced to one product: the revision it saw, the latest
version, the mark of a listing yet to be fetched, and the ages of the last
answer and of the last attempt. `index` is the cached listing. `rlock` is
`refresh.lock`. Time is what the code compares: within a day or not, a delay over or not.

Steps. `Spawn` to `Leave` are those of one detached refresh: the lock (taken over
when stale), the conditional request, its record, the listing, its save, the mark
cleared. `StartListing` to `SaveList` are those of a terminal that lists versions.
One step is one file read or written, or one request answered.

Failure. `RefreshDies` leaves a lock that only goes stale; any request may fail.
A process that sleeps through ten minutes loses its lock to another one, and a
terminal may save the listing it asked for before a newer one was saved: both set
`overtaken`, which excuses every property from then on. `Undisturbed` stops the
exploration there and loses nothing by it, as `overtaken` is never reset.

### LaunchUpdate

State. `current` and `pin` are the selection, `known` what the caches offer,
`attempt` the last failed automatic install, `snooze` the last notice, `config`
what `config.json` says (or that there is none).

Steps. A launch bootstraps (selects what is installed, adopts, or downloads), decides
from pin, policy and caches, asks or not, downloads, switches, writes and clears the
pin; one whose version is incomplete installs it again and selects it (`GoOn`,
`Again`), which writes the pin and clears none. `use` switches and pins; `latest`
and `update` follow the newest release and clear the pin. A change of a setting
loads, edits and saves, and the save merges what it changed into what is on disk.

Failure. A download fails, is skipped with Enter, or is killed; a failed one is
not retried until its delay is over. A version is removed, archived or left
incomplete (`Loses`), the selected one too, between any two steps.

History. `moved` says of a launch that another command moved the selection while it
ran, `kept` which pin a launch wrote by itself and left.

### ProxySession

State. `installed`, `current`, `pending` and `pidfile` are files of claudex;
`daemon` the proxy processes, `port` the listener; `lock` is the update lock,
`exclusive` and `leases` are the two modes of the session lock.

Steps. A launch stages an automatic update, activates what is staged if no session
runs, ensures a verified proxy, downgrades its session lock and lets the update
lock go; an update stages or activates; `stop` and uninstall stop the proxy. An
activation switches, starts, and on failure switches back and starts again
(`Phases` says where `ensure_running_with_session_guard` returns to). A probe is
one step: it decides on one established connection.

Failure. Commands are killed, daemons crash or refuse to exit, the clock jumps (a
pid record no longer matches its process), `ps` fails, a foreign process takes the
port, `config.json` is edited. `torn` and `excused` record the replacements and
the daemons for which a fault makes the promises void; what uninstall does without
the update lock is excused the same way (see "Known gaps").

### Limits

State. `config` and `live` are the two files of the registry, `snap` the snapshot
of each account, `shown` the accounts `limits.json` names, `usage` the provider's
side, `reading` what sessions last reported. `poll` is the poll that runs, `edit` the
command of each of two terminals. The log is kept as the counts and flags the
properties need.

Steps. A poll reads registry, snapshots and readings at its start, then records the
accounts one by one (snapshot, then events), and publishes. An edit loads the
registry, writes the two files one after the other, deletes a snapshot, merges and
publishes. Two edits and a poll run at once; a load of the two files is one step.

Failure. `KillPoll` and `KillEdit` between any two writes; a provider that resets a
window early; a session that reports old numbers; a second edit that begins beside
the first, which counts as one of the bounded mishaps.

History. `stale` says of an edit that another one has saved since it loaded, so that
its own save writes back what was there before. `misread` are the windows told to be
at the bar that a session's reading then put below it, with nothing known to hold it
against; `dropped` the accounts whose snapshot was deleted after a told failure.
The log itself (`alert`, `crossed`) is changed by nothing but what polls append.

Abstractions. An account has one window; its use is about nothing, some, or at
the bar (`Levels`): the three bars of `THRESHOLDS` are alike. The provider moves between polls.

### CodexSkew

State. `applied` is the last migration of the shared database, `doc` the cached
`codex-skew.json`, `sidecar` the document `codex-skew.saved-at` was written for and
its age, `pending` the marker of a fetch that did not land. `held` and `unsealed`
are history: how long the document has been in place, and whether its sidecar is.

Steps. The guard is a definition (`Warns`), as it changes nothing: what the scan
finds, what of it counts (`Understood`), what an observation adds. `RunCodex`
migrates. A refresh fetches, judges, and stamps the old document or renames the
new one into place, clears the marker and seals.

Failure. A fetch fails or brings any document of `Documents`; a rename or the
sidecar's write fails; a refresh is killed; the clock is set back.

Abstractions. A manifest is the number it reaches to: one generator writes them
all, so the breaking migrations are the same in each. A description is found in a
binary or not (`Words`), not searched for byte by byte.

### ClaudeHome

State. `registry` is `accounts.json`: the accounts, the directories bound to one,
the default, the failover chain. `json[h]` is the `.claude.json` of a home, the
default one or an account's folder: who is signed in, the trust in a project, the
MCP server, the install method. `tree` and `launcher` are Claude's native install
and `~/.local/bin/claude`. `work` is a terminal: an ovm, then the session it became.

Steps. A launch resolves the account (`Resolved`, from a binding, the chain and
the usage that `limits.json` tells), seeds the folder's `.claude.json` (`SeedRead` or
`SeedMisread`, `SeedWrite`), maintains the launcher (`Look`, `Unlink`, `Link`) and starts a
session. `ovm doctor claude --fix` reads the main file, reads it again, replaces
it, and removes tree and launcher (`FixStart` to `ClearLauncher`). `ovm accounts`
changes a copy of the registry and saves it whole.

What is not ovm is external, and as code and comments take it to be: `Start`,
`SessionWrites`, `Reclaim`, `SessionEnds` are a session of Claude Code, which reads
at its start how Claude is installed, and whose updater acts on what it read;
`Reinstall` is a user who runs `claude install`. ovm takes the method in the main
file to rule every session, whichever home it has, and so does the model.

Failure. `Kill` ends a command between any two steps, and a repair that cannot read
or parse the main file. A launch takes a file it cannot read or parse for an empty
one (`SeedMisread`).

History. `raced` says of a pending write that its file was written since it was read
for the last time, `blind` that the file was there and nothing could be made of it.
`removed` remembers that a repair removed the tree, `late` which sessions began after
that; `sure` says of a repair that nobody has installed Claude since it began.

Abstractions. A folder has one project and one server, of which a version counts;
`WordsKept` is about what a write keeps beside them. The repair is started where
something is amiss, its confirmation is given.

## Runs

| run | instance | what it shows |
|---|---|---|
| `InstallCrash` | 3 unreliable processes, one of them of an older ovm, 1 version, native and npm, an old tree may lie there, 3 commands | `SingleFlight`, `CompleteIsWhole`, `OnlyRemovalDestroys`: writers take turns, readers never see half an install, a take-over and a cleanup arm leave the other source alone |
| `OneTerminal` | 1 unreliable process, every command, 2 versions, 2 sources, 4 commands | `KeepsPromise`: the store implements `PublishedStore`; what one command leaves, killed anywhere, is what the next one can work on |
| `MassRemoval` | uninstall --all and use in a terminal that may close, 2 reliable installers of Codex with hooks and repair, 2 versions, 4 commands, fair | `CurrentNeverDangles`, `NoWriterUnderMassRemoval`, `SweepRemovesNoInstall`, `CommandsReturn` |
| `SelfManaged` | 2 processes, any 2 of the 8 self-management commands, 3 releases of which one fails its probe, 1 dev snapshot, 1 I/O error, 1 kill | `PointersComplete`, `UndoneIsUnchanged`, `Coherent`, `OldControlKept`, `PromiseKept`: what is selected is installed, what was undone is as it was, and everything changes together |
| `TwoUpdates` | 2 updates, 1 release installed, every release good | violation: an update replaces a newer release by an older one (`NoDowngrade`) |
| `SelfRemoved` | 2 commands, 1 link, 1 profile, launchers inside or outside `~/.ovm`, ovm itself readable or not, installed whole or half removed, 1 change by a user or an update, 1 fault or kill | `LosesOnlyConfirmed`, `SuccessMeansGone` |
| `Refresh` | 2 refreshes at a time, 1 listing terminal, 2 versions, 2 changes of the registry, 1 death, fair | `CleanIndexIsCurrent`, `KnownIsRecent`, `Learns` |
| `Launches` | 2 terminals, 2 versions, 2 commands beside plain launches, one version installed at the start, any or none selected, 1 kill or loss of a version, fair | `PinIsChosen`, `PinRespected`, `SettingsKept`, `Converges` |
| `ProxyShared` | 2 commands, 3 proxy versions of which one never comes up, 4 daemons, 1 fault | `NoStrayProxy`, `SelectedWorks`, `PinnedPair`, `SessionsKeepProxy`, `SessionStartsServed`, `UserUpdateKept` |
| `Limits` | a polled and a live-only account, 2 windows, a poll and 2 editors, 5 commands of which an edit counts twice, 1 mishap: a kill, an early reset, a report, or an edit beside another | `ThresholdOnce`, `EarlyIsReal`, `AlertsClose`, `NamedIsKept`, `OthersKept` |
| `Skew` | 3 versions built with 1, 2 and 5 migrations, 3 and 5 breaking, a manifest compiled up to 3, 4 documents, a week of 2 days, 2 faults, fair | `DegradedIsTold`, `WarningHasReason`, `WarningStays`, `ServedInTheEnd` |
| `ClaudeHome` | 2 terminals, 2 accounts of which one is a provider, 1 directory, 2 server versions, 1 repair or `ovm accounts`, 1 write of a session or reinstall, 1 kill or misread file, launches without bound, fair | `StaysRemoved`, `WordsKept`, `ServersReach` |

The type invariants are proved for every instance and not repeated in the runs.
`CHECK_DEADLOCK FALSE` stands where commands are bounded
and the system stops when they are used up.

Why the bounds are enough. Three installers are the smallest number with a
holder, a waiter and one that comes after both; one version suffices for them
because nothing but the product lock relates two versions. Four commands in one
terminal reach install, use, another install and a removal, and each may be cut
off anywhere. In `MassRemoval` two versions give the sweep something listed and
something not, and two installers let a hook's child contend with another install.
`MaxOps` bounds commands, not steps: recursion and retry inside a command are
unbounded.

In `SelfManaged` two commands give an update and whatever may come before it,
after it or in the middle of it; a start with two releases and a dev snapshot
installed, any of them selected, any other (or none) previous, with or without a
staged update and a side-link record, stands for the commands that ran earlier;
two side names, one shared by two releases, give a switch something to add, to
keep and to remove. One error and one kill give an error in a change, an error in
its undo (of a release that fails its probe by itself) and a kill in either.

In `SelfRemoved` a look, a rename and a comparison concern one path, and one change
in between is the case they are made for; with two a user would have to race each
of them. In `Refresh` two changes are what a mark needs to be cleared by the wrong
answer (one change found, another one before the listing is fetched). In `Launches`
the second terminal does what a launch did not reckon with, twice, and a version that
is lost is the one it runs, the one it goes to, or the one selected at the start. `ProxyShared`
has a version to leave, one to go to and one that fails; a start with a daemon of
this or an older claudex stands for the session before; four pids suffice for two
commands that each replace one and start it again. In `Limits` five commands make
two edits (one after the other, or both at once) and a poll, or an edit and three
polls, which is a miss, a second one and a recovery beside it, a threshold told, lost
and told again, or a failure told, a pause and what follows. In `Skew` the
descriptions of `v1` and `v2` hold the breaking migration by chance, once past a
gap and once not; the documents continue one another, contradict one another, or
tell less; a week of two days has a day inside, a last one and one after. In
`ClaudeHome` launches are free, so that one command, one foreign write and one kill or misreading
fall before, between and after any number of them; one write is what a second look
has to find, and two versions of a server one that is newer and one that is older.

Fairness. `FairSpec` of `InstallStore` is weak fairness of `Step(p)`: a process
that runs goes on running, and a lock that stays free is granted. Nothing obliges
a command to start, a process to die, or a download to fail. A blocked `flock`
needs no more than weak fairness here because commands are bounded, so a lock
cannot be taken away again and again for ever. `RefreshCache`: hours pass, commands
that spawn a refresh keep coming and refreshes run on (weak); a request made again
and again is answered in the end, and not slept over every time (strong). The
quantifier is inside: which of the refreshes comes through is left open, since a
command spawns one and a lock lets one work. `LaunchUpdate`: delays end,
somebody launches and launches run on (weak); a list or a download asked for again
and again comes (strong). `CodexSkew`: days pass, a refresh that is due begins as
soon as somebody uses ovm, a refresh runs on (weak), the registry answers now and
then (strong). `ClaudeHome`: a command that has begun goes on and a session ends
some day (weak), and somebody launches each account again and again (strong, as it
may be removed and added meanwhile). None of them assumes that a particular attempt
succeeds, or that nobody is killed. `SelfUpdate`, `SelfUninstall` and
`ProxySession` state no liveness: their locks are polled and may time out, and a command may always fail.

The violation. `update_with` decides before the lock that it does not downgrade,
and does not decide again: of two updates the one that waited may activate what
was newer when it looked (`TwoUpdates`).

### Known gaps

What TLC found the code not to do, or the properties leave out, on purpose:

- `use` and `uninstall --all` in two terminals: `use_version` holds no lock, so its
  checks, its PreSwitch hook and the switch are far apart, and a cleared selection
  is set again to a version that is then removed. `CurrentNeverDangles` is checked
  where they take turns.
- An install that was killed, then an uninstall that is killed:
  `prepare_install_source` renames a root away because deleting it in place would
  let readers take it for a complete old install; the removals delete in place.
  `CompleteIsWhole` is checked without removals that die.
- `PathSnapshot::restore` unlinks before it links again, unlike `switch_symlink`:
  while an update is undone nothing is selected for a moment.
- `activate_release` puts the older backup back whether or not the control plane
  itself came back, so that the message that sends the user to `ovm self repair`
  promises what is no longer there (`OldControlKept` is about the time until then).
- An account that is paused while a poll of it runs: the poll publishes it, or
  writes the snapshot back that the pause has dropped, and `limits.json` goes on
  naming it, where `crates/ovm-limits/src/accounts.rs:195-196` says it stops.
  `NamedIsKept` excepts exactly those accounts (`torn`).
- Two polls at once tell the same events: nothing excludes them. The model runs one.
- Two edits at once revert or lose each other's account: the registry is loaded,
  changed and saved whole, in two files and under no lock
  (`crates/ovm-limits/src/registry.rs:483-507`). An account that is being paused goes
  on, one that is being added is gone, one that was removed is back. `OthersKept`
  excepts the saves of an edit that another one overtook (`stale`), and what they
  change is `torn`.
- A bar may be told twice in a window whose use only climbs: a poll that fails, or a
  pause, leaves nothing known to hold a session's old numbers against
  (`crates/ovm-limits/src/live.rs:109`), they put the window below the bar, and the
  next poll tells it again. `ThresholdOnce` excepts such windows (`misread`), and no
  window because a poll of it failed.
- A failure that was told may never be taken back: a pause or a removal deletes the
  snapshot (`crates/ovm-limits/src/accounts.rs:204-212`), and after a resume there is
  no previous state to recover from (`events.rs:138-140`). `AlertsClose` excepts such
  accounts (`dropped`) until the log's next word on them.
- A removal beside a poll may leave a snapshot, and so a name in `limits.json`, that
  repeating it cannot mend, since the account is gone: it goes when an account of the
  same id is added and removed.
- A pin that `use` writes while a launch downloads is overrun and cleared by that
  launch; `PinRespected` excepts a launch that another command overtook. So is one
  that `use` writes while a launch installs its incomplete version again: that launch
  puts back the selection it began with.
- A launch whose version is incomplete installs it again and calls `use_version`
  (`commands/launch.rs:93-99`), which writes a pin nobody chose and which nothing
  clears, though `version_manager.rs:402-408` means a pin for a deliberate choice: the
  version is from then on only asked about, where it was updated before. An adoption
  at the first launch does the same (`commands/adopt.rs`). `PinIsChosen` names these
  pins (`kept`).
- A kill between the three files of a selection leaves a pin nobody chose;
  `PinIsChosen` holds until then.
- A refresh that sleeps for ten minutes loses its lock and later removes its
  successor's; a listing asked for early and saved late replaces a newer one.
- `claudex uninstall` stops the proxy without the update lock, which
  `crates/ovm-claudex/src/launch.rs:74-78` says every stop takes.
- `ovm self uninstall` removes the control plane before `~/.ovm/self`, where the
  comment at `self_uninstall.rs:320-322` has it the other way round; it removes the
  lock file it holds, so that an update that waited goes on; the rename back of what
  was moved aside by mistake replaces a file that came meanwhile.
- `seed_claude_json` reads and renames without a second look: what a session wrote
  into its folder between the two is lost, a login too. `WordsKept` excuses it
  (`raced`), and the instant between the second look of a repair and its rename.
- `seed_claude_json` takes a folder's `.claude.json` that cannot be read, parsed or is
  no object, one half written too, for `{}` and replaces it, the login included
  (`accounts.rs:565-569`), where its comment keeps "everything the folder already has
  — its login above all" (`accounts.rs:556-557`). No race is needed, any launch does
  it. `neutralize_config` leaves such a file untouched. `WordsKept` excepts the writes
  of a launch, never of a repair, that rest on such a look (`blind`).
- `accounts.json` is loaded, changed and saved whole: of two edits at once the last
  one stays. It remains closed even so (`TypeCorrect` of `ClaudeHome`).
- A launch looks at the launcher and replaces it in separate steps: a real file
  that came between them is removed, which `ensure_owned_launcher` means to leave.
- A server that is removed from the main setup stays in the folders of accounts.
- `judge_snapshot` lets the newest reading of a chain vouch for all: an account
  whose own reading is old is still skipped or chosen by it.
- `ovm statusline` under an account replaces the linked `settings.json` by a file
  (`claude_settings.rs`), and it is no longer shared, as `accounts.rs:10-16` says it is.
- A Codex that migrates between the check and the exec, or while another one runs,
  is not told.

## Proofs

All theorems are of `Spec`, for every value of the constants that satisfies the
named assumptions of the module: any number of processes, versions, accounts or
documents, any set of commands per process, crashes everywhere. Six theorems of
`InstallStore` and one of `ProxySession` have a hypothesis more, on who runs which
commands or on what is there at the start, named in the table and explained below
it: without it they are false of the code. The assumptions say what the constants
range over, and that the model value `None` is none of the values it stands beside.

| module | theorem | says |
|---|---|---|
| `InstallStore` | `TypeCorrect` | `[]TypeOK` |
| | `LocksHeld` | `[](TypeInv /\ LockInv)` |
| | `SingleFlightCorrect` | `[]SingleFlight` |
| | `NoWriterCorrect` | `[]NoWriterUnderMassRemoval` |
| | `WholeCorrect` | `InstallersOnly`: `[]CompleteIsWhole` |
| | `DestroyCorrect` | `InstallersOnly`: `OnlyRemovalDestroys` |
| | `SweepCorrect` | `NoOlderOvm`, `NoOtherRemoval`: `SweepRemovesNoInstall` |
| | `NeverDanglesAlone` | `OneTerminal`: `[]CurrentNeverDangles` |
| | `NeverDanglesAmongInstalls` | `AmongInstalls`: `[]CurrentNeverDangles` |
| | `PromiseCorrect` | `OneTerminal`, `NoRepair`: `KeepsPromise` |
| `SelfUpdate` | `SelfTypeCorrect` | `[]TypeOK` |
| | `PointersStayComplete` | `[]PointersComplete` |
| | `OldControlStays` | `[]OldControlKept` |
| | `UndoneCorrect` | `[]UndoneIsUnchanged` |
| | `CoherentAlways` | `[]Coherent` |
| | `PromiseCorrect` | `PromiseKept` |
| `SelfUninstall` | `UninstallTypeCorrect` | `[]TypeOK` |
| | `LosesOnlyConfirmedCorrect` | `LosesOnlyConfirmed` |
| | `SuccessMeansGoneCorrect` | `SuccessMeansGone` |
| `RefreshCache` | `TypeCorrect` | `[]TypeOK` |
| | `CleanCorrect` | `[]CleanIndexIsCurrent` |
| | `KnownCorrect` | `[]KnownIsRecent` |
| `LaunchUpdate` | `LaunchTypeCorrect` | `[]TypeOK` |
| | `PinIsChosenCorrect` | `[]PinIsChosen` |
| | `PinRespectedCorrect` | `PinRespected` |
| | `SettingsKeptCorrect` | `SettingsKept` |
| `Limits` | `LimitsTypeCorrect` | `[]TypeOK` |
| | `OthersKeptCorrect` | `OthersKept` |
| | `ThresholdOnceCorrect` | `[]ThresholdOnce` |
| | `EarlyIsRealCorrect` | `[]EarlyIsReal` |
| | `AlertsCloseCorrect` | `[]AlertsClose` |
| | `NamedIsKeptCorrect` | `[]NamedIsKept` |
| `ProxySession` | `ProxyTypeCorrect` | `[]TypeOK` |
| | `NoStrayCorrect` | `[]NoStrayProxy` |
| | `PinnedCorrect` | `[]PinnedPair` |
| | `SessionsKeepCorrect` | `SessionsKeepProxy` |
| | `StartsServedCorrect` | `SessionStartsServed` |
| | `UserUpdateCorrect` | `UserUpdateKept` |
| | `SelectedCorrect` | `Selected \cap (Broken \cup {None}) = {}`: `[]SelectedWorks` |
| `CodexSkew` | `SkewTypeCorrect` | `[]SkewTypeOK` |
| | `DegradedIsToldCorrect` | `[]DegradedIsTold` |
| | `WarningHasReasonCorrect` | `[]WarningHasReason` |
| | `WarningStaysCorrect` | `WarningStays` |
| `ClaudeHome` | `TypeCorrect` | `[]TypeOK` |
| | `StaysRemovedCorrect` | `[]StaysRemoved` |
| | `WordsKeptCorrect` | `WordsKept` |

InstallStore. `TypeOK` is not inductive: that a lock is taken on a version, or a
file written at a source, rests on the locals being set at the program counters
that use them; `TypeInv` adds that (`JobOK`). `SingleFlight` says nothing of who
holds a lock, so it is not inductive either; `LockInv` says that an install holds
the lock of its version from its completeness check to its end, and that a mass
removal past its re-check holds every lock it set out to take. Two holders of one
lock are one process, which gives both safety theorems. The step of every action
is proved from three lemmas about what an action may do to somebody else's lock
(`Moves`, `Stays`, `Ends`) and one about taking a lock (`Takes`).

The other properties of the store rest on what the trees hold, and each action is
first reduced to what it writes: a process writes the tree of its own version, a
sweep any, and nobody the locals of another (`Writes`, `Erases`, `Apart`). Trees
lie in version directories (`Rooted`), and what an install has built so far
follows from where it stands (`Work`, `Fresh`). This is inductive among installs
and switches (`StoreInv`), which gives `CompleteIsWhole` and
`OnlyRemovalDestroys` for any number of them. A removal of one version takes no
lock of an install and erases entry by entry: beside it, or after its kill, a half
erased tree may look complete, so `InstallersOnly` excludes it.
`SweepRemovesNoInstall` needs that the list a mass removal made still names
whatever is complete (`SweepInv`). That is so because the product lock is held
either by one removal or by installers (`ProductInv`); an older ovm knows no
product lock, and a removal of one version may take the mark of a killed install
before the rest of its tree, hence `NoOlderOvm` and `NoOtherRemoval`.

`CurrentNeverDangles` is false of two terminals, as `use` holds no lock between
its check and the switch. For one, `AloneInv` says that what `use` is about to
select is there, and that no removal goes on with the selected version. With
installs beside it, it stands as long as these neither fail nor are killed, since
the cleanup of a failed install takes away the directory of a version that `use`
has just found: `AmongInv` adds that nobody else is in that cleanup.
The refinement of `PublishedStore` for one terminal adds that what is selected is
complete (`SelectInv`). A repair of a Codex release retires the tree of a version
that may be selected, hence `NoRepair`.

SelfUpdate. That `pending` and `attempt` name releases rests on what the
commands that write them carry: a staging or an activation carries a release from
the step that chose it on, a change a version, an undo one of its steps (`WorkOK`).
Each action is reduced to where its process goes and with which locals (`Moves`),
and one lemma for each kind of move (`TypeGoes`, `TypeSets`, `TypeTakes`,
`TypeEnds`, `TypeFails`, ...) carries the invariant. `PointersComplete` is not
inductive: an undo selects what its snapshot names, and a removal trusts a choice
made earlier. `Holds` adds what a process under the lock relies on: the lock is
its own; the version it selects and the two it may have to select again are
complete; nothing it removes is selected. Since the lock has one holder, a step of
the holder cannot break what another process relies on, and a step of anybody else
touches neither bundles nor pointers (`OthersUnlocked`, `PlainStep`, `HolderStep`).
`OldControlKept` needs to know which of the two copies holds the old control
plane: `OldPlane` says that it is in place until it has been backed up, is the
backup until the undo begins, one or the other while the undo goes on, and in
place again before the old backup is restored over it. It also needs that there is
a control plane at all, that only activations reach the steps that replace it, and
that the undo of a mere switch restores neither copy.
For the rest, `SwitchInv` says at each step of a change what the disk holds,
in terms of the snapshot: which pointers have been switched (`Mid`), which an undo
has still to put back (`Back`), and that what it has put back is what the snapshot
named (`Restored`); between two changes that no kill tore, the disk is `Sound`. An
undo that has nothing left to put back gives `UndoneIsUnchanged`, the end of a
change `Coherent`. `PromiseKept` is shown step by step: every action is a step of
`SelectionPromise` or leaves its two variables alone.

SelfUninstall. `UninstallInv`: every object lies in one place, at a path, aside
with one command, or among what was left (`Apart`); what a command has aside when
it deletes is what its plan names at that path (`JobFits`); and whatever of ovm's a
command found and that lies there still, it has failed on or will come to
(`Founds`). The second gives `LosesOnlyConfirmed`, the third `SuccessMeansGone`.

RefreshCache. `CleanInv`: whatever listing a file or a process holds was the
registry's (`HeldOK`); while no lock is lost one refresh works at a time
(`LockOK`); and from the answer that found the listing changed to the save of one
as new the mark stands (`MarkOK`), so that an unmarked listing is as new as the
probe. `KnownIsRecent` needs `RecentInv`: while no answer was
overtaken, what a listing that counts as new names, or a probe that was validated
today, or an answer still under way, was not withdrawn more than a day ago, nor was
anything in the listings that came after it (`LaterRecent`).

LaunchUpdate. `LaunchInv`: what a command holds fits its place (`JobFits`); what a
launch decided on, while nobody moved the selection, is still so, and what it runs
or installs again is what is selected (`DecisionFits`), which gives `PinRespected`;
`PinIsChosen` is inductive beside them. `SettingsKept`
needs that the configuration about to be saved differs from the one loaded in one
key only; the merge then changes that one.

Limits. Until its second write an edit that nobody overtook knows of everybody else
what the files say (`RegistryAt`, for `OthersKept`). Use that was seen is not above
the use now, in a window that ran evenly (`Seen`), so lower use means an early reset.
`CrossAt` gives `ThresholdOnce`: once a bar is told, the snapshot, what a poll has
read, the reading it will take and the one it will write are past it (`Over`,
`Past`), as far as they know a use at all; where none is known a poll that takes a
reading does so blindly, and if that is short of the bar, its write marks the window
as misread before anything can tell it again.
`AlertAt` says of every account no edit left half done that log and snapshot
agree, and of the one being recorded what they will be (`Remembers`, `WordAfter`),
unless the snapshot was deleted since the log's last word (`CutAfter`). `Forgotten`
says that an edit which began alone, past its deletion of the snapshot, meets no
poll, and `Blank` that the snapshot stays away meanwhile. With `NamedOK` they give
`AlertsClose` and `NamedIsKept`.

ProxySession. What a command carries fits its place (`TypeInv`, whose `JobFits`
says at each step which of the locals are set). `ProxyInv` has what it relies on
(`Keeps`): every command but the uninstall that decides, replaces, starts or looks
for a proxy holds the update lock, and the one that replaces it the exclusive
session lock (`Held`, `Guarded`, `LeaseInv`); the pid record names the daemon it is
about to see dead, has just started, or was served by (`RecordFits`), which is the
pinned one under a pin (`PinFits`); the update it activates is still staged
(`PendingFits`). `DaemonInv` is the other half: a daemon that no fault has come to
is named by the record, or by the command that has just spawned it, listens unless
it is still awaited, and if it is stopping somebody waits for it. Since the lock
has one holder, a step of the holder breaks nobody's reliance, and the uninstall,
which works without it, can only take the record away or stop what it then
excuses (`excused`). The properties follow one by one.

`SelectedWorks` needs an invariant of its own (`SelInv`), since nothing of it holds
of a replacement that a fault has torn: whoever has selected the staged version and
does not know yet that it works still has what it left, which works, and returns to
it (`Activator`, `WorksSel`, `SelFits`); and until the version it selected has come
up, nothing else does, so that the proxy it verifies is the one it has started
(`Calm`, `ListenSel`). An activation that had nothing selected before has nothing
to return to (`proxy.rs:1173-1179`): if it fails, what failed stays selected. Hence
the hypothesis that something is selected at the start, and works.

CodexSkew. Its names bear the prefix where those of `RefreshCache`, beside which it
is proved, are the same. The first two safety theorems hold of every document and every number
of migrations, and their invariant is type correctness: run numbers are bounded,
so among several observations there is a newest, and among several migrations
ahead a nearest (`NatLessThanWellFounded`, applied to sets).
`WarningStays` needs `SealOK`: the sidecar of a sealed document names it and counts
its days, so that what replaces it within a week dominates it.

ClaudeHome. A repair reads a file that is there, which makes the type invariant
inductive (`Present`). `Hygiene`, for `StaysRemoved`: when a repair that nobody's
install has overtaken is about to remove the tree, and once it has, the main file does
not say native, nor did it when the sessions began that began since (`Calm`); no write of ovm into it can bring that
back, and `Reinstall`, which does, takes back `sure` and `removed`.
`Fresh`, for `WordsKept`: what a terminal is about to
write differs from the file only in what it may change, unless the file was raced or
the look at it was blind. However a launch reads the two files, it ends in one of two
places (`SeedsOne`).

Only model-checked. Liveness, which is outside the prover: `CommandsReturn`,
`Learns`, `Converges`, `ServedInTheEnd`, `ServersReach`.
Every safety invariant and every action property of the runs is a theorem; the
property of `TwoUpdates`, which the code violates, is none.

## Plan

1. `SelfStaging`: the retry backoff of staging and its record, with a clock that may
   jump.
2. Two polls at once in `Limits`, with what they tell twice made precise.
3. `InstallStore`: what of `CurrentNeverDangles` is left when removals of other
   versions run beside one terminal.

## Not modelled

Of the install store: `clean`, which removes raw download artefacts no reader
looks at; the launcher link that `use_version` writes points at ovm itself for
every version; the order of entries in a recursive removal is left open, as the
file system leaves it.

Of the self-managed ovm: the forwarding of a command to the selected binary, the
confirmation of a switch to a version that cannot switch back, foreign files in
the launcher directory, and `install.sh` and `dev-install.sh`, which prepare the
initial states and take the same lock. Of its removal: how a block is cut out of a
profile, mount boundaries, the empty launcher directory.

Of a launch: the environment and arguments of the child, and `ovm run`, which
launches a named version and writes nothing. Of claudex: the messages it
translates, its setup and its settings file. Of limits: how a reading is taken
from a terminal or an API, tables and digests; an account's windows are one. Of
the skew check: the time a scan may take, the caps on a document, which of
several databases is the newest, the reports.

Of accounts: the links from a folder into the default home, the keychain, the
login of a provider and its environment, what `ovm accounts` shows. A session of an
account reads its own folder's method, which the repair never looks at; what the
repair takes for the trigger is modelled. The settings files that the tour and
`ovm statusline` write are not.

Plugins, and adoptions at a user's word, move files once, in one process.

Elsewhere: network, checksums, archive extraction, parsing and validation of
version names, symlink and hard-link checks of an import's source, packaging, and
everything drawn on a screen.

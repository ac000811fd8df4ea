---------------------------- MODULE LaunchUpdate ----------------------------
(***************************************************************************)
(* What a plain launch runs: the selected version of one product, its pin, *)
(* the update a launch makes by itself or asks about, the commands that    *)
(* follow the latest release, and config.json, which says what launches    *)
(* may do.  Code: crates/ovm/src commands/launch.rs, commands/update.rs,   *)
(* autoupdate.rs, config.rs and version_manager.rs.                        *)
(*                                                                         *)
(* What the caches offer is the environment's here: module RefreshCache    *)
(* says what that can be.  One step is one file read or written, one       *)
(* request answered, or one decision on what was read together.            *)
(***************************************************************************)
EXTENDS Naturals, FiniteSets

CONSTANTS
  Procs,      \* terminals that run ovm
  Versions,   \* releases, in version order
  Settings,   \* settings of config.json beside the two below
  Values,     \* their values
  Default,    \* the value a setting has that config.json does not name
  Installed,  \* what may be installed at the start
  Files,      \* what config.json may say at the start
  Ops,        \* [Procs -> SUBSET OpNames], the commands each terminal may run
  MaxOps,     \* bound: commands other than plain launches
  MaxMishaps, \* bound: killed commands and versions that get lost
  None

OpNames == {"launch", "use", "latest", "update", "settings"}

Policies == {"on", "notify", "off"}

\* What config.json may hold: whether to check for updates, the product's
\* policy, and the other settings.
Keys == {"check", "policy"} \cup Settings
KeyValues(k) == CASE k = "check"  -> {"yes", "no"}
                  [] k = "policy" -> Policies
                  [] OTHER        -> Values
Config == {c \in [Keys -> {"yes", "no"} \cup Policies \cup Values] :
             \A k \in Keys : c[k] \in KeyValues(k)}

ASSUME ConstantsAssumption ==
  /\ Versions \subseteq Nat
  /\ Settings \cap {"check", "policy"} = {}
  /\ Default \in Values
  /\ Installed \subseteq SUBSET Versions
  /\ Files \subseteq Config \cup {None}
  /\ Ops \in [Procs -> SUBSET OpNames]
  /\ MaxOps \in Nat /\ MaxMishaps \in Nat
  /\ None \notin Versions /\ None \notin OpNames
  /\ None \notin Keys /\ None \notin Config

\* Some versions have a newest one.
ASSUME NewestAssumption ==
  \A S \in (SUBSET Versions) \ {{}} : \E v \in S : \A w \in S : w <= v

VARIABLES
  known,      \* the newest release the caches offer
  installed, current, pin,
  attempt,    \* the last failed automatic install
  snooze,     \* the version of the last notice
  config,     \* config.json
  pc, job,    \* control state and locals of each terminal's command
  ops, mishaps, \* counted against the bounds
  chosen,     \* history: the version last selected with `use <version>`
  kept,       \* history: the pin that a launch wrote by itself, until another is
  killed      \* history: a command was killed

store    == <<installed, current, pin>>
records  == <<attempt, snooze>>
counters == <<ops, mishaps>>
history  == <<chosen, kept, killed>>
vars     == <<known, store, records, config, pc, job, counters, history>>

Newest(S) == CHOOSE v \in S : \A w \in S : w <= v

VersionOrNone == Versions \cup {None}

\* Of a failed install: whether its delay, which grows to a day, is over.
Attempt == [ver : Versions, failed : {"running", "over"}]

Defaults == [k \in Keys |-> CASE k = "check"  -> "yes"
                              [] k = "policy" -> "on"
                              [] OTHER        -> Default]

Job == [op     : OpNames \cup {None},
        config : Config,               \* as loaded
        loaded : Config \cup {None},   \* the file it was loaded from
        set    : Keys \cup {None},     \* the setting it changes
        active : VersionOrNone,        \* `current`, as read
        ver    : VersionOrNone,        \* the version it installs and selects
        auto   : BOOLEAN,              \* an update nobody asked for
        follow : BOOLEAN,              \* the pin is cleared in the end
        moved  : BOOLEAN]              \* history: another command moved the selection

NoJob == [op |-> None, config |-> Defaults, loaded |-> None, set |-> None,
          active |-> None, ver |-> None, auto |-> FALSE, follow |-> FALSE,
          moved |-> FALSE]

PCs == {"idle", "active", "decide", "offer", "asked", "target", "list",
        "download", "switch", "pin", "unpin", "edit", "write"}

-----------------------------------------------------------------------------
(* Helpers.                                                                *)

Go(p, l) == pc' = [pc EXCEPT ![p] = l]
SetJob(p, j) == job' = [job EXCEPT ![p] = j]
Continue(p, l, j) == Go(p, l) /\ SetJob(p, j)
Finish(p) == Continue(p, "idle", NoJob)

\* A launch runs v, which it first installs again if it is not complete; then
\* use_version selects and pins it.
Again(p, v) == [NoJob EXCEPT !.op = "launch", !.active = v, !.ver = v, !.moved = job[p].moved]
GoOn(p, v)  == IF v \in installed THEN Finish(p) ELSE Continue(p, "download", Again(p, v))

\* The command moves the selection or the pin: a launch that runs has decided on
\* old news.
MoveOn(p, l, j) ==
  /\ Go(p, l)
  /\ job' = [q \in Procs |-> IF q = p THEN j
                             ELSE [job[q] EXCEPT !.moved = job[q].op = "launch"]]

\* checked_latest: nothing is known while checks are off.
Checked(c) == IF c["check"] = "yes" THEN {known} \ {None} ELSE {}

\* OvmConfig::load: a missing setting has its default.
Loaded(file) == IF file = None THEN Defaults ELSE file

\* (SaveAsLoaded: a mutant, the whole of what the process holds is saved.)
SaveAsLoaded(now, baseline, desired, set) == desired

\* merge_config_changes, then apply_explicit_config_change: what the process has
\* not changed since it loaded stays as the file has it by now.
Merge(now, baseline, desired, set) ==
  [k \in Keys |-> IF k = set \/ desired[k] # baseline[k] THEN desired[k] ELSE now[k]]

-----------------------------------------------------------------------------
(* A command starts.                                                       *)

\* What it has loaded of config.json matters to a launch and to a change of it.
Begin(o) == [NoJob EXCEPT !.op = o,
                          !.config = IF o \in {"launch", "settings"} THEN Loaded(config) ELSE Defaults,
                          !.loaded = IF o = "settings" THEN config ELSE None]

\* ... until the launch has decided.
Decided(p) == [job[p] EXCEPT !.config = Defaults]

Counted(p, o) ==
  /\ pc[p] = "idle" /\ o \in Ops[p]
  /\ ops < MaxOps /\ ops' = ops + 1

Launch(p) ==
  /\ pc[p] = "idle" /\ "launch" \in Ops[p]
  /\ Continue(p, "active", Begin("launch"))
  /\ UNCHANGED <<known, store, records, config, counters, history>>

\* `use <version>` of an installed version pins it, `use latest` selects the
\* newest installed one and drops the pin.
StartUse(p) ==
  /\ Counted(p, "use")
  /\ \E v \in installed, follow \in BOOLEAN :
       /\ follow => v = Newest(installed)
       /\ Continue(p, "switch", [Begin("use") EXCEPT !.ver = v, !.follow = follow])
  /\ UNCHANGED <<known, store, records, config, mishaps, history>>

\* `<product> latest` and `update` start with the list of versions; `update`
\* compares it with what is selected or else the newest that is installed.
Baseline == IF current = None /\ installed # {} THEN Newest(installed) ELSE current

StartFollow(p) ==
  /\ \E o \in {"latest", "update"} :
       /\ Counted(p, o)
       /\ Continue(p, "list", [Begin(o) EXCEPT !.active = Baseline, !.follow = TRUE])
  /\ UNCHANGED <<known, store, records, config, mishaps, history>>

\* A picker or a settings command: it has loaded config.json, and the user thinks.
StartSettings(p) ==
  /\ Counted(p, "settings")
  /\ Continue(p, "edit", Begin("settings"))
  /\ UNCHANGED <<known, store, records, config, mishaps, history>>

-----------------------------------------------------------------------------
(* config.json.                                                            *)

Edit(p) ==
  /\ pc[p] = "edit"
  /\ \E k \in Keys : \E v \in KeyValues(k) :
       Continue(p, "write", [job[p] EXCEPT !.set = k, !.config = [@ EXCEPT ![k] = v]])
  /\ UNCHANGED <<known, store, records, config, counters, history>>

\* OvmConfig::save under config.json.lock: read again, merge, rename into place.
SaveConfig(p) ==
  /\ pc[p] = "write"
  /\ config' = IF config = None
               THEN job[p].config
               ELSE Merge(config, Loaded(job[p].loaded), job[p].config, job[p].set)
  /\ Finish(p)
  /\ UNCHANGED <<known, store, records, counters, history>>

-----------------------------------------------------------------------------
(* A plain launch: maybe_auto_update.                                      *)

\* Without a selection (bootstrap_first_launch): the newest installed version,
\* else one the machine has without ovm, which is adopted, else the latest release.
ReadActive(p) ==
  LET j == [job[p] EXCEPT !.moved = FALSE] IN
  /\ pc[p] = "active"
  /\ \/ current # None /\ Continue(p, "decide", [j EXCEPT !.active = current])
     \/ /\ current = None /\ installed # {}
        /\ Continue(p, "switch", [j EXCEPT !.ver = Newest(installed), !.follow = TRUE])
     \/ /\ current = None /\ installed = {}
        /\ \/ \E v \in Versions : Continue(p, "download", [j EXCEPT !.ver = v])
           \/ Continue(p, "list", [j EXCEPT !.follow = TRUE])
  /\ UNCHANGED <<known, store, records, config, counters, history>>

\* (DecideUnpinned: a mutant, a pinned version is updated like another.)
DecideUnpinned(p) ==
  /\ pc[p] = "decide"
  /\ LET policy == job[p].config["policy"]
     IN  CASE policy = "off"    -> GoOn(p, job[p].active)
           [] policy = "notify" -> Go(p, "offer") /\ UNCHANGED job
           [] OTHER             -> Go(p, "target") /\ UNCHANGED job
  /\ UNCHANGED <<known, store, records, config, counters, history>>

\* The policy, and the pin: a pinned version is only ever asked about.
Decide(p) ==
  /\ pc[p] = "decide"
  /\ LET policy == job[p].config["policy"]
     IN  CASE policy = "off" -> GoOn(p, job[p].active)
           [] policy = "notify" \/ (policy = "on" /\ pin = job[p].active) ->
                Go(p, "offer") /\ UNCHANGED job
           [] OTHER -> Go(p, "target") /\ UNCHANGED job
  /\ UNCHANGED <<known, store, records, config, counters, history>>

\* maybe_notify_product: on a terminal the user is asked, elsewhere one notice is
\* printed; a version the user has been told of is not mentioned for three days.
Worth(p) == {v \in Checked(job[p].config) : v > job[p].active /\ v # snooze}

Offer(p) ==
  /\ pc[p] = "offer"
  /\ IF Worth(p) = {}
     THEN GoOn(p, job[p].active) /\ UNCHANGED snooze
     ELSE \E v \in Worth(p) :
            \/ Continue(p, "asked", [Decided(p) EXCEPT !.ver = v, !.follow = TRUE]) /\ UNCHANGED snooze
            \/ GoOn(p, job[p].active) /\ snooze' = v
  /\ UNCHANGED <<known, store, attempt, config, counters, history>>

\* (NeverAgain: a mutant, a version that has failed once is not tried again.)
NeverAgain(v) == v \notin installed /\ attempt # None /\ attempt.ver = v

\* cached_upgrade_target and the backoff of failed downloads: the newest of what
\* the caches know and what is installed.
BacksOff(v) ==
  v \notin installed /\ attempt # None /\ attempt.ver = v /\ attempt.failed = "running"

Target(p) ==
  /\ pc[p] = "target"
  /\ LET newer == {v \in Checked(job[p].config) \cup installed : v > job[p].active}
         v     == Newest(newer)
     IN  IF newer = {} \/ BacksOff(v)
         THEN GoOn(p, job[p].active)
         ELSE Continue(p, IF v \in installed THEN "switch" ELSE "download",
                       [Decided(p) EXCEPT !.ver = v, !.auto = TRUE, !.follow = TRUE])
  /\ UNCHANGED <<known, store, records, config, counters, history>>

-----------------------------------------------------------------------------
(* The commands that follow the latest release.                            *)

\* The list has any newest version, or cannot be had.  `update` asks before it
\* leaves the selected version, and only for a newer one.
Listed(p) ==
  /\ pc[p] = "list"
  /\ \/ \E v \in Versions :
          IF job[p].op # "update" \/ (job[p].active # None /\ v > job[p].active)
          THEN Continue(p, IF job[p].op = "update" THEN "asked" ELSE "download",
                        [job[p] EXCEPT !.ver = v, !.active = None])
          ELSE Finish(p)
     \/ Finish(p)
  /\ UNCHANGED <<known, store, records, config, counters, history>>

Consent(p) ==
  /\ pc[p] = "asked"
  /\ Go(p, "download")
  /\ UNCHANGED <<known, store, records, config, job, counters, history>>

Later(p) ==
  /\ pc[p] = "asked"
  /\ IF job[p].op = "launch" THEN snooze' = job[p].ver /\ GoOn(p, job[p].active)
                             ELSE Finish(p) /\ UNCHANGED snooze
  /\ UNCHANGED <<known, store, attempt, config, counters, history>>

-----------------------------------------------------------------------------
(* A version is installed and selected: install_and_use_latest.            *)

Download(p) ==
  /\ pc[p] = "download"
  /\ installed' = installed \cup {job[p].ver}
  /\ \/ Go(p, "switch")
     \/ job[p].op = "latest" /\ current = job[p].ver /\ Go(p, "unpin")
  /\ UNCHANGED <<known, current, pin, records, config, job, counters, history>>

\* An automatic update that fails is not retried at once, and the launch goes on
\* with the version it had; so does one that cannot adopt what the machine has.
Adopts(p) == job[p].op = "launch" /\ job[p].active = None /\ ~ job[p].follow

UpdateFails(p) ==
  /\ attempt' = IF job[p].auto THEN [ver |-> job[p].ver, failed |-> "running"] ELSE attempt
  /\ CASE job[p].auto -> GoOn(p, job[p].active)
       [] Adopts(p)   -> Continue(p, "list", [job[p] EXCEPT !.ver = None, !.follow = TRUE])
       [] OTHER       -> Finish(p)

DownloadFails(p) ==
  /\ pc[p] = "download" /\ job[p].ver \notin installed
  /\ UpdateFails(p)
  /\ UNCHANGED <<known, store, snooze, config, counters, history>>

\* Enter stops it, and the launch goes on.
Skip(p) ==
  /\ pc[p] = "download" /\ job[p].auto /\ job[p].ver \notin installed
  /\ GoOn(p, job[p].active)
  /\ UNCHANGED <<known, store, records, config, counters, history>>

\* use_version looks at the version, not at what was selected or pinned meanwhile.
Switch(p) ==
  /\ pc[p] = "switch" /\ job[p].ver \in installed
  /\ current' = job[p].ver
  /\ MoveOn(p, "pin", job[p])
  /\ UNCHANGED <<known, installed, pin, records, config, counters, history>>

SwitchFails(p) ==
  /\ pc[p] = "switch" /\ job[p].ver \notin installed
  /\ UpdateFails(p)
  /\ UNCHANGED <<known, store, snooze, config, counters, history>>

\* (KeepsPin: a mutant, the pin a following command has recorded stays.)
KeepsPin(p) ==
  /\ pc[p] = "pin"
  /\ LET use == job[p].op = "use"
     IN  /\ pin' = IF use /\ job[p].follow THEN None ELSE job[p].ver
         /\ chosen' = IF use THEN pin' ELSE chosen
         /\ kept' = IF use \/ job[p].follow THEN None ELSE pin'
         /\ MoveOn(p, "idle", NoJob)
  /\ UNCHANGED <<known, installed, current, records, config, counters, killed>>

\* use_version records a pin, except for `use latest`; the commands that follow
\* the latest release remove it again.  A launch that reinstalled its version, or
\* adopted one, leaves it, and after an adoption reads what is selected.
WritePin(p) ==
  /\ pc[p] = "pin"
  /\ LET use == job[p].op = "use"
     IN  /\ pin' = IF use /\ job[p].follow THEN None ELSE job[p].ver
         /\ chosen' = IF use THEN pin' ELSE chosen
         /\ kept' = IF use \/ job[p].follow THEN None ELSE pin'
         /\ CASE ~ use /\ job[p].follow -> MoveOn(p, "unpin", job[p])
              [] Adopts(p) -> MoveOn(p, "active", [job[p] EXCEPT !.ver = None])
              [] OTHER     -> MoveOn(p, "idle", NoJob)
  /\ UNCHANGED <<known, installed, current, records, config, counters, killed>>

\* clear_pin, and after an automatic update clear_install_failure.  A launch that
\* has chosen its first version decides about an update of it, another one goes on.
ClearPin(p) ==
  /\ pc[p] = "unpin"
  /\ pin' = None /\ kept' = None
  /\ attempt' = IF job[p].auto THEN None ELSE attempt
  /\ LET v == job[p].ver
         first == job[p].op = "launch" /\ job[p].active = None
     IN  CASE first -> MoveOn(p, "decide", [job[p] EXCEPT !.active = v, !.ver = None, !.follow = FALSE])
           [] job[p].op = "launch" /\ ~ first /\ v \notin installed -> MoveOn(p, "download", Again(p, v))
           [] OTHER -> MoveOn(p, "idle", NoJob)
  /\ UNCHANGED <<known, installed, current, snooze, config, counters, chosen, killed>>

-----------------------------------------------------------------------------
(* The caches, the clock, kills and losses.                                *)

\* A refresh, or a day without one.
Learn ==
  /\ known' \in VersionOrNone /\ known' # known
  /\ UNCHANGED <<store, records, config, pc, job, counters, history>>

\* The delay after a failed install is over.
DelayEnds ==
  /\ attempt # None /\ attempt.failed = "running"
  /\ attempt' = [attempt EXCEPT !.failed = "over"]
  /\ UNCHANGED <<known, store, snooze, config, pc, job, counters, history>>

\* A notice of three days ago may be repeated.
SnoozeEnds ==
  /\ snooze # None
  /\ snooze' = None
  /\ UNCHANGED <<known, store, attempt, config, pc, job, counters, history>>

Kill(p) ==
  /\ pc[p] # "idle"
  /\ mishaps < MaxMishaps /\ mishaps' = mishaps + 1
  /\ Finish(p)
  /\ killed' = TRUE
  /\ UNCHANGED <<known, store, records, config, ops, chosen, kept>>

\* A version is removed or archived, or a removal or a repair of it dies half-way
\* (module InstallStore); that may happen to the selected one too.
Loses(v) ==
  /\ v \in installed /\ installed' = installed \ {v}
  /\ mishaps < MaxMishaps /\ mishaps' = mishaps + 1
  /\ UNCHANGED <<known, current, pin, records, config, pc, job, ops, history>>

-----------------------------------------------------------------------------
(* The specification.                                                      *)

\* A machine on which some versions are installed and perhaps one is selected,
\* complete or not, pinned or not.
Init ==
  /\ known \in VersionOrNone
  /\ installed \in Installed
  /\ current \in VersionOrNone
  /\ pin \in {current, None}
  /\ chosen = pin /\ kept = None
  /\ attempt = None /\ snooze = None
  /\ config \in Files
  /\ pc = [p \in Procs |-> "idle"] /\ job = [p \in Procs |-> NoJob]
  /\ ops = 0 /\ mishaps = 0
  /\ killed = FALSE

Step(p) ==
  \/ Edit(p) \/ SaveConfig(p)
  \/ ReadActive(p) \/ Decide(p) \/ Offer(p) \/ Target(p)
  \/ Listed(p) \/ Consent(p) \/ Later(p)
  \/ Download(p) \/ DownloadFails(p) \/ Skip(p)
  \/ Switch(p) \/ SwitchFails(p) \/ WritePin(p) \/ ClearPin(p)

Next ==
  \/ \E p \in Procs : Launch(p) \/ StartUse(p) \/ StartFollow(p) \/ StartSettings(p)
                        \/ Step(p) \/ Kill(p)
  \/ Learn \/ DelayEnds \/ SnoozeEnds \/ (\E v \in Versions : Loses(v))

Spec == Init /\ [][Next]_vars

\* Somebody keeps launching, and commands run on; a delay ends; a list or a
\* download that is asked for again and again comes in the end.
ListComes(p) == Listed(p) /\ pc'[p] # "idle"
FairSpec ==
  /\ Spec
  /\ WF_vars(DelayEnds)
  /\ WF_vars(\E p \in Procs : Launch(p) \/ Step(p))
  /\ SF_vars(\E p \in Procs : ListComes(p))
  /\ SF_vars(\E p \in Procs : Download(p))

-----------------------------------------------------------------------------
(* Properties.                                                             *)

TypeOK ==
  /\ known \in VersionOrNone
  /\ installed \subseteq Versions /\ current \in VersionOrNone /\ pin \in VersionOrNone
  /\ attempt \in Attempt \cup {None} /\ snooze \in VersionOrNone
  /\ config \in Config \cup {None}
  /\ pc \in [Procs -> PCs] /\ job \in [Procs -> Job]
  /\ ops \in 0..MaxOps /\ mishaps \in 0..MaxMishaps
  /\ chosen \in VersionOrNone /\ kept \in VersionOrNone /\ killed \in BOOLEAN

\* A launch nobody asked to update never leaves the version that is pinned, nor
\* goes back to an older one, and one that only installs its version again selects
\* no other, unless another command moved the selection while it ran
\* (maybe_auto_update, "never a silent jump").
PinRespected ==
  [][\A p \in Procs :
       LET j == job[p] IN
       pc[p] = "switch" /\ pc'[p] = "pin" /\ j.op = "launch" /\ j.active # None /\ ~ j.moved
         => /\ j.auto => pin # current /\ j.ver > current
            /\ ~ j.follow => current' = current]_vars

\* A pin was chosen with `use <version>`, or a launch wrote it that installed its
\* own version again or adopted one (use_version does, and these two do not clear
\* it): what a launch's update, `latest` or `update` records on the way is gone
\* when it ends (clear_pin), unless one of them was killed in between.
PinIsChosen ==
  pin # None /\ ~ killed /\ (\A p \in Procs : pc[p] # "unpin") => pin \in {chosen, kept}

\* A save of config.json changes the setting its command set, and no other,
\* whatever was saved since it loaded the file (OvmConfig::save).
SettingsKept ==
  [][config' # config =>
       \E p \in Procs :
         /\ pc[p] = "write" /\ pc'[p] = "idle"
         /\ Loaded(config') = [Loaded(config) EXCEPT ![job[p].set] = job[p].config[job[p].set]]]_vars

\* With checks and the policy `on` and nothing pinned, launches come to run the
\* latest release the caches settle on, also after downloads that failed, were
\* skipped, or died.
Willing == LET c == Loaded(config) IN c["check"] = "yes" /\ c["policy"] = "on" /\ pin # current
Converges ==
  \A v \in Versions :
    <>[](Willing /\ known = v) => <>[](current # None /\ current >= v)
=============================================================================

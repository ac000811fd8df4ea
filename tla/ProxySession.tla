---------------------------- MODULE ProxySession ----------------------------
(***************************************************************************)
(* The claudex proxy: one cliproxyapi daemon that all claudex sessions     *)
(* share, the versions of it that are installed and staged, and the        *)
(* commands that start, stop and replace it.  Code: crates/ovm-claudex/src *)
(* proxy.rs, install.rs, launch.rs and uninstall.rs.                       *)
(*                                                                         *)
(* One step is one change of a file, a lock or a process that another      *)
(* command can come between.  A probe of the port is one step: it decides  *)
(* on one established connection.  What is asked of the registry, GitHub   *)
(* and `ps` has any answer.                                                *)
(***************************************************************************)
EXTENDS Naturals, FiniteSets

CONSTANTS
  Procs,      \* claudex commands
  Versions,   \* managed proxy versions, in semver order
  Broken,     \* versions that never come up verified
  System,     \* the cliproxyapi on PATH, or None
  Selected,   \* what proxy/current may name at the start
  Staged,     \* what may be staged at the start
  Configs,    \* what config.json may say
  Daemons,    \* bound: the pids of proxy processes that matter at a time
  Foreign,    \* a listener that is not claudex's
  Ops,        \* [Procs -> SUBSET OpNames], the commands each process may run
  MaxOps,     \* bound: commands started in a behaviour
  MaxFaults,  \* bound: killed commands, crashes, timeouts, clock jumps, failed ps,
              \* foreign listeners and edits of config.json
  None

OpNames == {"launch", "update", "stop", "uninstall"}

ASSUME ConstantsAssumption ==
  /\ Versions \subseteq Nat
  /\ Broken \subseteq Versions
  /\ System \notin Versions
  /\ None \notin Versions /\ None \notin Procs /\ None \notin OpNames
  /\ None \notin Daemons /\ Foreign \notin Daemons /\ Foreign # None
  /\ None \notin [pid : Daemons, guarded : BOOLEAN]
  /\ None \notin [ver : Versions, auto : BOOLEAN, vouched : BOOLEAN]
  /\ Selected \subseteq Versions \cup {None}
  /\ Staged \subseteq {None} \cup [ver : Versions, auto : BOOLEAN, vouched : BOOLEAN]
  /\ Configs \subseteq [pin : Versions \cup {None}, auto : BOOLEAN]
  /\ Daemons \subseteq Nat /\ Daemons # {}
  /\ Ops \in [Procs -> SUBSET OpNames]
  /\ MaxOps \in Nat /\ MaxFaults \in Nat

VARIABLES
  installed,  \* versions with a binary below proxy/versions
  current,    \* the version proxy/current names
  pending,    \* the staged update, pending-update.json
  config,     \* what config.json says of the pin and of automatic updates
  pidfile,    \* the pid record
  daemon,     \* [Daemons -> state and binary]
  port,       \* who listens on the proxy port
  skewed,     \* daemons whose recorded start the clock no longer agrees with
  lock,       \* the holder of the update lock
  exclusive,  \* the holder of the exclusive session lock
  leases,     \* the holders of the shared session lock
  pc, job,    \* control state and locals of each process
  started, faults,  \* counted against the bounds
  torn,       \* history: a replacement of the proxy was cut short or misled
  excused     \* history: daemons that met a fault no command can see

disk     == <<installed, current, pending, config, pidfile>>
world    == <<daemon, port, skewed>>
locks    == <<lock, exclusive, leases>>
counters == <<started, faults>>
history  == <<torn, excused>>
vars     == <<disk, world, locks, pc, job, counters, history>>

VersionOrNone == Versions \cup {None}
Binaries == Versions \cup ({System} \ {None})

Pending == [ver : Versions, auto : BOOLEAN, vouched : BOOLEAN]
Config  == [pin : VersionOrNone, auto : BOOLEAN]

\* A pid record names its process and whether every client of it holds a lease.
Record == [pid : Daemons, guarded : BOOLEAN]

\* Where ensure_running_with_session_guard returns to.
Phases == {"session", "activated", "restored"}

Job == [op     : OpNames \cup {None},
        inside : BOOLEAN,                    \* run from within a claudex session
        ver    : VersionOrNone,              \* the version to stage or activate
        config : Config,                     \* as loaded
        base   : VersionOrNone,              \* the selected version, read unlocked
        prev   : VersionOrNone,              \* the link an activation may restore
        phase  : Phases,
        child  : Daemons \cup {None},        \* the daemon it has spawned
        bin    : Binaries \cup {None},       \* the binary it is about to spawn
        seen   : Daemons \cup {None}]        \* the daemon it stops, or was served by

NoConfig == [pin |-> None, auto |-> FALSE]
NoJob == [op |-> None, inside |-> FALSE, ver |-> None, config |-> NoConfig,
          base |-> None, prev |-> None, phase |-> "session", child |-> None,
          bin |-> None, seen |-> None]

Preparing == {"prepare", "tryLock", "decide"}
Staging   == {"stage", "mark"}
Replacing == {"check", "identify", "stop", "dying", "unlink", "switch", "clear", "back"}
Ensuring  == {"probe", "spawn", "record", "await", "reap"}
PCs == {"idle", "lock", "join", "downgrade", "unlock", "session"}
         \cup Preparing \cup Staging \cup Replacing \cup Ensuring

-----------------------------------------------------------------------------
(* Helpers.                                                                *)

Go(p, l) == pc' = [pc EXCEPT ![p] = l]
SetJob(p, j) == job' = [job EXCEPT ![p] = j]

Alive(d) == daemon[d].state \in {"alive", "stopping"}

\* A pid nobody remembers may stand for a new process.
Fresh(d) == /\ ~ Alive(d)
            /\ pidfile # None => pidfile.pid # d
            /\ \A p \in Procs : d \notin {job[p].child, job[p].seen}

\* Any of them would do; the next one is the first.
NextPid == {d \in Daemons : Fresh(d) /\ \A e \in Daemons : e < d => ~ Fresh(e)}

\* pid_matches_record: the process is there, has our binary's name, and started
\* when the record says.
Matches(r) == Alive(r.pid) /\ r.pid \notin skewed

\* probe: the listener rejects a wrong key, the pid record matches, that process
\* owns the connection, and it accepts our key.
Verified ==
  /\ port \in Daemons
  /\ pidfile # None
  /\ pidfile.pid = port
  /\ Matches(pidfile)
  /\ daemon[port].bin \notin Broken

Down == port = None

\* resolve_binary: the pinned version or nothing, else proxy/current, else PATH.
Resolve(pin) ==
  CASE pin # None                          -> IF pin \in installed THEN pin ELSE None
    [] pin = None /\ current \in installed -> current
    [] OTHER                               -> System

\* The daemon is gone, and the port with it.
Gone(d) ==
  /\ daemon' = [daemon EXCEPT ![d].state = "gone"]
  /\ port' = IF port = d THEN None ELSE port

\* The command returns: its locks are released, its locals gone.
Release(p) ==
  /\ lock' = IF lock = p THEN None ELSE lock
  /\ exclusive' = IF exclusive = p THEN None ELSE exclusive
  /\ leases' = leases \ {p}

Finish(p) == Go(p, "idle") /\ SetJob(p, NoJob) /\ Release(p)

\* The command goes on and keeps its locks.
Continue(p, l, j) == Go(p, l) /\ SetJob(p, j) /\ UNCHANGED locks

\* activate_pending_update has returned.  A launch goes on whatever came of it,
\* `update` ends.
Activated(p) ==
  IF job[p].op = "launch"
  THEN Continue(p, "probe", [job[p] EXCEPT !.phase = "session", !.ver = None,
                               !.prev = None, !.child = None, !.seen = None])
  ELSE Finish(p)

\* ensure_running_with_session_guard has returned, served by daemon d.
Running(p, d) ==
  CASE job[p].phase = "session"   -> Continue(p, "downgrade", [job[p] EXCEPT !.seen = d, !.child = None])
    [] job[p].phase = "activated" -> Continue(p, "clear", [job[p] EXCEPT !.child = None])
    [] OTHER                      -> Activated(p)

\* (NotRolledBack: a mutant, a failed activation leaves its version selected.)
NotRolledBack(p) == IF job[p].phase = "session" THEN Finish(p) ELSE Activated(p)

\* ... or has failed.  A failed activation selects what was selected before, if
\* anything was, and starts that.
NotRunning(p) ==
  CASE job[p].phase = "session" -> Finish(p)
    [] job[p].phase = "activated" /\ job[p].prev # None ->
           Continue(p, "back", [job[p] EXCEPT !.child = None])
    [] OTHER -> Activated(p)

\* stop has returned, or has failed.
Stopped(p) ==
  IF job[p].op \in {"stop", "uninstall"} THEN Finish(p) ELSE Continue(p, "switch", [job[p] EXCEPT !.seen = None])
NotStopped(p) ==
  IF job[p].op \in {"stop", "uninstall"} THEN Finish(p) ELSE Activated(p)

\* Something the command cannot prevent goes wrong.
Fault == faults < MaxFaults /\ faults' = faults + 1 /\ UNCHANGED started

-----------------------------------------------------------------------------
(* A command starts.                                                       *)

Entry == [launch |-> "prepare", update |-> "lock", stop |-> "lock", uninstall |-> "stop"]

\* A launch reads config.json at once; `update` has resolved the version it will
\* install, which any of them may be; uninstall takes no lock.
Start(p) ==
  /\ pc[p] = "idle"
  /\ started < MaxOps
  /\ started' = started + 1
  /\ \E o \in Ops[p] :
     \E v \in IF o = "update" THEN Versions ELSE {None} :
     \E i \in IF o = "update" THEN BOOLEAN ELSE {FALSE} :
       /\ SetJob(p, [NoJob EXCEPT !.op = o, !.ver = v, !.inside = i, !.config = config])
       /\ Go(p, Entry[o])
  /\ UNCHANGED <<disk, world, locks, faults, history>>

\* The user edits config.json.
EditConfig ==
  /\ Fault
  /\ config' \in Configs \ {config}
  /\ UNCHANGED <<installed, current, pending, pidfile, world, locks, pc, job, history>>

-----------------------------------------------------------------------------
(* A launch prepares an automatic update: maybe_prepare_auto_update.       *)

\* The selected version is read before the lock.
ReadBase(p) ==
  /\ pc[p] = "prepare"
  /\ LET updates == job[p].config.auto /\ job[p].config.pin = None /\ current \in installed
     IN  /\ SetJob(p, [job[p] EXCEPT !.base = IF updates THEN current ELSE None])
         /\ Go(p, IF updates THEN "tryLock" ELSE "lock")
  /\ UNCHANGED <<disk, world, locks, counters, history>>

TryLock(p) ==
  /\ pc[p] = "tryLock"
  /\ lock' = IF lock = None THEN p ELSE lock
  /\ Go(p, IF lock = None THEN "decide" ELSE "lock")
  /\ UNCHANGED <<disk, world, exclusive, leases, job, counters, history>>

\* (DecideAnyway: a mutant, an update the user has staged is replaced.)
DecideAnyway(p) ==
  /\ pc[p] = "decide"
  /\ \E latest \in Versions :
       /\ latest > job[p].base
       /\ Continue(p, "stage", [job[p] EXCEPT !.ver = latest])
  /\ UNCHANGED <<disk, world, counters, history>>

\* A version the registry (or the cache of its answer) names, newer than the
\* base; an update the user has staged has precedence.
Decide(p) ==
  /\ pc[p] = "decide"
  /\ \/ \E latest \in Versions :
          /\ pending # None => pending.auto
          /\ latest > job[p].base
          /\ Continue(p, "stage", [job[p] EXCEPT !.ver = latest])
     \/ /\ Go(p, "lock") /\ UNCHANGED job
        /\ Release(p)
  /\ UNCHANGED <<disk, world, counters, history>>

-----------------------------------------------------------------------------
(* An update is staged: prepare_update_locked.                             *)

\* The download replaces nothing; its last step renames the binary into place.
Install(p) ==
  /\ pc[p] = "stage"
  /\ \/ /\ installed' = installed \cup {job[p].ver}
        /\ Continue(p, "mark", job[p])
     \/ /\ job[p].ver \notin installed          \* no network, wrong checksum
        /\ IF job[p].op = "launch"
           THEN Go(p, "lock") /\ UNCHANGED job /\ Release(p)
           ELSE Finish(p)
        /\ UNCHANGED installed
  /\ UNCHANGED <<current, pending, config, pidfile, world, counters, history>>

\* What a launch stages the registry vouches for; `update` asks, and gets any answer.
Mark(p) ==
  /\ pc[p] = "mark"
  /\ \E v \in IF job[p].op = "launch" THEN {TRUE} ELSE BOOLEAN :
       pending' = [ver |-> job[p].ver, auto |-> job[p].op = "launch", vouched |-> v]
  /\ IF job[p].op = "launch"
     THEN Go(p, "lock") /\ UNCHANGED job /\ Release(p)
     ELSE Continue(p, "join", [job[p] EXCEPT !.config = config])
  /\ UNCHANGED <<installed, current, config, pidfile, world, counters, history>>

-----------------------------------------------------------------------------
(* The update lock, then the session lock.                                 *)

FirstLocked == [launch |-> "join", update |-> "stage", stop |-> "stop"]

\* (AcquireAnyway: a mutant, a held lock is taken over.)
AcquireAnyway(p) ==
  /\ pc[p] = "lock"
  /\ lock' = p
  /\ Go(p, FirstLocked[job[p].op])
  /\ UNCHANGED <<disk, world, exclusive, leases, job, counters, history>>

\* acquire_update_lock waits.
Acquire(p) ==
  /\ pc[p] = "lock"
  /\ lock = None
  /\ lock' = p
  /\ Go(p, FirstLocked[job[p].op])
  /\ UNCHANGED <<disk, world, exclusive, leases, job, counters, history>>

\* (JoinAlone: a mutant, the exclusive lock does not exclude leases.)
JoinAlone(p) ==
  /\ pc[p] = "join"
  /\ exclusive = None
  /\ exclusive' = p
  /\ Go(p, "check")
  /\ UNCHANGED <<lock, leases, job, disk, world, counters, history>>

\* SessionGuard::acquire: exclusive if nobody else has a session, else shared.
\* An update that joins leaves what it has staged for later.
Join(p) ==
  /\ pc[p] = "join"
  /\ \/ /\ exclusive = None /\ leases = {}
        /\ exclusive' = p
        /\ Go(p, "check") /\ UNCHANGED <<lock, leases, job>>
     \/ /\ exclusive = None /\ leases # {}
        /\ job[p].op = "launch"
        /\ leases' = leases \cup {p}
        /\ Go(p, "probe")
        /\ SetJob(p, [job[p] EXCEPT !.phase = "session"])
        /\ UNCHANGED <<lock, exclusive>>
     \/ /\ exclusive = None /\ leases # {}
        /\ job[p].op = "update"
        /\ Finish(p)
  /\ UNCHANGED <<disk, world, counters, history>>

\* SessionGuard::downgrade; then the launcher drops the update lock.
Downgrade(p) ==
  /\ pc[p] = "downgrade"
  /\ exclusive' = IF exclusive = p THEN None ELSE exclusive
  /\ leases' = leases \cup {p}
  /\ Go(p, "unlock")
  /\ UNCHANGED <<disk, world, lock, job, counters, history>>

Unlock(p) ==
  /\ pc[p] = "unlock"
  /\ lock' = None
  /\ Go(p, "session")
  /\ SetJob(p, [NoJob EXCEPT !.op = "launch"])
  /\ UNCHANGED <<disk, world, exclusive, leases, counters, history>>

\* The lease lasts as long as the ovm process the launcher started, with the
\* launcher or without it.
SessionEnds(p) ==
  /\ pc[p] = "session"
  /\ Finish(p)
  /\ UNCHANGED <<disk, world, counters, history>>

-----------------------------------------------------------------------------
(* The staged update is activated: activate_pending_update.                *)

Explicit(p) == job[p].op = "update" /\ ~ job[p].inside

MayActivate(p) ==
  /\ pending.vouched \/ ~ pending.auto
  /\ job[p].config.pin = None
  /\ Explicit(p) \/ ~ pending.auto \/ job[p].config.auto

\* An automatic update nobody vouched for is discarded.
Check(p) ==
  /\ pc[p] = "check"
  /\ pending' = IF pending # None /\ pending.auto /\ ~ pending.vouched
                THEN None ELSE pending
  /\ IF pending # None /\ MayActivate(p) /\ pending.ver \in installed
     THEN Continue(p, "identify", [job[p] EXCEPT !.ver = pending.ver, !.prev = current])
     ELSE Activated(p)
  /\ UNCHANGED <<installed, current, config, pidfile, world, counters, history>>

\* A proxy that runs is stopped first, unless it has clients that hold no lease,
\* or is the new version already.
Identify(p) ==
  /\ pc[p] = "identify"
  /\ LET old  == ~ pidfile.guarded /\ ~ Explicit(p)
         same == daemon[port].bin = job[p].ver
     IN  \/ ~ Verified /\ Continue(p, "switch", job[p]) /\ UNCHANGED pending
         \/ Verified /\ old /\ Activated(p) /\ UNCHANGED pending
         \/ Verified /\ ~ old /\ same /\ Activated(p) /\ pending' = None
         \/ Verified /\ ~ old /\ ~ same /\ Continue(p, "stop", job[p]) /\ UNCHANGED pending
  /\ UNCHANGED <<installed, current, config, pidfile, world, counters, history>>

\* `ps` or `lsof` fails: the proxy that runs is taken for none.
CannotVerify(p) ==
  /\ pc[p] = "identify"
  /\ port \in Daemons
  /\ Fault
  /\ torn' = TRUE
  /\ Continue(p, "switch", job[p])
  /\ UNCHANGED <<disk, world, excused>>

Switch(p) ==
  /\ pc[p] = "switch"
  /\ current' = job[p].ver
  /\ Continue(p, "probe", [job[p] EXCEPT !.phase = "activated"])
  /\ UNCHANGED <<installed, pending, config, pidfile, world, counters, history>>

ClearPending(p) ==
  /\ pc[p] = "clear"
  /\ pending' = None
  /\ Activated(p)
  /\ UNCHANGED <<installed, current, config, pidfile, world, counters, history>>

SwitchBack(p) ==
  /\ pc[p] = "back"
  /\ current' = job[p].prev
  /\ Continue(p, "probe", [job[p] EXCEPT !.phase = "restored"])
  /\ UNCHANGED <<installed, pending, config, pidfile, world, counters, history>>

-----------------------------------------------------------------------------
(* The proxy is stopped: stop_with_attempts.                               *)

\* A process that is not the recorded one is not signalled.
Signal(p) ==
  /\ pc[p] = "stop"
  /\ \/ /\ pidfile = None
        /\ Stopped(p) /\ UNCHANGED <<daemon, excused>>
     \/ /\ pidfile # None /\ ~ Matches(pidfile)
        /\ Continue(p, "unlink", [job[p] EXCEPT !.seen = pidfile.pid])
        /\ UNCHANGED <<daemon, excused>>
     \/ /\ pidfile # None /\ Matches(pidfile)
        /\ daemon' = [daemon EXCEPT ![pidfile.pid].state = "stopping"]
        /\ excused' = IF job[p].op = "uninstall" THEN excused \cup {pidfile.pid} ELSE excused
        /\ Continue(p, "dying", [job[p] EXCEPT !.seen = pidfile.pid])
  /\ UNCHANGED <<disk, port, skewed, counters, torn>>

\* `ps` fails: nothing is signalled and nothing removed.
CannotIdentify(p) ==
  /\ pc[p] = "stop"
  /\ pidfile # None
  /\ Fault
  /\ NotStopped(p)
  /\ UNCHANGED <<disk, world, history>>

AwaitExit(p) ==
  /\ pc[p] = "dying"
  /\ ~ (Alive(job[p].seen) /\ job[p].seen \notin skewed)
  /\ Continue(p, "unlink", job[p])
  /\ UNCHANGED <<disk, world, counters, history>>

\* Five seconds are over; the daemon may still exit later.
ExitTimesOut(p) ==
  /\ pc[p] = "dying"
  /\ Alive(job[p].seen)
  /\ Fault
  /\ excused' = excused \cup {job[p].seen}
  /\ NotStopped(p)
  /\ UNCHANGED <<disk, world, torn>>

\* The pid file is removed by name, whatever record it holds by now.
Unlink(p) ==
  /\ pc[p] = "unlink"
  /\ pidfile' = None
  /\ excused' = IF job[p].op = "uninstall" /\ pidfile # None
                THEN excused \cup {pidfile.pid} ELSE excused
  /\ IF pidfile # None THEN Stopped(p) ELSE NotStopped(p)
  /\ UNCHANGED <<installed, current, pending, config, world, counters, torn>>

-----------------------------------------------------------------------------
(* The proxy is started: ensure_running_with_session_guard.                *)

\* (ProbeUnpinned: a mutant, whatever proxy runs is used.)
ProbeUnpinned(p) ==
  /\ pc[p] = "probe"
  /\ LET bin == Resolve(job[p].config.pin)
     IN  \/ Verified /\ Running(p, port)
         \/ Down /\ bin # None /\ Continue(p, "spawn", [job[p] EXCEPT !.bin = bin])
         \/ ~ Verified /\ (Down => bin = None) /\ NotRunning(p)
  /\ UNCHANGED <<disk, world, counters, history>>

Probe(p) ==
  /\ pc[p] = "probe"
  /\ LET pin == job[p].config.pin
         bin == Resolve(pin)
     IN  \/ /\ Verified
            /\ pin = None \/ daemon[pidfile.pid].bin = pin   \* verify_running_matches_pin
            /\ Running(p, port)
         \/ /\ Verified /\ pin # None /\ daemon[pidfile.pid].bin # pin
            /\ NotRunning(p)
         \/ Down /\ bin # None /\ Continue(p, "spawn", [job[p] EXCEPT !.bin = bin])
         \/ Down /\ bin = None /\ NotRunning(p)
         \/ ~ Verified /\ ~ Down /\ NotRunning(p)           \* not ours, or not known
  /\ UNCHANGED <<disk, world, counters, history>>

\* `ps` or `lsof` fails: nothing is sent to a listener that is not known.
CannotConfirm(p) ==
  /\ pc[p] = "probe"
  /\ port \in Daemons
  /\ Fault
  /\ NotRunning(p)
  /\ UNCHANGED <<disk, world, history>>

Spawn(p) ==
  /\ pc[p] = "spawn"
  /\ \E d \in NextPid :
       /\ daemon' = [daemon EXCEPT ![d] = [state |-> "alive", bin |-> job[p].bin]]
       /\ skewed' = skewed \ {d} /\ excused' = excused \ {d}
       /\ Continue(p, "record", [job[p] EXCEPT !.child = d, !.bin = None])
  /\ UNCHANGED <<disk, port, counters, torn>>

\* write_pid_record
RecordPid(p) ==
  /\ pc[p] = "record"
  /\ pidfile' = [pid |-> job[p].child, guarded |-> TRUE]
  /\ Continue(p, "await", job[p])
  /\ UNCHANGED <<installed, current, pending, config, world, counters, history>>

\* A probe of the start-up loop succeeds, whoever the record names.
ComesUp(p) ==
  /\ pc[p] = "await"
  /\ Verified
  /\ Running(p, port)
  /\ UNCHANGED <<disk, world, counters, history>>

\* It has exited, rejects our key, or does not come up in time.
StartFails(p) ==
  /\ pc[p] = "await"
  /\ ~ Verified
  /\ LET d == job[p].child
         hopeless == \/ ~ Alive(d) \/ daemon[d].bin \in Broken \/ d \in skewed
                     \/ port \notin {None, d} \/ pidfile = None
                     \/ (pidfile # None /\ pidfile.pid # d)
     IN  (hopeless /\ UNCHANGED counters) \/ Fault
  /\ Continue(p, "reap", job[p])
  /\ UNCHANGED <<disk, world, history>>

\* (ReapForgets: a mutant, the pid file is removed and the daemon left alone.)
ReapForgets(p) ==
  /\ pc[p] = "reap"
  /\ pidfile' = None
  /\ NotRunning(p)
  /\ UNCHANGED <<installed, current, pending, config, world, counters, history>>

\* reap_failed_spawn: killed, waited for, and the pid file removed by name.
Reap(p) ==
  /\ pc[p] = "reap"
  /\ Gone(job[p].child)
  /\ pidfile' = None
  /\ NotRunning(p)
  /\ UNCHANGED <<installed, current, pending, config, skewed, counters, history>>

-----------------------------------------------------------------------------
(* The daemons.                                                            *)

\* It listens, or finds the port taken and exits.
Bind(d) ==
  /\ daemon[d].state = "alive"
  /\ port # d
  /\ IF Down THEN port' = d /\ UNCHANGED daemon ELSE Gone(d)
  /\ UNCHANGED <<disk, skewed, locks, pc, job, counters, history>>

\* SIGTERM takes effect.
Exit(d) ==
  /\ daemon[d].state = "stopping"
  /\ Gone(d)
  /\ UNCHANGED <<disk, skewed, locks, pc, job, counters, history>>

\* A broken version may also exit at once.
BrokenExits(d) ==
  /\ daemon[d].state = "alive" /\ daemon[d].bin \in Broken
  /\ Gone(d)
  /\ UNCHANGED <<disk, skewed, locks, pc, job, counters, history>>

\* It crashes by itself.
Crash(d) ==
  /\ daemon[d].state = "alive"
  /\ Fault
  /\ Gone(d)
  /\ excused' = excused \cup {d}
  /\ UNCHANGED <<disk, skewed, locks, pc, job, torn>>

\* The clock is set by more than 90 s: what runs started at another time than
\* its record says.
ClockJumps ==
  /\ Fault
  /\ skewed' = skewed \cup {d \in Daemons : Alive(d)}
  /\ excused' = excused \cup {d \in Daemons : Alive(d)}
  /\ UNCHANGED <<disk, daemon, port, locks, pc, job, torn>>

\* Somebody else's process takes the port, or gives it back.
ForeignListens ==
  /\ \/ Down /\ Fault /\ port' = Foreign
     \/ port = Foreign /\ port' = None /\ UNCHANGED counters
  /\ UNCHANGED <<disk, daemon, skewed, locks, pc, job, history>>

\* A command is killed.  A daemon it has spawned lives on.
Kill(p) ==
  /\ pc[p] \notin {"idle", "session"}
  /\ Fault
  /\ Finish(p)
  /\ torn' = (torn \/ job[p].phase # "session" \/ pc[p] \in {"record", "await", "reap"})
  /\ excused' = CASE pc[p] \in {"record", "await", "reap"} -> excused \cup {job[p].child}
                  [] pc[p] = "dying"  -> excused \cup {job[p].seen}
                  [] OTHER            -> excused
  /\ UNCHANGED <<disk, world>>

-----------------------------------------------------------------------------
(* The specification.                                                      *)

Init ==
  /\ current \in Selected
  /\ pending \in Staged
  /\ installed = ({current} \cup IF pending = None THEN {} ELSE {pending.ver}) \ {None}
  /\ config \in Configs
  /\ skewed = {} /\ excused = {} /\ torn = FALSE
  /\ LET gone == [d \in Daemons |-> [state |-> "gone", bin |-> None]]
     IN  \/ daemon = gone /\ port = None /\ pidfile = None
         \/ \E d \in {e \in Daemons : \A f \in Daemons : e <= f}, guarded \in BOOLEAN, listens \in BOOLEAN :
              /\ pidfile = [pid |-> d, guarded |-> guarded]
              /\ IF listens /\ Resolve(None) # None
                 THEN /\ port = d
                      /\ daemon = [gone EXCEPT ![d] = [state |-> "alive", bin |-> Resolve(None)]]
                 ELSE port = None /\ daemon = gone
  /\ lock = None /\ exclusive = None /\ leases = {}
  /\ pc = [p \in Procs |-> "idle"] /\ job = [p \in Procs |-> NoJob]
  /\ started = 0 /\ faults = 0

\* What a command does once it has been started.
Step(p) ==
  \/ ReadBase(p) \/ TryLock(p) \/ Decide(p) \/ Install(p) \/ Mark(p)
  \/ Acquire(p) \/ Join(p) \/ Downgrade(p) \/ Unlock(p)
  \/ Check(p) \/ Identify(p) \/ Switch(p) \/ ClearPending(p) \/ SwitchBack(p)
  \/ Signal(p) \/ AwaitExit(p) \/ Unlink(p)
  \/ Probe(p) \/ Spawn(p) \/ RecordPid(p) \/ ComesUp(p) \/ StartFails(p) \/ Reap(p)

Fails(p) == CannotIdentify(p) \/ CannotVerify(p) \/ CannotConfirm(p) \/ ExitTimesOut(p) \/ Kill(p)

Serve(d) == Bind(d) \/ Exit(d)

Next ==
  \/ \E p \in Procs : Start(p) \/ Step(p) \/ SessionEnds(p) \/ Fails(p)
  \/ \E d \in Daemons : Serve(d) \/ BrokenExits(d) \/ Crash(d)
  \/ EditConfig \/ ClockJumps \/ ForeignListens

Spec == Init /\ [][Next]_vars

-----------------------------------------------------------------------------
(* Properties.                                                             *)

TypeOK ==
  /\ installed \subseteq Versions
  /\ current \in VersionOrNone
  /\ pending \in Pending \cup {None}
  /\ config \in Config
  /\ pidfile \in Record \cup {None}
  /\ daemon \in [Daemons -> [state : {"gone", "alive", "stopping"},
                             bin : Binaries \cup {None}]]
  /\ port \in Daemons \cup {Foreign, None}
  /\ skewed \subseteq Daemons /\ excused \subseteq Daemons
  /\ lock \in Procs \cup {None} /\ exclusive \in Procs \cup {None}
  /\ leases \subseteq Procs
  /\ pc \in [Procs -> PCs] /\ job \in [Procs -> Job]
  /\ started \in 0..MaxOps /\ faults \in 0..MaxFaults
  /\ torn \in BOOLEAN

\* The daemons some command has just spawned, or is about to see dead.
AtWork == {job[p].child : p \in Procs} \cup {job[p].seen : p \in Procs}

\* Every proxy that runs can be found: unless a fault or a kill came between its
\* start and its record, or uninstall removed the record without the lock, the
\* pid file names it or a command is starting or stopping it.  A proxy nobody
\* can name makes every later launch fail (unverified_identity_error).
NoStrayProxy ==
  \A d \in Daemons \ excused :
    Alive(d) => d \in AtWork \/ (pidfile # None /\ pidfile.pid = d)

\* An activation that does not end in a verified proxy leaves selected what was
\* selected before: once the lock is free, proxy/current never names a version
\* that does not come up (activate_pending_update, "rolled `current` back").
SelectedWorks == lock = None /\ ~ torn => current \notin Broken

\* A session that starts under a pinned pair talks to the pinned proxy
\* (resolve_binary and verify_running_matches_pin), also when an update was
\* activated, or another version started, just before.
PinnedPair ==
  \A p \in Procs :
    pc[p] \in {"downgrade", "unlock"} /\ job[p].config.pin # None
      => daemon[job[p].seen].bin = job[p].config.pin

\* While a session holds a lease no launch and no update stops the proxy under
\* it (SessionGuard); one that an older ovm started, whose clients hold no
\* lease, is only stopped when the user asks for it.
SessionsKeepProxy ==
  [][\A p \in Procs :
       pc[p] = "stop" /\ pc'[p] = "dying" /\ job[p].op \in {"launch", "update"}
         => leases = {} /\ (pidfile.guarded \/ Explicit(p))]_vars

\* When a launcher lets go of the update lock, the proxy it verified still serves
\* and it holds its lease: nobody stopped or replaced the one, or took the other
\* lock, in between.
SessionStartsServed ==
  [][\A p \in Procs :
       pc[p] = "unlock" /\ pc'[p] = "session"
         => /\ p \in leases /\ exclusive = None
            /\ \/ job[p].seen \in excused
               \/ port = job[p].seen /\ daemon[port].state = "alive"]_vars

\* An update the user asked for stays staged until it is selected, runs already,
\* or the user asks for another: no automatic one replaces it, and no failed
\* activation drops it.
UserUpdateKept ==
  [][pending # None /\ ~ pending.auto /\ pending' # pending
       => \/ pending' # None /\ ~ pending'.auto
          \/ /\ pending' = None
             /\ \/ current = pending.ver
                \/ Verified /\ daemon[port].bin = pending.ver]_vars
=============================================================================

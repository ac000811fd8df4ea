---------------------------- MODULE RefreshCache ----------------------------
(***************************************************************************)
(* What ovm knows of the latest release of a product without asking: the   *)
(* state of the probe of the aggregate registry, the cached listing of the *)
(* product, the detached process that refreshes both, and the commands     *)
(* that list versions and save what they were told.  Code: crates/ovm/src  *)
(* update_cache.rs, commands/refresh_cache.rs, sources/registry.rs and     *)
(* version_manager.rs.                                                     *)
(*                                                                         *)
(* Time is what the code compares: of an attempt or a lock, whether its    *)
(* delay is over; of an answer, whether it is from within a day.  One step *)
(* is one file read or written, or one request answered.  Everything here  *)
(* happens while checkForUpdates is on.                                    *)
(***************************************************************************)
EXTENDS Naturals, FiniteSets

CONSTANTS
  Listers,     \* terminals that list versions
  Refreshers,  \* bound: background refreshes at a time
  Versions,    \* releases, in version order
  Listings,    \* what the registry may list at the start
  MaxFeed,     \* bound: changes of the registry's listing
  MaxLists,    \* bound: commands that list versions
  MaxFaults,   \* bound: refreshes that die
  None

ASSUME ConstantsAssumption ==
  /\ Versions \subseteq Nat
  /\ Listings \subseteq (SUBSET Versions) \ {{}}
  /\ MaxFeed \in Nat /\ MaxLists \in Nat /\ MaxFaults \in Nat
  /\ None \notin Versions /\ None \notin Nat
  /\ None \notin {"running", "over", "new", "old"}

\* A listing has a newest version.
ASSUME NewestAssumption ==
  \A S \in (SUBSET Versions) \ {{}} : \E v \in S : \A w \in S : w <= v

VARIABLES
  feed,       \* the registry: its versions, and how often they have changed
  probe,      \* what latest-probe.json says of the product
  index,      \* the cached listing, <product>.json
  rlock,      \* refresh.lock, and whether it is stale
  rpc, rjob,  \* control state and locals of each background refresh
  lpc, ljob,  \* ... and of each command that lists versions
  changes, lists, faults,  \* counted against the bounds
  withdrawn,  \* history: whether a version was taken off the listing, a day ago
  overtaken   \* history: a refresh lost its lock, or an old list was saved after a newer one was seen

cache    == <<probe, index, rlock>>
refresh  == <<rpc, rjob>>
commands == <<lpc, ljob>>
counters == <<changes, lists, faults>>
history  == <<withdrawn, overtaken>>
vars     == <<feed, cache, refresh, commands, counters, history>>

\* Of an attempt and of a lock.
Delays == {"running", "over"}

\* Of an answer.
Ages == {"new", "old"}
WithinDay(age) == age # "old"

Newest(S) == CHOOSE v \in S : \A w \in S : w <= v

VersionOrNone == Versions \cup {None}
Revision      == 0..MaxFeed
Feed          == [rev : Revision, versions : SUBSET Versions]

\* The revision stands for the entity tag of the answer, too.
Probe   == [rev : Revision \cup {None}, latest : VersionOrNone, pending : BOOLEAN,
            validated : Ages, attempted : Delays]
Index   == [listing : Feed, fetched : Ages]

\* A file that was never there validates nothing, however recent the attempt.
NoProbe == [rev |-> None, latest |-> None, pending |-> FALSE,
            validated |-> "old", attempted |-> "over"]

\* The answer of a conditional request.
NoAnswer  == [kind |-> "none", is |-> None]
Unchanged == [kind |-> "unchanged", is |-> None]
Answer    == {NoAnswer, Unchanged} \cup [kind : {"changed"}, is : Feed]

ASSUME NoneAssumption ==
  None \notin Feed /\ None \notin Answer /\ None \notin Probe /\ None \notin Index

\* `at` is the age of what the process holds: the clock is read when it asks.
RJob == [answer : Answer \cup {None}, got : Feed \cup {None}, at : Ages]
NoRJob == [answer |-> None, got |-> None, at |-> "new"]

LJob   == [got : Feed \cup {None}, at : Ages]
NoLJob == [got |-> None, at |-> "new"]

RPCs == {"idle", "steal", "relock", "ask", "record", "fetch", "save", "clean", "leave"}
LPCs == {"idle", "list", "fetch", "save"}

-----------------------------------------------------------------------------
(* Helpers.                                                                *)

RGo(r, l) == rpc' = [rpc EXCEPT ![r] = l]
RSetJob(r, j) == rjob' = [rjob EXCEPT ![r] = j]
RContinue(r, l, j) == RGo(r, l) /\ RSetJob(r, j)

LContinue(p, l, j) == lpc' = [lpc EXCEPT ![p] = l] /\ ljob' = [ljob EXCEPT ![p] = j]

\* (FreshIndexUnmarked: a mutant, the mark of the probe is not looked at.)
FreshIndexUnmarked ==
  /\ index # None
  /\ \/ WithinDay(index.fetched)
     \/ probe # None /\ WithinDay(probe.validated) /\ probe.latest # None

\* is_fresh and probe_confirms_index: a listing the probe found changed is not
\* used; an old one is, when the probe has validated it within a day.
FreshIndex ==
  /\ index # None
  /\ probe # None => ~ probe.pending
  /\ \/ WithinDay(index.fetched)
     \/ probe # None /\ WithinDay(probe.validated) /\ probe.latest # None

\* checked_latest: what the caches know of the latest version.
CachedLatest ==
  (IF probe # None /\ WithinDay(probe.validated) /\ probe.latest # None
   THEN {probe.latest} ELSE {})
  \cup (IF FreshIndex /\ index.listing.versions # {}
        THEN {Newest(index.listing.versions)} ELSE {})

-----------------------------------------------------------------------------
(* The commands.                                                           *)

\* `ls --remote`, `update`, `<product> latest`: list_remote_versions_with_dates.
StartListing(p) ==
  /\ lpc[p] = "idle"
  /\ lists < MaxLists
  /\ lists' = lists + 1
  /\ LContinue(p, "list", NoLJob)
  /\ UNCHANGED <<feed, cache, refresh, changes, faults, history>>

List(p) ==
  /\ lpc[p] = "list"
  /\ LContinue(p, IF FreshIndex THEN "idle" ELSE "fetch", NoLJob)
  /\ UNCHANGED <<feed, cache, refresh, counters, history>>

\* The registry, or the product's own source, which lists the same; without an
\* answer nothing is saved.
FetchList(p) ==
  /\ lpc[p] = "fetch"
  /\ \/ LContinue(p, "save", [NoLJob EXCEPT !.got = feed])
     \/ LContinue(p, "idle", NoLJob)
  /\ UNCHANGED <<feed, cache, refresh, counters, history>>

\* An older list than the probe has seen: the list was asked for earlier.
Overtakes(answer) == probe # None /\ probe.rev # None /\ answer.rev < probe.rev

SaveList(p) ==
  /\ lpc[p] = "save"
  /\ index' = [listing |-> ljob[p].got, fetched |-> ljob[p].at]
  /\ overtaken' = (overtaken \/ Overtakes(ljob[p].got))
  /\ LContinue(p, "idle", NoLJob)
  /\ UNCHANGED <<feed, probe, rlock, refresh, counters, withdrawn>>

-----------------------------------------------------------------------------
(* A background refresh: run_hidden and refresh_latest_probe.              *)

\* spawn_if_due: every command starts a detached refresh first, when one is due.
RefreshDue == probe # None => probe.attempted = "over"

\* (SpawnUnlocked: a mutant, a lock file is never stale.)
SpawnUnlocked(r) ==
  /\ RefreshDue
  /\ rpc[r] = "idle"
  /\ rlock = None
  /\ rlock' = "running"
  /\ RContinue(r, "ask", NoRJob)
  /\ UNCHANGED <<feed, probe, index, commands, counters, history>>

\* RefreshLock::acquire creates the file, or removes one that is stale and tries
\* once more.
Spawn(r) ==
  /\ RefreshDue
  /\ rpc[r] = "idle"
  /\ rlock # "running"
  /\ rlock' = IF rlock = None THEN "running" ELSE rlock
  /\ RContinue(r, IF rlock = None THEN "ask" ELSE "steal", NoRJob)
  /\ UNCHANGED <<feed, probe, index, commands, counters, history>>

\* Nothing tells whether the process that created it is dead.
Working == {"ask", "record", "fetch", "save", "clean", "leave"}

RemoveStale(r) ==
  /\ rpc[r] = "steal"
  /\ rlock' = None
  /\ overtaken' = (overtaken \/ \E q \in Refreshers : rpc[q] \in Working)
  /\ RGo(r, "relock") /\ UNCHANGED rjob
  /\ UNCHANGED <<feed, probe, index, commands, counters, withdrawn>>

Relock(r) ==
  /\ rpc[r] = "relock"
  /\ IF rlock = None
     THEN rlock' = "running" /\ RGo(r, "ask") /\ UNCHANGED rjob
     ELSE UNCHANGED rlock /\ RContinue(r, "idle", NoRJob)
  /\ UNCHANGED <<feed, probe, index, commands, counters, history>>

\* The time is read before the request is made.
Ask(r) ==
  /\ rpc[r] = "ask"
  /\ IF probe # None /\ probe.attempted = "running"
     THEN RGo(r, "leave") /\ UNCHANGED rjob
     ELSE \E a \in { NoAnswer,
                     IF probe # None /\ probe.rev = feed.rev
                     THEN Unchanged
                     ELSE [kind |-> "changed", is |-> feed] } :
            RContinue(r, "record", [rjob[r] EXCEPT !.answer = a, !.at = "new"])
  /\ UNCHANGED <<feed, cache, commands, counters, history>>

\* record_latest_probe_failure, _not_modified and _modified.
Previous == IF probe = None THEN NoProbe ELSE probe
RecordFailure       == [Previous EXCEPT !.attempted = "running"]
\* (RecordUnchangedClean: a mutant, an answer that nothing has changed clears the mark.)
RecordUnchangedClean(at) ==
  [Previous EXCEPT !.attempted = "running", !.validated = at, !.pending = FALSE]
RecordUnchanged(at) == [Previous EXCEPT !.attempted = "running", !.validated = at]
RecordChanged(at, seen) ==
  [rev |-> seen.rev, latest |-> Newest(seen.versions),
   pending |-> Previous.pending \/ Previous.rev # seen.rev,
   validated |-> at, attempted |-> "running"]

Record(r) ==
  /\ rpc[r] = "record"
  /\ LET a == rjob[r].answer
         at == rjob[r].at
     IN  /\ probe' = CASE a.kind = "none"      -> RecordFailure
                       [] a.kind = "unchanged" -> RecordUnchanged(at)
                       [] OTHER                -> RecordChanged(at, a.is)
         /\ RContinue(r, IF a.kind # "none" /\ probe'.pending THEN "fetch" ELSE "leave",
                      [rjob[r] EXCEPT !.answer = None, !.at = "new"])
  /\ UNCHANGED <<feed, index, rlock, commands, counters, history>>

\* refresh_product_from_registry: a failure leaves the listing pending.
FetchIndex(r) ==
  /\ rpc[r] = "fetch"
  /\ \/ RContinue(r, "save", [rjob[r] EXCEPT !.got = feed, !.at = "new"])
     \/ RGo(r, "leave") /\ UNCHANGED rjob
  /\ UNCHANGED <<feed, cache, commands, counters, history>>

SaveIndex(r) ==
  /\ rpc[r] = "save"
  /\ index' = [listing |-> rjob[r].got, fetched |-> rjob[r].at]
  /\ RContinue(r, "clean", [rjob[r] EXCEPT !.got = None, !.at = "new"])
  /\ UNCHANGED <<feed, probe, rlock, commands, counters, history>>

\* record_index_refresh_success
ClearPending(r) ==
  /\ rpc[r] = "clean"
  /\ probe' = IF probe = None THEN None ELSE [probe EXCEPT !.pending = FALSE]
  /\ RGo(r, "leave") /\ UNCHANGED rjob
  /\ UNCHANGED <<feed, index, rlock, commands, counters, history>>

\* The lock file is removed by name, whoever has created it.
Leave(r) ==
  /\ rpc[r] = "leave"
  /\ rlock' = None
  /\ RContinue(r, "idle", NoRJob)
  /\ UNCHANGED <<feed, probe, index, commands, counters, history>>

-----------------------------------------------------------------------------
(* The registry, the user, the clock, and deaths.                          *)

\* A version is published or withdrawn; the listing is never empty.
FeedChanges ==
  /\ changes < MaxFeed
  /\ changes' = changes + 1
  /\ \E v \in Versions :
       LET versions == IF v \in feed.versions THEN feed.versions \ {v} ELSE feed.versions \cup {v}
       IN  /\ versions # {}
           /\ feed' = [rev |-> feed.rev + 1, versions |-> versions]
           /\ withdrawn' = [withdrawn EXCEPT ![v] = IF v \in feed.versions THEN "new" ELSE None]
  /\ UNCHANGED <<cache, refresh, commands, lists, faults, overtaken>>

Aged(age, day) == IF day THEN "old" ELSE age

\* Every delay is over, and with a day every answer is old.
Pass(day) ==
  LET Later(job) == [job EXCEPT !.at = Aged(@, day)]
  IN  /\ probe' = IF probe = None THEN None
                  ELSE [probe EXCEPT !.attempted = "over", !.validated = Aged(@, day)]
      /\ index' = IF index = None THEN None ELSE [index EXCEPT !.fetched = Aged(@, day)]
      /\ rlock' = IF rlock = None THEN None ELSE "over"
      /\ ljob' = [p \in Listers |-> IF ljob[p].got = None THEN ljob[p] ELSE Later(ljob[p])]
      /\ rjob' = [r \in Refreshers |-> IF rjob[r].got = None /\ rjob[r].answer = None
                                       THEN rjob[r] ELSE Later(rjob[r])]
      /\ UNCHANGED <<feed, rpc, lpc, changes, lists>>

\* Longer than every retry delay and than the life of a lock.
AnHourPasses ==
  /\ Pass(FALSE)
  /\ UNCHANGED <<faults, history>>

ADayPasses ==
  /\ Pass(TRUE)
  /\ withdrawn' = [v \in Versions |-> IF withdrawn[v] = "new" THEN "old" ELSE withdrawn[v]]
  /\ UNCHANGED <<faults, overtaken>>

Fault == faults < MaxFaults /\ faults' = faults + 1 /\ UNCHANGED <<changes, lists>>

\* The refresh dies and leaves its lock file.
RefreshDies(r) ==
  /\ rpc[r] # "idle"
  /\ Fault
  /\ RContinue(r, "idle", NoRJob)
  /\ UNCHANGED <<feed, cache, commands, history>>

-----------------------------------------------------------------------------
(* The specification.                                                      *)

\* Nothing is cached yet.
Init ==
  /\ \E S \in Listings : feed = [rev |-> 0, versions |-> S]
  /\ probe = None /\ index = None /\ rlock = None
  /\ rpc = [r \in Refreshers |-> "idle"] /\ rjob = [r \in Refreshers |-> NoRJob]
  /\ lpc = [p \in Listers |-> "idle"] /\ ljob = [p \in Listers |-> NoLJob]
  /\ changes = 0 /\ lists = 0 /\ faults = 0
  /\ withdrawn = [v \in Versions |-> None]
  /\ overtaken = FALSE

LStep(p) == List(p) \/ FetchList(p) \/ SaveList(p)

RStep(r) ==
  \/ RemoveStale(r) \/ Relock(r) \/ Ask(r) \/ Record(r)
  \/ FetchIndex(r) \/ SaveIndex(r) \/ ClearPending(r) \/ Leave(r)

Next ==
  \/ \E p \in Listers : StartListing(p) \/ LStep(p)
  \/ \E r \in Refreshers : Spawn(r) \/ RStep(r) \/ RefreshDies(r)
  \/ FeedChanges \/ AnHourPasses \/ ADayPasses

Spec == Init /\ [][Next]_vars

\* Commands are run again and again, time passes, and processes run on; a request
\* that is made again and again is answered in the end, and not always slept over.
AskAnswered(r) == Ask(r) /\ rjob'[r].answer \notin {None, NoAnswer}
RecordInTime(r) ==
  Record(r) /\ rjob[r].at = "new" /\ rjob[r].answer # NoAnswer
FairSpec ==
  /\ Spec
  /\ WF_vars(AnHourPasses)
  /\ WF_vars(\E r \in Refreshers : Spawn(r) \/ RStep(r))
  /\ SF_vars(\E r \in Refreshers : AskAnswered(r))
  /\ SF_vars(\E r \in Refreshers : RecordInTime(r))

-----------------------------------------------------------------------------
(* Properties.                                                             *)

TypeOK ==
  /\ feed \in Feed
  /\ probe \in Probe \cup {None} /\ index \in Index \cup {None}
  /\ rlock \in Delays \cup {None}
  /\ rpc \in [Refreshers -> RPCs] /\ rjob \in [Refreshers -> RJob]
  /\ lpc \in [Listers -> LPCs] /\ ljob \in [Listers -> LJob]
  /\ changes \in 0..MaxFeed /\ lists \in 0..MaxLists /\ faults \in 0..MaxFaults
  /\ withdrawn \in [Versions -> {"new", "old", None}] /\ overtaken \in BOOLEAN

\* The cached listing is only used while it is at least as new as what the probe
\* saw: whatever dies in between, and however two refreshes or an `ls --remote`
\* interleave, a listing the probe found changed stays marked until it has been
\* fetched again (record_latest_probe_modified, load_fresh_version_index); unless
\* a refresh loses its lock, or a list that was asked for before is saved after.
CleanIndexIsCurrent ==
  probe # None /\ probe.rev # None /\ ~ probe.pending /\ ~ overtaken
    => index # None /\ index.listing.rev >= probe.rev

\* What the caches offer was on the registry's list a day ago or later: a version
\* that has been withdrawn since is not installed off them (cached_upgrade_target).
KnownIsRecent ==
  \A v \in CachedLatest :
    withdrawn[v] # "old" \/ overtaken

\* While checks are on, the caches come to offer the latest release again and
\* again, also after refreshes that died with their lock file and requests that
\* failed: an update is deferred, never skipped.
Learns ==
  []<>(overtaken \/ (CachedLatest # {} /\ Newest(CachedLatest) = Newest(feed.versions)))
=============================================================================

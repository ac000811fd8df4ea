----------------------------- MODULE CodexSkew -----------------------------
(***************************************************************************)
(* Several versions of Codex share one state database that only moves      *)
(* forward.  Before ovm starts one of them, its companion compares what    *)
(* the database has applied with what the version understands, and with    *)
(* what the observatory saw of it: crates/ovm-codex-skew/src/lib.rs.  What *)
(* the observatory saw is a document that a background refresh of ovm      *)
(* caches: commands/refresh_cache.rs, update_cache.rs, sources/registry.rs.*)
(*                                                                         *)
(* Migrations are numbered from 1.  The database is the number of the last *)
(* one applied.  The text of a version holds the descriptions of all its   *)
(* own migrations and, by chance, of some later ones (Words).  A document  *)
(* carries the manifest up to `max` and the observations; which migrations *)
(* are breaking is the same in every manifest, as one generator writes all.*)
(***************************************************************************)
EXTENDS Integers

CONSTANTS
  Codex,      \* versions of Codex
  History,    \* History[v]: the last migration v was built with
  Words,      \* Words[v]: later migrations whose description v's text holds
  Breaking,   \* migrations that remove what an older version reads
  Compiled,   \* the last migration of the manifest compiled into the guard
  Documents,  \* what the registry, or a lagging replica of it, may serve
  Week,       \* days a document is protected (CODEX_SKEW_EVIDENCE_MONOTONE_SECS)
  MaxRun,     \* run numbers are u64
  MaxSkewFaults,  \* bound on kills, failed writes and changes of the clock
  Absent

Verdicts == {"compatible", "degraded", "broken"}

Observation == [db : Nat, ver : Codex, verdict : Verdicts, run : 0..MaxRun]

ASSUME SkewAssumption ==
  /\ History \in [Codex -> Nat] /\ Words \in [Codex -> SUBSET Nat]
  /\ Breaking \subseteq Nat /\ Compiled \in Nat
  /\ Documents \subseteq [max : Nat, obs : SUBSET Observation]
  /\ Week \in Nat /\ MaxRun \in Nat /\ MaxSkewFaults \in Nat
  /\ Absent \notin Documents /\ Absent \notin [of : Documents, age : Int]
  /\ \A d \in Documents : \A o, q \in d.obs :
       o.ver = q.ver /\ o.db = q.db /\ o.run = q.run => o = q

VARIABLES
  applied,    \* the last migration the shared database has applied
  doc,        \* codex-skew.json
  fresh,      \* it was written or stamped within the last day
  sidecar,    \* codex-skew.saved-at: the document it was written for, its age
  pending,    \* codex-skew.pending: Absent, or how old it is
  pc, got,    \* the refresh, and the document it has fetched
  held,       \* days since the document came to its place (history)
  unsealed,   \* its sidecar is not written, or has lost its time (history)
  skewFaults

evidence == <<doc, fresh, sidecar, pending>>
skewRefresh == <<pc, got>>
skewHistory == <<held, unsealed>>
skewVars == <<applied, evidence, skewRefresh, skewHistory, skewFaults>>

-----------------------------------------------------------------------------
(* The guard: what it says of starting version v on a database at n, with  *)
(* the cached document d.                                                  *)

\* The manifest reaches as far as the compiled one, or as the served one that
\* continues it.
Manifest(d) == IF d # Absent /\ d.max > Compiled THEN d.max ELSE Compiled

\* A database that has applied something no manifest knows cannot be assessed
\* (nor one that cannot be read), and one that has applied nothing need not be.
Assessed(d, n) == n > 0 /\ n <= Manifest(d)

\* The scan finds a description wherever its bytes occur.
Found(d, v) == {m \in 1..Manifest(d) : m <= History[v] \/ m \in Words[v]}

\* (DegradedIsTold: a mutant, which believes every match.)
UnderstoodAnywhere(d, v) == Found(d, v)

\* Of what it finds, what follows from the first migration without a gap.
Understood(d, v) == {m \in 1..Manifest(d) : 1..m \subseteq Found(d, v)}

Degrades(d, n, v) == \E m \in 1..n : m \in Breaking /\ m \notin Understood(d, v)

Seen(d, n, v) ==
  IF d = Absent THEN {} ELSE {o \in d.obs : o.ver = v /\ o.db = n}

NewestRun(S) == {o \in S : \A q \in S : q.run <= o.run}

\* (WarningHasReason: a mutant, which reaches across breaking migrations.)
ReachAll(d, n) == n + 1 .. Manifest(d)

\* The migrations that a database at n reaches by additive ones alone.
Reach(d, n) == {k \in n + 1 .. Manifest(d) : \A m \in n + 1 .. k : m \notin Breaking}

\* Where, of these, v was observed next.
Nearest(d, n, v) ==
  {k \in Reach(d, n) : Seen(d, k, v) # {} /\ \A j \in n + 1 .. k - 1 : Seen(d, j, v) = {}}

\* From there only a bad observation counts.
BadAhead(d, n, v) ==
  \E k \in Nearest(d, n, v) : \E o \in NewestRun(Seen(d, k, v)) : o.verdict # "compatible"

\* An observation of exactly this database wins, then one that warns of what
\* lies ahead, then the manifest.
Warns(d, n, v) ==
  /\ Assessed(d, n)
  /\ IF Seen(d, n, v) # {}
     THEN \E o \in NewestRun(Seen(d, n, v)) : o.verdict # "compatible"
     ELSE BadAhead(d, n, v) \/ Degrades(d, n, v)

\* Codex migrates the database, one migration after the other, and may be
\* stopped after any of them.  It opens a database that is ahead of it as it is.
RunCodex(v) ==
  /\ \E n \in applied + 1 .. History[v] : applied' = n
  /\ UNCHANGED <<evidence, skewRefresh, skewHistory, skewFaults>>

-----------------------------------------------------------------------------
(* The refresh of the document.                                            *)

SkewFault == skewFaults < MaxSkewFaults /\ skewFaults' = skewFaults + 1

Done == pc' = "idle" /\ got' = Absent

\* (WarningStays: a mutant, which compares what is told and not how new it is.)
DominatesPairs(d, e) ==
  /\ d.max >= e.max
  /\ \A o \in e.obs : \E q \in d.obs : q.db = o.db /\ q.ver = o.ver

\* d reaches as far as e and still tells of all that e tells, in a run as new.
Dominates(d, e) ==
  /\ d.max >= e.max
  /\ \A o \in e.obs : \E q \in d.obs : q.db = o.db /\ q.ver = o.ver /\ q.run >= o.run

\* The sidecar protects the document it was written for, and not from the future.
Protected == sidecar # Absent /\ sidecar.of = doc /\ sidecar.age \in 0..Week

Rejected == doc # Absent /\ ~ Dominates(got, doc) /\ Protected

Due ==
  \/ pending = "old"
  \/ pending = Absent /\ (doc = Absent \/ ~ fresh)

\* A refresh comes to the document: it has just refreshed the index of Codex.
Begin ==
  /\ pc = "idle"
  /\ pc' = "fetch"
  /\ UNCHANGED <<applied, evidence, got, skewHistory, skewFaults>>

\* Or the document is due.
BeginDue == Due /\ Begin

Fetch ==
  /\ pc = "fetch"
  /\ \E d \in Documents : got' = d
  /\ pc' = "judge"
  /\ UNCHANGED <<applied, evidence, skewHistory, skewFaults>>

\* No answer, or not a document: a marker is left, if it can be written.
FetchFails ==
  /\ pc = "fetch"
  /\ \/ pending' = "recent" /\ UNCHANGED skewFaults
     \/ UNCHANGED pending /\ SkewFault
  /\ Done
  /\ UNCHANGED <<applied, doc, fresh, sidecar, skewHistory>>

\* The answer is not newer: the marker goes ...
Reject ==
  /\ pc = "judge" /\ Rejected
  /\ pending' = Absent
  /\ pc' = "stamp"
  /\ UNCHANGED <<applied, doc, fresh, sidecar, got, skewHistory, skewFaults>>

\* (ServedInTheEnd: a mutant, which renews the protection as well.)
StampRenews ==
  /\ pc = "stamp"
  /\ fresh' = TRUE
  /\ sidecar' = [of |-> doc, age |-> 0]
  /\ Done
  /\ UNCHANGED <<applied, doc, pending, skewHistory, skewFaults>>

\* ... and the document in place counts as validated now.  The sidecar keeps
\* its time.
Stamp ==
  /\ pc = "stamp"
  /\ fresh' = TRUE
  /\ Done
  /\ UNCHANGED <<applied, doc, sidecar, pending, skewHistory, skewFaults>>

\* The answer takes the place of the document.
Rename ==
  /\ pc = "judge" /\ ~ Rejected
  /\ doc' = got /\ fresh' = TRUE
  /\ held' = 0 /\ unsealed' = TRUE
  /\ pc' = "unmark"
  /\ UNCHANGED <<applied, sidecar, pending, got, skewFaults>>

RenameFails ==
  /\ pc = "judge" /\ ~ Rejected
  /\ SkewFault
  /\ pending' = "recent"
  /\ Done
  /\ UNCHANGED <<applied, doc, fresh, sidecar, skewHistory>>

Unmark ==
  /\ pc = "unmark"
  /\ pending' = Absent
  /\ pc' = "seal"
  /\ UNCHANGED <<applied, doc, fresh, sidecar, got, skewHistory, skewFaults>>

\* The sidecar is written last, for the document that is in place.
Seal ==
  /\ pc = "seal"
  /\ sidecar' = [of |-> got, age |-> 0]
  /\ unsealed' = FALSE /\ held' = 0
  /\ Done
  /\ UNCHANGED <<applied, doc, fresh, pending, skewFaults>>

SealFails ==
  /\ pc = "seal"
  /\ SkewFault
  /\ Done
  /\ UNCHANGED <<applied, evidence, skewHistory>>

Kill ==
  /\ pc # "idle"
  /\ SkewFault
  /\ Done
  /\ UNCHANGED <<applied, evidence, skewHistory>>

-----------------------------------------------------------------------------
(* Time.                                                                   *)

Older(age) == IF age > Week THEN age ELSE age + 1

Paced == IF pending = "recent" THEN "old" ELSE pending

\* A little more than a day (TTL_SECS).
Day ==
  /\ fresh' = FALSE
  /\ pending' = Paced
  /\ sidecar' = IF sidecar = Absent THEN Absent ELSE [sidecar EXCEPT !.age = Older(@)]
  /\ held' = Older(held)
  /\ UNCHANGED <<applied, doc, skewRefresh, unsealed, skewFaults>>

\* CODEX_SKEW_EVIDENCE_RETRY_SECS after a failure.
FiveMinutes ==
  /\ pending = "recent" /\ pending' = "old"
  /\ UNCHANGED <<applied, doc, fresh, sidecar, skewRefresh, skewHistory, skewFaults>>

\* The clock is set back before every file: none counts as fresh, and the
\* sidecar protects nothing until the clock has caught up.
SetBack ==
  /\ SkewFault
  /\ fresh' = FALSE
  /\ pending' = Paced
  /\ sidecar' = IF sidecar = Absent THEN Absent ELSE [sidecar EXCEPT !.age = -1]
  /\ unsealed' = TRUE
  /\ UNCHANGED <<applied, doc, skewRefresh, held>>

-----------------------------------------------------------------------------
(* The specification.                                                      *)

SkewInit ==
  /\ applied = 0
  /\ doc = Absent /\ fresh = FALSE /\ sidecar = Absent /\ pending = Absent
  /\ pc = "idle" /\ got = Absent
  /\ held = 0 /\ unsealed = FALSE
  /\ skewFaults = 0

Step == Reject \/ Stamp \/ Rename \/ Unmark \/ Seal

SkewNext ==
  \/ \E v \in Codex : RunCodex(v)
  \/ Begin \/ BeginDue \/ Fetch \/ FetchFails \/ Step
  \/ RenameFails \/ SealFails \/ Kill
  \/ Day \/ FiveMinutes \/ SetBack

SkewSpec == SkewInit /\ [][SkewNext]_skewVars

\* Time passes, somebody uses ovm now and then, so that a refresh that is due
\* begins, a refresh goes on, and the registry answers now and then.
FairSkewSpec ==
  /\ SkewSpec
  /\ WF_skewVars(Day) /\ WF_skewVars(FiveMinutes)
  /\ WF_skewVars(BeginDue) /\ WF_skewVars(Step) /\ SF_skewVars(Fetch)

-----------------------------------------------------------------------------
(* Properties.                                                             *)

SkewTypeOK ==
  /\ applied \in Nat
  /\ doc \in Documents \cup {Absent} /\ fresh \in BOOLEAN
  /\ sidecar \in [of : Documents, age : -1 .. Week + 1] \cup {Absent}
  /\ pending \in {Absent, "recent", "old"}
  /\ pc \in {"idle", "fetch", "judge", "stamp", "unmark", "seal"}
  /\ got \in Documents \cup {Absent}
  /\ held \in 0 .. Week + 1 /\ unsealed \in BOOLEAN
  /\ skewFaults \in 0..MaxSkewFaults

\* What v reads of the database and breaking migrations have removed.
Lost(v) == {m \in History[v] + 1 .. applied : m \in Breaking}

\* "The guard turns that silent failure into a loud, pre-flight signal": a version
\* that lost something to a migration it was built without never starts without a
\* warning, except where the guard cannot assess the database, the newest run on
\* exactly this database went well, or the version's text holds the descriptions
\* of all migrations from its own last one to the one that hurts.  A match past a
\* gap, or a good observation elsewhere, silences nothing.
DegradedIsTold ==
  \A v \in Codex :
    Lost(v) # {} /\ ~ Warns(doc, applied, v)
      => \/ applied > Compiled /\ (doc = Absent \/ applied > doc.max)
         \/ /\ doc # Absent
            /\ \E o \in doc.obs :
                 /\ o.ver = v /\ o.db = applied /\ o.verdict = "compatible"
                 /\ \A q \in doc.obs : q.ver = v /\ q.db = applied => q.run <= o.run
         \/ \A m \in Lost(v) : History[v] + 1 .. m \subseteq Words[v]

\* A warning has a reason: the version has lost something, or was seen to fail on
\* this database, or on the first one ahead of it on which it was seen at all and
\* which differs by additive migrations only.
WarningHasReason ==
  \A v \in Codex :
    Warns(doc, applied, v)
      => \/ Lost(v) # {}
         \/ /\ doc # Absent
            /\ \E o \in doc.obs :
                 /\ o.ver = v /\ o.verdict # "compatible" /\ o.db >= applied
                 /\ \A m \in Breaking : ~ (applied < m /\ m <= o.db)
                 /\ \A q \in doc.obs :
                      q.ver = v /\ q.db >= applied /\ q.db <= o.db
                        => q.db = o.db /\ q.run <= o.run

\* "A lagging replica or partial publish must not delete verdicts": while a
\* document is protected, the warning of a version that was seen to fail on this
\* database stays, whatever is fetched, until a run as new went well.
WarningStays ==
  [][\A v \in Codex : \A o \in NewestRun(Seen(doc, applied, v)) :
       /\ Warns(doc, applied, v) /\ o.verdict # "compatible"
       /\ ~ unsealed /\ held <= Week /\ applied' = applied
       => \/ Warns(doc', applied, v)
          \/ \E q \in Seen(doc', applied, v) :
               q.verdict = "compatible" /\ q.run >= o.run]_skewVars

\* "A wrong document can never hold the cache for long": if from some time on every
\* fetch that lands brings the same document, that document is cached for good,
\* however little it dominates what was there.
ServedInTheEnd ==
  \A d \in Documents : <>[](pc = "judge" => got = d) => <>[](doc = d)
=============================================================================

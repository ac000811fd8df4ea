------------------------- MODULE RefreshCacheProofs -------------------------
(* Theorems about the two caches that commands/refresh_cache.rs fills: of   *)
(* the index of a product (RefreshCache) and of the evidence of the codex   *)
(* guard (CodexSkew), for every value of their constants.                   *)
EXTENDS RefreshCache, CodexSkew, WellFoundedInduction, TLAPS

-----------------------------------------------------------------------------
(* Type correctness.  That a process saves a listing, and a probe names its *)
(* newest version, rests on what the locals of that process hold.           *)

FeedOK == feed.rev = changes /\ feed.versions # {}

AnswerOK(a) == a \in Answer /\ (a.kind = "changed" => a.is \in Feed /\ a.is.versions # {})

RefreshOK(r) ==
  /\ rpc[r] = "record" => AnswerOK(rjob[r].answer)
  /\ rpc[r] # "record" => rjob[r].answer = None
  /\ rpc[r] = "save" => rjob[r].got \in Feed /\ rjob[r].got.versions # {}
  /\ rpc[r] # "save" => rjob[r].got = None

ListOK(p) ==
  /\ lpc[p] = "save" => ljob[p].got \in Feed /\ ljob[p].got.versions # {}
  /\ lpc[p] # "save" => ljob[p].got = None

IndexOK == index # None => index.listing.versions # {}

TypeInv ==
  /\ TypeOK /\ FeedOK /\ IndexOK
  /\ \A r \in Refreshers : RefreshOK(r)
  /\ \A p \in Listers : ListOK(p)

LEMMA NewestType ==
  ASSUME NEW S \in SUBSET Versions, S # {}
  PROVE  Newest(S) \in S
<1>1. \E v \in S : \A w \in S : w <= v
  BY NewestAssumption
<1> QED BY <1>1 DEF Newest

\* A process moves to l with locals j, the others stay where they are.
RMoves(r, l, j) ==
  /\ rpc' \in [Refreshers -> RPCs] /\ rjob' \in [Refreshers -> RJob]
  /\ rpc'[r] = l /\ rjob'[r] = j
  /\ \A q \in Refreshers \ {r} : rpc'[q] = rpc[q] /\ rjob'[q] = rjob[q]

LMoves(p, l, j) ==
  /\ lpc' \in [Listers -> LPCs] /\ ljob' \in [Listers -> LJob]
  /\ lpc'[p] = l /\ ljob'[p] = j
  /\ \A q \in Listers \ {p} : lpc'[q] = lpc[q] /\ ljob'[q] = ljob[q]

LEMMA RMove ==
  ASSUME TypeOK, NEW r \in Refreshers, NEW l \in RPCs, NEW j \in RJob, RContinue(r, l, j)
  PROVE  RMoves(r, l, j)
BY DEF TypeOK, RContinue, RGo, RSetJob, RMoves

LEMMA RMovePc ==
  ASSUME TypeOK, NEW r \in Refreshers, NEW l \in RPCs, RGo(r, l), UNCHANGED rjob
  PROVE  RMoves(r, l, rjob[r])
BY DEF TypeOK, RGo, RMoves

LEMMA LMove ==
  ASSUME TypeOK, NEW p \in Listers, NEW l \in LPCs, NEW j \in LJob, LContinue(p, l, j)
  PROVE  LMoves(p, l, j)
BY DEF TypeOK, LContinue, LMoves

LEMMA NoJobs ==
  /\ NoRJob \in RJob /\ NoRJob.answer = None /\ NoRJob.got = None /\ NoRJob.at = "new"
  /\ NoLJob \in LJob /\ NoLJob.got = None /\ NoLJob.at = "new"
BY DEF NoRJob, NoLJob, RJob, LJob, Ages

\* What the steps make of the locals.
LEMMA JobUpdates ==
  /\ \A j \in RJob, a \in Answer :
       LET k == [j EXCEPT !.answer = a, !.at = "new"]
       IN  k \in RJob /\ k.answer = a /\ k.got = j.got /\ k.at = "new"
  /\ \A j \in RJob :
       LET k == [j EXCEPT !.answer = None, !.at = "new"]
       IN  k \in RJob /\ k.answer = None /\ k.got = j.got /\ k.at = "new"
  /\ \A j \in RJob, L \in Feed \cup {None} :
       LET k == [j EXCEPT !.got = L, !.at = "new"]
       IN  k \in RJob /\ k.answer = j.answer /\ k.got = L /\ k.at = "new"
  /\ \A j \in RJob, age \in Ages :
       LET k == [j EXCEPT !.at = age]
       IN  k \in RJob /\ k.answer = j.answer /\ k.got = j.got /\ k.at = age
  /\ \A j \in LJob, age \in Ages :
       LET k == [j EXCEPT !.at = age]
       IN  k \in LJob /\ k.got = j.got /\ k.at = age
  /\ \A L \in Feed :
       LET k == [NoLJob EXCEPT !.got = L]
       IN  k \in LJob /\ k.got = L /\ k.at = "new"
BY DEF RJob, LJob, NoLJob, Ages

LEMMA JobsAged ==
  ASSUME NEW age \in Ages
  PROVE  /\ \A j \in RJob : LET k == [j EXCEPT !.at = age]
                          IN  /\ k \in RJob /\ k.answer = j.answer
                              /\ k.got = j.got /\ k.at = age
         /\ \A j \in LJob : LET k == [j EXCEPT !.at = age]
                          IN  k \in LJob /\ k.got = j.got /\ k.at = age
  BY JobUpdates

LEMMA AnswerTypes ==
  /\ NoAnswer \in Answer /\ NoAnswer.kind = "none"
  /\ Unchanged \in Answer /\ Unchanged.kind = "unchanged"
  /\ \A L \in Feed : LET a == [kind |-> "changed", is |-> L]
                     IN  a \in Answer /\ a.kind = "changed" /\ a.is = L
  /\ \A a \in Answer : a # None
BY NoneAssumption DEF Answer, NoAnswer, Unchanged

LEMMA PreviousType ==
  ASSUME TypeOK
  PROVE  /\ Previous \in Probe
         /\ probe # None => Previous = probe
         /\ probe = None => Previous.rev = None /\ Previous.latest = None
                              /\ Previous.pending = FALSE /\ Previous.validated = "old"
BY DEF TypeOK, Previous, NoProbe, Probe, VersionOrNone, Ages, Delays

\* What the three records of an answer change of the probe's state.
LEMMA Recorded ==
  ASSUME TypeOK, NEW at \in Ages
  PROVE  /\ LET n == RecordFailure
            IN  n \in Probe /\ n.rev = Previous.rev /\ n.latest = Previous.latest
                  /\ n.pending = Previous.pending /\ n.validated = Previous.validated
         /\ LET n == RecordUnchanged(at)
            IN  n \in Probe /\ n.rev = Previous.rev /\ n.latest = Previous.latest
                  /\ n.pending = Previous.pending /\ n.validated = at
         /\ \A seen \in Feed : seen.versions # {} =>
              LET n == RecordChanged(at, seen)
              IN  /\ n \in Probe /\ n.rev = seen.rev /\ n.latest = Newest(seen.versions)
                  /\ n.pending = (Previous.pending \/ Previous.rev # seen.rev)
                  /\ n.validated = at /\ n.latest \in seen.versions
<1> DEFINE P == Previous
<1>1. P \in Probe
  BY PreviousType
<1>2. RecordFailure = [P EXCEPT !.attempted = "running"]
      /\ RecordUnchanged(at) = [P EXCEPT !.attempted = "running", !.validated = at]
  BY DEF RecordFailure, RecordUnchanged
<1>3. ASSUME NEW seen \in Feed, seen.versions # {}
      PROVE  LET n == RecordChanged(at, seen)
             IN  /\ n \in Probe /\ n.rev = seen.rev /\ n.latest = Newest(seen.versions)
                 /\ n.pending = (P.pending \/ P.rev # seen.rev)
                 /\ n.validated = at /\ n.latest \in seen.versions
  <2>1. seen.versions \in SUBSET Versions /\ seen.rev \in Revision
    BY DEF Feed
  <2>2. Newest(seen.versions) \in seen.versions
    BY <2>1, <1>3, NewestType
  <2>3. RecordChanged(at, seen) =
          [rev |-> seen.rev, latest |-> Newest(seen.versions),
           pending |-> P.pending \/ P.rev # seen.rev, validated |-> at, attempted |-> "running"]
    BY DEF RecordChanged
  <2>4. (P.pending \/ P.rev # seen.rev) \in BOOLEAN
    BY <1>1 DEF Probe
  <2> HIDE DEF P
  <2> QED BY <2>1, <2>2, <2>3, <2>4 DEF Probe, VersionOrNone, Delays
<1> HIDE DEF P
<1>4. /\ RecordFailure \in Probe /\ RecordFailure.rev = P.rev /\ RecordFailure.latest = P.latest
      /\ RecordFailure.pending = P.pending /\ RecordFailure.validated = P.validated
  BY <1>1, <1>2 DEF Probe, Delays
<1>5. LET n == RecordUnchanged(at)
      IN  n \in Probe /\ n.rev = P.rev /\ n.latest = P.latest
            /\ n.pending = P.pending /\ n.validated = at
  BY <1>1, <1>2 DEF Probe, Delays
<1> QED BY <1>3, <1>4, <1>5 DEF P

\* TypeOK but for the control state and the locals.
StoreOK ==
  /\ feed \in Feed /\ FeedOK
  /\ probe \in Probe \cup {None} /\ index \in Index \cup {None} /\ IndexOK
  /\ rlock \in Delays \cup {None}
  /\ changes \in 0..MaxFeed /\ lists \in 0..MaxLists /\ faults \in 0..MaxFaults
  /\ withdrawn \in [Versions -> {"new", "old", None}] /\ overtaken \in BOOLEAN

RefreshersOK == rpc \in [Refreshers -> RPCs] /\ rjob \in [Refreshers -> RJob]
                  /\ \A r \in Refreshers : RefreshOK(r)
ListersOK == lpc \in [Listers -> LPCs] /\ ljob \in [Listers -> LJob]
                  /\ \A p \in Listers : ListOK(p)

LEMMA TypeSplit == TypeInv <=> StoreOK /\ RefreshersOK /\ ListersOK
BY DEF TypeInv, TypeOK, StoreOK, RefreshersOK, ListersOK

LEMMA TypeNext ==
  ASSUME StoreOK', RefreshersOK', ListersOK' PROVE TypeInv'
BY DEF TypeInv, TypeOK, StoreOK, RefreshersOK, ListersOK

LEMMA RKept ==
  ASSUME RefreshersOK, NEW r \in Refreshers, NEW l, NEW j, RMoves(r, l, j),
         l = "record" => AnswerOK(j.answer),
         l # "record" => j.answer = None,
         l = "save" => j.got \in Feed /\ j.got.versions # {},
         l # "save" => j.got = None
  PROVE  RefreshersOK'
BY DEF RefreshersOK, RefreshOK, RMoves

LEMMA LKept ==
  ASSUME ListersOK, NEW p \in Listers, NEW l, NEW j, LMoves(p, l, j),
         l = "save" => j.got \in Feed /\ j.got.versions # {},
         l # "save" => j.got = None
  PROVE  ListersOK'
BY DEF ListersOK, ListOK, LMoves

LEMMA RSame == ASSUME RefreshersOK, UNCHANGED refresh PROVE RefreshersOK'
BY DEF RefreshersOK, RefreshOK, refresh

LEMMA LSame == ASSUME ListersOK, UNCHANGED commands PROVE ListersOK'
BY DEF ListersOK, ListOK, commands

\* What each step does to the locals.
LEMMA StartListingMoves ==
  ASSUME TypeInv, NEW p \in Listers, StartListing(p)
  PROVE  LMoves(p, "list", NoLJob)
<1>1. "list" \in LPCs /\ TypeOK
  BY DEF LPCs, TypeInv
<1> QED BY <1>1, NoJobs, LMove DEF StartListing

LEMMA ListMoves ==
  ASSUME TypeInv, NEW p \in Listers, List(p)
  PROVE  \E l \in {"idle", "fetch"} : LMoves(p, l, NoLJob)
<1>1. "idle" \in LPCs /\ "fetch" \in LPCs /\ TypeOK
  BY DEF LPCs, TypeInv
<1>2. CASE FreshIndex
  BY <1>1, <1>2, NoJobs, LMove DEF List
<1>3. CASE ~ FreshIndex
  BY <1>1, <1>3, NoJobs, LMove DEF List
<1> QED BY <1>2, <1>3

LEMMA FetchListMoves ==
  ASSUME TypeInv, NEW p \in Listers, FetchList(p)
  PROVE  \/ \E j \in LJob : LMoves(p, "save", j) /\ j.got = feed /\ j.at = "new"
         \/ LMoves(p, "idle", NoLJob)
<1> DEFINE j == [NoLJob EXCEPT !.got = feed]
<1>1. "idle" \in LPCs /\ "save" \in LPCs /\ TypeOK
  BY DEF LPCs, TypeInv
<1>2. j \in LJob /\ j.got = feed /\ j.at = "new"
  BY JobUpdates DEF TypeInv, TypeOK
<1>3. LContinue(p, "save", j) \/ LContinue(p, "idle", NoLJob)
  BY DEF FetchList
<1> HIDE DEF j
<1> QED BY <1>1, <1>2, <1>3, NoJobs, LMove

LEMMA SaveListMoves ==
  ASSUME TypeInv, NEW p \in Listers, SaveList(p)
  PROVE  LMoves(p, "idle", NoLJob)
<1>1. "idle" \in LPCs /\ TypeOK
  BY DEF LPCs, TypeInv
<1> QED BY <1>1, NoJobs, LMove DEF SaveList

LEMMA SpawnMoves ==
  ASSUME TypeInv, NEW r \in Refreshers, Spawn(r)
  PROVE  RMoves(r, IF rlock = None THEN "ask" ELSE "steal", NoRJob)
<1>1. "ask" \in RPCs /\ "steal" \in RPCs /\ TypeOK
  BY DEF RPCs, TypeInv
<1> QED BY <1>1, NoJobs, RMove DEF Spawn

LEMMA RemoveStaleMoves ==
  ASSUME TypeInv, NEW r \in Refreshers, RemoveStale(r)
  PROVE  RMoves(r, "relock", rjob[r])
<1>1. "relock" \in RPCs /\ TypeOK
  BY DEF RPCs, TypeInv
<1> QED BY <1>1, RMovePc DEF RemoveStale

LEMMA RelockMoves ==
  ASSUME TypeInv, NEW r \in Refreshers, Relock(r)
  PROVE  \/ rlock = None /\ rlock' = "running" /\ RMoves(r, "ask", rjob[r])
         \/ UNCHANGED rlock /\ RMoves(r, "idle", NoRJob)
<1>1. "ask" \in RPCs /\ "idle" \in RPCs /\ TypeOK
  BY DEF RPCs, TypeInv
<1>2. CASE rlock = None
  BY <1>1, <1>2, RMovePc DEF Relock
<1>3. CASE rlock # None
  BY <1>1, <1>3, NoJobs, RMove DEF Relock
<1> QED BY <1>2, <1>3

LEMMA AskMoves ==
  ASSUME TypeInv, NEW r \in Refreshers, Ask(r)
  PROVE  \/ RMoves(r, "leave", rjob[r])
         \/ \E j \in RJob :
              /\ RMoves(r, "record", j) /\ j.got = None /\ j.at = "new"
              /\ AnswerOK(j.answer)
              /\ j.answer.kind = "changed" => j.answer.is = feed
              /\ j.answer = Unchanged => probe # None /\ probe.rev = feed.rev
<1>1. "leave" \in RPCs /\ "record" \in RPCs /\ TypeOK /\ rjob[r].got = None /\ rjob[r] \in RJob
  BY DEF RPCs, TypeInv, RefreshOK, TypeOK, Ask
<1>2. CASE probe # None /\ probe.attempted = "running"
  BY <1>1, <1>2, RMovePc DEF Ask
<1>3. CASE ~ (probe # None /\ probe.attempted = "running")
  <2>1. PICK a \in { NoAnswer, IF probe # None /\ probe.rev = feed.rev
                               THEN Unchanged ELSE [kind |-> "changed", is |-> feed] } :
          RContinue(r, "record", [rjob[r] EXCEPT !.answer = a, !.at = "new"])
    BY <1>3 DEF Ask
  <2>2. feed \in Feed /\ feed.versions # {}
    BY DEF TypeInv, TypeOK, FeedOK
  <2>3. AnswerOK(a) /\ (a.kind = "changed" => a.is = feed)
        /\ (a = Unchanged => probe # None /\ probe.rev = feed.rev)
    BY <2>1, <2>2, AnswerTypes DEF AnswerOK, Unchanged, NoAnswer
  <2> DEFINE j == [rjob[r] EXCEPT !.answer = a, !.at = "new"]
  <2>4. j \in RJob /\ j.answer = a /\ j.got = None /\ j.at = "new"
    BY <1>1, <2>3 DEF AnswerOK, RJob, Ages
  <2>5. RContinue(r, "record", j)
    BY <2>1
  <2> HIDE DEF j
  <2>6. RMoves(r, "record", j)
    BY <1>1, <2>4, <2>5, RMove
  <2> QED BY <2>3, <2>4, <2>6
<1> QED BY <1>2, <1>3

LEMMA RecordMoves ==
  ASSUME TypeInv, NEW r \in Refreshers, Record(r)
  PROVE  \E j \in RJob, l \in {"fetch", "leave"} :
           /\ RMoves(r, l, j) /\ j.answer = None /\ j.got = None
           /\ l = "fetch" <=> rjob[r].answer.kind # "none" /\ probe'.pending
<1>1. {"fetch", "leave"} \subseteq RPCs /\ TypeOK /\ rjob[r] \in RJob /\ rjob[r].got = None
  BY DEF RPCs, TypeInv, TypeOK, RefreshOK, Record
<1> DEFINE j == [rjob[r] EXCEPT !.answer = None, !.at = "new"]
           l == IF rjob[r].answer.kind # "none" /\ probe'.pending THEN "fetch" ELSE "leave"
<1>2. j \in RJob /\ j.answer = None /\ j.got = None
  BY <1>1 DEF RJob, Ages
<1>3. RContinue(r, l, j)
  BY DEF Record
<1>4. l \in {"fetch", "leave"} /\ (l = "fetch" <=> rjob[r].answer.kind # "none" /\ probe'.pending)
  OBVIOUS
<1> HIDE DEF j, l
<1>5. RMoves(r, l, j)
  BY <1>1, <1>2, <1>3, <1>4, RMove
<1> QED BY <1>2, <1>4, <1>5

LEMMA FetchIndexMoves ==
  ASSUME TypeInv, NEW r \in Refreshers, FetchIndex(r)
  PROVE  \/ \E j \in RJob : /\ RMoves(r, "save", j) /\ j.answer = None
                            /\ j.got = feed /\ j.at = "new"
         \/ RMoves(r, "leave", rjob[r])
<1>1. "save" \in RPCs /\ "leave" \in RPCs /\ TypeOK /\ rjob[r] \in RJob
        /\ rjob[r].answer = None /\ feed \in Feed
  BY DEF RPCs, TypeInv, TypeOK, RefreshOK, FetchIndex
<1> DEFINE j == [rjob[r] EXCEPT !.got = feed, !.at = "new"]
<1>2. j \in RJob /\ j.answer = None /\ j.got = feed /\ j.at = "new"
  BY <1>1 DEF RJob, Ages
<1>3. RContinue(r, "save", j) \/ (RGo(r, "leave") /\ UNCHANGED rjob)
  BY DEF FetchIndex
<1> HIDE DEF j
<1> QED BY <1>1, <1>2, <1>3, RMove, RMovePc

LEMMA SaveIndexMoves ==
  ASSUME TypeInv, NEW r \in Refreshers, SaveIndex(r)
  PROVE  \E j \in RJob : RMoves(r, "clean", j) /\ j.answer = None /\ j.got = None
<1>1. "clean" \in RPCs /\ TypeOK /\ rjob[r] \in RJob /\ rjob[r].answer = None
  BY DEF RPCs, TypeInv, TypeOK, RefreshOK, SaveIndex
<1> DEFINE j == [rjob[r] EXCEPT !.got = None, !.at = "new"]
<1>2. j \in RJob /\ j.answer = None /\ j.got = None
  BY <1>1 DEF RJob, Ages
<1>3. RContinue(r, "clean", j)
  BY DEF SaveIndex
<1> HIDE DEF j
<1> QED BY <1>1, <1>2, <1>3, RMove

LEMMA ClearPendingMoves ==
  ASSUME TypeInv, NEW r \in Refreshers, ClearPending(r)
  PROVE  RMoves(r, "leave", rjob[r])
<1>1. "leave" \in RPCs /\ TypeOK
  BY DEF RPCs, TypeInv
<1> QED BY <1>1, RMovePc DEF ClearPending

LEMMA EndMoves ==
  ASSUME TypeInv, NEW r \in Refreshers, Leave(r) \/ RefreshDies(r)
  PROVE  RMoves(r, "idle", NoRJob)
<1>1. "idle" \in RPCs /\ TypeOK
  BY DEF RPCs, TypeInv
<1> QED BY <1>1, NoJobs, RMove DEF Leave, RefreshDies

\* Time makes the answers a process holds older, and leaves the rest of it alone.
LEMMA PassMoves ==
  ASSUME TypeInv, NEW day \in BOOLEAN, Pass(day)
  PROVE  /\ RefreshersOK' /\ ListersOK' /\ rpc' = rpc /\ lpc' = lpc
         /\ \A r \in Refreshers :
              /\ rjob'[r].answer = rjob[r].answer /\ rjob'[r].got = rjob[r].got
              /\ rjob[r].answer # None \/ rjob[r].got # None
                   => rjob'[r].at = Aged(rjob[r].at, day)
         /\ \A p \in Listers :
              /\ ljob'[p].got = ljob[p].got
              /\ ljob[p].got # None => ljob'[p].at = Aged(ljob[p].at, day)
<1>1. TypeOK /\ RefreshersOK /\ ListersOK
  BY TypeSplit DEF TypeInv
<1>2. \A age \in Ages : Aged(age, day) \in Ages
  BY DEF Aged, Ages
<1>3. rpc' = rpc /\ lpc' = lpc
  BY DEF Pass
<1>4. ASSUME NEW r \in Refreshers
      PROVE  /\ rjob'[r] \in RJob /\ rjob'[r].answer = rjob[r].answer /\ rjob'[r].got = rjob[r].got
             /\ rjob[r].answer # None \/ rjob[r].got # None
                  => rjob'[r].at = Aged(rjob[r].at, day)
  <2>1. rjob[r] \in RJob /\ rjob[r].at \in Ages
    BY <1>1 DEF RefreshersOK, RJob
  <2>2. rjob'[r] = IF rjob[r].got = None /\ rjob[r].answer = None THEN rjob[r]
                   ELSE [rjob[r] EXCEPT !.at = Aged(rjob[r].at, day)]
    BY <2>1 DEF Pass
  <2>3. LET k == [rjob[r] EXCEPT !.at = Aged(rjob[r].at, day)]
        IN  k \in RJob /\ k.answer = rjob[r].answer /\ k.got = rjob[r].got
              /\ k.at = Aged(rjob[r].at, day)
    <3>1. PICK age \in Ages : age = Aged(rjob[r].at, day)
      BY <1>2, <2>1
    <3> QED BY <2>1, <3>1, JobsAged
  <2> QED BY <2>1, <2>2, <2>3
<1>5. ASSUME NEW p \in Listers
      PROVE  /\ ljob'[p] \in LJob /\ ljob'[p].got = ljob[p].got
             /\ ljob[p].got # None => ljob'[p].at = Aged(ljob[p].at, day)
  <2>1. ljob[p] \in LJob /\ ljob[p].at \in Ages
    BY <1>1 DEF ListersOK, LJob
  <2>2. ljob'[p] = IF ljob[p].got = None THEN ljob[p]
                   ELSE [ljob[p] EXCEPT !.at = Aged(ljob[p].at, day)]
    BY <2>1 DEF Pass
  <2>3. LET k == [ljob[p] EXCEPT !.at = Aged(ljob[p].at, day)]
        IN  k \in LJob /\ k.got = ljob[p].got /\ k.at = Aged(ljob[p].at, day)
    <3>1. PICK age \in Ages : age = Aged(ljob[p].at, day)
      BY <1>2, <2>1
    <3> QED BY <2>1, <3>1, JobsAged
  <2> QED BY <2>1, <2>2, <2>3
<1>6. rjob' \in [Refreshers -> RJob] /\ ljob' \in [Listers -> LJob]
  <2>1. rjob' = [r \in Refreshers |-> rjob'[r]] /\ ljob' = [p \in Listers |-> ljob'[p]]
    BY DEF Pass
  <2> QED BY <2>1, <1>4, <1>5
<1>7. RefreshersOK'
  BY <1>1, <1>3, <1>4, <1>6 DEF RefreshersOK, RefreshOK
<1>8. ListersOK'
  BY <1>1, <1>3, <1>5, <1>6 DEF ListersOK, ListOK
<1> QED BY <1>3, <1>4, <1>5, <1>7, <1>8

\* What Record leaves in latest-probe.json.
LEMMA RecordProbe ==
  ASSUME TypeInv, NEW r \in Refreshers, Record(r)
  PROVE  LET a == rjob[r].answer
             at == rjob[r].at
         IN  /\ AnswerOK(a) /\ at \in Ages
             /\ \/ a.kind = "none" /\ probe' = RecordFailure
                \/ a.kind = "unchanged" /\ probe' = RecordUnchanged(at)
                \/ a.kind = "changed" /\ probe' = RecordChanged(at, a.is)
<1> DEFINE a == rjob[r].answer
<1>1. AnswerOK(a) /\ rjob[r].at \in Ages
  BY DEF TypeInv, TypeOK, RefreshOK, Record, RJob
<1>2. a.kind \in {"none", "unchanged", "changed"}
  BY <1>1 DEF AnswerOK, Answer, NoAnswer, Unchanged
<1>3. probe' = CASE a.kind = "none"      -> RecordFailure
                 [] a.kind = "unchanged" -> RecordUnchanged(rjob[r].at)
                 [] OTHER                -> RecordChanged(rjob[r].at, a.is)
  BY DEF Record
<1> HIDE DEF a
<1>4. CASE a.kind = "none"
  BY <1>1, <1>3, <1>4 DEF a
<1>5. CASE a.kind = "unchanged"
  BY <1>1, <1>3, <1>5 DEF a
<1>6. CASE a.kind = "changed"
  BY <1>1, <1>3, <1>6 DEF a
<1> QED BY <1>2, <1>4, <1>5, <1>6

\* A process that moves within the run of a refresh, with nothing new in hand.
LEMMA RPlain ==
  ASSUME RefreshersOK, NEW r \in Refreshers, NEW l \in RPCs \ {"record", "save"}, NEW j,
         RMoves(r, l, j), j.answer = None, j.got = None
  PROVE  RefreshersOK'
BY RKept

LEMMA RPlainStep ==
  ASSUME RefreshersOK, NEW r \in Refreshers, NEW l \in RPCs \ {"record", "save"},
         rpc[r] \notin {"record", "save"}, RMoves(r, l, rjob[r])
  PROVE  RefreshersOK'
BY RPlain DEF RefreshersOK, RefreshOK

LEMMA TypeInit == Init => TypeInv
<1> SUFFICES ASSUME Init PROVE TypeInv
  OBVIOUS
<1>1. feed \in Feed /\ FeedOK
  <2>1. PICK S \in Listings : feed = [rev |-> 0, versions |-> S]
    BY DEF Init
  <2>2. S \in SUBSET Versions /\ S # {} /\ 0 \in Revision /\ changes = 0
    BY ConstantsAssumption DEF Revision, Init
  <2> QED BY <2>1, <2>2 DEF Feed, FeedOK
<1>2. StoreOK
  <2>1. probe = None /\ index = None /\ rlock = None /\ IndexOK
    BY DEF Init, IndexOK
  <2>2. changes \in 0..MaxFeed /\ lists \in 0..MaxLists /\ faults \in 0..MaxFaults
    BY ConstantsAssumption DEF Init
  <2>3. withdrawn \in [Versions -> {"new", "old", None}] /\ overtaken \in BOOLEAN
    BY DEF Init
  <2> QED BY <1>1, <2>1, <2>2, <2>3 DEF StoreOK
<1>3. RefreshersOK /\ ListersOK
  BY NoJobs DEF Init, RefreshersOK, ListersOK, RefreshOK, ListOK, RPCs, LPCs
<1> QED BY <1>2, <1>3, TypeSplit

LEMMA TypeStep == TypeInv /\ [Next]_vars => TypeInv'
<1> SUFFICES ASSUME TypeInv, [Next]_vars PROVE TypeInv'
  OBVIOUS
<1>1. StoreOK /\ RefreshersOK /\ ListersOK /\ TypeOK
  BY TypeSplit DEF TypeInv
<1> USE ConstantsAssumption DEF cache, counters, history
<1>2. ASSUME NEW p \in Listers, StartListing(p) PROVE TypeInv'
  <2>1. StoreOK'
    BY <1>1, <1>2 DEF StartListing, StoreOK, FeedOK, IndexOK
  <2>2. RefreshersOK'
    BY <1>1, <1>2, RSame DEF StartListing
  <2>3. ListersOK'
    BY <1>1, <1>2, StartListingMoves, NoJobs, LKept
  <2> QED BY <2>1, <2>2, <2>3, TypeNext
<1>3. ASSUME NEW p \in Listers, List(p) PROVE TypeInv'
  <2>1. StoreOK'
    BY <1>1, <1>3 DEF List, StoreOK, FeedOK, IndexOK
  <2>2. RefreshersOK'
    BY <1>1, <1>3, RSame DEF List
  <2>3. ListersOK'
    BY <1>1, <1>3, ListMoves, NoJobs, LKept
  <2> QED BY <2>1, <2>2, <2>3, TypeNext
<1>4. ASSUME NEW p \in Listers, FetchList(p) PROVE TypeInv'
  <2>1. StoreOK'
    BY <1>1, <1>4 DEF FetchList, StoreOK, FeedOK, IndexOK
  <2>2. RefreshersOK'
    BY <1>1, <1>4, RSame DEF FetchList
  <2>3. ListersOK'
    <3>1. feed \in Feed /\ feed.versions # {}
      BY <1>1 DEF StoreOK, FeedOK
    <3> QED BY <1>1, <1>4, <3>1, FetchListMoves, NoJobs, LKept
  <2> QED BY <2>1, <2>2, <2>3, TypeNext
<1>5. ASSUME NEW p \in Listers, SaveList(p) PROVE TypeInv'
  <2>1. ljob[p].got \in Feed /\ ljob[p].got.versions # {} /\ ljob[p].at \in Ages
    BY <1>1, <1>5 DEF ListersOK, ListOK, SaveList, LJob
  <2>2. index' \in Index /\ IndexOK'
    BY <1>5, <2>1 DEF SaveList, Index, IndexOK
  <2>3. overtaken' \in BOOLEAN
    BY <1>1, <1>5 DEF SaveList, StoreOK, Overtakes
  <2>4. StoreOK'
    BY <1>1, <1>5, <2>2, <2>3 DEF SaveList, StoreOK, FeedOK
  <2>5. RefreshersOK'
    BY <1>1, <1>5, RSame DEF SaveList
  <2>6. ListersOK'
    BY <1>1, <1>5, SaveListMoves, NoJobs, LKept
  <2> QED BY <2>4, <2>5, <2>6, TypeNext
<1>6. ASSUME NEW r \in Refreshers, Spawn(r) PROVE TypeInv'
  <2>1. StoreOK'
    BY <1>1, <1>6 DEF Spawn, StoreOK, FeedOK, IndexOK, Delays
  <2>2. ListersOK'
    BY <1>1, <1>6, LSame DEF Spawn
  <2>3. RefreshersOK'
    BY <1>1, <1>6, SpawnMoves, NoJobs, RKept
  <2> QED BY <2>1, <2>2, <2>3, TypeNext
<1>7. ASSUME NEW r \in Refreshers, RemoveStale(r) PROVE TypeInv'
  <2>1. StoreOK'
    BY <1>1, <1>7 DEF RemoveStale, StoreOK, FeedOK, IndexOK
  <2>2. ListersOK'
    BY <1>1, <1>7, LSame DEF RemoveStale
  <2>3. RefreshersOK'
    BY <1>1, <1>7, RemoveStaleMoves, RPlainStep DEF RemoveStale, RPCs
  <2> QED BY <2>1, <2>2, <2>3, TypeNext
<1>8. ASSUME NEW r \in Refreshers, Relock(r) PROVE TypeInv'
  <2>1. StoreOK'
    BY <1>1, <1>8, RelockMoves DEF Relock, StoreOK, FeedOK, IndexOK, Delays
  <2>2. ListersOK'
    BY <1>1, <1>8, LSame DEF Relock
  <2>3. RefreshersOK'
    <3>1. CASE RMoves(r, "ask", rjob[r])
      BY <1>1, <1>8, <3>1, RPlainStep DEF Relock, RPCs
    <3>2. CASE RMoves(r, "idle", NoRJob)
      BY <1>1, <3>2, RPlain, NoJobs DEF RPCs
    <3> QED BY <1>8, <3>1, <3>2, RelockMoves
  <2> QED BY <2>1, <2>2, <2>3, TypeNext
<1>9. ASSUME NEW r \in Refreshers, Ask(r) PROVE TypeInv'
  <2>1. StoreOK'
    BY <1>1, <1>9 DEF Ask, StoreOK, FeedOK, IndexOK
  <2>2. ListersOK'
    BY <1>1, <1>9, LSame DEF Ask
  <2>3. RefreshersOK'
    <3>1. CASE RMoves(r, "leave", rjob[r])
      BY <1>1, <1>9, <3>1, RPlainStep DEF Ask, RPCs
    <3>2. ASSUME NEW j \in RJob, RMoves(r, "record", j), j.got = None, AnswerOK(j.answer)
          PROVE  RefreshersOK'
      BY <1>1, <3>2, RKept
    <3> QED BY <1>9, <3>1, <3>2, AskMoves
  <2> QED BY <2>1, <2>2, <2>3, TypeNext
<1>10. ASSUME NEW r \in Refreshers, Record(r) PROVE TypeInv'
  <2>1. probe' \in Probe
    BY <1>1, <1>10, RecordProbe, Recorded DEF AnswerOK
  <2>2. StoreOK'
    BY <1>1, <1>10, <2>1 DEF Record, StoreOK, FeedOK, IndexOK
  <2>3. ListersOK'
    BY <1>1, <1>10, LSame DEF Record
  <2>4. RefreshersOK'
    BY <1>1, <1>10, RecordMoves, RPlain DEF RPCs
  <2> QED BY <2>2, <2>3, <2>4, TypeNext
<1>11. ASSUME NEW r \in Refreshers, FetchIndex(r) PROVE TypeInv'
  <2>1. StoreOK'
    BY <1>1, <1>11 DEF FetchIndex, StoreOK, FeedOK, IndexOK
  <2>2. ListersOK'
    BY <1>1, <1>11, LSame DEF FetchIndex
  <2>3. RefreshersOK'
    <3>1. CASE RMoves(r, "leave", rjob[r])
      BY <1>1, <1>11, <3>1, RPlainStep DEF FetchIndex, RPCs
    <3>2. ASSUME NEW j \in RJob, RMoves(r, "save", j), j.answer = None, j.got = feed
          PROVE  RefreshersOK'
      BY <1>1, <3>2, RKept DEF StoreOK, FeedOK
    <3> QED BY <1>11, <3>1, <3>2, FetchIndexMoves
  <2> QED BY <2>1, <2>2, <2>3, TypeNext
<1>12. ASSUME NEW r \in Refreshers, SaveIndex(r) PROVE TypeInv'
  <2>1. rjob[r].got \in Feed /\ rjob[r].got.versions # {} /\ rjob[r].at \in Ages
    BY <1>1, <1>12 DEF RefreshersOK, RefreshOK, SaveIndex, RJob
  <2>2. index' \in Index /\ IndexOK'
    BY <1>12, <2>1 DEF SaveIndex, Index, IndexOK
  <2>3. StoreOK'
    BY <1>1, <1>12, <2>2 DEF SaveIndex, StoreOK, FeedOK
  <2>4. ListersOK'
    BY <1>1, <1>12, LSame DEF SaveIndex
  <2>5. RefreshersOK'
    BY <1>1, <1>12, SaveIndexMoves, RPlain DEF RPCs
  <2> QED BY <2>3, <2>4, <2>5, TypeNext
<1>13. ASSUME NEW r \in Refreshers, ClearPending(r) PROVE TypeInv'
  <2>1. probe' \in Probe \cup {None}
    BY <1>1, <1>13 DEF ClearPending, StoreOK, Probe
  <2>2. StoreOK'
    BY <1>1, <1>13, <2>1 DEF ClearPending, StoreOK, FeedOK, IndexOK
  <2>3. ListersOK'
    BY <1>1, <1>13, LSame DEF ClearPending
  <2>4. RefreshersOK'
    BY <1>1, <1>13, ClearPendingMoves, RPlainStep DEF ClearPending, RPCs
  <2> QED BY <2>2, <2>3, <2>4, TypeNext
<1>14. ASSUME NEW r \in Refreshers, Leave(r) PROVE TypeInv'
  <2>1. StoreOK'
    BY <1>1, <1>14 DEF Leave, StoreOK, FeedOK, IndexOK
  <2>2. ListersOK'
    BY <1>1, <1>14, LSame DEF Leave
  <2>3. RefreshersOK'
    BY <1>1, <1>14, EndMoves, RPlain, NoJobs DEF RPCs
  <2> QED BY <2>1, <2>2, <2>3, TypeNext
<1>15. ASSUME NEW r \in Refreshers, RefreshDies(r) PROVE TypeInv'
  <2>1. StoreOK'
    BY <1>1, <1>15 DEF RefreshDies, Fault, StoreOK, FeedOK, IndexOK
  <2>2. ListersOK'
    BY <1>1, <1>15, LSame DEF RefreshDies
  <2>3. RefreshersOK'
    BY <1>1, <1>15, EndMoves, RPlain, NoJobs DEF RPCs
  <2> QED BY <2>1, <2>2, <2>3, TypeNext
<1>16. ASSUME FeedChanges PROVE TypeInv'
  <2>1. feed' \in Feed /\ FeedOK' /\ changes' \in 0..MaxFeed
    BY <1>1, <1>16 DEF FeedChanges, StoreOK, Feed, Revision, FeedOK
  <2>2. withdrawn' \in [Versions -> {"new", "old", None}]
    BY <1>1, <1>16 DEF FeedChanges, StoreOK
  <2>3. StoreOK'
    BY <1>1, <1>16, <2>1, <2>2 DEF FeedChanges, StoreOK, IndexOK
  <2>4. RefreshersOK' /\ ListersOK'
    BY <1>1, <1>16, RSame, LSame DEF FeedChanges
  <2> QED BY <2>3, <2>4, TypeNext
<1>17. ASSUME NEW day \in BOOLEAN, Pass(day), faults' = faults, overtaken' = overtaken,
              withdrawn' \in [Versions -> {"new", "old", None}]
       PROVE  TypeInv'
  <2>1. \A age \in Ages : Aged(age, day) \in Ages
    BY DEF Aged, Ages
  <2>2. probe' \in Probe \cup {None}
    <3>1. CASE probe = None
      BY <1>17, <3>1 DEF Pass
    <3>2. CASE probe # None
      <4>1. probe \in Probe /\ probe.validated \in Ages
        BY <1>1, <3>2 DEF StoreOK, Probe
      <4>2. probe' = [probe EXCEPT !.attempted = "over", !.validated = Aged(probe.validated, day)]
        BY <1>17, <3>2, <4>1 DEF Pass
      <4> QED BY <2>1, <4>1, <4>2 DEF Probe, Delays
    <3> QED BY <3>1, <3>2
  <2>3. index' \in Index \cup {None} /\ IndexOK'
    <3>1. CASE index = None
      BY <1>17, <3>1 DEF Pass, IndexOK
    <3>2. CASE index # None
      <4>1. index \in Index /\ index.fetched \in Ages
        BY <1>1, <3>2 DEF StoreOK, Index
      <4>2. index' = [index EXCEPT !.fetched = Aged(index.fetched, day)]
        BY <1>17, <3>2, <4>1 DEF Pass
      <4> QED BY <1>1, <2>1, <3>2, <4>1, <4>2 DEF Index, IndexOK, StoreOK
    <3> QED BY <3>1, <3>2
  <2>4. rlock' \in Delays \cup {None}
    BY <1>17 DEF Pass, Delays
  <2>5. UNCHANGED <<feed, changes, lists>>
    BY <1>17 DEF Pass
  <2>6. StoreOK'
    BY <1>1, <1>17, <2>2, <2>3, <2>4, <2>5 DEF StoreOK, FeedOK
  <2>7. RefreshersOK' /\ ListersOK'
    BY <1>17, PassMoves
  <2> QED BY <2>6, <2>7, TypeNext
<1>18. ASSUME AnHourPasses PROVE TypeInv'
  BY <1>1, <1>17, <1>18 DEF AnHourPasses, StoreOK
<1>19. ASSUME ADayPasses PROVE TypeInv'
  <2>1. withdrawn' \in [Versions -> {"new", "old", None}]
    BY <1>1, <1>19 DEF ADayPasses, StoreOK
  <2> QED BY <1>17, <1>19, <2>1 DEF ADayPasses
<1>20. ASSUME UNCHANGED vars PROVE TypeInv'
  <2>1. RefreshersOK' /\ ListersOK'
    BY <1>1, <1>20, RSame, LSame DEF vars
  <2>2. StoreOK'
    BY <1>1, <1>20 DEF vars, StoreOK, FeedOK, IndexOK
  <2> QED BY <2>1, <2>2, TypeNext
<1> QED BY <1>2, <1>3, <1>4, <1>5, <1>6, <1>7, <1>8, <1>9, <1>10, <1>11, <1>12, <1>13,
           <1>14, <1>15, <1>16, <1>18, <1>19, <1>20 DEF Next, LStep, RStep

\* Every variable keeps its type, and a listing that is saved is one: of the files
\* in ~/.ovm/cache, the lock file and the locals of all processes.
THEOREM TypeCorrect == Spec => []TypeOK
<1>1. TypeInv => TypeOK
  BY DEF TypeInv
<1> QED BY <1>1, TypeInit, TypeStep, PTL DEF Spec

-----------------------------------------------------------------------------
(* The cached listing is current.  Whoever works has the lock to itself,    *)
(* until a lock is lost; what it holds was on the registry's list; and the  *)
(* mark of the probe stands from the answer that found the listing changed  *)
(* to the save of one at least as new.                                      *)

\* The listings that a file or a process holds.
Holds(L) ==
  \/ index # None /\ L = index.listing
  \/ \E p \in Listers : ljob[p].got = L
  \/ \E r \in Refreshers : rjob[r].got = L
  \/ \E r \in Refreshers : /\ rjob[r].answer # None /\ rjob[r].answer.kind = "changed"
                           /\ rjob[r].answer.is = L

Listed(L) == L.rev <= feed.rev /\ (L.rev = feed.rev => L = feed)
HeldOK == \A L \in Feed : Holds(L) => Listed(L)

ProbeOK ==
  probe # None =>
    /\ probe.rev # None => probe.rev <= feed.rev
    /\ probe.rev = None <=> probe.latest = None
    /\ probe.pending => probe.rev # None

LockOK ==
  ~ overtaken =>
    /\ \A r \in Refreshers : rpc[r] \in Working => rlock # None
    /\ \A r, q \in Refreshers : rpc[r] \in Working /\ rpc[q] \in Working => r = q

Marked == probe # None /\ probe.rev # None /\ probe.pending
IndexSees == index # None /\ index.listing.rev >= probe.rev

MarkOK(r) ==
  /\ rpc[r] \in {"fetch", "save", "clean"} => Marked
  /\ rpc[r] = "save"  => rjob[r].got.rev >= probe.rev
  /\ rpc[r] = "clean" => IndexSees

CleanOK ==
  ~ overtaken =>
    /\ probe # None /\ probe.rev # None /\ ~ probe.pending => IndexSees
    /\ \A r \in Refreshers : MarkOK(r)

CleanInv == TypeInv /\ HeldOK /\ ProbeOK /\ LockOK /\ CleanOK

\* A step takes up nothing but what the registry lists now.
TakesUpFeed == \A L \in Feed : Holds(L)' => Holds(L) \/ L = feed

LEMMA HeldKept ==
  ASSUME TypeInv, HeldOK, UNCHANGED feed, TakesUpFeed PROVE HeldOK'
<1>1. feed \in Feed /\ feed.rev \in Nat
  BY ConstantsAssumption DEF TypeInv, TypeOK, Feed, Revision
<1>2. Listed(feed)
  BY <1>1 DEF Listed
<1>3. ASSUME NEW L \in Feed, Holds(L)' PROVE Listed(L)'
  <2>1. Listed(L)
    BY <1>2, <1>3 DEF TakesUpFeed, HeldOK
  <2> QED BY <2>1 DEF Listed
<1> QED BY <1>3 DEF HeldOK

LEMMA LTakes ==
  ASSUME TypeInv, NEW p \in Listers, NEW l, NEW j, LMoves(p, l, j), j.got \in {None, feed},
         UNCHANGED refresh,
         index' = index \/ (index' # None /\ Holds(index'.listing))
  PROVE  TakesUpFeed
<1> SUFFICES ASSUME NEW L \in Feed, Holds(L)' PROVE Holds(L) \/ L = feed
  BY DEF TakesUpFeed
<1>1. CASE index' # None /\ L = index'.listing
  BY <1>1 DEF Holds
<1>2. CASE \E q \in Listers : ljob'[q].got = L
  BY <1>2, NoneAssumption DEF LMoves, Holds
<1>3. CASE \/ \E r \in Refreshers : rjob'[r].got = L
           \/ \E r \in Refreshers : /\ rjob'[r].answer # None /\ rjob'[r].answer.kind = "changed"
                                    /\ rjob'[r].answer.is = L
  BY <1>3 DEF refresh, Holds
<1> QED BY <1>1, <1>2, <1>3 DEF Holds

LEMMA RTakes ==
  ASSUME TypeInv, NEW r \in Refreshers, NEW l, NEW j, RMoves(r, l, j), UNCHANGED commands,
         j.got \in {None, feed, rjob[r].got},
         \/ j.answer = rjob[r].answer \/ j.answer = None
         \/ j.answer.kind = "changed" => j.answer.is = feed,
         index' = index \/ (index' # None /\ Holds(index'.listing))
  PROVE  TakesUpFeed
<1> SUFFICES ASSUME NEW L \in Feed, Holds(L)' PROVE Holds(L) \/ L = feed
  BY DEF TakesUpFeed
<1>1. CASE index' # None /\ L = index'.listing
  BY <1>1 DEF Holds
<1>2. CASE \E q \in Listers : ljob'[q].got = L
  BY <1>2 DEF commands, Holds
<1>3. CASE \E q \in Refreshers : rjob'[q].got = L
  BY <1>3, NoneAssumption DEF RMoves, Holds
<1>4. CASE \E q \in Refreshers : /\ rjob'[q].answer # None /\ rjob'[q].answer.kind = "changed"
                                 /\ rjob'[q].answer.is = L
  BY <1>4 DEF RMoves, Holds
<1> QED BY <1>1, <1>2, <1>3, <1>4 DEF Holds

LEMMA SameTakes ==
  ASSUME UNCHANGED <<index, refresh, commands>> PROVE TakesUpFeed
BY DEF TakesUpFeed, Holds, refresh, commands

LEMMA SavedIndex ==
  ASSUME NEW L \in Feed, NEW age \in Ages
  PROVE  LET n == [listing |-> L, fetched |-> age]
         IN  n \in Index /\ n # None /\ n.listing = L /\ n.fetched = age
BY NoneAssumption DEF Index

LEMMA RefreshKeepsHeld ==
  ASSUME TypeInv, HeldOK, NEW r \in Refreshers, RStep(r) \/ Spawn(r) \/ RefreshDies(r)
  PROVE  HeldOK' /\ TakesUpFeed /\ UNCHANGED feed
<1> USE DEF cache, counters, history
<1>1. UNCHANGED <<feed, commands>>
  BY DEF RStep, Spawn, RefreshDies, RemoveStale, Relock, Ask, Record, FetchIndex,
         SaveIndex, ClearPending, Leave
<1>2. CASE Spawn(r)
  BY <1>1, <1>2, SpawnMoves, NoJobs, RTakes, HeldKept DEF Spawn
<1>3. CASE RemoveStale(r)
  BY <1>1, <1>3, RemoveStaleMoves, RTakes, HeldKept DEF RemoveStale
<1>4. CASE Relock(r)
  BY <1>1, <1>4, RelockMoves, NoJobs, RTakes, HeldKept DEF Relock
<1>5. CASE Ask(r)
  <2>1. CASE RMoves(r, "leave", rjob[r])
    BY <1>1, <1>5, <2>1, RTakes, HeldKept DEF Ask
  <2>2. ASSUME NEW j \in RJob, RMoves(r, "record", j), j.got = None,
               j.answer.kind = "changed" => j.answer.is = feed
        PROVE  HeldOK' /\ TakesUpFeed
    BY <1>1, <1>5, <2>2, RTakes, HeldKept DEF Ask
  <2> QED BY <1>1, <1>5, <2>1, <2>2, AskMoves
<1>6. CASE Record(r)
  <2>1. PICK j \in RJob, l \in {"fetch", "leave"} :
          RMoves(r, l, j) /\ j.answer = None /\ j.got = None
    BY <1>6, RecordMoves
  <2> QED BY <1>1, <1>6, <2>1, RTakes, HeldKept DEF Record
<1>7. CASE FetchIndex(r)
  <2>1. CASE RMoves(r, "leave", rjob[r])
    BY <1>1, <1>7, <2>1, RTakes, HeldKept DEF FetchIndex
  <2>2. ASSUME NEW j \in RJob, RMoves(r, "save", j), j.answer = None, j.got = feed
        PROVE  HeldOK' /\ TakesUpFeed
    BY <1>1, <1>7, <2>2, RTakes, HeldKept DEF FetchIndex
  <2> QED BY <1>1, <1>7, <2>1, <2>2, FetchIndexMoves
<1>8. CASE SaveIndex(r)
  <2>1. PICK j \in RJob : RMoves(r, "clean", j) /\ j.answer = None /\ j.got = None
    BY <1>8, SaveIndexMoves
  <2>2. index' # None /\ Holds(index'.listing)
    <3>1. rjob[r].got \in Feed /\ index' = [listing |-> rjob[r].got, fetched |-> rjob[r].at]
      BY <1>8 DEF SaveIndex, TypeInv, RefreshOK
    <3>2. index' # None /\ index'.listing = rjob[r].got
      BY <1>8, <3>1, SavedIndex DEF SaveIndex, TypeInv, TypeOK, RJob
    <3> QED BY <3>1, <3>2 DEF Holds
  <2> QED BY <1>1, <2>1, <2>2, RTakes, HeldKept
<1>9. CASE ClearPending(r)
  BY <1>1, <1>9, ClearPendingMoves, RTakes, HeldKept DEF ClearPending
<1>10. CASE Leave(r) \/ RefreshDies(r)
  BY <1>1, <1>10, EndMoves, NoJobs, RTakes, HeldKept DEF Leave, RefreshDies
<1> QED BY <1>1, <1>2, <1>3, <1>4, <1>5, <1>6, <1>7, <1>8, <1>9, <1>10 DEF RStep

LEMMA ListerKeepsHeld ==
  ASSUME TypeInv, HeldOK, NEW p \in Listers, StartListing(p) \/ LStep(p)
  PROVE  HeldOK' /\ TakesUpFeed /\ UNCHANGED feed
<1> USE DEF cache, counters, history
<1>1. UNCHANGED <<feed, refresh>>
  BY DEF LStep, StartListing, List, FetchList, SaveList
<1>2. CASE StartListing(p)
  BY <1>1, <1>2, StartListingMoves, NoJobs, LTakes, HeldKept DEF StartListing
<1>3. CASE List(p)
  BY <1>1, <1>3, ListMoves, NoJobs, LTakes, HeldKept DEF List
<1>4. CASE FetchList(p)
  BY <1>1, <1>4, FetchListMoves, NoJobs, LTakes, HeldKept DEF FetchList
<1>5. CASE SaveList(p)
  <2>1. ljob[p].got \in Feed /\ index' = [listing |-> ljob[p].got, fetched |-> ljob[p].at]
    BY <1>5 DEF SaveList, TypeInv, ListOK
  <2>2. index' # None /\ index'.listing = ljob[p].got
    BY <1>5, <2>1, SavedIndex DEF SaveList, TypeInv, TypeOK, LJob
  <2>3. index' # None /\ Holds(index'.listing)
    BY <2>2 DEF Holds
  <2> QED BY <1>1, <1>5, <2>3, SaveListMoves, NoJobs, LTakes, HeldKept
<1> QED BY <1>1, <1>2, <1>3, <1>4, <1>5 DEF LStep

LEMMA FeedKeepsHeld ==
  ASSUME TypeInv, HeldOK, FeedChanges
  PROVE  HeldOK' /\ feed'.rev > feed.rev /\ (\A L \in Feed : Holds(L)' <=> Holds(L))
<1>1. feed'.rev = feed.rev + 1 /\ feed.rev \in Nat
  BY ConstantsAssumption DEF FeedChanges, TypeInv, TypeOK, Feed, Revision
<1>2. \A L \in Feed : Holds(L)' <=> Holds(L)
  BY DEF FeedChanges, cache, refresh, commands, Holds
<1>3. \A L \in Feed : Listed(L) => Listed(L)'
  BY <1>1 DEF Listed, Feed, Revision
<1> QED BY <1>1, <1>2, <1>3 DEF HeldOK

\* What time leaves of the files.
LEMMA PassFiles ==
  ASSUME TypeInv, NEW day \in BOOLEAN, Pass(day)
  PROVE  /\ UNCHANGED feed
         /\ probe = None => probe' = None
         /\ probe # None => /\ probe' # None /\ probe'.rev = probe.rev
                            /\ probe'.latest = probe.latest /\ probe'.pending = probe.pending
                            /\ probe'.validated = Aged(probe.validated, day)
         /\ index = None => index' = None
         /\ index # None => /\ index' # None /\ index'.listing = index.listing
                            /\ index'.fetched = Aged(index.fetched, day)
         /\ rlock' = None <=> rlock = None
<1>1. \A age \in Ages : Aged(age, day) \in Ages
  BY DEF Aged, Ages
<1>2. probe # None => /\ probe' # None /\ probe'.rev = probe.rev
                      /\ probe'.latest = probe.latest /\ probe'.pending = probe.pending
                      /\ probe'.validated = Aged(probe.validated, day)
  <2> SUFFICES ASSUME probe # None
               PROVE  /\ probe' # None /\ probe'.rev = probe.rev
                      /\ probe'.latest = probe.latest /\ probe'.pending = probe.pending
                      /\ probe'.validated = Aged(probe.validated, day)
    OBVIOUS
  <2>1. probe \in Probe /\ probe.validated \in Ages
    BY DEF TypeInv, TypeOK, Probe
  <2>2. probe' = [probe EXCEPT !.attempted = "over", !.validated = Aged(probe.validated, day)]
    BY <2>1 DEF Pass
  <2>3. probe' \in Probe
    BY <1>1, <2>1, <2>2 DEF Probe, Delays
  <2> QED BY <2>1, <2>2, <2>3, NoneAssumption DEF Probe
<1>3. index # None => /\ index' # None /\ index'.listing = index.listing
                      /\ index'.fetched = Aged(index.fetched, day)
  <2> SUFFICES ASSUME index # None
               PROVE  /\ index' # None /\ index'.listing = index.listing
                      /\ index'.fetched = Aged(index.fetched, day)
    OBVIOUS
  <2>1. index \in Index /\ index.fetched \in Ages
    BY DEF TypeInv, TypeOK, Index
  <2>2. index' = [index EXCEPT !.fetched = Aged(index.fetched, day)]
    BY <2>1 DEF Pass
  <2>3. index' \in Index
    BY <1>1, <2>1, <2>2 DEF Index
  <2> QED BY <2>1, <2>2, <2>3, NoneAssumption DEF Index
<1>4. UNCHANGED feed /\ (probe = None => probe' = None) /\ (index = None => index' = None)
  BY DEF Pass
<1>5. rlock' = None <=> rlock = None
  BY ConstantsAssumption DEF Pass
<1> QED BY <1>2, <1>3, <1>4, <1>5

LEMMA PassKeepsHeld ==
  ASSUME TypeInv, HeldOK, NEW day \in BOOLEAN, Pass(day)
  PROVE  HeldOK' /\ TakesUpFeed
<1>1. TakesUpFeed
  <2> SUFFICES ASSUME NEW L \in Feed, Holds(L)' PROVE Holds(L) \/ L = feed
    BY DEF TakesUpFeed
  <2> QED BY PassMoves, PassFiles DEF Holds
<1>2. UNCHANGED feed
  BY PassFiles
<1> QED BY <1>1, <1>2, HeldKept

-----------------------------------------------------------------------------
\* The lock while one process moves within its work, or out of it.
LEMMA LockKept ==
  ASSUME LockOK, NEW r \in Refreshers, NEW l, NEW j, RMoves(r, l, j),
         l \in Working => rpc[r] \in Working,
         UNCHANGED <<rlock, overtaken>>
  PROVE  LockOK'
BY DEF LockOK, RMoves

LEMMA LockSame ==
  ASSUME LockOK, rpc' = rpc, rlock' = None <=> rlock = None, overtaken' = FALSE => overtaken = FALSE,
         overtaken \in BOOLEAN, overtaken' \in BOOLEAN
  PROVE  LockOK'
BY DEF LockOK

LEMMA RefreshKeepsLock ==
  ASSUME TypeInv, TypeInv', LockOK, NEW r \in Refreshers, RStep(r) \/ Spawn(r) \/ RefreshDies(r)
  PROVE  LockOK'
<1> USE DEF Working, cache, counters, history
<1>1. overtaken \in BOOLEAN /\ overtaken' \in BOOLEAN
  BY DEF TypeInv, TypeOK
<1>2. CASE Spawn(r)
  <2>1. CASE rlock = None
    <3>1. rlock' = "running" /\ rlock' # None /\ overtaken' = overtaken /\ RMoves(r, "ask", NoRJob)
      BY <1>2, <2>1, SpawnMoves, ConstantsAssumption DEF Spawn
    <3> QED BY <2>1, <3>1 DEF LockOK, RMoves
  <2>2. CASE rlock # None
    BY <1>2, <2>2, SpawnMoves, LockKept DEF Spawn
  <2> QED BY <2>1, <2>2
<1>3. CASE RemoveStale(r)
  <2>1. RMoves(r, "relock", rjob[r])
    BY <1>3, RemoveStaleMoves
  <2>2. ~ overtaken' => ~ overtaken /\ \A q \in Refreshers : rpc[q] \notin Working
    BY <1>3 DEF RemoveStale
  <2> QED BY <2>1, <2>2 DEF LockOK, RMoves
<1>4. CASE Relock(r)
  <2>1. UNCHANGED overtaken /\ rpc[r] = "relock"
    BY <1>4 DEF Relock
  <2>2. CASE rlock = None /\ rlock' = "running" /\ RMoves(r, "ask", rjob[r])
    BY <2>1, <2>2, ConstantsAssumption DEF LockOK, RMoves
  <2>3. CASE UNCHANGED rlock /\ RMoves(r, "idle", NoRJob)
    BY <2>1, <2>3, LockKept
  <2> QED BY <1>4, <2>2, <2>3, RelockMoves
<1>5. CASE Ask(r)
  <2>1. \E l \in RPCs, j \in RJob : RMoves(r, l, j)
    BY <1>5, AskMoves DEF RPCs, TypeInv, TypeOK
  <2> QED BY <1>5, <2>1, LockKept DEF Ask
<1>6. CASE Record(r)
  <2>1. PICK j \in RJob, l \in {"fetch", "leave"} : RMoves(r, l, j)
    BY <1>6, RecordMoves
  <2> QED BY <1>6, <2>1, LockKept DEF Record
<1>7. CASE FetchIndex(r)
  <2>1. \E l \in RPCs, j \in RJob : RMoves(r, l, j)
    BY <1>7, FetchIndexMoves DEF RPCs, TypeInv, TypeOK
  <2> QED BY <1>7, <2>1, LockKept DEF FetchIndex
<1>8. CASE SaveIndex(r)
  BY <1>8, SaveIndexMoves, LockKept DEF SaveIndex
<1>9. CASE ClearPending(r)
  BY <1>9, ClearPendingMoves, LockKept DEF ClearPending
<1>10. CASE Leave(r)
  <2>1. RMoves(r, "idle", NoRJob) /\ rpc[r] = "leave" /\ overtaken' = overtaken
    BY <1>10, EndMoves DEF Leave
  <2> QED BY <2>1 DEF LockOK, RMoves
<1>11. CASE RefreshDies(r)
  BY <1>11, EndMoves, LockKept DEF RefreshDies
<1> QED BY <1>2, <1>3, <1>4, <1>5, <1>6, <1>7, <1>8, <1>9, <1>10, <1>11 DEF RStep

-----------------------------------------------------------------------------
\* The mark and the listing while nothing of the probe's state changes.
LEMMA CleanKept ==
  ASSUME CleanOK, NEW r \in Refreshers, NEW l, NEW j, RMoves(r, l, j),
         UNCHANGED <<probe, index>>, ~ overtaken' => ~ overtaken,
         l \in {"fetch", "save", "clean"} => MarkOK(r) /\ rpc[r] = l /\ j = rjob[r]
  PROVE  CleanOK'
BY DEF CleanOK, MarkOK, Marked, IndexSees, RMoves

LEMMA CleanSame ==
  ASSUME CleanOK, UNCHANGED <<probe, index, refresh>>, ~ overtaken' => ~ overtaken
  PROVE  CleanOK'
BY DEF CleanOK, MarkOK, Marked, IndexSees, refresh

LEMMA RecordKeepsClean ==
  ASSUME CleanInv, NEW r \in Refreshers, Record(r)
  PROVE  ProbeOK' /\ CleanOK'
<1> DEFINE a == rjob[r].answer
<1>1. TypeOK /\ UNCHANGED <<feed, index, overtaken>> /\ rpc[r] = "record"
  BY DEF CleanInv, TypeInv, Record, history
<1>2. PICK j \in RJob, l \in {"fetch", "leave"} :
        /\ RMoves(r, l, j)
        /\ l = "fetch" <=> a.kind # "none" /\ probe'.pending
  BY RecordMoves DEF CleanInv
<1>3. AnswerOK(a) /\ rjob[r].at \in Ages
      /\ \/ a.kind = "none" /\ probe' = RecordFailure
         \/ a.kind = "unchanged" /\ probe' = RecordUnchanged(rjob[r].at)
         \/ a.kind = "changed" /\ probe' = RecordChanged(rjob[r].at, a.is)
  BY RecordProbe DEF CleanInv
<1>4. Previous \in Probe /\ (probe # None => Previous = probe)
      /\ (probe = None => Previous.rev = None /\ Previous.latest = None /\ Previous.pending = FALSE)
  BY <1>1, PreviousType
<1>5. a # None
  BY <1>3, NoneAssumption DEF AnswerOK
<1>6. /\ probe' # None /\ probe' \in Probe
      /\ \/ /\ probe'.rev = Previous.rev /\ probe'.pending = Previous.pending
            /\ probe'.latest = Previous.latest
         \/ /\ a.kind = "changed" /\ a.is \in Feed /\ probe'.rev = a.is.rev
            /\ probe'.latest # None
            /\ probe'.pending = (Previous.pending \/ Previous.rev # a.is.rev)
  <2>1. CASE a.kind = "none" /\ probe' = RecordFailure
    BY <1>1, <1>3, <2>1, Recorded, NoneAssumption
  <2>2. CASE a.kind = "unchanged" /\ probe' = RecordUnchanged(rjob[r].at)
    BY <1>1, <1>3, <2>2, Recorded, NoneAssumption
  <2>3. CASE a.kind = "changed" /\ probe' = RecordChanged(rjob[r].at, a.is)
    <3>1. a.is \in Feed /\ a.is.versions # {}
      BY <1>3, <2>3 DEF AnswerOK
    <3>2. LET n == RecordChanged(rjob[r].at, a.is)
          IN  /\ n \in Probe /\ n.rev = a.is.rev
              /\ n.pending = (Previous.pending \/ Previous.rev # a.is.rev)
              /\ n.latest \in a.is.versions
      BY <1>1, <1>3, <3>1, Recorded
    <3>3. None \notin a.is.versions
      BY <3>1, ConstantsAssumption DEF Feed
    <3> QED BY <2>3, <3>1, <3>2, <3>3, NoneAssumption
  <2> QED BY <1>3, <2>1, <2>2, <2>3
<1>7. a.kind = "changed" /\ a.is \in Feed => Listed(a.is) /\ a.is.rev # None
  <2>1. \A L \in Feed : L.rev # None
    BY ConstantsAssumption DEF Feed, Revision
  <2> QED BY <1>5, <2>1 DEF CleanInv, HeldOK, Holds
<1>8. ProbeOK'
  BY <1>1, <1>4, <1>6, <1>7 DEF CleanInv, ProbeOK, Listed
<1>9. ASSUME ~ overtaken, probe'.rev # None, ~ probe'.pending PROVE IndexSees'
  <2>1. probe # None /\ probe.rev # None /\ ~ probe.pending /\ probe'.rev = probe.rev
    <3>1. probe'.rev = Previous.rev /\ ~ Previous.pending
      BY <1>4, <1>6, <1>9 DEF Probe
    <3> QED BY <1>4, <1>9, <3>1
  <2>2. IndexSees
    BY <1>9, <2>1 DEF CleanInv, CleanOK
  <2> QED BY <1>1, <2>1, <2>2 DEF IndexSees
<1>10. ASSUME ~ overtaken, NEW q \in Refreshers PROVE MarkOK(q)'
  <2>1. CASE q = r
    BY <1>2, <1>6, <1>8, <2>1 DEF MarkOK, Marked, RMoves, ProbeOK
  <2>2. CASE q # r
    <3>1. rpc'[q] = rpc[q] /\ rpc[q] \notin Working
      BY <1>1, <1>2, <1>10, <2>2 DEF CleanInv, LockOK, RMoves, Working
    <3> QED BY <3>1 DEF MarkOK, Working
  <2> QED BY <2>1, <2>2
<1> QED BY <1>1, <1>6, <1>8, <1>9, <1>10 DEF CleanOK

LEMMA RefreshKeepsClean ==
  ASSUME CleanInv, NEW r \in Refreshers, RStep(r) \/ Spawn(r) \/ RefreshDies(r)
  PROVE  ProbeOK' /\ CleanOK'
<1> USE DEF cache, counters, history
<1>1. TypeInv /\ ProbeOK /\ CleanOK /\ LockOK
  BY DEF CleanInv
<1>2. CASE Spawn(r)
  BY <1>1, <1>2, SpawnMoves, CleanKept DEF Spawn, ProbeOK
<1>3. CASE RemoveStale(r)
  <2>1. overtaken \in BOOLEAN
    BY <1>1 DEF TypeInv, TypeOK
  <2> QED BY <1>1, <1>3, <2>1, RemoveStaleMoves, CleanKept DEF RemoveStale, ProbeOK
<1>4. CASE Relock(r)
  BY <1>1, <1>4, RelockMoves, CleanKept DEF Relock, ProbeOK
<1>5. CASE Ask(r)
  <2>1. \E l \in {"leave", "record"}, j \in RJob : RMoves(r, l, j)
    BY <1>1, <1>5, AskMoves DEF TypeInv, TypeOK
  <2> QED BY <1>1, <1>5, <2>1, CleanKept DEF Ask, ProbeOK
<1>6. CASE Record(r)
  BY <1>6, RecordKeepsClean
<1>7. CASE FetchIndex(r)
  <2>1. ProbeOK' /\ UNCHANGED <<feed, probe, index, overtaken>> /\ rpc[r] = "fetch"
    BY <1>1, <1>7 DEF FetchIndex, ProbeOK
  <2>2. CASE RMoves(r, "leave", rjob[r])
    BY <1>1, <2>1, <2>2, CleanKept
  <2>3. ASSUME NEW j \in RJob, RMoves(r, "save", j), j.got = feed PROVE CleanOK'
    <3>1. feed.rev \in Nat /\ (probe # None /\ probe.rev # None => probe.rev <= feed.rev)
      BY <1>1, ConstantsAssumption DEF TypeInv, TypeOK, Feed, Revision, ProbeOK
    <3>2. ~ overtaken => MarkOK(r)
      BY <1>1 DEF CleanOK
    <3> QED BY <1>1, <2>1, <2>3, <3>1, <3>2 DEF CleanOK, MarkOK, Marked, IndexSees, RMoves
  <2> QED BY <1>1, <1>7, <2>1, <2>2, <2>3, FetchIndexMoves
<1>8. CASE SaveIndex(r)
  <2>1. ProbeOK' /\ UNCHANGED <<feed, probe, overtaken>> /\ rpc[r] = "save"
    BY <1>1, <1>8 DEF SaveIndex, ProbeOK
  <2>2. PICK j \in RJob : RMoves(r, "clean", j)
    BY <1>1, <1>8, SaveIndexMoves
  <2>3. index' # None /\ index'.listing = rjob[r].got
    <3>1. rjob[r].got \in Feed /\ rjob[r].at \in Ages
      BY <1>1, <2>1 DEF TypeInv, TypeOK, RefreshOK, RJob
    <3> QED BY <1>8, <3>1, SavedIndex DEF SaveIndex
  <2>4. ~ overtaken => MarkOK(r) /\ \A q \in Refreshers \ {r} : rpc[q] \notin Working
    BY <1>1, <2>1 DEF CleanOK, LockOK, Working
  <2>5. ~ overtaken => Marked /\ IndexSees'
    BY <2>1, <2>3, <2>4 DEF MarkOK, IndexSees
  <2>6. ~ overtaken => \A q \in Refreshers : MarkOK(q)'
    BY <2>1, <2>2, <2>4, <2>5 DEF MarkOK, Marked, RMoves, Working
  <2> QED BY <2>1, <2>5, <2>6 DEF CleanOK, Marked
<1>9. CASE ClearPending(r)
  <2>1. UNCHANGED <<feed, index, overtaken>> /\ rpc[r] = "clean" /\ RMoves(r, "leave", rjob[r])
    BY <1>1, <1>9, ClearPendingMoves DEF ClearPending
  <2>2. probe = None => probe' = None
    BY <1>9 DEF ClearPending
  <2>3. probe # None => /\ probe' # None /\ probe'.rev = probe.rev /\ probe'.latest = probe.latest
                        /\ ~ probe'.pending
    <3> SUFFICES ASSUME probe # None
                 PROVE  /\ probe' # None /\ probe'.rev = probe.rev /\ probe'.latest = probe.latest
                        /\ ~ probe'.pending
      OBVIOUS
    <3>1. probe \in Probe /\ probe' = [probe EXCEPT !.pending = FALSE]
      BY <1>1, <1>9 DEF ClearPending, TypeInv, TypeOK
    <3>2. probe' \in Probe
      BY <3>1 DEF Probe
    <3> QED BY <3>1, <3>2, NoneAssumption DEF Probe
  <2>4. ProbeOK'
    BY <1>1, <2>1, <2>2, <2>3 DEF ProbeOK
  <2>5. ~ overtaken => IndexSees /\ \A q \in Refreshers \ {r} : rpc[q] \notin Working
    BY <1>1, <2>1 DEF CleanOK, MarkOK, LockOK, Working
  <2>6. ~ overtaken => \A q \in Refreshers : MarkOK(q)'
    BY <2>1, <2>5 DEF MarkOK, RMoves, Working
  <2> QED BY <2>1, <2>2, <2>3, <2>4, <2>5, <2>6 DEF CleanOK, IndexSees
<1>10. CASE Leave(r) \/ RefreshDies(r)
  BY <1>1, <1>10, EndMoves, CleanKept DEF Leave, RefreshDies, ProbeOK
<1> QED BY <1>2, <1>3, <1>4, <1>5, <1>6, <1>7, <1>8, <1>9, <1>10 DEF RStep

LEMMA ListerKeepsClean ==
  ASSUME CleanInv, NEW p \in Listers, StartListing(p) \/ LStep(p)
  PROVE  ProbeOK' /\ LockOK' /\ CleanOK'
<1> USE DEF cache, counters, history
<1>1. TypeInv /\ ProbeOK /\ CleanOK /\ LockOK /\ overtaken \in BOOLEAN
  BY DEF CleanInv, TypeInv, TypeOK
<1>2. UNCHANGED <<feed, probe, rlock, refresh>> /\ (~ overtaken' => ~ overtaken)
  BY <1>1 DEF LStep, StartListing, List, FetchList, SaveList
<1>3. ProbeOK'
  BY <1>1, <1>2 DEF ProbeOK
<1>4. LockOK'
  BY <1>1, <1>2 DEF LockOK, refresh
<1>5. CASE UNCHANGED index
  BY <1>1, <1>2, <1>3, <1>4, <1>5, CleanSame
<1>6. CASE SaveList(p)
  <2>1. index' # None /\ index'.listing = ljob[p].got /\ ljob[p].got \in Feed
    <3>1. ljob[p].got \in Feed /\ ljob[p].at \in Ages
      BY <1>1, <1>6 DEF SaveList, TypeInv, TypeOK, ListOK, LJob
    <3> QED BY <1>6, <3>1, SavedIndex DEF SaveList
  <2>2. ~ overtaken' => ~ Overtakes(ljob[p].got)
    BY <1>6 DEF SaveList
  <2>3. probe # None /\ probe.rev # None => probe.rev \in Nat /\ ljob[p].got.rev \in Nat
    BY <1>1, <2>1, ConstantsAssumption DEF TypeInv, TypeOK, Probe, Feed, Revision
  <2>4. ~ overtaken' /\ probe # None /\ probe.rev # None => IndexSees'
    BY <1>2, <2>1, <2>2, <2>3 DEF Overtakes, IndexSees
  <2>5. ~ overtaken' => \A q \in Refreshers : MarkOK(q)'
    BY <1>1, <1>2, <2>4 DEF CleanOK, MarkOK, Marked, refresh
  <2> QED BY <1>2, <1>3, <1>4, <2>4, <2>5 DEF CleanOK
<1> QED BY <1>5, <1>6 DEF LStep, StartListing, List, FetchList

LEMMA PassKeepsClean ==
  ASSUME CleanInv, NEW day \in BOOLEAN, Pass(day), UNCHANGED overtaken
  PROVE  ProbeOK' /\ LockOK' /\ CleanOK'
<1>1. TypeInv /\ ProbeOK /\ CleanOK /\ LockOK /\ overtaken \in BOOLEAN
  BY DEF CleanInv, TypeInv, TypeOK
<1>2. ProbeOK'
  BY <1>1, PassFiles DEF ProbeOK
<1>3. LockOK'
  BY <1>1, PassFiles, PassMoves, LockSame
<1>4. CleanOK'
  BY <1>1, PassFiles, PassMoves DEF CleanOK, MarkOK, Marked, IndexSees
<1> QED BY <1>2, <1>3, <1>4

LEMMA CleanInit == Init => CleanInv
<1> SUFFICES ASSUME Init PROVE CleanInv
  OBVIOUS
<1>1. TypeInv
  BY TypeInit
<1>2. HeldOK
  BY NoJobs, NoneAssumption DEF Init, HeldOK, Holds
<1>3. ProbeOK /\ LockOK /\ CleanOK
  BY DEF Init, ProbeOK, LockOK, CleanOK, MarkOK, Working
<1> QED BY <1>1, <1>2, <1>3 DEF CleanInv

LEMMA CleanStep == CleanInv /\ [Next]_vars => CleanInv' /\ (TakesUpFeed \/ FeedChanges)
<1> SUFFICES ASSUME CleanInv, [Next]_vars PROVE CleanInv' /\ (TakesUpFeed \/ FeedChanges)
  OBVIOUS
<1>1. TypeInv /\ HeldOK /\ LockOK /\ TypeInv' /\ ProbeOK /\ CleanOK
  BY TypeStep DEF CleanInv
<1>2. CASE \E p \in Listers : StartListing(p) \/ LStep(p)
  BY <1>1, <1>2, ListerKeepsHeld, ListerKeepsClean DEF CleanInv
<1>3. CASE \E r \in Refreshers : Spawn(r) \/ RStep(r) \/ RefreshDies(r)
  BY <1>1, <1>3, RefreshKeepsHeld, RefreshKeepsLock, RefreshKeepsClean DEF CleanInv
<1>4. CASE FeedChanges
  <2>1. HeldOK' /\ feed'.rev > feed.rev
    BY <1>1, <1>4, FeedKeepsHeld
  <2>2. UNCHANGED <<probe, index, rlock, refresh, overtaken>>
    BY <1>4 DEF FeedChanges, cache
  <2>3. feed.rev \in Nat /\ feed'.rev \in Nat
        /\ (probe # None /\ probe.rev # None => probe.rev \in Nat)
    BY <1>1, ConstantsAssumption DEF TypeInv, TypeOK, Feed, Revision, Probe
  <2>4. ProbeOK'
    BY <1>1, <2>1, <2>2, <2>3 DEF ProbeOK
  <2>5. LockOK' /\ CleanOK'
    BY <1>1, <2>2, CleanSame DEF LockOK, refresh
  <2> QED BY <1>1, <1>4, <2>1, <2>4, <2>5 DEF CleanInv
<1>5. CASE AnHourPasses
  BY <1>1, <1>5, PassKeepsHeld, PassKeepsClean DEF AnHourPasses, history, CleanInv
<1>6. CASE ADayPasses
  BY <1>1, <1>6, PassKeepsHeld, PassKeepsClean DEF ADayPasses, CleanInv
<1>7. CASE UNCHANGED vars
  <2>1. UNCHANGED <<feed, probe, index, rlock, overtaken>> /\ UNCHANGED refresh /\ UNCHANGED commands
    BY <1>7 DEF vars, cache, history
  <2>2. HeldOK' /\ TakesUpFeed
    BY <1>1, <2>1, SameTakes, HeldKept
  <2>3. ProbeOK' /\ LockOK' /\ CleanOK'
    BY <1>1, <2>1, CleanSame DEF ProbeOK, LockOK, refresh
  <2> QED BY <1>1, <2>2, <2>3 DEF CleanInv
<1> QED BY <1>2, <1>3, <1>4, <1>5, <1>6, <1>7 DEF Next

\* A listing that the probe found changed stays marked until one at least as new
\* has been saved, for any number of background refreshes and terminals, whatever
\* dies: record_latest_probe_modified, record_index_refresh_success.
THEOREM CleanCorrect == Spec => []CleanIndexIsCurrent
<1>1. CleanInv => CleanIndexIsCurrent
  BY DEF CleanInv, CleanOK, IndexSees, CleanIndexIsCurrent
<1>2. CleanInv /\ [Next]_vars => CleanInv'
  BY CleanStep
<1> QED BY <1>1, <1>2, CleanInit, PTL DEF Spec


-----------------------------------------------------------------------------
(* What the caches offer was listed a day ago or later.  A listing that is  *)
(* held from within a day has nothing on it that was withdrawn before that; *)
(* and of a revision that was seen within a day, neither it nor any later   *)
(* listing has, however old the file that holds it.                         *)

\* The listings that a file or a process holds from within a day.
HoldsNew(L) ==
  \/ index # None /\ L = index.listing /\ index.fetched = "new"
  \/ \E p \in Listers : ljob[p].got = L /\ ljob[p].at = "new"
  \/ \E r \in Refreshers : rjob[r].got = L /\ rjob[r].at = "new"
  \/ \E r \in Refreshers : /\ rjob[r].answer # None /\ rjob[r].answer.kind = "changed"
                           /\ rjob[r].answer.is = L /\ rjob[r].at = "new"

Recent(L) == \A v \in L.versions : withdrawn[v] # "old"
LaterRecent(n) == \A L \in Feed : Holds(L) /\ L.rev > n => Recent(L)

NoneWithdrawn == \A v \in feed.versions : withdrawn[v] = None
HeldAgree == \A L, M \in Feed : Holds(L) /\ Holds(M) /\ L.rev = M.rev => L = M
NewIsRecent == \A L \in Feed : HoldsNew(L) => Recent(L)

\* The latest version of the probe is the newest one of what it saw.
LatestOK ==
  probe # None /\ probe.rev # None =>
    /\ probe.latest \in Versions
    /\ probe.rev = feed.rev => probe.latest = Newest(feed.versions)
    /\ \A L \in Feed : Holds(L) /\ L.rev = probe.rev => probe.latest = Newest(L.versions)

ProbeRecent ==
  probe # None /\ probe.rev # None /\ withdrawn[probe.latest] # "old" /\ LaterRecent(probe.rev)

ValidRecent == probe # None /\ probe.rev # None /\ probe.validated = "new" => ProbeRecent

AnswerRecent(r) ==
  rjob[r].answer # None /\ rjob[r].at = "new" =>
    /\ rjob[r].answer.kind = "unchanged" => ProbeRecent
    /\ rjob[r].answer.kind = "changed" => LaterRecent(rjob[r].answer.is.rev)

SeenRecent == ~ overtaken => ValidRecent /\ \A r \in Refreshers : AnswerRecent(r)

RecentInv ==
  CleanInv /\ NoneWithdrawn /\ HeldAgree /\ NewIsRecent /\ LatestOK /\ SeenRecent

\* A step holds as new nothing but what it held as new, or what is listed now.
TakesUpNew == \A L \in Feed : HoldsNew(L)' => HoldsNew(L) \/ L = feed

LEMMA LTakesNew ==
  ASSUME TypeInv, NEW p \in Listers, NEW l, NEW j, LMoves(p, l, j), j.got \in {None, feed},
         UNCHANGED refresh,
         index' = index \/ (index' # None /\ (index'.fetched = "new" => HoldsNew(index'.listing)))
  PROVE  TakesUpNew
<1> SUFFICES ASSUME NEW L \in Feed, HoldsNew(L)' PROVE HoldsNew(L) \/ L = feed
  BY DEF TakesUpNew
<1>1. CASE index' # None /\ L = index'.listing /\ index'.fetched = "new"
  BY <1>1 DEF HoldsNew
<1>2. CASE \E q \in Listers : ljob'[q].got = L /\ ljob'[q].at = "new"
  BY <1>2, NoneAssumption DEF LMoves, HoldsNew
<1>3. CASE \/ \E r \in Refreshers : rjob'[r].got = L /\ rjob'[r].at = "new"
           \/ \E r \in Refreshers : /\ rjob'[r].answer # None /\ rjob'[r].answer.kind = "changed"
                                    /\ rjob'[r].answer.is = L /\ rjob'[r].at = "new"
  BY <1>3 DEF refresh, HoldsNew
<1> QED BY <1>1, <1>2, <1>3 DEF HoldsNew

LEMMA RTakesNew ==
  ASSUME TypeInv, NEW r \in Refreshers, NEW l, NEW j, RMoves(r, l, j), UNCHANGED commands,
         j.got \in {None, feed} \/ (j.got = rjob[r].got /\ j.at = rjob[r].at),
         \/ j.answer = None
         \/ j.answer = rjob[r].answer /\ j.at = rjob[r].at
         \/ j.answer.kind = "changed" => j.answer.is = feed,
         index' = index \/ (index' # None /\ (index'.fetched = "new" => HoldsNew(index'.listing)))
  PROVE  TakesUpNew
<1> SUFFICES ASSUME NEW L \in Feed, HoldsNew(L)' PROVE HoldsNew(L) \/ L = feed
  BY DEF TakesUpNew
<1>1. CASE index' # None /\ L = index'.listing /\ index'.fetched = "new"
  BY <1>1 DEF HoldsNew
<1>2. CASE \E q \in Listers : ljob'[q].got = L /\ ljob'[q].at = "new"
  BY <1>2 DEF commands, HoldsNew
<1>3. CASE \E q \in Refreshers : rjob'[q].got = L /\ rjob'[q].at = "new"
  BY <1>3, NoneAssumption DEF RMoves, HoldsNew
<1>4. CASE \E q \in Refreshers : /\ rjob'[q].answer # None /\ rjob'[q].answer.kind = "changed"
                                 /\ rjob'[q].answer.is = L /\ rjob'[q].at = "new"
  BY <1>4 DEF RMoves, HoldsNew
<1> QED BY <1>1, <1>2, <1>3, <1>4 DEF HoldsNew

LEMMA RefreshTakesNew ==
  ASSUME TypeInv, NEW r \in Refreshers, RStep(r) \/ Spawn(r) \/ RefreshDies(r)
  PROVE  TakesUpNew /\ UNCHANGED <<feed, withdrawn>>
<1> USE DEF cache, counters, history
<1>1. UNCHANGED <<feed, commands, withdrawn>>
  BY DEF RStep, Spawn, RefreshDies, RemoveStale, Relock, Ask, Record, FetchIndex,
         SaveIndex, ClearPending, Leave
<1>2. CASE Spawn(r)
  BY <1>1, <1>2, SpawnMoves, NoJobs, RTakesNew DEF Spawn
<1>3. CASE RemoveStale(r)
  BY <1>1, <1>3, RemoveStaleMoves, RTakesNew DEF RemoveStale
<1>4. CASE Relock(r)
  BY <1>1, <1>4, RelockMoves, NoJobs, RTakesNew DEF Relock
<1>5. CASE Ask(r)
  <2>1. CASE RMoves(r, "leave", rjob[r])
    BY <1>1, <1>5, <2>1, RTakesNew DEF Ask
  <2>2. ASSUME NEW j \in RJob, RMoves(r, "record", j), j.got = None,
               j.answer.kind = "changed" => j.answer.is = feed
        PROVE  TakesUpNew
    BY <1>1, <1>5, <2>2, RTakesNew DEF Ask
  <2> QED BY <1>1, <1>5, <2>1, <2>2, AskMoves
<1>6. CASE Record(r)
  <2>1. PICK j \in RJob, l \in {"fetch", "leave"} :
          RMoves(r, l, j) /\ j.answer = None /\ j.got = None
    BY <1>6, RecordMoves
  <2> QED BY <1>1, <1>6, <2>1, RTakesNew DEF Record
<1>7. CASE FetchIndex(r)
  <2>1. CASE RMoves(r, "leave", rjob[r])
    BY <1>1, <1>7, <2>1, RTakesNew DEF FetchIndex
  <2>2. ASSUME NEW j \in RJob, RMoves(r, "save", j), j.answer = None, j.got = feed
        PROVE  TakesUpNew
    BY <1>1, <1>7, <2>2, RTakesNew DEF FetchIndex
  <2> QED BY <1>1, <1>7, <2>1, <2>2, FetchIndexMoves
<1>8. CASE SaveIndex(r)
  <2>1. PICK j \in RJob : RMoves(r, "clean", j) /\ j.answer = None /\ j.got = None
    BY <1>8, SaveIndexMoves
  <2>2. index' # None /\ (index'.fetched = "new" => HoldsNew(index'.listing))
    <3>1. rjob[r].got \in Feed /\ index' = [listing |-> rjob[r].got, fetched |-> rjob[r].at]
      BY <1>8 DEF SaveIndex, TypeInv, RefreshOK
    <3>2. index' # None /\ index'.listing = rjob[r].got /\ index'.fetched = rjob[r].at
      BY <1>8, <3>1, SavedIndex DEF SaveIndex, TypeInv, TypeOK, RJob
    <3> QED BY <3>1, <3>2 DEF HoldsNew
  <2> QED BY <1>1, <2>1, <2>2, RTakesNew
<1>9. CASE ClearPending(r)
  BY <1>1, <1>9, ClearPendingMoves, RTakesNew DEF ClearPending
<1>10. CASE Leave(r) \/ RefreshDies(r)
  BY <1>1, <1>10, EndMoves, NoJobs, RTakesNew DEF Leave, RefreshDies
<1> QED BY <1>1, <1>2, <1>3, <1>4, <1>5, <1>6, <1>7, <1>8, <1>9, <1>10 DEF RStep

LEMMA ListerTakesNew ==
  ASSUME TypeInv, NEW p \in Listers, StartListing(p) \/ LStep(p)
  PROVE  TakesUpNew /\ UNCHANGED <<feed, withdrawn>>
<1> USE DEF cache, counters, history
<1>1. UNCHANGED <<feed, refresh, withdrawn>>
  BY DEF LStep, StartListing, List, FetchList, SaveList
<1>2. CASE StartListing(p)
  BY <1>1, <1>2, StartListingMoves, NoJobs, LTakesNew DEF StartListing
<1>3. CASE List(p)
  BY <1>1, <1>3, ListMoves, NoJobs, LTakesNew DEF List
<1>4. CASE FetchList(p)
  BY <1>1, <1>4, FetchListMoves, NoJobs, LTakesNew DEF FetchList
<1>5. CASE SaveList(p)
  <2>1. ljob[p].got \in Feed /\ index' = [listing |-> ljob[p].got, fetched |-> ljob[p].at]
    BY <1>5 DEF SaveList, TypeInv, ListOK
  <2>2. index' # None /\ index'.listing = ljob[p].got /\ index'.fetched = ljob[p].at
    BY <1>5, <2>1, SavedIndex DEF SaveList, TypeInv, TypeOK, LJob
  <2>3. index' # None /\ (index'.fetched = "new" => HoldsNew(index'.listing))
    BY <2>2 DEF HoldsNew
  <2> QED BY <1>1, <1>5, <2>3, SaveListMoves, NoJobs, LTakesNew
<1> QED BY <1>1, <1>2, <1>3, <1>4, <1>5 DEF LStep

\* What is held, while the registry's listing stays.
LEMMA HeldNext ==
  ASSUME TypeInv, HeldOK, NoneWithdrawn, HeldAgree, NewIsRecent,
         UNCHANGED <<feed, withdrawn>>, TakesUpFeed, TakesUpNew
  PROVE  /\ NoneWithdrawn' /\ HeldAgree' /\ NewIsRecent'
         /\ \A n : LaterRecent(n) => LaterRecent(n)'
<1>1. feed \in Feed /\ Recent(feed)
  BY ConstantsAssumption DEF TypeInv, TypeOK, Recent, NoneWithdrawn
<1>2. NoneWithdrawn'
  BY DEF NoneWithdrawn
<1>3. ASSUME NEW L \in Feed, NEW M \in Feed, Holds(L)', Holds(M)', L.rev = M.rev PROVE L = M
  BY <1>3 DEF TakesUpFeed, HeldOK, Listed, HeldAgree
<1>4. NewIsRecent'
  BY <1>1 DEF NewIsRecent, TakesUpNew, Recent
<1>5. ASSUME NEW n, LaterRecent(n) PROVE LaterRecent(n)'
  BY <1>1, <1>5 DEF LaterRecent, TakesUpFeed, Recent
<1> QED BY <1>2, <1>3, <1>4, <1>5 DEF HeldAgree

\* The probe keeps what it saw, if not what it marks or when it last asked.
ProbeStays ==
  /\ probe = None => probe' = None
  /\ probe # None => /\ probe' # None /\ probe'.rev = probe.rev /\ probe'.latest = probe.latest
                     /\ probe'.validated = "new" => probe.validated = "new"

LEMMA LatestKept ==
  ASSUME TypeInv, LatestOK, UNCHANGED feed, TakesUpFeed, ProbeStays
  PROVE  LatestOK'
BY DEF LatestOK, TakesUpFeed, ProbeStays

LEMMA ProbeRecentKept ==
  ASSUME ProbeRecent, UNCHANGED withdrawn, ProbeStays, \A n : LaterRecent(n) => LaterRecent(n)'
  PROVE  ProbeRecent'
BY DEF ProbeRecent, ProbeStays

LEMMA SeenKept ==
  ASSUME SeenRecent, UNCHANGED withdrawn, ProbeStays, \A n : LaterRecent(n) => LaterRecent(n)',
         ~ overtaken' => ~ overtaken,
         \A r \in Refreshers : \/ rjob'[r].answer = None
                               \/ rjob'[r].answer = rjob[r].answer /\ rjob'[r].at = rjob[r].at
  PROVE  SeenRecent'
<1> SUFFICES ASSUME ~ overtaken' PROVE ValidRecent' /\ \A r \in Refreshers : AnswerRecent(r)'
  BY DEF SeenRecent
<1>1. ValidRecent /\ (ProbeRecent => ProbeRecent')
  BY ProbeRecentKept DEF SeenRecent
<1>2. ValidRecent'
  BY <1>1 DEF ValidRecent, ProbeStays
<1>3. ASSUME NEW r \in Refreshers PROVE AnswerRecent(r)'
  BY <1>1 DEF SeenRecent, AnswerRecent
<1> QED BY <1>2, <1>3

LEMMA AskKeepsRecent ==
  ASSUME RecentInv, NEW r \in Refreshers, Ask(r), LatestOK', \A n : LaterRecent(n) => LaterRecent(n)'
  PROVE  SeenRecent'
<1>1. TypeInv /\ UNCHANGED <<feed, probe, index, withdrawn, overtaken, commands>> /\ feed \in Feed
  BY DEF RecentInv, CleanInv, TypeInv, TypeOK, Ask, cache, history
<1>2. ProbeStays
  BY <1>1 DEF ProbeStays
<1>3. CASE RMoves(r, "leave", rjob[r])
  BY <1>1, <1>2, <1>3, SeenKept DEF RecentInv, RMoves
<1>4. ASSUME NEW j \in RJob, RMoves(r, "record", j), j.answer.kind = "changed" => j.answer.is = feed,
             AnswerOK(j.answer), j.answer = Unchanged => probe # None /\ probe.rev = feed.rev
      PROVE  SeenRecent'
  <2>1. TakesUpFeed
    BY <1>1, <1>4, RefreshKeepsHeld DEF RecentInv, CleanInv, RStep
  <2>2. HeldOK' /\ feed' = feed
    BY <1>1, RefreshKeepsHeld DEF RecentInv, CleanInv, RStep
  <2>3. LaterRecent(feed.rev)'
    <3> SUFFICES ASSUME NEW L \in Feed, Holds(L)' PROVE ~ (L.rev > feed.rev)
      BY <1>1 DEF LaterRecent
    <3>1. L.rev <= feed.rev /\ L.rev \in Nat /\ feed.rev \in Nat
      BY <1>1, <2>2, ConstantsAssumption DEF HeldOK, Listed, Feed, Revision
    <3> QED BY <3>1
  <2>4. j.answer.kind = "unchanged" => ProbeRecent'
    <3> SUFFICES ASSUME j.answer.kind = "unchanged" PROVE ProbeRecent'
      OBVIOUS
    <3>1. j.answer = Unchanged
      BY <1>4 DEF AnswerOK, Answer, NoAnswer, Unchanged
    <3>2. probe # None /\ probe.rev = feed.rev /\ probe.rev # None
      BY <1>1, <1>4, <3>1, ConstantsAssumption DEF Feed, Revision
    <3>3. probe.latest \in feed.versions
      <4>1. feed.versions # {} /\ feed.versions \in SUBSET Versions
        BY <1>1 DEF TypeInv, FeedOK, Feed
      <4> QED BY <3>2, <4>1, NewestType DEF RecentInv, LatestOK
    <3>4. withdrawn[probe.latest] # "old"
      BY <3>3, ConstantsAssumption DEF RecentInv, NoneWithdrawn
    <3> QED BY <1>1, <2>3, <3>2, <3>4 DEF ProbeRecent
  <2>5. ASSUME ~ overtaken, NEW q \in Refreshers PROVE AnswerRecent(q)'
    <3>1. CASE q = r
      BY <1>1, <1>4, <2>3, <2>4, <3>1 DEF AnswerRecent, RMoves
    <3>2. CASE q # r
      <4>1. ProbeRecent => ProbeRecent'
        BY <1>1, <1>2, ProbeRecentKept
      <4> QED BY <1>1, <1>4, <2>5, <3>2, <4>1 DEF AnswerRecent, RMoves, RecentInv, SeenRecent
    <3> QED BY <3>1, <3>2
  <2>6. ~ overtaken => ValidRecent'
    BY <1>1, <1>2, ProbeRecentKept DEF RecentInv, SeenRecent, ValidRecent
  <2> QED BY <1>1, <2>5, <2>6 DEF SeenRecent
<1> QED BY <1>1, <1>3, <1>4, AskMoves

LEMMA RecordKeepsRecent ==
  ASSUME RecentInv, NEW r \in Refreshers, Record(r), \A n : LaterRecent(n) => LaterRecent(n)'
  PROVE  LatestOK' /\ SeenRecent'
<1> DEFINE a == rjob[r].answer
<1>1. TypeOK /\ TypeInv /\ CleanInv /\ UNCHANGED <<feed, withdrawn, overtaken>> /\ rpc[r] = "record"
  BY DEF RecentInv, CleanInv, TypeInv, Record, history
<1>2. PICK j \in RJob, l \in {"fetch", "leave"} : RMoves(r, l, j) /\ j.answer = None
  BY <1>1, RecordMoves
<1>3. AnswerOK(a) /\ rjob[r].at \in Ages
      /\ \/ a.kind = "none" /\ probe' = RecordFailure
         \/ a.kind = "unchanged" /\ probe' = RecordUnchanged(rjob[r].at)
         \/ a.kind = "changed" /\ probe' = RecordChanged(rjob[r].at, a.is)
  BY <1>1, RecordProbe
<1>4. Previous \in Probe /\ (probe # None => Previous = probe)
      /\ (probe = None => Previous.rev = None /\ Previous.latest = None /\ Previous.validated = "old")
  BY <1>1, PreviousType
<1>5. a # None /\ TakesUpFeed
  BY <1>1, <1>3, NoneAssumption, RefreshKeepsHeld DEF AnswerOK, CleanInv, RStep
<1>6. ASSUME NEW q \in Refreshers PROVE q = r \/ rpc[q] # "record" \/ overtaken
  BY <1>1 DEF CleanInv, LockOK, Working
<1>7. ASSUME NEW q \in Refreshers, q # r, ~ overtaken PROVE rjob'[q].answer = None
  <2>1. rjob'[q] = rjob[q] /\ rpc[q] # "record"
    BY <1>2, <1>6, <1>7 DEF RMoves
  <2> QED BY <1>1, <2>1 DEF TypeInv, RefreshOK
<1>8. ASSUME ~ overtaken PROVE \A q \in Refreshers : AnswerRecent(q)'
  BY <1>2, <1>7, <1>8 DEF AnswerRecent, RMoves
<1>9. CASE a.kind = "none" /\ probe' = RecordFailure
  <2>1. /\ probe' \in Probe /\ probe' # None /\ probe'.rev = Previous.rev
        /\ probe'.latest = Previous.latest /\ probe'.validated = Previous.validated
    BY <1>1, <1>3, <1>9, Recorded, NoneAssumption
  <2>2. LatestOK'
    BY <1>1, <1>4, <1>5, <2>1 DEF RecentInv, LatestOK, TakesUpFeed
  <2>3. ~ overtaken => ValidRecent'
    BY <1>1, <1>4, <2>1 DEF RecentInv, SeenRecent, ValidRecent, ProbeRecent
  <2> QED BY <1>1, <1>8, <2>2, <2>3 DEF SeenRecent
<1>10. CASE a.kind = "unchanged" /\ probe' = RecordUnchanged(rjob[r].at)
  <2>1. /\ probe' \in Probe /\ probe' # None /\ probe'.rev = Previous.rev
        /\ probe'.latest = Previous.latest /\ probe'.validated = rjob[r].at
    BY <1>1, <1>3, <1>10, Recorded, NoneAssumption
  <2>2. LatestOK'
    BY <1>1, <1>4, <1>5, <2>1 DEF RecentInv, LatestOK, TakesUpFeed
  <2>3. ~ overtaken /\ rjob[r].at = "new" => ProbeRecent
    BY <1>5, <1>10 DEF RecentInv, SeenRecent, AnswerRecent
  <2>4. ~ overtaken => ValidRecent'
    BY <1>1, <1>4, <2>1, <2>3 DEF ValidRecent, ProbeRecent
  <2> QED BY <1>1, <1>8, <2>2, <2>4 DEF SeenRecent
<1>11. CASE a.kind = "changed" /\ probe' = RecordChanged(rjob[r].at, a.is)
  <2>1. a.is \in Feed /\ a.is.versions # {} /\ Holds(a.is)
    BY <1>3, <1>5, <1>11 DEF AnswerOK, Holds
  <2>2. /\ probe' \in Probe /\ probe' # None /\ probe'.rev = a.is.rev
        /\ probe'.latest = Newest(a.is.versions) /\ probe'.validated = rjob[r].at
        /\ probe'.latest \in a.is.versions
    <3> HIDE DEF a
    <3> QED BY <1>1, <1>3, <1>11, <2>1, Recorded, NoneAssumption
  <2>3. Listed(a.is)
    BY <1>1, <2>1 DEF CleanInv, HeldOK
  <2>4. LatestOK'
    <3>1. probe'.latest \in Versions
      BY <2>1, <2>2 DEF Feed
    <3>2. probe'.rev = feed'.rev => probe'.latest = Newest(feed'.versions)
      BY <1>1, <2>2, <2>3 DEF Listed
    <3>3. ASSUME NEW L \in Feed, Holds(L)', L.rev = probe'.rev PROVE probe'.latest = Newest(L.versions)
      <4>1. CASE Holds(L)
        BY <2>1, <2>2, <3>3, <4>1 DEF RecentInv, HeldAgree
      <4>2. CASE L = feed
        BY <2>2, <2>3, <3>3, <4>2 DEF Listed
      <4> QED BY <1>5, <3>3, <4>1, <4>2 DEF TakesUpFeed
    <3> QED BY <3>1, <3>2, <3>3 DEF LatestOK
  <2>5. ~ overtaken /\ rjob[r].at = "new" => LaterRecent(a.is.rev)
    BY <1>5, <1>11 DEF RecentInv, SeenRecent, AnswerRecent
  <2>6. rjob[r].at = "new" => Recent(a.is)
    <3>1. rjob[r].at = "new" => HoldsNew(a.is)
      BY <1>5, <1>11 DEF HoldsNew
    <3> QED BY <2>1, <3>1 DEF RecentInv, NewIsRecent
  <2>7. ~ overtaken => ValidRecent'
    <3> SUFFICES ASSUME ~ overtaken, probe'.validated = "new"
                 PROVE  probe'.rev # None => ProbeRecent'
      BY DEF ValidRecent
    <3> PICK n : n = a.is.rev
      OBVIOUS
    <3>1. LaterRecent(n)'
      BY <2>2, <2>5
    <3>2. \A L \in Feed : Holds(L)' /\ L.rev > a.is.rev => Recent(L)'
      BY <3>1 DEF LaterRecent
    <3>3. withdrawn'[probe'.latest] # "old"
      BY <1>1, <2>2, <2>6 DEF Recent
    <3> QED BY <2>2, <3>2, <3>3 DEF ProbeRecent, LaterRecent
  <2> QED BY <1>1, <1>8, <2>4, <2>7 DEF SeenRecent
<1> QED BY <1>3, <1>9, <1>10, <1>11

LEMMA RefreshKeepsRecent ==
  ASSUME RecentInv, NEW r \in Refreshers, RStep(r) \/ Spawn(r) \/ RefreshDies(r)
  PROVE  NoneWithdrawn' /\ HeldAgree' /\ NewIsRecent' /\ LatestOK' /\ SeenRecent'
<1> USE DEF cache, counters, history
<1>1. TypeInv /\ HeldOK /\ LatestOK /\ SeenRecent /\ TakesUpFeed /\ TakesUpNew
        /\ UNCHANGED <<feed, withdrawn>>
  BY RefreshKeepsHeld, RefreshTakesNew DEF RecentInv, CleanInv
<1>2. /\ NoneWithdrawn' /\ HeldAgree' /\ NewIsRecent'
      /\ \A n : LaterRecent(n) => LaterRecent(n)'
  BY <1>1, HeldNext DEF RecentInv
<1>3. CASE Ask(r)
  <2>1. LatestOK'
    BY <1>1, <1>3, LatestKept DEF Ask, ProbeStays
  <2> QED BY <1>2, <1>3, <2>1, AskKeepsRecent
<1>4. CASE Record(r)
  BY <1>2, <1>4, RecordKeepsRecent
<1>5. ASSUME ProbeStays, ~ overtaken' => ~ overtaken,
             NEW l, NEW j, RMoves(r, l, j), j.answer = None
      PROVE  LatestOK' /\ SeenRecent'
  <2>1. LatestOK'
    BY <1>1, <1>5, LatestKept
  <2>2. SeenRecent'
    BY <1>1, <1>2, <1>5, SeenKept DEF RMoves
  <2> QED BY <2>1, <2>2
<1>6. rpc[r] # "record" => rjob[r].answer = None
  BY <1>1 DEF TypeInv, RefreshOK
<1>7. CASE Spawn(r)
  BY <1>1, <1>2, <1>5, <1>7, SpawnMoves, NoJobs DEF Spawn, ProbeStays
<1>8. CASE RemoveStale(r)
  <2>1. overtaken \in BOOLEAN
    BY <1>1 DEF TypeInv, TypeOK
  <2> QED BY <1>1, <1>2, <1>5, <1>6, <1>8, <2>1, RemoveStaleMoves DEF RemoveStale, ProbeStays
<1>9. CASE Relock(r)
  BY <1>1, <1>2, <1>5, <1>6, <1>9, RelockMoves, NoJobs DEF Relock, ProbeStays
<1>10. CASE FetchIndex(r)
  BY <1>1, <1>2, <1>5, <1>6, <1>10, FetchIndexMoves DEF FetchIndex, ProbeStays
<1>11. CASE SaveIndex(r)
  BY <1>1, <1>2, <1>5, <1>11, SaveIndexMoves DEF SaveIndex, ProbeStays
<1>12. CASE ClearPending(r)
  <2>1. ProbeStays
    <3>1. probe # None => probe \in Probe /\ probe' = [probe EXCEPT !.pending = FALSE]
      BY <1>1, <1>12 DEF ClearPending, TypeInv, TypeOK
    <3>2. probe # None => probe' \in Probe
      BY <3>1 DEF Probe
    <3> QED BY <1>12, <3>1, <3>2, NoneAssumption DEF ClearPending, Probe, ProbeStays
  <2> QED BY <1>1, <1>2, <1>5, <1>6, <1>12, <2>1, ClearPendingMoves DEF ClearPending
<1>13. CASE Leave(r) \/ RefreshDies(r)
  BY <1>1, <1>2, <1>5, <1>13, EndMoves, NoJobs DEF Leave, RefreshDies, ProbeStays
<1> QED BY <1>3, <1>4, <1>7, <1>8, <1>9, <1>10, <1>11, <1>12, <1>13, <1>2 DEF RStep

LEMMA ListerKeepsRecent ==
  ASSUME RecentInv, NEW p \in Listers, StartListing(p) \/ LStep(p)
  PROVE  NoneWithdrawn' /\ HeldAgree' /\ NewIsRecent' /\ LatestOK' /\ SeenRecent'
<1>1. TypeInv /\ HeldOK /\ LatestOK /\ SeenRecent /\ TakesUpFeed /\ TakesUpNew
        /\ UNCHANGED <<feed, withdrawn>>
  BY ListerKeepsHeld, ListerTakesNew DEF RecentInv, CleanInv
<1>2. /\ NoneWithdrawn' /\ HeldAgree' /\ NewIsRecent'
      /\ \A n : LaterRecent(n) => LaterRecent(n)'
  BY <1>1, HeldNext DEF RecentInv
<1>3. overtaken \in BOOLEAN
  BY <1>1 DEF TypeInv, TypeOK
<1>4. UNCHANGED <<probe, rjob>> /\ (~ overtaken' => ~ overtaken)
  BY <1>3 DEF LStep, StartListing, List, FetchList, SaveList, cache, refresh, counters, history
<1>5. ProbeStays
  BY <1>4 DEF ProbeStays
<1> QED BY <1>1, <1>2, <1>4, <1>5, LatestKept, SeenKept

LEMMA FeedKeepsRecent ==
  ASSUME RecentInv, FeedChanges
  PROVE  NoneWithdrawn' /\ HeldAgree' /\ NewIsRecent' /\ LatestOK' /\ SeenRecent'
<1>1. TypeInv /\ TypeOK /\ ProbeOK
  BY DEF RecentInv, CleanInv, TypeInv
<1>2. PICK v \in Versions :
        /\ feed' = [rev |-> feed.rev + 1,
                    versions |-> IF v \in feed.versions THEN feed.versions \ {v}
                                 ELSE feed.versions \cup {v}]
        /\ withdrawn' = [withdrawn EXCEPT ![v] = IF v \in feed.versions THEN "new" ELSE None]
  BY DEF FeedChanges
<1>3. UNCHANGED <<probe, index, ljob, rjob, overtaken>>
  BY DEF FeedChanges, cache, refresh, commands
<1>4. /\ \A L \in Feed : (Holds(L)' <=> Holds(L)) /\ (HoldsNew(L)' <=> HoldsNew(L))
      /\ feed'.rev > feed.rev /\ feed.rev \in Nat /\ feed'.rev \in Nat
  <2>1. feed.rev \in Nat
    BY <1>1, ConstantsAssumption DEF TypeOK, Feed, Revision
  <2> QED BY <1>2, <1>3, <2>1 DEF Holds, HoldsNew
<1>5. /\ withdrawn \in [Versions -> {"new", "old", None}]
      /\ \A w \in Versions : withdrawn[w] # "old" => withdrawn'[w] # "old"
  BY <1>1, <1>2, ConstantsAssumption DEF TypeOK
<1>6. \A L \in Feed : Recent(L) => Recent(L)'
  BY <1>5 DEF Recent, Feed
<1>7. NoneWithdrawn'
  <2>1. \A w \in feed.versions : w \in Versions /\ withdrawn[w] = None
    BY <1>1 DEF TypeOK, Feed, RecentInv, NoneWithdrawn
  <2> QED BY <1>2, <1>5, <2>1 DEF NoneWithdrawn
<1>8. HeldAgree' /\ NewIsRecent'
  BY <1>4, <1>6 DEF RecentInv, HeldAgree, NewIsRecent
<1>9. LatestOK'
  <2>1. probe # None /\ probe.rev # None => probe.rev # feed'.rev
    BY <1>1, <1>4, ConstantsAssumption DEF ProbeOK, TypeOK, Probe, Revision
  <2> QED BY <1>3, <1>4, <2>1 DEF RecentInv, LatestOK
<1>10. \A n : LaterRecent(n) => LaterRecent(n)'
  BY <1>4, <1>6 DEF LaterRecent
<1>11. ProbeRecent => ProbeRecent'
  BY <1>3, <1>5, <1>10 DEF ProbeRecent, RecentInv, LatestOK
<1>12. SeenRecent'
  BY <1>3, <1>10, <1>11 DEF RecentInv, SeenRecent, ValidRecent, AnswerRecent
<1> QED BY <1>7, <1>8, <1>9, <1>12

LEMMA PassNew ==
  ASSUME TypeInv, NEW day \in BOOLEAN, Pass(day), NEW L \in Feed, HoldsNew(L)'
  PROVE  day = FALSE /\ HoldsNew(L)
<1>1. L # None /\ \A age : Aged(age, day) = "new" => day = FALSE /\ age = "new"
  BY NoneAssumption DEF Aged
<1>2. CASE index' # None /\ L = index'.listing /\ index'.fetched = "new"
  BY <1>1, <1>2, PassFiles DEF HoldsNew
<1>3. CASE \E p \in Listers : ljob'[p].got = L /\ ljob'[p].at = "new"
  BY <1>1, <1>3, PassMoves DEF HoldsNew
<1>4. CASE \E r \in Refreshers : rjob'[r].got = L /\ rjob'[r].at = "new"
  BY <1>1, <1>4, PassMoves DEF HoldsNew
<1>5. CASE \E r \in Refreshers : /\ rjob'[r].answer # None /\ rjob'[r].answer.kind = "changed"
                                 /\ rjob'[r].answer.is = L /\ rjob'[r].at = "new"
  BY <1>1, <1>5, PassMoves DEF HoldsNew
<1> QED BY <1>2, <1>3, <1>4, <1>5 DEF HoldsNew

LEMMA HourKeepsRecent ==
  ASSUME RecentInv, AnHourPasses
  PROVE  NoneWithdrawn' /\ HeldAgree' /\ NewIsRecent' /\ LatestOK' /\ SeenRecent'
<1>1. TypeInv /\ HeldOK /\ LatestOK /\ SeenRecent /\ Pass(FALSE) /\ TakesUpFeed
        /\ UNCHANGED <<feed, withdrawn, overtaken>>
  BY PassKeepsHeld, PassFiles DEF RecentInv, CleanInv, AnHourPasses, history
<1>2. \A age : Aged(age, FALSE) = age
  BY DEF Aged
<1>3. ProbeStays
  BY <1>1, <1>2, PassFiles DEF ProbeStays
<1>4. TakesUpNew
  <2> SUFFICES ASSUME NEW L \in Feed, HoldsNew(L)' PROVE HoldsNew(L)
    BY DEF TakesUpNew
  <2> QED BY <1>1, PassNew
<1>5. /\ NoneWithdrawn' /\ HeldAgree' /\ NewIsRecent'
      /\ \A n : LaterRecent(n) => LaterRecent(n)'
  BY <1>1, <1>4, HeldNext DEF RecentInv
<1>6. \A r \in Refreshers : \/ rjob'[r].answer = None
                            \/ rjob'[r].answer = rjob[r].answer /\ rjob'[r].at = rjob[r].at
  BY <1>1, <1>2, PassMoves
<1> QED BY <1>1, <1>3, <1>5, <1>6, LatestKept, SeenKept

\* After a day nothing is held, or was seen, within one.
LEMMA DayKeepsRecent ==
  ASSUME RecentInv, ADayPasses
  PROVE  NoneWithdrawn' /\ HeldAgree' /\ NewIsRecent' /\ LatestOK' /\ SeenRecent'
<1>1. TypeInv /\ TypeOK /\ HeldOK /\ LatestOK /\ SeenRecent /\ Pass(TRUE) /\ TakesUpFeed
        /\ UNCHANGED <<feed, overtaken>>
  BY PassKeepsHeld, PassFiles DEF RecentInv, CleanInv, TypeInv, ADayPasses
<1>2. \A age : Aged(age, TRUE) = "old"
  BY DEF Aged
<1>3. ProbeStays
  BY <1>1, <1>2, PassFiles DEF ProbeStays
<1>4. LatestOK'
  BY <1>1, <1>3, LatestKept
<1>5. NoneWithdrawn'
  <2>1. \A v \in feed.versions : v \in Versions /\ withdrawn[v] = None
    BY <1>1 DEF RecentInv, NoneWithdrawn, TypeOK, Feed
  <2>2. \A v \in Versions : withdrawn'[v] = IF withdrawn[v] = "new" THEN "old" ELSE withdrawn[v]
    BY DEF ADayPasses
  <2> QED BY <1>1, <2>1, <2>2, ConstantsAssumption DEF NoneWithdrawn
<1>6. HeldAgree'
  BY <1>1 DEF RecentInv, HeldAgree, TakesUpFeed, HeldOK, Listed
<1>7. \A L \in Feed : ~ HoldsNew(L)'
  BY <1>1, PassNew
<1>8. \A r \in Refreshers : rjob'[r].answer = None \/ rjob'[r].at = "old"
  BY <1>1, <1>2, PassMoves
<1>9. probe' = None \/ probe'.validated = "old"
  BY <1>1, <1>2, PassFiles
<1> QED BY <1>4, <1>5, <1>6, <1>7, <1>8, <1>9 DEF NewIsRecent, SeenRecent, ValidRecent, AnswerRecent

LEMMA RecentInit == Init => RecentInv
<1> SUFFICES ASSUME Init PROVE RecentInv
  OBVIOUS
<1>1. CleanInv
  BY CleanInit
<1>2. NoneWithdrawn
  <2>1. feed.versions \subseteq Versions
    BY <1>1 DEF CleanInv, TypeInv, TypeOK, Feed
  <2> QED BY <2>1 DEF Init, NoneWithdrawn
<1>3. \A L \in Feed : ~ Holds(L) /\ ~ HoldsNew(L)
  BY NoJobs, NoneAssumption DEF Init, Holds, HoldsNew
<1>4. LatestOK /\ SeenRecent
  BY NoJobs DEF Init, LatestOK, SeenRecent, ValidRecent, AnswerRecent
<1> QED BY <1>1, <1>2, <1>3, <1>4 DEF RecentInv, HeldAgree, NewIsRecent

LEMMA RecentStep == RecentInv /\ [Next]_vars => RecentInv'
<1> SUFFICES ASSUME RecentInv, [Next]_vars PROVE RecentInv'
  OBVIOUS
<1>1. CleanInv'
  BY CleanStep DEF RecentInv
<1>2. CASE \E p \in Listers : StartListing(p) \/ LStep(p)
  BY <1>1, <1>2, ListerKeepsRecent DEF RecentInv
<1>3. CASE \E r \in Refreshers : Spawn(r) \/ RStep(r) \/ RefreshDies(r)
  BY <1>1, <1>3, RefreshKeepsRecent DEF RecentInv
<1>4. CASE FeedChanges
  BY <1>1, <1>4, FeedKeepsRecent DEF RecentInv
<1>5. CASE AnHourPasses
  BY <1>1, <1>5, HourKeepsRecent DEF RecentInv
<1>6. CASE ADayPasses
  BY <1>1, <1>6, DayKeepsRecent DEF RecentInv
<1>7. CASE UNCHANGED vars
  BY <1>1, <1>7 DEF vars, cache, refresh, commands, history, RecentInv, NoneWithdrawn, HeldAgree,
       NewIsRecent, LatestOK, SeenRecent, ValidRecent, AnswerRecent, ProbeRecent, LaterRecent,
       Recent, Holds, HoldsNew
<1> QED BY <1>2, <1>3, <1>4, <1>5, <1>6, <1>7 DEF Next

\* A version that was withdrawn more than a day ago is not offered off the caches,
\* for any number of refreshes and terminals, whatever dies, and however the answers
\* of the registry, their records and the saves of listings are spread over the day:
\* checked_latest, probe_confirms_index, cached_upgrade_target.
THEOREM KnownCorrect == Spec => []KnownIsRecent
<1>1. RecentInv => KnownIsRecent
  <2> SUFFICES ASSUME RecentInv, NEW v \in CachedLatest, ~ overtaken PROVE withdrawn[v] # "old"
    BY DEF KnownIsRecent
  <2>1. TypeInv /\ TypeOK /\ ProbeOK /\ CleanOK
    BY DEF RecentInv, CleanInv, TypeInv
  <2>2. ASSUME probe # None, WithinDay(probe.validated), probe.latest # None
        PROVE  probe.rev # None /\ ProbeRecent
    <3>1. probe.validated = "new" /\ probe.rev # None
      BY <2>1, <2>2 DEF WithinDay, TypeOK, Probe, Ages, ProbeOK
    <3> QED BY <2>2, <3>1 DEF RecentInv, SeenRecent, ValidRecent
  <2>3. CASE probe # None /\ WithinDay(probe.validated) /\ probe.latest # None /\ v = probe.latest
    BY <2>2, <2>3 DEF ProbeRecent
  <2>4. CASE FreshIndex /\ index.listing.versions # {} /\ v = Newest(index.listing.versions)
    <3> DEFINE L == index.listing
    <3>1. L \in Feed /\ Holds(L) /\ index # None
      BY <2>1, <2>4 DEF FreshIndex, TypeOK, Index, Holds
    <3>2. v \in L.versions
      BY <2>4, <3>1, NewestType DEF Feed
    <3>3. CASE WithinDay(index.fetched)
      <4>1. index.fetched = "new"
        BY <2>1, <3>1, <3>3 DEF WithinDay, TypeOK, Index, Ages
      <4>2. Recent(L)
        BY <3>1, <4>1 DEF HoldsNew, RecentInv, NewIsRecent
      <4> QED BY <3>2, <4>2 DEF Recent
    <3>4. CASE probe # None /\ ~ probe.pending /\ WithinDay(probe.validated) /\ probe.latest # None
      <4>1. probe.rev # None /\ ProbeRecent
        BY <2>2, <3>4
      <4>2. L.rev >= probe.rev
        BY <2>1, <3>4, <4>1 DEF CleanOK, IndexSees
      <4>3. L.rev \in Nat /\ probe.rev \in Nat
        BY <2>1, <3>1, <3>4, <4>1, ConstantsAssumption DEF TypeOK, Probe, Feed, Revision
      <4>4. CASE L.rev = probe.rev
        BY <2>4, <3>1, <3>4, <4>1, <4>4 DEF RecentInv, LatestOK, ProbeRecent
      <4>5. CASE L.rev > probe.rev
        BY <3>1, <3>2, <4>1, <4>5 DEF ProbeRecent, LaterRecent, Recent
      <4> QED BY <4>2, <4>3, <4>4, <4>5
    <3> QED BY <2>4, <3>3, <3>4 DEF FreshIndex
  <2> QED BY <2>3, <2>4 DEF CachedLatest
<1> QED BY <1>1, RecentInit, RecentStep, PTL DEF Spec


-----------------------------------------------------------------------------
(* What the guard of Codex says, and what its evidence cache keeps, for     *)
(* every history of migrations and every set of documents.                  *)

\* The sidecar of a document that is sealed was written for it, and counts its days.
SealOK == doc # Absent /\ ~ unsealed => sidecar = [of |-> doc, age |-> held]

\* What a refresh has fetched is there to be put in place, and is in place when
\* the sidecar is written.
GotOK ==
  /\ pc \in {"judge", "unmark", "seal"} => got \in Documents
  /\ pc \in {"unmark", "seal"} => doc = got
  /\ pc = "stamp" => doc \in Documents

SkewInv == SkewTypeOK /\ SealOK /\ GotOK

LEMMA Bounds ==
  /\ Week \in Nat /\ MaxSkewFaults \in Nat
  /\ Absent \notin Documents /\ Absent \notin [of : Documents, age : Int]
  BY SkewAssumption DEF SkewAssumption

LEMMA MaxIsNat == \A d \in Documents : d.max \in Nat
  BY SkewAssumption DEF SkewAssumption

LEMMA OlderIsAge ==
  /\ \A age \in -1 .. Week + 1 : Older(age) \in -1 .. Week + 1
  /\ \A age \in 0 .. Week + 1 : Older(age) \in 0 .. Week + 1
  BY Bounds DEF Older

LEMMA SkewInvInit == SkewInit => SkewInv
<1> SUFFICES ASSUME SkewInit PROVE SkewInv
  OBVIOUS
<1>1. fresh \in BOOLEAN /\ unsealed \in BOOLEAN
  BY DEF SkewInit
<1>2. SkewTypeOK
  BY <1>1, Bounds DEF SkewInit, SkewTypeOK
<1>3. SealOK /\ GotOK
  BY DEF SkewInit, SealOK, GotOK
<1> QED BY <1>2, <1>3 DEF SkewInv

LEMMA SkewInvNext == SkewInv /\ [SkewNext]_skewVars => SkewInv'
<1> SUFFICES ASSUME SkewInv, [SkewNext]_skewVars PROVE SkewInv'
  OBVIOUS
<1> USE Bounds DEF SkewInv, SkewTypeOK, SealOK, GotOK
<1>1. CASE \E v \in Codex : RunCodex(v)
  BY <1>1 DEF RunCodex, evidence, skewRefresh, skewHistory
<1>2. CASE Begin \/ BeginDue \/ Fetch
  BY <1>2 DEF Begin, BeginDue, Fetch, evidence, skewHistory
<1>3. CASE FetchFails \/ RenameFails
  BY <1>3 DEF FetchFails, RenameFails, SkewFault, Done, skewHistory
<1>4. CASE Reject
  BY <1>4 DEF Reject, Rejected, skewHistory
<1>5. CASE Stamp
  <2>1. fresh' \in BOOLEAN
    BY <1>5 DEF Stamp
  <2>2. SealOK' /\ GotOK'
    BY <1>5 DEF Stamp, Done, skewHistory
  <2> QED BY <1>5, <2>1, <2>2 DEF Stamp, Done, skewHistory
<1>6. CASE Rename
  <2>1. fresh' \in BOOLEAN /\ unsealed' \in BOOLEAN
    BY <1>6 DEF Rename
  <2>2. unsealed'
    BY <1>6 DEF Rename
  <2>3. GotOK'
    BY <1>6 DEF Rename
  <2> QED BY <1>6, <2>1, <2>2, <2>3 DEF Rename
<1>13. CASE Unmark
  BY <1>13 DEF Unmark, skewHistory
<1>7. CASE Seal
  <2>1. unsealed' \in BOOLEAN
    BY <1>7 DEF Seal
  <2>2. SealOK' /\ GotOK'
    BY <1>7 DEF Seal, Done
  <2> QED BY <1>7, <2>1, <2>2 DEF Seal, Done
<1>8. CASE SealFails \/ Kill
  BY <1>8 DEF SealFails, Kill, SkewFault, Done, evidence, skewHistory
<1>9. CASE Day
  <2>1. /\ held' \in 0 .. Week + 1
        /\ sidecar' \in [of : Documents, age : -1 .. Week + 1] \cup {Absent}
    BY <1>9, OlderIsAge DEF Day
  <2>2. SealOK'
    <3> SUFFICES ASSUME doc # Absent, ~ unsealed
                 PROVE  sidecar' = [of |-> doc, age |-> held']
      BY <1>9 DEF Day
    <3>1. sidecar = [of |-> doc, age |-> held] /\ sidecar # Absent
      OBVIOUS
    <3>2. sidecar' = [sidecar EXCEPT !.age = Older(sidecar.age)]
      BY <1>9, <3>1 DEF Day
    <3> QED BY <1>9, <3>1, <3>2 DEF Day
  <2> QED BY <1>9, <2>1, <2>2 DEF Day, Paced, skewRefresh
<1>10. CASE FiveMinutes
  BY <1>10 DEF FiveMinutes, skewRefresh, skewHistory
<1>11. CASE SetBack
  <2>1. fresh' \in BOOLEAN /\ unsealed' \in BOOLEAN /\ unsealed'
    BY <1>11 DEF SetBack
  <2>2. sidecar' \in [of : Documents, age : -1 .. Week + 1] \cup {Absent}
    BY <1>11 DEF SetBack
  <2>3. GotOK'
    BY <1>11 DEF SetBack, skewRefresh
  <2> QED BY <1>11, <2>1, <2>2, <2>3 DEF SetBack, SkewFault, Paced, skewRefresh
<1>12. CASE UNCHANGED skewVars
  BY <1>12 DEF skewVars, evidence, skewRefresh, skewHistory
<1> QED
  BY <1>1, <1>2, <1>3, <1>4, <1>5, <1>6, <1>7, <1>8, <1>9, <1>10, <1>11, <1>12, <1>13
  DEF SkewNext, Step

\* Every state is well typed.
THEOREM SkewTypeCorrect == SkewSpec => []SkewTypeOK
<1>1. SkewInv => SkewTypeOK
  BY DEF SkewInv
<1> QED BY SkewInvInit, SkewInvNext, <1>1, PTL DEF SkewSpec

-----------------------------------------------------------------------------
(* The guard.                                                              *)

\* A migration v has lost and understands all the same was found in v's text,
\* with every one before it that v was built without.
LEMMA LostInWords ==
  ASSUME SkewTypeOK, NEW v \in Codex, NEW m \in Lost(v), m \in Understood(doc, v)
  PROVE  History[v] + 1 .. m \subseteq Words[v]
<1> USE SkewAssumption DEF SkewAssumption
<1>1. m \in 1..Manifest(doc) /\ 1..m \subseteq Found(doc, v)
  BY DEF Understood
<1>2. History[v] \in Nat /\ m \in Nat
  BY DEF Lost, SkewTypeOK
<1>3. ASSUME NEW n \in History[v] + 1 .. m PROVE n \in Words[v]
  <2>1. n \in 1..m /\ ~ (n <= History[v])
    BY <1>2
  <2> QED BY <1>1, <2>1 DEF Found
<1> QED BY <1>3

\* Of observations there is a newest.
LEMMA Least ==
  ASSUME NEW T, T \subseteq Nat, T # {}
  PROVE  \E x \in T : \A y \in T : x <= y
<1> DEFINE R == {ss \in Nat \X Nat : ss[1] < ss[2]}
<1>1. IsWellFoundedOn(R, Nat)
  BY NatLessThanWellFounded DEF OpToRel
<1>2. PICK x \in T : \A y \in T : ~ (<<y, x>> \in R)
  <2> HIDE DEF R
  <2> QED BY <1>1, WFMin
<1>3. ASSUME NEW y \in T PROVE x <= y
  <2>1. ~ (<<y, x>> \in R) /\ x \in Nat /\ y \in Nat
    BY <1>2
  <2>2. ~ (y < x)
    BY <2>1
  <2> QED BY <2>1, <2>2
<1> QED BY <1>3

LEMMA NewestIs ==
  ASSUME NEW S, S \subseteq Observation, S # {}
  PROVE  NewestRun(S) # {}
<1> DEFINE T == {MaxRun - o.run : o \in S}
<1>1. MaxRun \in Nat /\ \A o \in S : o.run \in 0..MaxRun
  BY SkewAssumption DEF SkewAssumption, Observation
<1>2. T \subseteq Nat /\ T # {}
  BY <1>1
<1>3. PICK x \in T : \A y \in T : x <= y
  <2> HIDE DEF T
  <2> QED BY <1>2, Least
<1>4. PICK o \in S : x = MaxRun - o.run
  OBVIOUS
<1>5. \A q \in S : q.run <= o.run
  <2> TAKE q \in S
  <2>1. x <= MaxRun - q.run
    BY <1>3
  <2> QED BY <1>1, <1>4, <2>1
<1> QED BY <1>5 DEF NewestRun

LEMMA SeenIs ==
  ASSUME SkewTypeOK, NEW n, NEW v
  PROVE  Seen(doc, n, v) \subseteq Observation
  BY SkewAssumption DEF SkewAssumption, SkewTypeOK, Seen

\* A launch that lost something is warned of, in every state that is well typed.
LEMMA Told == SkewTypeOK => DegradedIsTold
<1> SUFFICES ASSUME SkewTypeOK, NEW v \in Codex, Lost(v) # {}, ~ Warns(doc, applied, v)
             PROVE  \/ applied > Compiled /\ (doc = Absent \/ applied > doc.max)
                    \/ /\ doc # Absent
                       /\ \E o \in doc.obs :
                            /\ o.ver = v /\ o.db = applied /\ o.verdict = "compatible"
                            /\ \A q \in doc.obs :
                                 q.ver = v /\ q.db = applied => q.run <= o.run
                    \/ \A m \in Lost(v) : History[v] + 1 .. m \subseteq Words[v]
  BY DEF DegradedIsTold
<1> USE SkewAssumption DEF SkewAssumption
<1>1. applied > 0
  BY DEF Lost, SkewTypeOK
<1>2. CASE ~ Assessed(doc, applied)
  <2>1. applied \in Nat /\ Compiled \in Nat /\ (doc # Absent => doc.max \in Nat)
    BY MaxIsNat DEF SkewTypeOK
  <2>2. applied > Manifest(doc)
    BY <1>1, <1>2, <2>1 DEF Assessed, Manifest
  <2>3. applied > Compiled /\ (doc # Absent => applied > doc.max)
    BY <2>1, <2>2 DEF Manifest
  <2> QED BY <2>3
<1>3. CASE Assessed(doc, applied) /\ Seen(doc, applied, v) # {}
  <2>1. \A o \in NewestRun(Seen(doc, applied, v)) : o.verdict = "compatible"
    BY <1>3 DEF Warns
  <2>2. NewestRun(Seen(doc, applied, v)) # {}
    BY <1>3, SeenIs, NewestIs
  <2> QED BY <2>1, <2>2 DEF Seen, NewestRun
<1>4. CASE Assessed(doc, applied) /\ Seen(doc, applied, v) = {}
  <2>1. ~ Degrades(doc, applied, v)
    BY <1>4 DEF Warns
  <2>2. ASSUME NEW m \in Lost(v) PROVE m \in Understood(doc, v)
    <3>1. m \in 1..applied /\ m \in Breaking
      BY DEF Lost, SkewTypeOK
    <3> QED BY <2>1, <3>1 DEF Degrades
  <2> QED BY <2>2, LostInWords
<1> QED BY <1>2, <1>3, <1>4

\* No version that has lost something starts without a warning, but for the cases
\* the guard names (guard_in_dir, launch_verdict, find_observation).
THEOREM DegradedIsToldCorrect == SkewSpec => []DegradedIsTold
BY SkewTypeCorrect, Told, PTL

\* A warning has a reason, in every state that is well typed.
LEMMA Reason == SkewTypeOK => WarningHasReason
<1> SUFFICES ASSUME SkewTypeOK, NEW v \in Codex, Warns(doc, applied, v)
             PROVE  \/ Lost(v) # {}
                    \/ /\ doc # Absent
                       /\ \E o \in doc.obs :
                            /\ o.ver = v /\ o.verdict # "compatible" /\ o.db >= applied
                            /\ \A m \in Breaking : ~ (applied < m /\ m <= o.db)
                            /\ \A q \in doc.obs :
                                 q.ver = v /\ q.db >= applied /\ q.db <= o.db
                                   => q.db = o.db /\ q.run <= o.run
  BY DEF WarningHasReason
<1> DEFINE Because(o) ==
      /\ o.ver = v /\ o.verdict # "compatible" /\ o.db >= applied
      /\ \A m \in Breaking : ~ (applied < m /\ m <= o.db)
      /\ \A q \in doc.obs :
           q.ver = v /\ q.db >= applied /\ q.db <= o.db
             => q.db = o.db /\ q.run <= o.run
<1>1. /\ applied \in Nat /\ Breaking \subseteq Nat /\ History[v] \in Nat
      /\ doc # Absent => \A o \in doc.obs : o.db \in Nat /\ o.run \in Nat
  BY SkewAssumption DEF SkewAssumption, SkewTypeOK, Observation
<1>2. CASE Seen(doc, applied, v) # {}
  <2>1. PICK o \in NewestRun(Seen(doc, applied, v)) : o.verdict # "compatible"
    BY <1>2, SeenIs, NewestIs DEF Warns
  <2>2. doc # Absent /\ o \in doc.obs /\ o.ver = v /\ o.db = applied
    BY <2>1 DEF NewestRun, Seen
  <2>3. \A q \in doc.obs : q.ver = v /\ q.db = applied => q.run <= o.run
    BY <2>1, <2>2 DEF NewestRun, Seen
  <2>4. Because(o)
    BY <1>1, <2>1, <2>2, <2>3
  <2> QED BY <2>2, <2>4
<1>3. CASE Seen(doc, applied, v) = {} /\ BadAhead(doc, applied, v)
  <2>1. PICK k \in Nearest(doc, applied, v) :
          \E o \in NewestRun(Seen(doc, k, v)) : o.verdict # "compatible"
    BY <1>3 DEF BadAhead
  <2>2. PICK o \in NewestRun(Seen(doc, k, v)) : o.verdict # "compatible"
    BY <2>1
  <2>3. doc # Absent /\ o \in doc.obs /\ o.ver = v /\ o.db = k
    BY <2>2 DEF NewestRun, Seen
  <2>4. /\ k \in Nat /\ k > applied
        /\ \A m \in applied + 1 .. k : m \notin Breaking
        /\ \A j \in applied + 1 .. k - 1 : Seen(doc, j, v) = {}
    BY <1>1, <2>3 DEF Nearest, Reach
  <2>5. \A m \in Breaking : ~ (applied < m /\ m <= k)
    BY <1>1, <2>4
  <2>6. ASSUME NEW q \in doc.obs, q.ver = v, q.db >= applied, q.db <= k
        PROVE  q.db = k /\ q.run <= o.run
    <3>1. q \in Seen(doc, q.db, v)
      BY <2>3, <2>6 DEF Seen
    <3>2. q.db # applied /\ q.db \notin applied + 1 .. k - 1
      BY <1>3, <2>4, <3>1
    <3>3. q.db = k
      BY <1>1, <2>3, <2>4, <2>6, <3>2
    <3> QED BY <2>2, <3>1, <3>3 DEF NewestRun
  <2>7. Because(o)
    BY <1>1, <2>2, <2>3, <2>4, <2>5, <2>6
  <2> QED BY <2>3, <2>7
<1>4. CASE Seen(doc, applied, v) = {} /\ Degrades(doc, applied, v)
  <2>1. PICK m \in 1..applied : m \in Breaking /\ m \notin Understood(doc, v)
    BY <1>4 DEF Degrades
  <2>2. applied <= Manifest(doc) /\ Manifest(doc) \in Nat
    BY SkewAssumption, MaxIsNat DEF SkewAssumption, Warns, Assessed, Manifest, SkewTypeOK
  <2>3. m \in 1..Manifest(doc)
    BY <1>1, <2>2
  <2>4. ~ (m <= History[v])
    <3> SUFFICES ASSUME m <= History[v] PROVE 1..m \subseteq Found(doc, v)
      BY <2>1, <2>3 DEF Understood
    <3>1. ASSUME NEW n \in 1..m PROVE n \in 1..Manifest(doc) /\ n <= History[v]
      BY <1>1, <2>2, <2>3
    <3> QED BY <3>1 DEF Found
  <2>5. m \in Lost(v)
    BY <1>1, <2>1, <2>4 DEF Lost
  <2> QED BY <2>5
<1> QED BY <1>2, <1>3, <1>4 DEF Warns

\* No version is warned of without a reason (find_observation, build_assessment).
THEOREM WarningHasReasonCorrect == SkewSpec => []WarningHasReason
BY SkewTypeCorrect, Reason, PTL

-----------------------------------------------------------------------------
(* The evidence.                                                           *)

\* What takes the place of a protected document dominates it.
LEMMA Replaced ==
  ASSUME SkewInv, Rename, doc # Absent, ~ unsealed, held <= Week
  PROVE  doc' \in Documents /\ Dominates(doc', doc)
<1>1. sidecar = [of |-> doc, age |-> held] /\ doc \in Documents /\ held \in Nat
  BY Bounds DEF SkewInv, SealOK, SkewTypeOK
<1>2. sidecar # Absent
  BY <1>1, Bounds
<1>3. Protected
  BY <1>1, <1>2, Bounds DEF Protected
<1> QED BY <1>3 DEF Rename, Rejected, SkewInv, GotOK

\* The warning that rests on what was seen of v stays over a step.
LEMMA Stays ==
  ASSUME SkewInv, [SkewNext]_skewVars, NEW v \in Codex,
         NEW o \in NewestRun(Seen(doc, applied, v)),
         Warns(doc, applied, v), o.verdict # "compatible",
         ~ unsealed, held <= Week
  PROVE  \/ Warns(doc', applied, v)
         \/ \E q \in Seen(doc', applied, v) : q.verdict = "compatible" /\ q.run >= o.run
<1>1. doc # Absent /\ o \in doc.obs /\ o.ver = v /\ o.db = applied
  BY DEF NewestRun, Seen
<1>2. doc' = doc \/ Rename
  BY DEF SkewNext, Step, RunCodex, Begin, BeginDue, Fetch, FetchFails, Reject, Stamp, Unmark,
         Seal, RenameFails, SealFails, Kill, Day, FiveMinutes, SetBack, evidence, skewVars
<1>3. CASE doc' = doc
  BY <1>3
<1>4. CASE Rename
  <2>1. doc \in Documents /\ doc' \in Documents /\ Dominates(doc', doc)
    BY <1>1, <1>4, Replaced DEF SkewInv, SkewTypeOK
  <2>2. /\ Compiled \in Nat /\ doc.max \in Nat /\ doc'.max \in Nat
        /\ doc'.max >= doc.max /\ doc' # Absent /\ applied \in Nat
    BY <2>1, MaxIsNat, Bounds, SkewAssumption
    DEF Dominates, SkewInv, SkewTypeOK, SkewAssumption
  <2>3. Assessed(doc', applied)
    BY <1>1, <2>2 DEF Warns, Assessed, Manifest
  <2>4. PICK q \in doc'.obs : q.db = o.db /\ q.ver = o.ver /\ q.run >= o.run
    BY <1>1, <2>1 DEF Dominates
  <2>5. Seen(doc', applied, v) \subseteq Observation /\ q \in Seen(doc', applied, v)
    BY <1>1, <2>1, <2>2, <2>4, SkewAssumption DEF Seen, SkewAssumption
  <2>6. PICK n \in Seen(doc', applied, v) : n \in NewestRun(Seen(doc', applied, v))
    BY <2>5, NewestIs DEF NewestRun
  <2>7. n.run >= o.run
    <3>1. q.run <= n.run
      BY <2>5, <2>6 DEF NewestRun
    <3>2. /\ o.run \in 0..MaxRun /\ q.run \in 0..MaxRun /\ n.run \in 0..MaxRun
          /\ MaxRun \in Nat
      BY <1>1, <2>1, <2>5, <2>6, SkewAssumption DEF SkewAssumption, Observation
    <3> QED BY <2>4, <3>1, <3>2
  <2>8. ~ Warns(doc', applied, v) => n.verdict = "compatible"
    BY <2>3, <2>5, <2>6 DEF Warns
  <2> QED BY <2>6, <2>7, <2>8
<1> QED BY <1>2, <1>3, <1>4

\* A verdict is not deleted by a document that does not carry it, in the week in
\* which the cached one is protected (refresh_codex_skew_evidence).
THEOREM WarningStaysCorrect == SkewSpec => WarningStays
<1>1. SkewInv /\ [SkewNext]_skewVars
        => [\A v \in Codex : \A o \in NewestRun(Seen(doc, applied, v)) :
              /\ Warns(doc, applied, v) /\ o.verdict # "compatible"
              /\ ~ unsealed /\ held <= Week /\ applied' = applied
              => \/ Warns(doc', applied, v)
                 \/ \E q \in Seen(doc', applied, v) :
                      q.verdict = "compatible" /\ q.run >= o.run]_skewVars
  BY Stays
<1> QED BY SkewInvInit, SkewInvNext, <1>1, PTL DEF SkewSpec, WarningStays
=============================================================================

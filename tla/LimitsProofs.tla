---------------------------- MODULE LimitsProofs ----------------------------
(* Theorems about Limits, for every value of its constants.                *)
EXTENDS Limits, TLAPS

-----------------------------------------------------------------------------
(* The inductive invariant.                                                *)

PollPCs == {"idle", "next", "write", "append", "publish"}
EditPCs == {"idle", "first", "second", "forget", "merge", "publish"}
Recording == poll.pc \in {"write", "append"}

SnapshotOK(s) == s # None => ((s.use = None <=> s.misses > 0) /\ (s.alerted => s.misses > 0))

\* What a poll and an edit hold at each of their points.
PollOK ==
  /\ Recording <=> poll.acct # None
  /\ poll.acct \notin poll.todo
  /\ \A a \in poll.todo : SnapshotOK(poll.last[a])
  /\ SnapshotOK(poll.snap)
  /\ Recording /\ poll.snap.use = None => poll.asked
  /\ "threshold" \in poll.events => poll.snap.use.level >= Bar

\* An edit by itself has neither a poll nor another edit beside it.
EditOK ==
  \A e \in Editors :
    /\ edit[e].op \in {"add", "resume"} => edit[e].pc # "forget"
    /\ edit[e].pc # "idle" /\ edit[e].alone =>
         poll = NoPoll /\ \A f \in Editors \ {e} : edit[f].pc = "idle"
    /\ edit[e].pc # "publish" => edit[e].draft = {}

\* Until its second write an edit that no other has overtaken knows of everybody
\* else what the files say.
Holding(r) == r.pc \in {"first", "second"} \/ (r.pc = "forget" /\ r.op = "remove")

RegistryAt(r) ==
  /\ ~ r.stale /\ Holding(r) => \A b \in Accounts \ {r.acct} : r.to[b] = Loaded[b]
  /\ ~ r.stale /\ r.pc = "second" => live = LivePart(r.to)
  /\ r.pc \in {"first", "second"} /\ r.op \in {"add", "resume"} => r.to[r.acct] = "on"

RegistryOK == \A e \in Editors : RegistryAt(edit[e])

\* Accounts no pause or removal has left, or is about to leave, half done.
Quiet(a) == a \notin torn /\ \A e \in Editors : ~ (edit[e].acct = a /\ Forgets(e))

\* Accounts limits.json names, or may come to name.
Named(a) == \/ a \in shown \/ snap[a] # None \/ a \in poll.todo \/ a = poll.acct
            \/ a \in poll.draft \/ \E e \in Editors : a \in edit[e].draft

NamedOK == \A a \in Accounts : Quiet(a) /\ Named(a) => Loaded[a] = "on"

\* A pause or a removal past its deletion of the snapshot, and nothing beside it.
PastForget(r) ==
  /\ r.alone
  /\ \/ r.op = "pause" /\ r.pc \in {"merge", "publish"}
     \/ r.op = "remove" /\ r.pc \in {"first", "second", "merge", "publish"}

\* Nothing is remembered of account a, and the log's last word is let be.
Blank(a) == snap[a] = None /\ (alert[a] => a \in dropped)

Forgotten ==
  \A e \in Editors : PastForget(edit[e]) =>
    Blank(edit[e].acct) /\ edit[e].acct \notin edit[e].draft

\* What is remembered (s) of the log's last word (al), which a deletion may have
\* cut off (dr).
Remembers(s, al, dr) == (Told(s) => al) /\ (al => Told(s) \/ dr)

\* The log's last word and whether it is cut off, once these events are told.
WordAfter(al, events) == "alert" \in events \/ (al /\ "recovered" \notin events)
CutAfter(dr, events) == dr /\ "alert" \notin events /\ "recovered" \notin events

AlertAt(a) ==
  /\ ~ (poll.pc = "append" /\ poll.acct = a) => Remembers(snap[a], alert[a], a \in dropped)
  /\ a \in poll.todo => poll.last[a] = snap[a]
  /\ Recording /\ poll.acct = a =>
       Remembers(poll.snap, WordAfter(alert[a], poll.events), CutAfter(a \in dropped, poll.events))
  /\ poll.pc = "append" /\ poll.acct = a => snap[a] = poll.snap

AlertOK == \A a \in Accounts : Quiet(a) => AlertAt(a)

\* Use u that was seen is not above the use now, in the window that runs, unless
\* that window is one of un.
Seen(u, now, un) ==
  u # None => /\ u.window <= now.window
              /\ (u.window = now.window /\ u.level > now.level) => u.window \in un

\* Use u, seen after snapshot s, is of no earlier window, and not about empty
\* after some.
Later(s, u, un) ==
  (s # None /\ s.use # None /\ u # None) =>
    /\ s.use.window <= u.window
    /\ (s.use.window = u.window /\ s.use.level > 0 /\ u.level = 0) => u.window \in un

\* A reading that came while a poll runs is of the window that runs.
Fresh(r, now, un) ==
  r.age = "new" => /\ r.use.window = now.window
                   /\ r.use.level = 0 /\ now.level > 0 => now.window \in un

ReadingAt(a) ==
  reading[a] # None =>
    /\ Seen(reading[a].use, usage[a], uneven[a])
    /\ reading[a].age # "old" => Later(snap[a], reading[a].use, uneven[a])
    /\ poll.pc # "idle" => Fresh(reading[a], usage[a], uneven[a])

TodoAt(a) ==
  a \in poll.todo =>
    /\ poll.last[a] # None => Seen(poll.last[a].use, usage[a], uneven[a])
    /\ Seen(poll.took[a], usage[a], uneven[a])
    /\ Later(poll.last[a], poll.took[a], uneven[a])

RecordingAt(a) ==
  Recording /\ poll.acct = a =>
    /\ Seen(poll.snap.use, usage[a], uneven[a])
    /\ "early" \in poll.events => poll.snap.use.window \in uneven[a]

UseOK ==
  \A a \in Accounts :
    /\ snap[a] # None => Seen(snap[a].use, usage[a], uneven[a])
    /\ ReadingAt(a) /\ TodoAt(a) /\ RecordingAt(a)
    /\ early[a] \subseteq uneven[a]

\* The bar of window w is passed: there is nothing more to tell.
Over(u, w) == u.window > w \/ (u.window = w /\ u.level >= Bar)

\* Use u seen after the bar of window w was told: over the bar, if known.
Past(u, w) == u # None => Over(u, w)

PastSnap(s, w) == s # None => Past(s.use, w)

CrossAt(a, w) ==
  crossed[a][w] >= 1 /\ w \notin uneven[a] \cup misread[a] =>
    /\ crossed[a][w] = 1 /\ Over(usage[a], w)
    /\ PastSnap(snap[a], w)
    /\ a \in poll.todo => PastSnap(poll.last[a], w)
    /\ Recording /\ poll.acct = a =>
         /\ poll.pc = "append" \/ ~ poll.blind => Past(poll.snap.use, w)
         /\ "threshold" \in poll.events => poll.snap.use.window # w

CrossOK == \A a \in Accounts, w \in Windows : CrossAt(a, w)

\* Only a pause or a removal takes the snapshot from under a poll that wrote it.
WrittenOK == poll.pc = "append" => snap[poll.acct] \in {poll.snap, None}

LimitsInv ==
  /\ TypeOK /\ PollOK /\ EditOK /\ RegistryOK /\ NamedOK /\ Forgotten /\ AlertOK
  /\ UseOK /\ CrossOK /\ WrittenOK

-----------------------------------------------------------------------------
(* What the steps do to the records of a poll and of an edit.              *)

PollRecords ==
  [pc : PollPCs, kind : Polls \cup {None}, todo : SUBSET Accounts, done : BOOLEAN,
   acct : Accounts \cup {None}, last : [Accounts -> Snapshots \cup {None}],
   took : [Accounts -> Use \cup {None}], asked : BOOLEAN, blind : BOOLEAN,
   snap : Snapshots \cup {None}, events : SUBSET Kinds, draft : SUBSET Accounts]

EditRecords ==
  [pc : EditPCs, op : Edits \cup {None}, acct : Accounts \cup {None}, to : Registries,
   alone : BOOLEAN, stale : BOOLEAN, draft : SUBSET Accounts]

LEMMA Records == TypeOK => poll \in PollRecords /\ edit \in [Editors -> EditRecords]
  BY DEF TypeOK, PollRecords, EditRecords, PollPCs, EditPCs

\* The poll is over.
PollIdle ==
  /\ poll'.pc = "idle" /\ poll'.kind = None /\ poll'.todo = {} /\ poll'.acct = None
  /\ poll'.last = [a \in Accounts |-> None] /\ poll'.took = [a \in Accounts |-> None]
  /\ ~ poll'.asked /\ ~ poll'.blind /\ poll'.snap = None /\ poll'.events = {} /\ poll'.draft = {} /\ ~ poll'.done

LEMMA IdlePoll == poll' = NoPoll => PollIdle
  BY DEF NoPoll, PollIdle

LEMMA NoPollFacts ==
  poll = NoPoll =>
    /\ poll.pc = "idle" /\ poll.kind = None /\ poll.todo = {} /\ poll.acct = None
    /\ poll.last = [a \in Accounts |-> None] /\ poll.took = [a \in Accounts |-> None]
    /\ ~ poll.asked /\ ~ poll.blind /\ poll.snap = None /\ poll.events = {} /\ poll.draft = {} /\ ~ poll.done
  BY DEF NoPoll

\* The poll has left account a behind.
PollPasses(a) ==
  /\ poll'.kind = poll.kind /\ poll'.done = poll.done /\ poll'.draft = poll.draft
  /\ poll'.todo = poll.todo \ {a}
  /\ poll'.last = [poll.last EXCEPT ![a] = None] /\ poll'.took = [poll.took EXCEPT ![a] = None]

PollTakesUp(a, asked, outcome) ==
  /\ PollPasses(a) /\ poll'.pc = "write" /\ poll'.acct = a /\ poll'.asked = asked
  /\ poll'.blind = (~ asked /\ Unknown(poll.last[a]))
  /\ poll'.snap = outcome.snap /\ poll'.events = outcome.events

LEMMA Takes ==
  ASSUME TypeOK, NEW a \in Accounts, NEW asked, NEW outcome, Will(a, asked, outcome)
  PROVE  PollTakesUp(a, asked, outcome)
<1>1. poll \in PollRecords
  BY Records
<1> QED BY <1>1 DEF Will, Passed, PollTakesUp, PollPasses, PollRecords

LEMMA Leaves ==
  ASSUME TypeOK, NEW a \in Accounts, poll' = Passed(a)
  PROVE  /\ PollPasses(a) /\ poll'.pc = poll.pc /\ poll'.acct = poll.acct /\ poll'.asked = poll.asked
         /\ poll'.blind = poll.blind
         /\ poll'.snap = poll.snap /\ poll'.events = poll.events
<1>1. poll \in PollRecords
  BY Records
<1> QED BY <1>1 DEF Passed, PollPasses, PollRecords

\* A poll begins with the accounts, snapshots and readings it finds.
PollBegins(kind) ==
  /\ poll'.pc = "next" /\ poll'.kind = kind /\ poll'.todo = {a \in Accounts : Loaded[a] = "on"}
  /\ poll'.last = snap /\ poll'.took \in [Accounts -> Use \cup {None}]
  /\ \A a \in Accounts :
       poll'.took[a] = IF reading[a] # None /\ (reading[a].age # "old" \/ snap[a] = None)
                         THEN reading[a].use ELSE None
  /\ poll'.acct = None /\ ~ poll'.done /\ ~ poll'.asked /\ ~ poll'.blind
  /\ poll'.snap = None /\ poll'.events = {} /\ poll'.draft = {}

LEMMA Begins ==
  ASSUME TypeOK, NEW kind, PollStart(kind)
  PROVE  PollBegins(kind)
<1> DEFINE t == [a \in Accounts |-> IF reading[a] # None /\ (reading[a].age # "old" \/ snap[a] = None)
                                      THEN reading[a].use ELSE None]
<1>1. t \in [Accounts -> Use \cup {None}]
  BY DEF TypeOK
<1>2. poll' = [NoPoll EXCEPT !.pc = "next", !.kind = kind,
                 !.todo = {a \in Accounts : Loaded[a] = "on"}, !.last = snap, !.took = t]
  BY DEF PollStart
<1>3. poll'.took = t
  BY <1>2 DEF NoPoll
<1> HIDE DEF t
<1>4. /\ poll'.pc = "next" /\ poll'.kind = kind /\ poll'.todo = {a \in Accounts : Loaded[a] = "on"}
      /\ poll'.last = snap /\ poll'.acct = None /\ ~ poll'.done /\ ~ poll'.asked /\ ~ poll'.blind
      /\ poll'.snap = None /\ poll'.events = {} /\ poll'.draft = {}
  BY <1>2 DEF NoPoll
<1>5. \A a \in Accounts :
        poll'.took[a] = IF reading[a] # None /\ (reading[a].age # "old" \/ snap[a] = None)
                          THEN reading[a].use ELSE None
  BY <1>3 DEF t
<1> QED BY <1>1, <1>3, <1>4, <1>5 DEF PollBegins

\* A poll writes the snapshot of its account, then tells the events.
PollWrites ==
  /\ poll'.pc = "append" /\ poll'.kind = poll.kind /\ poll'.done /\ poll'.draft = poll.draft
  /\ poll'.todo = poll.todo /\ poll'.acct = poll.acct /\ poll'.last = poll.last
  /\ poll'.took = poll.took /\ poll'.asked = poll.asked /\ poll'.blind = poll.blind
  /\ poll'.snap = poll.snap /\ poll'.events = poll.events

PollTells ==
  /\ poll'.pc = "next" /\ poll'.kind = poll.kind /\ poll'.done = poll.done /\ poll'.draft = poll.draft
  /\ poll'.todo = poll.todo /\ poll'.acct = None /\ poll'.last = poll.last
  /\ poll'.took = poll.took /\ ~ poll'.asked /\ ~ poll'.blind /\ poll'.snap = None /\ poll'.events = {}

LEMMA Writes == ASSUME TypeOK, NEW a, Write(a) PROVE PollWrites
<1>1. poll \in PollRecords
  BY Records
<1> QED BY <1>1 DEF Write, PollWrites, PollRecords

LEMMA Tells == ASSUME TypeOK, NEW a, Append(a) PROVE PollTells
<1>1. poll \in PollRecords
  BY Records
<1> QED BY <1>1 DEF Append, PollTells, PollRecords

\* The poll is over, or lists what it will publish.
LEMMA Finishes ==
  ASSUME PollEnds
  PROVE  \/ PollIdle /\ poll' = NoPoll
         \/ /\ poll'.pc = "publish" /\ poll'.kind = None /\ poll'.todo = {} /\ poll'.acct = None
            /\ poll'.last = [a \in Accounts |-> None] /\ poll'.took = [a \in Accounts |-> None]
            /\ ~ poll'.asked /\ ~ poll'.blind /\ poll'.snap = None /\ poll'.events = {} /\ ~ poll'.done
            /\ poll'.draft = {a \in Accounts : snap[a] # None}
  BY IdlePoll DEF PollEnds, NoPoll

\* What becomes of the record r of an edit: it goes on, keeping what it is about,
\* or something begins beside it, or another's save overtakes it.
Same(r, q) == q.op = r.op /\ q.acct = r.acct /\ q.draft = r.draft

Goes(r, q, pc) == Same(r, q) /\ q.pc = pc /\ q.alone = r.alone /\ q.stale = r.stale

LEMMA BesideFacts ==
  ASSUME NEW r \in EditRecords
  PROVE  /\ Beside(r) \in EditRecords /\ Same(r, Beside(r)) /\ Beside(r).pc = r.pc
         /\ Beside(r).to = r.to /\ Beside(r).stale = r.stale /\ Beside(r).alone = (r.pc = "idle")
  BY DEF Beside, EditRecords, Same

LEMMA OvertakenFacts ==
  ASSUME NEW r \in EditRecords
  PROVE  /\ Overtaken(r) \in EditRecords /\ Same(r, Overtaken(r)) /\ Overtaken(r).pc = r.pc
         /\ Overtaken(r).to = r.to /\ Overtaken(r).alone = r.alone
         /\ Overtaken(r).stale = (r.pc # "idle")
  BY DEF Overtaken, EditRecords, Same

LEMMA NoEditFacts ==
  /\ NoEdit \in EditRecords /\ NoEdit.pc = "idle" /\ NoEdit.op = None /\ NoEdit.acct = None
  /\ NoEdit.to = Nobody /\ NoEdit.alone /\ ~ NoEdit.stale /\ NoEdit.draft = {}
  BY DEF NoEdit, EditRecords, EditPCs, Nobody, Registries, Entries

\* An edit begins with the registry it loads and its entry changed.
Begun(r, op, a) ==
  /\ r.pc = (IF op = "remove" THEN "forget" ELSE "first")
  /\ r.op = op /\ r.acct = a /\ (r.alone <=> (poll = NoPoll /\ Idle)) /\ r.draft = {} /\ ~ r.stale
  /\ r.to = [Loaded EXCEPT ![a] = IF op = "pause" THEN "paused"
                                   ELSE IF op = "remove" THEN "none" ELSE "on"]

LEMMA EditStarts ==
  ASSUME TypeOK, NEW e \in Editors, NEW op \in Edits, NEW a \in Accounts, EditStart(e, op, a)
  PROVE  /\ Begun(edit'[e], op, a) /\ edit'[e] \in EditRecords
         /\ \A f \in Editors \ {e} : edit'[f] = Beside(edit[f])
<1> DEFINE l == [Loaded EXCEPT ![a] = CASE op = "pause" -> "paused" [] op = "remove" -> "none"
                                        [] OTHER -> "on"]
           p == IF op = "remove" THEN "forget" ELSE "first"
           n == poll = NoPoll /\ Idle
           r == [NoEdit EXCEPT !.pc = p, !.op = op, !.acct = a, !.alone = n, !.to = l]
<1>1. edit'[e] = r /\ \A f \in Editors \ {e} : edit'[f] = Beside(edit[f])
  BY DEF EditStart
<1>2. l \in Registries /\ p \in EditPCs /\ n \in BOOLEAN
  <2>1. Loaded \in Registries
    BY DEF TypeOK, Loaded, Registries
  <2> QED BY <2>1 DEF Registries, Entries, EditPCs
<1>3. l = [Loaded EXCEPT ![a] = IF op = "pause" THEN "paused"
                                   ELSE IF op = "remove" THEN "none" ELSE "on"]
  OBVIOUS
<1>4. PICK v \in BOOLEAN : v = n
  BY <1>2
<1>5. edit'[e] = [NoEdit EXCEPT !.pc = p, !.op = op, !.acct = a, !.alone = v, !.to = l]
  BY <1>1, <1>4
<1> HIDE DEF l, p, n
<1>6. edit'[e] = [pc |-> p, op |-> op, acct |-> a, to |-> l, alone |-> v, stale |-> FALSE, draft |-> {}]
  BY <1>5 DEF NoEdit
<1>7. edit'[e] \in EditRecords
  BY <1>2, <1>6 DEF EditRecords
<1>8. /\ edit'[e].pc = p /\ edit'[e].op = op /\ edit'[e].acct = a /\ edit'[e].to = l
      /\ edit'[e].draft = {} /\ ~ edit'[e].stale /\ edit'[e].alone = v
  BY <1>6
<1>9. edit'[e].alone <=> n
  BY <1>4, <1>8
<1> QED BY <1>1, <1>3, <1>7, <1>8, <1>9 DEF Begun, p, n

\* An editor's record after the steps of its own.
LEMMA OwnStep ==
  ASSUME TypeOK, NEW e \in Editors
  PROVE  /\ \A pc \in EditPCs : EditTo(e, pc) =>
              /\ edit'[e] \in EditRecords /\ Goes(edit[e], edit'[e], pc) /\ edit'[e].to = edit[e].to
              /\ \A f \in Editors \ {e} : edit'[f] = edit[f]
         /\ EditFirst(e) =>
              /\ edit'[e] \in EditRecords /\ Goes(edit[e], edit'[e], "second")
              /\ edit'[e].to = edit[e].to
         /\ EditSecond(e) =>
              \/ edit[e].op = "add" /\ edit'[e] = NoEdit
              \/ /\ edit[e].op # "add" /\ edit'[e] \in EditRecords
                 /\ Goes(edit[e], edit'[e], IF edit[e].op = "pause" THEN "forget" ELSE "merge")
         /\ EditMerges(e) =>
              /\ edit'[e] \in EditRecords
              /\ edit'[e].pc = "publish" /\ edit'[e].op = edit[e].op /\ edit'[e].acct = edit[e].acct
              /\ edit'[e].alone = edit[e].alone /\ edit'[e].draft = {a \in Accounts : snap[a] # None}
              /\ \A f \in Editors \ {e} : edit'[f] = edit[f]
         /\ EditPublishes(e) \/ KillEdit(e) =>
              edit'[e] = NoEdit /\ \A f \in Editors \ {e} : edit'[f] = edit[f]
<1>1. edit \in [Editors -> EditRecords]
  BY Records
<1>2. ASSUME NEW pc \in EditPCs, EditTo(e, pc)
      PROVE  /\ edit'[e] \in EditRecords /\ Goes(edit[e], edit'[e], pc) /\ edit'[e].to = edit[e].to
             /\ \A f \in Editors \ {e} : edit'[f] = edit[f]
  <2>1. edit'[e] = [edit[e] EXCEPT !.pc = pc] /\ \A f \in Editors \ {e} : edit'[f] = edit[f]
    BY <1>1, <1>2 DEF EditTo
  <2> QED BY <1>1, <2>1 DEF EditRecords, Goes, Same
<1>3. ASSUME EditFirst(e)
      PROVE  /\ edit'[e] \in EditRecords /\ Goes(edit[e], edit'[e], "second")
             /\ edit'[e].to = edit[e].to
  <2>1. edit'[e] = [edit[e] EXCEPT !.pc = "second"]
    BY <1>3 DEF EditFirst, SavedBy
  <2> QED BY <1>1, <2>1 DEF EditRecords, EditPCs, Goes, Same
<1>4. ASSUME EditSecond(e)
      PROVE  \/ edit[e].op = "add" /\ edit'[e] = NoEdit
             \/ /\ edit[e].op # "add" /\ edit'[e] \in EditRecords
                /\ Goes(edit[e], edit'[e], IF edit[e].op = "pause" THEN "forget" ELSE "merge")
  <2> DEFINE p == IF edit[e].op = "pause" THEN "forget" ELSE "merge"
  <2>1. edit'[e] = IF edit[e].op = "add" THEN NoEdit ELSE [edit[e] EXCEPT !.pc = p, !.to = Nobody]
    BY <1>4 DEF EditSecond, SavedBy
  <2>2. p \in EditPCs /\ Nobody \in Registries
    BY DEF EditPCs, Nobody, Registries, Entries
  <2> HIDE DEF p
  <2>3. CASE edit[e].op # "add"
    <3>1. edit'[e] = [edit[e] EXCEPT !.pc = p, !.to = Nobody]
      BY <2>1, <2>3
    <3>2. edit'[e] \in EditRecords /\ Goes(edit[e], edit'[e], p)
      BY <1>1, <2>2, <3>1 DEF EditRecords, Goes, Same
    <3> QED BY <2>3, <3>2 DEF p
  <2> QED BY <2>1, <2>3
<1>5. ASSUME EditMerges(e)
      PROVE  /\ edit'[e] \in EditRecords
             /\ edit'[e].pc = "publish" /\ edit'[e].op = edit[e].op /\ edit'[e].acct = edit[e].acct
             /\ edit'[e].alone = edit[e].alone /\ edit'[e].draft = {a \in Accounts : snap[a] # None}
             /\ \A f \in Editors \ {e} : edit'[f] = edit[f]
  <2> DEFINE d == {a \in Accounts : snap[a] # None}
  <2>1. d \subseteq Accounts
    OBVIOUS
  <2>2. edit' = [edit EXCEPT ![e].pc = "publish", ![e].draft = d]
    BY <1>5 DEF EditMerges
  <2> HIDE DEF d
  <2>3. edit'[e] = [edit[e] EXCEPT !.pc = "publish", !.draft = d]
        /\ \A f \in Editors \ {e} : edit'[f] = edit[f]
    BY <1>1, <2>2
  <2>a. edit[e] \in EditRecords
    BY <1>1
  <2>b. edit'[e] \in EditRecords
    BY <2>a, <2>1, <2>3 DEF EditRecords, EditPCs
  <2>4. /\ edit'[e] \in EditRecords
        /\ edit'[e].pc = "publish" /\ edit'[e].op = edit[e].op /\ edit'[e].acct = edit[e].acct
        /\ edit'[e].alone = edit[e].alone /\ edit'[e].draft = d
    BY <2>a, <2>b, <2>3 DEF EditRecords
  <2> QED BY <2>3, <2>4 DEF d
<1>6. ASSUME EditPublishes(e) \/ KillEdit(e)
      PROVE  edit'[e] = NoEdit /\ \A f \in Editors \ {e} : edit'[f] = edit[f]
  BY <1>1, <1>6 DEF EditPublishes, KillEdit
<1> QED BY <1>2, <1>3, <1>4, <1>5, <1>6

-----------------------------------------------------------------------------
(* Who changes what.                                                       *)

\* A step of the command that editor e runs.
EditStep(e) ==
  \/ EditFirst(e) \/ EditSecond(e) \/ Forget(e) \/ EditMerges(e) \/ EditPublishes(e) \/ KillEdit(e)
  \/ \E op \in Edits, a \in Accounts : EditStart(e, op, a)

\* A step of the provider, of a session or of the poll.
OtherStep ==
  \/ \E a \in Accounts : Used(a) \/ WindowEnds(a) \/ EarlyReset(a) \/ Report(a)
  \/ \E kind \in Polls : PollStart(kind)
  \/ \E a \in Accounts : TakeLive(a) \/ Ask(a) \/ Leave(a) \/ Write(a) \/ Append(a)
  \/ PollEnds \/ PollPublishes \/ KillPoll

LEMMA Steps ==
  ASSUME [Next]_vars
  PROVE  OtherStep \/ (\E e \in Editors : EditStep(e)) \/ UNCHANGED vars
  BY DEF Next, OtherStep, EditStep

\* What an edit leaves alone.
LEMMA EditLeaves ==
  ASSUME NEW e \in Editors, EditStep(e)
  PROVE  UNCHANGED <<usage, reading, poll, crossed, early, alert, odd, commands>>
         \/ (\E op \in Edits, a \in Accounts : EditStart(e, op, a))
  BY DEF EditStep, log, count, EditFirst, EditSecond, Forget, EditMerges, EditPublishes, KillEdit

LEMMA EditLeavesPoll ==
  ASSUME NEW e \in Editors, EditStep(e)
  PROVE  UNCHANGED <<usage, reading, poll, crossed, early, alert, odd>>
  BY EditLeaves DEF EditStart, log

LEMMA FilesMoves ==
  ASSUME [Next]_vars
  PROVE  \/ UNCHANGED files
         \/ PollPublishes \/ \E a \in Accounts : Write(a)
         \/ \E e \in Editors : EditFirst(e) \/ EditSecond(e) \/ EditPublishes(e) \/ Forget(e)
  BY Steps DEF OtherStep, EditStep, vars, files, Used, WindowEnds, EarlyReset, Report, PollStart,
         TakeLive, Ask, Leave, Append, PollEnds, KillPoll, EditStart, EditMerges, KillEdit

LEMMA SeenMoves ==
  ASSUME [Next]_vars
  PROVE  \/ UNCHANGED <<usage, reading>>
         \/ \E a \in Accounts : Used(a) \/ WindowEnds(a) \/ EarlyReset(a) \/ Report(a) \/ Write(a)
         \/ \E kind \in Polls : PollStart(kind)
  BY Steps, EditLeavesPoll
  DEF OtherStep, vars, TakeLive, Ask, Leave, Append, PollEnds, PollPublishes, KillPoll

LEMMA PollMoves ==
  ASSUME [Next]_vars
  PROVE  \/ UNCHANGED poll
         \/ \E kind \in Polls : PollStart(kind)
         \/ \E a \in Accounts : TakeLive(a) \/ Ask(a) \/ Leave(a) \/ Write(a) \/ Append(a)
         \/ PollEnds \/ PollPublishes \/ KillPoll
  BY Steps, EditLeavesPoll DEF OtherStep, vars, Used, WindowEnds, EarlyReset, Report

\* An editor's record changes with its own steps, when something begins beside it
\* and when another saves.
Joined(e) ==
  /\ edit'[e] = Beside(edit[e]) /\ UNCHANGED files
  /\ \/ \E kind \in Polls : PollStart(kind)
     \/ \E f \in Editors \ {e}, op \in Edits, a \in Accounts : EditStart(f, op, a)

Passes(e) ==
  edit'[e] = Overtaken(edit[e]) /\ \E f \in Editors \ {e} : EditFirst(f) \/ EditSecond(f)

LEMMA EditMoves ==
  ASSUME TypeOK, [Next]_vars, NEW e \in Editors
  PROVE  edit'[e] = edit[e] \/ EditStep(e) \/ Joined(e) \/ Passes(e)
<1>1. CASE \E kind \in Polls : PollStart(kind)
  BY <1>1 DEF PollStart, Joined
<1>2. CASE OtherStep /\ ~ \E kind \in Polls : PollStart(kind)
  BY <1>2 DEF OtherStep, Used, WindowEnds, EarlyReset, Report, TakeLive, Ask, Leave, Write, Append,
              PollEnds, PollPublishes, KillPoll
<1>3. CASE EditStep(e)
  BY <1>3
<1>4. ASSUME NEW f \in Editors \ {e}, EditStep(f) PROVE edit'[e] = edit[e] \/ Joined(e) \/ Passes(e)
  <2>1. ASSUME NEW op \in Edits, NEW a \in Accounts, EditStart(f, op, a) PROVE Joined(e)
    <3>1. edit'[e] = Beside(edit[e])
      BY <2>1, EditStarts
    <3>2. UNCHANGED files
      BY <2>1 DEF EditStart
    <3> QED BY <2>1, <3>1, <3>2 DEF Joined
  <2>2. CASE EditFirst(f) \/ EditSecond(f)
    <3>1. edit'[e] = Overtaken(edit[e])
      BY <2>2 DEF EditFirst, EditSecond, SavedBy
    <3> QED BY <2>2, <3>1 DEF Passes
  <2>3. CASE EditMerges(f) \/ EditPublishes(f) \/ KillEdit(f)
    BY <2>3, OwnStep
  <2>4. CASE Forget(f)
    <3>1. \E pc \in EditPCs : EditTo(f, pc)
      BY <2>4 DEF Forget, EditPCs
    <3> QED BY <3>1, OwnStep
  <2> QED BY <1>4, <2>1, <2>2, <2>3, <2>4 DEF EditStep
<1>5. CASE UNCHANGED vars
  BY <1>5 DEF vars
<1> QED BY <1>1, <1>2, <1>3, <1>4, <1>5, Steps

LEMMA LogMoves ==
  ASSUME [Next]_vars
  PROVE  \/ UNCHANGED <<count, log, odd, torn>>
         \/ \E a \in Accounts : EarlyReset(a) \/ Report(a) \/ Write(a) \/ Append(a)
         \/ \E kind \in Polls : PollStart(kind)
         \/ KillPoll
         \/ \E e \in Editors : \/ \E op \in Edits, a \in Accounts : EditStart(e, op, a)
                               \/ EditFirst(e) \/ EditSecond(e) \/ Forget(e)
                               \/ EditPublishes(e) \/ KillEdit(e)
  BY Steps DEF OtherStep, EditStep, vars, Used, WindowEnds, TakeLive, Ask, Leave,
         PollEnds, PollPublishes, EditMerges

-----------------------------------------------------------------------------
(* Types.                                                                  *)

StoreTyped ==
  /\ config \in Registries /\ live \in Registries
  /\ snap \in [Accounts -> Snapshots \cup {None}] /\ shown \subseteq Accounts
  /\ \A a \in Accounts : SnapshotOK(snap[a])

SeenTyped ==
  /\ usage \in [Accounts -> Use]
  /\ reading \in [Accounts -> [use : Use, age : {"new", "read", "old"}] \cup {None}]

PollTyped ==
  /\ poll \in PollRecords
  /\ poll.pc \in {"write", "append"} => poll.acct # None /\ poll.snap # None
  /\ poll.events \cap {"threshold", "early"} # {} => poll.snap.use # None

EditTyped ==
  /\ edit \in [Editors -> EditRecords]
  /\ \A e \in Editors : edit[e].pc # "idle" => edit[e].acct # None /\ edit[e].op # None

LogTyped ==
  /\ commands \in 0..MaxCommands /\ mishaps \in 0..MaxMishaps
  /\ crossed \in [Accounts -> [Windows -> 0..2]] /\ alert \in [Accounts -> BOOLEAN]
  /\ early \in [Accounts -> SUBSET Windows]
  /\ uneven \in [Accounts -> SUBSET Windows] /\ misread \in [Accounts -> SUBSET Windows]
  /\ dropped \subseteq Accounts /\ torn \subseteq Accounts

LEMMA Typed == TypeOK <=> StoreTyped /\ SeenTyped /\ PollTyped /\ EditTyped /\ LogTyped
  BY DEF TypeOK, StoreTyped, SeenTyped, PollTyped, EditTyped, LogTyped, SnapshotOK,
         PollRecords, EditRecords, PollPCs, EditPCs

\* Snapshots a poll makes are well formed.
Outcome(o) == /\ o.snap \in Snapshots /\ SnapshotOK(o.snap) /\ o.events \subseteq Kinds
              /\ o.events \cap {"threshold", "early"} # {} => o.snap.use # None

LEMMA AnswerOutcome ==
  ASSUME NEW last \in Snapshots \cup {None}, NEW use \in Use
  PROVE  Outcome(Answer(last, use))
<1> DEFINE s == [use |-> use, misses |-> 0, alerted |-> FALSE]
           e == IF last = None THEN {}
                ELSE (IF last.use = None THEN {} ELSE Noticed(last.use, use))
                     \cup (IF last.alerted THEN {"recovered"} ELSE {})
<1>1. Answer(last, use).snap = s /\ Answer(last, use).events = e
  BY DEF Answer
<1>2. use # None
  BY NoneAssumption
<1>3. s \in Snapshots /\ SnapshotOK(s) /\ s.use # None
  BY <1>2 DEF Snapshots, SnapshotOK
<1>4. e \subseteq Kinds
  BY DEF Noticed, Kinds
<1> QED BY <1>1, <1>3, <1>4 DEF Outcome

LEMMA MissOutcome ==
  ASSUME NEW last \in Snapshots \cup {None}, SnapshotOK(last)
  PROVE  Outcome(Miss(last))
<1> DEFINE n    == IF last = None THEN 1 ELSE IF last.misses < 3 THEN last.misses + 1 ELSE 3
           told == last # None /\ n <= 2
           al   == told \/ (last # None /\ last.alerted /\ last.misses > 0)
           s    == [use |-> None, misses |-> n, alerted |-> al]
           e    == IF told THEN {"alert"} ELSE {}
<1>1. Miss(last).snap = s /\ Miss(last).events = e
  BY DEF Miss
<1>2. n \in 1..3 /\ al \in BOOLEAN
  BY DEF Snapshots
<1>3. e \subseteq Kinds /\ e \cap {"threshold", "early"} = {}
  BY DEF Kinds
<1> HIDE DEF n, told, al, e
<1>4. s \in Snapshots /\ SnapshotOK(s)
  BY <1>2 DEF Snapshots, SnapshotOK
<1> QED BY <1>1, <1>3, <1>4 DEF Outcome

LEMMA AppliedUse ==
  ASSUME NEW last \in Snapshots \cup {None}, NEW use \in Use
  PROVE  Applied(last, use) \in Use
  BY DEF Applied, Stale, Snapshots

LEMMA InitType == Init => TypeOK /\ PollOK
<1> SUFFICES ASSUME Init PROVE TypeOK /\ PollOK
  OBVIOUS
<1>1. StoreTyped
  BY ConstantsAssumption DEF Init, StoreTyped, Registries, Entries, SnapshotOK
<1>2. SeenTyped
  BY ConstantsAssumption DEF Init, SeenTyped, Use, Windows, Levels
<1>3. PollTyped /\ PollOK
  <2>1. poll = NoPoll
    BY DEF Init
  <2>2. poll \in PollRecords
    BY <2>1 DEF NoPoll, PollRecords, PollPCs
  <2> QED BY <2>1, <2>2, NoPollFacts, NoneAssumption DEF PollTyped, PollOK, Recording, SnapshotOK
<1>4. EditTyped
  BY NoEditFacts DEF Init, EditTyped
<1>5. LogTyped
  BY ConstantsAssumption DEF Init, LogTyped
<1> QED BY <1>1, <1>2, <1>3, <1>4, <1>5, Typed

LEMMA LoadedType ==
  ASSUME TypeOK
  PROVE  Loaded \in Registries
  BY DEF TypeOK, Loaded, Registries

LEMMA StoreType ==
  ASSUME TypeOK, PollOK, [Next]_vars
  PROVE  StoreTyped'
<1>0. StoreTyped /\ poll \in PollRecords /\ edit \in [Editors -> EditRecords] /\ PollTyped
  BY Typed, Records
<1>1. CASE UNCHANGED files
  BY <1>0, <1>1 DEF files, StoreTyped
<1>2. ASSUME NEW e \in Editors, EditFirst(e) PROVE StoreTyped'
  <2>1. LivePart(edit[e].to) \in Registries
    BY <1>0 DEF LivePart, Registries, Entries, EditRecords
  <2> QED BY <1>0, <1>2, <2>1 DEF EditFirst, SaveFirst, StoreTyped
<1>3. ASSUME NEW e \in Editors, EditSecond(e) PROVE StoreTyped'
  <2>1. PolledPart(edit[e].to) \in Registries
    BY <1>0 DEF PolledPart, Registries, Entries, EditRecords
  <2> QED BY <1>0, <1>3, <2>1 DEF EditSecond, SaveSecond, StoreTyped
<1>4. CASE PollPublishes
  BY <1>0, <1>4 DEF PollPublishes, StoreTyped, PollRecords
<1>5. ASSUME NEW e \in Editors, EditPublishes(e) PROVE StoreTyped'
  BY <1>0, <1>5 DEF EditPublishes, StoreTyped, EditRecords
<1>6. ASSUME NEW a \in Accounts, Write(a) PROVE StoreTyped'
  <2>1. poll.snap \in Snapshots /\ SnapshotOK(poll.snap)
    BY <1>0, <1>6 DEF Write, PollTyped, PollRecords, PollOK
  <2> QED BY <1>0, <1>6, <2>1 DEF Write, StoreTyped
<1>7. ASSUME NEW e \in Editors, Forget(e) PROVE StoreTyped'
  BY <1>0, <1>7 DEF Forget, StoreTyped, SnapshotOK
<1> QED BY <1>1, <1>2, <1>3, <1>4, <1>5, <1>6, <1>7, FilesMoves

LEMMA SeenType ==
  ASSUME TypeOK, [Next]_vars
  PROVE  SeenTyped'
<1>0. SeenTyped
  BY Typed
<1>1. CASE UNCHANGED <<usage, reading>>
  BY <1>0, <1>1 DEF SeenTyped
<1>2. ASSUME NEW a \in Accounts, Used(a) PROVE SeenTyped'
  BY <1>0, <1>2 DEF Used, SeenTyped, Use, Levels, Bar
<1>3. ASSUME NEW a \in Accounts, WindowEnds(a) PROVE SeenTyped'
  BY <1>0, <1>3, ConstantsAssumption DEF WindowEnds, SeenTyped, Use, Levels, Windows
<1>4. ASSUME NEW a \in Accounts, EarlyReset(a) PROVE SeenTyped'
  BY <1>0, <1>4 DEF EarlyReset, SeenTyped, Use, Levels
<1>5. ASSUME NEW a \in Accounts, Report(a) PROVE SeenTyped'
  <2>1. PICK l \in Levels : reading' = [reading EXCEPT ![a] =
                   [use |-> [window |-> usage[a].window, level |-> l], age |-> "new"]]
    BY <1>5 DEF Report
  <2>2. [window |-> usage[a].window, level |-> l] \in Use
    BY <1>0 DEF SeenTyped, Use
  <2> QED BY <1>0, <1>5, <2>1, <2>2 DEF Report, SeenTyped
<1>6. ASSUME NEW a \in Accounts, Write(a) PROVE SeenTyped'
  BY <1>0, <1>6 DEF Write, SeenTyped
<1>7. ASSUME NEW kind \in Polls, PollStart(kind) PROVE SeenTyped'
  BY <1>0, <1>7 DEF PollStart, SeenTyped
<1> QED BY <1>1, <1>2, <1>3, <1>4, <1>5, <1>6, <1>7, SeenMoves

\* Whatever the poll takes up, and a failure it takes up it has asked for.
LEMMA TakesType ==
  ASSUME TypeOK, PollOK, NEW a \in Accounts, Turn(a), NEW asked \in BOOLEAN, NEW o, Outcome(o),
         Will(a, asked, o),
         o.snap.use = None => asked, "threshold" \in o.events => o.snap.use.level >= Bar
  PROVE  PollTyped' /\ PollOK'
<1>0. poll \in PollRecords
  BY Records
<1>a. PollTakesUp(a, asked, o)
  BY Takes
<1>1. poll' \in PollRecords
  BY <1>0 DEF Outcome, Will, Passed, PollRecords, PollPCs
<1>2. PollTyped'
  BY <1>a, <1>1, NoneAssumption DEF PollTyped, PollTakesUp, Outcome
<1>3. \A b \in poll'.todo : poll'.last[b] = poll.last[b]
  BY <1>0, <1>a DEF PollTakesUp, PollPasses, PollRecords
<1> QED BY <1>0, <1>a, <1>2, <1>3, NoneAssumption DEF PollOK, PollTakesUp, PollPasses, Outcome, Recording, SnapshotOK

LEMMA PollType ==
  ASSUME TypeOK, PollOK, [Next]_vars
  PROVE  PollTyped' /\ PollOK'
<1>0. PollTyped /\ StoreTyped /\ SeenTyped /\ poll \in PollRecords
  BY Typed, Records
<1>1. CASE UNCHANGED poll
  BY <1>0, <1>1 DEF PollTyped, PollOK, Recording
<1>2. ASSUME NEW kind \in Polls, PollStart(kind) PROVE PollTyped' /\ PollOK'
  <2>1. PollBegins(kind)
    BY <1>2, Begins
  <2>2. \A b \in Accounts : SnapshotOK(poll'.last[b])
    BY <1>0, <2>1 DEF StoreTyped, PollBegins
  <2>3. poll' \in PollRecords
    BY <1>0, <1>2, <2>1 DEF PollStart, NoPoll, PollBegins, PollRecords, PollPCs, StoreTyped
  <2> QED BY <2>1, <2>2, <2>3, NoneAssumption DEF PollTyped, PollOK, PollBegins, Recording, SnapshotOK
<1>3. ASSUME NEW a \in Accounts, TakeLive(a) PROVE PollTyped' /\ PollOK'
  <2> DEFINE use == Applied(poll.last[a], poll.took[a])
             o == Answer(poll.last[a], use)
  <2>1. poll.last[a] \in Snapshots \cup {None} /\ poll.took[a] \in Use
    BY <1>0, <1>3 DEF TakeLive, HasLive, PollRecords
  <2>2. use \in Use
    BY <2>1, AppliedUse
  <2>3. Outcome(o)
    BY <2>1, <2>2, AnswerOutcome
  <2>4. o.snap.use = use /\ use # None
    BY <2>2, NoneAssumption DEF Answer
  <2>5. "threshold" \in o.events => use.level >= Bar
    BY DEF Answer, Noticed, Crosses
  <2>6. Will(a, FALSE, o) /\ Turn(a)
    BY <1>3 DEF TakeLive
  <2> HIDE DEF use, o
  <2>9. o.snap.use # None /\ ("threshold" \in o.events => o.snap.use.level >= Bar)
    BY <2>4, <2>5
  <2> QED BY <2>3, <2>6, <2>9, TakesType
<1>4. ASSUME NEW a \in Accounts, Ask(a) PROVE PollTyped' /\ PollOK'
  <2>1. poll.last[a] \in Snapshots \cup {None} /\ usage[a] \in Use /\ Turn(a) /\ SnapshotOK(poll.last[a])
    BY <1>0, <1>4 DEF Ask, Turn, PollRecords, SeenTyped, PollOK
  <2>2. PICK o \in {Answer(poll.last[a], usage[a]), Miss(poll.last[a])} : Will(a, TRUE, o)
    BY <1>4 DEF Ask
  <2>3. Outcome(o)
    BY <2>1, <2>2, AnswerOutcome, MissOutcome
  <2>4. "threshold" \in o.events => o.snap.use.level >= Bar
    <3>1. CASE o = Answer(poll.last[a], usage[a])
      BY <3>1 DEF Answer, Noticed, Crosses
    <3>2. CASE o = Miss(poll.last[a])
      BY <3>2 DEF Miss
    <3> QED BY <2>2, <3>1, <3>2
  <2> QED BY <2>1, <2>2, <2>3, <2>4, TakesType
<1>5. ASSUME NEW a \in Accounts, Leave(a) PROVE PollTyped' /\ PollOK'
  <2>1. poll' = Passed(a)
    BY <1>5 DEF Leave
  <2>2. poll' \in PollRecords
    BY <1>0, <2>1 DEF Passed, PollRecords
  <2>3. /\ PollPasses(a) /\ poll'.pc = poll.pc /\ poll'.acct = poll.acct /\ poll'.asked = poll.asked
        /\ poll'.blind = poll.blind
        /\ poll'.snap = poll.snap /\ poll'.events = poll.events
    BY <2>1, Leaves
  <2>4. \A b \in poll'.todo : poll'.last[b] = poll.last[b]
    BY <1>0, <2>3 DEF PollPasses, PollRecords
  <2> QED BY <1>0, <2>2, <2>3, <2>4 DEF PollTyped, PollOK, PollPasses, Recording
<1>6. ASSUME NEW a \in Accounts, Write(a) PROVE PollTyped' /\ PollOK'
  <2>1. poll' = [poll EXCEPT !.pc = "append", !.done = TRUE] /\ poll.pc = "write"
    BY <1>6 DEF Write
  <2>2. poll' \in PollRecords
    BY <1>0, <2>1 DEF PollRecords, PollPCs
  <2>3. PollWrites
    BY <1>6, Writes
  <2> QED BY <1>0, <2>1, <2>2, <2>3 DEF PollTyped, PollOK, PollWrites, Recording
<1>7. ASSUME NEW a \in Accounts, Append(a) PROVE PollTyped' /\ PollOK'
  <2>1. poll' = [poll EXCEPT !.pc = "next", !.acct = None, !.asked = FALSE, !.blind = FALSE,
                             !.snap = None, !.events = {}]
    BY <1>7 DEF Append
  <2>2. poll' \in PollRecords
    BY <1>0, <2>1 DEF PollRecords, PollPCs
  <2>3. PollTells
    BY <1>7, Tells
  <2>4. None \notin poll'.todo
    BY <2>2, NoneAssumption DEF PollRecords
  <2> QED BY <1>0, <2>2, <2>3, <2>4 DEF PollTyped, PollOK, PollTells, Recording, SnapshotOK
<1>8. ASSUME poll' = NoPoll PROVE PollTyped' /\ PollOK'
  <2>1. poll' \in PollRecords
    BY <1>8 DEF NoPoll, PollRecords, PollPCs
  <2> QED BY <1>8, <2>1, IdlePoll DEF PollTyped, PollOK, PollIdle, Recording, SnapshotOK
<1>9. CASE PollEnds
  <2>1. CASE poll' = NoPoll
    BY <1>8, <2>1
  <2>2. CASE poll' = [NoPoll EXCEPT !.pc = "publish", !.draft = {a \in Accounts : snap[a] # None}]
    <3> DEFINE d == {a \in Accounts : snap[a] # None}
    <3>1. d \subseteq Accounts
      OBVIOUS
    <3> HIDE DEF d
    <3>2. poll' = [NoPoll EXCEPT !.pc = "publish", !.draft = d]
      BY <2>2 DEF d
    <3>3. poll' \in PollRecords
      BY <3>1, <3>2 DEF NoPoll, PollRecords, PollPCs
    <3>4. poll'.pc = "publish" /\ poll'.todo = {} /\ poll'.acct = None /\ poll'.snap = None /\ poll'.events = {}
      BY <3>2 DEF NoPoll
    <3> QED BY <3>3, <3>4 DEF PollTyped, PollOK, Recording, SnapshotOK
  <2> QED BY <1>9, <2>1, <2>2 DEF PollEnds
<1>10. CASE PollPublishes \/ KillPoll
  BY <1>8, <1>10 DEF PollPublishes, KillPoll
<1> QED BY <1>1, <1>2, <1>3, <1>4, <1>5, <1>6, <1>7, <1>9, <1>10, PollMoves

\* A poll that is at work is not the absence of one.
LEMMA PollAtWork ==
  ASSUME [Next]_vars, poll = NoPoll
  PROVE  UNCHANGED poll \/ \E kind \in Polls : PollStart(kind)
  BY PollMoves, NoPollFacts
  DEF TakeLive, Ask, Leave, Turn, Write, Append, PollEnds, PollPublishes, KillPoll

LEMMA EditFun ==
  ASSUME TypeOK, [Next]_vars
  PROVE  edit' = [f \in Editors |-> edit'[f]]
<1>0. edit = [f \in Editors |-> edit[f]]
  BY DEF TypeOK
<1>1. CASE OtherStep \/ UNCHANGED vars
  BY <1>0, <1>1
  DEF OtherStep, vars, Used, WindowEnds, EarlyReset, Report, PollStart, TakeLive, Ask, Leave,
      Write, Append, PollEnds, PollPublishes, KillPoll
<1>2. ASSUME NEW e \in Editors, EditStep(e) PROVE edit' = [f \in Editors |-> edit'[f]]
  BY <1>0, <1>2 DEF EditStep, EditStart, EditFirst, EditSecond, SavedBy, Forget, EditTo, EditMerges,
                    EditPublishes, KillEdit
<1> QED BY <1>1, <1>2, Steps

LEMMA EditType ==
  ASSUME TypeOK, EditOK, [Next]_vars
  PROVE  EditTyped' /\ EditOK'
<1>0. EditTyped /\ edit \in [Editors -> EditRecords] /\ NoPoll' = NoPoll
  BY Typed, Records DEF NoPoll
\* By itself: nothing begins beside it unless it says so.
<1>1. ASSUME NEW e \in Editors, edit'[e].pc # "idle", edit'[e].alone
      PROVE  poll' = NoPoll /\ \A f \in Editors \ {e} : edit'[f].pc = "idle"
  <2>1. ASSUME NEW kind \in Polls, PollStart(kind) PROVE FALSE
    <3>1. edit'[e] = Beside(edit[e])
      BY <2>1 DEF PollStart
    <3> QED BY <1>0, <1>1, <3>1, BesideFacts
  <2>2. ASSUME NEW f \in Editors \ {e}, NEW op \in Edits, NEW a \in Accounts, EditStart(f, op, a) PROVE FALSE
    <3>1. edit'[e] = Beside(edit[e])
      BY <2>2, EditStarts
    <3> QED BY <1>0, <1>1, <3>1, BesideFacts
  <2>3. ASSUME NEW op \in Edits, NEW a \in Accounts, EditStart(e, op, a)
        PROVE  poll' = NoPoll /\ \A f \in Editors \ {e} : edit'[f].pc = "idle"
    <3>a. Begun(edit'[e], op, a) /\ \A f \in Editors \ {e} : edit'[f] = Beside(edit[f])
      BY <2>3, EditStarts
    <3>b. poll = NoPoll /\ Idle
      BY <1>1, <3>a DEF Begun
    <3>1. poll = NoPoll /\ Idle /\ UNCHANGED poll /\ \A f \in Editors \ {e} : edit'[f] = Beside(edit[f])
      BY <2>3, <3>a, <3>b DEF EditStart
    <3>2. \A f \in Editors \ {e} : edit[f].pc = "idle"
      BY <3>1, NoEditFacts DEF Idle
    <3> QED BY <1>0, <3>1, <3>2, BesideFacts
  <2>4. CASE /\ ~ \E kind \in Polls : PollStart(kind)
             /\ ~ \E f \in Editors, op \in Edits, a \in Accounts : EditStart(f, op, a)
    <3>1. edit[e].pc # "idle" /\ edit[e].alone
      <4>1. CASE edit'[e] = edit[e]
        BY <1>1, <4>1
      <4>2. CASE Passes(e)
        BY <1>0, <1>1, <4>2, OvertakenFacts DEF Passes
      <4>3. CASE EditStep(e)
        <5>1. edit'[e] # NoEdit
          BY <1>1, NoEditFacts
        <5>2. edit[e].pc # "idle"
          BY <2>4, <4>3 DEF EditStep, EditFirst, EditSecond, Forget, EditMerges, EditPublishes, KillEdit
        <5>3. \A pc \in EditPCs : EditTo(e, pc) => edit'[e].alone = edit[e].alone
          BY OwnStep DEF Goes
        <5>4. Forget(e) => edit'[e].alone = edit[e].alone
          BY <5>3 DEF Forget, EditPCs
        <5>5. edit'[e].alone = edit[e].alone
          BY <2>4, <4>3, <5>1, <5>4, OwnStep DEF EditStep, Goes
        <5> QED BY <1>1, <5>2, <5>5
      <4> QED BY <2>4, <4>1, <4>2, <4>3, EditMoves DEF Joined
    <3>2. poll = NoPoll /\ \A f \in Editors \ {e} : edit[f].pc = "idle"
      BY <3>1 DEF EditOK
    <3>3. poll' = NoPoll
      BY <2>4, <3>2, PollAtWork
    <3>4. ASSUME NEW f \in Editors \ {e} PROVE edit'[f].pc = "idle"
      <4>1. edit[f].pc = "idle"
        BY <3>2
      <4>2. ~ EditStep(f) \/ edit'[f] = NoEdit
        BY <2>4, <4>1 DEF EditStep, EditFirst, EditSecond, Forget, EditMerges, EditPublishes, KillEdit
      <4> QED BY <1>0, <2>4, <4>1, <4>2, EditMoves, NoEditFacts, OvertakenFacts DEF Joined, Passes
    <3> QED BY <3>3, <3>4
  <2> QED BY <2>1, <2>2, <2>3, <2>4
<1>2. ASSUME NEW e \in Editors
      PROVE  /\ edit'[e] \in EditRecords
             /\ edit'[e].pc # "idle" => edit'[e].acct # None /\ edit'[e].op # None
             /\ edit'[e].op \in {"add", "resume"} => edit'[e].pc # "forget"
             /\ edit'[e].pc # "publish" => edit'[e].draft = {}
  <2>0. /\ edit[e] \in EditRecords
        /\ edit[e].pc # "idle" => edit[e].acct # None /\ edit[e].op # None
        /\ edit[e].op \in {"add", "resume"} => edit[e].pc # "forget"
        /\ edit[e].pc # "publish" => edit[e].draft = {}
    BY <1>0 DEF EditTyped, EditOK
  <2>1. CASE edit'[e] = edit[e]
    BY <2>0, <2>1
  <2>2. CASE Joined(e)
    BY <2>0, <2>2, BesideFacts DEF Joined, Same
  <2>3. CASE Passes(e)
    BY <2>0, <2>3, OvertakenFacts DEF Passes, Same
  <2>4. ASSUME edit'[e] = NoEdit
        PROVE  /\ edit'[e] \in EditRecords
               /\ edit'[e].pc # "idle" => edit'[e].acct # None /\ edit'[e].op # None
               /\ edit'[e].op \in {"add", "resume"} => edit'[e].pc # "forget"
               /\ edit'[e].pc # "publish" => edit'[e].draft = {}
    BY <2>4, NoEditFacts
  <2>5. ASSUME NEW pc \in EditPCs, edit'[e] \in EditRecords, Goes(edit[e], edit'[e], pc),
               edit[e].op \in {"add", "resume"} => pc # "forget", edit[e].pc \notin {"idle", "publish"}
        PROVE  /\ edit'[e] \in EditRecords
               /\ edit'[e].pc # "idle" => edit'[e].acct # None /\ edit'[e].op # None
               /\ edit'[e].op \in {"add", "resume"} => edit'[e].pc # "forget"
               /\ edit'[e].pc # "publish" => edit'[e].draft = {}
    BY <2>0, <2>5 DEF Goes, Same
  <2>6. CASE EditFirst(e)
    BY <2>5, <2>6, OwnStep DEF EditFirst, EditPCs
  <2>7. CASE EditSecond(e)
    <3>1. edit[e].pc = "second"
      BY <2>7 DEF EditSecond
    <3>2. CASE edit'[e] = NoEdit
      BY <2>4, <3>2
    <3>3. CASE edit[e].op = "pause" /\ Goes(edit[e], edit'[e], "forget") /\ edit'[e] \in EditRecords
      BY <2>5, <3>1, <3>3 DEF EditPCs
    <3>4. CASE Goes(edit[e], edit'[e], "merge") /\ edit'[e] \in EditRecords
      BY <2>5, <3>1, <3>4 DEF EditPCs
    <3> QED BY <2>7, <3>2, <3>3, <3>4, OwnStep
  <2>8. CASE Forget(e)
    <3>1. PICK pc \in {"first", "merge"} : EditTo(e, pc) /\ edit[e].pc = "forget"
      BY <2>8 DEF Forget
    <3> QED BY <2>5, <3>1, OwnStep DEF EditPCs
  <2>9. CASE EditMerges(e)
    BY <2>0, <2>9, OwnStep DEF EditMerges
  <2>10. CASE EditPublishes(e) \/ KillEdit(e)
    BY <2>4, <2>10, OwnStep
  <2>11. ASSUME NEW op \in Edits, NEW a \in Accounts, EditStart(e, op, a)
         PROVE  /\ edit'[e] \in EditRecords
                /\ edit'[e].pc # "idle" => edit'[e].acct # None /\ edit'[e].op # None
                /\ edit'[e].op \in {"add", "resume"} => edit'[e].pc # "forget"
                /\ edit'[e].pc # "publish" => edit'[e].draft = {}
    <3>1. Begun(edit'[e], op, a) /\ edit'[e] \in EditRecords
      BY <2>11, EditStarts
    <3>2. a # None /\ op # None
      BY NoneAssumption, ConstantsAssumption
    <3> QED BY <3>1, <3>2 DEF Begun
  <2> QED BY <2>1, <2>2, <2>3, <2>6, <2>7, <2>8, <2>9, <2>10, <2>11, EditMoves DEF EditStep
<1>3. edit' = [f \in Editors |-> edit'[f]]
  BY <1>0, EditFun
<1> QED BY <1>1, <1>2, <1>3 DEF EditTyped, EditOK

LEMMA LogType ==
  ASSUME TypeOK, [Next]_vars
  PROVE  LogTyped'
<1>0. /\ LogTyped /\ PollTyped /\ poll \in PollRecords /\ edit \in [Editors -> EditRecords]
      /\ EditTyped /\ SeenTyped
  BY Typed, Records
<1>1. CASE UNCHANGED <<count, log, odd, torn>>
  BY <1>0, <1>1 DEF LogTyped, count, log, odd
<1>2. ASSUME NEW a \in Accounts, EarlyReset(a) PROVE LogTyped'
  BY <1>0, <1>2, ConstantsAssumption
  DEF EarlyReset, CanMishap, Uneven, LogTyped, log, SeenTyped, Use
<1>3. ASSUME NEW a \in Accounts, Report(a) PROVE LogTyped'
  <2>1. usage[a].window \in Windows
    BY <1>0 DEF SeenTyped, Use
  <2>2. uneven' \in [Accounts -> SUBSET Windows]
    BY <1>0, <1>3, <2>1 DEF Report, Uneven, LogTyped
  <2>3. /\ mishaps < MaxMishaps /\ mishaps' = mishaps + 1
        /\ UNCHANGED <<commands, crossed, early, alert, dropped, misread, torn>>
    BY <1>3 DEF Report, CanMishap, log
  <2> QED BY <1>0, <2>2, <2>3, ConstantsAssumption DEF LogTyped
<1>4. ASSUME NEW a \in Accounts, Write(a) PROVE LogTyped'
  <2>1. ToldAbove(a, poll.snap.use) \subseteq Windows
    BY DEF ToldAbove
  <2>2. misread' \in [Accounts -> SUBSET Windows]
    BY <1>0, <1>4, <2>1 DEF Write, LogTyped
  <2>3. UNCHANGED <<count, log, uneven, torn>>
    BY <1>4 DEF Write
  <2> QED BY <1>0, <2>2, <2>3 DEF LogTyped, count, log
<1>5. ASSUME NEW a \in Accounts, Append(a) PROVE LogTyped'
  <2>1. UNCHANGED <<count, odd, torn>>
    BY <1>5 DEF Append
  <2>2. alert' \in [Accounts -> BOOLEAN] /\ dropped' \subseteq Accounts
    BY <1>0, <1>5 DEF Append, LogTyped
  <2>3. poll.snap \in Snapshots
    BY <1>0, <1>5 DEF Append, PollTyped, PollRecords
  <2>4. poll.events \cap {"threshold", "early"} # {} => poll.snap.use.window \in Windows
    BY <1>0, <2>3 DEF PollTyped, Snapshots, Use
  <2>5. early' \in [Accounts -> SUBSET Windows]
    BY <1>0, <1>5, <2>4 DEF Append, LogTyped
  <2>6. crossed' \in [Accounts -> [Windows -> 0..2]]
    <3>1. CASE "threshold" \in poll.events /\ crossed[a][poll.snap.use.window] < 2
      <4>1. poll.snap.use.window \in Windows
        BY <2>4, <3>1
      <4> DEFINE w == poll.snap.use.window
      <4> HIDE DEF w
      <4>2. w \in Windows /\ crossed[a][w] < 2 /\ crossed' = [crossed EXCEPT ![a][w] = @ + 1]
        BY <1>5, <3>1, <4>1 DEF Append, w
      <4> QED BY <1>0, <4>2 DEF LogTyped
    <3>2. CASE ~ ("threshold" \in poll.events /\ crossed[a][poll.snap.use.window] < 2)
      BY <1>0, <1>5, <3>2 DEF Append, LogTyped
    <3> QED BY <3>1, <3>2
  <2> QED BY <1>0, <2>1, <2>2, <2>5, <2>6 DEF LogTyped, count, odd
<1>6. ASSUME NEW kind \in Polls, PollStart(kind) PROVE LogTyped'
  <2>1. /\ commands < MaxCommands /\ commands' = commands + 1
        /\ UNCHANGED <<mishaps, log, odd, torn>>
    BY <1>6 DEF PollStart
  <2> QED BY <1>0, <2>1, ConstantsAssumption DEF LogTyped, log, odd
<1>7. ASSUME NEW e \in Editors, NEW op \in Edits, NEW a \in Accounts, EditStart(e, op, a)
      PROVE  LogTyped'
  <2>1. /\ commands + 2 <= MaxCommands /\ commands' = commands + 2
        /\ mishaps' = mishaps \/ (mishaps < MaxMishaps /\ mishaps' = mishaps + 1)
        /\ UNCHANGED <<log, odd, torn>>
    BY <1>7 DEF EditStart, CanMishap
  <2> QED BY <1>0, <2>1, ConstantsAssumption DEF LogTyped, log, odd
<1>8. ASSUME NEW e \in Editors, EditFirst(e) \/ EditSecond(e) PROVE LogTyped'
  <2>1. UNCHANGED <<count, log, odd>>
    BY <1>8 DEF EditFirst, EditSecond
  <2>2. torn' \subseteq torn \cup Accounts
    BY <1>8 DEF EditFirst, EditSecond, SavedBy
  <2> QED BY <1>0, <2>1, <2>2 DEF LogTyped, count, log, odd
<1>9. ASSUME NEW e \in Editors, Forget(e) PROVE LogTyped'
  <2>1. edit[e].acct \in Accounts
    BY <1>0, <1>9 DEF Forget, EditTyped, EditRecords
  <2>2. UNCHANGED <<count, crossed, early, alert, odd, torn>> /\ dropped' \subseteq Accounts
    BY <1>0, <1>9, <2>1 DEF Forget, LogTyped
  <2> QED BY <1>0, <2>2 DEF LogTyped, count, odd
<1>10. ASSUME NEW e \in Editors, EditPublishes(e) PROVE LogTyped'
  <2>1. edit[e].acct \in Accounts
    BY <1>0, <1>10 DEF EditPublishes, EditTyped, EditRecords
  <2>2. UNCHANGED <<count, log, odd>> /\ torn' \subseteq torn \cup {edit[e].acct}
    BY <1>10 DEF EditPublishes
  <2> QED BY <1>0, <2>1, <2>2 DEF LogTyped, count, log, odd
<1>11. CASE KillPoll
  BY <1>0, <1>11, ConstantsAssumption DEF KillPoll, CanMishap, LogTyped, log, odd, PollRecords
<1>12. ASSUME NEW e \in Editors, KillEdit(e) PROVE LogTyped'
  <2>1. edit[e].acct \in Accounts
    BY <1>0, <1>12 DEF KillEdit, EditTyped, EditRecords
  <2>2. /\ mishaps < MaxMishaps /\ mishaps' = mishaps + 1
        /\ UNCHANGED <<commands, log, odd>> /\ torn' \subseteq torn \cup {edit[e].acct}
    BY <1>12 DEF KillEdit, CanMishap
  <2> QED BY <1>0, <2>1, <2>2, ConstantsAssumption DEF LogTyped, log, odd
<1> QED BY <1>1, <1>2, <1>3, <1>4, <1>5, <1>6, <1>7, <1>8, <1>9, <1>10, <1>11, <1>12, LogMoves

TypeInv == TypeOK /\ PollOK /\ EditOK

LEMMA TypeStep ==
  ASSUME TypeInv, [Next]_vars
  PROVE  TypeInv'
<1>1. TypeOK /\ PollOK /\ EditOK
  BY DEF TypeInv
<1>2. StoreTyped' /\ SeenTyped' /\ PollTyped' /\ PollOK' /\ EditTyped' /\ EditOK' /\ LogTyped'
  BY <1>1, StoreType, SeenType, PollType, EditType, LogType
<1>3. TypeOK'
  BY <1>2 DEF TypeOK, StoreTyped, SeenTyped, PollTyped, EditTyped, LogTyped, SnapshotOK,
              PollRecords, EditRecords, PollPCs, EditPCs
<1> QED BY <1>2, <1>3 DEF TypeInv

\* What the facts of types say of one editor.
LEMMA EditAt ==
  ASSUME TypeInv, NEW e \in Editors
  PROVE  /\ edit[e] \in EditRecords
         /\ edit[e].pc # "idle" => edit[e].acct \in Accounts /\ edit[e].op \in EditNames
         /\ edit[e].op \in {"add", "resume"} => edit[e].pc # "forget"
         /\ edit[e].pc # "publish" => edit[e].draft = {}
         /\ edit[e].pc # "idle" /\ edit[e].alone =>
              poll = NoPoll /\ \A f \in Editors \ {e} : edit[f].pc = "idle"
<1>1. edit \in [Editors -> EditRecords] /\ EditTyped /\ EditOK
  BY Records, Typed DEF TypeInv
<1>2. edit[e] \in EditRecords /\ (edit[e].pc # "idle" => edit[e].acct # None /\ edit[e].op # None)
  BY <1>1 DEF EditTyped
<1>3. edit[e].pc # "idle" => edit[e].acct \in Accounts /\ edit[e].op \in EditNames
  BY <1>2, ConstantsAssumption DEF EditRecords
<1> QED BY <1>1, <1>2, <1>3 DEF EditOK

-----------------------------------------------------------------------------
(* The registry: what an edit writes that none has overtaken keeps         *)
(* everybody but its own account.                                          *)

LEMMA LoadedKept == UNCHANGED <<config, live>> => Loaded' = Loaded
  BY DEF Loaded

LEMMA RegistryMoves ==
  ASSUME [Next]_vars
  PROVE  UNCHANGED <<config, live>> \/ \E e \in Editors : EditFirst(e) \/ EditSecond(e)
  BY FilesMoves DEF files, PollPublishes, EditPublishes, Write, Forget

\* The first write shows nothing of anybody else, and keeps who is polled.
LEMMA FirstLoads ==
  ASSUME TypeInv, RegistryOK, NEW e \in Editors, EditFirst(e), ~ edit[e].stale
  PROVE  /\ live' = LivePart(edit[e].to)
         /\ \A b \in Accounts \ {edit[e].acct} : Loaded'[b] = Loaded[b] /\ edit[e].to[b] = Loaded[b]
         /\ edit[e].op \in {"add", "resume"} /\ Loaded[edit[e].acct] = "on" => Loaded'[edit[e].acct] = "on"
<1> DEFINE r == edit[e].to
<1>0. /\ live' = LivePart(r) /\ config' = config /\ edit[e].pc = "first"
      /\ edit[e].acct \in Accounts /\ r \in Registries
  BY EditAt DEF EditFirst, SaveFirst, EditRecords
<1>1. \A b \in Accounts \ {edit[e].acct} : r[b] = Loaded[b]
  BY <1>0 DEF RegistryOK, RegistryAt, Holding
<1>2. \A b \in Accounts : /\ Loaded[b] = IF b \in LiveOnly /\ live[b] # "none" THEN live[b] ELSE config[b]
                          /\ Loaded'[b] = IF b \in LiveOnly /\ r[b] # "none" THEN r[b] ELSE config[b]
  BY <1>0 DEF Loaded, LivePart
<1>4. edit[e].op \in {"add", "resume"} => r[edit[e].acct] = "on"
  BY <1>0 DEF RegistryOK, RegistryAt
<1> HIDE DEF r
<1>3. \A b \in Accounts \ {edit[e].acct} : Loaded'[b] = Loaded[b]
  BY <1>1, <1>2
<1>5. edit[e].op \in {"add", "resume"} /\ Loaded[edit[e].acct] = "on" => Loaded'[edit[e].acct] = "on"
  BY <1>0, <1>2, <1>4
<1> QED BY <1>0, <1>1, <1>3, <1>5 DEF r

\* The second makes the files say what the edit meant.
LEMMA SecondLoads ==
  ASSUME TypeInv, RegistryOK, NEW e \in Editors, EditSecond(e), ~ edit[e].stale
  PROVE  /\ \A b \in Accounts \ {edit[e].acct} : Loaded'[b] = Loaded[b]
         /\ edit[e].op \in {"add", "resume"} => Loaded'[edit[e].acct] = "on"
<1> DEFINE r == edit[e].to
<1>0. /\ config' = PolledPart(r) /\ live' = live /\ edit[e].pc = "second"
      /\ edit[e].acct \in Accounts /\ r \in Registries
  BY EditAt DEF EditSecond, SaveSecond, EditRecords
<1>1. live = LivePart(r) /\ \A b \in Accounts \ {edit[e].acct} : r[b] = Loaded[b]
  BY <1>0 DEF RegistryOK, RegistryAt, Holding
<1>2. \A b \in Accounts : Loaded'[b] = r[b]
  BY <1>0, <1>1 DEF Loaded, LivePart, PolledPart
<1>3. edit[e].op \in {"add", "resume"} => r[edit[e].acct] = "on"
  BY <1>0 DEF RegistryOK, RegistryAt
<1> QED BY <1>0, <1>1, <1>2, <1>3

\* An editor's own step, as its registry sees it.
LEMMA OwnRegistry ==
  ASSUME TypeInv, RegistryOK, NEW e \in Editors, EditStep(e)
  PROVE  RegistryAt(edit[e])'
<1>0. TypeOK /\ edit[e] \in EditRecords /\ RegistryAt(edit[e]) /\ Loaded \in Registries
  BY EditAt, LoadedType DEF TypeInv, RegistryOK
<1>1. ASSUME edit'[e] = NoEdit PROVE RegistryAt(edit[e])'
  BY <1>1, NoEditFacts, NoneAssumption DEF RegistryAt, Holding
<1>2. ASSUME NEW op \in Edits, NEW a \in Accounts, EditStart(e, op, a) PROVE RegistryAt(edit[e])'
  <2>1. Begun(edit'[e], op, a)
    BY <1>0, <1>2, EditStarts
  <2>2. UNCHANGED <<config, live>>
    BY <1>2 DEF EditStart, files
  <2>3. Loaded' = Loaded
    BY <2>2, LoadedKept
  <2>4. \A b \in Accounts \ {a} : edit'[e].to[b] = Loaded[b]
    BY <1>0, <2>1 DEF Begun, Registries
  <2>5. op \in {"add", "resume"} => edit'[e].to[a] = "on"
    BY <1>0, <2>1 DEF Begun, Registries
  <2>6. edit'[e].op = op /\ edit'[e].acct = a /\ edit'[e].pc # "second"
    BY <2>1 DEF Begun
  <2> QED BY <2>3, <2>4, <2>5, <2>6 DEF RegistryAt
<1>3. CASE EditFirst(e)
  <2>1. Goes(edit[e], edit'[e], "second") /\ edit'[e].to = edit[e].to
    BY <1>0, <1>3, OwnStep
  <2>2. edit[e].pc = "first" /\ live' = LivePart(edit[e].to)
    BY <1>3 DEF EditFirst, SaveFirst
  <2>3. LivePart(edit'[e].to) = LivePart(edit[e].to)
    BY <2>1
  <2>4. ~ edit[e].stale => \A b \in Accounts \ {edit[e].acct} : Loaded'[b] = Loaded[b] /\ edit[e].to[b] = Loaded[b]
    BY <1>3, FirstLoads
  <2> QED BY <1>0, <2>1, <2>2, <2>3, <2>4 DEF RegistryAt, Goes, Same, LivePart
<1>4. ASSUME NEW pc \in {"merge", "forget"}, Goes(edit[e], edit'[e], pc), pc = "forget" => edit[e].op # "remove"
      PROVE  RegistryAt(edit[e])'
  BY <1>4 DEF RegistryAt, Holding, Goes, Same
<1>5. CASE EditSecond(e)
  <2>1. CASE edit'[e] = NoEdit
    BY <1>1, <2>1
  <2>2. CASE Goes(edit[e], edit'[e], IF edit[e].op = "pause" THEN "forget" ELSE "merge")
    BY <1>4, <2>2
  <2> QED BY <1>0, <1>5, <2>1, <2>2, OwnStep
<1>6. CASE EditMerges(e)
  <2>1. edit'[e].pc = "publish"
    BY <1>0, <1>6, OwnStep
  <2> QED BY <2>1 DEF RegistryAt, Holding
<1>7. CASE EditPublishes(e) \/ KillEdit(e)
  BY <1>0, <1>1, <1>7, OwnStep
<1>8. CASE Forget(e)
  <2>1. CASE edit[e].op = "remove"
    <3>1. EditTo(e, "first") /\ UNCHANGED <<config, live>> /\ edit[e].pc = "forget"
      BY <1>8, <2>1 DEF Forget
    <3>2. Goes(edit[e], edit'[e], "first") /\ edit'[e].to = edit[e].to
      BY <1>0, <3>1, OwnStep DEF EditPCs
    <3>3. Loaded' = Loaded
      BY <3>1, LoadedKept
    <3> QED BY <1>0, <2>1, <3>1, <3>2, <3>3 DEF RegistryAt, Holding, Goes, Same
  <2>2. CASE edit[e].op # "remove"
    <3>1. EditTo(e, "merge")
      BY <1>8, <2>2 DEF Forget
    <3>2. Goes(edit[e], edit'[e], "merge")
      BY <1>0, <3>1, OwnStep DEF EditPCs
    <3> QED BY <1>4, <3>2
  <2> QED BY <2>1, <2>2
<1> QED BY <1>2, <1>3, <1>5, <1>6, <1>7, <1>8 DEF EditStep

\* A save of another makes stale what this one has loaded; nothing else changes it.
LEMMA RegistryStep ==
  ASSUME TypeInv, RegistryOK, [Next]_vars
  PROVE  RegistryOK'
<1> SUFFICES ASSUME NEW e \in Editors PROVE RegistryAt(edit[e])'
  BY DEF RegistryOK
<1>0. TypeOK /\ edit[e] \in EditRecords /\ RegistryAt(edit[e])
  BY EditAt DEF TypeInv, RegistryOK
<1>1. CASE EditStep(e)
  BY <1>1, OwnRegistry
<1>2. CASE Passes(e)
  <2>1. /\ edit'[e].pc = edit[e].pc /\ edit'[e].op = edit[e].op /\ edit'[e].acct = edit[e].acct
        /\ edit'[e].to = edit[e].to /\ edit'[e].stale = (edit[e].pc # "idle")
    BY <1>0, <1>2, OvertakenFacts DEF Passes, Same
  <2> QED BY <1>0, <2>1 DEF RegistryAt, Holding
<1>3. CASE UNCHANGED <<config, live>> /\ ~ EditStep(e) /\ ~ Passes(e)
  <2>1. /\ edit'[e].pc = edit[e].pc /\ edit'[e].op = edit[e].op /\ edit'[e].acct = edit[e].acct
        /\ edit'[e].to = edit[e].to /\ edit'[e].stale = edit[e].stale
    BY <1>0, <1>3, EditMoves, BesideFacts DEF Joined, Same
  <2>2. Loaded' = Loaded
    BY <1>3, LoadedKept
  <2> QED BY <1>0, <1>3, <2>1, <2>2 DEF RegistryAt, Holding, LivePart
<1>4. CASE ~ UNCHANGED <<config, live>> /\ ~ EditStep(e)
  <2>1. PICK f \in Editors : EditFirst(f) \/ EditSecond(f)
    BY <1>4, RegistryMoves
  <2>2. f # e
    BY <1>4, <2>1 DEF EditStep
  <2>3. edit'[e] = Overtaken(edit[e])
    BY <2>1, <2>2 DEF EditFirst, EditSecond, SavedBy
  <2>4. Passes(e)
    BY <2>1, <2>2, <2>3 DEF Passes
  <2> QED BY <1>2, <2>4
<1> QED BY <1>1, <1>2, <1>3, <1>4

\* The conjunct of OthersKept, for one step.
LEMMA OthersStep ==
  ASSUME TypeInv, RegistryOK, [Next]_vars, NEW a \in Accounts, Loaded'[a] # Loaded[a]
  PROVE  \E e \in Editors : Saves(e) /\ (edit[e].acct = a \/ edit[e].stale)
<1>1. ~ UNCHANGED <<config, live>>
  BY LoadedKept
<1>2. PICK e \in Editors : EditFirst(e) \/ EditSecond(e)
  BY <1>1, RegistryMoves
<1>3. edit[e].acct = a \/ edit[e].stale
  BY <1>2, FirstLoads, SecondLoads
<1>4. Saves(e)
  <2>1. CASE EditFirst(e)
    BY <2>1, OwnStep DEF TypeInv, EditFirst, Goes, Saves
  <2>2. CASE EditSecond(e)
    BY <2>2, OwnStep, NoEditFacts DEF TypeInv, EditSecond, Goes, Saves
  <2> QED BY <1>2, <2>1, <2>2
<1> QED BY <1>3, <1>4

-----------------------------------------------------------------------------
(* Who is named, and what the log last said of an account's polls.         *)

\* Only a pause or a removal that ends by itself makes its account quiet.
Mends(a) == \E e \in Editors : EditPublishes(e) /\ edit[e].alone /\ Forgets(e) /\ a = edit[e].acct

LEMMA TornStays ==
  ASSUME TypeInv, [Next]_vars, NEW a \in torn, a \notin torn'
  PROVE  Mends(a)
<1>1. ASSUME NEW e \in Editors, EditPublishes(e) PROVE Mends(a)
  BY <1>1 DEF EditPublishes, Mends
<1> QED BY <1>1, LogMoves
    DEF EarlyReset, Report, Write, Append, PollStart, KillPoll, EditStart, EditFirst, EditSecond,
        SavedBy, Forget, KillEdit

LEMMA QuietBefore ==
  ASSUME TypeInv, [Next]_vars, NEW a \in Accounts, Quiet(a)'
  PROVE  Quiet(a) \/ Mends(a)
<1> SUFFICES ASSUME ~ Mends(a) PROVE Quiet(a)
  OBVIOUS
<1>1. a \notin torn
  BY TornStays DEF Quiet
<1>2. ASSUME NEW e \in Editors, edit[e].acct = a, Forgets(e) PROVE FALSE
  <2>0. TypeOK /\ edit[e] \in EditRecords
    BY EditAt DEF TypeInv
  <2>1. ~ Same(edit[e], edit'[e])
    BY <1>2 DEF Quiet, Forgets, Same
  <2>2. ~ Joined(e) /\ ~ Passes(e) /\ edit'[e] # edit[e]
    BY <2>0, <2>1, BesideFacts, OvertakenFacts DEF Joined, Passes, Same
  <2>3. CASE EditFirst(e)
    BY <2>0, <2>1, <2>3, OwnStep DEF Goes
  <2>4. CASE EditSecond(e)
    BY <1>2, <2>0, <2>1, <2>4, OwnStep DEF Goes, Forgets
  <2>5. CASE Forget(e)
    <3>1. \E pc \in EditPCs : EditTo(e, pc)
      BY <2>5 DEF Forget, EditPCs
    <3> QED BY <2>0, <2>1, <3>1, OwnStep DEF Goes
  <2>6. CASE EditMerges(e)
    <3>1. edit'[e].op = edit[e].op /\ edit'[e].acct = edit[e].acct
      BY <2>0, <2>6, OwnStep
    <3> QED BY <1>2, <3>1 DEF Quiet, Forgets
  <2>7. CASE EditPublishes(e)
    <3>1. CASE edit[e].alone
      BY <1>2, <2>7, <3>1 DEF Mends
    <3>2. CASE ~ edit[e].alone
      BY <1>2, <2>7, <3>2 DEF EditPublishes, Quiet
    <3> QED BY <3>1, <3>2
  <2>8. CASE KillEdit(e)
    BY <1>2, <2>8 DEF KillEdit, Quiet
  <2>9. ASSUME NEW op \in Edits, NEW b \in Accounts, EditStart(e, op, b) PROVE FALSE
    <3>1. edit[e] = NoEdit
      BY <2>9 DEF EditStart
    <3> QED BY <1>2, <3>1, NoEditFacts, NoneAssumption DEF Forgets
  <2> QED BY <2>2, <2>3, <2>4, <2>5, <2>6, <2>7, <2>8, <2>9, EditMoves DEF EditStep, TypeInv
<1> QED BY <1>1, <1>2 DEF Quiet

\* What is polled and quiet goes on being polled, unless an edit that was
\* overtaken takes it away.
LEMMA StaysOn ==
  ASSUME TypeInv, RegistryOK, [Next]_vars, NEW a \in Accounts, Quiet(a), a \notin torn', Loaded[a] = "on"
  PROVE  Loaded'[a] = "on"
<1>1. CASE UNCHANGED <<config, live>>
  BY <1>1, LoadedKept
<1>2. ASSUME NEW e \in Editors, EditFirst(e) \/ EditSecond(e) PROVE Loaded'[a] = "on"
  <2>1. edit[e].pc # "idle" /\ (edit[e].acct = a => edit[e].op \in {"add", "resume"})
    <3>1. edit[e].pc # "idle"
      BY <1>2 DEF EditFirst, EditSecond
    <3> QED BY <3>1, EditAt DEF Quiet, Forgets, EditNames
  <2>2. CASE edit[e].stale
    BY <1>2, <2>2 DEF EditFirst, EditSecond, SavedBy
  <2>3. CASE ~ edit[e].stale
    BY <1>2, <2>1, <2>3, FirstLoads, SecondLoads
  <2> QED BY <2>2, <2>3
<1> QED BY <1>1, <1>2, RegistryMoves

LEMMA ShownBefore ==
  ASSUME [Next]_vars, NEW a \in Accounts, a \in shown'
  PROVE  a \in shown \/ a \in poll.draft \/ \E e \in Editors : a \in edit[e].draft
  BY FilesMoves DEF files, EditFirst, EditSecond, PollPublishes, EditPublishes, Write, Forget

LEMMA SnapBefore ==
  ASSUME TypeInv, [Next]_vars, NEW a \in Accounts, snap'[a] # None
  PROVE  snap[a] # None \/ a = poll.acct
<1>0. snap \in [Accounts -> Snapshots \cup {None}]
  BY DEF TypeInv, TypeOK
<1> QED BY <1>0, FilesMoves DEF files, EditFirst, EditSecond, PollPublishes, EditPublishes, Write, Forget

LEMMA PollNames ==
  ASSUME TypeInv, [Next]_vars, NEW a \in Accounts,
         a \in poll'.todo \/ a = poll'.acct \/ a \in poll'.draft
  PROVE  \/ a \in poll.todo \/ a = poll.acct \/ a \in poll.draft
         \/ Loaded[a] = "on" \/ snap[a] # None
<1>0. TypeOK
  BY DEF TypeInv
<1>1. CASE UNCHANGED poll
  BY <1>1
<1>2. ASSUME NEW kind \in Polls, PollStart(kind) PROVE Loaded[a] = "on"
  BY <1>0, <1>2, Begins, NoneAssumption DEF PollBegins
<1>3. ASSUME NEW b \in Accounts, NEW asked, NEW o, Will(b, asked, o), Turn(b)
      PROVE  a \in poll.todo \/ a = poll.acct \/ a \in poll.draft
  BY <1>0, <1>3, Takes DEF PollTakesUp, PollPasses, Turn
<1>4. ASSUME NEW b \in Accounts, TakeLive(b) \/ Ask(b) PROVE a \in poll.todo \/ a = poll.acct \/ a \in poll.draft
  BY <1>3, <1>4 DEF TakeLive, Ask
<1>5. ASSUME NEW b \in Accounts, Leave(b) PROVE a \in poll.todo \/ a = poll.acct \/ a \in poll.draft
  <2>1. poll' = Passed(b)
    BY <1>5 DEF Leave
  <2>2. PollPasses(b) /\ poll'.acct = poll.acct
    BY <1>0, <2>1, Leaves
  <2>3. poll'.todo \subseteq poll.todo /\ poll'.draft = poll.draft
    BY <2>2 DEF PollPasses
  <2> QED BY <2>2, <2>3
<1>6. ASSUME NEW b \in Accounts, Write(b) PROVE a \in poll.todo \/ a = poll.acct \/ a \in poll.draft
  BY <1>0, <1>6, Writes DEF PollWrites
<1>7. ASSUME NEW b \in Accounts, Append(b) PROVE a \in poll.todo \/ a = poll.acct \/ a \in poll.draft
  BY <1>0, <1>7, Tells, NoneAssumption DEF PollTells
<1>8. CASE PollEnds
  BY <1>8, Finishes, NoneAssumption DEF PollIdle
<1>9. CASE PollPublishes \/ KillPoll
  BY <1>9, IdlePoll, NoneAssumption DEF PollPublishes, KillPoll, PollIdle
<1> QED BY <1>1, <1>2, <1>4, <1>5, <1>6, <1>7, <1>8, <1>9, PollMoves

LEMMA EditNamesNobody ==
  ASSUME TypeInv, [Next]_vars, NEW a \in Accounts, NEW e \in Editors, a \in edit'[e].draft
  PROVE  a \in edit[e].draft \/ snap[a] # None
<1>0. TypeOK /\ edit[e] \in EditRecords
  BY EditAt DEF TypeInv
<1>1. CASE edit'[e] = edit[e] \/ Joined(e) \/ Passes(e)
  BY <1>0, <1>1, BesideFacts, OvertakenFacts DEF Joined, Passes, Same
<1>2. edit'[e] # NoEdit
  BY NoEditFacts
<1>3. CASE EditFirst(e) \/ EditSecond(e)
  BY <1>0, <1>2, <1>3, OwnStep DEF Goes, Same
<1>4. CASE Forget(e)
  <2>1. \E pc \in EditPCs : EditTo(e, pc)
    BY <1>4 DEF Forget, EditPCs
  <2> QED BY <1>0, <2>1, OwnStep DEF Goes, Same
<1>5. CASE EditMerges(e)
  BY <1>0, <1>5, OwnStep
<1>6. CASE EditPublishes(e) \/ KillEdit(e)
  BY <1>0, <1>2, <1>6, OwnStep
<1>7. ASSUME NEW op \in Edits, NEW b \in Accounts, EditStart(e, op, b) PROVE FALSE
  BY <1>0, <1>7, EditStarts DEF Begun
<1> QED BY <1>0, <1>1, <1>3, <1>4, <1>5, <1>6, <1>7, EditMoves DEF EditStep

LEMMA NamedStep ==
  ASSUME TypeInv, RegistryOK, NamedOK, Forgotten, [Next]_vars
  PROVE  NamedOK'
<1> SUFFICES ASSUME NEW a \in Accounts, Quiet(a)', Named(a)' PROVE Loaded'[a] = "on"
  BY DEF NamedOK
<1>1. CASE Quiet(a)
  <2>1. Named(a) \/ Loaded[a] = "on"
    BY ShownBefore, SnapBefore, PollNames, EditNamesNobody DEF Named
  <2>2. a \notin torn'
    BY DEF Quiet
  <2> QED BY <1>1, <2>1, <2>2, StaysOn DEF NamedOK
<1>2. CASE Mends(a)
  <2>1. PICK e \in Editors : EditPublishes(e) /\ edit[e].alone /\ Forgets(e) /\ a = edit[e].acct
    BY <1>2 DEF Mends
  <2>2. edit[e].pc = "publish" /\ shown' = edit[e].draft /\ UNCHANGED <<snap, poll>>
    BY <2>1 DEF EditPublishes
  <2>3. poll = NoPoll /\ \A f \in Editors \ {e} : edit[f].draft = {}
    BY <2>1, <2>2, EditAt
  <2>4. \A f \in Editors : edit'[f].draft = {}
    BY <2>1, <2>3, OwnStep, NoEditFacts DEF TypeInv
  <2>5. snap[a] = None /\ a \notin edit[e].draft
    BY <2>1, <2>2 DEF Forgotten, PastForget, Forgets, Blank
  <2> QED BY <2>2, <2>3, <2>4, <2>5, NoPollFacts, NoneAssumption DEF Named
<1> QED BY <1>1, <1>2, QuietBefore

\* Without a poll at work nothing is remembered anew.
LEMMA StaysBlank ==
  ASSUME TypeInv, [Next]_vars, poll = NoPoll, NEW a \in Accounts, Blank(a)
  PROVE  Blank(a)'
<1>0. snap \in [Accounts -> Snapshots \cup {None}]
  BY DEF TypeInv, TypeOK
<1>1. \A b : ~ Write(b) /\ ~ Append(b)
  BY NoPollFacts DEF Write, Append
<1>2. snap'[a] = None
  BY <1>0, <1>1, FilesMoves DEF files, EditFirst, EditSecond, PollPublishes, EditPublishes, Forget, Blank
<1>3. alert' = alert /\ dropped \subseteq dropped'
  BY <1>1, LogMoves DEF log, EarlyReset, Report, PollStart, KillPoll, EditStart, EditFirst, EditSecond,
     Forget, EditPublishes, KillEdit
<1> QED BY <1>2, <1>3 DEF Blank

LEMMA ForgottenStep ==
  ASSUME TypeInv, Forgotten, [Next]_vars
  PROVE  Forgotten'
<1> SUFFICES ASSUME NEW e \in Editors, PastForget(edit'[e]), NEW a, a = edit'[e].acct
             PROVE  Blank(a)' /\ a \notin edit'[e].draft
  BY DEF Forgotten, PastForget, Blank
<1>0. TypeOK /\ edit[e] \in EditRecords
  BY EditAt DEF TypeInv
\* Past its deletion before the step, the edit keeps the account; nothing comes back.
<1>1. ASSUME PastForget(edit[e]), edit'[e].acct = edit[e].acct
      PROVE  Blank(a)'
  <2>1. a \in Accounts /\ poll = NoPoll
    BY <1>1, EditAt DEF PastForget
  <2>2. Blank(a)
    BY <1>1 DEF Forgotten
  <2> QED BY <2>1, <2>2, StaysBlank
<1>2. ASSUME PastForget(edit[e]), Same(edit[e], edit'[e])
      PROVE  Blank(a)' /\ a \notin edit'[e].draft
  BY <1>1, <1>2 DEF Same, Forgotten
<1>3. CASE edit'[e] = edit[e]
  BY <1>2, <1>3 DEF Same
<1>4. CASE Joined(e)
  BY <1>0, <1>4, BesideFacts DEF Joined, PastForget
<1>5. CASE Passes(e)
  <2>1. Same(edit[e], edit'[e]) /\ PastForget(edit[e])
    BY <1>0, <1>5, OvertakenFacts DEF Passes, PastForget, Same
  <2> QED BY <1>2, <2>1
<1>6. edit'[e] # NoEdit
  BY NoEditFacts DEF PastForget
\* A write of the registry comes after the deletion only for a removal.
<1>7. ASSUME NEW pc \in {"second", "merge"}, Goes(edit[e], edit'[e], pc), edit[e].pc \in {"first", "second"},
             edit[e].op = "pause" => pc = "second"
      PROVE  Blank(a)' /\ a \notin edit'[e].draft
  <2>1. PastForget(edit[e]) /\ Same(edit[e], edit'[e])
    BY <1>7 DEF Goes, Same, PastForget
  <2> QED BY <1>2, <2>1
<1>8. CASE EditFirst(e)
  BY <1>0, <1>7, <1>8, OwnStep DEF EditFirst
<1>9. CASE EditSecond(e)
  <2>1. edit[e].pc = "second"
    BY <1>9 DEF EditSecond
  <2>2. ~ Goes(edit[e], edit'[e], "forget")
    BY <2>1 DEF Goes, Same, PastForget
  <2>3. CASE edit[e].op = "pause"
    BY <1>0, <1>6, <1>9, <2>2, <2>3, OwnStep
  <2>4. CASE edit[e].op # "pause"
    BY <1>0, <1>6, <1>7, <1>9, <2>1, <2>4, OwnStep
  <2> QED BY <2>3, <2>4
<1>10. CASE EditMerges(e)
  <2>1. /\ edit'[e].op = edit[e].op /\ edit'[e].acct = edit[e].acct /\ edit'[e].alone = edit[e].alone
        /\ edit'[e].draft = {b \in Accounts : snap[b] # None} /\ edit[e].pc = "merge" /\ edit'[e].pc = "publish"
    BY <1>0, <1>10, OwnStep DEF EditMerges
  <2>2. PastForget(edit[e])
    BY <2>1 DEF PastForget
  <2>3. snap[edit[e].acct] = None
    BY <2>2 DEF Forgotten, Blank
  <2> QED BY <1>1, <2>1, <2>2, <2>3
<1>11. CASE EditPublishes(e) \/ KillEdit(e)
  BY <1>0, <1>6, <1>11, OwnStep
<1>12. CASE Forget(e)
  <2>1. PICK pc \in {"first", "merge"} : EditTo(e, pc) /\ edit[e].pc = "forget"
    BY <1>12 DEF Forget
  <2>3. edit[e].acct = a /\ a \in Accounts /\ edit'[e].draft = {}
    BY <1>0, <2>1, OwnStep, EditAt DEF Goes, Same, EditPCs
  <2>4. snap \in [Accounts -> Snapshots \cup {None}]
    BY <1>0 DEF TypeOK
  <2>5. Blank(a)'
    BY <1>12, <2>3, <2>4 DEF Forget, Blank
  <2> QED BY <2>3, <2>5
<1>13. ASSUME NEW op \in Edits, NEW b \in Accounts, EditStart(e, op, b) PROVE FALSE
  BY <1>0, <1>13, EditStarts DEF Begun, PastForget
<1> QED BY <1>0, <1>3, <1>4, <1>5, <1>8, <1>9, <1>10, <1>11, <1>12, <1>13, EditMoves DEF EditStep

LEMMA AlertMoves ==
  ASSUME [Next]_vars
  PROVE  \/ UNCHANGED <<poll, snap, alert, dropped>>
         \/ \E kind \in Polls : PollStart(kind)
         \/ \E a \in Accounts : TakeLive(a) \/ Ask(a) \/ Leave(a) \/ Write(a) \/ Append(a)
         \/ PollEnds \/ PollPublishes \/ KillPoll
         \/ \E e \in Editors : Forget(e)
  BY DEF Next, vars, files, log, Used, WindowEnds, EarlyReset, Report, EditStart, EditFirst, EditSecond,
         EditMerges, EditPublishes, KillEdit

\* A snapshot and its events go on remembering what the log will say.
GoesOn(last, o) ==
  \A al \in BOOLEAN, dr \in BOOLEAN :
    Remembers(last, al, dr) => Remembers(o.snap, WordAfter(al, o.events), CutAfter(dr, o.events))

LEMMA AnswerTells ==
  ASSUME NEW last, NEW use
  PROVE  GoesOn(last, Answer(last, use))
<1> DEFINE s == [use |-> use, misses |-> 0, alerted |-> FALSE]
           e == IF last = None THEN {}
                ELSE (IF last.use = None THEN {} ELSE Noticed(last.use, use))
                     \cup (IF last.alerted THEN {"recovered"} ELSE {})
           o == Answer(last, use)
<1>1. o.snap = s /\ o.events = e
  BY DEF Answer
<1>2. ~ Told(s)
  BY DEF Told
<1>3. "alert" \notin e
  BY DEF Noticed
<1>4. Told(last) => "recovered" \in e
  BY DEF Told
<1> HIDE DEF s, e, o
<1>5. GoesOn(last, o)
  BY <1>1, <1>2, <1>3, <1>4 DEF GoesOn, Remembers, WordAfter, CutAfter
<1> QED BY <1>5 DEF o

LEMMA MissTells ==
  ASSUME NEW last \in Snapshots \cup {None}, SnapshotOK(last)
  PROVE  GoesOn(last, Miss(last))
<1> DEFINE n    == IF last = None THEN 1 ELSE IF last.misses < 3 THEN last.misses + 1 ELSE 3
           told == last # None /\ n <= 2
           al   == told \/ (last # None /\ last.alerted /\ last.misses > 0)
           s    == [use |-> None, misses |-> n, alerted |-> al]
           e    == IF told THEN {"alert"} ELSE {}
           o    == Miss(last)
<1>1. o.snap = s /\ o.events = e
  BY DEF Miss
<1>2. al <=> told \/ Told(last)
  BY DEF Told, SnapshotOK
<1>3. ("alert" \in e <=> told) /\ "recovered" \notin e
  OBVIOUS
<1> HIDE DEF n
<1>4. s # None
  <2>1. s \in Snapshots
    BY MissOutcome, <1>1 DEF Outcome
  <2> QED BY <2>1, NoneAssumption
<1>5. Told(s) <=> al
  BY <1>4 DEF Told
<1> HIDE DEF told, al, s, e, o
<1>6. GoesOn(last, o)
  BY <1>1, <1>2, <1>3, <1>5 DEF GoesOn, Remembers, WordAfter, CutAfter
<1> QED BY <1>6 DEF o

LEMMA AlertStep ==
  ASSUME TypeInv, AlertOK, Forgotten, [Next]_vars
  PROVE  AlertOK'
<1> SUFFICES ASSUME NEW a \in Accounts, Quiet(a)' PROVE AlertAt(a)'
  BY DEF AlertOK
<1>0. /\ TypeOK /\ poll \in PollRecords
      /\ snap \in [Accounts -> Snapshots \cup {None}] /\ alert \in [Accounts -> BOOLEAN]
  BY Typed, Records DEF TypeInv, StoreTyped, LogTyped
<1>1. CASE Mends(a)
  <2>1. PICK e \in Editors : EditPublishes(e) /\ edit[e].alone /\ Forgets(e) /\ a = edit[e].acct
    BY <1>1 DEF Mends
  <2>2. edit[e].pc = "publish" /\ UNCHANGED <<snap, poll, alert, dropped>>
    BY <2>1 DEF EditPublishes, log
  <2>3. poll = NoPoll
    BY <2>1, <2>2, EditAt
  <2>4. Blank(a)
    BY <2>1, <2>2 DEF Forgotten, PastForget, Forgets
  <2> QED BY <2>2, <2>3, <2>4, NoPollFacts DEF AlertAt, Recording, Blank, Remembers, Told
<1>2. CASE Quiet(a)
  <2>0. AlertAt(a)
    BY <1>2 DEF AlertOK
  <2>1. CASE UNCHANGED <<poll, snap, alert, dropped>>
    BY <2>0, <2>1 DEF AlertAt, Recording, Remembers, WordAfter, CutAfter
  <2>2. ASSUME NEW kind \in Polls, PollStart(kind) PROVE AlertAt(a)'
    <3>1. poll = NoPoll /\ UNCHANGED <<snap, alert, dropped>>
      BY <2>2 DEF PollStart, files, log
    <3>2. Remembers(snap[a], alert[a], a \in dropped)
      BY <2>0, <3>1, NoPollFacts DEF AlertAt
    <3> QED BY <1>0, <2>2, <3>1, <3>2, Begins DEF AlertAt, PollBegins, Recording, Remembers
  <2>3. ASSUME NEW b \in Accounts, NEW asked, NEW o, Will(b, asked, o), Turn(b),
               UNCHANGED <<snap, alert, dropped>>, GoesOn(poll.last[b], o)
        PROVE  AlertAt(a)'
    <3>1. PollTakesUp(b, asked, o)
      BY <1>0, <2>3, Takes
    <3>2. poll.pc = "next" /\ b \in poll.todo
      BY <2>3 DEF Turn
    <3>3. \A c \in poll'.todo : poll'.last[c] = poll.last[c] /\ c \in poll.todo
      BY <1>0, <3>1 DEF PollTakesUp, PollPasses, PollRecords
    <3>4. Remembers(snap[a], alert[a], a \in dropped) /\ (a \in poll.todo => poll.last[a] = snap[a])
      BY <2>0, <3>2 DEF AlertAt
    <3>5. alert[a] \in BOOLEAN /\ (a \in dropped) \in BOOLEAN
      BY <1>0
    <3>6. a = b => Remembers(o.snap, WordAfter(alert[a], o.events), CutAfter(a \in dropped, o.events))
      BY <2>3, <3>2, <3>4, <3>5 DEF GoesOn
    <3>7. poll'.pc = "write" /\ poll'.acct = b /\ poll'.snap = o.snap /\ poll'.events = o.events
      BY <3>1 DEF PollTakesUp
    <3> QED BY <2>3, <3>3, <3>4, <3>6, <3>7 DEF AlertAt, Recording, Remembers, WordAfter, CutAfter
  <2>4. ASSUME NEW b \in Accounts, TakeLive(b) PROVE AlertAt(a)'
    <3> DEFINE o == Answer(poll.last[b], Applied(poll.last[b], poll.took[b]))
    <3>1. Will(b, FALSE, o) /\ Turn(b) /\ UNCHANGED <<snap, alert, dropped>>
      BY <2>4 DEF TakeLive, files, log
    <3>2. GoesOn(poll.last[b], o)
      BY AnswerTells
    <3> HIDE DEF o
    <3> QED BY <2>3, <3>1, <3>2
  <2>5. ASSUME NEW b \in Accounts, Ask(b) PROVE AlertAt(a)'
    <3>1. PICK o \in {Answer(poll.last[b], usage[b]), Miss(poll.last[b])} : Will(b, TRUE, o)
      BY <2>5 DEF Ask
    <3>2. Turn(b) /\ UNCHANGED <<snap, alert, dropped>>
      BY <2>5 DEF Ask, files, log
    <3>3. poll.last[b] \in Snapshots \cup {None} /\ SnapshotOK(poll.last[b])
      BY <1>0, <3>2 DEF Turn, PollRecords, TypeInv, PollOK
    <3>4. GoesOn(poll.last[b], o)
      BY <3>1, <3>3, AnswerTells, MissTells
    <3> QED BY <2>3, <3>1, <3>2, <3>4
  <2>6. ASSUME NEW b \in Accounts, Leave(b) PROVE AlertAt(a)'
    <3>1. poll' = Passed(b) /\ UNCHANGED <<snap, alert, dropped>>
      BY <2>6 DEF Leave, files, log
    <3>2. /\ PollPasses(b) /\ poll'.pc = poll.pc /\ poll'.acct = poll.acct
          /\ poll'.snap = poll.snap /\ poll'.events = poll.events
      BY <1>0, <3>1, Leaves
    <3>3. \A c \in poll'.todo : poll'.last[c] = poll.last[c] /\ c \in poll.todo
      BY <1>0, <3>2 DEF PollPasses, PollRecords
    <3> QED BY <2>0, <3>1, <3>2, <3>3 DEF AlertAt, Recording, Remembers, WordAfter, CutAfter
  <2>7. ASSUME NEW b \in Accounts, Write(b) PROVE AlertAt(a)'
    <3>1. PollWrites /\ poll.pc = "write" /\ poll.acct = b /\ poll.acct \notin poll.todo
      BY <1>0, <2>7, Writes DEF Write, TypeInv, PollOK
    <3>2. snap' = [snap EXCEPT ![b] = poll.snap] /\ UNCHANGED <<alert, dropped>>
      BY <2>7 DEF Write, log
    <3>3. snap'[a] = IF a = b THEN poll.snap ELSE snap[a]
      BY <1>0, <3>2
    <3> QED BY <2>0, <3>1, <3>2, <3>3 DEF AlertAt, PollWrites, Recording, Remembers, WordAfter, CutAfter
  <2>8. ASSUME NEW b \in Accounts, Append(b) PROVE AlertAt(a)'
    <3>1. PollTells /\ poll.pc = "append" /\ poll.acct = b /\ UNCHANGED snap
      BY <1>0, <2>8, Tells DEF Append, files
    <3>2. /\ alert' = [alert EXCEPT ![b] = IF "alert" \in poll.events THEN TRUE
                                            ELSE @ /\ "recovered" \notin poll.events]
          /\ dropped' = IF poll.events \cap {"alert", "recovered"} # {} THEN dropped \ {b} ELSE dropped
      BY <2>8 DEF Append
    <3>3. CASE a = b
      <4>1. alert'[a] <=> WordAfter(alert[a], poll.events)
        BY <1>0, <3>2, <3>3 DEF WordAfter
      <4>2. a \in dropped' <=> CutAfter(a \in dropped, poll.events)
        BY <3>2, <3>3 DEF CutAfter
      <4>3. /\ snap[a] = poll.snap
            /\ Remembers(poll.snap, WordAfter(alert[a], poll.events), CutAfter(a \in dropped, poll.events))
        BY <2>0, <3>1, <3>3 DEF AlertAt, Recording
      <4>4. Remembers(snap'[a], alert'[a], a \in dropped')
        BY <3>1, <4>1, <4>2, <4>3 DEF Remembers
      <4> QED BY <2>0, <3>1, <4>4 DEF AlertAt, PollTells, Recording, Remembers
    <3>4. CASE a # b
      <4>1. alert'[a] = alert[a] /\ (a \in dropped' <=> a \in dropped)
        BY <1>0, <3>2, <3>4
      <4> QED BY <2>0, <3>1, <3>4, <4>1 DEF AlertAt, PollTells, Recording, Remembers
    <3> QED BY <3>3, <3>4
  <2>9. ASSUME NEW e \in Editors, Forget(e) PROVE AlertAt(a)'
    <3>1. a # edit[e].acct
      BY <1>2, <2>9, EditAt DEF Forget, Quiet, Forgets, EditNames
    <3>2. /\ snap'[a] = snap[a] /\ (a \in dropped' <=> a \in dropped) /\ UNCHANGED <<alert, poll>>
      BY <1>0, <2>9, <3>1 DEF Forget
    <3> QED BY <2>0, <3>2 DEF AlertAt, Recording, Remembers, WordAfter, CutAfter
  <2>10. CASE PollEnds
    <3>1. UNCHANGED <<snap, alert, dropped>> /\ poll.pc = "next"
      BY <2>10 DEF PollEnds, files, log
    <3>2. Remembers(snap[a], alert[a], a \in dropped)
      BY <2>0, <3>1 DEF AlertAt
    <3> QED BY <2>10, <3>1, <3>2, Finishes DEF AlertAt, PollIdle, Recording, Remembers
  <2>11. CASE PollPublishes
    <3>1. UNCHANGED <<snap, alert, dropped>> /\ poll.pc = "publish" /\ PollIdle
      BY <2>11, IdlePoll DEF PollPublishes, log
    <3> QED BY <2>0, <3>1 DEF AlertAt, PollIdle, Recording, Remembers
  <2>12. CASE KillPoll
    <3>1. UNCHANGED <<snap, alert, dropped>> /\ PollIdle
      BY <2>12, IdlePoll DEF KillPoll, files, log
    <3>2. poll.acct # a
      BY <2>12, NoneAssumption DEF KillPoll, Quiet
    <3> QED BY <2>0, <3>1, <3>2 DEF AlertAt, PollIdle, Recording, Remembers
  <2> QED BY <2>1, <2>2, <2>4, <2>5, <2>6, <2>7, <2>8, <2>9, <2>10, <2>11, <2>12, AlertMoves
<1> QED BY <1>1, <1>2, QuietBefore

-----------------------------------------------------------------------------
(* What is seen of the use of an account.                                  *)

LEMMA WindowNat == Windows \subseteq Nat
  BY ConstantsAssumption DEF Windows

LEMMA UseNat == \A u \in Use : u.window \in Windows /\ u.window \in Nat /\ u.level \in 0..2
  BY ConstantsAssumption DEF Use, Windows, Levels

\* Windows only begin to be uneven, or misread.
LEMMA OddGrows ==
  ASSUME TypeInv, [Next]_vars, NEW a \in Accounts
  PROVE  uneven[a] \subseteq uneven'[a] /\ misread[a] \subseteq misread'[a]
<1>0. uneven \in [Accounts -> SUBSET Windows] /\ misread \in [Accounts -> SUBSET Windows]
  BY DEF TypeInv, TypeOK
<1>1. \A b, w : Uneven(b, w) => uneven[a] \subseteq uneven'[a]
  BY <1>0 DEF Uneven
<1>2. \A b \in Accounts : Write(b) => misread[a] \subseteq misread'[a]
  BY <1>0 DEF Write
<1> QED BY <1>1, <1>2, LogMoves
  DEF odd, EarlyReset, Report, Write, Append, PollStart, KillPoll, EditStart, EditFirst, EditSecond,
      Forget, EditPublishes, KillEdit

\* What was seen stays seen as long as use falls only in uneven windows.
LEMMA SeenGrows ==
  ASSUME NEW u \in Use \cup {None}, NEW now \in Use, NEW now1 \in Use, NEW un, NEW un1,
         Seen(u, now, un), un \subseteq un1, now.window <= now1.window,
         now1.window = now.window /\ now1.level < now.level => now.window \in un1
  PROVE  Seen(u, now1, un1)
  BY UseNat DEF Seen

LEMMA LaterGrows ==
  ASSUME NEW s, NEW u, NEW un, NEW un1, Later(s, u, un), un \subseteq un1
  PROVE  Later(s, u, un1)
  BY DEF Later

\* The use of an account and its window go on, or fall in an uneven window.
LEMMA UsageMoves ==
  ASSUME TypeInv, [Next]_vars, NEW a \in Accounts
  PROVE  /\ usage[a].window <= usage'[a].window
         /\ usage'[a].window = usage[a].window /\ usage'[a].level < usage[a].level
              => usage[a].window \in uneven'[a]
         /\ poll # NoPoll => usage'[a] = usage[a]
<1>0. usage \in [Accounts -> Use] /\ uneven \in [Accounts -> SUBSET Windows]
  BY DEF TypeInv, TypeOK
<1>1. CASE UNCHANGED usage
  BY <1>0, <1>1, UseNat
<1>2. ASSUME NEW b \in Accounts, Used(b)
      PROVE  poll = NoPoll /\ usage[a].window = usage'[a].window /\ usage[a].level <= usage'[a].level
  BY <1>0, <1>2, UseNat DEF Used, Use
<1>3. ASSUME NEW b \in Accounts, WindowEnds(b)
      PROVE  poll = NoPoll /\ (usage'[a] = usage[a] \/ usage'[a].window = usage[a].window + 1)
  BY <1>0, <1>3 DEF WindowEnds
<1>4. ASSUME NEW b \in Accounts, EarlyReset(b)
      PROVE  /\ poll = NoPoll /\ usage[a].window = usage'[a].window
             /\ usage'[a].level < usage[a].level => usage[a].window \in uneven'[a]
  <2>1. CASE a = b
    BY <1>0, <1>4, <2>1 DEF EarlyReset, Uneven, Use
  <2>2. CASE a # b
    BY <1>0, <1>4, <2>2, UseNat DEF EarlyReset
  <2> QED BY <2>1, <2>2
<1>5. usage[a].window \in Nat /\ usage[a].level \in 0..2
  BY <1>0, UseNat
<1>6. ASSUME NEW b \in Accounts, Report(b) \/ Write(b) PROVE UNCHANGED usage
  BY <1>6 DEF Report, Write
<1>7. ASSUME NEW kind \in Polls, PollStart(kind) PROVE UNCHANGED usage
  BY <1>7 DEF PollStart
<1>8. usage'[a].level \in 0..2 /\ usage'[a].window \in Nat
  BY SeenType, UseNat DEF TypeInv, SeenTyped
<1>9. CASE \E b \in Accounts : Used(b)
  BY <1>2, <1>5, <1>8, <1>9
<1>10. CASE \E b \in Accounts : WindowEnds(b)
  BY <1>3, <1>5, <1>8, <1>10
<1>11. CASE \E b \in Accounts : EarlyReset(b)
  BY <1>4, <1>5, <1>8, <1>11
<1> QED BY <1>1, <1>6, <1>7, <1>9, <1>10, <1>11, SeenMoves

\* Where the snapshots, the readings and what a poll holds come from.
LEMMA SnapFrom ==
  ASSUME TypeInv, [Next]_vars, NEW a \in Accounts
  PROVE  \/ snap'[a] = snap[a]
         \/ snap'[a] = None /\ \E e \in Editors : Forget(e) /\ edit[e].acct = a
         \/ snap'[a] = poll.snap /\ Write(a)
<1>0. snap \in [Accounts -> Snapshots \cup {None}]
  BY DEF TypeInv, TypeOK
<1> QED BY <1>0, FilesMoves DEF files, EditFirst, EditSecond, PollPublishes, EditPublishes,
                                Write, Forget

TodoKept(a) == a \in poll.todo /\ poll'.last[a] = poll.last[a] /\ poll'.took[a] = poll.took[a]

LEMMA TodoFrom ==
  ASSUME TypeInv, [Next]_vars, NEW a \in Accounts, a \in poll'.todo
  PROVE  TodoKept(a) \/ \E kind \in Polls : PollStart(kind)
<1>0. TypeOK /\ poll \in PollRecords
  BY Records DEF TypeInv
<1>1. ASSUME NEW b \in Accounts, PollPasses(b) PROVE TodoKept(a)
  BY <1>0, <1>1 DEF PollPasses, PollRecords, TodoKept
<1>2. ASSUME NEW b \in Accounts, TakeLive(b) \/ Ask(b) PROVE TodoKept(a)
  BY <1>0, <1>1, <1>2, Takes DEF TakeLive, Ask, PollTakesUp
<1>3. ASSUME NEW b \in Accounts, Leave(b) PROVE TodoKept(a)
  <2>1. poll' = Passed(b)
    BY <1>3 DEF Leave
  <2>2. PollPasses(b)
    BY <1>0, <2>1, Leaves
  <2> QED BY <1>1, <2>2
<1>4. ASSUME NEW b \in Accounts, Write(b) PROVE TodoKept(a)
  BY <1>0, <1>4, Writes DEF PollWrites, TodoKept
<1>5. ASSUME NEW b \in Accounts, Append(b) PROVE TodoKept(a)
  BY <1>0, <1>5, Tells DEF PollTells, TodoKept
<1>6. poll' # NoPoll
  BY IdlePoll DEF PollIdle
<1>7. ~ PollEnds
  BY Finishes DEF PollIdle
<1>8. CASE UNCHANGED poll
  BY <1>8 DEF TodoKept
<1> QED BY <1>2, <1>3, <1>4, <1>5, <1>6, <1>7, <1>8, PollMoves DEF PollPublishes, KillPoll

RecordingKept(a) ==
  /\ Recording /\ poll.acct = a /\ poll'.snap = poll.snap /\ poll'.events = poll.events
  /\ poll'.blind = poll.blind /\ (poll'.pc = poll.pc \/ Write(a))

LEMMA RecordingFrom ==
  ASSUME TypeInv, [Next]_vars, NEW a \in Accounts, Recording', poll'.acct = a
  PROVE  RecordingKept(a) \/ TakeLive(a) \/ Ask(a)
<1>0. TypeOK /\ PollOK /\ poll \in PollRecords
  BY Records DEF TypeInv
<1>1. CASE UNCHANGED poll
  BY <1>1 DEF RecordingKept, Recording
<1>2. ASSUME NEW kind \in Polls, PollStart(kind) PROVE FALSE
  BY <1>0, <1>2, Begins DEF PollBegins, Recording
<1>3. ASSUME NEW b \in Accounts, TakeLive(b) \/ Ask(b) PROVE a = b
  BY <1>0, <1>3, Takes DEF TakeLive, Ask, PollTakesUp
<1>4. ASSUME NEW b \in Accounts, Leave(b) PROVE RecordingKept(a)
  <2>1. poll' = Passed(b)
    BY <1>4 DEF Leave
  <2>2. /\ poll'.pc = poll.pc /\ poll'.acct = poll.acct /\ poll'.blind = poll.blind
        /\ poll'.snap = poll.snap /\ poll'.events = poll.events
    BY <1>0, <2>1, Leaves
  <2> QED BY <2>2 DEF RecordingKept, Recording
<1>5. ASSUME NEW b \in Accounts, Write(b) PROVE RecordingKept(a)
  BY <1>0, <1>5, Writes DEF PollWrites, RecordingKept, Recording, Write
<1>6. ASSUME NEW b \in Accounts, Append(b) PROVE FALSE
  BY <1>0, <1>6, Tells DEF PollTells, Recording
<1>7. poll' # NoPoll
  BY IdlePoll DEF PollIdle, Recording
<1>8. ~ PollEnds
  BY Finishes DEF PollIdle, Recording
<1> QED BY <1>1, <1>2, <1>3, <1>4, <1>5, <1>6, <1>7, <1>8, PollMoves DEF PollPublishes, KillPoll

\* A reading is the one there was, no younger, or one a session writes.
Reported(a) ==
  /\ reading'[a].age = "new" /\ reading'[a].use \in Use
  /\ reading'[a].use.window = usage[a].window
  /\ reading'[a].use.level <= usage[a].level \/ usage[a].window \in uneven[a]
  /\ reading'[a].use.level = 0 /\ usage[a].level > 0 => usage[a].window \in uneven'[a]
  /\ UNCHANGED <<snap, usage, poll, crossed, early>>

ReadingKept(a) ==
  /\ reading'[a] # None => /\ reading[a] # None /\ reading'[a].use = reading[a].use
                           /\ reading'[a].age \in {"old", reading[a].age, "read"}
                           /\ reading'[a].age # "old" => reading[a].age # "old"
                           /\ reading'[a].age = "new" => reading[a].age = "new"

LEMMA ReportFacts ==
  ASSUME TypeInv, NEW a \in Accounts, Report(a)
  PROVE  Reported(a) /\ \A b \in Accounts \ {a} : reading'[b] = reading[b]
<1>0. /\ usage \in [Accounts -> Use] /\ uneven \in [Accounts -> SUBSET Windows]
      /\ reading \in [Accounts -> [use : Use, age : {"new", "read", "old"}] \cup {None}]
  BY DEF TypeInv, TypeOK
<1>1. PICK l \in Levels :
        /\ l <= usage[a].level \/ usage[a].window \in uneven[a]
        /\ reading' = [reading EXCEPT ![a] =
                         [use |-> [window |-> usage[a].window, level |-> l], age |-> "new"]]
        /\ IF l = 0 /\ usage[a].level > 0 THEN Uneven(a, usage[a].window) ELSE UNCHANGED uneven
        /\ UNCHANGED <<files, usage, poll, edit, commands, log, torn>>
  BY DEF Report
<1> DEFINE u == [window |-> usage[a].window, level |-> l]
<1>2. u \in Use /\ u.window = usage[a].window /\ u.level = l
  BY <1>0, UseNat DEF Use
<1> HIDE DEF u
<1>3. reading'[a] = [use |-> u, age |-> "new"] /\ \A b \in Accounts \ {a} : reading'[b] = reading[b]
  BY <1>0, <1>1 DEF u
<1>4. reading'[a].use = u /\ reading'[a].age = "new"
  BY <1>3
<1>5. u.level = 0 /\ usage[a].level > 0 => usage[a].window \in uneven'[a]
  BY <1>0, <1>1, <1>2 DEF Uneven
<1>6. UNCHANGED <<snap, usage, poll, crossed, early>>
  BY <1>1 DEF files, log
<1> QED BY <1>1, <1>2, <1>3, <1>4, <1>5, <1>6 DEF Reported

LEMMA ReadingFrom ==
  ASSUME TypeInv, [Next]_vars, NEW a \in Accounts
  PROVE  \/ Report(a) /\ Reported(a)
         \/ /\ ReadingKept(a)
            /\ \/ ~ Write(a)
               \/ reading'[a] # None /\ reading'[a].age # "old" => ~ poll.asked /\ reading[a].age = "new"
<1>0. /\ reading \in [Accounts -> [use : Use, age : {"new", "read", "old"}] \cup {None}]
  BY DEF TypeInv, TypeOK
<1>1. CASE reading'[a] = reading[a] /\ ~ Write(a)
  BY <1>1 DEF ReadingKept
<1>2. CASE Report(a)
  BY <1>2, ReportFacts
<1>3. ASSUME NEW b \in Accounts, a # b, Report(b) PROVE reading'[a] = reading[a] /\ ~ Write(a)
  <2>1. poll.pc \in {"idle", "next"}
    BY <1>3 DEF Report
  <2>2. reading'[a] = reading[a]
    BY <1>3, ReportFacts
  <2> QED BY <2>1, <2>2 DEF Write
<1>4. ASSUME NEW kind \in Polls, PollStart(kind) PROVE ReadingKept(a) /\ ~ Write(a)
  <2>1. reading'[a] = IF reading[a] # None /\ reading[a].age = "new"
                        THEN [reading[a] EXCEPT !.age = "read"] ELSE reading[a]
    BY <1>4 DEF PollStart
  <2>2. ~ Write(a)
    BY <1>4, NoPollFacts DEF PollStart, Write
  <2>3. CASE reading[a] # None /\ reading[a].age = "new"
    <3>1. reading[a] \in [use : Use, age : {"new", "read", "old"}]
      BY <1>0, <2>3
    <3>2. reading'[a].use = reading[a].use /\ reading'[a].age = "read"
      BY <2>1, <2>3, <3>1
    <3> QED BY <2>2, <2>3, <3>2 DEF ReadingKept
  <2>4. CASE ~ (reading[a] # None /\ reading[a].age = "new")
    BY <2>1, <2>2, <2>4 DEF ReadingKept
  <2> QED BY <2>3, <2>4
<1>5. CASE Write(a)
  <2>1. reading'[a] = IF reading[a] # None /\ (poll.asked \/ reading[a].age = "read")
                        THEN [reading[a] EXCEPT !.age = "old"] ELSE reading[a]
    BY <1>0, <1>5 DEF Write
  <2>2. CASE reading[a] # None /\ (poll.asked \/ reading[a].age = "read")
    <3>1. reading[a] \in [use : Use, age : {"new", "read", "old"}]
      BY <1>0, <2>2
    <3>2. reading'[a].use = reading[a].use /\ reading'[a].age = "old"
      BY <2>1, <2>2, <3>1
    <3> QED BY <2>2, <3>2 DEF ReadingKept
  <2>3. CASE ~ (reading[a] # None /\ (poll.asked \/ reading[a].age = "read"))
    <3>1. reading'[a] = reading[a]
      BY <2>1, <2>3
    <3>2. reading[a] # None /\ reading[a].age # "old" => ~ poll.asked /\ reading[a].age = "new"
      BY <1>0, <2>3
    <3> QED BY <3>1, <3>2 DEF ReadingKept
  <2> QED BY <2>2, <2>3
<1>6. ASSUME NEW b \in Accounts, a # b, Write(b) PROVE reading'[a] = reading[a] /\ ~ Write(a)
  BY <1>0, <1>6 DEF Write
<1>7. ASSUME NEW b \in Accounts, Used(b) \/ WindowEnds(b) \/ EarlyReset(b)
      PROVE  reading'[a] = reading[a] /\ ~ Write(a)
  BY <1>7, NoPollFacts DEF Used, WindowEnds, EarlyReset, Write
<1>8. CASE UNCHANGED <<usage, reading>>
  BY <1>1, <1>5, <1>8
<1> QED BY <1>1, <1>2, <1>3, <1>4, <1>5, <1>6, <1>7, <1>8, SeenMoves

\* What a poll takes up is use that was seen, and it tells early resets only of
\* uneven windows.
Honest(o, now, un) ==
  /\ Seen(o.snap.use, now, un)
  /\ "early" \in o.events => o.snap.use.window \in un

LEMMA AnswerHonest ==
  ASSUME NEW last \in Snapshots \cup {None}, NEW use \in Use, NEW now \in Use, NEW un,
         Seen(use, now, un),
         (last # None /\ last.use # None /\ use.window = last.use.window /\ use.level < last.use.level)
           => use.window \in un
  PROVE  Honest(Answer(last, use), now, un)
<1>1. Answer(last, use).snap.use = use
  BY DEF Answer
<1>2. "early" \in Answer(last, use).events =>
        last # None /\ last.use # None /\ use.window = last.use.window /\ use.level < last.use.level
  BY DEF Answer, Noticed
<1> QED BY <1>1, <1>2 DEF Honest

LEMMA AskHonest ==
  ASSUME NEW last \in Snapshots \cup {None}, NEW now \in Use, NEW un,
         last # None => Seen(last.use, now, un),
         NEW o \in {Answer(last, now), Miss(last)}
  PROVE  Honest(o, now, un)
<1>1. Seen(now, now, un)
  BY UseNat DEF Seen
<1>2. (last # None /\ last.use # None /\ now.window = last.use.window /\ now.level < last.use.level)
        => now.window \in un
  BY UseNat DEF Seen
<1>3. Honest(Answer(last, now), now, un)
  BY <1>1, <1>2, AnswerHonest
<1>4. Miss(last).snap.use = None /\ "early" \notin Miss(last).events
  BY DEF Miss
<1> QED BY <1>3, <1>4 DEF Honest, Seen

\* Below what was known a reading is taken only when it is about empty.
LEMMA AppliedLower ==
  ASSUME NEW last \in Snapshots \cup {None}, NEW took \in Use
  PROVE  LET use == Applied(last, took) IN
         /\ use = took \/ (last # None /\ last.use # None /\ use = last.use)
         /\ (use = took /\ last # None /\ last.use # None /\ use.window = last.use.window
               /\ use.level < last.use.level) => took.level = 0
<1>1. last = None \/ last.use \in Use \cup {None}
  BY DEF Snapshots
<1>2. CASE last # None /\ Stale(last.use, took)
  <2>1. last.use \in Use
    BY <1>1, <1>2 DEF Stale
  <2>2. Applied(last, took) = last.use
    BY <1>2 DEF Applied
  <2> QED BY <1>2, <2>1, <2>2, UseNat DEF Stale
<1>3. CASE ~ (last # None /\ Stale(last.use, took))
  <2>1. Applied(last, took) = took
    BY <1>3 DEF Applied
  <2>2. (last # None /\ last.use # None /\ took.window = last.use.window
               /\ took.level < last.use.level) => took.level = 0
    BY <1>3, UseNat DEF Stale
  <2> QED BY <2>1, <2>2
<1> QED BY <1>2, <1>3

LEMMA TakeHonest ==
  ASSUME NEW last \in Snapshots \cup {None}, NEW took \in Use, NEW now \in Use, NEW un,
         last # None => Seen(last.use, now, un), Seen(took, now, un), Later(last, took, un)
  PROVE  Honest(Answer(last, Applied(last, took)), now, un)
<1> DEFINE use == Applied(last, took)
<1>1. use \in Use
  BY AppliedUse
<1>2. Seen(use, now, un)
  BY AppliedLower
<1>3. ASSUME last # None, last.use # None, use.window = last.use.window, use.level < last.use.level
      PROVE  use.window \in un
  <2>1. last.use \in Use
    BY <1>3 DEF Snapshots
  <2>2. use # last.use
    BY <1>1, <1>3, <2>1, UseNat
  <2>3. use = took
    BY <1>3, <2>2, AppliedLower
  <2>4. took.level = 0
    BY <1>3, <2>3, AppliedLower
  <2>5. last.use.level > 0
    BY <1>1, <1>3, <2>1, UseNat
  <2>6. took # None
    BY NoneAssumption
  <2> QED BY <1>3, <2>3, <2>4, <2>5, <2>6 DEF Later
<1> HIDE DEF use
<1> QED BY <1>1, <1>2, <1>3, AnswerHonest DEF use

LEMMA UseStep ==
  ASSUME TypeInv, UseOK, [Next]_vars
  PROVE  UseOK'
<1> SUFFICES ASSUME NEW a \in Accounts
             PROVE  /\ snap'[a] # None => Seen(snap'[a].use, usage'[a], uneven'[a])
                    /\ ReadingAt(a)' /\ TodoAt(a)' /\ RecordingAt(a)'
                    /\ early'[a] \subseteq uneven'[a]
  BY DEF UseOK
<1>0. /\ TypeOK /\ PollOK /\ PollTyped /\ poll \in PollRecords
      /\ snap \in [Accounts -> Snapshots \cup {None}]
      /\ reading \in [Accounts -> [use : Use, age : {"new", "read", "old"}] \cup {None}]
      /\ early \in [Accounts -> SUBSET Windows] /\ usage[a] \in Use /\ usage'[a] \in Use
  BY Typed, Records, SeenType DEF TypeInv, StoreTyped, SeenTyped, LogTyped
<1>1. /\ snap[a] # None => Seen(snap[a].use, usage[a], uneven[a])
      /\ ReadingAt(a) /\ TodoAt(a) /\ RecordingAt(a)
      /\ early[a] \subseteq uneven[a]
  BY DEF UseOK
<1>2. uneven[a] \subseteq uneven'[a]
  BY OddGrows
<1>3. ASSUME NEW u \in Use \cup {None}, Seen(u, usage[a], uneven[a])
      PROVE  Seen(u, usage'[a], uneven'[a])
  BY <1>0, <1>2, <1>3, UsageMoves, SeenGrows
<1>4. ASSUME NEW s, NEW u, Later(s, u, uneven[a]) PROVE Later(s, u, uneven'[a])
  BY <1>2, <1>4, LaterGrows
<1>5. (snap[a] # None => snap[a].use \in Use \cup {None})
      /\ (poll.snap # None => poll.snap.use \in Use \cup {None})
      /\ (poll.last[a] # None => poll.last[a].use \in Use \cup {None})
      /\ poll.took[a] \in Use \cup {None}
      /\ (reading[a] # None => reading[a].use \in Use)
  BY <1>0 DEF Snapshots, PollRecords
<1>6. snap'[a] # None => Seen(snap'[a].use, usage'[a], uneven'[a])
  <2>1. CASE snap'[a] = snap[a]
    BY <1>1, <1>3, <1>5, <2>1
  <2>2. CASE snap'[a] = poll.snap /\ Write(a)
    <3>1. Seen(poll.snap.use, usage[a], uneven[a]) /\ poll.snap # None
      BY <1>0, <1>1, <2>2 DEF RecordingAt, Recording, Write, PollTyped
    <3> QED BY <1>3, <1>5, <2>2, <3>1
  <2> QED BY <2>1, <2>2, SnapFrom
<1>7. TodoAt(a)'
  <2> SUFFICES ASSUME a \in poll'.todo
               PROVE  /\ poll'.last[a] # None => Seen(poll'.last[a].use, usage'[a], uneven'[a])
                      /\ Seen(poll'.took[a], usage'[a], uneven'[a])
                      /\ Later(poll'.last[a], poll'.took[a], uneven'[a])
    BY DEF TodoAt
  <2>1. CASE TodoKept(a)
    BY <1>1, <1>3, <1>4, <1>5, <2>1 DEF TodoKept, TodoAt
  <2>2. ASSUME NEW kind \in Polls, PollStart(kind)
        PROVE  /\ poll'.last[a] # None => Seen(poll'.last[a].use, usage'[a], uneven'[a])
               /\ Seen(poll'.took[a], usage'[a], uneven'[a])
               /\ Later(poll'.last[a], poll'.took[a], uneven'[a])
    <3>1. /\ poll'.last = snap
          /\ poll'.took[a] = IF reading[a] # None /\ (reading[a].age # "old" \/ snap[a] = None)
                               THEN reading[a].use ELSE None
      BY <1>0, <2>2, Begins DEF PollBegins
    <3>2. Seen(poll'.took[a], usage[a], uneven[a]) /\ poll'.took[a] \in Use \cup {None}
      BY <1>1, <1>5, <3>1 DEF ReadingAt, Seen
    <3>3. Later(snap[a], poll'.took[a], uneven[a])
      BY <1>1, <3>1 DEF ReadingAt, Later
    <3> QED BY <1>1, <1>3, <1>4, <1>5, <3>1, <3>2, <3>3
  <2> QED BY <2>1, <2>2, TodoFrom
<1>8. RecordingAt(a)'
  <2> SUFFICES ASSUME Recording', poll'.acct = a
               PROVE  /\ Seen(poll'.snap.use, usage'[a], uneven'[a])
                      /\ "early" \in poll'.events => poll'.snap.use.window \in uneven'[a]
    BY DEF RecordingAt
  <2>1. CASE RecordingKept(a)
    <3>1. poll.snap # None
      BY <1>0, <2>1 DEF RecordingKept, Recording, PollTyped
    <3>2. Seen(poll.snap.use, usage[a], uneven[a])
          /\ ("early" \in poll.events => poll.snap.use.window \in uneven[a])
      BY <1>1, <2>1 DEF RecordingKept, RecordingAt
    <3>3. Seen(poll.snap.use, usage'[a], uneven'[a])
      BY <1>3, <1>5, <3>1, <3>2
    <3> QED BY <1>2, <2>1, <3>2, <3>3 DEF RecordingKept
  <2>2. ASSUME NEW o, NEW asked, Outcome(o), Will(a, asked, o), Honest(o, usage[a], uneven[a])
        PROVE  /\ Seen(poll'.snap.use, usage'[a], uneven'[a])
               /\ "early" \in poll'.events => poll'.snap.use.window \in uneven'[a]
    <3>1. poll'.snap = o.snap /\ poll'.events = o.events
      BY <1>0, <2>2, Takes DEF PollTakesUp
    <3>2. o.snap.use \in Use \cup {None}
      BY <2>2 DEF Outcome, Snapshots
    <3>3. Seen(o.snap.use, usage'[a], uneven'[a])
      BY <1>3, <2>2, <3>2 DEF Honest
    <3> QED BY <1>2, <2>2, <3>1, <3>3 DEF Honest
  <2>3. CASE TakeLive(a)
    <3> DEFINE use == Applied(poll.last[a], poll.took[a])
               o == Answer(poll.last[a], use)
    <3>1. a \in poll.todo /\ poll.took[a] \in Use /\ poll.last[a] \in Snapshots \cup {None}
      BY <1>0, <2>3 DEF TakeLive, Turn, HasLive, PollRecords
    <3>2. Honest(o, usage[a], uneven[a])
      BY <1>0, <1>1, <3>1, TakeHonest DEF TodoAt
    <3>3. Outcome(o)
      BY <3>1, AppliedUse, AnswerOutcome
    <3>4. Will(a, FALSE, o)
      BY <2>3 DEF TakeLive
    <3> HIDE DEF o
    <3> QED BY <2>2, <3>2, <3>3, <3>4
  <2>4. CASE Ask(a)
    <3>1. a \in poll.todo /\ poll.last[a] \in Snapshots \cup {None} /\ SnapshotOK(poll.last[a])
      BY <1>0, <2>4 DEF Ask, Turn, PollRecords, PollOK
    <3>2. PICK o \in {Answer(poll.last[a], usage[a]), Miss(poll.last[a])} : Will(a, TRUE, o)
      BY <2>4 DEF Ask
    <3>3. Honest(o, usage[a], uneven[a])
      BY <1>0, <1>1, <3>1, <3>2, AskHonest DEF TodoAt
    <3>4. Outcome(o)
      BY <1>0, <3>1, <3>2, AnswerOutcome, MissOutcome
    <3> QED BY <2>2, <3>2, <3>3, <3>4
  <2> QED BY <2>1, <2>3, <2>4, RecordingFrom
<1>9. early'[a] \subseteq uneven'[a]
  <2>1. CASE early'[a] = early[a]
    BY <1>1, <1>2, <2>1
  <2>2. CASE Append(a)
    <3>1. RecordingAt(a) /\ Recording /\ poll.acct = a
      BY <1>1, <2>2 DEF Append, Recording
    <3>2. early'[a] \subseteq early[a] \cup (IF "early" \in poll.events THEN {poll.snap.use.window} ELSE {})
      BY <1>0, <2>2 DEF Append
    <3> QED BY <1>1, <1>2, <3>1, <3>2 DEF RecordingAt
  <2>3. ASSUME NEW b \in Accounts, Append(b), b # a PROVE early'[a] = early[a]
    BY <1>0, <2>3 DEF Append
  <2> QED BY <2>1, <2>2, <2>3, LogMoves
      DEF log, EarlyReset, Report, Write, PollStart, KillPoll, EditStart, EditFirst, EditSecond,
          Forget, EditPublishes, KillEdit

<1>10. ReadingAt(a)'
  <2> SUFFICES ASSUME reading'[a] # None
               PROVE  /\ Seen(reading'[a].use, usage'[a], uneven'[a])
                      /\ reading'[a].age # "old" => Later(snap'[a], reading'[a].use, uneven'[a])
                      /\ poll'.pc # "idle" => Fresh(reading'[a], usage'[a], uneven'[a])
    BY DEF ReadingAt
  <2>1. CASE Reported(a)
    <3> DEFINE u == reading'[a].use
    <3>1. /\ u \in Use /\ u.window = usage[a].window /\ usage'[a] = usage[a] /\ snap'[a] = snap[a]
          /\ u.level <= usage[a].level \/ u.window \in uneven'[a]
          /\ u.level = 0 /\ usage[a].level > 0 => u.window \in uneven'[a]
      BY <1>2, <2>1 DEF Reported
    <3> HIDE DEF u
    <3>2. Seen(u, usage'[a], uneven'[a])
      BY <1>0, <3>1, UseNat DEF Seen
    <3>3. Later(snap[a], u, uneven'[a])
      <4> SUFFICES ASSUME snap[a] # None, snap[a].use # None
                   PROVE  /\ snap[a].use.window <= u.window
                          /\ (snap[a].use.window = u.window /\ snap[a].use.level > 0 /\ u.level = 0)
                               => u.window \in uneven'[a]
        BY DEF Later
      <4>1. snap[a].use \in Use /\ Seen(snap[a].use, usage[a], uneven[a])
        BY <1>1, <1>5
      <4> QED BY <1>0, <1>2, <3>1, <4>1, UseNat DEF Seen
    <3>4. Fresh(reading'[a], usage'[a], uneven'[a])
      BY <3>1 DEF Fresh, u
    <3> QED BY <3>1, <3>2, <3>3, <3>4 DEF u
  <2>2. CASE /\ ReadingKept(a)
             /\ ~ Write(a) \/ (reading'[a].age # "old" => ~ poll.asked /\ reading[a].age = "new")
    <3>1. /\ reading[a] # None /\ reading'[a].use = reading[a].use
          /\ reading'[a].age # "old" => reading[a].age # "old"
          /\ reading'[a].age = "new" => reading[a].age = "new"
      BY <2>2 DEF ReadingKept
    <3>2. /\ Seen(reading[a].use, usage[a], uneven[a])
          /\ reading[a].age # "old" => Later(snap[a], reading[a].use, uneven[a])
          /\ poll.pc # "idle" => Fresh(reading[a], usage[a], uneven[a])
      BY <1>1, <3>1 DEF ReadingAt
    <3>3. Seen(reading'[a].use, usage'[a], uneven'[a])
      BY <1>3, <1>5, <3>1, <3>2
    <3>4. ASSUME reading'[a].age # "old" PROVE Later(snap'[a], reading'[a].use, uneven'[a])
      <4>1. CASE snap'[a] = snap[a]
        BY <1>4, <3>1, <3>2, <3>4, <4>1
      <4>2. CASE snap'[a] = None
        BY <4>2 DEF Later
      <4>3. CASE snap'[a] = poll.snap /\ Write(a)
        <5>1. reading[a].age = "new" /\ Recording /\ poll.acct = a /\ poll.pc # "idle"
          BY <2>2, <3>4, <4>3 DEF Write, Recording
        <5>2. Seen(poll.snap.use, usage[a], uneven[a]) /\ poll.snap # None
          BY <1>0, <1>1, <5>1 DEF RecordingAt, Recording, PollTyped
        <5>3. /\ reading[a].use.window = usage[a].window
              /\ reading[a].use.level = 0 /\ usage[a].level > 0 => usage[a].window \in uneven[a]
          BY <3>2, <5>1 DEF Fresh
        <5>4. ASSUME poll.snap.use # None
              PROVE  /\ poll.snap.use.window <= reading[a].use.window
                     /\ (poll.snap.use.window = reading[a].use.window /\ poll.snap.use.level > 0
                           /\ reading[a].use.level = 0) => reading[a].use.window \in uneven[a]
          <6>1. poll.snap.use \in Use /\ reading[a].use \in Use
            BY <1>5, <3>1, <5>2, <5>4
          <6> QED BY <1>0, <5>2, <5>3, <5>4, <6>1, UseNat DEF Seen
        <5>5. Later(poll.snap, reading[a].use, uneven[a])
          BY <5>4 DEF Later
        <5> QED BY <1>4, <3>1, <4>3, <5>5
      <4> QED BY <4>1, <4>2, <4>3, SnapFrom
    <3>5. ASSUME poll'.pc # "idle" PROVE Fresh(reading'[a], usage'[a], uneven'[a])
      <4>1. ASSUME NEW kind \in Polls, PollStart(kind) PROVE reading'[a].age # "new"
        <5>1. reading'[a] = IF reading[a].age = "new" THEN [reading[a] EXCEPT !.age = "read"] ELSE reading[a]
          BY <1>0, <3>1, <4>1 DEF PollStart
        <5>2. reading[a] \in [use : Use, age : {"new", "read", "old"}]
          BY <1>0, <3>1
        <5> QED BY <5>1, <5>2
      <4>2. CASE poll.pc # "idle"
        <5>1. usage'[a] = usage[a]
          BY <4>2, UsageMoves, NoPollFacts
        <5> QED BY <1>2, <3>1, <3>2, <4>2, <5>1 DEF Fresh
      <4>3. CASE poll.pc = "idle"
        <5>1. \E kind \in Polls : PollStart(kind)
          BY <3>5, <4>3, PollMoves DEF TakeLive, Ask, Leave, Turn, Write, Append, PollEnds, PollPublishes, KillPoll
        <5> QED BY <4>1, <5>1 DEF Fresh
      <4> QED BY <4>2, <4>3
    <3> QED BY <3>3, <3>4, <3>5
  <2> QED BY <2>1, <2>2, ReadingFrom
<1> QED BY <1>6, <1>7, <1>8, <1>9, <1>10

-----------------------------------------------------------------------------
(* The bar is told once.                                                   *)

LEMMA WrittenStep ==
  ASSUME TypeInv, WrittenOK, [Next]_vars
  PROVE  WrittenOK'
<1> SUFFICES ASSUME poll'.pc = "append", NEW a, a = poll'.acct
             PROVE  snap'[a] \in {poll'.snap, None}
  BY DEF WrittenOK
<1>0. /\ TypeOK /\ PollTyped /\ poll \in PollRecords
      /\ snap \in [Accounts -> Snapshots \cup {None}]
  BY Typed, Records DEF TypeInv, StoreTyped
<1>1. CASE Write(a)
  <2>1. PollWrites /\ poll.acct = a /\ a \in Accounts /\ snap' = [snap EXCEPT ![a] = poll.snap]
    BY <1>0, <1>1, Writes DEF Write, PollTyped, PollRecords
  <2> QED BY <1>0, <2>1 DEF PollWrites
<1>2. CASE UNCHANGED poll
  <2>1. a \in Accounts /\ poll.pc = "append" /\ poll.acct = a
    BY <1>0, <1>2 DEF PollTyped, PollRecords
  <2>2. ~ Write(a)
    BY <2>1 DEF Write
  <2> QED BY <1>2, <2>1, <2>2, SnapFrom DEF WrittenOK
<1>3. ASSUME NEW b \in Accounts, TakeLive(b) \/ Ask(b) PROVE FALSE
  BY <1>0, <1>3, Takes DEF TakeLive, Ask, PollTakesUp
<1>4. ASSUME NEW b \in Accounts, Leave(b) PROVE FALSE
  <2>1. poll' = Passed(b) /\ poll.pc = "next"
    BY <1>4 DEF Leave, Turn
  <2> QED BY <1>0, <2>1, Leaves
<1>5. ASSUME NEW b \in Accounts, Write(b) PROVE a = b
  BY <1>0, <1>5, Writes DEF Write, PollWrites
<1>6. ASSUME NEW b \in Accounts, Append(b) PROVE FALSE
  BY <1>0, <1>6, Tells DEF PollTells
<1>7. ASSUME NEW kind \in Polls, PollStart(kind) PROVE FALSE
  BY <1>0, <1>7, Begins DEF PollBegins
<1>8. poll' # NoPoll /\ ~ PollEnds
  BY IdlePoll, Finishes DEF PollIdle
<1> QED BY <1>1, <1>2, <1>3, <1>4, <1>5, <1>6, <1>7, <1>8, PollMoves DEF PollPublishes, KillPoll

\* What a poll takes up after the bar of window w was told is past it too, unless
\* it had nothing to hold it against, and tells it not again.
TellsNot(o, blind, w) ==
  /\ ~ blind => Past(o.snap.use, w)
  /\ "threshold" \in o.events => o.snap.use.window # w

LEMMA AnswerTellsNot ==
  ASSUME NEW w \in Windows, NEW last \in Snapshots \cup {None}, PastSnap(last, w), NEW use \in Use,
         last # None /\ last.use # None => last.use.window <= use.window
  PROVE  "threshold" \in Answer(last, use).events => use.window # w
<1>1. "threshold" \in Answer(last, use).events => last # None /\ last.use # None /\ Crosses(last.use, use)
  BY DEF Answer, Noticed
<1>2. ASSUME last # None, last.use # None, Crosses(last.use, use) PROVE use.window # w
  <2>1. last.use \in Use /\ Over(last.use, w)
    BY <1>2 DEF Snapshots, PastSnap, Past
  <2> QED BY <1>2, <2>1, UseNat, WindowNat DEF Over, Crosses, Bar
<1> QED BY <1>1, <1>2

LEMMA AskTellsNot ==
  ASSUME NEW w \in Windows, NEW un, NEW last \in Snapshots \cup {None}, NEW now \in Use, Over(now, w),
         PastSnap(last, w), last # None => Seen(last.use, now, un)
  PROVE  TellsNot(Answer(last, now), FALSE, w) /\ TellsNot(Miss(last), FALSE, w)
<1>1. TellsNot(Answer(last, now), FALSE, w)
  <2>1. Answer(last, now).snap.use = now
    BY DEF Answer
  <2>2. last # None /\ last.use # None => last.use.window <= now.window
    BY DEF Seen
  <2>3. "threshold" \in Answer(last, now).events => now.window # w
    BY <2>2, AnswerTellsNot
  <2> QED BY <2>1, <2>3 DEF TellsNot, Past
<1>2. TellsNot(Miss(last), FALSE, w)
  <2>1. Miss(last).snap.use = None /\ "threshold" \notin Miss(last).events
    BY DEF Miss
  <2> QED BY <2>1 DEF TellsNot, Past
<1> QED BY <1>1, <1>2

LEMMA TakeTellsNot ==
  ASSUME NEW w \in Windows, NEW un, w \notin un, NEW last \in Snapshots \cup {None},
         NEW took \in Use, PastSnap(last, w), Later(last, took, un)
  PROVE  TellsNot(Answer(last, Applied(last, took)), Unknown(last), w)
<1> DEFINE use == Applied(last, took)
<1>1. use \in Use /\ took # None
  BY AppliedUse, NoneAssumption
<1>2. ASSUME last # None, last.use # None PROVE last.use.window <= use.window /\ Over(use, w)
  <2>1. last.use \in Use /\ Over(last.use, w)
    BY <1>2 DEF Snapshots, PastSnap, Past
  <2>2. CASE use = last.use
    BY <2>1, <2>2, UseNat
  <2>3. CASE use = took
    <3>1. /\ last.use.window <= took.window
          /\ (last.use.window = took.window /\ last.use.level > 0 /\ took.level = 0)
               => took.window \in un
      BY <1>1, <1>2 DEF Later
    <3>2. took.window = last.use.window /\ took.level < last.use.level => took.level = 0
      BY <1>2, <2>3, AppliedLower
    <3>3. Over(took, w)
      BY <2>1, <3>1, <3>2, UseNat, WindowNat DEF Over, Bar
    <3> QED BY <2>3, <3>1, <3>3
  <2> QED BY <1>2, <2>2, <2>3, AppliedLower
<1> HIDE DEF use
<1>3. Answer(last, use).snap.use = use
  BY DEF Answer
<1>4. "threshold" \in Answer(last, use).events => use.window # w
  BY <1>1, <1>2, AnswerTellsNot
<1>5. ~ Unknown(last) => Past(use, w)
  BY <1>2 DEF Unknown, Past
<1> QED BY <1>3, <1>4, <1>5 DEF TellsNot, use

\* Use over the bar stays over it, unless it falls in that window.
LEMMA OverGoes ==
  ASSUME NEW w \in Windows, NEW un, w \notin un, NEW now \in Use, NEW now1 \in Use, Over(now, w),
         now.window <= now1.window,
         now1.window = now.window /\ now1.level < now.level => now.window \in un
  PROVE  Over(now1, w)
  BY UseNat, WindowNat DEF Over, Bar

\* A crossing is told anew only where none has been.
LEMMA CrossedFrom ==
  ASSUME TypeInv, [Next]_vars, NEW a \in Accounts, NEW w \in Windows
  PROVE  \/ crossed'[a][w] = crossed[a][w]
         \/ /\ Append(a) /\ "threshold" \in poll.events /\ poll.snap.use.window = w
            /\ crossed'[a][w] = crossed[a][w] + 1
<1>0. crossed \in [Accounts -> [Windows -> 0..2]]
  BY DEF TypeInv, TypeOK
<1>1. CASE UNCHANGED crossed
  BY <1>1
<1>2. ASSUME NEW b \in Accounts, Append(b)
      PROVE  \/ crossed'[a][w] = crossed[a][w]
             \/ /\ Append(a) /\ "threshold" \in poll.events /\ poll.snap.use.window = w
                /\ crossed'[a][w] = crossed[a][w] + 1
  <2> DEFINE v == poll.snap.use.window
  <2>1. CASE "threshold" \in poll.events /\ crossed[b][v] < 2
    <3>1. crossed' = [crossed EXCEPT ![b][v] = @ + 1]
      BY <1>2, <2>1 DEF Append
    <3> HIDE DEF v
    <3>2. crossed'[a][w] = IF a = b /\ v = w THEN crossed[a][w] + 1 ELSE crossed[a][w]
      BY <1>0, <3>1
    <3> QED BY <1>2, <2>1, <3>2 DEF v
  <2>2. CASE ~ ("threshold" \in poll.events /\ crossed[b][v] < 2)
    BY <1>2, <2>2 DEF Append
  <2> QED BY <2>1, <2>2
<1> QED BY <1>1, <1>2, LogMoves
    DEF log, EarlyReset, Report, Write, PollStart, KillPoll, EditStart, EditFirst, EditSecond,
        Forget, EditPublishes, KillEdit

LEMMA CrossStep ==
  ASSUME TypeInv, UseOK, CrossOK, WrittenOK, [Next]_vars
  PROVE  CrossOK'
<1> SUFFICES ASSUME NEW a \in Accounts, NEW w \in Windows, crossed'[a][w] >= 1,
                    w \notin uneven'[a], w \notin misread'[a]
             PROVE  /\ crossed'[a][w] = 1 /\ Over(usage'[a], w)
                    /\ PastSnap(snap'[a], w)
                    /\ a \in poll'.todo => PastSnap(poll'.last[a], w)
                    /\ Recording' /\ poll'.acct = a =>
                         TellsNot(poll', poll'.pc # "append" /\ poll'.blind, w)
  <2>1. Windows' = Windows /\ Accounts' = Accounts
    BY DEF Windows
  <2> QED BY <2>1 DEF CrossOK, CrossAt, TellsNot, PastSnap, Past, Over
<1>0. /\ TypeOK /\ PollOK /\ PollTyped /\ poll \in PollRecords
      /\ snap \in [Accounts -> Snapshots \cup {None}]
      /\ misread \in [Accounts -> SUBSET Windows]
      /\ usage[a] \in Use /\ usage'[a] \in Use /\ crossed \in [Accounts -> [Windows -> 0..2]]
  BY Typed, Records, SeenType DEF TypeInv, StoreTyped, SeenTyped, LogTyped
<1>1. w \notin uneven[a] /\ w \notin misread[a]
  BY OddGrows
<1>2. Over(usage[a], w) => Over(usage'[a], w)
  BY <1>0, UsageMoves, OverGoes
<1>3. CASE crossed'[a][w] = crossed[a][w]
  <2>1. /\ crossed[a][w] = 1 /\ Over(usage[a], w)
        /\ PastSnap(snap[a], w)
        /\ a \in poll.todo => PastSnap(poll.last[a], w)
        /\ Recording /\ poll.acct = a => TellsNot(poll, poll.pc # "append" /\ poll.blind, w)
    BY <1>1, <1>3 DEF CrossOK, CrossAt, TellsNot
  \* What is written blindly is past the bar, or the window is misread.
  <2>2. ASSUME Write(a) PROVE Past(poll.snap.use, w)
    <3>1. Recording /\ poll.acct = a /\ poll.pc = "write" /\ poll.snap # None
      BY <1>0, <2>2 DEF Write, Recording, PollTyped
    <3>2. CASE ~ poll.blind
      BY <2>1, <3>1, <3>2 DEF TellsNot
    <3>3. CASE poll.blind
      <4>1. w \notin ToldAbove(a, poll.snap.use)
        BY <1>0, <2>2, <3>3 DEF Write
      <4>2. poll.snap.use \in Use \cup {None}
        BY <1>0, <3>1 DEF PollRecords, Snapshots
      <4>3. crossed[a][w] > 0
        BY <2>1
      <4>4. poll.snap.use # None =>
              ~ (poll.snap.use.window < w \/ (poll.snap.use.window = w /\ poll.snap.use.level < Bar))
        BY <4>1, <4>3 DEF ToldAbove
      <4> QED BY <4>2, <4>4, UseNat, WindowNat DEF Past, Over, Bar
    <3> QED BY <3>2, <3>3
  <2>3. PastSnap(snap'[a], w)
    BY <2>1, <2>2, SnapFrom DEF PastSnap
  <2>4. ASSUME a \in poll'.todo PROVE PastSnap(poll'.last[a], w)
    <3>1. CASE TodoKept(a)
      BY <2>1, <3>1 DEF TodoKept
    <3>2. ASSUME NEW kind \in Polls, PollStart(kind) PROVE PastSnap(poll'.last[a], w)
      <4>1. poll'.last = snap
        BY <1>0, <3>2, Begins DEF PollBegins
      <4> QED BY <2>1, <4>1
    <3> QED BY <2>4, <3>1, <3>2, TodoFrom
  <2>5. ASSUME Recording', poll'.acct = a
        PROVE  TellsNot(poll', poll'.pc # "append" /\ poll'.blind, w)
    <3>1. CASE RecordingKept(a)
      <4>1. poll'.snap = poll.snap /\ poll'.events = poll.events /\ poll'.blind = poll.blind
            /\ TellsNot(poll, poll.pc # "append" /\ poll.blind, w)
        BY <2>1, <3>1 DEF RecordingKept
      <4>2. CASE poll'.pc = poll.pc
        BY <4>1, <4>2 DEF TellsNot
      <4>3. CASE Write(a)
        BY <2>2, <4>1, <4>3 DEF TellsNot
      <4> QED BY <3>1, <4>2, <4>3 DEF RecordingKept
    <3>2. ASSUME NEW o, NEW asked, Will(a, asked, o), TellsNot(o, ~ asked /\ Unknown(poll.last[a]), w)
          PROVE  TellsNot(poll', poll'.pc # "append" /\ poll'.blind, w)
      <4>1. /\ poll'.pc = "write" /\ poll'.snap = o.snap /\ poll'.events = o.events
            /\ poll'.blind = (~ asked /\ Unknown(poll.last[a]))
        BY <1>0, <3>2, Takes DEF PollTakesUp
      <4> QED BY <3>2, <4>1 DEF TellsNot
    <3>3. TodoAt(a)
      BY DEF UseOK
    <3>4. CASE TakeLive(a)
      <4> DEFINE o == Answer(poll.last[a], Applied(poll.last[a], poll.took[a]))
      <4>1. /\ a \in poll.todo /\ poll.took[a] \in Use /\ poll.last[a] \in Snapshots \cup {None}
            /\ Will(a, FALSE, o)
        BY <1>0, <3>4 DEF TakeLive, Turn, HasLive, PollRecords
      <4>2. Later(poll.last[a], poll.took[a], uneven[a])
        BY <3>3, <4>1 DEF TodoAt
      <4>3. TellsNot(o, Unknown(poll.last[a]), w)
        BY <1>1, <2>1, <4>1, <4>2, TakeTellsNot
      <4> HIDE DEF o
      <4>4. TellsNot(o, ~ FALSE /\ Unknown(poll.last[a]), w)
        BY <4>3 DEF TellsNot
      <4> QED BY <3>2, <4>1, <4>4
    <3>5. CASE Ask(a)
      <4>1. a \in poll.todo /\ poll.last[a] \in Snapshots \cup {None}
        BY <1>0, <3>5 DEF Ask, Turn, PollRecords
      <4>2. PICK o \in {Answer(poll.last[a], usage[a]), Miss(poll.last[a])} : Will(a, TRUE, o)
        BY <3>5 DEF Ask
      <4>3. poll.last[a] # None => Seen(poll.last[a].use, usage[a], uneven[a])
        BY <3>3, <4>1 DEF TodoAt
      <4>a. Over(usage[a], w) /\ PastSnap(poll.last[a], w)
        BY <2>1, <4>1
      <4>b. TellsNot(Answer(poll.last[a], usage[a]), FALSE, w) /\ TellsNot(Miss(poll.last[a]), FALSE, w)
        BY <1>0, <4>1, <4>3, <4>a, AskTellsNot
      <4>4. TellsNot(o, FALSE, w)
        BY <4>2, <4>b
      <4>5. TellsNot(o, ~ TRUE /\ Unknown(poll.last[a]), w)
        BY <4>4 DEF TellsNot
      <4> QED BY <3>2, <4>2, <4>5
    <3> QED BY <2>5, <3>1, <3>4, <3>5, RecordingFrom
  <2> QED BY <1>2, <1>3, <2>1, <2>3, <2>4, <2>5
<1>4. CASE /\ Append(a) /\ "threshold" \in poll.events /\ poll.snap.use.window = w
           /\ crossed'[a][w] = crossed[a][w] + 1
  <2>1. /\ Recording /\ poll.pc = "append" /\ poll.acct = a /\ poll.snap # None /\ poll.snap.use # None
        /\ UNCHANGED <<snap, usage>> /\ PollTells /\ a \notin poll.todo
    BY <1>0, <1>4, Tells DEF Append, Recording, PollTyped, PollOK, files
  <2>2. poll.snap.use.level >= Bar /\ poll.snap.use \in Use
    BY <1>0, <1>4, <2>1 DEF PollOK, PollRecords, Snapshots
  <2>3. ~ crossed[a][w] >= 1
    BY <1>1, <1>4, <2>1 DEF CrossOK, CrossAt
  <2>4. crossed[a][w] \in 0..2
    BY <1>0
  <2>5. Seen(poll.snap.use, usage[a], uneven[a])
    BY <2>1 DEF UseOK, RecordingAt
  <2>6. Over(usage'[a], w)
    <3>1. usage'[a] = usage[a]
      BY <2>1
    <3>2. w <= usage[a].window /\ (w = usage[a].window => poll.snap.use.level <= usage[a].level)
      BY <1>0, <1>1, <1>4, <2>1, <2>2, <2>5, UseNat DEF Seen
    <3>3. /\ usage[a].window \in Nat /\ usage[a].level \in 0..2 /\ w \in Nat
          /\ poll.snap.use.level \in 0..2 /\ poll.snap.use.level >= 2
      BY <1>0, <2>2, UseNat, WindowNat DEF Bar
    <3>4. Over(usage[a], w)
      BY <3>2, <3>3 DEF Over, Bar
    <3> QED BY <3>1, <3>4
  <2>7. snap[a] \in {poll.snap, None}
    BY <2>1 DEF WrittenOK
  <2>8. PastSnap(snap'[a], w)
    BY <1>4, <2>1, <2>2, <2>7 DEF PastSnap, Past, Over
  <2>9. ~ Recording' /\ a \notin poll'.todo
    BY <2>1 DEF PollTells, Recording
  <2> QED BY <1>4, <2>3, <2>4, <2>6, <2>8, <2>9
<1> QED BY <1>3, <1>4, CrossedFrom

-----------------------------------------------------------------------------
(* The theorems.                                                           *)

LEMMA LimitsInit == Init => LimitsInv
<1> SUFFICES ASSUME Init PROVE LimitsInv
  OBVIOUS
<1>1. TypeOK /\ PollOK
  BY InitType
<1>2. poll = NoPoll /\ edit = [e \in Editors |-> NoEdit] /\ snap = [a \in Accounts |-> None] /\ shown = {}
      /\ reading = [a \in Accounts |-> None] /\ early = [a \in Accounts |-> {}]
      /\ crossed = [a \in Accounts |-> [w \in Windows |-> 0]] /\ alert = [a \in Accounts |-> FALSE]
  BY DEF Init
<1>3. EditOK /\ RegistryOK /\ Forgotten
  BY <1>2, NoEditFacts, NoneAssumption
  DEF EditOK, RegistryOK, RegistryAt, Holding, Forgotten, PastForget, EditNames
<1>4. NamedOK
  BY <1>2, NoEditFacts, NoPollFacts, NoneAssumption DEF NamedOK, Named
<1>5. AlertOK
  BY <1>2, NoPollFacts DEF AlertOK, AlertAt, Recording, Remembers, Told
<1>6. UseOK
  BY <1>2, NoPollFacts DEF UseOK, ReadingAt, TodoAt, RecordingAt, Recording
<1>7. CrossOK
  BY <1>2 DEF CrossOK, CrossAt
<1>8. WrittenOK
  BY <1>2, NoPollFacts DEF WrittenOK
<1> QED BY <1>1, <1>3, <1>4, <1>5, <1>6, <1>7, <1>8 DEF LimitsInv

LEMMA LimitsStep ==
  ASSUME LimitsInv, [Next]_vars
  PROVE  LimitsInv'
<1>1. TypeInv /\ RegistryOK /\ NamedOK /\ Forgotten /\ AlertOK /\ UseOK /\ CrossOK /\ WrittenOK
  BY DEF LimitsInv, TypeInv
<1>2. TypeInv'
  BY <1>1, TypeStep
<1>3. RegistryOK' /\ NamedOK' /\ Forgotten' /\ AlertOK'
  BY <1>1, RegistryStep, NamedStep, ForgottenStep, AlertStep
<1>4. UseOK' /\ CrossOK' /\ WrittenOK'
  BY <1>1, UseStep, CrossStep, WrittenStep
<1> QED BY <1>2, <1>3, <1>4 DEF LimitsInv, TypeInv

LEMMA LimitsInvariant == Spec => []LimitsInv
<1>1. LimitsInv /\ [Next]_vars => LimitsInv'
  BY LimitsStep
<1> QED BY LimitsInit, <1>1, PTL DEF Spec

\* Polls, edits, kills and sessions keep the tracker's state well formed.
THEOREM LimitsTypeCorrect == Spec => []TypeOK
<1>1. LimitsInv => TypeOK
  BY DEF LimitsInv
<1> QED BY <1>1, LimitsInvariant, PTL

\* Whatever other commands and polls run beside it, no save of the registry, whole
\* or cut short between its two files, touches an account it is not for, unless
\* another save has come since the command loaded the registry.
THEOREM OthersKeptCorrect == Spec => OthersKept
<1>1. LimitsInv /\ [Next]_vars
        => [\A a \in Accounts : Loaded'[a] # Loaded[a] =>
              \E e \in Editors : Saves(e) /\ (edit[e].acct = a \/ edit[e].stale)]_vars
  BY OthersStep DEF LimitsInv, TypeInv
<1> QED BY <1>1, LimitsInvariant, PTL DEF Spec, OthersKept

\* The bar of a window whose use only climbs is told once, unless a session's old
\* numbers, with nothing known to hold them against, put the window below it.
THEOREM ThresholdOnceCorrect == Spec => []ThresholdOnce
<1>1. LimitsInv => ThresholdOnce
  <2> SUFFICES ASSUME LimitsInv, NEW a \in Accounts, NEW w \in Windows, w \notin uneven[a] \cup misread[a]
               PROVE  crossed[a][w] <= 1
    BY DEF ThresholdOnce
  <2>1. crossed[a][w] \in 0..2
    BY DEF LimitsInv, TypeOK
  <2>2. crossed[a][w] >= 1 => crossed[a][w] = 1
    BY DEF LimitsInv, CrossOK, CrossAt
  <2> QED BY <2>1, <2>2
<1> QED BY <1>1, LimitsInvariant, PTL

\* A window the log says was reset early was.
THEOREM EarlyIsRealCorrect == Spec => []EarlyIsReal
<1>1. LimitsInv => EarlyIsReal
  BY DEF LimitsInv, UseOK, EarlyIsReal
<1> QED BY <1>1, LimitsInvariant, PTL

\* The log's last word is an alert exactly where the snapshot remembers one,
\* unless a pause or a removal has deleted the snapshot since.
THEOREM AlertsCloseCorrect == Spec => []AlertsClose
<1>1. LimitsInv => AlertsClose
  <2> SUFFICES ASSUME LimitsInv, NEW a \in Accounts \ torn,
                      poll.acct # a, \A e \in Editors : edit[e].acct # a
               PROVE  /\ Told(snap[a]) => alert[a]
                      /\ alert[a] => Told(snap[a]) \/ a \in dropped
    BY DEF AlertsClose
  <2>1. Quiet(a)
    BY DEF Quiet
  <2>2. AlertAt(a)
    BY <2>1 DEF LimitsInv, AlertOK
  <2> QED BY <2>2 DEF AlertAt, Remembers
<1> QED BY <1>1, LimitsInvariant, PTL

\* Between commands limits.json names nobody who is paused or gone, unless a
\* pause or removal was killed or ran beside a poll or another edit, or an edit
\* that was overtaken took the account back.
THEOREM NamedIsKeptCorrect == Spec => []NamedIsKept
<1>1. LimitsInv => NamedIsKept
  <2> SUFFICES ASSUME LimitsInv, Idle, NEW a \in shown \ torn
               PROVE  Loaded[a] = "on"
    BY DEF NamedIsKept
  <2>1. a \in Accounts
    BY DEF LimitsInv, TypeOK
  <2>2. Quiet(a) /\ Named(a)
    BY <2>1, NoEditFacts, NoneAssumption DEF Quiet, Named, Idle
  <2> QED BY <2>1, <2>2 DEF LimitsInv, NamedOK
<1> QED BY <1>1, LimitsInvariant, PTL
=============================================================================

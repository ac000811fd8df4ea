------------------------------- MODULE Limits -------------------------------
(***************************************************************************)
(* The usage tracker: the accounts it is told of, the polls and session    *)
(* readings it takes of them, the events it tells and the limits.json it   *)
(* publishes.  Code: crates/ovm-limits/src registry.rs, accounts.rs,       *)
(* snapshot.rs, events.rs, live.rs and due.rs.                             *)
(*                                                                         *)
(* Nothing here takes a lock: a poll (the agent's tick or a terminal's)    *)
(* and commands that edit the accounts run at the same time, each with the *)
(* registry it loaded, and each may be killed between two writes.  Every   *)
(* file is written by a rename, so a write is one step; a load is one too. *)
(* An account has one usage window.                                        *)
(***************************************************************************)
EXTENDS Naturals

CONSTANTS
  Accounts,    \* the ids an account may have
  LiveOnly,    \* those of live-only accounts, which are never polled
  Editors,     \* the commands that may edit the accounts at the same time
  Starts,      \* what the two registry files may hold at the start
  Polls,       \* kinds of poll that run, a subset of {"due", "all"}
  Edits,       \* commands that run, a subset of EditNames
  Busy,        \* bound: accounts whose use grows
  MaxWindow,   \* bound: usage windows that end, one after the other
  MaxCommands, \* bound: polls and edits started, of which an edit counts twice
  MaxMishaps,  \* bound: killed commands, early resets, readings sessions leave and
               \* edits that begin beside another
  None

EditNames == {"add", "pause", "resume", "remove"}

ASSUME ConstantsAssumption ==
  /\ Busy \subseteq Accounts /\ LiveOnly \subseteq Accounts
  /\ Polls \subseteq {"due", "all"} /\ Edits \subseteq EditNames
  /\ Starts \subseteq [config : [Accounts -> {"none", "on", "paused"}],
                       live : [Accounts -> {"none", "on", "paused"}]]
  /\ \A r \in Starts, a \in Accounts : a \notin LiveOnly => r.live[a] = "none"
  /\ {MaxWindow, MaxCommands, MaxMishaps} \subseteq Nat

VARIABLES
  config,    \* config.json: the polled accounts, and live-only ones of an older release
  live,      \* live-accounts.json
  snap,      \* the snapshot file of each account
  shown,     \* the accounts limits.json names
  usage,     \* the provider's side: the running window of each account and its use
  reading,   \* what the sessions of each account last reported
  poll,      \* the poll that runs: control state and locals
  edit,      \* each editor: control state and locals of the command it runs
  commands, mishaps,   \* counted against the bounds
  crossed,   \* history: Threshold events in the log, by account and window
  early,     \* history: windows the log says were reset early
  uneven,    \* history: windows whose use fell, or was reported as none after some
  misread,   \* history: windows told to be at the bar that a session's reading,
             \* with nothing known to hold it against, then put below it
  alert,     \* history: the log's last word on an account's polls is that they fail
  dropped,   \* history: accounts whose snapshot was deleted after that word
  torn       \* history: what an edit left undone, or something did behind it

files == <<config, live, snap, shown>>
log   == <<crossed, early, alert, dropped>>
odd   == <<uneven, misread>>
count == <<commands, mishaps>>
vars  == <<files, usage, reading, poll, edit, count, log, odd, torn>>

-----------------------------------------------------------------------------
(* Values *)

\* Use of a window: about nothing (at most 5%), some, at the bar.
Levels == 0..2
Bar    == 2
Windows == 0..MaxWindow
Use == [window : Windows, level : Levels]

\* An account in a registry file: not there, or polled or paused.
Entries == {"none", "on", "paused"}
Registries == [Accounts -> Entries]
Nobody == [a \in Accounts |-> "none"]

\* A snapshot: the window it saw, none when its poll failed; failed polls in a
\* row; and whether the failure has been told.
Snapshots == [use : Use \cup {None}, misses : 0..3, alerted : BOOLEAN]

\* No value is taken for a missing one.
ASSUME NoneAssumption == None \notin Accounts \cup EditNames \cup Use \cup Snapshots

Kinds == {"threshold", "early", "rollover", "alert", "recovered"}

\* A poll: what it read at its start, and the account it records; whether it has
\* asked the provider, or takes a reading blindly, with nothing to hold it against.
NoPoll == [pc |-> "idle", kind |-> None, todo |-> {}, done |-> FALSE, acct |-> None,
           last |-> [a \in Accounts |-> None], took |-> [a \in Accounts |-> None],
           asked |-> FALSE, blind |-> FALSE, snap |-> None, events |-> {}, draft |-> {}]
\* An edit: the registry it will save; whether anything ran beside it, and whether
\* another edit has saved since it loaded the registry.
NoEdit == [pc |-> "idle", op |-> None, acct |-> None, to |-> Nobody, alone |-> TRUE,
           stale |-> FALSE, draft |-> {}]

-----------------------------------------------------------------------------
(* The registry *)

\* Both files; an account of the live file hides one the older release kept.
Loaded == [a \in Accounts |-> IF a \in LiveOnly /\ live[a] # "none" THEN live[a] ELSE config[a]]

LivePart(r) == [a \in Accounts |-> IF a \in LiveOnly THEN r[a] ELSE "none"]
PolledPart(r) == [a \in Accounts |-> IF a \in LiveOnly THEN "none" ELSE r[a]]

\* (OthersKept: a mutant, which writes config.json before the live accounts.)
SaveConfigFirst(r) == config' = PolledPart(r) /\ UNCHANGED live

\* Registry::save, the first of its two writes and the second.
SaveFirst(r) == live' = LivePart(r) /\ UNCHANGED config
SaveSecond(r) == config' = PolledPart(r) /\ UNCHANGED live

-----------------------------------------------------------------------------
(* What a poll makes of what it learns *)

\* (ThresholdOnce: a mutant, which looks at the new use alone.)
CrossesAgain(was, is) == is.level >= Bar

\* events::detect on use that was and is known.  A window that has ended rolls
\* over on time; within one, use that fell is an early reset.
Crosses(was, is) == was.level < Bar /\ is.level >= Bar

Noticed(was, is) ==
  (IF is.window = was.window /\ is.level < was.level THEN {"early"} ELSE {})
  \cup (IF is.window > was.window THEN {"rollover"} ELSE {})
  \cup (IF Crosses(was, is) THEN {"threshold"} ELSE {})

\* events::detect and record: the snapshot that is written, and the events.
Answer(last, use) ==
  [snap   |-> [use |-> use, misses |-> 0, alerted |-> FALSE],
   events |-> IF last = None THEN {}
              ELSE (IF last.use = None THEN {} ELSE Noticed(last.use, use))
                   \cup (IF last.alerted THEN {"recovered"} ELSE {})]

\* (AlertsClose: a mutant, which forgets after the second miss what it told.)
MissUntold(last) ==
  LET n    == IF last = None THEN 1 ELSE IF last.misses < 3 THEN last.misses + 1 ELSE 3
      told == last # None /\ n <= 2
  IN [snap   |-> [use |-> None, misses |-> n, alerted |-> told],
      events |-> IF told THEN {"alert"} ELSE {}]

\* The first two misses in a row are told, later ones are not; without a
\* snapshot to compare with, nothing is.
Miss(last) ==
  LET n    == IF last = None THEN 1 ELSE IF last.misses < 3 THEN last.misses + 1 ELSE 3
      told == last # None /\ n <= 2
  IN [snap   |-> [use |-> None, misses |-> n,
                  alerted |-> told \/ (last # None /\ last.alerted /\ last.misses > 0)],
      events |-> IF told THEN {"alert"} ELSE {}]

\* (EarlyIsReal: a mutant, which believes whatever a session reports.)
StaleNever(known, use) == FALSE

\* live::apply: a reading that shows a running window lower than known, but not
\* about empty, is a session's old numbers, and the window keeps what it had.
Stale(known, use) == known # None /\ use.window = known.window
                     /\ use.level < known.level /\ use.level > 0

Unknown(last) == last = None \/ last.use = None

Applied(last, use) == IF last # None /\ Stale(last.use, use) THEN last.use ELSE use

-----------------------------------------------------------------------------
CanMishap == mishaps < MaxMishaps

Init ==
  /\ \E r \in Starts : config = r.config /\ live = r.live
  /\ snap = [a \in Accounts |-> None] /\ shown = {}
  /\ usage = [a \in Accounts |-> [window |-> 0, level |-> 0]]
  /\ reading = [a \in Accounts |-> None]
  /\ poll = NoPoll /\ edit = [e \in Editors |-> NoEdit]
  /\ commands = 0 /\ mishaps = 0
  /\ crossed = [a \in Accounts |-> [w \in Windows |-> 0]]
  /\ early = [a \in Accounts |-> {}] /\ uneven = [a \in Accounts |-> {}]
  /\ misread = [a \in Accounts |-> {}]
  /\ alert = [a \in Accounts |-> FALSE] /\ dropped = {} /\ torn = {}

(***************************************************************************)
(* The provider and the sessions.  A poll sees the use of an account once, *)
(* so it need only change between two polls; the sessions' reports it reads *)
(* at its start, and one that is written later is for the next poll.       *)
(***************************************************************************)
Uneven(a, w) == uneven' = [uneven EXCEPT ![a] = @ \cup {w}]

Used(a) ==
  /\ poll = NoPoll /\ a \in Busy /\ usage[a].level < Bar
  /\ usage' = [usage EXCEPT ![a].level = @ + 1]
  /\ UNCHANGED <<files, reading, poll, edit, count, log, odd, torn>>

WindowEnds(a) ==
  /\ poll = NoPoll /\ a \in Busy /\ usage[a].window < MaxWindow
  /\ usage' = [usage EXCEPT ![a] = [window |-> @.window + 1, level |-> 0]]
  /\ UNCHANGED <<files, reading, poll, edit, count, log, odd, torn>>

\* The provider, or a reset credit, empties a window before its time.
EarlyReset(a) ==
  /\ poll = NoPoll /\ CanMishap /\ usage[a].level > 0
  /\ usage' = [usage EXCEPT ![a].level = 0]
  /\ Uneven(a, usage[a].window)
  /\ mishaps' = mishaps + 1
  /\ UNCHANGED <<files, reading, poll, edit, commands, log, misread, torn>>

\* A session's statusline writes what its last answer said of the window, which
\* may be long ago: any use the window has had.
Report(a) == \E l \in Levels :
  /\ poll.pc \in {"idle", "next"} /\ CanMishap
  /\ l <= usage[a].level \/ usage[a].window \in uneven[a]
  /\ reading' = [reading EXCEPT ![a] =
                   [use |-> [window |-> usage[a].window, level |-> l], age |-> "new"]]
  /\ IF l = 0 /\ usage[a].level > 0 THEN Uneven(a, usage[a].window) ELSE UNCHANGED uneven
  /\ mishaps' = mishaps + 1
  /\ UNCHANGED <<files, usage, poll, edit, commands, log, misread, torn>>

(***************************************************************************)
(* accounts::poll.  The registry, the snapshots and the readings are read  *)
(* once, at the start; the accounts are then recorded one by one.          *)
(***************************************************************************)
\* What an edit makes of something else that begins, and of another's save.
Beside(r) == [r EXCEPT !.alone = r.pc = "idle"]
Overtaken(r) == [r EXCEPT !.stale = r.pc # "idle"]

PollStart(kind) ==
  LET todo == {a \in Accounts : Loaded[a] = "on"}
      \* A reading newer than the snapshot, or any where there is none.
      Newer(a) == reading[a] # None /\ (reading[a].age # "old" \/ snap[a] = None)
  IN
  /\ poll = NoPoll /\ commands < MaxCommands /\ kind \in Polls /\ todo # {}
  /\ poll' = [NoPoll EXCEPT !.pc = "next", !.kind = kind, !.todo = todo, !.last = snap,
                !.took = [a \in Accounts |-> IF Newer(a) THEN reading[a].use ELSE None]]
  /\ reading' = [a \in Accounts |-> IF reading[a] # None /\ reading[a].age = "new"
                                      THEN [reading[a] EXCEPT !.age = "read"] ELSE reading[a]]
  /\ edit' = [e \in Editors |-> Beside(edit[e])]
  /\ commands' = commands + 1
  /\ UNCHANGED <<files, usage, mishaps, log, odd, torn>>

\* The accounts come in the order of the registry, the polled ones first.
Turn(a) == poll.pc = "next" /\ a \in poll.todo /\ (a \in LiveOnly => poll.todo \subseteq LiveOnly)

Passed(a) == [poll EXCEPT !.todo = @ \ {a}, !.last[a] = None, !.took[a] = None]
Will(a, asked, outcome) ==
  poll' = [Passed(a) EXCEPT !.pc = "write", !.acct = a, !.asked = asked,
                            !.blind = ~ asked /\ Unknown(poll.last[a]),
                            !.snap = outcome.snap, !.events = outcome.events]

\* Every poll takes the readings of live-only accounts, a tick those of all.
HasLive(a) == poll.took[a] # None /\ (poll.kind = "due" \/ a \in LiveOnly)

TakeLive(a) ==
  /\ Turn(a) /\ HasLive(a)
  /\ Will(a, FALSE, Answer(poll.last[a], Applied(poll.last[a], poll.took[a])))
  /\ UNCHANGED <<files, usage, reading, edit, count, log, odd, torn>>

Ask(a) ==
  /\ Turn(a) /\ a \notin LiveOnly /\ ~HasLive(a)
  /\ \E outcome \in {Answer(poll.last[a], usage[a]), Miss(poll.last[a])} : Will(a, TRUE, outcome)
  /\ UNCHANGED <<files, usage, reading, edit, count, log, odd, torn>>

\* A live-only account without a reading is left, and by a tick one that is not
\* due: its window runs and the poll interval may not be over.
Leave(a) ==
  /\ Turn(a) /\ ~HasLive(a)
  /\ \/ a \in LiveOnly
     \/ /\ poll.kind = "due" /\ poll.last[a] # None
        /\ poll.last[a].use # None => poll.last[a].use.window = usage[a].window
  /\ poll' = Passed(a)
  /\ UNCHANGED <<files, usage, reading, edit, count, log, odd, torn>>

\* Windows that are told to be at the bar and that this use is short of.
ToldAbove(a, use) ==
  {w \in Windows : crossed[a][w] > 0 /\ (use.window < w \/ (use.window = w /\ use.level < Bar))}

\* record: the snapshot first ...
Write(a) ==
  /\ poll.pc = "write" /\ a = poll.acct
  /\ snap' = [snap EXCEPT ![a] = poll.snap]
  /\ reading' = [reading EXCEPT ![a] =
                   IF @ # None /\ (poll.asked \/ @.age = "read") THEN [@ EXCEPT !.age = "old"] ELSE @]
  /\ poll' = [poll EXCEPT !.pc = "append", !.done = TRUE]
  /\ misread' = IF poll.blind THEN [misread EXCEPT ![a] = @ \cup ToldAbove(a, poll.snap.use)]
                 ELSE misread
  /\ UNCHANGED <<config, live, shown, usage, edit, count, log, uneven, torn>>

\* ... then its events.
Append(a) ==
  LET e == poll.events IN
  /\ poll.pc = "append" /\ a = poll.acct
  /\ crossed' = IF "threshold" \in e /\ crossed[a][poll.snap.use.window] < 2
                  THEN [crossed EXCEPT ![a][poll.snap.use.window] = @ + 1] ELSE crossed
  /\ early' = IF "early" \in e THEN [early EXCEPT ![a] = @ \cup {poll.snap.use.window}] ELSE early
  /\ alert' = [alert EXCEPT ![a] = IF "alert" \in e THEN TRUE ELSE @ /\ "recovered" \notin e]
  /\ dropped' = IF e \cap {"alert", "recovered"} # {} THEN dropped \ {a} ELSE dropped
  /\ poll' = [poll EXCEPT !.pc = "next", !.acct = None, !.asked = FALSE, !.blind = FALSE,
                          !.snap = None, !.events = {}]
  /\ UNCHANGED <<files, usage, reading, edit, count, odd, torn>>

PollEnds ==
  /\ poll.pc = "next" /\ poll.todo = {}
  /\ poll' = IF poll.done THEN [NoPoll EXCEPT !.pc = "publish", !.draft = {a \in Accounts : snap[a] # None}]
                          ELSE NoPoll
  /\ UNCHANGED <<files, usage, reading, edit, count, log, odd, torn>>

\* snapshot::merge lists every snapshot it found, whoever is registered.
PollPublishes ==
  /\ poll.pc = "publish"
  /\ shown' = poll.draft /\ poll' = NoPoll
  /\ UNCHANGED <<config, live, snap, usage, reading, edit, count, log, odd, torn>>

-----------------------------------------------------------------------------
(***************************************************************************)
(* accounts::add, pause and remove: each loads the registry, changes one   *)
(* entry and saves all of it.                                              *)
(***************************************************************************)
Idle == \A e \in Editors : edit[e] = NoEdit

EditStart(e, op, a) ==
  /\ edit[e] = NoEdit /\ commands + 2 <= MaxCommands /\ op \in Edits
  /\ (op = "add") <=> (Loaded[a] = "none")
  /\ edit' = [f \in Editors |->
       IF f # e THEN Beside(edit[f])
       ELSE [NoEdit EXCEPT !.pc = IF op = "remove" THEN "forget" ELSE "first",
               !.op = op, !.acct = a, !.alone = poll = NoPoll /\ Idle,
               !.to = [Loaded EXCEPT ![a] = CASE op = "pause" -> "paused" [] op = "remove" -> "none"
                                              [] OTHER -> "on"]]]
  /\ commands' = commands + 2
  /\ IF Idle THEN UNCHANGED mishaps ELSE CanMishap /\ mishaps' = mishaps + 1
  /\ UNCHANGED <<files, usage, reading, poll, log, odd, torn>>

EditTo(e, pc) == edit' = [edit EXCEPT ![e].pc = pc]

\* A save changes what everybody else has loaded; what one that was overtaken
\* changes itself is undone, or done, behind somebody's back.
SavedBy(e, r) ==
  /\ edit' = [f \in Editors |-> IF f = e THEN r ELSE Overtaken(edit[f])]
  /\ torn' = IF edit[e].stale THEN torn \cup {b \in Accounts : Loaded'[b] # Loaded[b]} ELSE torn

EditFirst(e) ==
  /\ edit[e].pc = "first" /\ SaveFirst(edit[e].to)
  /\ SavedBy(e, [edit[e] EXCEPT !.pc = "second"])
  /\ UNCHANGED <<snap, shown, usage, reading, poll, count, log, odd>>

EditSecond(e) ==
  /\ edit[e].pc = "second" /\ SaveSecond(edit[e].to)
  /\ SavedBy(e, IF edit[e].op = "add" THEN NoEdit
                ELSE [edit[e] EXCEPT !.pc = IF edit[e].op = "pause" THEN "forget" ELSE "merge",
                                     !.to = Nobody])
  /\ UNCHANGED <<snap, shown, usage, reading, poll, count, log, odd>>

\* (NamedIsKept: a mutant, which leaves the snapshot of a paused account.)
ForgetRemoved(e) ==
  LET a == edit[e].acct IN
  /\ edit[e].pc = "forget"
  /\ snap' = IF edit[e].op = "pause" THEN snap ELSE [snap EXCEPT ![a] = None]
  /\ dropped' = IF alert[a] THEN dropped \cup {a} ELSE dropped
  /\ EditTo(e, IF edit[e].op = "remove" THEN "first" ELSE "merge")
  /\ UNCHANGED <<config, live, shown, usage, reading, poll, count, crossed, early, alert, odd, torn>>

\* The snapshot goes: before the account is removed, after it is paused.  The log
\* keeps what it says.
Forget(e) ==
  LET a == edit[e].acct IN
  /\ edit[e].pc = "forget"
  /\ snap' = [snap EXCEPT ![a] = None]
  /\ dropped' = IF alert[a] THEN dropped \cup {a} ELSE dropped
  /\ EditTo(e, IF edit[e].op = "remove" THEN "first" ELSE "merge")
  /\ UNCHANGED <<config, live, shown, usage, reading, poll, count, crossed, early, alert, odd, torn>>

EditMerges(e) ==
  /\ edit[e].pc = "merge"
  /\ edit' = [edit EXCEPT ![e].pc = "publish", ![e].draft = {a \in Accounts : snap[a] # None}]
  /\ UNCHANGED <<files, usage, reading, poll, count, log, odd, torn>>

\* A pause or a removal that ran by itself to its end leaves nothing undone.
Forgets(e) == edit[e].op \in {"pause", "remove"}

EditPublishes(e) ==
  /\ edit[e].pc = "publish"
  /\ shown' = edit[e].draft /\ edit' = [edit EXCEPT ![e] = NoEdit]
  /\ torn' = CASE Forgets(e) /\ edit[e].alone   -> torn \ {edit[e].acct}
               [] Forgets(e) /\ ~ edit[e].alone -> torn \cup {edit[e].acct}
               [] OTHER -> torn
  /\ UNCHANGED <<config, live, snap, usage, reading, poll, count, log, odd>>

-----------------------------------------------------------------------------
(* A kill leaves what is written. *)

KillPoll ==
  /\ poll.pc \in {"write", "append", "publish"} /\ CanMishap
  /\ poll' = NoPoll /\ mishaps' = mishaps + 1
  /\ torn' = IF poll.acct # None THEN torn \cup {poll.acct} ELSE torn
  /\ UNCHANGED <<files, usage, reading, edit, commands, log, odd>>

KillEdit(e) ==
  /\ edit[e].pc # "idle" /\ CanMishap
  /\ edit' = [edit EXCEPT ![e] = NoEdit] /\ mishaps' = mishaps + 1
  /\ torn' = IF Forgets(e) THEN torn \cup {edit[e].acct} ELSE torn
  /\ UNCHANGED <<files, usage, reading, poll, commands, log, odd>>

Next ==
  \/ \E a \in Accounts : Used(a) \/ WindowEnds(a) \/ EarlyReset(a) \/ Report(a)
  \/ \E kind \in Polls : PollStart(kind)
  \/ \E a \in Accounts : TakeLive(a) \/ Ask(a) \/ Leave(a) \/ Write(a) \/ Append(a)
  \/ PollEnds \/ PollPublishes \/ KillPoll
  \/ \E e \in Editors, op \in Edits, a \in Accounts : EditStart(e, op, a)
  \/ \E e \in Editors : \/ EditFirst(e) \/ EditSecond(e) \/ Forget(e)
                        \/ EditMerges(e) \/ EditPublishes(e) \/ KillEdit(e)

Spec == Init /\ [][Next]_vars

-----------------------------------------------------------------------------
(* Properties *)

\* Types; a snapshot has told a failure only while it is one; and how a poll and
\* an edit stand: a poll records an account it took up, an edit ends in the
\* registry it loaded with one entry changed.
TypeOK ==
  /\ config \in Registries /\ live \in Registries
  /\ snap \in [Accounts -> Snapshots \cup {None}] /\ shown \subseteq Accounts
  /\ \A a \in Accounts : snap[a] # None =>
       (snap[a].use = None <=> snap[a].misses > 0) /\ (snap[a].alerted => snap[a].misses > 0)
  /\ usage \in [Accounts -> Use]
  /\ reading \in [Accounts -> [use : Use, age : {"new", "read", "old"}] \cup {None}]
  /\ poll \in [pc : {"idle", "next", "write", "append", "publish"}, kind : Polls \cup {None},
               todo : SUBSET Accounts, done : BOOLEAN, acct : Accounts \cup {None},
               last : [Accounts -> Snapshots \cup {None}], took : [Accounts -> Use \cup {None}],
               asked : BOOLEAN, blind : BOOLEAN, snap : Snapshots \cup {None},
               events : SUBSET Kinds, draft : SUBSET Accounts]
  /\ poll.pc \in {"write", "append"} => poll.acct # None /\ poll.snap # None
  /\ poll.events \cap {"threshold", "early"} # {} => poll.snap.use # None
  /\ edit \in [Editors -> [pc : {"idle", "first", "second", "forget", "merge", "publish"},
                           op : Edits \cup {None}, acct : Accounts \cup {None}, to : Registries,
                           alone : BOOLEAN, stale : BOOLEAN, draft : SUBSET Accounts]]
  /\ \A e \in Editors : edit[e].pc # "idle" => edit[e].acct # None /\ edit[e].op # None
  /\ commands \in 0..MaxCommands /\ mishaps \in 0..MaxMishaps
  /\ crossed \in [Accounts -> [Windows -> 0..2]] /\ alert \in [Accounts -> BOOLEAN]
  /\ early \in [Accounts -> SUBSET Windows]
  /\ uneven \in [Accounts -> SUBSET Windows] /\ misread \in [Accounts -> SUBSET Windows]
  /\ dropped \subseteq Accounts /\ torn \subseteq Accounts

\* The registry is loaded, changed and saved whole, in two writes and under no
\* lock.  A save touches nobody but the account it is for, at no point between
\* its writes, whether or not the command lives to make the second, and also
\* where config.json still holds the live-only accounts of an older release; but
\* one that another command's save has overtaken writes back what it loaded.
Saves(e) == edit[e].pc \in {"first", "second"} /\ edit'[e].pc # edit[e].pc

OthersKept ==
  [][\A a \in Accounts : Loaded'[a] # Loaded[a] =>
       \E e \in Editors : Saves(e) /\ (edit[e].acct = a \/ edit[e].stale)]_vars

\* The bar is told once in a window whose use only climbs: not again after a
\* poll that failed, after a session's old numbers were merged, or by the poll
\* after a killed one.  It is told again where nothing is known to hold a
\* session's old numbers against, after a failed poll or a pause, and they put
\* the window below the bar (misread).
ThresholdOnce ==
  \A a \in Accounts, w \in Windows : w \notin uneven[a] \cup misread[a] => crossed[a][w] <= 1

\* A window the log calls reset early was: its use fell, or a session reported
\* it about empty.  Old numbers a session repeats are not taken for a reset.
EarlyIsReal == \A a \in Accounts : early[a] \subseteq uneven[a]

Told(s) == s # None /\ s.alerted

\* A snapshot remembers a told failure exactly when the log's last word is one,
\* so that a recovery is told after every alert and only then: unless a pause
\* deleted the snapshot since (dropped), when none ever is, or the poll that told
\* it was killed, or a pause was, or something ran beside a pause.
AlertsClose ==
  \A a \in Accounts \ torn :
    poll.acct # a /\ (\A e \in Editors : edit[e].acct # a) =>
      /\ Told(snap[a]) => alert[a]
      /\ alert[a] => Told(snap[a]) \/ a \in dropped

\* Between commands limits.json names only accounts that are registered and not
\* paused, unless a pause or removal of the account was killed, a poll or
\* another edit ran beside it, or an edit that was overtaken took the account
\* back.  A pause that is repeated by itself mends it; an account that is gone
\* may stay named until one of its id is added.
NamedIsKept ==
  poll = NoPoll /\ Idle => \A a \in shown \ torn : Loaded[a] = "on"
=============================================================================

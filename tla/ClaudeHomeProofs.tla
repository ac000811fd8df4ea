-------------------------- MODULE ClaudeHomeProofs --------------------------
(* Theorems about ClaudeHome, for every value of its constants.            *)
EXTENDS ClaudeHome, TLAPS

-----------------------------------------------------------------------------
(* Type correctness, with what may be saved of the accounts.               *)

PCs == {"idle", "seed", "write", "look", "unlink", "link", "start", "session",
        "read", "compare", "flip", "remove", "fix", "clear", "save"}
Good == {r \in Registries : Closed(r)}

\* What one terminal holds.
WorkOK(w) ==
  /\ w \in [pc : PCs, home : Homes, reg : Good \cup {None}, doc : Docs \cup {None},
            repairs : BOOLEAN, raced : BOOLEAN, blind : BOOLEAN, sure : BOOLEAN, native : BOOLEAN,
            late : BOOLEAN]
  /\ w.pc \in {"seed", "write"} => w.home \in Accounts
  /\ w.pc \in {"write", "compare", "flip"} => w.doc # None
  /\ w.pc \in {"read", "compare", "flip", "remove", "fix"} => w.home = Main
  /\ w.pc = "save" => w.reg # None

FilesOK ==
  /\ registry \in Good
  /\ json \in [Homes -> Docs \cup {None}]
  /\ tree \in BOOLEAN /\ launcher \in Launchers
  /\ edits \in 0..MaxEdits /\ commands \in 0..MaxCommands /\ mishaps \in 0..MaxMishaps
  /\ removed \in BOOLEAN

TerminalsOK == work = [p \in Procs |-> work[p]] /\ \A p \in Procs : WorkOK(work[p])

Typed == FilesOK /\ TerminalsOK

\* A repair reads a file that is there; none goes away.
Present == \A p \in Procs : work[p].pc = "read" => json[Main] # None

TypeInv == Typed /\ Present

LEMMA TypedIsType == Typed <=> TypeOK
BY DEF Typed, FilesOK, TerminalsOK, WorkOK, TypeOK, PCs, Good

LEMMA NoWorkOK == WorkOK(NoWork)
BY ConstantsAssumption DEF WorkOK, NoWork, PCs, Homes

LEMMA ContentType ==
  ASSUME NEW doc \in Docs \cup {None}
  PROVE  Content(doc) \in Docs
BY ConstantsAssumption DEF Content, Empty, Docs, Homes

LEMMA SeededType ==
  ASSUME NEW main \in Docs, NEW own \in Docs
  PROVE  Seeded(main, own) \in Docs
BY DEF Seeded, Docs

\* A folder keeps its login, and what is said of a project.
Keeps(was, is) ==
  is.login = was.login /\ (was.trust # None => is.trust = was.trust)

LEMMA SeededKeeps ==
  ASSUME NEW main \in Docs, NEW own \in Docs
  PROVE  Keeps(own, Seeded(main, own))
BY DEF Keeps, Seeded, Docs

\* What a launch may be about to write, however it read the two files.
LEMMA SeedsOne ==
  ASSUME Typed, NEW p \in Procs, SeedRead(p) \/ SeedMisread(p)
  PROVE  /\ UNCHANGED <<registry, json, tree, launcher, edits, commands, removed>>
         /\ mishaps' \in 0..MaxMishaps
         /\ work[p].pc = "seed"
         /\ \/ Becomes(p, Prepared(work[p]))
            \/ \E next \in Docs, blind \in BOOLEAN :
                 /\ Becomes(p, [work[p] EXCEPT !.pc = "write", !.doc = next, !.blind = blind])
                 /\ blind \/ Keeps(Content(json[work[p].home]), next)
<1> DEFINE was == Content(json[work[p].home])
<1>1. was \in Docs /\ Content(json[Main]) \in Docs /\ Empty \in Docs
  <2>1. work[p].home \in Homes /\ Main \in Homes
    BY DEF Typed, TerminalsOK, WorkOK, Homes
  <2>2. json[work[p].home] \in Docs \cup {None} /\ json[Main] \in Docs \cup {None}
    BY <2>1 DEF Typed, FilesOK
  <2>3. Content(None) = Empty
    BY DEF Content
  <2> QED BY <2>2, <2>3, ContentType
<1>2. PICK main \in Docs, own \in Docs : Seeds(p, main, own)
  <2> HIDE DEF was
  <2>1. \E main \in {Content(json[Main]), Empty}, own \in {was, Empty} : Seeds(p, main, own)
    BY DEF SeedRead, SeedMisread, was
  <2> QED BY <1>1, <2>1
<1>3. /\ UNCHANGED <<registry, json, tree, launcher, edits, commands, removed>>
      /\ mishaps' = mishaps \/ (mishaps < MaxMishaps /\ mishaps' = mishaps + 1)
  BY DEF SeedRead, SeedMisread, counters
<1>4. mishaps' \in 0..MaxMishaps
  <2>1. mishaps \in 0..MaxMishaps /\ MaxMishaps \in Nat
    BY ConstantsAssumption DEF Typed, FilesOK
  <2> QED BY <1>3, <2>1
<1> DEFINE next == Seeded(main, own)
           blind == own # was
<1>5. next \in Docs /\ blind \in BOOLEAN /\ (blind \/ Keeps(was, next))
  BY SeededType, SeededKeeps
<1>6. \/ Becomes(p, Prepared(work[p]))
      \/ Becomes(p, [work[p] EXCEPT !.pc = "write", !.doc = next, !.blind = blind])
  BY <1>2 DEF Seeds
<1>7. work[p].pc = "seed"
  BY <1>2 DEF Seeds
<1> HIDE DEF next, blind
<1> QED BY <1>3, <1>4, <1>5, <1>6, <1>7

\* One terminal goes on, the others stay.
LEMMA BecomesOK ==
  ASSUME TerminalsOK, NEW p \in Procs, NEW w, WorkOK(w), Becomes(p, w)
  PROVE  TerminalsOK'
BY DEF TerminalsOK, Becomes

\* One terminal writes a file that others are about to write.
LEMMA OvertakenOK ==
  ASSUME TerminalsOK, NEW h, NEW q \in Procs
  PROVE  /\ WorkOK(Overtaken(h)[q])
         /\ DOMAIN Overtaken(h) = Procs
BY DEF TerminalsOK, Overtaken, WorkOK

LEMMA EditedType ==
  ASSUME FilesOK
  PROVE  /\ Edited(registry) \subseteq Good
         /\ \A a \in Accounts : [registry EXCEPT !.accounts = @ \cup {a}] \in Good
<1>0. registry \in Good
  BY DEF FilesOK
<1> USE <1>0 DEF Good, Registries, Closed
<1>1. \A a \in registry.accounts : Without(registry, a) \in Good
  BY ConstantsAssumption DEF Without
<1>2. \A d \in Dirs, a \in registry.accounts \cup {None} :
        [registry EXCEPT !.bound[d] = a] \in Good
  BY ConstantsAssumption
<1>3. \A a \in registry.accounts \cup {None} : [registry EXCEPT !.default = a] \in Good
  BY ConstantsAssumption
<1>4. \A c \in Chains : (\A a \in Accounts : c[a] > 0 => a \in registry.accounts)
                          => [registry EXCEPT !.chain = c] \in Good
  BY ConstantsAssumption
<1>5. \A a \in Accounts : [registry EXCEPT !.accounts = @ \cup {a}] \in Good
  BY ConstantsAssumption
<1>6. Edited(registry) \subseteq Good
  <2> HIDE DEF Good, Registries, Closed
  <2> SUFFICES ASSUME NEW r \in Edited(registry) PROVE r \in Good
    OBVIOUS
  <2> QED BY <1>1, <1>2, <1>3, <1>4 DEF Edited
<1> QED BY <1>5, <1>6

LEMMA InitType == Init => TypeInv
<1> SUFFICES ASSUME Init PROVE TypeInv
  OBVIOUS
<1>1. PICK s \in Starts : /\ registry = s.registry /\ tree = s.tree /\ launcher = s.launcher
                          /\ json = [h \in Homes |-> IF h = Main THEN s.main ELSE None]
  BY DEF Init
<1>2. FilesOK
  <2>1. registry \in Good /\ tree \in BOOLEAN /\ launcher \in Launchers /\ removed \in BOOLEAN
    BY <1>1, StartsAssumption DEF Init, Good
  <2>2. json \in [Homes -> Docs \cup {None}]
    BY <1>1, StartsAssumption DEF Homes
  <2>3. edits \in 0..MaxEdits /\ commands \in 0..MaxCommands /\ mishaps \in 0..MaxMishaps
    BY ConstantsAssumption DEF Init
  <2> QED BY <2>1, <2>2, <2>3 DEF FilesOK
<1>3. TerminalsOK
  BY NoWorkOK DEF Init, TerminalsOK
<1>4. Present
  BY DEF Init, Present, NoWork
<1> QED BY <1>2, <1>3, <1>4 DEF TypeInv, Typed

\* `ovm run`, by a label or by what the bindings and chains resolve to.
LEMMA RunType ==
  ASSUME Typed, NEW p \in Procs, NEW a, Run(p, a)
  PROVE  Typed'
<1> DEFINE w == [NoWork EXCEPT !.pc = "seed", !.home = a]
<1>1. a \in Accounts
  BY DEF Typed, FilesOK, Good, Registries, Run
<1>2. WorkOK(w)
  BY <1>1, NoWorkOK DEF WorkOK, PCs, Homes, NoWork
<1>3. Becomes(p, w)
  BY DEF Run
<1>4. TerminalsOK'
  <2> HIDE DEF w
  <2> QED BY <1>2, <1>3, BecomesOK DEF Typed
<1>5. FilesOK'
  BY DEF Typed, FilesOK, Good, Closed, Run, counters
<1> QED BY <1>4, <1>5 DEF Typed

\* The steps at which a terminal moves to another place, and no file changes.
LEMMA GoesOK ==
  ASSUME Typed, NEW p \in Procs, NEW l \in {"look", "unlink", "link", "start", "clear"}
  PROVE  WorkOK([work[p] EXCEPT !.pc = l])
BY DEF Typed, TerminalsOK, WorkOK, PCs

LEMMA PreparedOK ==
  ASSUME NEW w, WorkOK(w), w.pc \in {"seed", "write"}
  PROVE  WorkOK(Prepared(w))
BY DEF Prepared, WorkOK, PCs

LEMMA LaunchType ==
  ASSUME Typed, NEW p \in Procs,
         SeedRead(p) \/ SeedMisread(p) \/ SeedWrite(p) \/ Look(p) \/ Unlink(p) \/ Link(p)
         \/ Start(p) \/ Leave(p) \/ SessionEnds(p)
  PROVE  Typed'
<1> USE DEF Typed
<1>0. WorkOK(work[p])
  BY DEF TerminalsOK
<1>1. CASE SeedRead(p) \/ SeedMisread(p)
  <2>1. work[p].pc = "seed"
    BY <1>1, SeedsOne
  <2>2. WorkOK(Prepared(work[p]))
    BY <1>0, <2>1, PreparedOK
  <2>3. \A next \in Docs, blind \in BOOLEAN :
          WorkOK([work[p] EXCEPT !.pc = "write", !.doc = next, !.blind = blind])
    BY <1>0, <2>1, NoneAssumption DEF WorkOK, PCs
  <2>4. TerminalsOK'
    BY <1>1, <2>2, <2>3, SeedsOne, BecomesOK
  <2> QED BY <1>1, <2>4, SeedsOne DEF FilesOK, Good, Closed
<1>2. CASE SeedWrite(p)
  <2>1. WorkOK(Prepared(work[p]))
    BY <1>0, <1>2, PreparedOK DEF SeedWrite
  <2>2. TerminalsOK'
    BY <1>2, <2>1, OvertakenOK DEF SeedWrite, TerminalsOK
  <2>3. work[p].doc \in Docs
    BY <1>0, <1>2 DEF SeedWrite, WorkOK
  <2>4. json' \in [Homes -> Docs \cup {None}]
    BY <1>2, <2>3 DEF SeedWrite, FilesOK
  <2> QED BY <1>2, <2>2, <2>4 DEF SeedWrite, FilesOK, Good, Closed, counters
<1>3. CASE Look(p)
  <2>1. TerminalsOK'
    BY <1>3, GoesOK, BecomesOK DEF Look, Goes
  <2> QED BY <1>3, <2>1 DEF Look, FilesOK, Good, Closed, counters
<1>4. CASE Unlink(p)
  <2>1. TerminalsOK'
    BY <1>4, GoesOK, BecomesOK DEF Unlink, Goes
  <2> QED BY <1>4, <2>1 DEF Unlink, FilesOK, Good, Closed, counters, Launchers
<1>5. CASE Link(p)
  <2>1. TerminalsOK'
    BY <1>5, GoesOK, NoWorkOK, BecomesOK DEF Link, Goes
  <2> QED BY <1>5, <2>1 DEF Link, FilesOK, Good, Closed, counters, Launchers
<1>6. CASE Start(p)
  <2> DEFINE w == [work[p] EXCEPT !.pc = "session", !.native = Armed, !.late = removed]
  <2>1. Armed \in BOOLEAN /\ removed \in BOOLEAN
    BY DEF Armed, FilesOK
  <2>2. WorkOK(w)
    BY <1>0, <2>1 DEF WorkOK, PCs
  <2>3. Becomes(p, w)
    BY <1>6 DEF Start
  <2>4. TerminalsOK'
    <3> HIDE DEF w
    <3> QED BY <2>2, <2>3, BecomesOK
  <2> QED BY <1>6, <2>4 DEF Start, FilesOK, Good, Closed, counters
<1>7. CASE Leave(p) \/ SessionEnds(p)
  <2>1. TerminalsOK'
    BY <1>7, NoWorkOK, BecomesOK DEF Leave, SessionEnds
  <2> QED BY <1>7, <2>1 DEF Leave, SessionEnds, FilesOK, Good, Closed, counters
<1> QED BY <1>1, <1>2, <1>3, <1>4, <1>5, <1>6, <1>7

\* What a session writes is a document.
LEMMA SessionType ==
  ASSUME Typed, NEW p \in Procs, SessionWrites(p)
  PROVE  /\ work[p].home \in Homes
         /\ \E next \in Docs : /\ json' = [json EXCEPT ![work[p].home] = next]
                               /\ next.method = Content(json[work[p].home]).method
<1> DEFINE h == work[p].home
           doc == Content(json[h])
<1>1. h \in Homes
  BY DEF Typed, TerminalsOK, WorkOK
<1>2. doc \in Docs
  BY <1>1, ContentType DEF Typed, FilesOK
<1> DEFINE Fits(next) == next \in Docs /\ next.method = doc.method
           Written == {[doc EXCEPT !.login = IF @ = None THEN h ELSE None],
                     [doc EXCEPT !.trust = IF h = Main THEN "main" ELSE "own"]}
                    \cup {[doc EXCEPT !.server = s] : s \in 1..MaxServer}
<1>3. \A next \in Written : Fits(next)
  <2>1. /\ Fits([doc EXCEPT !.login = IF @ = None THEN h ELSE None])
        /\ Fits([doc EXCEPT !.trust = IF h = Main THEN "main" ELSE "own"])
        /\ \A s \in 1..MaxServer : Fits([doc EXCEPT !.server = s])
    <3> HIDE DEF doc, h
    <3> QED BY <1>1, <1>2 DEF Docs
  <2> HIDE DEF Fits
  <2> QED BY <2>1
<1>4. \E next \in Written : json' = [json EXCEPT ![h] = next]
  BY DEF SessionWrites
<1>5. \E next : json' = [json EXCEPT ![h] = next] /\ Fits(next)
  <2> HIDE DEF Written, Fits
  <2> QED BY <1>3, <1>4
<1> QED BY <1>1, <1>5

LEMMA WorldType ==
  ASSUME Typed,
         \/ \E p \in Procs : SessionWrites(p) \/ Reclaim(p)
         \/ Reinstall
  PROVE  Typed'
<1> USE DEF Typed
<1>1. CASE \E p \in Procs : SessionWrites(p)
  <2> PICK p \in Procs : SessionWrites(p)
    BY <1>1
  <2> DEFINE h == work[p].home
  <2>3. PICK next \in Docs : json' = [json EXCEPT ![h] = next]
    BY SessionType
  <2>4. TerminalsOK'
    <3>1. work' = Overtaken(h)
      BY DEF SessionWrites
    <3>2. DOMAIN Overtaken(h) = Procs /\ Overtaken(h) = [q \in Procs |-> Overtaken(h)[q]]
      BY DEF Overtaken
    <3> QED BY <3>1, <3>2, OvertakenOK DEF TerminalsOK
  <2>5. json' \in [Homes -> Docs \cup {None}]
    BY <2>3 DEF FilesOK
  <2>6. edits' \in 0..MaxEdits
    <3>1. edits' = edits + 1 /\ edits < MaxEdits
      BY DEF SessionWrites
    <3>2. edits \in 0..MaxEdits
      BY DEF FilesOK
    <3>3. MaxEdits \in Nat
      BY ConstantsAssumption
    <3> HIDE DEF h
    <3> QED BY ONLY <3>1, <3>2, <3>3
  <2> QED BY <2>4, <2>5, <2>6 DEF SessionWrites, FilesOK, Good, Closed
<1>2. CASE \E p \in Procs : Reclaim(p)
  BY <1>2 DEF Reclaim, FilesOK, TerminalsOK, WorkOK, Good, Closed, counters, Launchers
<1>3. CASE Reinstall
  <2>1. Content(json[Main]) \in Docs
    BY ContentType DEF FilesOK, Homes
  <2>2. json' \in [Homes -> Docs \cup {None}]
    BY <1>3, <2>1 DEF Reinstall, FilesOK, Docs
  <2>3. \A q \in Procs : WorkOK([Overtaken(Main)[q] EXCEPT !.sure = FALSE])
    <3> TAKE q \in Procs
    <3>1. WorkOK(Overtaken(Main)[q])
      BY OvertakenOK
    <3> QED BY <3>1 DEF WorkOK
  <2>4. TerminalsOK'
    BY <1>3, <2>3 DEF Reinstall, TerminalsOK
  <2>5. edits' \in 0..MaxEdits
    BY <1>3, ConstantsAssumption DEF Reinstall, FilesOK
  <2> QED BY <1>3, <2>2, <2>4, <2>5 DEF Reinstall, FilesOK, Good, Closed, Launchers
<1> QED BY <1>1, <1>2, <1>3

LEMMA RepairType ==
  ASSUME Typed, Present, NEW p \in Procs,
         FixStart(p) \/ FixRead(p) \/ Compare(p) \/ Flip(p) \/ RemoveTree(p) \/ FixLauncher(p)
         \/ ClearLauncher(p)
  PROVE  Typed'
<1> USE DEF Typed
<1>0. WorkOK(work[p])
  BY DEF TerminalsOK
<1>1. CASE FixStart(p)
  <2>1. WorkOK([NoWork EXCEPT !.pc = IF json[Main] = None THEN "remove" ELSE "read",
                              !.repairs = TRUE, !.sure = TRUE])
    BY NoWorkOK DEF WorkOK, PCs, NoWork
  <2>2. TerminalsOK'
    BY <1>1, <2>1, BecomesOK DEF FixStart
  <2>3. commands' \in 0..MaxCommands
    BY <1>1, ConstantsAssumption DEF FixStart, FilesOK
  <2> QED BY <1>1, <2>2, <2>3 DEF FixStart, FilesOK, Good, Closed
<1>2. CASE FixRead(p)
  <2>1. CASE Becomes(p, [work[p] EXCEPT !.pc = "remove", !.sure = TRUE])
    <3>1. WorkOK([work[p] EXCEPT !.pc = "remove", !.sure = TRUE])
      BY <1>0, <1>2 DEF FixRead, WorkOK, PCs
    <3> QED BY <1>2, <2>1, <3>1, BecomesOK DEF FixRead, FilesOK, Good, Closed, counters
  <2>2. CASE Becomes(p, [work[p] EXCEPT !.pc = "compare", !.doc = json[Main]])
    <3>1. json[Main] \in Docs
      BY <1>2 DEF FixRead, Present, FilesOK, Homes
    <3>2. WorkOK([work[p] EXCEPT !.pc = "compare", !.doc = json[Main]])
      BY <1>0, <1>2, <3>1, NoneAssumption DEF FixRead, WorkOK, PCs
    <3> QED BY <1>2, <2>2, <3>2, BecomesOK DEF FixRead, FilesOK, Good, Closed, counters
  <2> QED BY <1>2, <2>1, <2>2 DEF FixRead
<1>3. CASE Compare(p)
  <2>1. WorkOK([work[p] EXCEPT !.pc = "flip"])
    BY <1>0, <1>3 DEF Compare, WorkOK, PCs
  <2>2. TerminalsOK'
    BY <1>3, <2>1, NoWorkOK, BecomesOK DEF Compare, Goes
  <2> QED BY <1>3, <2>2 DEF Compare, FilesOK, Good, Closed, counters
<1>4. CASE Flip(p)
  <2>1. WorkOK([work[p] EXCEPT !.pc = "remove", !.doc = None, !.raced = FALSE, !.sure = TRUE])
    BY <1>0, <1>4 DEF Flip, WorkOK, PCs
  <2>2. TerminalsOK'
    BY <1>4, <2>1, OvertakenOK DEF Flip, TerminalsOK
  <2>3. Neutral(work[p].doc) \in Docs
    BY <1>0, <1>4 DEF Flip, WorkOK, Neutral, Docs
  <2>4. json' \in [Homes -> Docs \cup {None}]
    BY <1>4, <2>3 DEF Flip, FilesOK
  <2> QED BY <1>4, <2>2, <2>4 DEF Flip, FilesOK, Good, Closed, counters
<1>5. CASE RemoveTree(p)
  <2>1. WorkOK([work[p] EXCEPT !.pc = "fix", !.sure = FALSE])
    BY <1>0, <1>5 DEF RemoveTree, WorkOK, PCs
  <2>2. TerminalsOK'
    BY <1>5, <2>1, BecomesOK DEF RemoveTree
  <2>3. removed' \in BOOLEAN
    BY <1>0, <1>5 DEF RemoveTree, WorkOK, FilesOK
  <2> QED BY <1>5, <2>2, <2>3 DEF RemoveTree, FilesOK, Good, Closed, counters
<1>6. CASE FixLauncher(p)
  <2>1. TerminalsOK'
    BY <1>6, GoesOK, NoWorkOK, BecomesOK DEF FixLauncher, Goes
  <2> QED BY <1>6, <2>1 DEF FixLauncher, FilesOK, Good, Closed, counters
<1>7. CASE ClearLauncher(p)
  <2>1. TerminalsOK'
    BY <1>7, GoesOK, NoWorkOK, BecomesOK DEF ClearLauncher, Goes
  <2> QED BY <1>7, <2>1 DEF ClearLauncher, FilesOK, Good, Closed, counters, Launchers
<1> QED BY <1>1, <1>2, <1>3, <1>4, <1>5, <1>6, <1>7

LEMMA AccountsType ==
  ASSUME Typed, NEW p \in Procs,
         (\E a \in Accounts : Add(p, a)) \/ Edit(p) \/ Save(p) \/ Kill(p)
  PROVE  Typed'
<1> USE DEF Typed
<1>0. WorkOK(work[p])
  BY DEF TerminalsOK
<1>1. CASE \E a \in Accounts : Add(p, a)
  <2> PICK a \in Accounts : Add(p, a)
    BY <1>1
  <2> DEFINE r == [registry EXCEPT !.accounts = @ \cup {a}]
  <2>1. r \in Good
    BY EditedType
  <2>2. WorkOK([NoWork EXCEPT !.pc = "seed", !.home = a, !.reg = r])
    <3> HIDE DEF r
    <3> QED BY <2>1, NoWorkOK DEF WorkOK, PCs, NoWork, Homes
  <2>3. TerminalsOK'
    <3>1. Becomes(p, [NoWork EXCEPT !.pc = "seed", !.home = a, !.reg = r])
      BY DEF Add
    <3> HIDE DEF r
    <3> QED BY <2>2, <3>1, BecomesOK
  <2>4. commands' \in 0..MaxCommands
    <3>1. commands < MaxCommands /\ commands' = commands + 1
      BY DEF Add
    <3> QED BY <3>1, ConstantsAssumption DEF FilesOK
  <2> QED BY <2>3, <2>4 DEF Add, FilesOK, Good, Closed
<1>2. CASE Edit(p)
  <2>1. PICK r \in Good : Becomes(p, [NoWork EXCEPT !.pc = "save", !.reg = r])
    BY <1>2, EditedType DEF Edit
  <2>2. WorkOK([NoWork EXCEPT !.pc = "save", !.reg = r])
    BY <2>1, NoWorkOK, NoneAssumption DEF WorkOK, PCs, NoWork, Good
  <2>3. TerminalsOK'
    BY <2>1, <2>2, BecomesOK
  <2>4. commands' \in 0..MaxCommands
    <3>1. commands < MaxCommands /\ commands' = commands + 1
      BY <1>2 DEF Edit
    <3> QED BY <3>1, ConstantsAssumption DEF FilesOK
  <2> QED BY <1>2, <2>3, <2>4 DEF Edit, FilesOK, Good, Closed
<1>3. CASE Save(p)
  <2>1. TerminalsOK'
    BY <1>3, NoWorkOK, BecomesOK DEF Save
  <2>2. registry' \in Good
    BY <1>0, <1>3 DEF Save, WorkOK
  <2> QED BY <1>3, <2>1, <2>2 DEF Save, FilesOK, counters, Good, Closed
<1>4. CASE Kill(p)
  <2>1. TerminalsOK'
    BY <1>4, NoWorkOK, BecomesOK DEF Kill
  <2>2. mishaps' \in 0..MaxMishaps
    BY <1>4, ConstantsAssumption DEF Kill, FilesOK
  <2> QED BY <1>4, <2>1, <2>2 DEF Kill, FilesOK, Good, Closed
<1> QED BY <1>1, <1>2, <1>3, <1>4

LEMMA ResolvedType ==
  ASSUME Typed, NEW p \in Procs, RunResolved(p) \/ Launch(p)
  PROVE  Typed'
<1>1. CASE \E a : Run(p, a)
  BY <1>1, RunType
<1>2. CASE Goes(p, "look") /\ UNCHANGED <<registry, json, tree, launcher, counters, removed>>
  <2>1. TerminalsOK'
    BY <1>2, GoesOK, BecomesOK DEF Goes, Typed
  <2> QED BY <1>2, <2>1 DEF Typed, FilesOK, Good, Closed, counters
<1> QED BY <1>1, <1>2 DEF RunResolved, Launch

LEMMA NextTyped ==
  ASSUME TypeInv, Next
  PROVE  Typed'
BY RunType, LaunchType, WorldType, RepairType, AccountsType, ResolvedType DEF TypeInv, Next, Step

\* No step empties the main file, and only one that saw it there reads it.
LEMMA NextPresent ==
  ASSUME TypeInv, Next
  PROVE  Present'
<1>1. json[Main] # None => json'[Main] # None
  <2>1. CASE json' = json
    BY <2>1
  <2>2. CASE \E p \in Procs : SeedWrite(p)
    BY <2>2, ConstantsAssumption
       DEF SeedWrite, TypeInv, Typed, FilesOK, TerminalsOK, WorkOK, Homes
  <2>3. CASE \E p \in Procs : Flip(p)
    <3> PICK p \in Procs : Flip(p)
      BY <2>3
    <3>1. Neutral(work[p].doc) \in Docs
      BY DEF Flip, TypeInv, Typed, TerminalsOK, WorkOK, Neutral, Docs
    <3> QED BY <3>1, NoneAssumption DEF Flip, TypeInv, Typed, FilesOK, Homes
  <2>4. CASE (\E p \in Procs : SessionWrites(p)) \/ Reinstall
    <3>1. Content(json[Main]) \in Docs
      BY ContentType DEF TypeInv, Typed, FilesOK, Homes
    <3>2. CASE Reinstall
      <4>1. [Content(json[Main]) EXCEPT !.method = "native"] \in Docs
        BY <3>1 DEF Docs
      <4> QED BY <3>2, <4>1, NoneAssumption DEF Reinstall, TypeInv, Typed, FilesOK, Homes
    <3>3. CASE \E p \in Procs : SessionWrites(p)
      BY <3>3, SessionType, NoneAssumption DEF TypeInv, Typed, FilesOK, Homes
    <3> QED BY <2>4, <3>2, <3>3
  <2> QED BY <2>1, <2>2, <2>3, <2>4
     DEF Next, Step, Run, RunResolved, Launch, SeedRead, SeedMisread, Look, Unlink, Link, Start,
         Leave, SessionEnds, Reclaim, FixStart, FixRead, Compare, RemoveTree, FixLauncher,
         ClearLauncher, Add, Edit, Save, Kill
<1>2. \A p \in Procs : work'[p].pc = "read" => work[p].pc = "read" \/ json[Main] # None
  <2> SUFFICES ASSUME NEW p \in Procs, work'[p].pc = "read", work[p].pc # "read"
               PROVE  json[Main] # None
    OBVIOUS
  <2>0. work = [q \in Procs |-> work[q]] /\ \A q \in Procs : WorkOK(work[q])
    BY DEF TypeInv, Typed, TerminalsOK
  <2>1. CASE \E q \in Procs : FixStart(q)
    BY <2>1 DEF FixStart, Becomes, NoWork
  <2>2. ASSUME NEW q \in Procs, NEW w, Becomes(q, w), w.pc # "read"
        PROVE  FALSE
    BY <2>0, <2>2 DEF Becomes
  <2>3. ASSUME NEW q \in Procs, NEW l, Goes(q, l), l # "read"
        PROVE  FALSE
    <3> DEFINE w == [work[q] EXCEPT !.pc = l]
    <3>1. w.pc = l /\ Becomes(q, w)
      BY <2>0, <2>3 DEF WorkOK, Goes
    <3> HIDE DEF w
    <3> QED BY <2>2, <2>3, <3>1
  <2>4. NoWork.pc # "read"
    BY DEF NoWork
  <2>5. CASE \E q \in Procs : \/ Look(q) \/ Unlink(q) \/ Link(q) \/ Leave(q) \/ SessionEnds(q)
                             \/ Compare(q) \/ FixLauncher(q) \/ ClearLauncher(q)
                             \/ Save(q) \/ Kill(q) \/ Goes(q, "look")
    BY <2>2, <2>3, <2>4, <2>5
       DEF Look, Unlink, Link, Leave, SessionEnds, Compare, FixLauncher, ClearLauncher, Save, Kill
  <2>6. CASE \E q \in Procs : (\E a : Run(q, a)) \/ (\E a \in Accounts : Add(q, a)) \/ Edit(q)
    BY <2>0, <2>6 DEF Run, Add, Edit, NoWork, Becomes
  <2>7. ASSUME NEW w, WorkOK(w) PROVE Prepared(w).pc # "read"
    BY <2>7 DEF Prepared, WorkOK
  <2>8. CASE \E q \in Procs : \/ SeedRead(q) \/ SeedMisread(q) \/ FixRead(q) \/ Start(q)
                             \/ RemoveTree(q)
    <3> PICK q \in Procs : \/ SeedRead(q) \/ SeedMisread(q) \/ FixRead(q) \/ Start(q)
                           \/ RemoveTree(q)
      BY <2>8
    <3>1. CASE SeedRead(q) \/ SeedMisread(q)
      <4>1. Prepared(work[q]).pc # "read"
        BY <2>0, <2>7
      <4>2. \A next, blind :
              [work[q] EXCEPT !.pc = "write", !.doc = next, !.blind = blind].pc # "read"
        BY <2>0 DEF WorkOK
      <4>3. \E w : Becomes(q, w) /\ w.pc # "read"
        BY <3>1, <4>1, <4>2, SeedsOne DEF TypeInv
      <4> QED BY <2>2, <4>3
    <3>2. CASE FixRead(q)
      <4>1. work[q].pc = "read"
        BY <3>2 DEF FixRead
      <4> QED BY <2>0, <3>2, <4>1 DEF FixRead, Becomes, WorkOK
    <3>3. CASE Start(q)
      <4> DEFINE w == [work[q] EXCEPT !.pc = "session", !.native = Armed, !.late = removed]
      <4>1. Becomes(q, w)
        BY <3>3 DEF Start
      <4>2. w.pc # "read"
        BY <2>0 DEF WorkOK
      <4> HIDE DEF w
      <4> QED BY <2>2, <4>1, <4>2
    <3>4. CASE RemoveTree(q)
      <4> DEFINE w == [work[q] EXCEPT !.pc = "fix", !.sure = FALSE]
      <4>1. Becomes(q, w)
        BY <3>4 DEF RemoveTree
      <4>2. w.pc # "read"
        BY <2>0 DEF WorkOK
      <4> HIDE DEF w
      <4> QED BY <2>2, <4>1, <4>2
    <3> QED BY <2>8, <3>1, <3>2, <3>3, <3>4
  <2>9. ASSUME NEW h, NEW r \in Procs PROVE Overtaken(h)[r].pc = work[r].pc
    BY <2>0 DEF Overtaken, WorkOK
  <2>10. CASE \E q \in Procs : SeedWrite(q) \/ Flip(q)
    <3> PICK q \in Procs : SeedWrite(q) \/ Flip(q)
      BY <2>10
    <3>1. Prepared(work[q]).pc # "read"
      BY <2>0, <2>7
    <3>2. [work[q] EXCEPT !.pc = "remove", !.doc = None, !.raced = FALSE, !.sure = TRUE].pc # "read"
      BY <2>0 DEF WorkOK
    <3>3. \E h, w : work' = [Overtaken(h) EXCEPT ![q] = w] /\ w.pc # "read"
      BY <3>1, <3>2 DEF SeedWrite, Flip
    <3>4. \A h : DOMAIN Overtaken(h) = Procs
      BY DEF Overtaken
    <3> QED BY <2>9, <3>3, <3>4
  <2>11. CASE (\E q \in Procs : SessionWrites(q) \/ Reclaim(q)) \/ Reinstall
    <3>1. CASE \E q \in Procs : SessionWrites(q) \/ Reclaim(q)
      BY <2>9, <3>1 DEF SessionWrites, Reclaim
    <3>2. CASE Reinstall
      <4>1. WorkOK(Overtaken(Main)[p])
        BY OvertakenOK DEF TypeInv, Typed
      <4>2. [Overtaken(Main)[p] EXCEPT !.sure = FALSE].pc = Overtaken(Main)[p].pc
        BY <4>1 DEF WorkOK
      <4> QED BY <2>9, <3>2, <4>2 DEF Reinstall
    <3> QED BY <2>11, <3>1, <3>2
  <2> QED BY <2>1, <2>5, <2>6, <2>8, <2>10, <2>11 DEF Next, Step, RunResolved, Launch
<1> QED BY <1>1, <1>2 DEF TypeInv, Present

LEMMA NextType == TypeInv /\ [Next]_vars => TypeInv'
<1> SUFFICES ASSUME TypeInv, [Next]_vars PROVE TypeInv'
  OBVIOUS
<1>1. CASE UNCHANGED vars
  BY <1>1 DEF vars, counters, TypeInv, Typed, Present, FilesOK, TerminalsOK, WorkOK, Good, Closed
<1>2. CASE Next
  BY <1>2, NextTyped, NextPresent DEF TypeInv
<1> QED BY <1>1, <1>2

\* Whatever the terminals do, and wherever they are killed, accounts.json and
\* whatever is about to be saved of it name accounts only, so no launch resolves
\* to a label that is nobody's; and no launch prepares the default home.
THEOREM TypeCorrect == Spec => []TypeOK
<1>1. TypeInv => TypeOK
  BY TypedIsType DEF TypeInv
<1> QED BY InitType, NextType, <1>1, PTL DEF Spec

-----------------------------------------------------------------------------
(* The repair.  It takes the tree away only once nobody who starts from then *)
(* on believes in the native install, and ovm writes nothing that would make *)
(* them.                                                                     *)

Calm(w) == /\ w.pc = "remove" /\ w.sure => ~ Armed
           /\ w.pc = "session" /\ w.late => ~ w.native

Hygiene == (removed => ~ Armed) /\ \A p \in Procs : Calm(work[p])

HygieneInv == TypeInv /\ Hygiene

LEMMA CalmBecomes ==
  ASSUME HygieneInv, NEW p \in Procs, NEW w, Becomes(p, w), Calm(w), UNCHANGED json,
         removed' => ~ Armed
  PROVE  Hygiene'
<1>1. Armed' = Armed
  BY DEF Armed
<1>2. \A q \in Procs : work'[q] = IF q = p THEN w ELSE work[q]
  BY DEF HygieneInv, TypeInv, Typed, TerminalsOK, Becomes
<1> QED BY <1>1, <1>2 DEF HygieneInv, Hygiene, Calm

\* Placing a terminal elsewhere than in a session or before a removal disturbs nothing.
LEMMA CalmGoes ==
  ASSUME HygieneInv, NEW p \in Procs, NEW l, l \notin {"session", "remove"}
  PROVE  Calm([work[p] EXCEPT !.pc = l])
BY DEF HygieneInv, TypeInv, Typed, TerminalsOK, WorkOK, Hygiene, Calm

LEMMA CalmNoWork == Calm(NoWork)
BY DEF Calm, NoWork

LEMMA CalmPrepared ==
  ASSUME HygieneInv, NEW p \in Procs
  PROVE  Calm(Prepared(work[p]))
BY DEF HygieneInv, TypeInv, Typed, TerminalsOK, WorkOK, Hygiene, Calm, Prepared

\* A write that leaves the method, or makes it another, disturbs nothing either.
LEMMA CalmWrites ==
  ASSUME HygieneInv, NEW h, NEW p \in Procs, NEW w,
         w.pc = "remove" => ~ Armed', w.pc = "session" /\ w.late => ~ w.native,
         work' = [Overtaken(h) EXCEPT ![p] = w] \/ work' = Overtaken(h),
         Armed' => Armed, removed' = removed
  PROVE  Hygiene'
<1>1. \A q \in Procs : WorkOK(work[q]) /\ Calm(work[q])
  BY DEF HygieneInv, TypeInv, Typed, TerminalsOK, Hygiene
<1>2. \A q \in Procs : /\ Overtaken(h)[q].sure = work[q].sure
                       /\ Overtaken(h)[q].pc = work[q].pc
                       /\ Overtaken(h)[q].late = work[q].late
                       /\ Overtaken(h)[q].native = work[q].native
  BY <1>1 DEF Overtaken, WorkOK
<1>3. \A q \in Procs : work'[q] = Overtaken(h)[q] \/ (q = p /\ work'[q] = w)
  BY DEF Overtaken
<1>4. \A q \in Procs : Calm(work[q])' \/ (q = p /\ work'[q] = w)
  BY <1>1, <1>2, <1>3 DEF Calm
<1> QED BY <1>4 DEF HygieneInv, Hygiene, Calm

LEMMA HygieneLaunch ==
  ASSUME HygieneInv, NEW p \in Procs,
         SeedRead(p) \/ SeedMisread(p) \/ SeedWrite(p) \/ Look(p) \/ Unlink(p) \/ Link(p)
         \/ Start(p) \/ Leave(p) \/ SessionEnds(p) \/ (\E a : Run(p, a)) \/ RunResolved(p)
         \/ Launch(p)
  PROVE  Hygiene'
<1>0. WorkOK(work[p]) /\ Calm(work[p]) /\ (removed => ~ Armed)
  BY DEF HygieneInv, TypeInv, Typed, TerminalsOK, Hygiene
<1>1. ASSUME NEW l, l \notin {"session", "remove"}, Goes(p, l), UNCHANGED <<json, removed>>
      PROVE  Hygiene'
  BY <1>0, <1>1, CalmGoes, CalmBecomes DEF Goes
<1>2. CASE SeedRead(p) \/ SeedMisread(p)
  <2>1. \A next, blind : Calm([work[p] EXCEPT !.pc = "write", !.doc = next, !.blind = blind])
    BY <1>0 DEF Calm, WorkOK
  <2>2. Calm(Prepared(work[p]))
    BY CalmPrepared
  <2>3. UNCHANGED <<json, removed>> /\ \E w : Becomes(p, w) /\ Calm(w)
    BY <1>2, <2>1, <2>2, SeedsOne DEF HygieneInv, TypeInv
  <2> QED BY <1>0, <2>3, CalmBecomes
<1>3. CASE SeedWrite(p)
  <2>1. work[p].home \in Accounts
    BY <1>0, <1>3 DEF SeedWrite, WorkOK
  <2>2. json'[Main] = json[Main]
    BY <1>3, <2>1, ConstantsAssumption
       DEF SeedWrite, HygieneInv, TypeInv, Typed, FilesOK, Homes
  <2>3. Armed' = Armed
    BY <2>2 DEF Armed
  <2> DEFINE w == Prepared(work[p])
  <2>4. w.pc \notin {"session", "remove"}
    <3>1. work[p].pc = "write"
      BY <1>3 DEF SeedWrite
    <3> QED BY <1>0, <3>1 DEF Prepared, WorkOK
  <2>5. work' = [Overtaken(work[p].home) EXCEPT ![p] = w] /\ removed' = removed
    BY <1>3 DEF SeedWrite
  <2> HIDE DEF w
  <2> QED BY <2>3, <2>4, <2>5, CalmWrites
<1>4. CASE Look(p) \/ Unlink(p)
  BY <1>1, <1>4 DEF Look, Unlink
<1>5. CASE Link(p)
  BY <1>0, <1>1, <1>5, CalmNoWork, CalmBecomes DEF Link
<1>6. CASE Start(p)
  <2> DEFINE w == [work[p] EXCEPT !.pc = "session", !.native = Armed, !.late = removed]
  <2>1. Becomes(p, w) /\ UNCHANGED <<json, removed>>
    BY <1>6 DEF Start
  <2>2. Calm(w)
    <3>1. w.pc = "session" /\ w.native = Armed /\ w.late = removed
      BY <1>0 DEF WorkOK
    <3> QED BY <1>0, <3>1 DEF Calm
  <2> HIDE DEF w
  <2> QED BY <1>0, <2>1, <2>2, CalmBecomes
<1>7. CASE Leave(p) \/ SessionEnds(p)
  BY <1>0, <1>7, CalmNoWork, CalmBecomes DEF Leave, SessionEnds
<1>8. CASE \E a : Run(p, a)
  <2> PICK a : Run(p, a)
    BY <1>8
  <2>1. Calm([NoWork EXCEPT !.pc = "seed", !.home = a])
    BY DEF Calm, NoWork
  <2> QED BY <1>0, <2>1, CalmBecomes DEF Run
<1>9. CASE Goes(p, "look") /\ UNCHANGED <<json, removed>>
  BY <1>1, <1>9
<1> QED BY <1>2, <1>3, <1>4, <1>5, <1>6, <1>7, <1>8, <1>9 DEF RunResolved, Launch

LEMMA HygieneRepair ==
  ASSUME HygieneInv, NEW p \in Procs,
         FixStart(p) \/ FixRead(p) \/ Compare(p) \/ Flip(p) \/ RemoveTree(p) \/ FixLauncher(p)
         \/ ClearLauncher(p)
  PROVE  Hygiene'
<1>0. WorkOK(work[p]) /\ Calm(work[p]) /\ (removed => ~ Armed)
  BY DEF HygieneInv, TypeInv, Typed, TerminalsOK, Hygiene
<1>1. CASE FixStart(p)
  <2>1. json[Main] = None => ~ Armed
    BY DEF Armed, Content, Empty
  <2>2. Calm([NoWork EXCEPT !.pc = IF json[Main] = None THEN "remove" ELSE "read",
                            !.repairs = TRUE, !.sure = TRUE])
    BY <2>1 DEF Calm, NoWork
  <2> QED BY <1>0, <1>1, <2>2, CalmBecomes DEF FixStart
<1>2. CASE FixRead(p)
  <2>1. CASE Becomes(p, [work[p] EXCEPT !.pc = "compare", !.doc = json[Main]])
    <3>1. Calm([work[p] EXCEPT !.pc = "compare", !.doc = json[Main]])
      BY <1>0 DEF Calm, WorkOK
    <3> QED BY <1>0, <1>2, <2>1, <3>1, CalmBecomes DEF FixRead
  <2>2. CASE ~ Armed /\ Becomes(p, [work[p] EXCEPT !.pc = "remove", !.sure = TRUE])
    <3>1. Calm([work[p] EXCEPT !.pc = "remove", !.sure = TRUE])
      BY <1>0, <2>2 DEF Calm, WorkOK
    <3> QED BY <1>0, <1>2, <2>2, <3>1, CalmBecomes DEF FixRead
  <2> QED BY <1>2, <2>1, <2>2 DEF FixRead
<1>3. CASE Compare(p)
  BY <1>0, <1>3, CalmGoes, CalmNoWork, CalmBecomes DEF Compare, Goes
<1>4. CASE Flip(p)
  <2>1. Neutral(work[p].doc) \in Docs /\ Neutral(work[p].doc).method = "other"
    BY <1>0, <1>4 DEF Flip, WorkOK, Neutral, Docs
  <2>2. json'[Main] = Neutral(work[p].doc)
    BY <1>4 DEF Flip, HygieneInv, TypeInv, Typed, FilesOK, Homes
  <2>3. ~ Armed'
    BY <2>1, <2>2, NoneAssumption DEF Armed, Content
  <2> DEFINE w == [work[p] EXCEPT !.pc = "remove", !.doc = None, !.raced = FALSE, !.sure = TRUE]
  <2>4. w.pc # "session"
    BY <1>0 DEF WorkOK
  <2>5. work' = [Overtaken(Main) EXCEPT ![p] = w] /\ removed' = removed
    BY <1>4 DEF Flip
  <2> HIDE DEF w
  <2> QED BY <2>3, <2>4, <2>5, CalmWrites
<1>5. CASE RemoveTree(p)
  <2>1. Calm([work[p] EXCEPT !.pc = "fix", !.sure = FALSE])
    BY <1>0 DEF Calm, WorkOK
  <2>2. removed' => ~ Armed
    BY <1>0, <1>5 DEF RemoveTree, Calm
  <2> QED BY <1>5, <2>1, <2>2, CalmBecomes DEF RemoveTree
<1>6. CASE FixLauncher(p)
  BY <1>0, <1>6, CalmGoes, CalmNoWork, CalmBecomes DEF FixLauncher, Goes
<1>7. CASE ClearLauncher(p)
  BY <1>0, <1>7, CalmGoes, CalmNoWork, CalmBecomes DEF ClearLauncher, Goes
<1> QED BY <1>1, <1>2, <1>3, <1>4, <1>5, <1>6, <1>7

LEMMA HygieneRest ==
  ASSUME HygieneInv,
         \/ \E p \in Procs : \/ SessionWrites(p) \/ Reclaim(p) \/ Edit(p) \/ Save(p) \/ Kill(p)
                            \/ \E a \in Accounts : Add(p, a)
         \/ Reinstall
  PROVE  Hygiene'
<1>0. removed => ~ Armed
  BY DEF HygieneInv, Hygiene
<1>1. CASE \E p \in Procs : SessionWrites(p)
  <2> PICK p \in Procs : SessionWrites(p)
    BY <1>1
  <2>1. PICK next \in Docs : /\ json' = [json EXCEPT ![work[p].home] = next]
                             /\ next.method = Content(json[work[p].home]).method
    BY SessionType DEF HygieneInv, TypeInv
  <2>2. Armed' = Armed
    <3>1. CASE work[p].home = Main
      <4>1. json'[Main] = next
        BY <2>1, <3>1 DEF HygieneInv, TypeInv, Typed, FilesOK, Homes
      <4>2. Content(next) = next
        BY NoneAssumption DEF Content
      <4> QED BY <2>1, <3>1, <4>1, <4>2 DEF Armed
    <3>2. CASE work[p].home # Main
      <4>1. json'[Main] = json[Main]
        BY <2>1, <3>2 DEF HygieneInv, TypeInv, Typed, FilesOK, Homes
      <4> QED BY <4>1 DEF Armed
    <3> QED BY <3>1, <3>2
  <2>3. NoWork.pc \notin {"session", "remove"}
    BY DEF NoWork
  <2> QED BY <2>2, <2>3, CalmWrites DEF SessionWrites
<1>2. CASE \E p \in Procs : Reclaim(p)
  BY <1>2 DEF Reclaim, HygieneInv, Hygiene, Calm, Armed
<1>3. CASE \E p \in Procs : Edit(p)
  <2> PICK p \in Procs : Edit(p)
    BY <1>3
  <2>1. PICK r : Becomes(p, [NoWork EXCEPT !.pc = "save", !.reg = r])
    BY DEF Edit
  <2>2. Calm([NoWork EXCEPT !.pc = "save", !.reg = r])
    BY DEF Calm, NoWork
  <2> QED BY <1>0, <2>1, <2>2, CalmBecomes DEF Edit
<1>4. CASE \E p \in Procs : Save(p) \/ Kill(p)
  BY <1>0, <1>4, CalmNoWork, CalmBecomes DEF Save, Kill
<1>5. CASE \E p \in Procs, a \in Accounts : Add(p, a)
  <2> PICK p \in Procs, a \in Accounts : Add(p, a)
    BY <1>5
  <2> DEFINE r == [registry EXCEPT !.accounts = @ \cup {a}]
  <2>1. Becomes(p, [NoWork EXCEPT !.pc = "seed", !.home = a, !.reg = r]) /\ UNCHANGED <<json, removed>>
    BY DEF Add
  <2> HIDE DEF r
  <2>2. Calm([NoWork EXCEPT !.pc = "seed", !.home = a, !.reg = r])
    BY DEF Calm, NoWork
  <2> QED BY <1>0, <2>1, <2>2, CalmBecomes
<1>6. CASE Reinstall
  <2>1. \A q \in Procs : Calm(work[q])'
    <3> TAKE q \in Procs
    <3>1. WorkOK(work[q]) /\ Calm(work[q])
      BY DEF HygieneInv, TypeInv, Typed, TerminalsOK, Hygiene
    <3>2. /\ ~ work'[q].sure /\ work'[q].pc = work[q].pc
          /\ work'[q].late = work[q].late /\ work'[q].native = work[q].native
      BY <1>6, <3>1 DEF Reinstall, Overtaken, WorkOK
    <3> QED BY <3>1, <3>2 DEF Calm
  <2> QED BY <1>6, <2>1 DEF Reinstall, Hygiene
<1> QED BY <1>1, <1>2, <1>3, <1>4, <1>5, <1>6

\* What a repair has removed comes back through no session that starts afterwards,
\* for any number of terminals, accounts, launches, repairs and kills.
THEOREM StaysRemovedCorrect == Spec => []StaysRemoved
<1>1. Init => HygieneInv
  BY InitType DEF Init, HygieneInv, Hygiene, Calm, NoWork
<1>2. HygieneInv /\ [Next]_vars => HygieneInv'
  <2> SUFFICES ASSUME HygieneInv, [Next]_vars PROVE HygieneInv'
    OBVIOUS
  <2>1. TypeInv'
    BY NextType DEF HygieneInv
  <2>2. CASE UNCHANGED vars
    BY <2>1, <2>2 DEF vars, HygieneInv, Hygiene, Calm, Armed
  <2>3. CASE Next
    <3>1. Hygiene'
      BY <2>3, HygieneLaunch, HygieneRepair, HygieneRest DEF Next, Step
    <3> QED BY <2>1, <3>1 DEF HygieneInv
  <2> QED BY <2>2, <2>3
<1>3. HygieneInv => StaysRemoved
  BY DEF HygieneInv, Hygiene, Calm, StaysRemoved
<1> QED BY <1>1, <1>2, <1>3, PTL DEF Spec

-----------------------------------------------------------------------------
(* What is about to be written.  Unless a session or another ovm has written *)
(* the file since, or nothing could be made of the file, it says of logins   *)
(* and projects what the file says.                                          *)

Fresh(w) ==
  ~ w.raced => /\ w.pc = "write" /\ ~ w.blind => Keeps(Content(json[w.home]), w.doc)
               /\ w.pc = "flip" => w.doc = json[Main]

FreshInv == TypeInv /\ \A p \in Procs : Fresh(work[p])

LEMMA FreshBecomes ==
  ASSUME FreshInv, NEW p \in Procs, NEW w, Becomes(p, w), Fresh(w), UNCHANGED json
  PROVE  \A q \in Procs : Fresh(work[q])'
<1>1. \A q \in Procs : work'[q] = IF q = p THEN w ELSE work[q]
  BY DEF FreshInv, TypeInv, Typed, TerminalsOK, Becomes
<1> QED BY <1>1 DEF FreshInv, Fresh

LEMMA FreshGoes ==
  ASSUME FreshInv, NEW p \in Procs, NEW l, l \notin {"write", "flip"}
  PROVE  Fresh([work[p] EXCEPT !.pc = l])
BY DEF FreshInv, TypeInv, Typed, TerminalsOK, WorkOK, Fresh

LEMMA FreshNoWork == Fresh(NoWork)
BY DEF Fresh, NoWork

\* A write reaches one file, and whoever is about to write that one knows.
LEMMA FreshWrites ==
  ASSUME FreshInv, NEW h \in Homes, NEW doc, json' = [json EXCEPT ![h] = doc],
         NEW p \in Procs, NEW w, w.pc \notin {"write", "flip"},
         \/ work' = [Overtaken(h) EXCEPT ![p] = w]
         \/ work' = Overtaken(h)
         \/ work' = [q \in Procs |-> [Overtaken(h)[q] EXCEPT !.sure = FALSE]]
  PROVE  /\ \A q \in Procs : Fresh(work[q])'
         /\ \A q \in Procs : work'[q].pc # work[q].pc => q = p /\ work'[q] = w
<1>1. \A q \in Procs : WorkOK(work[q]) /\ Fresh(work[q]) /\ WorkOK(Overtaken(h)[q])
  BY OvertakenOK DEF FreshInv, TypeInv, Typed, TerminalsOK
<1>2. ASSUME NEW q \in Procs
      PROVE  /\ Overtaken(h)[q].pc = work[q].pc /\ Overtaken(h)[q].doc = work[q].doc
             /\ Overtaken(h)[q].home = work[q].home /\ Overtaken(h)[q].blind = work[q].blind
             /\ Overtaken(h)[q].raced
                  = (work[q].raced \/ (work[q].pc \in {"write", "flip"} /\ work[q].home = h))
  BY <1>1 DEF Overtaken, WorkOK
<1>3. ASSUME NEW q \in Procs
      PROVE  \/ q = p /\ work'[q] = w
             \/ /\ work'[q].pc = work[q].pc /\ work'[q].doc = work[q].doc
                /\ work'[q].home = work[q].home /\ work'[q].blind = work[q].blind
                /\ work'[q].raced
                     = (work[q].raced \/ (work[q].pc \in {"write", "flip"} /\ work[q].home = h))
  <2>1. CASE work'[q] = Overtaken(h)[q]
    BY <1>2, <2>1
  <2>2. CASE work'[q] = [Overtaken(h)[q] EXCEPT !.sure = FALSE]
    BY <1>1, <1>2, <2>2 DEF WorkOK
  <2> QED BY <2>1, <2>2 DEF Overtaken
<1>4. ASSUME NEW q \in Procs PROVE Fresh(work[q])'
  <2>1. CASE q = p /\ work'[q] = w
    BY <2>1 DEF Fresh
  <2>2. CASE work'[q].raced \/ work'[q].pc \notin {"write", "flip"}
    BY <2>2 DEF Fresh
  <2>3. CASE /\ work'[q].pc = work[q].pc /\ work'[q].doc = work[q].doc
             /\ work'[q].home = work[q].home /\ ~ work'[q].raced
             /\ work'[q].blind = work[q].blind
             /\ work[q].pc \in {"write", "flip"} /\ work[q].home # h /\ ~ work[q].raced
    <3>1. work[q].home \in Homes /\ (work[q].pc = "flip" => work[q].home = Main)
      BY <1>1 DEF WorkOK
    <3>2. json'[work[q].home] = json[work[q].home]
      BY <2>3, <3>1
    <3> QED BY <1>1, <2>3, <3>1, <3>2 DEF Fresh, WorkOK
  <2> QED BY <1>3, <2>1, <2>2, <2>3
<1> QED BY <1>3, <1>4

\* Steps that write no `.claude.json`.
LEMMA FreshSteps ==
  ASSUME FreshInv, NEW p \in Procs,
         \/ SeedRead(p) \/ SeedMisread(p) \/ Look(p) \/ Unlink(p) \/ Link(p) \/ Start(p)
         \/ Leave(p) \/ SessionEnds(p) \/ (\E a : Run(p, a)) \/ RunResolved(p) \/ Launch(p)
         \/ Reclaim(p)
         \/ FixStart(p) \/ FixRead(p) \/ Compare(p) \/ RemoveTree(p) \/ FixLauncher(p)
         \/ ClearLauncher(p) \/ Edit(p) \/ Save(p) \/ Kill(p) \/ (\E a \in Accounts : Add(p, a))
  PROVE  json' = json /\ \A q \in Procs : Fresh(work[q])'
<1>0. WorkOK(work[p]) /\ Fresh(work[p])
  BY DEF FreshInv, TypeInv, Typed, TerminalsOK
<1>1. ASSUME NEW l, l \notin {"write", "flip"}, Goes(p, l), UNCHANGED json
      PROVE  \A q \in Procs : Fresh(work[q])'
  BY <1>1, FreshGoes, FreshBecomes DEF Goes
<1>2. ASSUME Becomes(p, NoWork), UNCHANGED json
      PROVE  \A q \in Procs : Fresh(work[q])'
  BY <1>2, FreshNoWork, FreshBecomes
<1>3. ASSUME NEW w, Becomes(p, w), w.pc \notin {"write", "flip"}, UNCHANGED json
      PROVE  \A q \in Procs : Fresh(work[q])'
  BY <1>3, FreshBecomes DEF Fresh
<1>4. CASE SeedRead(p) \/ SeedMisread(p)
  <2>1. Prepared(work[p]).pc \notin {"write", "flip"}
    BY <1>0 DEF Prepared, WorkOK
  <2>2. ASSUME NEW next \in Docs, NEW blind \in BOOLEAN,
               blind \/ Keeps(Content(json[work[p].home]), next)
        PROVE  Fresh([work[p] EXCEPT !.pc = "write", !.doc = next, !.blind = blind])
    <3> DEFINE w == [work[p] EXCEPT !.pc = "write", !.doc = next, !.blind = blind]
    <3>1. /\ w.pc = "write" /\ w.doc = next /\ w.home = work[p].home
          /\ w.blind = blind
      BY <1>0 DEF WorkOK
    <3> HIDE DEF w
    <3>2. Fresh(w)
      BY <2>2, <3>1 DEF Fresh
    <3> QED BY <3>2 DEF w
  <2>3. json' = json /\ \E w : Becomes(p, w) /\ Fresh(w)
    <3>1. Fresh(Prepared(work[p]))
      BY <2>1 DEF Fresh
    <3> QED BY <1>4, <2>2, <3>1, SeedsOne DEF FreshInv, TypeInv
  <2> QED BY <2>3, FreshBecomes
<1>5. CASE Compare(p)
  <2>1. CASE Becomes(p, NoWork)
    BY <1>2, <1>5, <2>1 DEF Compare
  <2>2. CASE json[Main] = work[p].doc /\ Goes(p, "flip")
    <3>1. Fresh([work[p] EXCEPT !.pc = "flip"])
      BY <1>0, <2>2 DEF Fresh, WorkOK
    <3> QED BY <1>5, <2>2, <3>1, FreshBecomes DEF Compare, Goes
  <2> QED BY <1>5, <2>1, <2>2 DEF Compare
<1>6. CASE \/ Look(p) \/ Unlink(p) \/ Link(p) \/ FixLauncher(p) \/ ClearLauncher(p)
           \/ (Goes(p, "look") /\ UNCHANGED json)
  BY <1>1, <1>2, <1>6 DEF Look, Unlink, Link, FixLauncher, ClearLauncher
<1>7. CASE Leave(p) \/ SessionEnds(p) \/ Save(p) \/ Kill(p)
  BY <1>2, <1>7 DEF Leave, SessionEnds, Save, Kill
<1>8. CASE (\E a : Run(p, a)) \/ Edit(p) \/ (\E a \in Accounts : Add(p, a)) \/ FixStart(p)
  <2>1. \A a, r : /\ [NoWork EXCEPT !.pc = "seed", !.home = a].pc = "seed"
                  /\ [NoWork EXCEPT !.pc = "save", !.reg = r].pc = "save"
                  /\ [NoWork EXCEPT !.pc = "seed", !.home = a, !.reg = r].pc = "seed"
    BY DEF NoWork
  <2>2. CASE \E a : Run(p, a)
    BY <1>3, <2>1, <2>2 DEF Run
  <2>3. CASE Edit(p)
    BY <1>3, <2>1, <2>3 DEF Edit
  <2>4. CASE \E a \in Accounts : Add(p, a)
    BY <1>3, <2>1, <2>4 DEF Add
  <2>5. CASE FixStart(p)
    <3>1. [NoWork EXCEPT !.pc = IF json[Main] = None THEN "remove" ELSE "read",
                         !.repairs = TRUE, !.sure = TRUE].pc \in {"remove", "read"}
      BY DEF NoWork
    <3> QED BY <1>3, <2>5, <3>1 DEF FixStart
  <2> QED BY <1>8, <2>2, <2>3, <2>4, <2>5
<1>9. CASE Start(p)
  <2> DEFINE w == [work[p] EXCEPT !.pc = "session", !.native = Armed, !.late = removed]
  <2>1. Becomes(p, w) /\ json' = json
    BY <1>9 DEF Start
  <2>2. w.pc = "session"
    BY <1>0 DEF WorkOK
  <2> HIDE DEF w
  <2> QED BY <1>3, <2>1, <2>2
<1>10. CASE FixRead(p) \/ RemoveTree(p)
  <2>1. /\ [work[p] EXCEPT !.pc = "compare", !.doc = json[Main]].pc = "compare"
        /\ [work[p] EXCEPT !.pc = "remove", !.sure = TRUE].pc = "remove"
        /\ [work[p] EXCEPT !.pc = "fix", !.sure = FALSE].pc = "fix"
    BY <1>0 DEF WorkOK
  <2> QED BY <1>3, <1>10, <2>1 DEF FixRead, RemoveTree
<1>11. CASE Reclaim(p)
  BY <1>11 DEF Reclaim, FreshInv, Fresh
<1> QED BY <1>4, <1>5, <1>6, <1>7, <1>8, <1>9, <1>10, <1>11 DEF RunResolved, Launch

WriteKeeps ==
  \A p \in Procs, h \in Homes :
    /\ work[p].pc \in {"write", "flip"} /\ work'[p].pc # work[p].pc
    /\ ~ work[p].raced /\ ~ (work[p].pc = "write" /\ work[p].blind)
    =>
      LET was == Content(json[h])
          is  == Content(json'[h])
      IN /\ is.login = was.login
         /\ was.trust # None => is.trust = was.trust
         /\ h = Main => is.server = was.server

LEMMA FreshSeedWrite ==
  ASSUME FreshInv, NEW p \in Procs, SeedWrite(p)
  PROVE  (\A q \in Procs : Fresh(work[q])') /\ WriteKeeps
<1> DEFINE h == work[p].home
           doc == work[p].doc
           w == Prepared(work[p])
<1>0. WorkOK(work[p]) /\ Fresh(work[p]) /\ work[p].pc = "write"
  BY DEF FreshInv, TypeInv, Typed, TerminalsOK, SeedWrite
<1>1. h \in Accounts /\ h \in Homes /\ doc \in Docs
  BY <1>0 DEF WorkOK, Homes
<1>2. w.pc \notin {"write", "flip"}
  BY <1>0 DEF Prepared, WorkOK
<1>3. json' = [json EXCEPT ![h] = doc] /\ work' = [Overtaken(h) EXCEPT ![p] = w]
  BY DEF SeedWrite
<1>4. /\ \A q \in Procs : Fresh(work[q])'
      /\ \A q \in Procs : work'[q].pc # work[q].pc => q = p
  <2> HIDE DEF h, doc, w
  <2> QED BY <1>1, <1>2, <1>3, FreshWrites
<1>5. ~ work[p].raced /\ ~ work[p].blind => Keeps(Content(json[h]), doc)
  BY <1>0 DEF Fresh
<1>6. Content(json'[h]) = doc
  <2>1. json'[h] = doc
    BY <1>1, <1>3 DEF FreshInv, TypeInv, Typed, FilesOK
  <2> QED BY <1>1, <2>1, NoneAssumption DEF Content
<1>7. \A g \in Homes : g # h => json'[g] = json[g]
  BY <1>3 DEF FreshInv, TypeInv, Typed, FilesOK
<1>8. h # Main
  BY <1>1, ConstantsAssumption
<1>9. WriteKeeps
  <2> SUFFICES ASSUME ~ work[p].raced, ~ work[p].blind, NEW g \in Homes
               PROVE  LET was == Content(json[g])
                          is  == Content(json'[g])
                      IN /\ is.login = was.login
                         /\ was.trust # None => is.trust = was.trust
                         /\ g = Main => is.server = was.server
    BY <1>0, <1>4 DEF WriteKeeps
  <2>1. CASE g = h
    <3> HIDE DEF h, doc
    <3> QED BY <1>5, <1>6, <1>8, <2>1 DEF Keeps
  <2>2. CASE g # h
    BY <1>7, <2>2
  <2> QED BY <2>1, <2>2
<1> QED BY <1>4, <1>9

LEMMA NeutralDoc ==
  ASSUME NEW doc \in Docs
  PROVE  /\ Neutral(doc) \in Docs /\ Neutral(doc).login = doc.login
         /\ Neutral(doc).trust = doc.trust /\ Neutral(doc).server = doc.server
BY DEF Neutral, Docs

LEMMA FreshFlip ==
  ASSUME FreshInv, NEW p \in Procs, Flip(p)
  PROVE  (\A q \in Procs : Fresh(work[q])') /\ WriteKeeps
<1> DEFINE doc == Neutral(work[p].doc)
           w == [work[p] EXCEPT !.pc = "remove", !.doc = None, !.raced = FALSE, !.sure = TRUE]
<1>0. WorkOK(work[p]) /\ Fresh(work[p]) /\ work[p].pc = "flip"
  BY DEF FreshInv, TypeInv, Typed, TerminalsOK, Flip
<1>1. Main \in Homes /\ work[p].doc \in Docs
  BY <1>0 DEF WorkOK, Homes
<1>2. w.pc = "remove"
  BY <1>0 DEF WorkOK
<1>3. json' = [json EXCEPT ![Main] = doc] /\ work' = [Overtaken(Main) EXCEPT ![p] = w]
  BY DEF Flip
<1>4. /\ \A q \in Procs : Fresh(work[q])'
      /\ \A q \in Procs : work'[q].pc # work[q].pc => q = p
  <2> HIDE DEF doc, w
  <2>1. w.pc \notin {"write", "flip"}
    BY <1>2
  <2> QED BY <1>1, <1>3, <2>1, FreshWrites
<1>5. doc \in Docs /\ doc.login = work[p].doc.login /\ doc.trust = work[p].doc.trust
      /\ doc.server = work[p].doc.server
  BY <1>1, NeutralDoc
<1>6. ~ work[p].raced => Content(json[Main]) = work[p].doc
  BY <1>0, <1>1, NoneAssumption DEF Fresh, Content
<1>7. Content(json'[Main]) = doc
  <2>1. json'[Main] = doc
    BY <1>1, <1>3 DEF FreshInv, TypeInv, Typed, FilesOK
  <2> QED BY <1>5, <2>1, NoneAssumption DEF Content
<1>8. \A g \in Homes : g # Main => json'[g] = json[g]
  BY <1>3 DEF FreshInv, TypeInv, Typed, FilesOK
<1>9. WriteKeeps
  <2> SUFFICES ASSUME ~ work[p].raced, NEW g \in Homes
               PROVE  LET was == Content(json[g])
                          is  == Content(json'[g])
                      IN /\ is.login = was.login
                         /\ was.trust # None => is.trust = was.trust
                         /\ g = Main => is.server = was.server
    BY <1>4 DEF WriteKeeps
  <2>1. CASE g = Main
    <3> HIDE DEF doc
    <3> QED BY <1>5, <1>6, <1>7, <2>1
  <2>2. CASE g # Main
    BY <1>8, <2>2
  <2> QED BY <2>1, <2>2
<1> QED BY <1>4, <1>9

\* What others write changes the place of no terminal.
LEMMA FreshOutside ==
  ASSUME FreshInv, (\E p \in Procs : SessionWrites(p)) \/ Reinstall
  PROVE  (\A q \in Procs : Fresh(work[q])') /\ WriteKeeps
<1>0. NoWork.pc \notin {"write", "flip"} /\ NoWork.pc = "idle"
  BY DEF NoWork
<1>1. CASE \E p \in Procs : SessionWrites(p)
  <2> PICK p \in Procs : SessionWrites(p)
    BY <1>1
  <2> DEFINE h == work[p].home
  <2>1. h \in Homes
    BY SessionType DEF FreshInv, TypeInv
  <2>4. PICK next : json' = [json EXCEPT ![h] = next]
    BY SessionType DEF FreshInv, TypeInv
  <2>2. work' = Overtaken(h) /\ work[p].pc = "session"
    BY DEF SessionWrites
  <2>3. /\ \A q \in Procs : Fresh(work[q])'
        /\ \A q \in Procs : work'[q].pc = work[q].pc
    <3> DEFINE w == NoWork
    <3>1. w.pc \notin {"write", "flip"}
      BY <1>0
    <3> HIDE DEF h, w
    <3>2. ASSUME NEW q \in Procs PROVE Fresh(work[q])'
      BY <2>1, <2>2, <2>4, <3>1, FreshWrites
    <3>3. ASSUME NEW q \in Procs PROVE work'[q].pc = work[q].pc
      <4>1. WorkOK(work[q])
        BY DEF FreshInv, TypeInv, Typed, TerminalsOK
      <4> QED BY <2>2, <4>1 DEF Overtaken, WorkOK
    <3> QED BY <3>2, <3>3
  <2> QED BY <2>3 DEF WriteKeeps
<1>2. CASE Reinstall
  <2>1. /\ Main \in Homes
        /\ json' = [json EXCEPT ![Main] = [Content(json[Main]) EXCEPT !.method = "native"]]
        /\ work' = [q \in Procs |-> [Overtaken(Main)[q] EXCEPT !.sure = FALSE]]
    BY <1>2 DEF Reinstall, Homes, FreshInv, TypeInv, Typed, FilesOK
  <2>2. \A q \in Procs : work'[q].pc = work[q].pc
    <3> TAKE q \in Procs
    <3>1. WorkOK(work[q]) /\ WorkOK(Overtaken(Main)[q])
      BY OvertakenOK DEF FreshInv, TypeInv, Typed, TerminalsOK
    <3>2. Overtaken(Main)[q].pc = work[q].pc
      BY <3>1 DEF Overtaken, WorkOK
    <3> QED BY <2>1, <3>1, <3>2 DEF WorkOK
  <2>3. ASSUME NEW q \in Procs PROVE Fresh(work[q])'
    <3> DEFINE next == [Content(json[Main]) EXCEPT !.method = "native"]
    <3>1. json' = [json EXCEPT ![Main] = next]
      BY <2>1
    <3> HIDE DEF next
    <3> QED BY <1>0, <2>1, <3>1, FreshWrites
  <2> QED BY <2>2, <2>3 DEF WriteKeeps
<1> QED BY <1>1, <1>2

\* No write of ovm takes a login away or gives one, or what a session has learnt
\* of a project, in any home, unless the file was written after ovm's last look, or
\* a launch could make nothing of the file at that look.
THEOREM WordsKeptCorrect == Spec => WordsKept
<1>1. Init => FreshInv
  BY InitType DEF Init, FreshInv, Fresh, NoWork
<1>2. FreshInv /\ [Next]_vars => FreshInv' /\ [WriteKeeps]_vars
  <2> SUFFICES ASSUME FreshInv, [Next]_vars PROVE FreshInv' /\ [WriteKeeps]_vars
    OBVIOUS
  <2>1. TypeInv'
    BY NextType DEF FreshInv
  <2>2. CASE UNCHANGED vars
    BY <2>1, <2>2 DEF vars, FreshInv, Fresh
  <2>3. CASE Next
    <3>1. (\A q \in Procs : Fresh(work[q])') /\ (json' = json \/ WriteKeeps)
      BY <2>3, FreshSteps, FreshSeedWrite, FreshFlip, FreshOutside DEF Next, Step
    <3>2. json' = json => WriteKeeps
      BY DEF WriteKeeps
    <3> QED BY <2>1, <3>1, <3>2 DEF FreshInv
  <2> QED BY <2>2, <2>3
<1> QED BY <1>1, <1>2, PTL DEF Spec, WordsKept, WriteKeeps
=============================================================================

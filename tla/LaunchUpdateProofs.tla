------------------------- MODULE LaunchUpdateProofs -------------------------
(* Theorems about LaunchUpdate, for every value of its constants.          *)
EXTENDS LaunchUpdate, TLAPS

-----------------------------------------------------------------------------
(* The inductive invariant: what a command holds fits the point it has come *)
(* to, and what a launch decided on is still so while nobody moved the      *)
(* selection.                                                               *)

StoreOK ==
  /\ known \in VersionOrNone
  /\ installed \subseteq Versions /\ current \in VersionOrNone /\ pin \in VersionOrNone
  /\ attempt \in Attempt \cup {None} /\ snooze \in VersionOrNone
  /\ config \in Config \cup {None}
  /\ ops \in 0..MaxOps /\ mishaps \in 0..MaxMishaps
  /\ chosen \in VersionOrNone /\ kept \in VersionOrNone /\ killed \in BOOLEAN

\* A launch that has a version, and may be after another one.
Launches(j) == j.op = "launch" /\ j.active # None

\* Of a command at l with locals j, while config.json is c.
JobFits(l, j, c) ==
  /\ l \in {"asked", "download", "switch", "pin", "unpin"} => j.ver \in Versions
  /\ l \in {"active", "decide", "offer", "target"} => j.op = "launch"
  /\ l = "active" => j.active = None /\ ~ j.follow
  /\ l \in {"list", "asked"} => j.follow
  /\ l \in {"decide", "offer", "target"} => j.active \in Versions
  /\ l = "asked" /\ j.op = "launch" => j.active \in Versions
  /\ j.auto => j.op = "launch" /\ l \in {"download", "switch", "pin", "unpin"}
  /\ j.auto => j.active \in Versions /\ j.follow /\ j.ver > j.active
  /\ l \in {"download", "switch"} /\ Launches(j) /\ ~ j.follow => j.ver = j.active
  /\ l = "edit"  => j.config = Loaded(j.loaded)
  /\ l = "write" => j.set \in Keys /\ j.config = [Loaded(j.loaded) EXCEPT ![j.set] = j.config[j.set]]
  /\ c = None => j.loaded = None

\* ... while cur is selected and pn is the pin.
DecisionFits(l, j, cur, pn) ==
  ~ j.moved =>
    /\ l \in {"decide", "offer", "target", "asked", "download", "switch"} /\ Launches(j) => j.active = cur
    /\ l \in {"pin", "unpin"} /\ j.op = "launch" => j.ver = cur
    /\ l = "target" => pn # j.active
    /\ l \in {"download", "switch"} /\ j.auto => pn # cur

ProcsOK ==
  /\ pc \in [Procs -> PCs] /\ job \in [Procs -> Job]
  /\ \A p \in Procs : JobFits(pc[p], job[p], config) /\ DecisionFits(pc[p], job[p], current, pin)

LaunchInv == StoreOK /\ ProcsOK /\ PinIsChosen

-----------------------------------------------------------------------------
(* Settings and locals.                                                    *)

LEMMA NewestType ==
  ASSUME NEW S \in SUBSET Versions, S # {}
  PROVE  Newest(S) \in S
<1>1. \E v \in S : \A w \in S : w <= v
  BY NewestAssumption
<1> QED BY <1>1 DEF Newest

LEMMA DefaultsType == Defaults \in Config
<1>1. ASSUME NEW k \in Keys
      PROVE  Defaults[k] \in KeyValues(k) /\ Defaults[k] \in {"yes", "no"} \cup Policies \cup Values
  <2>1. CASE k = "check"
    BY <2>1 DEF Defaults, KeyValues
  <2>2. CASE k = "policy"
    BY <2>2 DEF Defaults, KeyValues, Policies
  <2>3. CASE k # "check" /\ k # "policy"
    BY <2>3, ConstantsAssumption DEF Defaults, KeyValues
  <2> QED BY <2>1, <2>2, <2>3
<1>2. Defaults = [k \in Keys |-> Defaults[k]]
  BY DEF Defaults
<1> QED BY <1>1, <1>2 DEF Config

LEMMA LoadedType == \A file \in Config \cup {None} : Loaded(file) \in Config
BY DefaultsType DEF Loaded

LEMMA EditType ==
  ASSUME NEW c \in Config, NEW k \in Keys, NEW v \in KeyValues(k)
  PROVE  /\ [c EXCEPT ![k] = v] \in Config
         /\ [c EXCEPT ![k] = v][k] = v
<1>1. v \in {"yes", "no"} \cup Policies \cup Values
  BY DEF KeyValues
<1> QED BY <1>1 DEF Config

LEMMA MergeType ==
  ASSUME NEW now \in Config, NEW base \in Config, NEW wanted \in Config, NEW set \in Keys
  PROVE  Merge(now, base, wanted, set) \in Config
BY DEF Merge, Config

\* A process that wants one setting changed changes that one.
LEMMA MergeChanges ==
  ASSUME NEW now \in Config, NEW base \in Config, NEW wanted \in Config, NEW set \in Keys,
         wanted = [base EXCEPT ![set] = wanted[set]]
  PROVE  Merge(now, base, wanted, set) = [now EXCEPT ![set] = wanted[set]]
<1>1. \A k \in Keys : k # set => wanted[k] = base[k]
  BY DEF Config
<1> QED BY <1>1 DEF Merge, Config

LEMMA NoJobType ==
  /\ NoJob \in Job /\ NoJob.op = None /\ NoJob.config = Defaults /\ NoJob.loaded = None
  /\ NoJob.set = None /\ NoJob.active = None /\ NoJob.ver = None
  /\ NoJob.auto = FALSE /\ NoJob.follow = FALSE /\ NoJob.moved = FALSE
BY DefaultsType DEF NoJob, Job, VersionOrNone

LEMMA BeginType ==
  ASSUME StoreOK, NEW o \in OpNames
  PROVE  LET j == Begin(o)
         IN  /\ j \in Job /\ j.op = o /\ j.set = None /\ j.active = None /\ j.ver = None
             /\ j.auto = FALSE /\ j.follow = FALSE /\ j.moved = FALSE
             /\ j.loaded = IF o = "settings" THEN config ELSE None
             /\ j.config = IF o \in {"launch", "settings"} THEN Loaded(config) ELSE Defaults
<1> DEFINE c == IF o \in {"launch", "settings"} THEN Loaded(config) ELSE Defaults
           f == IF o = "settings" THEN config ELSE None
<1>1. c \in Config /\ f \in Config \cup {None}
  BY LoadedType, DefaultsType DEF StoreOK
<1>2. Begin(o) = [NoJob EXCEPT !.op = o, !.config = c, !.loaded = f]
  BY DEF Begin
<1> HIDE DEF c, f
<1>3. LET j == Begin(o)
      IN  /\ j \in Job /\ j.op = o /\ j.set = None /\ j.active = None /\ j.ver = None
          /\ j.auto = FALSE /\ j.follow = FALSE /\ j.moved = FALSE
          /\ j.loaded = f /\ j.config = c
  BY <1>1, <1>2, NoJobType DEF Job
<1> QED BY <1>3 DEF c, f

LEMMA DecidedType ==
  ASSUME NEW p \in Procs, job[p] \in Job
  PROVE  LET j == Decided(p)
         IN  /\ j \in Job /\ j.op = job[p].op /\ j.config = Defaults /\ j.loaded = job[p].loaded
             /\ j.set = job[p].set /\ j.active = job[p].active /\ j.ver = job[p].ver
             /\ j.auto = job[p].auto /\ j.follow = job[p].follow /\ j.moved = job[p].moved
BY DefaultsType DEF Decided, Job, VersionOrNone

LEMMA AgainType ==
  ASSUME NEW p \in Procs, job[p] \in Job, NEW v \in Versions
  PROVE  LET j == Again(p, v)
         IN  /\ j \in Job /\ j.op = "launch" /\ j.loaded = None /\ j.active = v /\ j.ver = v
             /\ j.auto = FALSE /\ j.follow = FALSE /\ j.moved = job[p].moved
BY NoJobType DEF Again, Job, VersionOrNone, OpNames

-----------------------------------------------------------------------------
(* What a step does to the commands.                                       *)

\* A command moves to l with locals j, the others stay where they are.
Moves(p, l, j) ==
  /\ pc' \in [Procs -> PCs] /\ job' \in [Procs -> Job]
  /\ pc'[p] = l /\ job'[p] = j
  /\ \A q \in Procs \ {p} : pc'[q] = pc[q] /\ job'[q] = job[q]

\* ... and the launches among them hear of it.
MovesOn(p, l, j) ==
  /\ pc' \in [Procs -> PCs] /\ job' \in [Procs -> Job]
  /\ pc'[p] = l /\ job'[p] = j
  /\ \A q \in Procs \ {p} :
       /\ pc'[q] = pc[q]
       /\ job'[q].op = job[q].op /\ job'[q].config = job[q].config
       /\ job'[q].loaded = job[q].loaded /\ job'[q].set = job[q].set
       /\ job'[q].active = job[q].active /\ job'[q].ver = job[q].ver
       /\ job'[q].auto = job[q].auto /\ job'[q].follow = job[q].follow
       /\ job'[q].moved = (job[q].op = "launch")

LEMMA Move ==
  ASSUME ProcsOK, NEW p \in Procs, NEW l \in PCs, NEW j \in Job, Continue(p, l, j)
  PROVE  Moves(p, l, j)
BY DEF ProcsOK, Continue, Go, SetJob, Moves

LEMMA MovePc ==
  ASSUME ProcsOK, NEW p \in Procs, NEW l \in PCs, Go(p, l), UNCHANGED job
  PROVE  Moves(p, l, job[p])
BY DEF ProcsOK, Go, Moves

LEMMA MoveOthers ==
  ASSUME ProcsOK, NEW p \in Procs, NEW l \in PCs, NEW j \in Job, MoveOn(p, l, j)
  PROVE  MovesOn(p, l, j)
<1>1. pc' \in [Procs -> PCs] /\ pc'[p] = l /\ \A q \in Procs \ {p} : pc'[q] = pc[q]
  BY DEF ProcsOK, MoveOn, Go
<1>2. ASSUME NEW q \in Procs \ {p}
      PROVE  /\ job'[q] \in Job
             /\ job'[q].op = job[q].op /\ job'[q].config = job[q].config
             /\ job'[q].loaded = job[q].loaded /\ job'[q].set = job[q].set
             /\ job'[q].active = job[q].active /\ job'[q].ver = job[q].ver
             /\ job'[q].auto = job[q].auto /\ job'[q].follow = job[q].follow
             /\ job'[q].moved = (job[q].op = "launch")
  <2>1. job[q] \in Job
    BY DEF ProcsOK
  <2>2. job'[q] = [job[q] EXCEPT !.moved = (job[q].op = "launch")]
    BY DEF MoveOn
  <2> QED BY <2>1, <2>2 DEF Job
<1>3. job'[p] = j
  BY DEF MoveOn
<1>4. job' \in [Procs -> Job]
  <2>1. job' = [q \in Procs |-> job'[q]]
    BY DEF MoveOn
  <2> QED BY <1>2, <1>3, <2>1
<1> QED BY <1>1, <1>2, <1>3, <1>4 DEF MovesOn

LEMMA ProcsKept ==
  ASSUME ProcsOK, NEW p \in Procs, NEW l, NEW j, Moves(p, l, j),
         UNCHANGED <<current, pin>>, config' = config \/ config' # None,
         JobFits(l, j, config'), DecisionFits(l, j, current, pin)
  PROVE  ProcsOK'
<1>1. ASSUME NEW q \in Procs \ {p}
      PROVE  JobFits(pc'[q], job'[q], config') /\ DecisionFits(pc'[q], job'[q], current', pin')
  <2>1. JobFits(pc[q], job[q], config) /\ DecisionFits(pc[q], job[q], current, pin)
    BY DEF ProcsOK
  <2>2. JobFits(pc[q], job[q], config')
    BY <2>1 DEF JobFits
  <2> QED BY <2>1, <2>2 DEF Moves
<1> QED BY <1>1 DEF ProcsOK, Moves

LEMMA ProcsOvertaken ==
  ASSUME ProcsOK, NEW p \in Procs, NEW l, NEW j, MovesOn(p, l, j), UNCHANGED config,
         JobFits(l, j, config), DecisionFits(l, j, current', pin')
  PROVE  ProcsOK'
<1>1. ASSUME NEW q \in Procs \ {p}
      PROVE  JobFits(pc'[q], job'[q], config') /\ DecisionFits(pc'[q], job'[q], current', pin')
  <2>1. JobFits(pc[q], job[q], config)
    BY DEF ProcsOK
  <2>2. JobFits(pc'[q], job'[q], config')
    BY <2>1 DEF JobFits, MovesOn, Launches
  <2>3. DecisionFits(pc'[q], job'[q], current', pin')
    BY <2>1 DEF JobFits, DecisionFits, MovesOn, Launches
  <2> QED BY <2>2, <2>3
<1> QED BY <1>1 DEF ProcsOK, MovesOn

\* A command that ends holds nothing.
LEMMA FinishKeeps ==
  ASSUME ProcsOK, NEW p \in Procs, Finish(p),
         UNCHANGED <<current, pin>>, config' = config \/ config' # None
  PROVE  Moves(p, "idle", NoJob) /\ ProcsOK'
<1>1. Moves(p, "idle", NoJob)
  BY Move, NoJobType DEF Finish, PCs
<1>2. JobFits("idle", NoJob, config') /\ DecisionFits("idle", NoJob, current, pin)
  BY NoJobType DEF JobFits, DecisionFits, Launches
<1> QED BY <1>1, <1>2, ProcsKept

\* The pin is the chosen one while none is recorded or cleared.
LEMMA ChosenKept ==
  ASSUME PinIsChosen, NEW p \in Procs, NEW l, NEW j, Moves(p, l, j),
         pc[p] # "unpin", UNCHANGED <<pin, chosen, kept, killed>>
  PROVE  PinIsChosen'
BY DEF PinIsChosen, Moves

\* A step after which a command fits the point it has come to keeps the invariant.
LEMMA StepKeeps ==
  ASSUME LaunchInv, NEW p \in Procs, NEW l, NEW j, Moves(p, l, j), StoreOK',
         pc[p] # "unpin", UNCHANGED <<current, pin, chosen, kept, killed>>,
         config' = config \/ config' # None,
         JobFits(l, j, config'), DecisionFits(l, j, current, pin)
  PROVE  LaunchInv'
BY ProcsKept, ChosenKept DEF LaunchInv

LEMMA EndKeeps ==
  ASSUME LaunchInv, NEW p \in Procs, Finish(p), StoreOK',
         pc[p] # "unpin", UNCHANGED <<current, pin, chosen, kept, killed>>,
         config' = config \/ config' # None
  PROVE  LaunchInv'
BY FinishKeeps, ChosenKept DEF LaunchInv

\* A launch that goes on with the version it has ends, or installs it again.
LEMMA GoOnKeeps ==
  ASSUME LaunchInv, NEW p \in Procs, NEW v \in Versions, GoOn(p, v), StoreOK',
         ~ job[p].moved => v = current,
         pc[p] # "unpin", UNCHANGED <<current, pin, config, chosen, kept, killed>>
  PROVE  LaunchInv'
<1>1. CASE Finish(p)
  BY <1>1, EndKeeps
<1>2. CASE Continue(p, "download", Again(p, v))
  <2> DEFINE j == Again(p, v)
  <2>1. ProcsOK /\ job[p] \in Job
    BY DEF LaunchInv, ProcsOK
  <2>2. /\ j \in Job /\ j.op = "launch" /\ j.loaded = None /\ j.active = v /\ j.ver = v
        /\ j.auto = FALSE /\ j.follow = FALSE /\ j.moved = job[p].moved
    BY <2>1, AgainType
  <2>3. Continue(p, "download", j)
    BY <1>2
  <2> HIDE DEF j
  <2>4. Moves(p, "download", j)
    BY <2>1, <2>2, <2>3, Move DEF PCs
  <2>5. JobFits("download", j, config)
    BY <2>2 DEF JobFits, Launches
  <2>6. DecisionFits("download", j, current, pin)
    BY <2>2 DEF DecisionFits, Launches
  <2> QED BY <2>4, <2>5, <2>6, StepKeeps
<1> QED BY <1>1, <1>2 DEF GoOn

-----------------------------------------------------------------------------
(* A command starts.                                                       *)

LEMMA StoreSame ==
  ASSUME StoreOK, UNCHANGED <<known, store, records, config, chosen, kept, killed>>,
         ops' \in 0..MaxOps, mishaps' \in 0..MaxMishaps
  PROVE  StoreOK'
BY DEF StoreOK, store, records

LEMMA CountedType ==
  ASSUME StoreOK, NEW p \in Procs, NEW o \in OpNames, Counted(p, o) PROVE ops' \in 0..MaxOps
BY ConstantsAssumption DEF StoreOK, Counted

LEMMA StartKeeps ==
  ASSUME LaunchInv, NEW p \in Procs,
         Launch(p) \/ StartUse(p) \/ StartFollow(p) \/ StartSettings(p)
  PROVE  LaunchInv'
<1> USE DEF counters, history
<1>1. StoreOK /\ ProcsOK /\ None \notin OpNames
  BY ConstantsAssumption DEF LaunchInv
<1>2. {"active", "switch", "list", "edit"} \subseteq PCs
      /\ {"launch", "use", "latest", "update", "settings"} \subseteq OpNames
  BY DEF PCs, OpNames
<1>3. CASE Launch(p)
  <2> DEFINE j == Begin("launch")
  <2>1. /\ j \in Job /\ j.op = "launch" /\ j.auto = FALSE /\ j.loaded = None
        /\ j.active = None /\ j.follow = FALSE
    BY <1>1, <1>2, BeginType
  <2>2. StoreOK'
    BY <1>1, <1>3, StoreSame DEF Launch, StoreOK
  <2>3. Continue(p, "active", j) /\ pc[p] = "idle"
    BY <1>3 DEF Launch
  <2> HIDE DEF j
  <2>4. Moves(p, "active", j)
    BY <1>1, <1>2, <2>1, <2>3, Move
  <2>5. JobFits("active", j, config) /\ DecisionFits("active", j, current, pin)
    BY <2>1 DEF JobFits, DecisionFits, Launches
  <2> QED BY <1>3, <2>2, <2>3, <2>4, <2>5, StepKeeps DEF Launch, store
<1>4. CASE StartUse(p)
  <2>1. PICK v \in installed, follow \in BOOLEAN :
          Continue(p, "switch", [Begin("use") EXCEPT !.ver = v, !.follow = follow])
    BY <1>4 DEF StartUse
  <2> DEFINE b == Begin("use")
  <2>2. b \in Job /\ b.op = "use" /\ b.auto = FALSE /\ b.loaded = None
    BY <1>1, <1>2, BeginType
  <2>3. StoreOK'
    BY <1>1, <1>2, <1>4, CountedType, StoreSame DEF StartUse, StoreOK
  <2>4. v \in Versions
    BY <1>1 DEF StoreOK
  <2> HIDE DEF b
  <2> DEFINE j == [b EXCEPT !.ver = v, !.follow = follow]
  <2>5. j \in Job /\ j.op = "use" /\ j.auto = FALSE /\ j.loaded = None /\ j.ver = v
    BY <2>2, <2>4 DEF Job, VersionOrNone
  <2>6. Continue(p, "switch", j) /\ pc[p] = "idle"
    BY <1>4, <2>1 DEF StartUse, Counted, b
  <2> HIDE DEF j
  <2>7. Moves(p, "switch", j)
    BY <1>1, <1>2, <2>5, <2>6, Move
  <2>8. JobFits("switch", j, config) /\ DecisionFits("switch", j, current, pin)
    BY <2>4, <2>5 DEF JobFits, DecisionFits, Launches
  <2> QED BY <1>4, <2>3, <2>6, <2>7, <2>8, StepKeeps DEF StartUse, store
<1>5. CASE StartFollow(p)
  <2>1. PICK o \in {"latest", "update"} :
          /\ Counted(p, o)
          /\ Continue(p, "list", [Begin(o) EXCEPT !.active = Baseline, !.follow = TRUE])
    BY <1>5 DEF StartFollow
  <2> DEFINE b == Begin(o)
  <2>2. b \in Job /\ b.op = o /\ b.auto = FALSE /\ b.loaded = None
    BY <1>1, <1>2, BeginType
  <2>3. StoreOK'
    BY <1>1, <1>2, <1>5, <2>1, CountedType, StoreSame DEF StartFollow, StoreOK
  <2> HIDE DEF b
  <2>8. Baseline \in VersionOrNone
    BY <1>1, NewestType DEF StoreOK, Baseline, VersionOrNone
  <2> DEFINE j == [b EXCEPT !.active = Baseline, !.follow = TRUE]
  <2>4. j \in Job /\ j.op = o /\ j.auto = FALSE /\ j.loaded = None /\ j.follow
    BY <2>2, <2>8 DEF Job
  <2>5. Continue(p, "list", j) /\ pc[p] = "idle"
    BY <2>1 DEF Counted, b
  <2> HIDE DEF j
  <2>6. Moves(p, "list", j)
    BY <1>1, <1>2, <2>4, <2>5, Move
  <2>7. JobFits("list", j, config) /\ DecisionFits("list", j, current, pin)
    BY <2>4 DEF JobFits, DecisionFits, Launches
  <2> QED BY <1>5, <2>3, <2>5, <2>6, <2>7, StepKeeps DEF StartFollow, store
<1>6. CASE StartSettings(p)
  <2> DEFINE j == Begin("settings")
  <2>1. j \in Job /\ j.auto = FALSE /\ j.loaded = config /\ j.config = Loaded(config)
    BY <1>1, <1>2, BeginType
  <2>2. StoreOK'
    BY <1>1, <1>2, <1>6, CountedType, StoreSame DEF StartSettings, StoreOK
  <2>3. Continue(p, "edit", j) /\ pc[p] = "idle"
    BY <1>6 DEF StartSettings, Counted
  <2> HIDE DEF j
  <2>4. Moves(p, "edit", j)
    BY <1>1, <1>2, <2>1, <2>3, Move
  <2>5. JobFits("edit", j, config) /\ DecisionFits("edit", j, current, pin)
    BY <2>1 DEF JobFits, DecisionFits, Launches
  <2> QED BY <1>6, <2>2, <2>3, <2>4, <2>5, StepKeeps DEF StartSettings, store
<1> QED BY <1>3, <1>4, <1>5, <1>6

-----------------------------------------------------------------------------
(* config.json.                                                            *)

LEMMA EditKeeps ==
  ASSUME LaunchInv, NEW p \in Procs, Edit(p) PROVE LaunchInv'
<1> USE DEF counters, history
<1>1. StoreOK /\ ProcsOK /\ pc[p] = "edit" /\ job[p] \in Job /\ JobFits("edit", job[p], config)
  BY DEF LaunchInv, ProcsOK, Edit
<1>2. PICK k \in Keys : \E v \in KeyValues(k) :
        Continue(p, "write", [job[p] EXCEPT !.set = k, !.config = [@ EXCEPT ![k] = v]])
  BY DEF Edit
<1>11. PICK v \in KeyValues(k) :
         Continue(p, "write", [job[p] EXCEPT !.set = k, !.config = [@ EXCEPT ![k] = v]])
  BY <1>2
<1> DEFINE c == [job[p].config EXCEPT ![k] = v]
           j == [job[p] EXCEPT !.set = k, !.config = c]
<1>3. job[p].config \in Config /\ job[p].config = Loaded(job[p].loaded)
  BY <1>1 DEF Job, JobFits
<1>4. c \in Config /\ c[k] = v
  BY <1>3, EditType
<1>5. c = [Loaded(job[p].loaded) EXCEPT ![k] = c[k]]
  BY <1>3, <1>4
<1>6. Continue(p, "write", j)
  BY <1>1, <1>11
<1> HIDE DEF c
<1>7. j \in Job /\ j.set = k /\ j.config = c /\ j.loaded = job[p].loaded /\ j.auto = job[p].auto
  BY <1>1, <1>4 DEF Job
<1> HIDE DEF j
<1>8. Moves(p, "write", j)
  BY <1>1, <1>6, <1>7, Move DEF PCs
<1>9. JobFits("write", j, config) /\ DecisionFits("write", j, current, pin)
  BY <1>1, <1>5, <1>7 DEF JobFits, DecisionFits, Launches
<1>10. StoreOK' /\ UNCHANGED <<current, pin, config, chosen, kept, killed>>
  BY <1>1, StoreSame DEF Edit, StoreOK, store
<1> QED BY <1>1, <1>8, <1>9, <1>10, StepKeeps

\* What a save makes of config.json.
LEMMA SaveType ==
  ASSUME LaunchInv, NEW p \in Procs, SaveConfig(p)
  PROVE  /\ config' \in Config
         /\ Loaded(config') = [Loaded(config) EXCEPT ![job[p].set] = job[p].config[job[p].set]]
<1>1. /\ pc[p] = "write" /\ job[p] \in Job /\ config \in Config \cup {None}
      /\ JobFits("write", job[p], config)
  BY DEF LaunchInv, StoreOK, ProcsOK, SaveConfig
<1> DEFINE k == job[p].set
           wanted == job[p].config
           base == Loaded(job[p].loaded)
<1>2. k \in Keys /\ wanted = [base EXCEPT ![k] = wanted[k]] /\ wanted \in Config
      /\ base \in Config
  BY <1>1, LoadedType DEF JobFits, Job
<1>3. config' = IF config = None THEN wanted ELSE Merge(config, base, wanted, k)
  BY DEF SaveConfig
<1>4. None \notin Config
  BY ConstantsAssumption
<1>5. CASE config = None
  <2>1. base = Loaded(config)
    BY <1>1, <1>5 DEF JobFits
  <2> QED BY <1>2, <1>3, <1>4, <1>5, <2>1 DEF Loaded
<1>6. CASE config # None
  <2>1. config \in Config /\ Loaded(config) = config
    BY <1>1, <1>6 DEF Loaded
  <2> HIDE DEF k, wanted, base
  <2>2. config' = Merge(config, base, wanted, k) /\ config' \in Config
    BY <1>2, <1>3, <1>6, <2>1, MergeType
  <2>3. config' = [config EXCEPT ![k] = wanted[k]]
    BY <1>2, <2>1, <2>2, MergeChanges
  <2>4. Loaded(config') = [Loaded(config) EXCEPT ![k] = wanted[k]]
    BY <1>4, <2>1, <2>2, <2>3 DEF Loaded
  <2> QED BY <2>2, <2>4 DEF k, wanted
<1> QED BY <1>5, <1>6

LEMMA SaveKeeps ==
  ASSUME LaunchInv, NEW p \in Procs, SaveConfig(p) PROVE LaunchInv'
<1>1. config' \in Config /\ config' # None
  BY SaveType, ConstantsAssumption
<1>2. StoreOK'
  BY <1>1 DEF LaunchInv, StoreOK, SaveConfig, store, records, counters, history
<1> QED BY <1>1, <1>2, EndKeeps DEF SaveConfig, store, history

-----------------------------------------------------------------------------
(* A plain launch.                                                         *)

LEMMA ReadActiveKeeps ==
  ASSUME LaunchInv, NEW p \in Procs, ReadActive(p) PROVE LaunchInv'
<1> USE DEF counters, history
<1>1. /\ StoreOK /\ ProcsOK /\ pc[p] = "active" /\ job[p] \in Job
      /\ JobFits("active", job[p], config)
  BY DEF LaunchInv, ProcsOK, ReadActive
<1>2. StoreOK' /\ UNCHANGED <<current, pin, config, chosen, kept, killed>>
  BY <1>1, StoreSame DEF ReadActive, StoreOK, store
<1> DEFINE d == [job[p] EXCEPT !.moved = FALSE]
<1>3. /\ d \in Job /\ d.op = "launch" /\ d.auto = FALSE /\ d.loaded = job[p].loaded
      /\ d.active = None /\ d.follow = FALSE /\ d.moved = FALSE
  BY <1>1 DEF JobFits, Job
<1>4. CASE current # None /\ Continue(p, "decide", [d EXCEPT !.active = current])
  <2>1. current \in Versions
    BY <1>1, <1>4 DEF StoreOK, VersionOrNone
  <2> HIDE DEF d
  <2> DEFINE j == [d EXCEPT !.active = current]
  <2>2. j \in Job /\ j.op = "launch" /\ j.auto = FALSE /\ j.loaded = job[p].loaded /\ j.active = current
    BY <1>3, <2>1 DEF Job, VersionOrNone
  <2>3. Continue(p, "decide", j)
    BY <1>4
  <2> HIDE DEF j
  <2>4. Moves(p, "decide", j)
    BY <1>1, <2>2, <2>3, Move DEF PCs
  <2>5. JobFits("decide", j, config) /\ DecisionFits("decide", j, current, pin)
    BY <1>1, <2>1, <2>2 DEF JobFits, DecisionFits, Launches
  <2> QED BY <1>1, <1>2, <2>4, <2>5, StepKeeps
<1>5. CASE installed # {} /\ Continue(p, "switch", [d EXCEPT !.ver = Newest(installed), !.follow = TRUE])
  <2> DEFINE v == Newest(installed)
  <2>1. v \in Versions
    BY <1>1, <1>5, NewestType DEF StoreOK
  <2>2. Continue(p, "switch", [d EXCEPT !.ver = v, !.follow = TRUE])
    BY <1>5
  <2> HIDE DEF d, v
  <2> DEFINE j == [d EXCEPT !.ver = v, !.follow = TRUE]
  <2>3. /\ j \in Job /\ j.op = "launch" /\ j.auto = FALSE /\ j.loaded = job[p].loaded /\ j.ver = v
        /\ j.active = None /\ j.follow
    BY <1>3, <2>1 DEF Job, VersionOrNone
  <2>4. Continue(p, "switch", j)
    BY <2>2
  <2> HIDE DEF j
  <2>5. Moves(p, "switch", j)
    BY <1>1, <2>3, <2>4, Move DEF PCs
  <2>6. JobFits("switch", j, config) /\ DecisionFits("switch", j, current, pin)
    BY <1>1, <2>1, <2>3 DEF JobFits, DecisionFits, Launches
  <2> QED BY <1>1, <1>2, <2>5, <2>6, StepKeeps
<1>6. ASSUME NEW v \in Versions, Continue(p, "download", [d EXCEPT !.ver = v])
      PROVE  LaunchInv'
  <2> HIDE DEF d
  <2> DEFINE j == [d EXCEPT !.ver = v]
  <2>3. /\ j \in Job /\ j.op = "launch" /\ j.auto = FALSE /\ j.loaded = job[p].loaded /\ j.ver = v
        /\ j.active = None /\ j.follow = FALSE
    BY <1>3, <1>6 DEF Job, VersionOrNone
  <2>4. Continue(p, "download", j)
    BY <1>6
  <2> HIDE DEF j
  <2>5. Moves(p, "download", j)
    BY <1>1, <2>3, <2>4, Move DEF PCs
  <2>6. JobFits("download", j, config) /\ DecisionFits("download", j, current, pin)
    BY <1>1, <2>3 DEF JobFits, DecisionFits, Launches
  <2> QED BY <1>1, <1>2, <2>5, <2>6, StepKeeps
<1>7. CASE Continue(p, "list", [d EXCEPT !.follow = TRUE])
  <2> HIDE DEF d
  <2> DEFINE j == [d EXCEPT !.follow = TRUE]
  <2>2. /\ j \in Job /\ j.op = "launch" /\ j.auto = FALSE /\ j.loaded = job[p].loaded
        /\ j.follow
    BY <1>3 DEF Job
  <2>3. Continue(p, "list", j)
    BY <1>7
  <2> HIDE DEF j
  <2>4. Moves(p, "list", j)
    BY <1>1, <2>2, <2>3, Move DEF PCs
  <2>5. JobFits("list", j, config) /\ DecisionFits("list", j, current, pin)
    BY <1>1, <2>2 DEF JobFits, DecisionFits, Launches
  <2> QED BY <1>1, <1>2, <2>4, <2>5, StepKeeps
<1> QED BY <1>4, <1>5, <1>6, <1>7 DEF ReadActive

LEMMA DecideKeeps ==
  ASSUME LaunchInv, NEW p \in Procs, Decide(p) PROVE LaunchInv'
<1> USE DEF counters, history
<1>1. /\ StoreOK /\ ProcsOK /\ pc[p] = "decide" /\ job[p] \in Job
      /\ JobFits("decide", job[p], config) /\ DecisionFits("decide", job[p], current, pin)
  BY DEF LaunchInv, ProcsOK, Decide
<1>2. StoreOK' /\ UNCHANGED <<current, pin, config, chosen, kept, killed>>
  BY <1>1, StoreSame DEF Decide, StoreOK, store
<1> DEFINE policy == job[p].config["policy"]
<1>3. policy \in Policies
  <2>1. "policy" \in Keys /\ KeyValues("policy") = Policies
    BY DEF Keys, KeyValues
  <2> QED BY <1>1, <2>1 DEF Job, Config
<1>4. \/ GoOn(p, job[p].active)
      \/ Go(p, "offer") /\ UNCHANGED job
      \/ pin # job[p].active /\ Go(p, "target") /\ UNCHANGED job
  BY <1>3 DEF Decide, Policies
<1> HIDE DEF policy
<1>8. None \notin Versions /\ job[p].active \in Versions /\ (~ job[p].moved => job[p].active = current)
  BY <1>1, ConstantsAssumption DEF JobFits, DecisionFits, Launches
<1>5. CASE GoOn(p, job[p].active)
  BY <1>1, <1>2, <1>5, <1>8, GoOnKeeps
<1>6. CASE Go(p, "offer") /\ UNCHANGED job
  <2>1. Moves(p, "offer", job[p])
    BY <1>1, <1>6, MovePc DEF PCs
  <2>2. JobFits("offer", job[p], config) /\ DecisionFits("offer", job[p], current, pin)
    BY <1>1 DEF JobFits, DecisionFits, Launches
  <2> QED BY <1>1, <1>2, <2>1, <2>2, StepKeeps
<1>7. CASE pin # job[p].active /\ Go(p, "target") /\ UNCHANGED job
  <2>1. Moves(p, "target", job[p])
    BY <1>1, <1>7, MovePc DEF PCs
  <2>2. JobFits("target", job[p], config) /\ DecisionFits("target", job[p], current, pin)
    BY <1>1, <1>7 DEF JobFits, DecisionFits, Launches
  <2> QED BY <1>1, <1>2, <2>1, <2>2, StepKeeps
<1> QED BY <1>4, <1>5, <1>6, <1>7

LEMMA CheckedType == ASSUME StoreOK, NEW c PROVE Checked(c) \subseteq Versions
BY DEF StoreOK, Checked, VersionOrNone

LEMMA OfferKeeps ==
  ASSUME LaunchInv, NEW p \in Procs, Offer(p) PROVE LaunchInv'
<1> USE DEF counters, history
<1>1. /\ StoreOK /\ ProcsOK /\ pc[p] = "offer" /\ job[p] \in Job
      /\ JobFits("offer", job[p], config) /\ DecisionFits("offer", job[p], current, pin)
  BY DEF LaunchInv, ProcsOK, Offer
<1>2. Worth(p) \subseteq Versions
  BY <1>1, CheckedType DEF Worth
<1>3. snooze' \in VersionOrNone
  BY <1>1, <1>2 DEF Offer, StoreOK, VersionOrNone
<1>4. StoreOK' /\ UNCHANGED <<current, pin, config, chosen, kept, killed>>
  BY <1>1, <1>3 DEF Offer, StoreOK, store
<1>7. None \notin Versions /\ job[p].active \in Versions /\ (~ job[p].moved => job[p].active = current)
  BY <1>1, ConstantsAssumption DEF JobFits, DecisionFits, Launches
<1>5. CASE GoOn(p, job[p].active)
  BY <1>1, <1>4, <1>5, <1>7, GoOnKeeps
<1>6. ASSUME NEW v \in Versions, Continue(p, "asked", [Decided(p) EXCEPT !.ver = v, !.follow = TRUE])
      PROVE  LaunchInv'
  <2> DEFINE d == Decided(p)
  <2>1. /\ d \in Job /\ d.auto = FALSE /\ d.loaded = job[p].loaded
        /\ d.active = job[p].active /\ d.moved = job[p].moved
    BY <1>1, DecidedType DEF JobFits, Job
  <2>2. Continue(p, "asked", [d EXCEPT !.ver = v, !.follow = TRUE])
    BY <1>6
  <2> HIDE DEF d
  <2> DEFINE j == [d EXCEPT !.ver = v, !.follow = TRUE]
  <2>3. /\ j \in Job /\ j.auto = FALSE /\ j.loaded = job[p].loaded /\ j.ver = v
        /\ j.active = job[p].active /\ j.moved = job[p].moved /\ j.follow
    BY <2>1 DEF Job, VersionOrNone
  <2>4. Continue(p, "asked", j)
    BY <2>2
  <2> HIDE DEF j
  <2>5. Moves(p, "asked", j)
    BY <1>1, <2>3, <2>4, Move DEF PCs
  <2>6. JobFits("asked", j, config) /\ DecisionFits("asked", j, current, pin)
    BY <1>1, <1>7, <2>3 DEF JobFits, DecisionFits, Launches
  <2> QED BY <1>1, <1>4, <2>5, <2>6, StepKeeps
<1> QED BY <1>2, <1>5, <1>6 DEF Offer

LEMMA TargetKeeps ==
  ASSUME LaunchInv, NEW p \in Procs, Target(p) PROVE LaunchInv'
<1> USE DEF counters, history
<1>1. /\ StoreOK /\ ProcsOK /\ pc[p] = "target" /\ job[p] \in Job
      /\ JobFits("target", job[p], config) /\ DecisionFits("target", job[p], current, pin)
  BY DEF LaunchInv, ProcsOK, Target
<1>2. StoreOK' /\ UNCHANGED <<current, pin, config, chosen, kept, killed>>
  BY <1>1, StoreSame DEF Target, StoreOK, store
<1> DEFINE newer == {v \in Checked(job[p].config) \cup installed : v > job[p].active}
           v == Newest(newer)
           d == Decided(p)
<1>3. newer \subseteq Versions /\ \A w \in newer : w > job[p].active
  BY <1>1, CheckedType DEF StoreOK
<1>4. newer # {} => v \in Versions /\ v > job[p].active
  BY <1>3, NewestType
<1>5. \/ GoOn(p, job[p].active)
      \/ newer # {} /\ \E l \in {"switch", "download"} :
           Continue(p, l, [d EXCEPT !.ver = v, !.auto = TRUE, !.follow = TRUE])
  BY DEF Target
<1>6. /\ d \in Job /\ d.op = "launch" /\ d.loaded = job[p].loaded /\ d.moved = job[p].moved
      /\ d.active = job[p].active
  BY <1>1, DecidedType DEF JobFits
<1> HIDE DEF newer, v, d
<1>9. None \notin Versions /\ job[p].active \in Versions /\ (~ job[p].moved => job[p].active = current)
  BY <1>1, ConstantsAssumption DEF JobFits, DecisionFits, Launches
<1>7. CASE GoOn(p, job[p].active)
  BY <1>1, <1>2, <1>7, <1>9, GoOnKeeps
<1>8. ASSUME newer # {}, NEW l \in {"switch", "download"},
             Continue(p, l, [d EXCEPT !.ver = v, !.auto = TRUE, !.follow = TRUE])
      PROVE  LaunchInv'
  <2> DEFINE j == [d EXCEPT !.ver = v, !.auto = TRUE, !.follow = TRUE]
  <2>1. /\ j \in Job /\ j.op = "launch" /\ j.loaded = job[p].loaded /\ j.moved = job[p].moved /\ j.ver = v
        /\ j.active = job[p].active /\ j.follow
    BY <1>4, <1>6, <1>8 DEF Job, VersionOrNone
  <2>2. Continue(p, l, j)
    BY <1>8
  <2> HIDE DEF j
  <2>3. Moves(p, l, j)
    BY <1>1, <1>8, <2>1, <2>2, Move DEF PCs
  <2>4. JobFits(l, j, config)
    BY <1>1, <1>4, <1>8, <1>9, <2>1 DEF JobFits
  <2>5. DecisionFits(l, j, current, pin)
    BY <1>1, <1>4, <1>8, <1>9, <2>1 DEF DecisionFits, JobFits, Launches
  <2> QED BY <1>1, <1>2, <2>3, <2>4, <2>5, StepKeeps
<1> QED BY <1>5, <1>7, <1>8

-----------------------------------------------------------------------------
(* The commands that follow the latest release.                            *)

LEMMA ListedKeeps ==
  ASSUME LaunchInv, NEW p \in Procs, Listed(p) PROVE LaunchInv'
<1> USE DEF counters, history
<1>1. /\ StoreOK /\ ProcsOK /\ pc[p] = "list" /\ job[p] \in Job
      /\ JobFits("list", job[p], config)
  BY DEF LaunchInv, ProcsOK, Listed
<1>2. StoreOK' /\ UNCHANGED <<current, pin, config, chosen, kept, killed>>
  BY <1>1, StoreSame DEF Listed, StoreOK, store
<1>3. CASE Finish(p)
  BY <1>1, <1>2, <1>3, EndKeeps
<1>4. ASSUME NEW v \in Versions, NEW l \in {"asked", "download"},
             l = "asked" => job[p].op # "launch",
             Continue(p, l, [job[p] EXCEPT !.ver = v, !.active = None])
      PROVE  LaunchInv'
  <2> DEFINE j == [job[p] EXCEPT !.ver = v, !.active = None]
  <2>1. /\ j \in Job /\ j.auto = FALSE /\ j.loaded = job[p].loaded /\ j.ver = v
        /\ j.op = job[p].op /\ j.active = None /\ j.follow = job[p].follow
    BY <1>1, <1>4 DEF JobFits, Job, VersionOrNone
  <2>2. Continue(p, l, j)
    BY <1>4
  <2> HIDE DEF j
  <2>3. Moves(p, l, j)
    BY <1>1, <1>4, <2>1, <2>2, Move DEF PCs
  <2>4. JobFits(l, j, config) /\ DecisionFits(l, j, current, pin)
    BY <1>1, <1>4, <2>1 DEF JobFits, DecisionFits, Launches
  <2> QED BY <1>1, <1>2, <2>3, <2>4, StepKeeps
<1> QED BY <1>3, <1>4 DEF Listed

LEMMA ConsentKeeps ==
  ASSUME LaunchInv, NEW p \in Procs, Consent(p) PROVE LaunchInv'
<1> USE DEF counters, history
<1>1. /\ StoreOK /\ ProcsOK /\ pc[p] = "asked" /\ job[p] \in Job
      /\ JobFits("asked", job[p], config) /\ DecisionFits("asked", job[p], current, pin)
  BY DEF LaunchInv, ProcsOK, Consent
<1>2. StoreOK' /\ UNCHANGED <<current, pin, config, chosen, kept, killed>>
  BY <1>1, StoreSame DEF Consent, StoreOK, store
<1>3. Moves(p, "download", job[p])
  BY <1>1, MovePc DEF Consent, PCs
<1>4. JobFits("download", job[p], config) /\ DecisionFits("download", job[p], current, pin)
  BY <1>1 DEF JobFits, DecisionFits
<1> QED BY <1>1, <1>2, <1>3, <1>4, StepKeeps

LEMMA LaterKeeps ==
  ASSUME LaunchInv, NEW p \in Procs, Later(p) PROVE LaunchInv'
<1> USE DEF counters, history
<1>1. /\ StoreOK /\ ProcsOK /\ pc[p] = "asked"
      /\ JobFits("asked", job[p], config) /\ DecisionFits("asked", job[p], current, pin)
  BY DEF LaunchInv, ProcsOK, Later
<1>2. snooze' \in VersionOrNone
  BY <1>1 DEF Later, StoreOK, VersionOrNone, JobFits
<1>3. StoreOK' /\ UNCHANGED <<current, pin, config, chosen, kept, killed>>
  BY <1>1, <1>2 DEF Later, StoreOK, store
<1>4. CASE job[p].op = "launch"
  <2>1. None \notin Versions /\ job[p].active \in Versions /\ (~ job[p].moved => job[p].active = current)
    BY <1>1, <1>4, ConstantsAssumption DEF JobFits, DecisionFits, Launches
  <2>2. GoOn(p, job[p].active)
    BY <1>4 DEF Later
  <2> QED BY <1>1, <1>3, <2>1, <2>2, GoOnKeeps
<1>5. CASE job[p].op # "launch"
  BY <1>1, <1>3, <1>5, EndKeeps DEF Later
<1> QED BY <1>4, <1>5

-----------------------------------------------------------------------------
(* A version is installed and selected.                                    *)

LEMMA DownloadKeeps ==
  ASSUME LaunchInv, NEW p \in Procs, Download(p) PROVE LaunchInv'
<1> USE DEF counters, history
<1>1. /\ StoreOK /\ ProcsOK /\ pc[p] = "download" /\ job[p] \in Job
      /\ JobFits("download", job[p], config) /\ DecisionFits("download", job[p], current, pin)
  BY DEF LaunchInv, ProcsOK, Download
<1>2. installed' \subseteq Versions
  BY <1>1 DEF Download, StoreOK, JobFits
<1>3. StoreOK' /\ UNCHANGED <<current, pin, config, chosen, kept, killed>>
  BY <1>1, <1>2 DEF Download, StoreOK, records
<1>4. \/ Go(p, "switch") /\ UNCHANGED job
      \/ job[p].op = "latest" /\ Go(p, "unpin") /\ UNCHANGED job
  BY DEF Download
<1>5. ASSUME NEW l \in {"switch", "unpin"}, Go(p, l), UNCHANGED job,
             l = "unpin" => job[p].op = "latest"
      PROVE  LaunchInv'
  <2>1. Moves(p, l, job[p])
    BY <1>1, <1>5, MovePc DEF PCs
  <2>2. JobFits(l, job[p], config) /\ DecisionFits(l, job[p], current, pin)
    BY <1>1, <1>5 DEF JobFits, DecisionFits, Launches
  <2> QED BY <1>1, <1>3, <2>1, <2>2, StepKeeps
<1> QED BY <1>4, <1>5

\* An automatic update or an adoption that fails.
LEMMA UpdateFailsKeeps ==
  ASSUME LaunchInv, NEW p \in Procs, NEW l \in {"download", "switch"}, pc[p] = l,
         UpdateFails(p), UNCHANGED <<known, store, snooze, config, counters, history>>
  PROVE  LaunchInv'
<1> USE DEF counters, history
<1>1. /\ StoreOK /\ ProcsOK /\ job[p] \in Job
      /\ JobFits(l, job[p], config) /\ DecisionFits(l, job[p], current, pin)
  BY DEF LaunchInv, ProcsOK
<1>2. attempt' \in Attempt \cup {None}
  BY <1>1 DEF UpdateFails, StoreOK, Attempt, JobFits
<1>3. StoreOK' /\ UNCHANGED <<current, pin, config, chosen, kept, killed>>
  BY <1>1, <1>2 DEF StoreOK, store
<1>4. CASE job[p].auto
  <2>1. /\ None \notin Versions /\ job[p].active \in Versions
        /\ ~ job[p].moved => job[p].active = current
    BY <1>1, <1>4, ConstantsAssumption DEF JobFits, DecisionFits, Launches
  <2>2. GoOn(p, job[p].active)
    BY <1>1, <1>4 DEF UpdateFails, Adopts, JobFits
  <2> QED BY <1>1, <1>3, <2>1, <2>2, GoOnKeeps
<1>5. CASE ~ job[p].auto /\ Adopts(p)
  <2> DEFINE j == [job[p] EXCEPT !.ver = None, !.follow = TRUE]
  <2>1. j \in Job /\ j.auto = FALSE /\ j.loaded = job[p].loaded /\ j.follow
    BY <1>1, <1>5 DEF Job, VersionOrNone
  <2>2. Continue(p, "list", j)
    BY <1>5 DEF UpdateFails
  <2> HIDE DEF j
  <2>3. Moves(p, "list", j)
    BY <1>1, <2>1, <2>2, Move DEF PCs
  <2>4. JobFits("list", j, config) /\ DecisionFits("list", j, current, pin)
    BY <1>1, <2>1 DEF JobFits, DecisionFits
  <2> QED BY <1>1, <1>3, <2>3, <2>4, StepKeeps
<1>6. CASE ~ job[p].auto /\ ~ Adopts(p)
  BY <1>1, <1>3, <1>6, EndKeeps DEF UpdateFails
<1> QED BY <1>4, <1>5, <1>6

LEMMA FailKeeps ==
  ASSUME LaunchInv, NEW p \in Procs, DownloadFails(p) \/ SwitchFails(p) PROVE LaunchInv'
BY UpdateFailsKeeps DEF DownloadFails, SwitchFails

LEMMA SkipKeeps ==
  ASSUME LaunchInv, NEW p \in Procs, Skip(p) PROVE LaunchInv'
<1> USE DEF counters, history
<1>1. /\ StoreOK /\ ProcsOK /\ pc[p] = "download" /\ job[p].auto
      /\ JobFits("download", job[p], config) /\ DecisionFits("download", job[p], current, pin)
  BY DEF LaunchInv, ProcsOK, Skip
<1>2. StoreOK' /\ UNCHANGED <<current, pin, config, chosen, kept, killed>>
  BY <1>1, StoreSame DEF Skip, StoreOK, store
<1>3. /\ None \notin Versions /\ job[p].active \in Versions
      /\ ~ job[p].moved => job[p].active = current
  BY <1>1, ConstantsAssumption DEF JobFits, DecisionFits, Launches
<1> QED BY <1>1, <1>2, <1>3, GoOnKeeps DEF Skip

LEMMA SwitchKeeps ==
  ASSUME LaunchInv, NEW p \in Procs, Switch(p) PROVE LaunchInv'
<1> USE DEF counters, history
<1>1. /\ StoreOK /\ ProcsOK /\ pc[p] = "switch" /\ job[p] \in Job
      /\ JobFits("switch", job[p], config)
  BY DEF LaunchInv, ProcsOK, Switch
<1>2. StoreOK' /\ UNCHANGED <<pin, config, chosen, kept, killed>> /\ current' = job[p].ver
  BY <1>1 DEF Switch, StoreOK, VersionOrNone, JobFits, records
<1>3. MovesOn(p, "pin", job[p])
  BY <1>1, MoveOthers DEF Switch, PCs
<1>4. JobFits("pin", job[p], config) /\ DecisionFits("pin", job[p], current', pin')
  BY <1>1, <1>2 DEF JobFits, DecisionFits
<1>5. ProcsOK'
  BY <1>1, <1>2, <1>3, <1>4, ProcsOvertaken
<1>6. PinIsChosen'
  BY <1>1, <1>2, <1>3 DEF LaunchInv, PinIsChosen, MovesOn
<1> QED BY <1>2, <1>5, <1>6 DEF LaunchInv

\* What is recorded is chosen or a launch's own, or about to be cleared.
LEMMA WritePinKeeps ==
  ASSUME LaunchInv, NEW p \in Procs, WritePin(p) PROVE LaunchInv'
<1> USE DEF counters
<1>1. /\ StoreOK /\ ProcsOK /\ pc[p] = "pin" /\ job[p] \in Job
      /\ JobFits("pin", job[p], config) /\ DecisionFits("pin", job[p], current, pin)
  BY DEF LaunchInv, ProcsOK, WritePin
<1>2. pin' \in VersionOrNone /\ chosen' \in VersionOrNone /\ kept' \in VersionOrNone
  <2>1. job[p].ver \in Versions
    BY <1>1 DEF JobFits
  <2>2. pin' \in VersionOrNone
    BY <2>1 DEF WritePin, VersionOrNone
  <2>3. kept' \in {None, pin'}
    BY DEF WritePin
  <2> QED BY <1>1, <2>2, <2>3 DEF WritePin, StoreOK, VersionOrNone
<1>3. StoreOK' /\ UNCHANGED <<config, current>>
  BY <1>1, <1>2 DEF WritePin, StoreOK, records
<1>4. CASE job[p].op # "use" /\ job[p].follow
  <2>1. MovesOn(p, "unpin", job[p])
    BY <1>1, <1>4, MoveOthers DEF WritePin, PCs, Adopts
  <2>2. JobFits("unpin", job[p], config) /\ DecisionFits("unpin", job[p], current', pin')
    BY <1>1, <1>3 DEF JobFits, DecisionFits
  <2>3. ProcsOK'
    BY <1>1, <1>3, <2>1, <2>2, ProcsOvertaken
  <2> QED BY <1>3, <2>1, <2>3 DEF LaunchInv, PinIsChosen, MovesOn
<1>5. CASE ~ (job[p].op # "use" /\ job[p].follow) /\ Adopts(p)
  <2> DEFINE j == [job[p] EXCEPT !.ver = None]
  <2>1. /\ j \in Job /\ j.op = "launch" /\ j.auto = job[p].auto /\ j.loaded = job[p].loaded
        /\ j.active = None /\ j.follow = FALSE
    BY <1>1, <1>5 DEF Job, VersionOrNone, Adopts
  <2>2. MoveOn(p, "active", j)
    BY <1>5 DEF WritePin
  <2> HIDE DEF j
  <2>3. MovesOn(p, "active", j)
    BY <1>1, <2>1, <2>2, MoveOthers DEF PCs
  <2>4. JobFits("active", j, config) /\ DecisionFits("active", j, current', pin')
    BY <1>1, <1>5, <2>1, ConstantsAssumption DEF JobFits, DecisionFits, Launches, Adopts
  <2>5. ProcsOK'
    BY <1>1, <1>3, <2>3, <2>4, ProcsOvertaken
  <2>6. pin' \in {chosen', kept'}
    BY <1>5 DEF WritePin, Adopts
  <2> QED BY <1>3, <2>5, <2>6 DEF LaunchInv, PinIsChosen
<1>6. CASE ~ (job[p].op # "use" /\ job[p].follow) /\ ~ Adopts(p)
  <2>1. MovesOn(p, "idle", NoJob) /\ pin' \in {chosen', kept'}
    BY <1>1, <1>6, NoJobType, MoveOthers DEF WritePin, PCs
  <2>2. JobFits("idle", NoJob, config) /\ DecisionFits("idle", NoJob, current', pin')
    BY NoJobType DEF JobFits, DecisionFits
  <2>3. ProcsOK'
    BY <1>1, <1>3, <2>1, <2>2, ProcsOvertaken
  <2> QED BY <1>3, <2>1, <2>3 DEF LaunchInv, PinIsChosen
<1> QED BY <1>4, <1>5, <1>6

LEMMA ClearPinKeeps ==
  ASSUME LaunchInv, NEW p \in Procs, ClearPin(p) PROVE LaunchInv'
<1> USE DEF counters, history
<1>1. /\ StoreOK /\ ProcsOK /\ pc[p] = "unpin" /\ job[p] \in Job
      /\ JobFits("unpin", job[p], config) /\ DecisionFits("unpin", job[p], current, pin)
  BY DEF LaunchInv, ProcsOK, ClearPin
<1>2. StoreOK' /\ UNCHANGED <<config, current>> /\ pin' = None
  BY <1>1 DEF ClearPin, StoreOK, VersionOrNone
<1>3. job[p].ver \in Versions /\ None \notin Versions
  BY <1>1, ConstantsAssumption DEF JobFits
<1>4. ASSUME NEW l \in PCs, NEW j \in Job, MoveOn(p, l, j),
             JobFits(l, j, config), DecisionFits(l, j, current, None)
      PROVE  LaunchInv'
  <2>1. MovesOn(p, l, j)
    BY <1>1, <1>4, MoveOthers
  <2>2. ProcsOK'
    BY <1>1, <1>2, <1>4, <2>1, ProcsOvertaken
  <2>3. PinIsChosen'
    BY <1>2 DEF PinIsChosen
  <2> QED BY <1>2, <2>2, <2>3 DEF LaunchInv
<1>5. CASE job[p].op = "launch" /\ job[p].active = None
  <2> DEFINE j == [job[p] EXCEPT !.active = job[p].ver, !.ver = None, !.follow = FALSE]
  <2>1. /\ j \in Job /\ j.op = "launch" /\ j.active = job[p].ver /\ j.auto = job[p].auto
        /\ j.loaded = job[p].loaded /\ j.moved = job[p].moved
    BY <1>1, <1>3, <1>5 DEF Job, VersionOrNone
  <2>2. MoveOn(p, "decide", j)
    BY <1>5 DEF ClearPin
  <2> HIDE DEF j
  <2>3. JobFits("decide", j, config)
    BY <1>1, <1>3, <1>5, <2>1 DEF JobFits
  <2>4. DecisionFits("decide", j, current, None)
    BY <1>1, <1>3, <1>5, <2>1 DEF DecisionFits
  <2> QED BY <1>4, <2>1, <2>2, <2>3, <2>4 DEF PCs
<1>6. CASE job[p].op = "launch" /\ job[p].active # None /\ job[p].ver \notin installed
  <2> DEFINE j == Again(p, job[p].ver)
  <2>1. /\ j \in Job /\ j.op = "launch" /\ j.loaded = None /\ j.active = job[p].ver /\ j.ver = job[p].ver
        /\ j.auto = FALSE /\ j.follow = FALSE /\ j.moved = job[p].moved
    BY <1>1, <1>3, AgainType
  <2>2. MoveOn(p, "download", j)
    BY <1>6 DEF ClearPin
  <2> HIDE DEF j
  <2>3. JobFits("download", j, config)
    BY <1>3, <2>1 DEF JobFits
  <2>4. DecisionFits("download", j, current, None)
    BY <1>1, <1>6, <2>1 DEF DecisionFits
  <2> QED BY <1>4, <2>1, <2>2, <2>3, <2>4 DEF PCs
<1>7. CASE MoveOn(p, "idle", NoJob)
  <2>1. JobFits("idle", NoJob, config) /\ DecisionFits("idle", NoJob, current, None)
    BY NoJobType DEF JobFits, DecisionFits
  <2> QED BY <1>4, <1>7, <2>1, NoJobType DEF PCs
<1> QED BY <1>5, <1>6, <1>7 DEF ClearPin

-----------------------------------------------------------------------------
(* The caches, the clock, kills and losses.                                *)

LEMMA KillKeeps ==
  ASSUME LaunchInv, NEW p \in Procs, Kill(p) PROVE LaunchInv'
<1>1. StoreOK /\ ProcsOK
  BY DEF LaunchInv
<1>2. StoreOK' /\ UNCHANGED <<current, pin, config>> /\ killed' = TRUE
  BY <1>1, ConstantsAssumption DEF Kill, StoreOK, store, records
<1>3. ProcsOK'
  BY <1>1, <1>2, FinishKeeps DEF Kill
<1>4. PinIsChosen'
  BY <1>2 DEF PinIsChosen
<1> QED BY <1>2, <1>3, <1>4 DEF LaunchInv

LEMMA LosesKeeps ==
  ASSUME LaunchInv, NEW v \in Versions, Loses(v) PROVE LaunchInv'
<1> USE DEF history
<1>1. StoreOK /\ ProcsOK /\ PinIsChosen
  BY DEF LaunchInv
<1>2. StoreOK'
  BY <1>1, ConstantsAssumption DEF Loses, StoreOK, records
<1>3. ProcsOK' /\ PinIsChosen'
  BY <1>1 DEF Loses, ProcsOK, PinIsChosen
<1> QED BY <1>2, <1>3 DEF LaunchInv

LEMMA OutsideKeeps ==
  ASSUME LaunchInv, Learn \/ DelayEnds \/ SnoozeEnds \/ UNCHANGED vars PROVE LaunchInv'
<1> USE DEF counters, history
<1>1. StoreOK /\ ProcsOK /\ PinIsChosen
  BY DEF LaunchInv
<1>2. UNCHANGED <<pc, job, config, installed, current, pin, ops, mishaps, chosen, kept, killed>>
  BY DEF Learn, DelayEnds, SnoozeEnds, vars, store
<1>3. known' \in VersionOrNone
  BY <1>1 DEF Learn, DelayEnds, SnoozeEnds, vars, StoreOK
<1>4. snooze' \in VersionOrNone
  BY <1>1 DEF Learn, DelayEnds, SnoozeEnds, vars, records, StoreOK, VersionOrNone
<1>5. attempt' \in Attempt \cup {None}
  <2>1. CASE DelayEnds
    <3>1. attempt \in Attempt /\ attempt' = [attempt EXCEPT !.failed = "over"]
      BY <1>1, <2>1 DEF DelayEnds, StoreOK
    <3> QED BY <3>1 DEF Attempt
  <2>2. CASE UNCHANGED attempt
    BY <1>1, <2>2 DEF StoreOK
  <2> QED BY <2>1, <2>2 DEF Learn, SnoozeEnds, vars, records
<1>6. StoreOK'
  BY <1>1, <1>2, <1>3, <1>4, <1>5 DEF StoreOK
<1>7. ProcsOK' /\ PinIsChosen'
  BY <1>1, <1>2 DEF ProcsOK, PinIsChosen
<1> QED BY <1>6, <1>7 DEF LaunchInv

-----------------------------------------------------------------------------
(* The theorems.                                                           *)

LEMMA LaunchInit == Init => LaunchInv
<1> SUFFICES ASSUME Init PROVE LaunchInv
  OBVIOUS
<1>1. installed \subseteq Versions /\ config \in Config \cup {None}
  BY ConstantsAssumption DEF Init
<1>2. StoreOK
  <2>1. current \in VersionOrNone /\ pin \in VersionOrNone /\ chosen \in VersionOrNone /\ kept \in VersionOrNone
    BY <1>1 DEF Init, VersionOrNone
  <2>2. ops \in 0..MaxOps /\ mishaps \in 0..MaxMishaps
    BY ConstantsAssumption DEF Init
  <2>3. /\ known \in VersionOrNone /\ attempt = None /\ snooze = None /\ killed = FALSE
    BY DEF Init
  <2> QED BY <1>1, <2>1, <2>2, <2>3 DEF StoreOK, VersionOrNone
<1>3. JobFits("idle", NoJob, config) /\ DecisionFits("idle", NoJob, current, pin)
  BY NoJobType DEF JobFits, DecisionFits, Launches
<1>4. ProcsOK
  BY <1>3, NoJobType DEF Init, ProcsOK, PCs
<1>5. PinIsChosen
  BY DEF Init, PinIsChosen
<1> QED BY <1>2, <1>4, <1>5 DEF LaunchInv

LEMMA LaunchStep == LaunchInv /\ [Next]_vars => LaunchInv'
<1> SUFFICES ASSUME LaunchInv, [Next]_vars PROVE LaunchInv'
  OBVIOUS
<1>1. ASSUME NEW p \in Procs,
             Launch(p) \/ StartUse(p) \/ StartFollow(p) \/ StartSettings(p)
      PROVE  LaunchInv'
  BY <1>1, StartKeeps
<1>2. ASSUME NEW p \in Procs, Step(p) PROVE LaunchInv'
  <2>1. CASE Edit(p) \/ SaveConfig(p)
    BY <2>1, EditKeeps, SaveKeeps
  <2>2. CASE ReadActive(p) \/ Decide(p) \/ Offer(p) \/ Target(p)
    BY <2>2, ReadActiveKeeps, DecideKeeps, OfferKeeps, TargetKeeps
  <2>3. CASE Listed(p) \/ Consent(p) \/ Later(p)
    BY <2>3, ListedKeeps, ConsentKeeps, LaterKeeps
  <2>4. CASE Download(p) \/ DownloadFails(p) \/ Skip(p)
    BY <2>4, DownloadKeeps, FailKeeps, SkipKeeps
  <2>5. CASE Switch(p) \/ SwitchFails(p) \/ WritePin(p) \/ ClearPin(p)
    BY <2>5, SwitchKeeps, FailKeeps, WritePinKeeps, ClearPinKeeps
  <2> QED BY <1>2, <2>1, <2>2, <2>3, <2>4, <2>5 DEF Step
<1>3. ASSUME NEW p \in Procs, Kill(p) PROVE LaunchInv'
  BY <1>3, KillKeeps
<1>4. CASE Learn \/ DelayEnds \/ SnoozeEnds \/ UNCHANGED vars
  BY <1>4, OutsideKeeps
<1>5. ASSUME NEW v \in Versions, Loses(v) PROVE LaunchInv'
  BY <1>5, LosesKeeps
<1> QED BY <1>1, <1>2, <1>3, <1>4, <1>5 DEF Next

\* The selection, the pin, the records, config.json and the locals of every command
\* keep their types.
THEOREM LaunchTypeCorrect == Spec => []TypeOK
<1>1. LaunchInv => TypeOK
  BY DEF LaunchInv, StoreOK, ProcsOK, TypeOK
<1> QED BY <1>1, LaunchInit, LaunchStep, PTL DEF Spec

\* Until a command is killed, a pin was chosen with `use <version>` or written by a
\* launch that installed its version again or adopted one, but for the moment
\* between use_version and clear_pin of a command that follows the latest.
THEOREM PinIsChosenCorrect == Spec => []PinIsChosen
<1>1. LaunchInv => PinIsChosen
  BY DEF LaunchInv
<1> QED BY <1>1, LaunchInit, LaunchStep, PTL DEF Spec

\* An automatic update that nobody overtakes selects a newer version, and never
\* leaves the pinned one, and a launch that installs its version again keeps what is
\* selected: maybe_auto_update and run, from the read of `current` to the switch.
THEOREM PinRespectedCorrect == Spec => PinRespected
<1> DEFINE Kept ==
      \A p \in Procs :
        LET j == job[p] IN
        pc[p] = "switch" /\ pc'[p] = "pin" /\ j.op = "launch" /\ j.active # None /\ ~ j.moved
          => /\ j.auto => pin # current /\ j.ver > current
             /\ ~ j.follow => current' = current
<1>1. LaunchInv /\ [Next]_vars => Kept
  <2> SUFFICES ASSUME LaunchInv, [Next]_vars, NEW p \in Procs, pc[p] = "switch", pc'[p] = "pin",
                      job[p].op = "launch", job[p].active # None, ~ job[p].moved
               PROVE  /\ job[p].auto => pin # current /\ job[p].ver > current
                      /\ ~ job[p].follow => current' = current
    OBVIOUS
  <2>1. JobFits("switch", job[p], config) /\ DecisionFits("switch", job[p], current, pin)
    BY DEF LaunchInv, ProcsOK
  <2>2. current = job[p].active
    BY <2>1 DEF DecisionFits, Launches
  <2>3. job[p].auto => pin # current /\ job[p].ver > current
    BY <2>1, <2>2 DEF JobFits, DecisionFits
  <2>4. current' \in {current, job[p].ver}
    <3>1. current' = current \/ \E q \in Procs : Switch(q)
      BY DEF Next, Step, vars, store, counters, history, Launch, StartUse, StartFollow,
             StartSettings, Edit, SaveConfig, ReadActive, Decide, Offer, Target, Listed, Consent,
             Later, Download, DownloadFails, Skip, SwitchFails, WritePin, ClearPin, Kill, Learn,
             DelayEnds, SnoozeEnds, Loses
    <3>2. ASSUME NEW q \in Procs, Switch(q) PROVE q = p /\ current' = job[q].ver
      BY <3>2 DEF Switch, MoveOn, Go, LaunchInv, ProcsOK
    <3> QED BY <3>1, <3>2
  <2>5. ~ job[p].follow => job[p].ver = current
    BY <2>1, <2>2 DEF JobFits, Launches
  <2> QED BY <2>3, <2>4, <2>5
<1> QED BY <1>1, LaunchInit, LaunchStep, PTL DEF Spec, PinRespected

\* A save of config.json changes one setting, the one that its command set, however
\* many processes load and save the file in between: OvmConfig::save.
THEOREM SettingsKeptCorrect == Spec => SettingsKept
<1> DEFINE Kept ==
      config' # config =>
        \E p \in Procs :
          /\ pc[p] = "write" /\ pc'[p] = "idle"
          /\ Loaded(config') = [Loaded(config) EXCEPT ![job[p].set] = job[p].config[job[p].set]]
<1>1. LaunchInv /\ [Next]_vars => Kept
  <2> SUFFICES ASSUME LaunchInv, [Next]_vars, config' # config PROVE Kept
    OBVIOUS
  <2>1. PICK p \in Procs : SaveConfig(p)
    BY DEF Next, Step, vars, counters, history, Launch, StartUse, StartFollow, StartSettings,
           Edit, ReadActive, Decide, Offer, Target, Listed, Consent, Later, Download,
           DownloadFails, Skip, Switch, SwitchFails, WritePin, ClearPin, Kill, Learn, DelayEnds,
           SnoozeEnds, Loses
  <2>2. pc[p] = "write" /\ pc'[p] = "idle"
    BY <2>1 DEF SaveConfig, Finish, Continue, Go, LaunchInv, ProcsOK
  <2> QED BY <2>1, <2>2, SaveType
<1> QED BY <1>1, LaunchInit, LaunchStep, PTL DEF Spec, SettingsKept
=============================================================================

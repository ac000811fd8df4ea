----------------------------- MODULE ClaudeHome -----------------------------
(***************************************************************************)
(* What ovm does in the home of Claude Code: accounts side by side, each a  *)
(* folder with a `.claude.json` of its own; the launch that chooses one and *)
(* prepares it; the launcher at ~/.local/bin/claude; and the repair that    *)
(* takes the machine back from Claude's own updater.                       *)
(* Code: crates/ovm/src accounts.rs, commands/run.rs, commands/doctor.rs,   *)
(* commands/mod.rs and claude_install.rs.                                  *)
(*                                                                         *)
(* No file here has a lock.  Each is read, changed and replaced by a rename *)
(* by ovm, while sessions of Claude Code, which are external, write the     *)
(* same files.  A Claude is managed; what else lies in a home is left out.  *)
(***************************************************************************)
EXTENDS Naturals

CONSTANTS
  Procs,       \* terminals: an ovm, or the session it started
  Main,        \* the default home, ~/.claude and ~/.claude.json
  Accounts,    \* labels, each with its folder
  Providers,   \* accounts of a paid API, without usage limits
  Dirs,        \* directories that may be bound to an account
  Chains,      \* failover chains that are set: the place of a label, 0 for none
  Starts,      \* what the files may hold at the start
  MaxServer,   \* bound: versions of the MCP server somebody sets up
  MaxEdits,    \* bound: what sessions write and users install
  MaxCommands, \* bound: repairs and `ovm accounts` commands; launches have none
  MaxMishaps,  \* bound: commands that are killed or cannot read a file
  None

Homes == Accounts \cup {Main}

\* accounts.json.  A label that a chain repeats counts at its first place.
Registries ==
  [accounts : SUBSET Accounts, bound : [Dirs -> Accounts \cup {None}],
   default : Accounts \cup {None}, chain : [Accounts -> Nat]]

\* It names nobody who is not an account.
Closed(r) ==
  /\ \A d \in Dirs : r.bound[d] \in r.accounts \cup {None}
  /\ r.default \in r.accounts \cup {None}
  /\ \A a \in Accounts : r.chain[a] > 0 => a \in r.accounts

ASSUME ConstantsAssumption ==
  /\ Main \notin Accounts /\ None \notin Homes \cup Dirs
  /\ Providers \subseteq Accounts
  /\ Chains \subseteq [Accounts -> Nat]
  /\ \A c \in Chains, a, b \in Accounts : c[a] = c[b] /\ c[a] > 0 => a = b
  /\ [a \in Accounts |-> 0] \in Chains
  /\ {MaxServer, MaxEdits, MaxCommands, MaxMishaps} \subseteq Nat

VARIABLES
  registry,   \* accounts.json
  json,       \* the `.claude.json` of each home
  tree,       \* Claude's native install tree, ~/.local/share/claude, is there
  launcher,   \* ~/.local/bin/claude
  work,       \* control state and locals of each terminal
  edits, commands, mishaps,   \* counted against the bounds
  removed     \* history: a repair removed what the updater put there, for good

counters == <<edits, commands, mishaps>>
vars == <<registry, json, tree, launcher, work, counters, removed>>

\* A `.claude.json`: who is signed in, whether a project is trusted and on whose
\* word, the MCP server, and how Claude takes itself to be installed.
Docs == [login : Homes \cup {None}, trust : {None, "main", "own"},
         server : 0..MaxServer, method : {"native", "other"}]
\* The launcher: nothing, ovm's link, a foreign link, or a file.
Launchers == {"absent", "owned", "link", "file"}
Empty == [login |-> None, trust |-> None, server |-> 0, method |-> "other"]
ASSUME NoneAssumption == None \notin Docs \cup Registries \cup {"main", "own"}

ASSUME StartsAssumption ==
  \A s \in Starts : /\ s.registry \in Registries /\ Closed(s.registry)
                    /\ s.main \in Docs \cup {None}
                    /\ s.tree \in BOOLEAN /\ s.launcher \in Launchers

\* A missing file reads as an empty one.
Content(doc) == IF doc = None THEN Empty ELSE doc

\* Histories: `raced` and `blind`, what is about to be written comes from a file that
\* was written since, or of which nothing could be made; `sure`, nobody has installed
\* Claude since the repair began or turned the method; `late`, a session that began
\* when a repair had removed the install.
NoWork == [pc |-> "idle", home |-> Main, reg |-> None, doc |-> None, repairs |-> FALSE,
           raced |-> FALSE, blind |-> FALSE, sure |-> FALSE, native |-> FALSE, late |-> FALSE]

-----------------------------------------------------------------------------
(* Which account a launch uses.                                            *)

\* The usage of limits.json a launch may find, or that there is none: whether the
\* highest window is past the threshold, and how old the reading is, "old" being
\* more than two poll intervals.
Readings ==
  [Accounts -> [spent : BOOLEAN, age : {"new", "old", "untimed"}] \cup {None}] \cup {None}

\* judge_snapshot: the newest reading in the chain decides for all of them.
Trusted(r, usage) ==
  /\ usage # None
  /\ LET timed == {a \in Accounts : /\ r.chain[a] > 0 /\ usage[a] # None
                                    /\ usage[a].age # "untimed"}
     IN timed = {} \/ \E a \in timed : usage[a].age = "new"

Spent(r, usage) ==
  {a \in Accounts \ Providers : Trusted(r, usage) /\ usage[a] # None /\ usage[a].spent}

FirstOf(r, S) == CHOOSE a \in S : \A b \in S : r.chain[a] <= r.chain[b]

\* resolve_with_failover: the binding, else the first of the chain that is not
\* spent, else the first, else the default.
Bound(r, d) == IF d \in Dirs THEN r.bound[d] ELSE None

Walk(r, spent) ==
  LET chain == {a \in r.accounts : r.chain[a] > 0}
      left  == chain \ spent
  IN IF left # {} THEN FirstOf(r, left)
     ELSE IF chain # {} THEN FirstOf(r, chain) ELSE r.default

Resolved(r, d, spent) == IF Bound(r, d) # None THEN Bound(r, d) ELSE Walk(r, spent)

-----------------------------------------------------------------------------
(* Files that are read, changed and replaced.                              *)

\* (ServersReach: a mutant, which gives a folder only what it lacks.)
SeededOnce(main, own) ==
  [own EXCEPT !.server = IF @ = 0 THEN main.server ELSE @,
              !.trust  = IF @ = None THEN main.trust ELSE @]

\* seed_claude_json: MCP servers as the main file has them, trust where the
\* folder has none, and nothing else.
Seeded(main, own) ==
  [own EXCEPT !.server = IF main.server # 0 THEN main.server ELSE @,
              !.trust  = IF @ = None THEN main.trust ELSE @]

\* neutralize_config
Neutral(doc) == [doc EXCEPT !.method = "other"]

\* The file of h is written: whoever is about to replace it will lose that.
Overtaken(h) ==
  [q \in Procs |->
     IF work[q].pc \in {"write", "flip"} /\ work[q].home = h
       THEN [work[q] EXCEPT !.raced = TRUE] ELSE work[q]]

Becomes(p, w) == work' = [work EXCEPT ![p] = w]
Goes(p, l) == Becomes(p, [work[p] EXCEPT !.pc = l])

Init ==
  /\ \E s \in Starts :
       /\ registry = s.registry /\ tree = s.tree /\ launcher = s.launcher
       /\ json = [h \in Homes |-> IF h = Main THEN s.main ELSE None]
  /\ work = [p \in Procs |-> NoWork]
  /\ edits = 0 /\ commands = 0 /\ mishaps = 0 /\ removed = FALSE

-----------------------------------------------------------------------------
(* A launch.                                                               *)

\* `ovm run <label>`, or the account it resolves to.
Run(p, a) ==
  /\ work[p].pc = "idle" /\ a \in registry.accounts
  /\ Becomes(p, [NoWork EXCEPT !.pc = "seed", !.home = a])
  /\ UNCHANGED <<registry, json, tree, launcher, counters, removed>>

RunResolved(p) ==
  /\ work[p].pc = "idle"
  /\ \E d \in Dirs \cup {None}, spent \in {Spent(registry, usage) : usage \in Readings} :
       Resolved(registry, d, spent) # None /\ Run(p, Resolved(registry, d, spent))

\* A plain launch, also that of an `ovm run` which resolves to nobody: only a
\* binding is applied (apply_binding).
Launch(p) ==
  \E d \in Dirs \cup {None} :
    \/ Bound(registry, d) # None /\ Run(p, Bound(registry, d))
    \/ /\ work[p].pc = "idle" /\ Bound(registry, d) \notin registry.accounts
       /\ Goes(p, "look")
       /\ UNCHANGED <<registry, json, tree, launcher, counters, removed>>

\* Of an account that is being added, the registry is saved after its folder.
Prepared(w) == [w EXCEPT !.pc = IF w.reg = None THEN "look" ELSE "save",
                         !.doc = None, !.raced = FALSE, !.blind = FALSE]

\* What it makes of the two files as it has read them.
Seeds(p, main, own) ==
  LET h    == work[p].home
      next == Seeded(main, own)
  IN
  /\ work[p].pc = "seed"
  /\ Becomes(p, IF json[h] = next THEN Prepared(work[p])
                ELSE [work[p] EXCEPT !.pc = "write", !.doc = next,
                                     !.blind = own # Content(json[h])])

SeedRead(p) ==
  /\ Seeds(p, Content(json[Main]), Content(json[work[p].home]))
  /\ UNCHANGED <<registry, json, tree, launcher, counters, removed>>

\* A file it cannot read or parse, one half written too, it takes for an empty one.
SeedMisread(p) ==
  /\ mishaps < MaxMishaps
  /\ \E main \in {Content(json[Main]), Empty}, own \in {Content(json[work[p].home]), Empty} :
       Seeds(p, main, own)
  /\ mishaps' = mishaps + 1
  /\ UNCHANGED <<registry, json, tree, launcher, edits, commands, removed>>

SeedWrite(p) ==
  /\ work[p].pc = "write"
  /\ json' = [json EXCEPT ![work[p].home] = work[p].doc]
  /\ work' = [Overtaken(work[p].home) EXCEPT ![p] = Prepared(work[p])]
  /\ UNCHANGED <<registry, tree, launcher, counters, removed>>

\* ensure_owned_launcher: a real file is left alone.
Look(p) ==
  /\ work[p].pc = "look"
  /\ Goes(p, IF launcher \in {"absent", "link"} THEN "unlink" ELSE "start")
  /\ UNCHANGED <<registry, json, tree, launcher, counters, removed>>

\* link_launcher, for a launch and for the repair.
Unlink(p) ==
  /\ work[p].pc = "unlink"
  /\ launcher' = "absent" /\ Goes(p, "link")
  /\ UNCHANGED <<registry, json, tree, counters, removed>>

\* Where something lies by now the call fails, which a launch does not mind.
Link(p) ==
  /\ work[p].pc = "link"
  /\ launcher' = IF launcher = "absent" THEN "owned" ELSE launcher
  /\ IF work[p].repairs THEN Becomes(p, NoWork) ELSE Goes(p, "start")
  /\ UNCHANGED <<registry, json, tree, counters, removed>>

\* `ovm use claude` ends here, and so does a launch that cannot start Claude.
Leave(p) ==
  /\ work[p].pc = "start" /\ Becomes(p, NoWork)
  /\ UNCHANGED <<registry, json, tree, launcher, counters, removed>>

-----------------------------------------------------------------------------
(* Sessions of Claude Code, and what users do without ovm.                 *)

Armed == Content(json[Main]).method = "native"

\* A session reads at its start how Claude is installed; ovm takes the main file
\* for that, whichever home the session has.
Start(p) ==
  /\ work[p].pc = "start"
  /\ Becomes(p, [work[p] EXCEPT !.pc = "session", !.native = Armed, !.late = removed])
  /\ UNCHANGED <<registry, json, tree, launcher, counters, removed>>

\* It writes the file of its home: a login or logout, trust in a project, a server.
SessionWrites(p) ==
  LET h   == work[p].home
      doc == Content(json[h])
  IN
  /\ work[p].pc = "session" /\ edits < MaxEdits
  /\ \E next \in {[doc EXCEPT !.login = IF @ = None THEN h ELSE None],
                  [doc EXCEPT !.trust = IF h = Main THEN "main" ELSE "own"]}
                 \cup {[doc EXCEPT !.server = s] : s \in 1..MaxServer} :
       next # json[h] /\ json' = [json EXCEPT ![h] = next]
  /\ work' = Overtaken(h) /\ edits' = edits + 1
  /\ UNCHANGED <<registry, tree, launcher, commands, mishaps, removed>>

\* The native updater: it installs a version and points the launcher at it.
Reclaim(p) ==
  /\ work[p].pc = "session" /\ work[p].native
  /\ ~ tree \/ launcher # "link"
  /\ tree' = TRUE /\ launcher' = "link"
  /\ UNCHANGED <<registry, json, work, counters, removed>>

SessionEnds(p) ==
  /\ work[p].pc = "session" /\ Becomes(p, NoWork)
  /\ UNCHANGED <<registry, json, tree, launcher, counters, removed>>

\* `claude install`: somebody wants the native install back.
Reinstall ==
  /\ edits < MaxEdits
  /\ json' = [json EXCEPT ![Main] = [Content(@) EXCEPT !.method = "native"]]
  /\ tree' = TRUE /\ launcher' \in {"link", "file"}
  /\ work' = [q \in Procs |-> [Overtaken(Main)[q] EXCEPT !.sure = FALSE]]
  /\ edits' = edits + 1 /\ removed' = FALSE
  /\ UNCHANGED <<registry, commands, mishaps>>

-----------------------------------------------------------------------------
(* `ovm doctor claude --fix`: the method first, then the tree, then the    *)
(* launcher.                                                               *)

Clean == ~ Armed /\ ~ tree /\ launcher = "owned"

\* (StaysRemoved: a mutant, which removes the tree before it turns the method.)
FixTreeFirst(p) ==
  /\ work[p].pc = "idle" /\ commands < MaxCommands /\ ~ Clean
  /\ Becomes(p, [NoWork EXCEPT !.pc = IF json[Main] = None THEN "fix" ELSE "read",
                               !.repairs = TRUE])
  /\ tree' = FALSE /\ removed' = TRUE
  /\ commands' = commands + 1
  /\ UNCHANGED <<registry, json, launcher, edits, mishaps>>

FixStart(p) ==
  /\ work[p].pc = "idle" /\ commands < MaxCommands /\ ~ Clean
  /\ Becomes(p, [NoWork EXCEPT !.pc = IF json[Main] = None THEN "remove" ELSE "read",
                               !.repairs = TRUE, !.sure = TRUE])
  /\ commands' = commands + 1
  /\ UNCHANGED <<registry, json, tree, launcher, edits, mishaps, removed>>

\* It also turns automatic updates off, where they are on.
FixRead(p) ==
  /\ work[p].pc = "read"
  /\ \/ Becomes(p, [work[p] EXCEPT !.pc = "compare", !.doc = json[Main]])
     \/ ~ Armed /\ Becomes(p, [work[p] EXCEPT !.pc = "remove", !.sure = TRUE])
  /\ UNCHANGED <<registry, json, tree, launcher, counters, removed>>

\* (WordsKept: a mutant, which trusts what it read.)
CompareNothing(p) ==
  /\ work[p].pc = "compare" /\ Goes(p, "flip")
  /\ UNCHANGED <<registry, json, tree, launcher, counters, removed>>

\* The file is read again, and the repair given up if it has changed.
Compare(p) ==
  /\ work[p].pc = "compare"
  /\ IF json[Main] = work[p].doc THEN Goes(p, "flip") ELSE Becomes(p, NoWork)
  /\ UNCHANGED <<registry, json, tree, launcher, counters, removed>>

Flip(p) ==
  /\ work[p].pc = "flip"
  /\ json' = [json EXCEPT ![Main] = Neutral(work[p].doc)]
  /\ work' = [Overtaken(Main) EXCEPT ![p] = [work[p] EXCEPT !.pc = "remove", !.doc = None,
                                                            !.raced = FALSE, !.sure = TRUE]]
  /\ UNCHANGED <<registry, tree, launcher, counters, removed>>

RemoveTree(p) ==
  /\ work[p].pc = "remove"
  /\ tree' = FALSE /\ removed' = (removed \/ work[p].sure)
  /\ Becomes(p, [work[p] EXCEPT !.pc = "fix", !.sure = FALSE])
  /\ UNCHANGED <<registry, json, launcher, counters>>

FixLauncher(p) ==
  /\ work[p].pc = "fix"
  /\ CASE launcher = "owned"  -> Becomes(p, NoWork)
       [] launcher = "absent" -> Goes(p, "unlink")
       [] OTHER               -> Goes(p, "clear")
  /\ UNCHANGED <<registry, json, tree, launcher, counters, removed>>

\* A foreign launcher goes, a file too: the user asked for it.
ClearLauncher(p) ==
  /\ work[p].pc = "clear"
  /\ launcher' = "absent"
  /\ IF launcher = "absent" THEN Becomes(p, NoWork) ELSE Goes(p, "unlink")
  /\ UNCHANGED <<registry, json, tree, counters, removed>>

-----------------------------------------------------------------------------
(* `ovm accounts`: the file is loaded, changed and saved whole.            *)

Without(r, a) ==
  [accounts |-> r.accounts \ {a},
   bound    |-> [d \in Dirs |-> IF r.bound[d] = a THEN None ELSE r.bound[d]],
   default  |-> IF r.default = a THEN None ELSE r.default,
   chain    |-> [r.chain EXCEPT ![a] = 0]]

Add(p, a) ==
  /\ work[p].pc = "idle" /\ commands < MaxCommands
  /\ Becomes(p, [NoWork EXCEPT !.pc = "seed", !.home = a,
                               !.reg = [registry EXCEPT !.accounts = @ \cup {a}]])
  /\ commands' = commands + 1
  /\ UNCHANGED <<registry, json, tree, launcher, edits, mishaps, removed>>

\* remove, bind, unbind, default, failover, and threshold, which is not among
\* what a registry is here.
Edited(r) ==
  {Without(r, a) : a \in r.accounts}
  \cup {[r EXCEPT !.bound[d] = a] : d \in Dirs, a \in r.accounts}
  \cup {[r EXCEPT !.bound[d] = None] : d \in {d \in Dirs : r.bound[d] # None}}
  \cup {[r EXCEPT !.default = a] : a \in r.accounts \cup {None}}
  \cup {[r EXCEPT !.chain = c] :
           c \in {c \in Chains : \A a \in Accounts : c[a] > 0 => a \in r.accounts}}

Edit(p) ==
  /\ work[p].pc = "idle" /\ commands < MaxCommands
  /\ \E r \in Edited(registry) : Becomes(p, [NoWork EXCEPT !.pc = "save", !.reg = r])
  /\ commands' = commands + 1
  /\ UNCHANGED <<registry, json, tree, launcher, edits, mishaps, removed>>

Save(p) ==
  /\ work[p].pc = "save"
  /\ registry' = work[p].reg /\ Becomes(p, NoWork)
  /\ UNCHANGED <<json, tree, launcher, counters, removed>>

-----------------------------------------------------------------------------
\* A command is killed; or a repair cannot read or parse the main file, which it
\* then leaves as it is.
Kill(p) ==
  /\ work[p].pc \notin {"idle", "session"} /\ mishaps < MaxMishaps
  /\ Becomes(p, NoWork) /\ mishaps' = mishaps + 1
  /\ UNCHANGED <<registry, json, tree, launcher, edits, commands, removed>>

\* A command that has begun goes on, and a session ends some day.
Step(p) ==
  \/ SeedRead(p) \/ SeedWrite(p) \/ Look(p) \/ Unlink(p) \/ Link(p)
  \/ Start(p) \/ Leave(p) \/ SessionEnds(p)
  \/ FixRead(p) \/ Compare(p) \/ Flip(p) \/ RemoveTree(p) \/ FixLauncher(p)
  \/ ClearLauncher(p)
  \/ Save(p)

Next ==
  \/ \E p \in Procs :
       \/ Step(p) \/ Kill(p)
       \/ \E a \in Accounts : Run(p, a) \/ Add(p, a)
       \/ RunResolved(p) \/ Launch(p) \/ SeedMisread(p) \/ FixStart(p) \/ Edit(p)
       \/ SessionWrites(p) \/ Reclaim(p)
  \/ Reinstall

Spec == Init /\ [][Next]_vars

\* Somebody runs each account again and again.
FairSpec ==
  /\ Spec
  /\ \A p \in Procs : WF_vars(Step(p))
  /\ \A a \in Accounts : SF_vars(\E p \in Procs : Run(p, a))

-----------------------------------------------------------------------------
(* Properties.                                                             *)

\* Types; whatever is or will be saved of the accounts names accounts only, so
\* that no launch stops at a label that is nobody's; and a folder is prepared,
\* never the default home.
TypeOK ==
  /\ registry \in Registries /\ Closed(registry)
  /\ json \in [Homes -> Docs \cup {None}]
  /\ tree \in BOOLEAN /\ launcher \in Launchers
  /\ work \in [Procs ->
       [pc : {"idle", "seed", "write", "look", "unlink", "link", "start", "session",
              "read", "compare", "flip", "remove", "fix", "clear", "save"},
        home : Homes, reg : {r \in Registries : Closed(r)} \cup {None}, doc : Docs \cup {None},
        repairs : BOOLEAN, raced : BOOLEAN, blind : BOOLEAN, sure : BOOLEAN,
        native : BOOLEAN, late : BOOLEAN]]
  /\ \A p \in Procs :
       /\ work[p].pc \in {"seed", "write"} => work[p].home \in Accounts
       /\ work[p].pc \in {"write", "compare", "flip"} => work[p].doc # None
       /\ work[p].pc \in {"read", "compare", "flip", "remove", "fix"} => work[p].home = Main
       /\ work[p].pc = "save" => work[p].reg # None
  /\ edits \in 0..MaxEdits /\ commands \in 0..MaxCommands /\ mishaps \in 0..MaxMishaps
  /\ removed \in BOOLEAN

\* What ovm writes into a `.claude.json` takes no login away and gives none, and
\* leaves what a session has learnt of a project, whichever sessions run and in
\* whichever home, unless one wrote the file after ovm's last look at it: before a
\* repair that is the instant after the comparison.  Only a launch also replaces a
\* file that is there and of which it could make nothing at that look, login and
\* all (seed_claude_json "keeping everything the folder already has"; neutralize_config
\* leaves such a file, and does "bail rather than overwrite newer state").
WordsKept ==
  [][\A p \in Procs, h \in Homes :
       /\ work[p].pc \in {"write", "flip"} /\ work'[p].pc # work[p].pc
       /\ ~ work[p].raced /\ ~ (work[p].pc = "write" /\ work[p].blind)
       =>
         LET was == Content(json[h])
             is  == Content(json'[h])
         IN /\ is.login = was.login
            /\ was.trust # None => is.trust = was.trust
            /\ h = Main => is.server = was.server]_vars

\* What a repair has removed comes back through no session that starts after the
\* removal, however sessions, launches and repairs overlap, until somebody installs it again
\* (ClaudeHygiene::apply, "flip the install method first").
StaysRemoved ==
  \A p \in Procs : work[p].pc = "session" /\ work[p].late => ~ work[p].native

\* The MCP server of the main setup is, again and again, that of every account
\* that is launched again and again (accounts.rs, "a server added to the main
\* setup reaches every account"), also past launches that were killed or wrote an
\* older one, and whatever the account had.
ServersReach ==
  \A a \in Accounts :
    <>[](a \in registry.accounts)
      => []<>(Content(json[Main]).server \in {0, Content(json[a]).server})
=============================================================================

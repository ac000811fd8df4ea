--------------------------- MODULE MCInstallStore ---------------------------
(* Instances of InstallStore for TLC: the constants of the .cfg files.     *)
EXTENDS InstallStore, TLC

CONSTANTS u, p1, p2, p3, v1, v2, native, npm, release

\* Claude installs a native binary with its manifest, or an npm tree that
\* never had metadata; Codex a release whose meta.json comes last.
MCPayload ==
  [s \in Variants |-> CASE s = native  -> {"binary", "meta"}
                        [] s = npm     -> {"binary", "rest"}
                        [] s = release -> {"binary", "rest", "meta"}]

NoHooks == [x \in HookPoints \X Versions |-> {}]

\* A pre- or post-install script that installs the version being installed, and
\* for v1 also v2.  No script of a removal installs anything.
InstallHooks ==
  [x \in HookPoints \X Versions |->
     IF x[1] \in {"i_pre", "i_post"} THEN IF x[2] = v1 THEN {v1, v2} ELSE {v2}
     ELSE {}]

\* Installers and readers only.
InstallAndUse == [p \in Procs |-> {"install", "use"}]

\* A single terminal runs one command after the other.
Everything == [p \in Procs |-> OpNames]

\* One terminal switches and leaves the product, the others install.
LeaveOrInstall ==
  [p \in Procs |-> IF p = u THEN {"use", "uninstallAll"} ELSE {"install"}]

OneVersionOld == {<<v1, s>> : s \in Variants}

OldNpm == {<<v1, npm>>}

Symmetric == Permutations({p1, p2})
=============================================================================

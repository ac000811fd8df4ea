------------------------------ MODULE MCLimits ------------------------------
(* Instances of Limits for TLC: the constants of the .cfg files.           *)
EXTENDS Limits, TLC

CONSTANTS polled, liveOnly

\* Two editors are alike.
EditorSymmetry == Permutations(Editors)

EveryEdit == EditNames

Entry(p, l) == [a \in Accounts |-> IF a = polled THEN p ELSE l]
\* Both registered, the live-only one in config.json as an older release left it;
\* or the one paused and the other gone.
MCStarts == {[config |-> Entry("on", "on"), live |-> Entry("none", "none")],
             [config |-> Entry("paused", "none"), live |-> Entry("none", "none")]}
=============================================================================

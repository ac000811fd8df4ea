---------------------------- MODULE MCSelfUpdate ----------------------------
(* Instances of SelfUpdate for TLC: the constants of the .cfg files.       *)
EXTENDS SelfUpdate, TLC

CONSTANTS p1, p2, dev, tool, extra

\* Release 1 has one side binary, release 2 two, the others none.
MCSide == [v \in Versions |-> CASE v = 1 -> {tool}
                                [] v = 2 -> {tool, extra}
                                [] OTHER -> {}]

Everything == [p \in Procs |-> OpNames]

\* Two terminals update, one of them from a feed that is behind.
OnlyUpdates == [p \in Procs |-> {"update"}]

Symmetric == Permutations({p1, p2})
=============================================================================

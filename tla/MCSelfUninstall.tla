-------------------------- MODULE MCSelfUninstall --------------------------
(* Instances of SelfUninstall for TLC: the constants of the .cfg files.    *)
EXTENDS SelfUninstall, TLC

CONSTANTS p1, p2, link, zshrc, o1, o2, o3, o4, o5, o6, a1, a2

\* Installed, or what an uninstall that failed in part has left.
Installed == [path \in Paths |-> CASE path = link -> o1 [] path = "ovm" -> o2
                                   [] path = "self" -> o3 [] path = "base" -> o4]
MCStarts == {Installed, [Installed EXCEPT !["self"] = None]}
MCLayouts == {{}, {"ovm"}}
MCUnreadable == {{}, {"ovm"}}

Symmetric == Permutations({p1, p2}) \cup Permutations({o5, o6})
=============================================================================

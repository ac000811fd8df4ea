--------------------------- MODULE MCProxySession ---------------------------
(* Instances of ProxySession for TLC: the constants of the .cfg files.     *)
EXTENDS ProxySession, TLC

CONSTANTS p1, p2

Everything == [p \in Procs |-> OpNames]

\* Nothing, what an older ovm staged by itself, and what a user staged.
MCStaged == {None} \cup {[ver |-> 3, auto |-> TRUE, vouched |-> FALSE]}
                   \cup [ver : {2, 3}, auto : {FALSE}, vouched : {TRUE}]

MCConfigs == {[pin |-> None, auto |-> TRUE], [pin |-> None, auto |-> FALSE],
              [pin |-> 3, auto |-> TRUE]}

Symmetric == Permutations({p1, p2})
=============================================================================

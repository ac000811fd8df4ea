---------------------------- MODULE MCClaudeHome ----------------------------
(* Instances of ClaudeHome for TLC: the constants of the .cfg file.        *)
EXTENDS ClaudeHome

CONSTANTS p1, p2, a, b, dir

Chain(x, y) == [l \in Accounts |-> IF l = a THEN x ELSE y]
MCChains == {Chain(0, 0), Chain(2, 1)}

One  == [accounts |-> {a}, bound |-> [d \in Dirs |-> None], default |-> a, chain |-> Chain(1, 0)]
Both == [accounts |-> {a, b}, bound |-> [d \in Dirs |-> a], default |-> None, chain |-> Chain(1, 2)]

\* An account beside a native install; or two, and ovm's launcher, before
\* Claude ever ran.
MCStarts ==
  {[registry |-> One, main |-> [Empty EXCEPT !.method = "native", !.server = 1],
    tree |-> TRUE, launcher |-> "file"],
   [registry |-> Both, main |-> None, tree |-> FALSE, launcher |-> "owned"]}
=============================================================================

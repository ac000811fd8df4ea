---------------------------- MODULE MCCodexSkew ----------------------------
(* An instance of CodexSkew for TLC.                                       *)
EXTENDS CodexSkew, TLC

CONSTANTS v1, v2, v3

\* v1 was built with one migration, and its text holds the description of the
\* breaking third one; v2 stops just before that; v3 knows what the compiled
\* manifest does not.
MCHistory == (v1 :> 1) @@ (v2 :> 2) @@ (v3 :> 5)
MCWords == (v1 :> {3}) @@ (v2 :> {3}) @@ (v3 :> {})
MCBreaking == {3, 5}

Run(n, v, verdict, r) == [db |-> n, ver |-> v, verdict |-> verdict, run |-> r]

\* A first document; one that goes on from it; one that has lost what the others
\* tell; one that tells an older run of what the first one tells.
MCDocuments ==
  {[max |-> 3, obs |-> {Run(3, v1, "degraded", 1)}],
   [max |-> 5, obs |-> {Run(3, v1, "compatible", 2), Run(4, v2, "broken", 1)}],
   [max |-> 5, obs |-> {Run(5, v2, "compatible", 1)}],
   [max |-> 3, obs |-> {Run(3, v1, "compatible", 0)}]}
=============================================================================

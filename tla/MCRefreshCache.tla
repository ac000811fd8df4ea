--------------------------- MODULE MCRefreshCache ---------------------------
(* Instances of RefreshCache for TLC: the constants of the .cfg files.     *)
EXTENDS RefreshCache, TLC

CONSTANTS p1, r1, r2

Both == {{1, 2}}

\* What is explored: `overtaken` stays, and excuses every property that follows.
Undisturbed == ~ overtaken
=============================================================================

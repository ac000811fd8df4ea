--------------------------- MODULE MCLaunchUpdate ---------------------------
(* Instances of LaunchUpdate for TLC: the constants of the .cfg files.     *)
EXTENDS LaunchUpdate, TLC

CONSTANTS p1, p2

\* One terminal launches and changes settings, the other one does everything else.
Terminals == [p \in Procs |-> IF p = p1 THEN {"launch", "settings"} ELSE OpNames \ {"launch"}]
MCInstalled == {{1}}
MCFiles == {None}
=============================================================================

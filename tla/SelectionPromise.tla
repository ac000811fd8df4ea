-------------------------- MODULE SelectionPromise --------------------------
(***************************************************************************)
(* What a self-managed ovm promises about which ovm runs: a selected       *)
(* version, the one a rollback returns to, the control plane that          *)
(* dispatches to it and the spare that `self repair` puts back.  They      *)
(* change together or not at all, for as long as no process is killed in   *)
(* the middle of a change and every undo succeeds (intact).                *)
(***************************************************************************)
CONSTANTS Versions, None

VARIABLES selected, fallback, plane, spare, intact

promise == <<selected, fallback, plane, spare, intact>>

Init ==
  /\ selected \in Versions
  /\ fallback \in (Versions \cup {None}) \ {selected}
  /\ plane \in Versions
  /\ spare = None
  /\ intact = TRUE

\* The pointers move one place: what was selected is what a rollback restores.
Switch(v) ==
  /\ selected' = v
  /\ fallback' = IF v = selected THEN fallback ELSE selected

\* `self use` and `self rollback` leave the control plane alone.
Use == \E v \in Versions : Switch(v) /\ UNCHANGED <<plane, spare>>

\* An update replaces the control plane with the version it selects.
Activate ==
  \E v \in Versions : Switch(v) /\ plane' = v /\ spare' = plane

Repair ==
  /\ spare # None
  /\ plane' = spare
  /\ UNCHANGED <<selected, fallback, spare>>

Torn == ~intact'

Next == (intact /\ intact' /\ (Use \/ Activate \/ Repair)) \/ Torn

Spec == Init /\ [][Next]_promise
=============================================================================

--------------------------- MODULE PublishedStore ---------------------------
(***************************************************************************)
(* What the install store promises to a user: a set of available sources   *)
(* (a version with the way it was installed) and at most one selected      *)
(* version, which is available for as long as it is selected.  Sources     *)
(* appear and disappear whole; a version is deselected, or another one     *)
(* selected, before its last source goes.                                  *)
(***************************************************************************)
CONSTANTS Versions, Variants, None

VARIABLES available, selected

promise == <<available, selected>>

Sources == Versions \X Variants

Available(v) == \E s \in Variants : <<v, s>> \in available

Init ==
  /\ available \in SUBSET Sources
  /\ selected = None

Publish ==
  /\ \E x \in Sources \ available : available' = available \cup {x}
  /\ UNCHANGED selected

Retire ==
  /\ \E x \in available : available' = available \ {x}
  /\ selected # None => Available(selected)'
  /\ UNCHANGED selected

Select ==
  /\ \E v \in Versions : Available(v) /\ selected' = v
  /\ UNCHANGED available

Deselect ==
  /\ selected' = None
  /\ UNCHANGED available

Next == Publish \/ Retire \/ Select \/ Deselect

Spec == Init /\ [][Next]_promise
=============================================================================

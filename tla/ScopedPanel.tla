----------------------------- MODULE ScopedPanel -----------------------------
(***************************************************************************)
(* What every read-only view of the personal application promises: it     *)
(* shows observations of the selected scope only, those of the newest      *)
(* refresh only, all of its sources at once, and once; and its refresh     *)
(* button is locked only while that refresh is under way.                  *)
(***************************************************************************)
CONSTANTS Scopes, Sources

VARIABLES selected, open, shown, locked

\* of: the scopes the observations are about, available: the sources.
Blank == [is |-> "blank", of |-> {}, available |-> {}]
Loading == [is |-> "loading", of |-> {}, available |-> {}]

panel == <<selected, open, shown, locked>>

\* A view that is open from the start reads at once.
PanelInit ==
  /\ selected \in Scopes /\ open \in BOOLEAN /\ locked = open
  /\ shown = IF open THEN Loading ELSE Blank

Refreshes == shown' = Loading /\ locked' = TRUE

PanelRefreshes == open /\ ~locked /\ Refreshes /\ UNCHANGED <<selected, open>>

\* The newest refresh ends; a source that failed is told to be unavailable.
PanelSettles ==
  /\ open /\ shown = Loading
  /\ \E good \in SUBSET Sources :
       shown' = [is |-> "shown", of |-> IF good = {} THEN {} ELSE {selected},
                 available |-> good]
  /\ locked' = FALSE /\ UNCHANGED <<selected, open>>

\* A closed view is hidden, with what it showed last.
PanelOpens == ~open /\ open' = TRUE /\ Refreshes /\ UNCHANGED selected
PanelCloses == open /\ open' = FALSE /\ UNCHANGED <<selected, shown, locked>>

PanelRetargets ==
  /\ selected' \in Scopes /\ UNCHANGED open
  /\ IF open THEN Refreshes ELSE shown' = Blank /\ UNCHANGED locked

PanelNext ==
  PanelRefreshes \/ PanelSettles \/ PanelOpens \/ PanelCloses \/ PanelRetargets

PanelSpec == PanelInit /\ [][PanelNext]_panel
=============================================================================

--------------------------- MODULE MC_SelfUpdate ---------------------------
(* Instances of SelfUpdate: two panels, two crashes, two new releases;     *)
(* and one panel with one release and no crash, for what the page shows.   *)
EXTENDS SelfUpdate
=============================================================================

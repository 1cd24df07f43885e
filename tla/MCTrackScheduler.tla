--------------------------- MODULE MCTrackScheduler ---------------------------
(***************************************************************************)
(* Instances of TrackScheduler for TLC.  Trackings are numbered in the     *)
(* order order_pending_tasks_for_l2_newer_fallback puts them in.           *)
(***************************************************************************)
EXTENDS TrackScheduler

MCRank == [t \in Trackings |-> t]
=============================================================================

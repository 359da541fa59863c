------------------------ MODULE MCReplaySupervisor -------------------------
(***************************************************************************)
(* Small recordings for model checking ReplaySupervisor.  Six records    *)
(* are enough for a session to be cut in the middle of the recording, to  *)
(* wrap around, and to hold one record of every kind a run is about.      *)
(***************************************************************************)
EXTENDS ReplayRefinement

MCN == 6

(* Timestamps with an inversion between records 2 and 3.                  *)
MCStamp == <<0, 5, 2, 9, 9, 14>>

MCNsPerMs == 2

(* A recording whose malformed records the dispatcher skips or, for the   *)
(* missing field, treats in any way its undefined behaviour allows.       *)
MCKindSkips == <<"Ok", "TypeError", "MissingField", "Unknown", "Ok", "Ok">>

(* Well-formed records except for a missing data field.                   *)
MCKindMissing == <<"Ok", "Ok", "MissingField", "Ok", "Ok", "Ok">>

(* Well-formed records except for a malformed timestamp.                  *)
MCKindBadStamp == <<"Ok", "Ok", "Ok", "BadTimestamp", "Ok", "Ok">>

=============================================================================

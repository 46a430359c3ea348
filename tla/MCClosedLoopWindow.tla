------------------------- MODULE MCClosedLoopWindow -------------------------
(* Small fleets for TLC: users are interchangeable in the safety runs. *)
EXTENDS ClosedLoopWindow, TLC

FleetSymmetry == Permutations(Users)
=============================================================================

-------------------------- MODULE MCSessionWindow --------------------------
(* Two users replaying a two-step session with a gap and a one-step one. *)
EXTENDS SessionWindow

TwoShapes == << <<1, 0>>, <<0>> >>
=============================================================================

--------------------------- MODULE MCRereduction ---------------------------
(* Rungs for TLC: passing, passing at two tails, a stall that only the stamps *)
(* show, a tail above its gate in one window, and a collapse.                  *)
EXTENDS Rereduction

Result(completed, slo_pass, tok_s, ttft) ==
    [completed |-> completed, slo_pass |-> slo_pass, tok_s |-> tok_s, ttft |-> ttft,
     context |-> 2000]

Same(result) == [n \in 0 .. Repetitions - 1 |-> result]
Passing == Result(TRUE, TRUE, 8, 2)
Spread == [n \in 0 .. Repetitions - 1 |-> [Passing EXCEPT !.ttft = 1 + n]]
Stalling == Same(Result(TRUE, FALSE, 8, 2))
OneLate == [Same(Passing) EXCEPT ![1] = Result(TRUE, FALSE, 8, 6)]
Slow == Same(Result(TRUE, TRUE, 3, 2))

MCPatterns == {Spread, Stalling, OneLate, Slow}
=============================================================================

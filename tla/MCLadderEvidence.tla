-------------------------- MODULE MCLadderEvidence --------------------------
(* Window results for TLC: throughputs chosen around a collapse ratio of 1/2. *)
EXTENDS LadderEvidence

Window(completed, slo_pass, tok_s, outcome, post_search) ==
    [offered |-> TRUE, completed |-> completed, slo_pass |-> slo_pass,
     tok_s |-> tok_s, ttft |-> 20 - OrZero(tok_s),
     context |-> 2000, outcome |-> outcome, post_search |-> post_search]

Passing(tok_s) == Window(TRUE, TRUE, tok_s, None, FALSE)
Tailing(tok_s) == [Passing(tok_s) EXCEPT !.ttft = 30]
Failing == Window(TRUE, FALSE, 8, None, FALSE)
Empty == Window(FALSE, FALSE, None, None, FALSE)
Uncounted == Window(TRUE, TRUE, None, None, FALSE)
Invalid == Window(TRUE, TRUE, 8, "invalid", FALSE)
Aborted == Window(TRUE, TRUE, 8, "aborted", FALSE)
Confirming == Window(TRUE, TRUE, 8, None, TRUE)
Refuting == Window(TRUE, FALSE, 8, None, TRUE)

\* A collapse on the third rung is against the best rung, the first, not the second.
LadderResults(level) ==
    CASE level = 1 -> {Passing(8), Tailing(8), Confirming, Refuting}
      [] level = 2 -> {Passing(5), Uncounted, Aborted, Empty, Invalid}
      [] OTHER -> {Passing(3), Failing}
LadderFiled(level) == CASE level = 1 -> 5 [] level = 2 -> 4 [] OTHER -> 3
=============================================================================

---------------------------- MODULE WindowRules ----------------------------
(***************************************************************************)
(* The edges of one measured window, and what they make of the records:    *)
(* apply_boundary_rules of bench/driver.py marks every record in or out of *)
(* the window and turns an OK record outstanding at the drain deadline     *)
(* into a cancellation; the cohort counts are taken from the marked        *)
(* records there, and once more, independently, by reduce_window of        *)
(* bench/metrics.py.                                                       *)
(*                                                                         *)
(* A record is abstracted to its identity and the fields the edges read:   *)
(* issued_ts, end_ts (None when the request never ended), outcome and      *)
(* in_window.  Time is a natural number of clock units.                    *)
(***************************************************************************)
EXTENDS Integers, FiniteSets

CONSTANTS WindowS,          \* WindowPolicy.window_s
          DrainDeadlineS,   \* WindowPolicy.drain_deadline_s
          None              \* a timestamp that was never stamped

ASSUME EdgesAssumption == /\ WindowS \in Nat \ {0}
                          /\ DrainDeadlineS \in Nat
                          /\ None \notin Nat

\* Outcome of bench/records.py
Outcome == {"ok", "refused", "error", "timeout", "cancelled"}

Close(t0) == t0 + WindowS
Deadline(t0) == Close(t0) + DrainDeadlineS

Offers(r, t0) == t0 <= r.issued_ts /\ r.issued_ts <= Close(t0)
Outstanding(r, t0) == r.end_ts = None \/ r.end_ts > Deadline(t0)

-----------------------------------------------------------------------------
\* Mutated: the re-marking writes a word of its own.
RuledAbandoned(r, t0) ==
    IF Offers(r, t0) /\ Outstanding(r, t0) THEN "abandoned" ELSE r.outcome

\* Only an in-window record that is still OK may be re-marked.
RuledOutcome(r, t0) ==
    IF Offers(r, t0) /\ Outstanding(r, t0) /\ r.outcome = "ok"
    THEN "cancelled" ELSE r.outcome

Ruled(r, t0) == [r EXCEPT !.in_window = Offers(r, t0),
                          !.outcome = RuledOutcome(r, t0)]

ApplyBoundaryRules(S, t0) == {Ruled(r, t0) : r \in S}

-----------------------------------------------------------------------------
\* The counts of Boundary, over records already ruled.
EndedBetween(r, lo, hi) == r.end_ts # None /\ lo <= r.end_ts /\ r.end_ts <= hi

Offered(S) == {r \in S : r.in_window}
Warmup(S) == {r \in S : ~r.in_window}
CompletedInWindow(S, t0) ==
    {r \in S : r.outcome = "ok" /\ EndedBetween(r, t0, Close(t0))}

\* Mutated: a straddler counted although it finished inside the window.
StraddlersFromOpen(S, t0) ==
    {r \in Offered(S) : r.outcome = "ok" /\ EndedBetween(r, t0, Deadline(t0))}
Straddlers(S, t0) ==
    {r \in Offered(S) : r.outcome = "ok" /\ EndedBetween(r, Close(t0) + 1, Deadline(t0))}

Abandoned(S, t0) ==
    {r \in Offered(S) : r.outcome = "cancelled" /\ Outstanding(r, t0)}

-----------------------------------------------------------------------------
\* The same cohorts as reduce_window takes them from the marked records.
IsMonotonic(r) == r.end_ts = None \/ r.issued_ts <= r.end_ts

ExcludedError(S) == {r \in Offered(S) : r.outcome # "ok"}
LatencySamples(S) == {r \in Offered(S) : r.outcome = "ok" /\ IsMonotonic(r)}

FinishedHere(S, t0) ==
    {r \in S : /\ r.outcome = "ok"
               /\ EndedBetween(r, t0, Close(t0))
               /\ IsMonotonic(r)}

\* peak_in_flight sweeps the half-open intervals [issued_ts, end_ts) of the
\* in-window records: the level just after every event at instant t.
\* Mutated: a request that ends as another begins is still counted.
InFlightClosed(S, t) ==
    {r \in Offered(S) : r.issued_ts <= t /\ (r.end_ts = None \/ t <= r.end_ts)}
InFlightAt(S, t) ==
    {r \in Offered(S) : r.issued_ts <= t /\ (r.end_ts = None \/ t < r.end_ts)}
=============================================================================

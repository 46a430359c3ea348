---------------------------- MODULE DraftReport ----------------------------
(***************************************************************************)
(* bench/report.py: what build_report publishes of graded evidence, the    *)
(* rows of run.results and the measured and sustainable tiers.  A live run *)
(* and an offline re-reduction both call it.  Everything is an operator    *)
(* over the evidence of LadderGrading.                                     *)
(*                                                                         *)
(* tok_s and ttft stand for the five figures of _DISPERSION_FIGURES, which *)
(* the code treats alike; wording, and the fields bench never fills, are   *)
(* left out.                                                               *)
(***************************************************************************)
EXTENDS LadderGrading

\* None is none of the constraints and no spread.
ASSUME DraftAssumption ==
    /\ None \notin {"slo", "throughput"}
    /\ None \notin [min : Nat, max : Nat, median : Nat, n : Nat]

-----------------------------------------------------------------------------
(* The repetition a row is read off, and the spread beside it *)

\* _counted: the repetitions, never the confirmation.
RowRepetitions(level) == {rep \in evidence[level] : ~rep.post_search}

\* An unmeasured throughput competes only with others; an unmeasured tail comes last.
Ranked(reps) ==
    LET measured == {rep \in reps : rep.tok_s # None}
    IN  IF measured = {} THEN reps ELSE measured

TokS(rep) == IF rep.tok_s = None THEN 0 ELSE rep.tok_s
ShorterTail(a, b) == a.ttft # None /\ (b.ttft = None \/ a.ttft < b.ttft)

\* The sort is stable and repetitions are submitted by number.
\* Mutated: throughput alone, then the order of submission.
PrecedesByTokS(a, b) ==
    TokS(a) < TokS(b) \/ (TokS(a) = TokS(b) /\ a.repetition < b.repetition)
Precedes(a, b) ==
    \/ TokS(a) < TokS(b)
    \/ /\ TokS(a) = TokS(b)
       /\ ShorterTail(a, b) \/ (~ShorterTail(b, a) /\ a.repetition < b.repetition)

\* _median_repetition: element (n - 1) // 2 of the sorted windows.
MedianRepetition(reps) ==
    LET k == (Cardinality(Ranked(reps)) - 1) \div 2
    IN  CHOOSE rep \in Ranked(reps) :
            /\ Cardinality({r \in Ranked(reps) : Precedes(r, rep)}) <= k
            /\ k < Cardinality({r \in Ranked(reps) : ~Precedes(rep, r)})

\* _figure_dispersion: the survivors' extremes and lower median.
Survivors(reps, figure) == {rep \in reps : rep[figure] # None}
FigureDispersion(reps, figure) ==
    LET alive == Survivors(reps, figure)
        n == Cardinality(alive)
    IN  IF n = 0 THEN None
        ELSE [min |-> KthFigure(alive, figure, 1), max |-> KthFigure(alive, figure, n),
              median |-> KthFigure(alive, figure, (n + 1) \div 2), n |-> n]

\* Nothing is spread over one window.
Dispersion(reps) ==
    IF Cardinality(reps) < 2 THEN None
    ELSE [figure \in {"tok_s", "ttft"} |-> FigureDispersion(reps, figure)]

-----------------------------------------------------------------------------
(* run.results: a row for every graded rung a repetition ran at *)

RowLevels == {level \in Graded : RowRepetitions(level) # {}}

Row(level) ==
    LET median == MedianRepetition(RowRepetitions(level))
    IN  [concurrency |-> level, tok_s |-> median.tok_s, ttft |-> median.ttft,
         context |-> median.context, slo_pass |-> median.slo_pass,
         dispersion |-> Dispersion(RowRepetitions(level)), outcome |-> Outcome(level)]

\* run.schema.json, run.results: minItems 3.
MinRows == 3
DraftProblems == Cardinality(RowLevels) < MinRows

\* _distinct_context_lengths: groups of lengths within 5 percent of their shortest.
Lengths == {Row(level).context : level \in RowLevels} \ {None}
GroupFloors ==
    LET floors[found \in SUBSET Lengths] ==
            LET above == {c \in Lengths : \A f \in found : 20 * c > 21 * f}
            IN  IF above = {} THEN found
                ELSE floors[found \cup {CHOOSE c \in above : \A d \in above : c <= d}]
    IN  floors[{}]
SinglePoint == Cardinality(GroupFloors) < 3

-----------------------------------------------------------------------------
(* The tiers bench fills.  A tier without a number is an explicit unknown. *)

Unfilled == [users |-> None, tok_s2 |-> None, constraint |-> None, provenance |-> "U"]
FilledTier(level, constraint) ==
    [users |-> level, constraint |-> constraint, provenance |-> "M",
     tok_s2 |-> IF Measured(level) = {} THEN None ELSE Throughput2(level)]

FailedRungs == {level \in Graded : Outcome(level) = "failed"}
ConstraintAt(level) == IF RungZeroCompletions(level) THEN "throughput" ELSE "slo"

\* The floor the ladder hit above a rung, if it hit one.
BoundaryConstraint(level) ==
    LET above == {l \in FailedRungs : l > level}
    IN  IF above = {} THEN None
        ELSE ConstraintAt(CHOOSE l \in above : \A m \in above : l <= m)

\* Mutated: a failed top rung is not asked what stopped it.
ObservedAboveOnly(level) == BoundaryConstraint(level)
ObservedConstraint(level) ==
    IF level \in FailedRungs THEN ConstraintAt(level) ELSE BoundaryConstraint(level)

\* The highest operating point, whatever the gates said.
ObservedRungs == {level \in Graded : Outcome(level) \in {"complete", "failed"}}
MeasuredTier ==
    IF ObservedRungs = {} THEN Unfilled
    ELSE FilledTier(MaxOf(ObservedRungs), ObservedConstraint(MaxOf(ObservedRungs)))

\* bench never declares a ladder harness-limited.
SustainableTier ==
    IF ~Publishable(FALSE) \/ RowRepetitions(MaxSustainable) = {} THEN Unfilled
    ELSE FilledTier(MaxSustainable, BoundaryConstraint(MaxSustainable))

\* _conformance_note: the caveats after the draft paragraph.
NoteCaveats(censored) ==
    (IF censored THEN {"censored"} ELSE {}) \cup (IF IsLowerBound THEN {"lower_bound"} ELSE {})

\* build_report.
Draft(censored) ==
    [rows |-> [level \in RowLevels |-> Row(level)], monotone |-> Monotone,
     tiers |-> <<MeasuredTier, SustainableTier>>, caveats |-> NoteCaveats(censored)]

-----------------------------------------------------------------------------
(* Properties *)

\* The row and the block beside it are read together.  The row's throughput is the
\* median of the block; windows that tie on throughput are represented by their
\* median tail, not by the order they ran in; and the row is one window that ran.
RowAndSpreadAgree ==
    \A level \in RowLevels :
        LET row == Row(level)
            ranked == Ranked(RowRepetitions(level))
            tied == \A a, b \in ranked : a.tok_s = b.tok_s /\ a.ttft # None
        IN  /\ \E rep \in RowRepetitions(level) :
                  rep.tok_s = row.tok_s /\ rep.ttft = row.ttft /\ rep.context = row.context
            /\ row.dispersion # None =>
                  /\ row.tok_s # None => row.tok_s = row.dispersion["tok_s"].median
                  /\ tied /\ ranked = RowRepetitions(level)
                        => row.ttft = row.dispersion["ttft"].median
                  /\ \A figure \in {"tok_s", "ttft"} :
                        (row.dispersion[figure] = None) <=>
                            \A rep \in RowRepetitions(level) : rep[figure] = None

\* A tier with a number and no constraint beside it is "at least this much", and the
\* note says so wherever the number is the sustainable one.  The measured ceiling has
\* one exception: a ladder that passed above a failure publishes it with neither a
\* constraint nor the sentence (report.py:293, 327), and then only as a ladder that
\* was not monotone and with no sustainable number.  Where the sentence does stand, no
\* tier names a floor: a lower bound is never printed as a maximum.
LowerBoundIsSaid ==
    LET draft == Draft(FALSE)
        measured == draft.tiers[1]
        sustainable == draft.tiers[2]
        bare(tier) == tier.users # None /\ tier.constraint = None
        said == "lower_bound" \in draft.caveats
    IN  /\ bare(sustainable) => said
        /\ bare(measured) =>
              \/ said
              \/ /\ \E level \in FailedRungs : level < measured.users
                 /\ ~draft.monotone /\ sustainable.users = None
        /\ said => measured.constraint = None /\ sustainable.constraint = None

=============================================================================

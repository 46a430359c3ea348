--------------------------- MODULE LadderGrading ---------------------------
(***************************************************************************)
(* How bench/ladder.py turns windows into a verdict: grade_rung over the   *)
(* repetitions of one operating point, grade_ladder over the rungs.  The   *)
(* state is the evidence alone, the mapping from concurrency to repetition *)
(* results both functions take; the modules that extend this one file the  *)
(* finished windows.  Everything here is an operator over the evidence.    *)
(*                                                                         *)
(* A repetition result is abstracted to what grading reads: whether load   *)
(* was offered, whether anything completed in the window, the gate verdict *)
(* slo_pass (None when no gate was declared), output_tok_s (None when not  *)
(* measured), the recorded outcome and the post_search mark; and to what   *)
(* the draft report reads besides, ttft_p95_s and the mean context length. *)
(***************************************************************************)
EXTENDS Integers, FiniteSets

CONSTANTS Levels,        \* the ladder's concurrencies
          Repetitions,   \* LadderPolicy.repetitions
          CollapseNum,   \* LadderPolicy.throughput_collapse_ratio is
          CollapseDen,   \*   CollapseNum / CollapseDen
          None           \* not measured, not declared, not recorded

\* What LadderPolicy.__post_init__ refuses is never graded.
ASSUME LadderPolicyAssumption ==
    /\ Levels \subseteq Nat \ {0} /\ IsFiniteSet(Levels)
    /\ Repetitions \in Nat /\ Repetitions >= 3
    /\ CollapseNum \in Nat /\ CollapseDen \in Nat
    /\ CollapseDen <= 2 * CollapseNum /\ CollapseNum < CollapseDen
    /\ None \notin Nat

RungOutcome == {"complete", "failed", "invalid", "aborted"}

\* RepetitionResult and the part of its WindowSummary that grading reads.
Repetition == [concurrency : Levels, repetition : Nat,
               offered : BOOLEAN, completed : BOOLEAN,
               slo_pass : BOOLEAN \cup {None}, tok_s : Nat \cup {None},
               ttft : Nat \cup {None}, context : Nat \cup {None},
               outcome : RungOutcome \cup {None}, post_search : BOOLEAN]

VARIABLE evidence    \* rungs: Mapping[int, Sequence[RepetitionResult]]

-----------------------------------------------------------------------------
(* grade_rung *)

ZeroCompletions(rep) == rep.offered /\ ~rep.completed

RepetitionFailure(rep) ==
    \/ ZeroCompletions(rep)
    \/ rep.outcome \in {"failed", "aborted"}
    \/ rep.slo_pass # TRUE

Stray(level) == {rep \in evidence[level] : rep.concurrency # level}

Valid(level) == {rep \in evidence[level] \ Stray(level) : rep.outcome # "invalid"}

Counted(level) == {rep \in Valid(level) : ~rep.post_search}
Confirmations(level) == {rep \in Valid(level) : rep.post_search}

PassedConfirmations(level) ==
    {rep \in Confirmations(level) : ~RepetitionFailure(rep)}

\* Mutated: a failing confirmation is only not counted as a pass, and a rung
\* graded by majority vote.
FailedByCountedOnly(level) == \E rep \in Counted(level) : RepetitionFailure(rep)
FailedByMajority(level) ==
    2 * Cardinality({rep \in Valid(level) : RepetitionFailure(rep)})
        > Cardinality(Valid(level))
Failed(level) == \E rep \in Valid(level) : RepetitionFailure(rep)

RungZeroCompletions(level) == \E rep \in Valid(level) : ZeroCompletions(rep)

\* The verdict of grade_rung, before the ladder looks for a collapse.
RungVerdict(level) ==
    CASE Stray(level) # {} \/ Cardinality(Counted(level)) < Repetitions -> "invalid"
      [] OTHER -> IF Failed(level) THEN "failed" ELSE "complete"

-----------------------------------------------------------------------------
(* Median throughput, doubled so that it stays a whole number *)

Measured(level) == {rep \in Counted(level) : rep.tok_s # None}

KthFigure(reps, figure, k) ==
    CHOOSE v \in {rep[figure] : rep \in reps} :
        /\ Cardinality({rep \in reps : rep[figure] < v}) < k
        /\ k <= Cardinality({rep \in reps : rep[figure] <= v})

\* statistics.median, twice.
TwiceMedian(reps) ==
    LET n == Cardinality(reps)
    IN  KthFigure(reps, "tok_s", (n + 1) \div 2) + KthFigure(reps, "tok_s", (n \div 2) + 1)

Throughput2(level) == TwiceMedian(Measured(level))

-----------------------------------------------------------------------------
(* grade_ladder: the rungs with evidence, low to high *)

Rungs == {level \in Levels : evidence[level] # {}}
Below(level) == {l \in Rungs : l < level}

\* The lower rungs a collapse is measured against.  The loop stops at the first
\* collapse, so below a rung it reaches no COMPLETE verdict was overruled.
CollapseReferences(level) ==
    {l \in Below(level) : RungVerdict(l) = "complete" /\ Measured(l) # {}}

Collapsed(level) ==
    /\ RungVerdict(level) # "invalid"
    /\ Measured(level) # {}
    /\ \E l \in CollapseReferences(level) :
          CollapseDen * Throughput2(level) < CollapseNum * Throughput2(l)

Terminates(level) == Collapsed(level) \/ RungZeroCompletions(level)

\* LadderResult.rungs: grading stops at the first termination.
Graded == {level \in Rungs : \A l \in Below(level) : ~Terminates(l)}

Outcome(level) == IF Collapsed(level) THEN "failed" ELSE RungVerdict(level)
Complete == {level \in Graded : Outcome(level) = "complete"}

\* No COMPLETE rung above one that is not.
Monotone == \A hi \in Complete, lo \in Graded : lo < hi => lo \in Complete

FoundFailure == \E level \in Graded : Outcome(level) \in {"failed", "aborted"}
IsLowerBound == Graded # {} /\ ~FoundFailure

\* The COMPLETE rungs below the first rung that is not.
Sustainable == {level \in Complete : \A l \in Graded : l < level => l \in Complete}

MaxOf(S) == CHOOSE m \in S : \A x \in S : x <= m
MaxSustainable == IF Sustainable = {} THEN None ELSE MaxOf(Sustainable)

Confirmed == MaxSustainable # None /\ PassedConfirmations(MaxSustainable) # {}

\* A harness-limited ladder is declared so before the run.
Publishable(harness_limited) == Confirmed /\ ~harness_limited /\ Monotone

-----------------------------------------------------------------------------
NoEvidence == [level \in Levels |-> {}]

\* state["repetitions"].setdefault(level, []).append(rep)
File(level, rep) == evidence' = [evidence EXCEPT ![level] = @ \cup {rep}]
=============================================================================

--------------------------- MODULE LadderEvidence ---------------------------
(***************************************************************************)
(* Grading against growing evidence: the callers of bench/ladder.py (a     *)
(* live run, a confirmation, an offline re-reduction) file windows under   *)
(* rungs in any order and number, and grade whatever is there.  The module *)
(* asks what one more window may do to a verdict already given, and checks *)
(* the loop of grade_ladder against the declarative grading.               *)
(***************************************************************************)
EXTENDS DraftReport

CONSTANTS Results(_),    \* what a window filed under a rung may have measured
          MaxFiled(_)    \* bound: windows filed under it

\* A result is what a repetition says besides its rung and its number.  A window in
\* which no request was issued passes no gate: its statistics are all unmeasured.
ASSUME ResultsAssumption ==
    \A level \in Levels :
        /\ Results(level) \subseteq
             [offered : BOOLEAN, completed : BOOLEAN,
              slo_pass : BOOLEAN \cup {None}, tok_s : Nat \cup {None},
              ttft : Nat \cup {None}, context : Nat \cup {None},
              outcome : RungOutcome \cup {None}, post_search : BOOLEAN]
        /\ \A result \in Results(level) : result.slo_pass = TRUE => result.offered
        /\ MaxFiled(level) \in Nat

Numbered(level, result, n) ==
    [concurrency |-> level, repetition |-> n,
     offered |-> result.offered, completed |-> result.completed,
     slo_pass |-> result.slo_pass, tok_s |-> result.tok_s,
     ttft |-> result.ttft, context |-> result.context,
     outcome |-> result.outcome, post_search |-> result.post_search]

\* Windows that measured the same thing are told apart by their number alone.
FileWindow(level, result) ==
    LET n == CHOOSE k \in 0 .. MaxFiled(level) :
                 /\ Numbered(level, result, k) \notin evidence[level]
                 /\ \A j \in 0 .. k - 1 : Numbered(level, result, j) \in evidence[level]
    IN  /\ Cardinality(evidence[level]) < MaxFiled(level)
        /\ File(level, Numbered(level, result, n))

EvidenceInit == evidence = NoEvidence
EvidenceNext == \E level \in Levels : \E result \in Results(level) : FileWindow(level, result)
EvidenceSpec == EvidenceInit /\ [][EvidenceNext]_evidence

-----------------------------------------------------------------------------
(* grade_ladder as the loop it is, over the sorted rungs *)

\* sorted(rungs)[k - 1]: the rung with k - 1 rungs below it.
RungAt(k) == CHOOSE level \in Rungs : Cardinality(Below(level)) = k - 1

\* The best COMPLETE throughput so far, doubled; None before the first.
\* Mutated: the reference is the last COMPLETE rung, not the best one.
LatestReference(best, level) ==
    IF Measured(level) # {} THEN Throughput2(level) ELSE best
BestReference(best, level) ==
    IF Measured(level) # {} /\ (best = None \/ Throughput2(level) > best)
    THEN Throughput2(level) ELSE best

LoopStart == [graded |-> <<>>, best |-> None, terminated_at |-> None]

\* One pass of the loop body; past a termination the loop has been left.
LoopStep(loop, level) ==
    LET verdict == RungVerdict(level)
        collapsed == /\ verdict # "invalid"
                     /\ Measured(level) # {} /\ loop.best # None
                     /\ CollapseDen * Throughput2(level) < CollapseNum * loop.best
        outcome == IF collapsed THEN "failed" ELSE verdict
        stops == collapsed \/ RungZeroCompletions(level)
    IN  IF loop.terminated_at # None THEN loop
        ELSE [graded |-> [l \in DOMAIN loop.graded \cup {level} |->
                              IF l = level THEN outcome ELSE loop.graded[l]],
              terminated_at |-> IF stops THEN level ELSE None,
              best |-> IF ~stops /\ outcome = "complete"
                       THEN BestReference(loop.best, level) ELSE loop.best]

\* The loop after its first k rungs.
LoopAfter[k \in 0 .. Cardinality(Rungs)] ==
    IF k = 0 THEN LoopStart ELSE LoopStep(LoopAfter[k - 1], RungAt(k))

Loop == LoopAfter[Cardinality(Rungs)]

-----------------------------------------------------------------------------
(* Properties *)

\* grade_ladder's single pass with its running best and its break grades the
\* rungs, with the outcomes, that the declarative reading of section 7 does, and
\* stops at the rung that reading stops at.
LoopGradesAsDeclared ==
    /\ DOMAIN Loop.graded = Graded
    /\ \A level \in Graded : Loop.graded[level] = Outcome(level)
    /\ \A level \in Graded : Terminates(level) <=> Loop.terminated_at = level
    /\ Loop.terminated_at \in Graded \cup {None}

\* sustainable_publishable is earned: up to the boundary every rung has its
\* repetitions, no window that counts failed anything, and a window taken after
\* the search passed at the boundary itself.
PublishableIsEarned ==
    Publishable(FALSE) =>
        LET Passed(rep) == /\ rep.slo_pass = TRUE /\ rep.completed
                           /\ rep.outcome \in {None, "complete"}
        IN  /\ \A level \in Rungs : level <= MaxSustainable =>
                  /\ \A rep \in evidence[level] : Passed(rep) \/ rep.outcome = "invalid"
                  /\ Repetitions <= Cardinality(
                         {rep \in evidence[level] : ~rep.post_search /\ Passed(rep)})
            /\ \E rep \in evidence[MaxSustainable] : rep.post_search /\ Passed(rep)

OrZero(boundary) == IF boundary = None THEN 0 ELSE boundary

\* A rung that failed stays failed whatever else is measured there: no best-of-N
\* and no majority vote.
FailureIsFinal ==
    [][\A level \in Levels : RungVerdict(level) = "failed" => RungVerdict(level)' = "failed"
      ]_evidence

=============================================================================

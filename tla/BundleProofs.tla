----------------------------- MODULE BundleProofs -----------------------------
(***************************************************************************)
(* The bundle, from its two sides: what re-deriving a report from it keeps, *)
(* for every ladder, every outcome of its windows and every order of        *)
(* elisions, corrections, gradings, edits and rebuilds; and, at the end,    *)
(* that verify_bundle neither cries wolf nor misses a change, for every set *)
(* of files, every snapshot cap and every length and rotation of the log.   *)
(*                                                                         *)
(* The draft of a reading of the windows is From(reading)!Draft; what is   *)
(* shown of two readings is shown of From(d)! and From(e)!.                *)
(***************************************************************************)
EXTENDS Rereduction, ReproductionBundle, LadderGradingProofs

\* The windows of a rung: typed, of that rung, each with a number of its own, and the
\* confirmation numbered past the repetitions.
Shelved(level, reps) ==
  /\ IsFiniteSet(reps) /\ reps \subseteq Repetition
  /\ \A rep \in reps : rep.concurrency = level
                       /\ (rep.post_search <=> rep.repetition >= Repetitions)
  /\ \A a, b \in reps : a.repetition = b.repetition => a = b

EvidenceShelved ==
  /\ evidence = [level \in Levels |-> evidence[level]]
  /\ \A level \in Levels : Shelved(level, evidence[level])

\* The bundle is the evidence without the marks.
Unmarked(rep) == [rep EXCEPT !.post_search = FALSE]
BundleIsEvidence == windows = {Unmarked(rep) : rep \in Bundled}

\* What the reduction makes of a window read back from the bundle.
Derived(removed) == [level \in Levels |-> {Reduce1(rep, removed) : rep \in evidence[level]}]

\* The two halves of Reduce1: what elision does to a window, and the correction to its tail.
Gated(rep, removed) == IF "token_ts" \in removed THEN Substituted(rep) ELSE rep
Backed(rep, removed) ==
  IF "output_tokens" \in removed THEN [Gated(rep, removed) EXCEPT !.tok_s = None]
                                 ELSE Gated(rep, removed)
Shifted(rep) == IF corrected /\ rep.ttft # None THEN [rep EXCEPT !.ttft = @ + 1] ELSE rep

LEMMA Reduce1Is == \A rep, removed : Reduce1(rep, removed) = Shifted(Backed(rep, removed))
BY DEF Reduce1, Shifted, Backed, Gated

\* What neither half touches.
Kept(r, rep) ==
  /\ r \in Repetition
  /\ r.concurrency = rep.concurrency /\ r.repetition = rep.repetition
  /\ r.post_search = rep.post_search /\ r.offered = rep.offered
  /\ r.completed = rep.completed /\ r.outcome = rep.outcome /\ r.context = rep.context

\* A reading is typed like the evidence it is a reading of.
LEMMA ReadingType ==
  ASSUME LadderPolicyAssumption, NEW rep \in Repetition, NEW removed
  PROVE  Kept(Backed(rep, removed), rep) /\ Kept(Reduce1(rep, removed), rep)
<1>1. Kept(Substituted(rep), rep)
  BY DEF Substituted, Repetition, Kept
<1>2. Kept(Gated(rep, removed), rep)
  BY <1>1 DEF Gated, Kept
<1>3. Kept(Backed(rep, removed), rep)
  BY <1>2 DEF Backed, Kept, Repetition
<1>4. ASSUME NEW r, Kept(r, rep)
      PROVE  Kept(Shifted(r), rep)
  <2>1. r \in Repetition /\ (r.ttft # None => r.ttft + 1 \in Nat)
    BY <1>4 DEF Kept, Repetition
  <2> QED BY <1>4, <2>1 DEF Shifted, Kept, Repetition
<1> QED BY <1>3, <1>4, Reduce1Is

\* What a window gives without its mark it gives with it: the mark is put back from the
\* number.
LEMMA MarkIsPutBack ==
  ASSUME LadderPolicyAssumption, NEW rep \in Repetition, NEW removed,
         rep.post_search <=> rep.repetition >= Repetitions
  PROVE  [Reduce1(Unmarked(rep), removed) EXCEPT !.post_search = IsPostSearch(Unmarked(rep))]
           = Reduce1(rep, removed)
<1> DEFINE w == Unmarked(rep)
           Remark(r) == [r EXCEPT !.post_search = IsPostSearch(w)]
<1>1. w \in Repetition /\ IsPostSearch(w) = rep.post_search /\ Remark(w) = rep
  <2>1. w \in Repetition /\ w.repetition = rep.repetition
    BY DEF Unmarked, Repetition
  <2>2. rep.post_search \in BOOLEAN
    BY DEF Repetition
  <2>3. IsPostSearch(w) <=> rep.post_search
    BY <2>1 DEF IsPostSearch
  <2>4. IsPostSearch(w) = rep.post_search
    <3>1. IsPostSearch(w) \in BOOLEAN
      BY DEF IsPostSearch
    <3> QED BY <2>2, <2>3, <3>1, Zenon
  <2>5. [w EXCEPT !.post_search = rep.post_search] = rep
    BY DEF Unmarked, Repetition
  <2> QED BY <2>1, <2>4, <2>5
<1>2. Substituted(w) \in Repetition /\ Remark(Substituted(w)) = Substituted(rep)
  BY <1>1 DEF Unmarked, Substituted, Repetition
<1>3. Gated(w, removed) \in Repetition /\ Remark(Gated(w, removed)) = Gated(rep, removed)
  BY <1>1, <1>2 DEF Gated
<1>4. Backed(w, removed) \in Repetition /\ Remark(Backed(w, removed)) = Backed(rep, removed)
  BY <1>1, <1>3 DEF Backed, Repetition
<1>5. ASSUME NEW r \in Repetition, NEW q, Remark(r) = q
      PROVE  Remark(Shifted(r)) = Shifted(q)
  BY <1>1, <1>5 DEF Shifted, Repetition
<1> QED BY <1>4, <1>5, Reduce1Is

\* So reading the bundle back is reducing the evidence.
LEMMA RereadIsDerived ==
  ASSUME LadderPolicyAssumption, EvidenceShelved, BundleIsEvidence, NEW removed
  PROVE  Reread(removed) = Derived(removed)
<1>1. ASSUME NEW level \in Levels
      PROVE  {[Reduce1(w, removed) EXCEPT !.post_search = IsPostSearch(w)] :
                 w \in {v \in windows : v.concurrency = level}}
               = {Reduce1(rep, removed) : rep \in evidence[level]}
  <2>1. \A w : w \in {v \in windows : v.concurrency = level}
                 <=> \E rep \in evidence[level] : w = Unmarked(rep)
    <3>1. \A l \in Levels : \A rep \in evidence[l] :
             rep \in Bundled /\ Unmarked(rep).concurrency = l
      BY DEF Bundled, EvidenceShelved, Shelved, Unmarked, Repetition
    <3>2. \A rep \in Bundled : \E l \in Levels : rep \in evidence[l]
      BY DEF Bundled
    <3> HIDE DEF Bundled
    <3> QED BY <3>1, <3>2 DEF BundleIsEvidence
  <2>2. \A rep \in evidence[level] :
           [Reduce1(Unmarked(rep), removed) EXCEPT !.post_search = IsPostSearch(Unmarked(rep))]
             = Reduce1(rep, removed)
    BY MarkIsPutBack DEF EvidenceShelved, Shelved
  <2> QED BY <2>1, <2>2
<1> QED BY <1>1 DEF Reread, Derived

\* Reduced by the code it was published with, the whole evidence is itself.
LEMMA DerivedIsEvidence ==
  ASSUME EvidenceShelved, corrected = FALSE
  PROVE  Derived({}) = evidence
<1>1. \A rep : Reduce1(rep, {}) = rep
  BY DEF Reduce1
<1>2. \A level \in Levels : {Reduce1(rep, {}) : rep \in evidence[level]} = evidence[level]
  BY <1>1
<1>3. Derived({}) = [level \in Levels |-> evidence[level]]
  BY <1>2 DEF Derived
<1> QED BY <1>3 DEF EvidenceShelved

\* The draft of a reading, bound as it is, is the draft of that reading.
LEMMA DraftWithoutIs ==
  ASSUME NEW removed
  PROVE  DraftWithout(removed) = From(Reread(removed))!Draft(FALSE)
BY DEF DraftWithout

-----------------------------------------------------------------------------
(***************************************************************************)
(* The draft of the reading that is the evidence is the draft of the live  *)
(* run: build_report is one function, whoever calls it.                    *)
(***************************************************************************)
LeastOf(S) == CHOOSE l \in S : \A m \in S : l <= m

\* The operators that do not read the evidence.
LEMMA SameFigures ==
  ASSUME NEW e
  PROVE  /\ \A S : From(e)!Cardinality(S) = Cardinality(S)
         /\ \A rep : From(e)!ZeroCompletions(rep) <=> ZeroCompletions(rep)
         /\ \A rep : From(e)!RepetitionFailure(rep) <=> RepetitionFailure(rep)
         /\ \A reps, figure, k : From(e)!KthFigure(reps, figure, k) = KthFigure(reps, figure, k)
         /\ \A reps : From(e)!TwiceMedian(reps) = TwiceMedian(reps)
         /\ \A S : From(e)!MaxOf(S) = MaxOf(S)
         /\ \A reps : From(e)!MedianRepetition(reps) = MedianRepetition(reps)
         /\ \A reps, figure : From(e)!FigureDispersion(reps, figure) = FigureDispersion(reps, figure)
         /\ \A reps : From(e)!Dispersion(reps) = Dispersion(reps)
         /\ From(e)!Unfilled = Unfilled
<1>0. ASSUME NEW S
      PROVE  From(e)!Cardinality(S) = Cardinality(S)
  BY DEF From!Cardinality, Cardinality
<1>1. \A rep : From(e)!ZeroCompletions(rep) <=> ZeroCompletions(rep)
  BY DEF From!ZeroCompletions, ZeroCompletions
<1>2. \A rep : From(e)!RepetitionFailure(rep) <=> RepetitionFailure(rep)
  BY <1>1 DEF From!RepetitionFailure, RepetitionFailure
<1>3. ASSUME NEW reps, NEW figure, NEW k
      PROVE  From(e)!KthFigure(reps, figure, k) = KthFigure(reps, figure, k)
  BY DEF From!KthFigure, KthFigure, From!Cardinality, Cardinality
<1>4. ASSUME NEW reps
      PROVE  From(e)!TwiceMedian(reps) = TwiceMedian(reps)
  BY <1>0, <1>3 DEF From!TwiceMedian, TwiceMedian
<1>5. \A S : From(e)!MaxOf(S) = MaxOf(S)
  BY Zenon DEF From!MaxOf, MaxOf
<1>6. ASSUME NEW reps
      PROVE  From(e)!MedianRepetition(reps) = MedianRepetition(reps)
  BY DEF From!MedianRepetition, From!Ranked, From!Precedes, From!TokS, From!ShorterTail,
         MedianRepetition, Ranked, Precedes, TokS, ShorterTail, From!Cardinality, Cardinality
<1>7. \A reps, figure : From(e)!Survivors(reps, figure) = Survivors(reps, figure)
  BY DEF From!Survivors, Survivors
<1>8. ASSUME NEW reps, NEW figure
      PROVE  From(e)!FigureDispersion(reps, figure) = FigureDispersion(reps, figure)
  BY <1>0, <1>3, <1>7 DEF From!FigureDispersion, FigureDispersion
<1>9. ASSUME NEW reps
      PROVE  From(e)!Dispersion(reps) = Dispersion(reps)
  BY <1>0, <1>8 DEF From!Dispersion, Dispersion
<1>10. From(e)!Unfilled = Unfilled
  BY DEF From!Unfilled, Unfilled
<1> QED BY <1>0, <1>1, <1>2, <1>3, <1>4, <1>5, <1>6, <1>8, <1>9, <1>10

\* Those that do.
LEMMA FromEvidence ==
  ASSUME NEW c
  PROVE  /\ From(evidence)!Draft(c) = Draft(c)
         /\ From(evidence)!RowLevels = RowLevels
         /\ From(evidence)!SustainableTier = SustainableTier
<1> USE SameFigures
<1>1. \A level : From(evidence)!Valid(level) = Valid(level)
                 /\ From(evidence)!Stray(level) = Stray(level)
  BY DEF From!Valid, Valid, From!Stray, Stray
<1>2. \A level : From(evidence)!Counted(level) = Counted(level)
                 /\ From(evidence)!PassedConfirmations(level) = PassedConfirmations(level)
                 /\ (From(evidence)!Failed(level) <=> Failed(level))
                 /\ (From(evidence)!RungZeroCompletions(level) <=> RungZeroCompletions(level))
  BY <1>1 DEF From!Counted, Counted, From!PassedConfirmations, PassedConfirmations,
              From!Confirmations, Confirmations, From!Failed, Failed,
              From!RungZeroCompletions, RungZeroCompletions
<1>3. \A level : From(evidence)!RungVerdict(level) = RungVerdict(level)
                 /\ From(evidence)!Measured(level) = Measured(level)
  BY <1>1, <1>2 DEF From!RungVerdict, RungVerdict, From!Measured, Measured
<1>4. \A level : From(evidence)!Throughput2(level) = Throughput2(level)
  BY <1>3 DEF From!Throughput2, Throughput2
<1>5. /\ From(evidence)!Rungs = Rungs
      /\ \A level : From(evidence)!Below(level) = Below(level)
  BY DEF From!Rungs, Rungs, From!Below, Below
<1>6. \A level : From(evidence)!CollapseReferences(level) = CollapseReferences(level)
  BY <1>3, <1>5 DEF From!CollapseReferences, CollapseReferences
<1>7. \A level : From(evidence)!Collapsed(level) <=> Collapsed(level)
  BY <1>3, <1>4, <1>6 DEF From!Collapsed, Collapsed
<1>8. From(evidence)!Graded = Graded
  BY <1>2, <1>5, <1>7 DEF From!Graded, Graded, From!Terminates, Terminates
<1>9. \A level : From(evidence)!Outcome(level) = Outcome(level)
  BY <1>3, <1>7 DEF From!Outcome, Outcome
<1>10. From(evidence)!Complete = Complete
  BY <1>8, <1>9 DEF From!Complete, Complete
<1>11. /\ From(evidence)!Monotone <=> Monotone
       /\ From(evidence)!IsLowerBound <=> IsLowerBound
  BY <1>8, <1>9, <1>10 DEF From!Monotone, Monotone, From!IsLowerBound, IsLowerBound,
                           From!FoundFailure, FoundFailure
<1>12. From(evidence)!MaxSustainable = MaxSustainable
  <2>1. From(evidence)!Sustainable = Sustainable
    BY <1>8, <1>10 DEF From!Sustainable, Sustainable
  <2> QED BY <2>1 DEF From!MaxSustainable, MaxSustainable
<1>13. From(evidence)!Publishable(FALSE) <=> Publishable(FALSE)
  BY <1>2, <1>11, <1>12 DEF From!Publishable, Publishable, From!Confirmed, Confirmed
<1>14. /\ \A level : From(evidence)!RowRepetitions(level) = RowRepetitions(level)
       /\ From(evidence)!RowLevels = RowLevels
  BY <1>8 DEF From!RowRepetitions, RowRepetitions, From!RowLevels, RowLevels
<1>15. \A level : From(evidence)!Row(level) = Row(level)
  BY <1>9, <1>14 DEF From!Row, Row
<1>16. \A level, constraint : From(evidence)!FilledTier(level, constraint)
                                = FilledTier(level, constraint)
  BY <1>3, <1>4 DEF From!FilledTier, FilledTier
<1>17. \A level : From(evidence)!ConstraintAt(level) = ConstraintAt(level)
  BY <1>2 DEF From!ConstraintAt, ConstraintAt
<1>18. From(evidence)!FailedRungs = FailedRungs
       /\ From(evidence)!ObservedRungs = ObservedRungs
  BY <1>8, <1>9 DEF From!FailedRungs, FailedRungs, From!ObservedRungs, ObservedRungs
<1>19. \A level : From(evidence)!BoundaryConstraint(level) = BoundaryConstraint(level)
  <2> SUFFICES ASSUME NEW level
               PROVE  From(evidence)!BoundaryConstraint(level) = BoundaryConstraint(level)
    OBVIOUS
  <2> DEFINE above(S) == {l \in S : l > level}
  <2>1. From(evidence)!BoundaryConstraint(level)
          = IF above(From(evidence)!FailedRungs) = {} THEN None
            ELSE From(evidence)!ConstraintAt(LeastOf(above(From(evidence)!FailedRungs)))
    BY Zenon DEF From!BoundaryConstraint, LeastOf
  <2>2. BoundaryConstraint(level)
          = IF above(FailedRungs) = {} THEN None ELSE ConstraintAt(LeastOf(above(FailedRungs)))
    BY Zenon DEF BoundaryConstraint, LeastOf
  <2>3. above(From(evidence)!FailedRungs) = above(FailedRungs)
    BY <1>18
  <2> HIDE DEF above
  <2> QED BY <1>17, <2>1, <2>2, <2>3
<1>20. From(evidence)!MeasuredTier = MeasuredTier
  BY <1>16, <1>17, <1>18, <1>19
     DEF From!MeasuredTier, MeasuredTier, From!ObservedConstraint, ObservedConstraint
<1>21. From(evidence)!SustainableTier = SustainableTier
  <2> DEFINE off == ~Publishable(FALSE) \/ RowRepetitions(MaxSustainable) = {}
  <2>1. SustainableTier = IF off THEN Unfilled
                          ELSE FilledTier(MaxSustainable, BoundaryConstraint(MaxSustainable))
    BY DEF SustainableTier
  <2>2. (~From(evidence)!Publishable(FALSE)
          \/ From(evidence)!RowRepetitions(From(evidence)!MaxSustainable) = {}) <=> off
    BY <1>12, <1>13, <1>14
  <2>3. From(evidence)!FilledTier(From(evidence)!MaxSustainable,
                        From(evidence)!BoundaryConstraint(From(evidence)!MaxSustainable))
          = FilledTier(MaxSustainable, BoundaryConstraint(MaxSustainable))
    BY <1>12, <1>16, <1>19
  <2> HIDE DEF off
  <2> QED BY <2>1, <2>2, <2>3 DEF From!SustainableTier
<1>22. From(evidence)!NoteCaveats(c) = NoteCaveats(c)
  BY <1>11 DEF From!NoteCaveats, NoteCaveats
<1>23. From(evidence)!Monotone = Monotone
  <2>1. From(evidence)!Monotone \in BOOLEAN /\ Monotone \in BOOLEAN
    BY DEF From!Monotone, Monotone
  <2>2. From(evidence)!Monotone <=> Monotone
    BY <1>11
  <2> QED BY <2>1, <2>2
<1>24. [level \in From(evidence)!RowLevels |-> From(evidence)!Row(level)]
         = [level \in RowLevels |-> Row(level)]
  BY <1>14, <1>15
<1> QED BY <1>14, <1>20, <1>21, <1>22, <1>23, <1>24 DEF From!Draft, Draft

-----------------------------------------------------------------------------
(***************************************************************************)
(* What a report rests on.  The reduction of the whole records is one of   *)
(* two readings of the evidence, before the correction and after it, and   *)
(* no step but an edit takes a report away from them: a rebuild needs the  *)
(* whole records.  An edit leaves the caveats, the tiers and the rungs.    *)
(***************************************************************************)
Later(rep) == IF rep.ttft # None THEN [rep EXCEPT !.ttft = @ + 1] ELSE rep
Corrected(e) == [level \in Levels |-> {Later(rep) : rep \in e[level]}]

IsReport(report) ==
  report = [rows |-> report.rows, monotone |-> report.monotone,
            tiers |-> report.tiers, caveats |-> report.caveats]

Rests ==
  published # None =>
    /\ IsReport(published)
    /\ basis = "released" => published = From(evidence)!Draft(censored)
    /\ basis = "corrected" => corrected /\ published = From(Corrected(evidence))!Draft(FALSE)
    /\ censored => "censored" \in published.caveats
    /\ published.tiers[2].users = From(evidence)!SustainableTier.users
    /\ DOMAIN published.rows = From(evidence)!RowLevels

\* The inductive invariant.
ReduceInv ==
  /\ censored \in BOOLEAN /\ corrected \in BOOLEAN
  /\ basis \in {"released", "corrected", "edited"}
  /\ elided \subseteq Fields
  /\ EvidenceShelved
  /\ published # None => BundleIsEvidence
  /\ Rests

\* The whole records give the evidence, corrected or not.
LEMMA WholeRecords ==
  ASSUME LadderPolicyAssumption, ReduceInv, published # None
  PROVE  DraftWithout({}) = IF corrected THEN From(Corrected(evidence))!Draft(FALSE)
                                         ELSE From(evidence)!Draft(FALSE)
<1>1. DraftWithout({}) = From(Derived({}))!Draft(FALSE)
  BY DraftWithoutIs, RereadIsDerived DEF ReduceInv
<1>2. CASE corrected
  <2>1. \A rep : Reduce1(rep, {}) = Later(rep)
    BY <1>2, Reduce1Is DEF Later, Shifted, Backed, Gated
  <2>2. Derived({}) = Corrected(evidence)
    BY <2>1 DEF Derived, Corrected
  <2> QED BY <1>1, <1>2, <2>2
<1>3. CASE ~corrected
  BY <1>1, <1>3, DerivedIsEvidence DEF ReduceInv
<1> QED BY <1>2, <1>3

\* A draft is a report, and says that it was censored.
LEMMA DraftIsReport ==
  ASSUME NEW e, NEW c \in BOOLEAN
  PROVE  LET draft == From(e)!Draft(c)
         IN  /\ IsReport(draft)
             /\ c <=> "censored" \in draft.caveats
             /\ draft.tiers[2] = From(e)!SustainableTier
             /\ DOMAIN draft.rows = From(e)!RowLevels
<1>1. c <=> "censored" \in From(e)!NoteCaveats(c)
  BY DEF From!NoteCaveats
<1> QED BY <1>1 DEF From!Draft, IsReport

\* The search that is over leaves windows as the reduction expects them.
LEMMA InitShelved == ReduceInit => ReduceInv
<1> SUFFICES ASSUME ReduceInit PROVE ReduceInv
  OBVIOUS
<1>1. LadderPolicyAssumption /\ PatternsAssumption
  BY LadderPolicyAssumption, PatternsAssumption
<1>2. PICK pattern \in [Levels -> Patterns], last \in Levels, kept \in {1, Repetitions} :
         evidence = [level \in Levels |->
                {Labelled(level, n, pattern[level][n], FALSE) :
                    n \in 0 .. (IF level < last THEN Repetitions ELSE IF level = last
                                THEN kept ELSE 0) - 1}]
  BY DEF ReduceInit
<1>3. ASSUME NEW level \in Levels
      PROVE  Shelved(level, evidence[level])
  <2> DEFINE size == IF level < last THEN Repetitions ELSE IF level = last THEN kept ELSE 0
             label == [n \in 0 .. size - 1 |-> Labelled(level, n, pattern[level][n], FALSE)]
  <2>1. size \in Nat /\ size <= Repetitions /\ Repetitions \in Nat
    BY <1>1 DEF LadderPolicyAssumption
  <2>2. evidence[level] = {label[n] : n \in 0 .. size - 1}
    BY <1>2
  <2> HIDE DEF size
  <2>3. ASSUME NEW n \in 0 .. size - 1
        PROVE  /\ label[n] \in Repetition /\ label[n].concurrency = level
               /\ label[n].repetition = n /\ label[n].post_search = FALSE
    <3>1. n \in Nat /\ n \in 0 .. Repetitions - 1
      BY <2>1
    <3>2. pattern[level][n] \in [completed : BOOLEAN, slo_pass : BOOLEAN \cup {None},
                                tok_s : Nat \cup {None}, ttft : Nat \cup {None},
                                context : Nat \cup {None}]
      BY <1>1, <3>1 DEF PatternsAssumption
    <3> QED BY <3>1, <3>2 DEF Labelled, Repetition
  <2>4. IsFiniteSet(evidence[level])
    <3>1. label \in Surjection(0 .. size - 1, evidence[level])
      BY <2>2 DEF Surjection
    <3> HIDE DEF label
    <3> QED BY <2>1, <3>1, FS_Interval, FS_Surjection
  <2> HIDE DEF label
  <2>5. \A n \in 0 .. size - 1 : ~(n >= Repetitions)
    BY <2>1
  <2>6. \A rep \in evidence[level] : \E n \in 0 .. size - 1 : rep = label[n]
    BY <2>2
  <2>7. ASSUME NEW rep \in evidence[level]
        PROVE  /\ rep \in Repetition /\ rep.concurrency = level
               /\ rep.post_search = FALSE /\ ~(rep.repetition >= Repetitions)
    <3>1. PICK n \in 0 .. size - 1 : rep = label[n]
      BY <2>6
    <3>2. /\ label[n] \in Repetition /\ label[n].concurrency = level
          /\ label[n].repetition = n /\ label[n].post_search = FALSE /\ ~(n >= Repetitions)
      BY <2>3, <2>5
    <3> QED BY <3>1, <3>2
  <2>8. ASSUME NEW a \in evidence[level], NEW b \in evidence[level],
               a.repetition = b.repetition
        PROVE  a = b
    <3>1. PICK m \in 0 .. size - 1 : a = label[m]
      BY <2>6
    <3>2. PICK n \in 0 .. size - 1 : b = label[n]
      BY <2>6
    <3>3. label[m].repetition = m /\ label[n].repetition = n
      BY <2>3
    <3> QED BY <2>8, <3>1, <3>2, <3>3
  <2> QED BY <2>4, <2>7, <2>8 DEF Shelved
<1>4. EvidenceShelved
  <2>1. evidence = [level \in Levels |-> evidence[level]]
    BY <1>2
  <2> QED BY <1>3, <2>1 DEF EvidenceShelved
<1> QED BY <1>4 DEF ReduceInit, ReduceInv, Rests

-----------------------------------------------------------------------------
(***************************************************************************)
(* Two readings that grading cannot tell apart.  Windows are twins when    *)
(* they agree in all that grading reads; the correction only moves tails,  *)
(* so it turns every window into a twin.                                   *)
(***************************************************************************)
Twin(r, s) ==
  /\ r.repetition = s.repetition /\ r.concurrency = s.concurrency
  /\ r.offered = s.offered /\ r.completed = s.completed /\ r.slo_pass = s.slo_pass
  /\ r.tok_s = s.tok_s /\ r.outcome = s.outcome /\ r.post_search = s.post_search

ApartByNumber(S) ==
  IsFiniteSet(S) /\ \A a, b \in S : a.repetition = b.repetition => a = b

Twins(S, T) ==
  /\ ApartByNumber(S) /\ ApartByNumber(T)
  /\ \A r \in S : \E s \in T : Twin(r, s)
  /\ \A s \in T : \E r \in S : Twin(r, s)

\* Matched number by number, two sets of windows are of one size.
LEMMA MatchedSize ==
  ASSUME NEW S, NEW T, ApartByNumber(S), ApartByNumber(T),
         \A r \in S : \E s \in T : r.repetition = s.repetition,
         \A s \in T : \E r \in S : r.repetition = s.repetition
  PROVE  Cardinality(S) = Cardinality(T) /\ Cardinality(S) \in Nat
<1> DEFINE f == [r \in S |-> CHOOSE s \in T : r.repetition = s.repetition]
<1>1. \A r \in S : f[r] \in T /\ r.repetition = f[r].repetition
  <2> SUFFICES ASSUME NEW r \in S
               PROVE  f[r] \in T /\ r.repetition = f[r].repetition
    OBVIOUS
  <2>1. \E s \in T : r.repetition = s.repetition
    OBVIOUS
  <2>2. f[r] = CHOOSE s \in T : r.repetition = s.repetition
    OBVIOUS
  <2> QED BY <2>1, <2>2
<1>2. f \in [S -> T]
  BY <1>1
<1> HIDE DEF f
<1>3. f \in Injection(S, T)
  BY <1>1, <1>2 DEF Injection, IsInjective, ApartByNumber
<1>4. f \in Surjection(S, T)
  <2>1. ASSUME NEW s \in T PROVE \E r \in S : f[r] = s
    BY <1>1 DEF ApartByNumber
  <2> QED BY <1>2, <2>1 DEF Surjection
<1>5. f \in Bijection(S, T)
  BY <1>3, <1>4 DEF Bijection
<1>6. Cardinality(T) = Cardinality(S)
  BY <1>5, FS_Bijection DEF ApartByNumber, ExistsBijection
<1> QED BY <1>6, FS_CardinalityType DEF ApartByNumber

\* A part of a set of windows is as apart as the set.
LEMMA PartApart ==
  ASSUME NEW S, ApartByNumber(S), NEW U \in SUBSET S
  PROVE  ApartByNumber(U)
BY FS_Subset DEF ApartByNumber

\* An order statistic of the throughput is the same for twins.
LEMMA KthOfTwins ==
  ASSUME NEW S, NEW T, Twins(S, T), \A r \in S \cup T : r.tok_s \in Nat,
         NEW k \in 1 .. Cardinality(S)
  PROVE  KthFigure(S, "tok_s", k) = KthFigure(T, "tok_s", k)
<1>1. ApartByNumber(S) /\ ApartByNumber(T) /\ IsFiniteSet(S) /\ IsFiniteSet(T)
      /\ Cardinality(S) \in Nat
  BY FS_CardinalityType DEF Twins, ApartByNumber
<1> DEFINE lt == {pair \in S \X S : pair[1].tok_s < pair[2].tok_s}
<1>2. StrictOrder(S, lt) /\ \A a, b \in S : <<a, b>> \in lt <=> a.tok_s < b.tok_s
  <2>1. \A a, b \in S : <<a, b>> \in lt <=> a.tok_s < b.tok_s
    OBVIOUS
  <2> HIDE DEF lt
  <2> QED BY <2>1 DEF StrictOrder
<1> DEFINE j == k - 1
<1>3. j \in Nat /\ j < Cardinality(S) /\ k \in Nat /\ k = j + 1
  BY <1>1
<1> HIDE DEF lt, j
<1>4. PICK m \in S : /\ Cardinality({r \in S : <<r, m>> \in lt}) <= j
                     /\ j < Cardinality({r \in S : <<m, r>> \notin lt})
  <2>1. StrictOrder(S, lt) /\ IsFiniteSet(S) /\ j \in Nat /\ j < Cardinality(S)
    BY <1>1, <1>2, <1>3
  <2> QED BY <2>1, KthExists
<1> DEFINE less(U) == {r \in U : r.tok_s < m.tok_s}
           upto(U) == {r \in U : r.tok_s <= m.tok_s}
<1>5. less(S) = {r \in S : <<r, m>> \in lt} /\ upto(S) = {r \in S : <<m, r>> \notin lt}
  BY <1>2
<1>6. Cardinality(less(S)) = Cardinality(less(T)) /\ Cardinality(less(S)) \in Nat
  <2>1. ApartByNumber(less(S)) /\ ApartByNumber(less(T))
    BY <1>1, PartApart
  <2>2. /\ \A r \in less(S) : \E s \in less(T) : r.repetition = s.repetition
        /\ \A s \in less(T) : \E r \in less(S) : r.repetition = s.repetition
    BY DEF Twins, Twin
  <2> HIDE DEF less
  <2> QED BY <2>1, <2>2, MatchedSize
<1>7. Cardinality(upto(S)) = Cardinality(upto(T)) /\ Cardinality(upto(S)) \in Nat
  <2>1. ApartByNumber(upto(S)) /\ ApartByNumber(upto(T))
    BY <1>1, PartApart
  <2>2. /\ \A r \in upto(S) : \E s \in upto(T) : r.repetition = s.repetition
        /\ \A s \in upto(T) : \E r \in upto(S) : r.repetition = s.repetition
    BY DEF Twins, Twin
  <2> HIDE DEF upto
  <2> QED BY <2>1, <2>2, MatchedSize
<1>8. PICK n \in T : Twin(m, n)
  BY DEF Twins
<1>9. /\ Cardinality(less(S)) < k /\ k <= Cardinality(upto(S))
      /\ Cardinality(less(T)) < k /\ k <= Cardinality(upto(T))
  <2> HIDE DEF less, upto
  <2> QED BY <1>3, <1>4, <1>5, <1>6, <1>7
<1>10. ASSUME NEW U \in {S, T}, NEW e \in U, e.tok_s = m.tok_s
       PROVE  KthFigure(U, "tok_s", k) = e.tok_s
  <2>1. IsFiniteSet(U) /\ (\A r \in U : r["tok_s"] \in Nat) /\ k \in Nat
    BY <1>1, <1>3
  <2>2. /\ Cardinality({r \in U : r["tok_s"] < e["tok_s"]}) < k
        /\ k <= Cardinality({r \in U : r["tok_s"] <= e["tok_s"]})
    BY <1>9, <1>10
  <2> QED BY <2>1, <2>2, KthFigureIs
<1> QED BY <1>8, <1>10 DEF Twin

LadderTwins(d, e) ==
  \A level \in Levels : Twins(d[level], e[level])
                        /\ d[level] \subseteq Repetition /\ e[level] \subseteq Repetition

\* Being twins is mutual.
LEMMA TwinsMutual == ASSUME NEW d, NEW e, LadderTwins(d, e) PROVE LadderTwins(e, d)
BY DEF LadderTwins, Twins, Twin

\* What a rung of twins counts, measures and is found to be.
LEMMA PartsOfTwins ==
  ASSUME NEW d, NEW e, LadderTwins(d, e), NEW level \in Levels
  PROVE  /\ From(d)!Stray(level) = {} => From(e)!Stray(level) = {}
         /\ Twins(From(d)!Valid(level), From(e)!Valid(level))
         /\ Twins(From(d)!Counted(level), From(e)!Counted(level))
         /\ Twins(From(d)!Measured(level), From(e)!Measured(level))
         /\ Twins(From(d)!RowRepetitions(level), From(e)!RowRepetitions(level))
         /\ Twins(From(d)!PassedConfirmations(level), From(e)!PassedConfirmations(level))
         /\ (\E rep \in From(d)!Valid(level) : RepetitionFailure(rep)) =>
               \E rep \in From(e)!Valid(level) : RepetitionFailure(rep)
         /\ (\E rep \in From(d)!Valid(level) : ZeroCompletions(rep)) =>
               \E rep \in From(e)!Valid(level) : ZeroCompletions(rep)
<1> DEFINE S == d[level]
           T == e[level]
<1>1. Twins(S, T) /\ ApartByNumber(S) /\ ApartByNumber(T)
  BY DEF LadderTwins, Twins
<1>2. From(d)!Stray(level) = {} => From(e)!Stray(level) = {}
  BY <1>1 DEF From!Stray, Twins, Twin
<1>3. Twins(From(d)!Valid(level), From(e)!Valid(level))
  <2>1. /\ From(d)!Valid(level) = {r \in S : r.concurrency = level /\ r.outcome # "invalid"}
        /\ From(e)!Valid(level) = {r \in T : r.concurrency = level /\ r.outcome # "invalid"}
    BY DEF From!Valid, From!Stray
  <2>2. ApartByNumber(From(d)!Valid(level)) /\ ApartByNumber(From(e)!Valid(level))
    BY <1>1, <2>1, PartApart
  <2> HIDE DEF S, T
  <2> QED BY <1>1, <2>1, <2>2 DEF Twins, Twin
<1> HIDE DEF S, T
<1>4. \A r, s : Twin(r, s) => /\ ZeroCompletions(r) <=> ZeroCompletions(s)
                              /\ RepetitionFailure(r) <=> RepetitionFailure(s)
  BY DEF Twin, ZeroCompletions, RepetitionFailure
<1>5. Twins(From(d)!Counted(level), From(e)!Counted(level))
  <2>1. ApartByNumber(From(d)!Counted(level)) /\ ApartByNumber(From(e)!Counted(level))
    BY <1>3, PartApart DEF From!Counted, Twins
  <2> QED BY <1>3, <2>1 DEF From!Counted, Twins, Twin
<1>6. Twins(From(d)!Measured(level), From(e)!Measured(level))
  <2>1. ApartByNumber(From(d)!Measured(level)) /\ ApartByNumber(From(e)!Measured(level))
    BY <1>5, PartApart DEF From!Measured, Twins
  <2> QED BY <1>5, <2>1 DEF From!Measured, Twins, Twin
<1>7. Twins(From(d)!RowRepetitions(level), From(e)!RowRepetitions(level))
  <2>1. ApartByNumber(From(d)!RowRepetitions(level)) /\ ApartByNumber(From(e)!RowRepetitions(level))
    BY <1>1, PartApart DEF From!RowRepetitions, S, T
  <2> QED BY <1>1, <2>1 DEF From!RowRepetitions, Twins, Twin, S, T
<1>8. Twins(From(d)!PassedConfirmations(level), From(e)!PassedConfirmations(level))
  <2>1. \A f \in {d, e} : From(f)!PassedConfirmations(level)
                            = {r \in From(f)!Valid(level) : r.post_search /\ ~RepetitionFailure(r)}
    BY SameFigures DEF From!PassedConfirmations, From!Confirmations
  <2>2. /\ ApartByNumber(From(d)!PassedConfirmations(level))
        /\ ApartByNumber(From(e)!PassedConfirmations(level))
    BY <1>3, <2>1, PartApart DEF Twins
  <2>3. \A r, s : Twin(r, s) => (r.post_search <=> s.post_search)
    BY DEF Twin
  <2> QED BY <1>3, <1>4, <2>1, <2>2, <2>3 DEF Twins
<1>9. /\ (\E rep \in From(d)!Valid(level) : RepetitionFailure(rep)) =>
               \E rep \in From(e)!Valid(level) : RepetitionFailure(rep)
      /\ (\E rep \in From(d)!Valid(level) : ZeroCompletions(rep)) =>
               \E rep \in From(e)!Valid(level) : ZeroCompletions(rep)
  BY <1>3, <1>4 DEF Twins
<1> QED BY <1>2, <1>3, <1>5, <1>6, <1>7, <1>8, <1>9

\* So the rung's verdict is the same, and so is its throughput.
LEMMA RungOfTwins ==
  ASSUME LadderPolicyAssumption, NEW d, NEW e, LadderTwins(d, e), NEW level \in Levels
  PROVE  /\ From(d)!RungVerdict(level) = From(e)!RungVerdict(level)
         /\ From(d)!Measured(level) = {} <=> From(e)!Measured(level) = {}
         /\ From(d)!Measured(level) # {} =>
               From(d)!Throughput2(level) = From(e)!Throughput2(level)
         /\ From(d)!RungZeroCompletions(level) <=> From(e)!RungZeroCompletions(level)
         /\ From(d)!RowRepetitions(level) = {} <=> From(e)!RowRepetitions(level) = {}
         /\ From(d)!PassedConfirmations(level) = {} <=> From(e)!PassedConfirmations(level) = {}
         /\ d[level] = {} <=> e[level] = {}
<1>1. LadderTwins(e, d)
  BY TwinsMutual
<1>2. /\ From(d)!Stray(level) = {} <=> From(e)!Stray(level) = {}
      /\ From(d)!Failed(level) <=> From(e)!Failed(level)
      /\ From(d)!RungZeroCompletions(level) <=> From(e)!RungZeroCompletions(level)
  <2>1. /\ From(d)!Stray(level) = {} <=> From(e)!Stray(level) = {}
        /\ (\E rep \in From(d)!Valid(level) : RepetitionFailure(rep)) <=>
               \E rep \in From(e)!Valid(level) : RepetitionFailure(rep)
        /\ (\E rep \in From(d)!Valid(level) : ZeroCompletions(rep)) <=>
               \E rep \in From(e)!Valid(level) : ZeroCompletions(rep)
    BY <1>1, PartsOfTwins
  <2> QED BY <2>1, SameFigures DEF From!Failed, From!RungZeroCompletions
<1>3. \A S, T : Twins(S, T) => Cardinality(S) = Cardinality(T) /\ (S = {} <=> T = {})
  <2> SUFFICES ASSUME NEW S, NEW T, Twins(S, T)
               PROVE  Cardinality(S) = Cardinality(T) /\ (S = {} <=> T = {})
    OBVIOUS
  <2>1. /\ ApartByNumber(S) /\ ApartByNumber(T)
        /\ \A r \in S : \E s \in T : r.repetition = s.repetition
        /\ \A s \in T : \E r \in S : r.repetition = s.repetition
    BY DEF Twins, Twin
  <2> QED BY <2>1, MatchedSize
<1>4. From(d)!RungVerdict(level) = From(e)!RungVerdict(level)
  <2>1. Cardinality(From(d)!Counted(level)) = Cardinality(From(e)!Counted(level))
    BY <1>3, PartsOfTwins
  <2>2. \A f : From(f)!RungVerdict(level)
                 = IF From(f)!Stray(level) # {} \/ Cardinality(From(f)!Counted(level)) < Repetitions
                   THEN "invalid" ELSE IF From(f)!Failed(level) THEN "failed" ELSE "complete"
    BY SameFigures DEF From!RungVerdict
  <2> QED BY <1>2, <2>1, <2>2
<1>5. ASSUME From(d)!Measured(level) # {}
      PROVE  From(d)!Throughput2(level) = From(e)!Throughput2(level)
  <2> DEFINE S == From(d)!Measured(level)
             T == From(e)!Measured(level)
             n == Cardinality(S)
  <2>1. Twins(S, T) /\ n = Cardinality(T)
    BY <1>3, PartsOfTwins
  <2>2. \A r \in S \cup T : r.tok_s \in Nat
    BY DEF From!Measured, From!Counted, From!Valid, LadderTwins, Repetition
  <2>3. n \in Nat /\ n > 0
    <3>1. IsFiniteSet(S) /\ S # {}
      BY <1>5, <2>1 DEF Twins, ApartByNumber
    <3> HIDE DEF S
    <3> QED BY <3>1, FS_CardinalityType, FS_EmptySet
  <2> HIDE DEF S, T, n
  <2>4. (n + 1) \div 2 \in 1 .. n /\ (n \div 2) + 1 \in 1 .. n
    BY <2>3
  <2>5. \A k \in 1 .. n : KthFigure(S, "tok_s", k) = KthFigure(T, "tok_s", k)
    BY <2>1, <2>2, KthOfTwins DEF n
  <2>6. TwiceMedian(S) = TwiceMedian(T)
    <3>1. /\ TwiceMedian(S) = KthFigure(S, "tok_s", (n + 1) \div 2)
                              + KthFigure(S, "tok_s", (n \div 2) + 1)
          /\ TwiceMedian(T) = KthFigure(T, "tok_s", (n + 1) \div 2)
                              + KthFigure(T, "tok_s", (n \div 2) + 1)
      BY <2>1 DEF TwiceMedian, n
    <3> QED BY <2>4, <2>5, <3>1
  <2> QED BY <2>6, SameFigures DEF From!Throughput2, S, T
<1> QED BY <1>2, <1>3, <1>4, <1>5, PartsOfTwins DEF LadderTwins

\* And so is the ladder's: the rungs it graded, the boundary and whether it is published.
LEMMA LadderOfTwins ==
  ASSUME LadderPolicyAssumption, NEW d, NEW e, LadderTwins(d, e)
  PROVE  /\ From(d)!RowLevels = From(e)!RowLevels
         /\ From(d)!SustainableTier.users = From(e)!SustainableTier.users
<1>0. \A level \in Levels :
         /\ From(d)!RungVerdict(level) = From(e)!RungVerdict(level)
         /\ From(d)!Measured(level) = {} <=> From(e)!Measured(level) = {}
         /\ From(d)!Measured(level) # {} =>
               From(d)!Throughput2(level) = From(e)!Throughput2(level)
         /\ From(d)!RungZeroCompletions(level) <=> From(e)!RungZeroCompletions(level)
         /\ From(d)!RowRepetitions(level) = {} <=> From(e)!RowRepetitions(level) = {}
         /\ From(d)!PassedConfirmations(level) = {} <=> From(e)!PassedConfirmations(level) = {}
         /\ d[level] = {} <=> e[level] = {}
  BY RungOfTwins
<1>1. /\ From(d)!Rungs = From(e)!Rungs /\ From(d)!Rungs \subseteq Levels
      /\ \A level : From(d)!Below(level) = From(e)!Below(level)
  BY <1>0 DEF From!Rungs, From!Below
<1>2. \A level \in Levels : From(d)!CollapseReferences(level) = From(e)!CollapseReferences(level)
                            /\ From(d)!CollapseReferences(level) \subseteq Levels
                            /\ \A l \in From(d)!CollapseReferences(level) :
                                  From(d)!Measured(l) # {}
  BY <1>0, <1>1 DEF From!CollapseReferences, From!Below
<1>3. \A level \in Levels : From(d)!Collapsed(level) <=> From(e)!Collapsed(level)
  <2> SUFFICES ASSUME NEW level \in Levels
               PROVE  From(d)!Collapsed(level) <=> From(e)!Collapsed(level)
    OBVIOUS
  <2> DEFINE refs == From(d)!CollapseReferences(level)
  <2>1. refs = From(e)!CollapseReferences(level)
        /\ \A l \in refs : From(d)!Throughput2(l) = From(e)!Throughput2(l)
    BY <1>0, <1>2
  <2>2. /\ From(d)!RungVerdict(level) = From(e)!RungVerdict(level)
        /\ From(d)!Measured(level) = {} <=> From(e)!Measured(level) = {}
        /\ From(d)!Measured(level) # {} =>
               From(d)!Throughput2(level) = From(e)!Throughput2(level)
    BY <1>0
  <2> HIDE DEF refs
  <2> QED BY <2>1, <2>2 DEF From!Collapsed, refs
<1>4. From(d)!Graded = From(e)!Graded /\ From(d)!Graded \subseteq Levels
  <2>1. \A level \in Levels : From(d)!Terminates(level) <=> From(e)!Terminates(level)
    BY <1>0, <1>3 DEF From!Terminates
  <2>2. \A level : From(d)!Below(level) \subseteq Levels
    BY <1>1 DEF From!Below
  <2>3. \A level \in From(d)!Rungs : (\A l \in From(d)!Below(level) : ~From(d)!Terminates(l))
                                  <=> (\A l \in From(e)!Below(level) : ~From(e)!Terminates(l))
    BY <1>1, <2>1, <2>2
  <2>4. From(d)!Graded = {level \in From(d)!Rungs :
                            \A l \in From(d)!Below(level) : ~From(d)!Terminates(l)}
        /\ From(e)!Graded = {level \in From(e)!Rungs :
                            \A l \in From(e)!Below(level) : ~From(e)!Terminates(l)}
    BY DEF From!Graded
  <2> QED BY <1>1, <2>3, <2>4
<1>5. \A level \in Levels : From(d)!Outcome(level) = From(e)!Outcome(level)
  BY <1>0, <1>3 DEF From!Outcome
<1>6. From(d)!Complete = From(e)!Complete /\ From(d)!Complete \subseteq Levels
  BY <1>4, <1>5 DEF From!Complete
<1>7. From(d)!Monotone <=> From(e)!Monotone
  BY <1>4, <1>6 DEF From!Monotone
<1>8. /\ From(d)!MaxSustainable = From(e)!MaxSustainable
      /\ From(d)!MaxSustainable \in Levels \cup {None}
  <2>1. From(d)!Sustainable = From(e)!Sustainable
        /\ From(d)!Sustainable \subseteq Levels
    BY <1>4, <1>6 DEF From!Sustainable
  <2> DEFINE S == From(d)!Sustainable
  <2>2. \A f \in {d, e} : From(f)!MaxSustainable = IF S = {} THEN None ELSE MaxOf(S)
    BY <2>1, SameFigures DEF From!MaxSustainable
  <2> HIDE DEF S
  <2>3. S # {} => MaxOf(S) \in S
    <3>1. S \in SUBSET Nat /\ IsFiniteSet(S)
      BY <2>1, FS_Subset DEF LadderPolicyAssumption, S
    <3> QED BY <3>1, MaxOfIsGreatest
  <2> QED BY <2>1, <2>2, <2>3 DEF S
<1>9. From(d)!Publishable(FALSE) <=> From(e)!Publishable(FALSE)
  BY <1>0, <1>7, <1>8 DEF From!Publishable, From!Confirmed
<1>10. From(d)!Publishable(FALSE) => From(d)!MaxSustainable \in Levels
  BY <1>8 DEF From!Publishable, From!Confirmed
<1>11. From(d)!RowLevels = From(e)!RowLevels
  BY <1>0, <1>4 DEF From!RowLevels
<1>12. From(d)!SustainableTier.users = From(e)!SustainableTier.users
  <2>1. \A f : From(f)!SustainableTier.users
           = IF ~From(f)!Publishable(FALSE)
                  \/ From(f)!RowRepetitions(From(f)!MaxSustainable) = {}
             THEN None ELSE From(f)!MaxSustainable
    BY DEF From!SustainableTier, From!Unfilled, From!FilledTier
  <2> QED BY <1>0, <1>8, <1>9, <1>10, <2>1
<1> QED BY <1>11, <1>12

\* The correction moves tails, and grading does not look at tails.
LEMMA CorrectedAreTwins ==
  ASSUME LadderPolicyAssumption, EvidenceShelved
  PROVE  LadderTwins(evidence, Corrected(evidence))
<1> SUFFICES ASSUME NEW level \in Levels
             PROVE  /\ Twins(evidence[level], Corrected(evidence)[level])
                    /\ evidence[level] \subseteq Repetition
                    /\ Corrected(evidence)[level] \subseteq Repetition
  BY DEF LadderTwins
<1> DEFINE S == evidence[level]
           T == {Later(rep) : rep \in S}
<1>1. /\ IsFiniteSet(S) /\ S \subseteq Repetition
      /\ \A a, b \in S : a.repetition = b.repetition => a = b
  BY DEF EvidenceShelved, Shelved
<1>2. Corrected(evidence)[level] = T
  BY DEF Corrected
<1> HIDE DEF S
<1>3. ASSUME NEW rep \in S
      PROVE  Later(rep) \in Repetition /\ Twin(rep, Later(rep))
  <2>1. rep \in Repetition /\ (rep.ttft # None => rep.ttft + 1 \in Nat)
    BY <1>1 DEF Repetition
  <2> QED BY <2>1 DEF Later, Twin, Repetition
<1>4. IsFiniteSet(T)
  <2> DEFINE later == [rep \in S |-> Later(rep)]
  <2>1. later \in Surjection(S, T)
    BY DEF Surjection
  <2> HIDE DEF later, T
  <2> QED BY <1>1, <2>1, FS_Surjection
<1>5. \A t \in T : \E rep \in S : t = Later(rep)
  OBVIOUS
<1>6. \A rep \in S : Later(rep) \in T
  OBVIOUS
<1> HIDE DEF T
<1>7. \A a, b \in T : a.repetition = b.repetition => a = b
  BY <1>1, <1>3, <1>5 DEF Twin
<1>8. T \subseteq Repetition
  BY <1>3, <1>5
<1>9. Twins(S, T)
  <2>1. \A r \in S : \E t \in T : Twin(r, t)
    BY <1>3, <1>6
  <2>2. \A t \in T : \E r \in S : Twin(r, t)
    BY <1>3, <1>5
  <2> QED BY <1>1, <1>4, <1>7, <2>1, <2>2 DEF Twins, ApartByNumber
<1> QED BY <1>1, <1>2, <1>8, <1>9 DEF S

\* So the correction of the reduction moves neither the rungs nor the boundary.
LEMMA SameLadder ==
  ASSUME LadderPolicyAssumption, EvidenceShelved
  PROVE  /\ From(Corrected(evidence))!RowLevels = From(evidence)!RowLevels
         /\ From(Corrected(evidence))!SustainableTier.users
              = From(evidence)!SustainableTier.users
<1> DEFINE e == Corrected(evidence)
<1>1. LadderTwins(evidence, e)
  BY CorrectedAreTwins
<1> HIDE DEF e
<1>2. LadderTwins(e, evidence)
  BY <1>1, TwinsMutual
<1>3. /\ From(e)!RowLevels = From(evidence)!RowLevels
      /\ From(e)!SustainableTier.users = From(evidence)!SustainableTier.users
  BY <1>2, LadderOfTwins
<1> QED BY <1>3 DEF e

\* What the whole records give has the rungs and the boundary of the evidence.
LEMMA WholeRecordsLadder ==
  ASSUME LadderPolicyAssumption, ReduceInv, published # None
  PROVE  LET draft == DraftWithout({})
         IN  /\ IsReport(draft)
             /\ draft.tiers[2].users = From(evidence)!SustainableTier.users
             /\ DOMAIN draft.rows = From(evidence)!RowLevels
<1>1. EvidenceShelved
  BY DEF ReduceInv
<1>2. \A e : /\ IsReport(From(e)!Draft(FALSE))
             /\ From(e)!Draft(FALSE).tiers[2] = From(e)!SustainableTier
             /\ DOMAIN From(e)!Draft(FALSE).rows = From(e)!RowLevels
  BY DraftIsReport
<1>3. CASE corrected
  <2>1. DraftWithout({}) = From(Corrected(evidence))!Draft(FALSE)
    BY <1>3, WholeRecords
  <2> QED BY <1>1, <1>2, <2>1, SameLadder
<1>4. CASE ~corrected
  <2>1. DraftWithout({}) = From(evidence)!Draft(FALSE)
    BY <1>4, WholeRecords
  <2> QED BY <1>2, <2>1
<1> QED BY <1>3, <1>4

-----------------------------------------------------------------------------
(* The steps. *)

\* The confirmation files one window more, numbered past the repetitions.
LEMMA ConfirmKeeps ==
  ASSUME LadderPolicyAssumption, PatternsAssumption, ReduceInv, ConfirmRun
  PROVE  ReduceInv'
<1>1. PICK pattern \in Patterns :
         File(MaxSustainable, Labelled(MaxSustainable, Repetitions, pattern[0], TRUE))
  BY DEF ConfirmRun
<1> DEFINE b == MaxSustainable
           new == Labelled(b, Repetitions, pattern[0], TRUE)
<1>2. b \in Levels
  BY BoundaryIsARung DEF ConfirmRun
<1>3. new \in Repetition /\ new.concurrency = b /\ new.repetition = Repetitions
      /\ new.post_search = TRUE
  <2>1. 0 \in 0 .. Repetitions - 1 /\ Repetitions \in Nat
    BY DEF LadderPolicyAssumption
  <2>2. pattern[0] \in [completed : BOOLEAN, slo_pass : BOOLEAN \cup {None},
                       tok_s : Nat \cup {None}, ttft : Nat \cup {None},
                       context : Nat \cup {None}]
    BY <2>1 DEF PatternsAssumption
  <2> HIDE DEF b
  <2> QED BY <1>2, <2>1, <2>2 DEF Labelled, Repetition
<1> HIDE DEF new
<1>4. evidence' = [evidence EXCEPT ![b] = @ \cup {new}]
  BY <1>1 DEF File, new
<1>5. \A rep \in evidence[b] : ~rep.post_search
  <2>1. \A rep \in Bundled : ~rep.post_search
    BY DEF ConfirmRun
  <2> QED BY <1>2, <2>1 DEF Bundled
<1> HIDE DEF b
<1>6. ASSUME NEW level \in Levels
      PROVE  Shelved(level, evidence'[level])
  <2>1. Shelved(level, evidence[level])
    BY DEF ReduceInv, EvidenceShelved
  <2>2. CASE level # b
    <3>1. evidence'[level] = evidence[level]
      BY <1>4, <2>2 DEF ReduceInv, EvidenceShelved
    <3> QED BY <2>1, <3>1
  <2>3. CASE level = b
    <3>1. evidence'[level] = evidence[level] \cup {new}
      BY <1>4, <2>3 DEF ReduceInv, EvidenceShelved
    <3> DEFINE S == evidence[level]
    <3>2. \A rep \in S : rep \in Repetition /\ rep.repetition # Repetitions
      <4>1. \A rep \in S : rep \in Repetition /\ ~(rep.repetition >= Repetitions)
        BY <1>5, <2>1, <2>3 DEF Shelved
      <4> QED BY <4>1 DEF LadderPolicyAssumption
    <3>3. IsFiniteSet(S \cup {new})
      BY <2>1, FS_AddElement DEF Shelved
    <3>4. new.post_search <=> new.repetition >= Repetitions
      BY <1>3 DEF LadderPolicyAssumption
    <3> HIDE DEF S
    <3>5. Shelved(level, S)
      BY <2>1 DEF S
    <3>6. Shelved(level, S \cup {new})
      BY <1>3, <2>3, <3>2, <3>3, <3>4, <3>5 DEF Shelved
    <3> QED BY <3>1, <3>6 DEF S
  <2> QED BY <2>2, <2>3
<1>7. EvidenceShelved'
  <2>1. evidence' = [level \in Levels |-> evidence'[level]]
    BY <1>4 DEF ReduceInv, EvidenceShelved
  <2> QED BY <1>6, <2>1 DEF EvidenceShelved
<1>8. published' = None /\ UNCHANGED <<censored, corrected, basis, elided>>
  BY DEF ConfirmRun
<1> QED BY <1>7, <1>8 DEF ReduceInv, Rests

\* The bundle is written with the draft of the live run.
LEMMA PublishKeeps ==
  ASSUME ReduceInv, PublishRun
  PROVE  ReduceInv'
<1>1. UNCHANGED <<evidence, censored, corrected, elided>> /\ basis' = "released"
  BY DEF PublishRun
<1>2. BundleIsEvidence'
  <2>1. Bundled' = Bundled
    BY <1>1 DEF Bundled
  <2> QED BY <2>1 DEF PublishRun, BundleIsEvidence, Unmarked
<1>3. published' = From(evidence)!Draft(censored)
  <2>1. published' = Draft(censored)
    BY DEF PublishRun
  <2> QED BY <2>1, FromEvidence
<1>4. censored \in BOOLEAN
  BY DEF ReduceInv
<1>5. /\ IsReport(published') /\ (censored => "censored" \in published'.caveats)
      /\ published'.tiers[2] = From(evidence)!SustainableTier
      /\ DOMAIN published'.rows = From(evidence)!RowLevels
  BY <1>3, <1>4, DraftIsReport
<1>6. Rests'
  BY <1>1, <1>3, <1>5 DEF Rests, IsReport
<1>7. EvidenceShelved'
  BY <1>1 DEF EvidenceShelved, ReduceInv
<1> QED BY <1>1, <1>2, <1>6, <1>7 DEF ReduceInv

\* A rebuild is written of the whole records or not at all, and never over a report that
\* says it was censored.
LEMMA ReduceKeeps ==
  ASSUME LadderPolicyAssumption, ReduceInv, Reduce
  PROVE  ReduceInv'
<1>1. published # None /\ elided = {} /\ ~("censored" \in published.caveats)
  BY DEF Reduce, RebuildRefuses, GradingElisions, DeriveRefuses, SaysCensored
<1>2. UNCHANGED <<evidence, windows, censored, corrected, elided>>
  BY DEF Reduce, runVars
<1>3. published' = DraftWithout({}) /\ basis' = IF corrected THEN "corrected" ELSE "released"
  BY <1>1 DEF Reduce, Rebuilt
<1>4. censored = FALSE
  BY <1>1 DEF ReduceInv, Rests
<1>5. /\ IsReport(published')
      /\ published'.tiers[2].users = From(evidence)!SustainableTier.users
      /\ DOMAIN published'.rows = From(evidence)!RowLevels
  BY <1>1, <1>3, WholeRecordsLadder
<1>6. published' = IF corrected THEN From(Corrected(evidence))!Draft(FALSE)
                                ELSE From(evidence)!Draft(FALSE)
  BY <1>1, <1>3, WholeRecords
<1>7. Rests'
  BY <1>2, <1>3, <1>4, <1>5, <1>6 DEF Rests, IsReport, Corrected
<1>8. EvidenceShelved' /\ BundleIsEvidence' /\ basis' \in {"released", "corrected", "edited"}
  BY <1>1, <1>2, <1>3 DEF EvidenceShelved, BundleIsEvidence, Bundled, ReduceInv
<1> QED BY <1>2, <1>7, <1>8 DEF ReduceInv

\* An edit by hand touches a figure, and nothing else of the report.
LEMMA EditKeeps ==
  ASSUME ReduceInv, EditFigure
  PROVE  ReduceInv'
<1>1. published # None /\ IsReport(published)
  BY DEF EditFigure, ReduceInv, Rests
<1>2. UNCHANGED <<evidence, windows, censored, corrected, elided>> /\ basis' = "edited"
  BY DEF EditFigure, runVars
<1>3. PICK level \in DOMAIN published.rows :
         published' = [published EXCEPT !.rows[level].tok_s = IF @ = None THEN 1 ELSE @ + 1]
  BY DEF EditFigure
<1>4. PICK rows : /\ published' = [published EXCEPT !.rows = rows]
                  /\ DOMAIN rows = DOMAIN published.rows
  BY <1>3
<1>5. /\ IsReport(published')
      /\ published'.caveats = published.caveats /\ published'.tiers = published.tiers
      /\ DOMAIN published'.rows = DOMAIN published.rows
  BY <1>1, <1>4 DEF IsReport
<1>6. Rests'
  BY <1>1, <1>2, <1>5 DEF Rests, ReduceInv, IsReport
<1>7. EvidenceShelved' /\ BundleIsEvidence'
  BY <1>1, <1>2 DEF EvidenceShelved, BundleIsEvidence, Bundled, ReduceInv
<1> QED BY <1>2, <1>6, <1>7 DEF ReduceInv

\* Every step keeps the invariant.
LEMMA ReduceStep ==
  ASSUME LadderPolicyAssumption, PatternsAssumption, ReduceInv, [ReduceNext]_reduceVars
  PROVE  ReduceInv'
<1>1. ASSUME UNCHANGED <<evidence, windows, censored, published, basis>>,
             corrected' \in BOOLEAN, corrected => corrected', elided' \subseteq Fields
      PROVE  ReduceInv'
  <2>1. Rests'
    BY <1>1 DEF Rests, ReduceInv, IsReport, Corrected
  <2>2. EvidenceShelved' /\ (published' # None => BundleIsEvidence')
    BY <1>1 DEF EvidenceShelved, BundleIsEvidence, Bundled, ReduceInv
  <2> QED BY <1>1, <2>1, <2>2 DEF ReduceInv
<1>2. CASE ConfirmRun
  BY <1>2, ConfirmKeeps
<1>3. CASE PublishRun
  BY <1>3, PublishKeeps
<1>4. CASE Reduce
  BY <1>4, ReduceKeeps
<1>5. CASE EditFigure
  BY <1>5, EditKeeps
<1>6. CASE Grade
  BY <1>1, <1>6 DEF Grade, runVars, ReduceInv
<1>7. CASE CorrectReduction
  BY <1>1, <1>7 DEF CorrectReduction, runVars, ReduceInv
<1>8. ASSUME NEW field \in Fields, Elide(field)
      PROVE  ReduceInv'
  BY <1>1, <1>8 DEF Elide, runVars, ReduceInv
<1>9. CASE UNCHANGED reduceVars
  BY <1>1, <1>9 DEF reduceVars, ReduceInv
<1> QED BY <1>2, <1>3, <1>4, <1>5, <1>6, <1>7, <1>8, <1>9 DEF ReduceNext

\* Every report of every history is a draft of its evidence, of the corrected reading of
\* it, or an edit that left the rungs, the tiers and the caveats (rereduce.py, report.py).
THEOREM ReduceInvariant == ReduceSpec => []ReduceInv
<1>1. LadderPolicyAssumption /\ PatternsAssumption
  BY LadderPolicyAssumption, PatternsAssumption
<1>2. ReduceInit => ReduceInv
  BY InitShelved
<1>3. ReduceInv /\ [ReduceNext]_reduceVars => ReduceInv'
  BY <1>1, ReduceStep
<1> QED BY <1>2, <1>3, PTL DEF ReduceSpec

\* A truncated ladder is marked as one for good: no grading, rebuild or edit publishes its
\* lower bounds without the sentence that says so (rereduce.py: a rebuild of a report that
\* says "censored" is refused).
THEOREM CensoredIsMarked == ReduceSpec => []CensoredStaysMarked
<1>1. ReduceInv => CensoredStaysMarked
  BY DEF ReduceInv, Rests, CensoredStaysMarked
<1> QED BY <1>1, ReduceInvariant, PTL

\* While the code is the one the figures rest on, a check of the whole records matches in
\* full, graded or not; once the code was corrected a rebuild restores that.
THEOREM BundleIsSufficient == ReduceSpec => []BundleRegeneratesReport
<1>1. LadderPolicyAssumption
  BY LadderPolicyAssumption
<1>2. ASSUME ReduceInv, published # None, Current, elided = {}, ~DeriveRefuses
      PROVE  CheckExit = 0
  <2>1. ~censored
    BY <1>2 DEF ReduceInv, Rests, DeriveRefuses, SaysCensored
  <2>2. Rebuilt = IF corrected THEN From(Corrected(evidence))!Draft(FALSE)
                               ELSE From(evidence)!Draft(FALSE)
    BY <1>1, <1>2, WholeRecords DEF Rebuilt
  <2>3. published = Rebuilt
    <3>1. CASE corrected
      BY <1>2, <2>2, <3>1 DEF Current, ReduceInv, Rests
    <3>2. CASE ~corrected
      <4>1. basis = "released" /\ censored = FALSE
        BY <1>2, <2>1, <3>2 DEF Current, ReduceInv
      <4> QED BY <1>2, <2>2, <3>2, <4>1 DEF ReduceInv, Rests
    <3> QED BY <3>1, <3>2
  <2>4. ~CheckRefuses
    BY <1>2 DEF CheckRefuses, Unmapped
  <2>5. Matches(Rebuilt)
    BY <2>3 DEF Matches
  <2> QED BY <2>4, <2>5 DEF CheckExit
<1>3. ReduceInv => BundleRegeneratesReport
  BY <1>2 DEF BundleRegeneratesReport
<1> QED BY <1>3, ReduceInvariant, PTL

\* No sequence of elisions, corrections and rebuilds publishes a sustainable number the
\* whole records do not back: a rebuild from elided records is refused, and the correction
\* of the tail estimator moves no verdict the windows recorded.
THEOREM NothingIsPromoted == ReduceSpec => []NothingPromoted
<1>1. LadderPolicyAssumption
  BY LadderPolicyAssumption
<1>2. ASSUME ReduceInv, published # None
      PROVE  Unelided.tiers[2].users = published.tiers[2].users
  <2>1. published.tiers[2].users = From(evidence)!SustainableTier.users
    BY <1>2 DEF ReduceInv, Rests
  <2>2. Unelided.tiers[2].users = From(evidence)!SustainableTier.users
    BY <1>1, <1>2, WholeRecordsLadder DEF Unelided
  <2> QED BY <2>1, <2>2
<1>3. ReduceInv => NothingPromoted
  BY <1>2 DEF NothingPromoted
<1> QED BY <1>3, ReduceInvariant, PTL

-----------------------------------------------------------------------------
(***************************************************************************)
(* What a check certifies.  Without its stamps a window may pass a gate it *)
(* failed, but neither its throughput nor its tail moves, and the row is   *)
(* chosen by those two and the number alone.                               *)
(***************************************************************************)
Mate(r, s) ==
  /\ r.repetition = s.repetition /\ r.post_search = s.post_search
  /\ r.tok_s = s.tok_s /\ r.ttft = s.ttft

Mates(S, T) ==
  /\ S \subseteq Repetition /\ T \subseteq Repetition
  /\ ApartByNumber(S) /\ ApartByNumber(T)
  /\ \A r \in S : \E s \in T : Mate(r, s)
  /\ \A s \in T : \E r \in S : Mate(r, s)

\* e stands in the middle of the ranking of a rung's windows.
InTheMiddle(S, e) ==
  LET k == (Cardinality(Ranked(S)) - 1) \div 2
  IN  /\ e \in Ranked(S)
      /\ Cardinality({r \in Ranked(S) : Precedes(r, e)}) <= k
      /\ k < Cardinality({r \in Ranked(S) : ~Precedes(e, r)})

\* Of two windows with different numbers one precedes the other, and only one window
\* stands in the middle.
LEMMA OneInTheMiddle ==
  ASSUME LadderPolicyAssumption, NEW S \in SUBSET Repetition, ApartByNumber(S),
         NEW a, InTheMiddle(S, a), NEW b, InTheMiddle(S, b)
  PROVE  a = b
<1> DEFINE R == Ranked(S)
           k == (Cardinality(R) - 1) \div 2
<1>1. R \subseteq S
  BY DEF Ranked
<1> HIDE DEF R
<1>2. /\ IsFiniteSet(R) /\ R \subseteq Repetition
      /\ \A x, y \in R : x.repetition = y.repetition => x = y
  BY <1>1, FS_Subset DEF ApartByNumber
<1> DEFINE lt == {pair \in R \X R : Precedes(pair[1], pair[2])}
<1>3. StrictOrder(R, lt)
  BY <1>2, PrecedesOrders
<1>4. \A x, y \in R : <<x, y>> \in lt <=> Precedes(x, y)
  OBVIOUS
<1>5. \A x \in R : \A y \in R : x # y => Precedes(x, y) \/ Precedes(y, x)
  <2> SUFFICES ASSUME NEW x \in R, NEW y \in R, x # y
               PROVE  Precedes(x, y) \/ Precedes(y, x)
    OBVIOUS
  <2>1. x.repetition # y.repetition /\ x.repetition \in Nat /\ y.repetition \in Nat
    BY <1>2 DEF Repetition
  <2>2. TokS(x) \in Nat /\ TokS(y) \in Nat
    BY <1>2 DEF Repetition, TokS
  <2> QED BY <2>1, <2>2 DEF Precedes
<1> HIDE DEF lt
<1>6. ASSUME NEW x \in R, NEW y \in R, InTheMiddle(S, x), InTheMiddle(S, y), Precedes(x, y)
      PROVE  FALSE
  <2> DEFINE low == {r \in R : ~Precedes(x, r)}
             high == {r \in R : Precedes(r, y)}
  <2>1. low \subseteq high
    <3> SUFFICES ASSUME NEW r \in R, ~Precedes(x, r)
                 PROVE  Precedes(r, y)
      OBVIOUS
    <3>1. r = x \/ Precedes(r, x)
      BY <1>5
    <3> QED BY <1>3, <1>4, <1>6, <3>1 DEF StrictOrder
  <2>2. k < Cardinality(low) /\ Cardinality(high) <= k
    BY <1>6 DEF InTheMiddle, R
  <2>3. high \subseteq R
    OBVIOUS
  <2> HIDE DEF low, high
  <2>4. /\ Cardinality(low) <= Cardinality(high)
        /\ Cardinality(low) \in Nat /\ Cardinality(high) \in Nat
    BY <1>2, <2>1, <2>3, FS_Subset, FS_CardinalityType
  <2>5. k \in Int
    <3>1. Cardinality(R) \in Nat
      BY <1>2, FS_CardinalityType
    <3> QED BY <3>1
  <2> HIDE DEF k
  <2> QED BY <2>2, <2>4, <2>5
<1>7. a \in R /\ b \in R
  BY DEF InTheMiddle, R
<1> QED BY <1>5, <1>6, <1>7

\* Mates are read off the same row.
LEMMA MedianOfMates ==
  ASSUME LadderPolicyAssumption, NEW S, NEW T, Mates(S, T), S # {}
  PROVE  Mate(MedianRepetition(S), MedianRepetition(T))
<1>1. /\ S \in SUBSET Repetition /\ T \in SUBSET Repetition /\ T # {}
      /\ ApartByNumber(S) /\ ApartByNumber(T) /\ IsFiniteSet(S) /\ IsFiniteSet(T)
  BY DEF Mates, ApartByNumber
<1>2. \A U \in {S, T} : Ranked(U) \subseteq U /\ ApartByNumber(Ranked(U))
  <2>1. \A U : Ranked(U) \subseteq U
    BY DEF Ranked
  <2> QED BY <1>1, <2>1, PartApart
<1>3. /\ \A r \in Ranked(S) : \E s \in Ranked(T) : Mate(r, s)
      /\ \A s \in Ranked(T) : \E r \in Ranked(S) : Mate(r, s)
  BY DEF Ranked, Mates, Mate
<1>4. Cardinality(Ranked(S)) = Cardinality(Ranked(T))
  <2>1. /\ \A r \in Ranked(S) : \E s \in Ranked(T) : r.repetition = s.repetition
        /\ \A s \in Ranked(T) : \E r \in Ranked(S) : r.repetition = s.repetition
    BY <1>3 DEF Mate
  <2> QED BY <1>2, <2>1, MatchedSize
<1>5. InTheMiddle(S, MedianRepetition(S)) /\ InTheMiddle(T, MedianRepetition(T))
  BY <1>1, MedianRepetitionIs DEF InTheMiddle
<1> DEFINE m == MedianRepetition(S)
<1>6. m \in Ranked(S)
  BY <1>5 DEF InTheMiddle
<1> HIDE DEF m
<1>7. PICK n \in Ranked(T) : Mate(m, n)
  BY <1>3, <1>6
<1>8. \A r, s, x, y : Mate(r, s) /\ Mate(x, y) => (Precedes(r, x) <=> Precedes(s, y))
  BY DEF Mate, Precedes, TokS, ShorterTail
<1>9. /\ Cardinality({r \in Ranked(S) : Precedes(r, m)})
           = Cardinality({s \in Ranked(T) : Precedes(s, n)})
      /\ Cardinality({r \in Ranked(S) : ~Precedes(m, r)})
           = Cardinality({s \in Ranked(T) : ~Precedes(n, s)})
  <2> DEFINE before(U, e) == {r \in Ranked(U) : Precedes(r, e)}
             upto(U, e) == {r \in Ranked(U) : ~Precedes(e, r)}
  <2>1. /\ ApartByNumber(before(S, m)) /\ ApartByNumber(upto(S, m))
        /\ ApartByNumber(before(T, n)) /\ ApartByNumber(upto(T, n))
    BY <1>2, PartApart
  <2>2. /\ \A r \in before(S, m) : \E s \in before(T, n) : r.repetition = s.repetition
        /\ \A s \in before(T, n) : \E r \in before(S, m) : r.repetition = s.repetition
        /\ \A r \in upto(S, m) : \E s \in upto(T, n) : r.repetition = s.repetition
        /\ \A s \in upto(T, n) : \E r \in upto(S, m) : r.repetition = s.repetition
    <3>1. \A r, s : Mate(r, s) => r.repetition = s.repetition
      BY DEF Mate
    <3> QED BY <1>3, <1>7, <1>8, <3>1
  <2>3. Cardinality(before(S, m)) = Cardinality(before(T, n))
    <3> HIDE DEF before
    <3> QED BY <2>1, <2>2, MatchedSize
  <2>4. Cardinality(upto(S, m)) = Cardinality(upto(T, n))
    <3> HIDE DEF upto
    <3> QED BY <2>1, <2>2, MatchedSize
  <2> QED BY <2>3, <2>4
<1>10. InTheMiddle(T, n)
  BY <1>4, <1>5, <1>7, <1>9 DEF InTheMiddle, m
<1>11. n = MedianRepetition(T)
  BY <1>1, <1>5, <1>10, OneInTheMiddle
<1> QED BY <1>7, <1>11 DEF m

\* The windows of a rung read with the stamps and without them are mates.
LEMMA StampsMoveNoFigure ==
  ASSUME LadderPolicyAssumption, EvidenceShelved, NEW level \in Levels
  PROVE  Mates({rep \in Derived({"token_ts"})[level] : ~rep.post_search},
               {rep \in Derived({})[level] : ~rep.post_search})
<1> DEFINE E == evidence[level]
           D(removed) == {Reduce1(rep, removed) : rep \in E}
           Kin(removed) == {rep \in D(removed) : ~rep.post_search}
<1>1. \A removed : Derived(removed)[level] = D(removed)
  BY DEF Derived
<1>2. /\ IsFiniteSet(E) /\ E \subseteq Repetition
      /\ \A a, b \in E : a.repetition = b.repetition => a = b
  BY DEF EvidenceShelved, Shelved
<1> HIDE DEF E
<1>3. \A rep \in E : \A removed : Kept(Reduce1(rep, removed), rep)
  BY <1>2, ReadingType
<1>4. \A rep \in E : Mate(Reduce1(rep, {"token_ts"}), Reduce1(rep, {}))
  <2> SUFFICES ASSUME NEW rep \in E
               PROVE  Mate(Reduce1(rep, {"token_ts"}), Reduce1(rep, {}))
    OBVIOUS
  <2> DEFINE r == Substituted(rep)
  <2>1. r \in Repetition /\ Mate(r, rep)
    BY <1>2 DEF Substituted, Mate, Repetition
  <2>2. Reduce1(rep, {"token_ts"}) = Shifted(r) /\ Reduce1(rep, {}) = Shifted(rep)
    BY Reduce1Is DEF Backed, Gated
  <2> HIDE DEF r
  <2>3. Mate(Shifted(r), Shifted(rep))
    BY <1>2, <2>1 DEF Mate, Shifted, Repetition
  <2> QED BY <2>2, <2>3
<1>5. ASSUME NEW removed
      PROVE  Kin(removed) \subseteq Repetition /\ ApartByNumber(Kin(removed))
  <2>1. IsFiniteSet(D(removed))
    <3> DEFINE read == [rep \in E |-> Reduce1(rep, removed)]
    <3>1. read \in Surjection(E, D(removed))
      BY DEF Surjection
    <3> HIDE DEF read, D
    <3> QED BY <1>2, <3>1, FS_Surjection
  <2>2. \A x \in D(removed) : \E rep \in E : x = Reduce1(rep, removed)
    OBVIOUS
  <2> HIDE DEF D
  <2>3. D(removed) \subseteq Repetition
    BY <1>3, <2>2 DEF Kept
  <2>4. \A x, y \in D(removed) : x.repetition = y.repetition => x = y
    <3> SUFFICES ASSUME NEW x \in D(removed), NEW y \in D(removed),
                        x.repetition = y.repetition
                 PROVE  x = y
      OBVIOUS
    <3>1. PICK a \in E : x = Reduce1(a, removed)
      BY <2>2
    <3>2. PICK b \in E : y = Reduce1(b, removed)
      BY <2>2
    <3>3. x.repetition = a.repetition /\ y.repetition = b.repetition
      BY <1>3, <3>1, <3>2 DEF Kept
    <3> QED BY <1>2, <3>1, <3>2, <3>3
  <2>5. ApartByNumber(D(removed))
    BY <2>1, <2>4 DEF ApartByNumber
  <2> QED BY <2>3, <2>5, PartApart
<1>6. ASSUME NEW here, NEW there,
             \A rep \in E : Mate(Reduce1(rep, here), Reduce1(rep, there))
      PROVE  \A r \in Kin(here) : \E s \in Kin(there) : Mate(r, s)
  <2> SUFFICES ASSUME NEW r \in Kin(here)
               PROVE  \E s \in Kin(there) : Mate(r, s)
    OBVIOUS
  <2>1. PICK rep \in E : r = Reduce1(rep, here)
    OBVIOUS
  <2>2. Mate(r, Reduce1(rep, there)) /\ Reduce1(rep, there) \in D(there)
    BY <1>6, <2>1
  <2>3. ~r.post_search
    OBVIOUS
  <2> QED BY <2>2, <2>3 DEF Mate
<1>7. \A rep \in E : Mate(Reduce1(rep, {}), Reduce1(rep, {"token_ts"}))
  BY <1>4 DEF Mate
<1>8. \A r, s : Mate(r, s) <=> Mate(s, r)
  BY DEF Mate
<1>9. Mates(Kin({"token_ts"}), Kin({}))
  <2>1. \A r \in Kin({"token_ts"}) : \E s \in Kin({}) : Mate(r, s)
    BY <1>4, <1>6
  <2>2. \A s \in Kin({}) : \E r \in Kin({"token_ts"}) : Mate(s, r)
    BY <1>6, <1>7
  <2> HIDE DEF Kin
  <2> QED BY <1>5, <1>8, <2>1, <2>2 DEF Mates
<1> QED BY <1>1, <1>9

\* The row of a reading is read off its middle window.
LEMMA RowOfReading ==
  ASSUME NEW e, NEW level \in From(e)!RowLevels
  PROVE  LET median == MedianRepetition({rep \in e[level] : ~rep.post_search})
             row == From(e)!Draft(FALSE).rows[level]
         IN  row.tok_s = median.tok_s /\ row.ttft = median.ttft
<1> DEFINE reps == From(e)!RowRepetitions(level)
           median == From(e)!MedianRepetition(reps)
<1>1. From(e)!Draft(FALSE).rows[level] = From(e)!Row(level)
  BY DEF From!Draft
<1>2. median = MedianRepetition({rep \in e[level] : ~rep.post_search})
  BY SameFigures DEF From!RowRepetitions
<1>3. From(e)!Row(level).tok_s = median.tok_s /\ From(e)!Row(level).ttft = median.ttft
  BY DEF From!Row
<1> HIDE DEF median
<1> QED BY <1>1, <1>2, <1>3

\* With exit 0 the rungs of the report, and in each of them every figure the message does
\* not list as skipped, are what the whole records give under the current rules, edited or
\* not, elided or not (check_report, _ELIDED_FIELD_IMPACT).
THEOREM CheckIsEvidence == ReduceSpec => []CheckCertifiesOnlyEvidence
<1>1. LadderPolicyAssumption
  BY LadderPolicyAssumption
<1>2. ASSUME ReduceInv, published # None, CheckExit = 0
      PROVE  /\ DOMAIN published.rows = DOMAIN Unelided.rows
             /\ \A level \in DOMAIN Unelided.rows :
                  /\ published.rows[level].tok_s = Unelided.rows[level].tok_s
                  /\ published.rows[level].ttft = Unelided.rows[level].ttft
                  /\ elided = {} => published.rows[level] = Unelided.rows[level]
  <2>1. ~CheckRefuses /\ Matches(Rebuilt)
    BY <1>2 DEF CheckExit
  <2>2. CASE elided = {}
    <3>1. published = Unelided
      BY <2>1, <2>2 DEF Matches, WithoutTainted, Rebuilt, Unelided
    <3> QED BY <3>1
  <2>3. CASE elided # {}
    <3>1. elided = {"token_ts"}
      BY <1>2, <2>1, <2>3 DEF CheckRefuses, Unmapped, ReduceInv, Fields
    <3> DEFINE d == Derived({"token_ts"})
               e == Derived({})
    <3>2. EvidenceShelved /\ BundleIsEvidence
      BY <1>2 DEF ReduceInv
    <3>3. Rebuilt = From(d)!Draft(FALSE) /\ Unelided = From(e)!Draft(FALSE)
      BY <1>1, <3>1, <3>2, DraftWithoutIs, RereadIsDerived DEF Rebuilt, Unelided
    <3>4. DOMAIN published.rows = DOMAIN Unelided.rows
      BY <1>1, <1>2, WholeRecordsLadder DEF Unelided, ReduceInv, Rests
    <3>5. /\ DOMAIN published.rows = DOMAIN Rebuilt.rows
          /\ \A level \in DOMAIN published.rows :
                /\ published.rows[level].tok_s = Rebuilt.rows[level].tok_s
                /\ published.rows[level].ttft = Rebuilt.rows[level].ttft
      <4> DEFINE left == [level \in DOMAIN published.rows |->
                            RowWithoutTainted(published.rows[level])]
                 right == [level \in DOMAIN Rebuilt.rows |->
                            RowWithoutTainted(Rebuilt.rows[level])]
      <4>1. left = right
        BY <2>1, <2>3 DEF Matches, WithoutTainted
      <4>2. DOMAIN published.rows = DOMAIN Rebuilt.rows
        BY <4>1
      <4>3. \A level \in DOMAIN published.rows :
               RowWithoutTainted(published.rows[level]) = RowWithoutTainted(Rebuilt.rows[level])
        BY <4>1, <4>2
      <4> QED BY <4>2, <4>3 DEF RowWithoutTainted
    <3>6. ASSUME NEW level \in DOMAIN Unelided.rows
          PROVE  /\ Rebuilt.rows[level].tok_s = Unelided.rows[level].tok_s
                 /\ Rebuilt.rows[level].ttft = Unelided.rows[level].ttft
      <4> HIDE DEF d, e
      <4>1. level \in From(d)!RowLevels /\ level \in From(e)!RowLevels
        BY <3>3, <3>4, <3>5, DraftIsReport
      <4>2. level \in Levels /\ From(d)!RowRepetitions(level) # {}
        BY <4>1 DEF From!RowLevels, From!Graded, From!Rungs
      <4> DEFINE S == {rep \in d[level] : ~rep.post_search}
                 T == {rep \in e[level] : ~rep.post_search}
      <4>3. S # {}
        BY <4>2 DEF From!RowRepetitions
      <4>4. Mates(S, T)
        BY <1>1, <3>2, <4>2, StampsMoveNoFigure DEF d, e
      <4>5. /\ Rebuilt.rows[level].tok_s = MedianRepetition(S).tok_s
            /\ Rebuilt.rows[level].ttft = MedianRepetition(S).ttft
            /\ Unelided.rows[level].tok_s = MedianRepetition(T).tok_s
            /\ Unelided.rows[level].ttft = MedianRepetition(T).ttft
        BY <3>3, <4>1, RowOfReading
      <4> HIDE DEF S, T
      <4>6. Mate(MedianRepetition(S), MedianRepetition(T))
        BY <1>1, <4>3, <4>4, MedianOfMates
      <4> QED BY <4>5, <4>6 DEF Mate
    <3> QED BY <2>3, <3>4, <3>5, <3>6
  <2> QED BY <2>2, <2>3
<1>3. ReduceInv => CheckCertifiesOnlyEvidence
  BY <1>2 DEF CheckCertifiesOnlyEvidence
<1> QED BY <1>3, ReduceInvariant, PTL
-----------------------------------------------------------------------------
(* verify_bundle, of ReproductionBundle.                                    *)

\* What the manifest says of the log, once it is written: the digest of the copy, or
\* the digest of a log of that length unless it grew in between.
Recorded ==
  \/ prefix = 0 /\ digest = snapshot /\ snapshot \in Content
  \/ prefix > 0 /\ digest \in Content /\ (~raced => digest.len = prefix)

\* The inductive invariant.
BundleInv ==
  /\ log \in Content \cup {Missing}
  /\ digest \in Content \cup {Missing} /\ snapshot \in Content \cup {Missing}
  /\ prefix \in Nat /\ raced \in BOOLEAN
  /\ tampered \subseteq OwnFiles \cup {"log"}
  /\ step \in {"own_files", "copy", "digest_copy", "digest_log", "measure_log", "published"}
  /\ step # "published" => log \in Content /\ tampered = {} /\ prefix = 0
  /\ step \in {"digest_log", "measure_log"} => log.len > Cap
  /\ step = "digest_copy" => snapshot \in Content
  /\ step = "measure_log" => digest \in Content
  /\ step = "published" => Recorded
  /\ "log" \in tampered => prefix = 0

\* A log that may be read is not the missing one.
LEMMA ContentIsThere == Missing \notin Content
BY DEF Missing, Content

\* write_bundle keeps the invariant.
LEMMA WriteKeeps ==
  ASSUME BundleAssumption, BundleInv, WriteBundle
  PROVE  BundleInv'
<1>1. CASE WriteOwnFiles
  BY <1>1 DEF WriteOwnFiles, BundleInv, BundleAssumption, Recorded, Content
<1>2. CASE CopyLog
  BY <1>2 DEF CopyLog, BundleInv, Recorded
<1>3. CASE DigestCopy
  BY <1>3 DEF DigestCopy, Digested, BundleInv, Recorded
<1>4. CASE DigestLog
  BY <1>4 DEF DigestLog, BundleInv, Recorded
<1>5. CASE MeasureLog
  <2>1. /\ log \in Content /\ digest \in Content /\ log.len > Cap /\ tampered = {}
        /\ log.len \in Nat /\ Cap \in Nat
    BY <1>5 DEF MeasureLog, BundleInv, Content, BundleAssumption
  <2>2. /\ prefix' = log.len /\ raced' = (log # digest) /\ step' = "published"
        /\ UNCHANGED <<log, snapshot, digest, tampered>>
    BY <1>5 DEF MeasureLog, MeasuredLength
  <2>3. Recorded'
    <3>1. prefix' > 0 /\ digest' \in Content
      BY <2>1, <2>2
    <3>2. ~raced' => digest'.len = prefix'
      BY <2>2
    <3> QED BY <3>1, <3>2 DEF Recorded
  <2> QED BY <2>1, <2>2, <2>3 DEF BundleInv
<1> QED BY <1>1, <1>2, <1>3, <1>4, <1>5 DEF WriteBundle

\* The server that keeps logging, a rotation and an editor of the bundle keep it.
LEMMA WorldKeeps ==
  ASSUME BundleAssumption, BundleInv, World
  PROVE  BundleInv'
<1>1. CASE ServerLogs
  <2>1. /\ log \in Content /\ log.len < MaxLog /\ log' = [log EXCEPT !.len = @ + 1]
        /\ UNCHANGED <<step, snapshot, digest, prefix, raced, tampered>>
    BY <1>1 DEF ServerLogs, BundleInv
  <2>2. log.len \in Nat /\ Cap \in Nat /\ log'.len = log.len + 1 /\ log' \in Content
    BY <2>1 DEF Content, BundleAssumption
  <2> QED BY <2>1, <2>2 DEF BundleInv, Recorded
<1>2. CASE RotateLog
  <2>1. /\ step = "published" /\ log \in Content
        /\ UNCHANGED <<step, snapshot, digest, prefix, raced, tampered>>
    BY <1>2 DEF RotateLog, BundleInv
  <2>2. log' \in Content \cup {Missing}
    BY <1>2, <2>1 DEF RotateLog, Content, BundleAssumption
  <2> QED BY <2>1, <2>2 DEF BundleInv, Recorded
<1>3. ASSUME NEW f \in OwnFiles \cup {"log"}, Tamper(f) PROVE BundleInv'
  BY <1>3 DEF Tamper, BundleInv, Recorded
<1> QED BY <1>1, <1>2, <1>3 DEF World

\* The inductive invariant holds throughout the life of a bundle.
THEOREM BundleInvariant == BundleSpec => []BundleInv
<1>1. BundleAssumption
  BY BundleAssumption
<1>2. BundleInit => BundleInv
  <2> SUFFICES ASSUME BundleInit PROVE BundleInv
    OBVIOUS
  <2>1. log \in Content
    BY <1>1 DEF BundleInit, BundleAssumption, Content
  <2> QED BY <2>1 DEF BundleInit, BundleInv
<1>3. BundleInv /\ [BundleNext]_bundleVars => BundleInv'
  <2> SUFFICES ASSUME BundleInv, [BundleNext]_bundleVars PROVE BundleInv'
    OBVIOUS
  <2>1. CASE UNCHANGED bundleVars
    BY <2>1 DEF bundleVars, BundleInv, Recorded
  <2> QED BY <1>1, <2>1, WriteKeeps, WorldKeeps DEF BundleNext
<1> QED BY <1>2, <1>3, PTL DEF BundleSpec

\* An untouched bundle verifies, whatever the server did to its own log since, unless
\* the log grew between its digest and its length (persist.py:238-424, 463-506).
THEOREM NoFalseAlarm == BundleSpec => []UntouchedVerifies
<1>1. BundleInv => UntouchedVerifies
  <2> SUFFICES ASSUME BundleInv, step = "published", tampered = {}, ~raced,
                      prefix > 0 => EvidenceInLog
               PROVE  LogVerifies
    BY DEF UntouchedVerifies, Problems
  <2>1. CASE prefix = 0
    <3>1. digest = snapshot /\ snapshot \in Content
      BY <2>1 DEF BundleInv, Recorded
    <3>2. LogEntry = snapshot
      BY <2>1 DEF LogEntry
    <3> QED BY <3>1, <3>2, ContentIsThere DEF LogVerifies
  <2>2. CASE prefix # 0
    <3>1. /\ prefix \in Nat /\ prefix > 0 /\ digest \in Content /\ digest.len = prefix
      BY <2>2 DEF BundleInv, Recorded
    <3>2. log \in Content /\ log.gen = digest.gen /\ log.len >= digest.len /\ log # Missing
      BY <3>1 DEF EvidenceInLog, BundleInv
    <3>3. LogEntry = log
      BY <3>1 DEF LogEntry
    <3>4. log = [gen |-> log.gen, len |-> log.len]
          /\ digest = [gen |-> digest.gen, len |-> digest.len]
          /\ log.len \in Nat /\ digest.len \in Nat
      BY <3>1, <3>2 DEF Content
    <3>5. CASE log.len = digest.len
      BY <3>2, <3>3, <3>4, <3>5 DEF LogVerifies
    <3>6. CASE log.len > digest.len
      <4>1. FirstBytes(log, prefix) = [gen |-> log.gen, len |-> prefix]
        BY <3>1, <3>2, <3>4, <3>6 DEF FirstBytes, Content
      <4>2. FirstBytes(log, prefix) = digest
        BY <3>1, <3>2, <3>4, <4>1
      <4> QED BY <3>1, <3>2, <3>3, <3>6, <4>2 DEF LogVerifies, Grown
    <3> QED BY <3>2, <3>4, <3>5, <3>6
  <2> QED BY <2>1, <2>2
<1> QED BY <1>1, BundleInvariant, PTL

\* Every edited or removed file is reported, and every log that no longer begins with
\* the digested bytes, the one the race left behind included (persist.py:463-506).
THEOREM NoChangeMissed == BundleSpec => []ChangesReported
<1>1. BundleInv => ChangesReported
  <2> SUFFICES ASSUME BundleInv, step = "published"
               PROVE  /\ tampered \subseteq Problems
                      /\ prefix > 0 /\ ~EvidenceInLog => "log" \in Problems
    BY DEF ChangesReported
  <2>1. "log" \in tampered => ~LogVerifies
    BY DEF BundleInv, LogVerifies, LogEntry
  <2>2. tampered \subseteq Problems
    BY <2>1 DEF Problems
  <2>3. ASSUME prefix > 0, LogVerifies PROVE EvidenceInLog
    <3>1. /\ LogEntry = log /\ log # Missing /\ log \in Content
          /\ digest \in Content /\ prefix \in Nat
      BY <2>3 DEF LogEntry, LogVerifies, BundleInv, Recorded
    <3>2. CASE log = digest
      BY <3>1, <3>2 DEF EvidenceInLog, Content
    <3>3. CASE Grown(log)
      <4>1. /\ log.len > prefix /\ log.len \in Nat
            /\ digest.gen = log.gen /\ digest.len = prefix
        BY <3>1, <3>3 DEF Grown, FirstBytes, Content
      <4> QED BY <3>1, <4>1 DEF EvidenceInLog
    <3> QED BY <2>3, <3>1, <3>2, <3>3 DEF LogVerifies
  <2> QED BY <2>2, <2>3 DEF Problems
<1> QED BY <1>1, BundleInvariant, PTL
=============================================================================

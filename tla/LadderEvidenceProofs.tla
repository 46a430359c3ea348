------------------------ MODULE LadderEvidenceProofs ------------------------
(***************************************************************************)
(* What a ladder's verdicts are worth, for every ladder, every number of   *)
(* windows under a rung and every order they are filed in.                 *)
(***************************************************************************)
EXTENDS LadderEvidence, LadderGradingProofs

\* What may stand under a rung: windows of that rung, in which a gate was passed only
\* under load.
Filed(level) ==
  {rep \in Repetition : rep.concurrency = level /\ (rep.slo_pass = TRUE => rep.offered)}

\* The inductive invariant.
EvidenceInv ==
  /\ DOMAIN evidence = Levels
  /\ \A level \in Levels : IsFiniteSet(evidence[level]) /\ evidence[level] \subseteq Filed(level)

\* A rung with room left has a number left for one more window of any result.
LEMMA NumberIsFree ==
  ASSUME LadderPolicyAssumption, ResultsAssumption, EvidenceInv,
         NEW level \in Levels, NEW result \in Results(level),
         Cardinality(evidence[level]) < MaxFiled(level)
  PROVE  \E k \in 0 .. MaxFiled(level) :
            /\ Numbered(level, result, k) \notin evidence[level]
            /\ \A j \in 0 .. k - 1 : Numbered(level, result, j) \in evidence[level]
<1> DEFINE M == MaxFiled(level)
           f == [k \in 0 .. M |-> Numbered(level, result, k)]
           free == {k \in 0 .. M : f[k] \notin evidence[level]}
<1>1. M \in Nat /\ IsFiniteSet(evidence[level]) /\ Cardinality(evidence[level]) \in Nat
  BY FS_CardinalityType DEF ResultsAssumption, EvidenceInv
<1>2. free # {}
  <2> SUFFICES ASSUME \A k \in 0 .. M : f[k] \in evidence[level] PROVE FALSE
    OBVIOUS
  <2>1. \A a, b \in 0 .. M : f[a] = f[b] => a = b
    <3>1. \A a \in 0 .. M : f[a].repetition = a
      BY DEF Numbered
    <3> HIDE DEF f
    <3> QED BY <3>1
  <2>2. f \in Injection(0 .. M, evidence[level])
    BY <2>1 DEF Injection, IsInjective
  <2>3. Cardinality(0 .. M) = M + 1
    BY <1>1, FS_Interval
  <2>4. Cardinality(0 .. M) <= Cardinality(evidence[level])
    <3> HIDE DEF f, M
    <3> QED BY <1>1, <2>2, FS_Injection
  <2> QED BY <1>1, <2>3, <2>4
<1>3. PICK k \in free : \A x \in free : k <= x
  <2>1. free \in SUBSET Nat
    BY <1>1
  <2> HIDE DEF free
  <2> QED BY <1>2, <2>1, LeastExists
<1>4. \A j \in 0 .. k - 1 : f[j] \in evidence[level]
  <2> SUFFICES ASSUME NEW j \in 0 .. k - 1, f[j] \notin evidence[level] PROVE FALSE
    OBVIOUS
  <2>1. j \in 0 .. M /\ j < k
    BY <1>1, <1>3
  <2>2. j \in free
    BY <2>1
  <2> HIDE DEF free
  <2> QED BY <1>3, <2>1, <2>2
<1> HIDE DEF M
<1> QED BY <1>1, <1>3, <1>4 DEF M

\* One more window is a window of its rung.
LEMMA FiledIsTyped ==
  ASSUME LadderPolicyAssumption, ResultsAssumption, EvidenceInv,
         NEW level \in Levels, NEW result \in Results(level), FileWindow(level, result)
  PROVE  \E rep \in Filed(level) : File(level, rep)
<1> DEFINE n == CHOOSE k \in 0 .. MaxFiled(level) :
                  /\ Numbered(level, result, k) \notin evidence[level]
                  /\ \A j \in 0 .. k - 1 : Numbered(level, result, j) \in evidence[level]
<1>1. File(level, Numbered(level, result, n)) /\ Cardinality(evidence[level]) < MaxFiled(level)
  BY DEF FileWindow
<1>2. n \in 0 .. MaxFiled(level) /\ n \in Nat
  <2>1. \E k \in 0 .. MaxFiled(level) :
            /\ Numbered(level, result, k) \notin evidence[level]
            /\ \A j \in 0 .. k - 1 : Numbered(level, result, j) \in evidence[level]
    BY <1>1, NumberIsFree
  <2>2. n \in 0 .. MaxFiled(level)
    BY <2>1
  <2>3. MaxFiled(level) \in Nat
    BY DEF ResultsAssumption
  <2> HIDE DEF n
  <2> QED BY <2>2, <2>3
<1> HIDE DEF n
<1>3. Numbered(level, result, n) \in Filed(level)
  <2>1. /\ result \in [offered : BOOLEAN, completed : BOOLEAN,
                       slo_pass : BOOLEAN \cup {None}, tok_s : Nat \cup {None},
                       ttft : Nat \cup {None}, context : Nat \cup {None},
                       outcome : RungOutcome \cup {None}, post_search : BOOLEAN]
        /\ result.slo_pass = TRUE => result.offered
    BY DEF ResultsAssumption
  <2>2. Numbered(level, result, n) \in Repetition
    BY <1>2, <2>1 DEF Numbered, Repetition
  <2> QED BY <2>1, <2>2 DEF Numbered, Filed
<1> QED BY <1>1, <1>3

\* The inductive invariant holds however windows are filed.
THEOREM EvidenceInvariant == EvidenceSpec => []EvidenceInv
<1>1. LadderPolicyAssumption /\ ResultsAssumption
  BY LadderPolicyAssumption, ResultsAssumption
<1>2. EvidenceInit => EvidenceInv
  BY FS_EmptySet DEF EvidenceInit, NoEvidence, EvidenceInv
<1>3. EvidenceInv /\ [EvidenceNext]_evidence => EvidenceInv'
  <2>1. ASSUME EvidenceInv, NEW level \in Levels, NEW result \in Results(level),
               FileWindow(level, result)
        PROVE  EvidenceInv'
    <3>1. PICK rep \in Filed(level) : File(level, rep)
      BY <1>1, <2>1, FiledIsTyped
    <3>2. DOMAIN evidence' = Levels
          /\ \A l \in Levels : evidence'[l] = IF l = level THEN evidence[l] \cup {rep}
                                              ELSE evidence[l]
      BY <2>1, <3>1, FileAdds DEF EvidenceInv
    <3>3. IsFiniteSet(evidence[level] \cup {rep})
      BY <2>1, FS_AddElement DEF EvidenceInv
    <3> QED BY <2>1, <3>2, <3>3 DEF EvidenceInv, Filed
  <2>2. ASSUME EvidenceInv, UNCHANGED evidence PROVE EvidenceInv'
    BY <2>2 DEF EvidenceInv
  <2> QED BY <2>1, <2>2 DEF EvidenceNext
<1> QED BY <1>2, <1>3, PTL DEF EvidenceSpec

-----------------------------------------------------------------------------
(* The verdict of a rung. *)

\* No window strays, and what counts is finite.
LEMMA CountedIsFinite ==
  ASSUME EvidenceInv, NEW level \in Levels
  PROVE  /\ Stray(level) = {}
         /\ Counted(level) \in SUBSET evidence[level]
         /\ IsFiniteSet(Counted(level)) /\ Cardinality(Counted(level)) \in Nat
<1>1. Stray(level) = {}
  BY DEF EvidenceInv, Stray, Filed
<1>2. Counted(level) \in SUBSET evidence[level]
  BY DEF Counted, Valid
<1> QED BY <1>1, <1>2, FS_Subset, FS_CardinalityType DEF EvidenceInv

\* A failed rung has its repetitions and a failing window among the valid ones.
LEMMA FailedVerdict ==
  ASSUME LadderPolicyAssumption, EvidenceInv, NEW level \in Levels
  PROVE  RungVerdict(level) = "failed" <=>
           Repetitions <= Cardinality(Counted(level)) /\ Failed(level)
BY CountedIsFinite DEF RungVerdict, LadderPolicyAssumption

\* No later window un-fails a rung: no best-of-N and no majority vote (ladder.py:196-275).
THEOREM FailedStaysFailed == EvidenceSpec => FailureIsFinal
<1>1. LadderPolicyAssumption /\ ResultsAssumption
  BY LadderPolicyAssumption, ResultsAssumption
<1>2. ASSUME EvidenceInv, EvidenceInv', [EvidenceNext]_evidence, NEW l \in Levels,
             RungVerdict(l) = "failed"
      PROVE  RungVerdict(l)' = "failed"
  <2>1. evidence[l] \subseteq evidence'[l]
    <3>1. ASSUME NEW level \in Levels, NEW result \in Results(level), FileWindow(level, result)
          PROVE  evidence[l] \subseteq evidence'[l]
      BY <1>1, <1>2, <3>1, FiledIsTyped, FileAdds DEF EvidenceInv
    <3> QED BY <1>2, <3>1 DEF EvidenceNext
  <2>2. Valid(l) \subseteq Valid(l)' /\ Counted(l) \subseteq Counted(l)'
    <3>1. Stray(l) = {} /\ Stray(l)' = {}
      BY <1>2 DEF EvidenceInv, Stray, Filed
    <3> QED BY <2>1, <3>1 DEF Valid, Counted
  <2>3. Failed(l)'
    <3>1. PICK rep \in Valid(l) : RepetitionFailure(rep)
      BY <1>1, <1>2, FailedVerdict DEF Failed
    <3> QED BY <2>2, <3>1 DEF Failed
  <2>4. IsFiniteSet(Counted(l)') /\ Cardinality(Counted(l)') \in Nat /\ Stray(l)' = {}
    <3>1. Counted(l)' \in SUBSET evidence'[l]
      BY DEF Counted, Valid
    <3>2. IsFiniteSet(evidence'[l])
      BY <1>2 DEF EvidenceInv
    <3>3. Stray(l)' = {}
      BY <1>2 DEF EvidenceInv, Stray, Filed
    <3> HIDE DEF Counted
    <3> QED BY <3>1, <3>2, <3>3, FS_Subset, FS_CardinalityType
  <2>5. Cardinality(Counted(l)) <= Cardinality(Counted(l)')
    BY <2>2, <2>4, FS_Subset
  <2>6. Repetitions <= Cardinality(Counted(l)) /\ Cardinality(Counted(l)) \in Nat
    BY <1>1, <1>2, FailedVerdict, CountedIsFinite
  <2>7. ~(Cardinality(Counted(l)') < Repetitions)
    BY <1>1, <2>4, <2>5, <2>6 DEF LadderPolicyAssumption
  <2> QED BY <2>3, <2>4, <2>7 DEF RungVerdict
<1>3. EvidenceInv /\ EvidenceInv' /\ [EvidenceNext]_evidence =>
        [\A level \in Levels : RungVerdict(level) = "failed"
                                 => RungVerdict(level)' = "failed"]_evidence
  BY <1>2
<1> QED BY <1>3, EvidenceInvariant, PTL DEF EvidenceSpec, FailureIsFinal

-----------------------------------------------------------------------------
(* The verdict of the ladder. *)

\* A COMPLETE rung has its repetitions, no stray window and none that failed.
LEMMA CompleteRung ==
  ASSUME LadderPolicyAssumption, EvidenceInv, NEW level \in Complete
  PROVE  /\ level \in Levels /\ RungVerdict(level) = "complete"
         /\ Repetitions <= Cardinality(Counted(level))
         /\ \A rep \in Valid(level) : ~RepetitionFailure(rep)
<1>1. level \in Levels /\ level \in Graded /\ Outcome(level) = "complete"
  BY DEF Complete, Graded, Rungs
<1>2. RungVerdict(level) = "complete"
  BY <1>1 DEF Outcome
<1>3. Cardinality(Counted(level)) \in Nat /\ Repetitions \in Nat
  BY <1>1, CountedIsFinite DEF LadderPolicyAssumption
<1>4. ~(Cardinality(Counted(level)) < Repetitions) /\ ~Failed(level)
  BY <1>2 DEF RungVerdict
<1> QED BY <1>1, <1>2, <1>3, <1>4 DEF Failed

\* Every rung with evidence up to the boundary is COMPLETE.
LEMMA CompleteUpToBoundary ==
  ASSUME LadderPolicyAssumption, MaxSustainable # None
  PROVE  /\ MaxSustainable \in Complete
         /\ \A level \in Rungs : level <= MaxSustainable => level \in Complete
<1> DEFINE top == MaxSustainable
<1>1. Sustainable \in SUBSET Nat /\ IsFiniteSet(Sustainable) /\ Sustainable # {}
  <2>1. Sustainable \in SUBSET Levels
    BY DEF Sustainable, Complete, Graded, Rungs
  <2> QED BY <2>1, FS_Subset DEF LadderPolicyAssumption, MaxSustainable
<1>2. top \in Sustainable /\ top \in Nat
  <2>1. top = MaxOf(Sustainable)
    BY <1>1 DEF MaxSustainable
  <2> HIDE DEF top
  <2> QED BY <1>1, <2>1, MaxOfIsGreatest
<1>3. top \in Complete /\ top \in Graded /\ \A l \in Graded : l < top => l \in Complete
  BY <1>2 DEF Sustainable, Complete
<1>4. ASSUME NEW level \in Rungs, level <= top PROVE level \in Complete
  <2>1. CASE level = top
    BY <1>3, <2>1
  <2>2. CASE level # top
    <3>1. level \in Nat /\ level < top
      BY <1>2, <1>4, <2>2 DEF Rungs, LadderPolicyAssumption
    <3>2. \A l \in Below(level) : l \in Below(top)
      <4>1. \A l \in Rungs : l \in Nat
        BY DEF Rungs, LadderPolicyAssumption
      <4> HIDE DEF top
      <4> QED BY <1>2, <3>1, <4>1 DEF Below
    <3>3. level \in Graded
      BY <1>3, <1>4, <3>2 DEF Graded
    <3> QED BY <1>3, <3>1, <3>3
  <2> QED BY <2>1, <2>2
<1> QED BY <1>3, <1>4

\* A window that counts and did not fail passed: a gate, and something completed.
LEMMA NotFailedIsPassed ==
  ASSUME EvidenceInv, NEW level \in Levels, NEW rep \in Valid(level), ~RepetitionFailure(rep)
  PROVE  /\ rep.slo_pass = TRUE /\ rep.completed
         /\ rep.outcome \in {None, "complete"}
<1>1. rep \in Repetition /\ rep.outcome # "invalid" /\ (rep.slo_pass = TRUE => rep.offered)
  BY DEF Valid, EvidenceInv, Filed
<1> QED BY <1>1 DEF RepetitionFailure, ZeroCompletions, Repetition, RungOutcome

\* sustainable_publishable is earned, up to the boundary and at it (ladder.py:299-431).
THEOREM PublishableEarned == EvidenceSpec => []PublishableIsEarned
<1>1. LadderPolicyAssumption
  BY LadderPolicyAssumption
<1>2. EvidenceInv => PublishableIsEarned
  <2> DEFINE Passed(rep) == /\ rep.slo_pass = TRUE /\ rep.completed
                            /\ rep.outcome \in {None, "complete"}
  <2> SUFFICES ASSUME EvidenceInv, Publishable(FALSE)
               PROVE  /\ \A level \in Rungs : level <= MaxSustainable =>
                           /\ \A rep \in evidence[level] : Passed(rep) \/ rep.outcome = "invalid"
                           /\ Repetitions <= Cardinality(
                                {rep \in evidence[level] : ~rep.post_search /\ Passed(rep)})
                      /\ \E rep \in evidence[MaxSustainable] : rep.post_search /\ Passed(rep)
    BY DEF PublishableIsEarned
  <2>1. /\ MaxSustainable # None /\ PassedConfirmations(MaxSustainable) # {}
        /\ MaxSustainable \in Complete /\ MaxSustainable \in Levels
        /\ \A level \in Rungs : level <= MaxSustainable => level \in Complete
    BY <1>1, CompleteUpToBoundary, CompleteRung DEF Publishable, Confirmed
  <2>2. \E rep \in evidence[MaxSustainable] : rep.post_search /\ Passed(rep)
    <3>1. PICK rep \in Confirmations(MaxSustainable) : ~RepetitionFailure(rep)
      BY <2>1 DEF PassedConfirmations
    <3>2. rep \in Valid(MaxSustainable) /\ rep.post_search /\ rep \in evidence[MaxSustainable]
      BY DEF Confirmations, Valid
    <3>3. Passed(rep)
      BY <2>1, <3>1, <3>2, NotFailedIsPassed
    <3> QED BY <3>2, <3>3
  <2>3. ASSUME NEW level \in Rungs, level <= MaxSustainable
        PROVE  /\ \A rep \in evidence[level] : Passed(rep) \/ rep.outcome = "invalid"
               /\ Repetitions <= Cardinality(
                    {rep \in evidence[level] : ~rep.post_search /\ Passed(rep)})
    <3>1. level \in Complete /\ level \in Levels
      BY <2>1, <2>3 DEF Rungs
    <3>2. \A rep \in Valid(level) : Passed(rep)
      BY <1>1, <3>1, CompleteRung, NotFailedIsPassed
    <3>3. \A rep \in evidence[level] : rep.outcome = "invalid" \/ rep \in Valid(level)
      BY <3>1, CountedIsFinite DEF Valid
    <3> DEFINE passed == {rep \in evidence[level] : ~rep.post_search /\ Passed(rep)}
    <3>4. Counted(level) \in SUBSET passed
      BY <3>2 DEF Counted, Valid
    <3>5. IsFiniteSet(passed) /\ Cardinality(passed) \in Nat
      <4>1. passed \in SUBSET evidence[level] /\ IsFiniteSet(evidence[level])
        BY <3>1 DEF EvidenceInv
      <4> HIDE DEF passed
      <4> QED BY <4>1, FS_Subset, FS_CardinalityType
    <3>6. Repetitions <= Cardinality(passed)
      <4> HIDE DEF passed
      <4>1. Cardinality(Counted(level)) <= Cardinality(passed)
        BY <3>4, <3>5, FS_Subset
      <4>2. Repetitions <= Cardinality(Counted(level)) /\ Cardinality(Counted(level)) \in Nat
        BY <1>1, <3>1, CompleteRung, CountedIsFinite
      <4> QED BY <1>1, <3>5, <4>1, <4>2 DEF LadderPolicyAssumption
    <3> QED BY <3>2, <3>3, <3>6
  <2> QED BY <2>2, <2>3
<1> QED BY <1>2, EvidenceInvariant, PTL

\* A ladder in which nothing failed is called a lower bound, and only such a ladder.
LEMMA LowerBoundNote ==
    "lower_bound" \in NoteCaveats(FALSE) <=> Graded # {} /\ FailedRungs = {}
<1>1. \A level \in Graded : Outcome(level) # "aborted"
  BY DEF Outcome, RungVerdict
<1> QED BY <1>1 DEF NoteCaveats, IsLowerBound, FoundFailure, FailedRungs

\* Where a tier names no floor, no rung above it failed.
LEMMA BareIsUnfailedAbove ==
    ASSUME NEW level, BoundaryConstraint(level) = None
    PROVE  \A l \in FailedRungs : ~(l > level)
<1>1. \A l : ConstraintAt(l) # None
  BY DraftAssumption DEF ConstraintAt
<1> QED BY <1>1 DEF BoundaryConstraint

\* What a tier without a constraint says of its ladder: the sustainable tier always
\* that it is a lower bound, the measured one that or that the ladder was not monotone;
\* and a ladder called a lower bound prints no floor (report.py:281-376, 639-715).
THEOREM LowerBoundSaid == EvidenceSpec => []LowerBoundIsSaid
<1>1. LadderPolicyAssumption /\ DraftAssumption
  BY LadderPolicyAssumption, DraftAssumption
<1>2. Graded \in SUBSET Nat
  BY <1>1 DEF Graded, Rungs, LadderPolicyAssumption
<1>3. FailedRungs \subseteq Graded /\ FailedRungs \cap Complete = {}
  BY DEF FailedRungs, Complete
<1>4. ASSUME SustainableTier.users # None, SustainableTier.constraint = None
      PROVE  "lower_bound" \in NoteCaveats(FALSE)
  <2>1. Publishable(FALSE) /\ SustainableTier.constraint = BoundaryConstraint(MaxSustainable)
    BY <1>4 DEF SustainableTier, Unfilled, FilledTier
  <2>2. MaxSustainable \in Sustainable
    <3>1. MaxSustainable # None /\ Sustainable # {}
      BY <2>1 DEF Publishable, Confirmed, MaxSustainable
    <3>2. Sustainable \in SUBSET Nat /\ IsFiniteSet(Sustainable)
      <4>1. Sustainable \in SUBSET Levels
        BY DEF Sustainable, Complete, Graded, Rungs
      <4> QED BY <1>1, <4>1, FS_Subset DEF LadderPolicyAssumption
    <3> QED BY <3>1, <3>2, MaxOfIsGreatest DEF MaxSustainable
  <2>3. MaxSustainable \in Complete /\ \A l \in Graded : l < MaxSustainable => l \in Complete
    BY <2>2 DEF Sustainable
  <2>4. \A l \in FailedRungs : ~(l > MaxSustainable)
    BY <1>4, <2>1, BareIsUnfailedAbove
  <2>5. FailedRungs = {}
    <3> SUFFICES ASSUME NEW l \in FailedRungs PROVE FALSE
      OBVIOUS
    <3>1. l \in Nat /\ MaxSustainable \in Nat
      BY <1>2, <1>3, <2>3 DEF Complete
    <3> QED BY <3>1, <1>3, <2>3, <2>4
  <2> QED BY <2>3, <2>5, LowerBoundNote DEF Complete
<1>5. ASSUME MeasuredTier.users # None, MeasuredTier.constraint = None
      PROVE  \/ "lower_bound" \in NoteCaveats(FALSE)
             \/ /\ \E level \in FailedRungs : level < MeasuredTier.users
                /\ ~Monotone /\ SustainableTier.users = None
  <2> DEFINE top == MaxOf(ObservedRungs)
  <2>1. ObservedRungs # {}
    BY <1>5 DEF MeasuredTier, Unfilled
  <2>2. MeasuredTier.users = top /\ MeasuredTier.constraint = ObservedConstraint(top)
    BY <2>1 DEF MeasuredTier, FilledTier
  <2>3. top \in ObservedRungs /\ \A level \in ObservedRungs : level <= top
    <3>1. ObservedRungs \in SUBSET Nat /\ IsFiniteSet(ObservedRungs)
      <4>1. ObservedRungs \in SUBSET Levels
        BY DEF ObservedRungs, Graded, Rungs
      <4> QED BY <1>1, <4>1, FS_Subset DEF LadderPolicyAssumption
    <3> QED BY <2>1, <3>1, MaxOfIsGreatest
  <2>4. top \notin FailedRungs
    <3>1. ConstraintAt(top) # None
      BY <1>1 DEF ConstraintAt, DraftAssumption
    <3> QED BY <1>5, <2>2, <3>1 DEF ObservedConstraint
  <2>5. top \in Complete /\ top \in Graded
    BY <2>3, <2>4 DEF ObservedRungs, FailedRungs, Complete
  <2>6. CASE FailedRungs = {}
    BY <2>5, <2>6, LowerBoundNote
  <2>7. ASSUME NEW level \in FailedRungs
        PROVE  level < top /\ ~Monotone /\ SustainableTier.users = None
    <3>1. level \in ObservedRungs /\ level \in Nat /\ top \in Nat
      BY <1>2, <1>3, <2>5 DEF FailedRungs, ObservedRungs
    <3>2. level < top
      BY <2>3, <2>4, <3>1
    <3>3. ~Monotone
      BY <1>3, <2>5, <3>2 DEF Monotone
    <3> QED BY <3>2, <3>3 DEF SustainableTier, Publishable, Unfilled
  <2> HIDE DEF top
  <2> QED BY <2>2, <2>6, <2>7
<1>6. ASSUME "lower_bound" \in NoteCaveats(FALSE)
      PROVE  MeasuredTier.constraint = None /\ SustainableTier.constraint = None
  <2>1. FailedRungs = {}
    BY <1>6, LowerBoundNote
  <2>2. \A level : BoundaryConstraint(level) = None /\ ObservedConstraint(level) = None
    BY <2>1 DEF BoundaryConstraint, ObservedConstraint
  <2> QED BY <2>2 DEF MeasuredTier, SustainableTier, FilledTier, Unfilled
<1>7. LowerBoundIsSaid
  <2>1. /\ Draft(FALSE).tiers[1] = MeasuredTier /\ Draft(FALSE).tiers[2] = SustainableTier
        /\ Draft(FALSE).caveats = NoteCaveats(FALSE) /\ Draft(FALSE).monotone = Monotone
    BY DEF Draft
  <2> QED BY <1>4, <1>5, <1>6, <2>1 DEF LowerBoundIsSaid
<1> QED BY <1>7, PTL

-----------------------------------------------------------------------------
\* A row and the block beside it agree (report.py:88-216, 527-600).
THEOREM RowsAgree == EvidenceSpec => []RowAndSpreadAgree
<1>1. LadderPolicyAssumption /\ DraftAssumption
  BY LadderPolicyAssumption, DraftAssumption
<1>2. ASSUME EvidenceInv, NEW level \in RowLevels
      PROVE  LET row == Row(level)
                 ranked == Ranked(RowRepetitions(level))
                 tied == \A a, b \in ranked : a.tok_s = b.tok_s /\ a.ttft # None
             IN  /\ \E rep \in RowRepetitions(level) :
                      rep.tok_s = row.tok_s /\ rep.ttft = row.ttft /\ rep.context = row.context
                 /\ row.dispersion # None =>
                      /\ row.tok_s # None => row.tok_s = row.dispersion["tok_s"].median
                      /\ tied /\ ranked = RowRepetitions(level)
                            => row.ttft = row.dispersion["ttft"].median
                      /\ \A figure \in {"tok_s", "ttft"} :
                            (row.dispersion[figure] = None) <=>
                                \A rep \in RowRepetitions(level) : rep[figure] = None
  <2> DEFINE reps == RowRepetitions(level)
             m == MedianRepetition(reps)
             ranked == Ranked(reps)
             tied == \A a, b \in ranked : a.tok_s = b.tok_s /\ a.ttft # None
             k == (Cardinality(ranked) - 1) \div 2
             row == Row(level)
  <2>1. reps \in SUBSET Repetition /\ IsFiniteSet(reps) /\ reps # {}
    <3>1. level \in Levels /\ reps # {}
      BY DEF RowLevels, Graded, Rungs
    <3>2. reps \in SUBSET evidence[level]
      BY DEF RowRepetitions
    <3> QED BY <1>2, <3>1, <3>2, FS_Subset DEF EvidenceInv, Filed
  <2>2. row.tok_s = m.tok_s /\ row.ttft = m.ttft /\ row.context = m.context
        /\ row.dispersion = Dispersion(reps)
    BY DEF Row
  <2> HIDE DEF reps, row
  <2>3. /\ m \in ranked /\ m \in reps
        /\ Cardinality({r \in ranked : Precedes(r, m)}) <= k
        /\ k < Cardinality({r \in ranked : ~Precedes(m, r)})
    BY <1>1, <2>1, MedianRepetitionIs
  <2>4. \E rep \in reps :
          rep.tok_s = row.tok_s /\ rep.ttft = row.ttft /\ rep.context = row.context
    BY <2>2, <2>3
  <2> HIDE DEF m
  <2>5. ASSUME row.dispersion # None
        PROVE  \A figure \in {"tok_s", "ttft"} :
                  row.dispersion[figure] = FigureDispersion(reps, figure)
    BY <2>2, <2>5 DEF Dispersion
  <2>6. ASSUME row.dispersion # None, row.tok_s # None
        PROVE  row.tok_s = row.dispersion["tok_s"].median
    <3>1. ranked = Survivors(reps, "tok_s") /\ m \in ranked
      BY <2>2, <2>3, <2>6 DEF Ranked, Survivors
    <3>2. /\ IsFiniteSet(ranked) /\ Cardinality(ranked) \in Nat /\ Cardinality(ranked) > 0
          /\ \A rep \in ranked : rep["tok_s"] \in Nat
          /\ FigureDispersion(reps, "tok_s").median
               = KthFigure(ranked, "tok_s", (Cardinality(ranked) + 1) \div 2)
      BY <1>1, <2>1, <3>1, FigureDispersionIs
    <3>3. \A r \in ranked : TokS(r) = r["tok_s"]
      BY <1>1, <3>2 DEF TokS, LadderPolicyAssumption
    <3>4. /\ \A r \in ranked : r["tok_s"] < m["tok_s"] => Precedes(r, m)
          /\ \A r \in ranked : m["tok_s"] < r["tok_s"] => Precedes(m, r)
      BY <3>1, <3>3 DEF Precedes
    <3>5. KthFigure(ranked, "tok_s", (Cardinality(ranked) + 1) \div 2) = m["tok_s"]
      <4> HIDE DEF ranked
      <4> QED BY <2>3, <3>2, <3>4, MiddleOfFigure
    <3> QED BY <2>2, <2>5, <2>6, <3>2, <3>5
  <2>7. ASSUME row.dispersion # None, tied, ranked = reps
        PROVE  row.ttft = row.dispersion["ttft"].median
    <3>1. ranked = Survivors(reps, "ttft")
      BY <2>7 DEF Survivors
    <3>2. /\ IsFiniteSet(ranked) /\ Cardinality(ranked) \in Nat /\ Cardinality(ranked) > 0
          /\ \A rep \in ranked : rep["ttft"] \in Nat
          /\ FigureDispersion(reps, "ttft").median
               = KthFigure(ranked, "ttft", (Cardinality(ranked) + 1) \div 2)
      BY <1>1, <2>1, <2>3, <3>1, FigureDispersionIs
    <3>3. \A r \in ranked : TokS(r) = TokS(m) /\ r.ttft # None /\ m.ttft # None
      BY <2>3, <2>7 DEF TokS
    <3>4. /\ \A r \in ranked : r["ttft"] < m["ttft"] => Precedes(r, m)
          /\ \A r \in ranked : m["ttft"] < r["ttft"] => Precedes(m, r)
      BY <3>3 DEF Precedes, ShorterTail
    <3>5. KthFigure(ranked, "ttft", (Cardinality(ranked) + 1) \div 2) = m["ttft"]
      <4> HIDE DEF ranked
      <4> QED BY <2>3, <3>2, <3>4, MiddleOfFigure
    <3> QED BY <2>2, <2>5, <2>7, <3>2, <3>5
  <2>8. ASSUME row.dispersion # None, NEW figure \in {"tok_s", "ttft"}
        PROVE  (row.dispersion[figure] = None) <=> \A rep \in reps : rep[figure] = None
    BY <1>1, <2>1, <2>5, <2>8, FigureDispersionIs
  <2> QED BY <2>4, <2>6, <2>7, <2>8 DEF reps, row
<1>3. EvidenceInv => RowAndSpreadAgree
  BY <1>2 DEF RowAndSpreadAgree
<1> QED BY <1>3, EvidenceInvariant, PTL

-----------------------------------------------------------------------------
(***************************************************************************)
(* The loop of grade_ladder.  Its passes are numbered; what holds after    *)
(* the last is shown for every pass by its least counterexample.           *)
(***************************************************************************)

\* The rungs the loop has passed after k of them, and those a collapse may be measured
\* against.
Seen(k) == {level \in Rungs : Cardinality(Below(level)) < k}
References(k) == {level \in Seen(k) : RungVerdict(level) = "complete" /\ Measured(level) # {}}

\* best is the best throughput of the references so far.
BestSoFar(best, k) ==
  IF References(k) = {} THEN best = None
  ELSE /\ \E level \in References(k) : best = Throughput2(level)
       /\ \A level \in References(k) : Throughput2(level) <= best

\* What the loop has done after k rungs: it goes on while no rung has ended the ladder, and
\* what it has graded is what the declarative reading grades of the rungs it has passed.
LoopInv(k) ==
  LET loop == LoopAfter[k]
  IN  /\ DOMAIN loop.graded = Seen(k) \cap Graded
      /\ \A level \in Seen(k) \cap Graded : loop.graded[level] = Outcome(level)
      /\ loop.terminated_at = None =>
           /\ \A level \in Seen(k) : ~Terminates(level)
           /\ BestSoFar(loop.best, k)
      /\ loop.terminated_at # None =>
           /\ loop.terminated_at \in Seen(k) \cap Graded
           /\ Terminates(loop.terminated_at)

\* The rungs are a finite set of numbers.
LEMMA RungsFinite ==
  ASSUME LadderPolicyAssumption
  PROVE  /\ Rungs \in SUBSET Nat /\ IsFiniteSet(Rungs) /\ Rungs \in SUBSET Levels
         /\ Cardinality(Rungs) \in Nat
         /\ None \notin Rungs
<1>1. Rungs \in SUBSET Levels
  BY DEF Rungs
<1> HIDE DEF Rungs
<1> QED BY <1>1, FS_Subset, FS_CardinalityType DEF LadderPolicyAssumption

\* A rung's number in the order of the loop.
LEMMA BelowIsRank ==
  ASSUME LadderPolicyAssumption, NEW level \in Rungs
  PROVE  /\ Cardinality(Below(level)) = Rank(Rungs, level)
         /\ Cardinality(Below(level)) \in 0 .. Cardinality(Rungs) - 1
BY RungsFinite, RankType DEF Below, Rank

\* The rungs below another are those that come before it.
LEMMA BelowIsBefore ==
  ASSUME LadderPolicyAssumption, NEW a \in Rungs, NEW b \in Rungs
  PROVE  a \in Below(b) <=> Cardinality(Below(a)) < Cardinality(Below(b))
<1>1. Rungs \in SUBSET Nat /\ IsFiniteSet(Rungs) /\ a \in Nat /\ b \in Nat
  BY RungsFinite
<1>2. /\ Cardinality(Below(a)) = Rank(Rungs, a) /\ Cardinality(Below(a)) \in Nat
      /\ Cardinality(Below(b)) = Rank(Rungs, b) /\ Cardinality(Below(b)) \in Nat
  BY RungsFinite, BelowIsRank
<1>3. a < b => Rank(Rungs, a) < Rank(Rungs, b)
  BY <1>1, RankIncreases
<1>4. b < a => Rank(Rungs, b) < Rank(Rungs, a)
  BY <1>1, RankIncreases
<1>5. a \in Below(b) <=> a < b
  BY DEF Below
<1> QED BY <1>1, <1>2, <1>3, <1>4, <1>5

\* The k-th rung, and what the loop has passed before it and after it.
LEMMA KthRung ==
  ASSUME LadderPolicyAssumption, NEW k \in 1 .. Cardinality(Rungs)
  PROVE  /\ RungAt(k) \in Rungs
         /\ Below(RungAt(k)) = Seen(k - 1)
         /\ RungAt(k) \notin Seen(k - 1)
         /\ Seen(k) = Seen(k - 1) \cup {RungAt(k)}
<1> DEFINE r == RungAt(k)
           rank(l) == Cardinality(Below(l))
<1>1. Cardinality(Rungs) \in Nat /\ \A l \in Rungs : rank(l) \in Nat
  BY RungsFinite, BelowIsRank
<1>2. r \in Rungs /\ rank(r) = k - 1
  <2>1. k - 1 \in 0 .. Cardinality(Rungs) - 1
    BY <1>1
  <2>2. \E l \in Rungs : Rank(Rungs, l) = k - 1
    BY <2>1, RungsFinite, RankOnto
  <2>3. \E l \in Rungs : Cardinality(Below(l)) = k - 1
    BY <2>2, BelowIsRank
  <2> QED BY <2>3 DEF RungAt
<1> HIDE DEF r
<1>3. \A l \in Rungs : l \in Below(r) <=> rank(l) < k - 1
  BY <1>2, BelowIsBefore
<1>4. Below(r) = Seen(k - 1)
  <2>1. Below(r) \in SUBSET Rungs
    BY DEF Below
  <2>2. Seen(k - 1) \in SUBSET Rungs /\ \A l \in Rungs : l \in Seen(k - 1) <=> rank(l) < k - 1
    BY DEF Seen
  <2> QED BY <1>3, <2>1, <2>2
<1>5. \A l \in Rungs : rank(l) = k - 1 => l = r
  <2> SUFFICES ASSUME NEW l \in Rungs, rank(l) = k - 1, l # r PROVE FALSE
    OBVIOUS
  <2>1. l < r \/ r < l
    BY <1>2, RungsFinite
  <2>2. l \in Below(r) \/ r \in Below(l)
    BY <1>2, <2>1 DEF Below
  <2> QED BY <1>1, <1>2, <2>2, BelowIsBefore
<1>6. r \notin Seen(k - 1)
  BY <1>2 DEF Seen
<1>7. Seen(k) = Seen(k - 1) \cup {r}
  <2>1. \A l \in Rungs : rank(l) < k <=> rank(l) < k - 1 \/ rank(l) = k - 1
    BY <1>1
  <2>2. \A l \in Rungs : rank(l) < k <=> rank(l) < k - 1 \/ l = r
    BY <1>2, <1>5, <2>1
  <2> QED BY <1>2, <2>2 DEF Seen
<1> QED BY <1>2, <1>4, <1>6, <1>7 DEF r

\* The loop is defined: its state after k rungs is a pass of the body over the state before.
LEMMA LoopUnfolds ==
  ASSUME LadderPolicyAssumption
  PROVE  /\ LoopAfter[0] = LoopStart
         /\ \A k \in 1 .. Cardinality(Rungs) :
              LoopAfter[k] = LoopStep(LoopAfter[k - 1], RungAt(k))
<1> DEFINE N == Cardinality(Rungs)
           Fits(h, n) == h = [k \in 0 .. n |->
                                IF k = 0 THEN LoopStart ELSE LoopStep(h[k - 1], RungAt(k))]
           bad == {n \in 0 .. N : ~ \E h : Fits(h, n)}
<1>1. N \in Nat
  BY RungsFinite
<1> HIDE DEF N
<1>2. bad = {}
  <2> SUFFICES ASSUME bad # {} PROVE FALSE
    OBVIOUS
  <2>1. bad \in SUBSET Nat
    BY <1>1
  <2>2. PICK m \in bad : \A x \in bad : m <= x
    <3> HIDE DEF bad
    <3> QED BY <2>1, LeastExists
  <2>3. m \in 0 .. N /\ m \in Nat /\ ~ \E h : Fits(h, m)
    BY <1>1
  <2>4. m # 0
    <3> SUFFICES ASSUME m = 0 PROVE FALSE
      OBVIOUS
    <3> DEFINE h == [k \in 0 .. 0 |-> LoopStart]
    <3>1. h = [k \in 0 .. 0 |-> IF k = 0 THEN LoopStart ELSE LoopStep(h[k - 1], RungAt(k))]
      OBVIOUS
    <3> HIDE DEF h
    <3> QED BY <2>3, <3>1
  <2>5. m - 1 \in 0 .. N /\ ~(m <= m - 1)
    BY <1>1, <2>3, <2>4
  <2>6. PICK h : Fits(h, m - 1)
    <3>1. m - 1 \notin bad
      BY <2>2, <2>5
    <3> QED BY <2>5, <3>1
  <2> DEFINE g == [k \in 0 .. m |-> IF k = m THEN LoopStep(h[m - 1], RungAt(m)) ELSE h[k]]
  <2>7. \A k \in 0 .. m : g[k] = IF k = 0 THEN LoopStart ELSE LoopStep(g[k - 1], RungAt(k))
    <3> SUFFICES ASSUME NEW k \in 0 .. m
                 PROVE  g[k] = IF k = 0 THEN LoopStart ELSE LoopStep(g[k - 1], RungAt(k))
      OBVIOUS
    <3>1. CASE k = m
      <4>1. k - 1 \in 0 .. m /\ k - 1 # m /\ k # 0
        BY <2>3, <2>4, <3>1
      <4>2. g[k - 1] = h[m - 1]
        BY <3>1, <4>1
      <4> QED BY <3>1, <4>1, <4>2
    <3>2. CASE k # m
      <4>1. k \in 0 .. m - 1
        BY <2>3, <3>2
      <4>2. h[k] = IF k = 0 THEN LoopStart ELSE LoopStep(h[k - 1], RungAt(k))
        BY <2>6, <4>1
      <4>3. g[k] = h[k]
        BY <3>2
      <4>4. k # 0 => k - 1 \in 0 .. m /\ k - 1 # m
        BY <2>3, <4>1
      <4>5. k # 0 => g[k - 1] = h[k - 1]
        BY <4>4
      <4> HIDE DEF g
      <4> QED BY <4>2, <4>3, <4>5
    <3> QED BY <3>1, <3>2
  <2>8. Fits(g, m)
    <3>1. g = [k \in 0 .. m |-> g[k]]
      OBVIOUS
    <3> HIDE DEF g
    <3> QED BY <2>7, <3>1
  <2> QED BY <2>3, <2>8
<1>3. PICK h : Fits(h, N)
  <2>1. N \in 0 .. N
    BY <1>1
  <2> QED BY <1>2, <2>1
<1>4. LoopAfter = CHOOSE f : Fits(f, N)
  BY DEF LoopAfter, N
<1>5. Fits(LoopAfter, N)
  <2> HIDE DEF Fits
  <2> QED BY <1>3, <1>4
<1>6. /\ LoopAfter[0] = LoopStart
      /\ \A k \in 1 .. N : LoopAfter[k] = LoopStep(LoopAfter[k - 1], RungAt(k))
  <2>1. 0 \in 0 .. N /\ \A k \in 1 .. N : k \in 0 .. N /\ k # 0
    BY <1>1
  <2> HIDE DEF LoopAfter
  <2> QED BY <1>5, <2>1
<1> HIDE DEF LoopAfter
<1> QED BY <1>6 DEF N

\* Before the first rung nothing is graded and there is nothing to collapse against.
LEMMA LoopInvFirst ==
  ASSUME LadderPolicyAssumption
  PROVE  LoopInv(0)
<1>1. Seen(0) = {}
  <2>1. \A level \in Rungs : Cardinality(Below(level)) \in Nat
    BY BelowIsRank, RungsFinite
  <2> QED BY <2>1 DEF Seen
<1>2. References(0) = {}
  BY <1>1 DEF References
<1>3. LoopAfter[0] = [graded |-> <<>>, best |-> None, terminated_at |-> None]
  BY LoopUnfolds DEF LoopStart
<1> HIDE DEF LoopAfter
<1> QED BY <1>1, <1>2, <1>3 DEF LoopInv, BestSoFar

\* A median of measured throughputs is a number.
LEMMA ThroughputType ==
  ASSUME LadderPolicyAssumption, EvidenceInv, NEW level \in Levels, Measured(level) # {}
  PROVE  Throughput2(level) \in Nat
<1> DEFINE reps == Measured(level)
           n == Cardinality(reps)
<1>1. reps \in SUBSET Counted(level) /\ IsFiniteSet(Counted(level))
  BY CountedIsFinite DEF Measured
<1>2. IsFiniteSet(reps) /\ n \in Nat /\ n # 0
  <2> HIDE DEF reps
  <2> QED BY <1>1, FS_Subset, FS_CardinalityType, FS_EmptySet DEF reps
<1>3. \A rep \in reps : rep["tok_s"] \in Nat
  <2>1. reps \in SUBSET Repetition
    BY <1>1, CountedIsFinite DEF EvidenceInv, Filed
  <2>2. \A rep \in Repetition : rep["tok_s"] \in Nat \cup {None}
    BY DEF Repetition
  <2>3. \A rep \in reps : rep["tok_s"] # None
    BY DEF Measured
  <2> QED BY <2>1, <2>2, <2>3
<1> HIDE DEF reps
<1>4. (n + 1) \div 2 \in 1 .. n /\ (n \div 2) + 1 \in 1 .. n
  <2> HIDE DEF n
  <2> QED BY <1>2
<1>5. \A k \in 1 .. n : KthFigure(reps, "tok_s", k) \in Nat
  BY <1>2, <1>3, KthFigureType
<1>6. TwiceMedian(reps) = KthFigure(reps, "tok_s", (n + 1) \div 2)
                            + KthFigure(reps, "tok_s", (n \div 2) + 1)
  BY DEF TwiceMedian
<1> HIDE DEF n
<1> QED BY <1>4, <1>5, <1>6 DEF Throughput2, reps

\* A product grows with its factor.
LEMMA TimesGrows ==
  ASSUME NEW c \in Nat, NEW a \in Nat, NEW b \in Nat, a <= b
  PROVE  c * a \in Nat /\ c * b \in Nat /\ c * a <= c * b
<1> DEFINE d == b - a
<1>1. d \in Nat /\ b = a + d
  OBVIOUS
<1> HIDE DEF d
<1>2. c * b = c * a + c * d
  BY <1>1
<1>3. c * d \in Nat /\ c * a \in Nat
  BY <1>1
<1> QED BY <1>2, <1>3

\* Collapsing against the best of the references is collapsing against one of them.
LEMMA CollapseIsAgainstBest ==
  ASSUME LadderPolicyAssumption, EvidenceInv, NEW k \in 1 .. Cardinality(Rungs), NEW best,
         BestSoFar(best, k - 1), Measured(RungAt(k)) # {}
  PROVE  (\E l \in CollapseReferences(RungAt(k)) :
             CollapseDen * Throughput2(RungAt(k)) < CollapseNum * Throughput2(l))
           <=> best # None /\ CollapseDen * Throughput2(RungAt(k)) < CollapseNum * best
<1> DEFINE level == RungAt(k)
           refs == References(k - 1)
           figure == Throughput2(level)
<1>1. level \in Rungs /\ level \in Levels
  BY KthRung, RungsFinite
<1>2. CollapseReferences(level) = refs
  BY KthRung DEF CollapseReferences, References
<1>3. \A l \in refs : Throughput2(l) \in Nat
  <2>1. \A l \in refs : l \in Levels /\ Measured(l) # {}
    BY RungsFinite DEF References, Seen
  <2> HIDE DEF refs
  <2> QED BY <2>1, ThroughputType
<1>4. figure \in Nat /\ CollapseNum \in Nat /\ CollapseDen \in Nat /\ None \notin Nat
  BY <1>1, ThroughputType DEF LadderPolicyAssumption
<1> HIDE DEF level, refs, figure
<1>5. CASE refs = {}
  BY <1>2, <1>5 DEF BestSoFar, level, refs
<1>6. CASE refs # {}
  <2>1. PICK top \in refs : best = Throughput2(top)
    BY <1>6 DEF BestSoFar, refs
  <2>2. best \in Nat /\ best # None /\ \A l \in refs : Throughput2(l) <= best
    BY <1>3, <1>4, <1>6, <2>1 DEF BestSoFar, refs
  <2>3. \A l \in refs : /\ CollapseNum * Throughput2(l) <= CollapseNum * best
                        /\ CollapseNum * Throughput2(l) \in Nat
    BY <1>3, <1>4, <2>2, TimesGrows
  <2>4. CollapseDen * figure \in Nat /\ CollapseNum * best \in Nat
    BY <1>4, <2>2, TimesGrows
  <2>5. (\E l \in refs : CollapseDen * figure < CollapseNum * Throughput2(l))
          <=> CollapseDen * figure < CollapseNum * best
    BY <2>1, <2>3, <2>4
  <2> QED BY <1>2, <2>2, <2>5 DEF level, figure
<1> QED BY <1>5, <1>6

\* One more pass of the body keeps the best of the references.
LEMMA BestIsKept ==
  ASSUME LadderPolicyAssumption, EvidenceInv, NEW k \in 1 .. Cardinality(Rungs), NEW best,
         BestSoFar(best, k - 1)
  PROVE  BestSoFar(IF RungVerdict(RungAt(k)) = "complete"
                   THEN BestReference(best, RungAt(k)) ELSE best, k)
<1> DEFINE level == RungAt(k)
           refs == References(k - 1)
           after == References(k)
           new == IF RungVerdict(level) = "complete" THEN BestReference(best, level) ELSE best
<1>1. level \in Rungs /\ level \in Levels /\ Seen(k) = Seen(k - 1) \cup {level}
  BY KthRung, RungsFinite
<1>2. \A l \in after : Throughput2(l) \in Nat
  <2>1. \A l \in after : l \in Levels /\ Measured(l) # {}
    BY RungsFinite DEF References, Seen
  <2> HIDE DEF after
  <2> QED BY <2>1, ThroughputType
<1>3. None \notin Nat
  BY DEF LadderPolicyAssumption
<1>4. after = IF RungVerdict(level) = "complete" /\ Measured(level) # {}
              THEN refs \cup {level} ELSE refs
  <2> HIDE DEF level
  <2> QED BY <1>1 DEF References
<1> HIDE DEF level, refs, after
<1>5. CASE ~(RungVerdict(level) = "complete" /\ Measured(level) # {})
  <2>1. new = best /\ after = refs
    BY <1>4, <1>5 DEF BestReference
  <2> QED BY <2>1 DEF BestSoFar, level, refs, after
<1>6. CASE RungVerdict(level) = "complete" /\ Measured(level) # {}
  <2>1. after = refs \cup {level} /\ after # {}
    BY <1>4, <1>6
  <2>2. new = IF best = None \/ Throughput2(level) > best THEN Throughput2(level) ELSE best
    BY <1>6 DEF BestReference
  <2>3. Throughput2(level) \in Nat
    BY <1>2, <2>1
  <2>4. CASE refs = {}
    <3>1. best = None
      BY <2>4 DEF BestSoFar, refs
    <3>2. new = Throughput2(level) /\ after = {level}
      BY <2>1, <2>2, <2>4, <3>1
    <3> HIDE DEF new
    <3>3. BestSoFar(new, k)
      BY <2>1, <2>3, <3>2 DEF BestSoFar, after
    <3> QED BY <3>3 DEF new, level
  <2>5. CASE refs # {}
    <3>1. PICK top \in refs : best = Throughput2(top)
      BY <2>5 DEF BestSoFar, refs
    <3>2. best \in Nat /\ best # None /\ \A l \in refs : Throughput2(l) <= best
      BY <1>2, <1>3, <2>1, <2>5, <3>1 DEF BestSoFar, refs
    <3>3. new = Throughput2(level) \/ new = Throughput2(top)
      BY <2>2, <3>1
    <3>4. \A l \in after : Throughput2(l) <= new
      BY <1>2, <2>1, <2>2, <2>3, <3>2
    <3> HIDE DEF new
    <3>5. BestSoFar(new, k)
      BY <2>1, <3>1, <3>3, <3>4 DEF BestSoFar, after
    <3> QED BY <3>5 DEF new, level
  <2> QED BY <2>4, <2>5
<1> QED BY <1>5, <1>6

\* A pass of the body over the next rung keeps what the loop has established.
LEMMA LoopInvNext ==
  ASSUME LadderPolicyAssumption, EvidenceInv, NEW k \in 1 .. Cardinality(Rungs), LoopInv(k - 1)
  PROVE  LoopInv(k)
<1> DEFINE level == RungAt(k)
           loop == LoopAfter[k - 1]
           next == LoopAfter[k]
           seen == Seen(k - 1)
<1>1. /\ level \in Rungs /\ Below(level) = seen /\ level \notin seen
      /\ Seen(k) = seen \cup {level}
  BY KthRung
<1>2. next = LoopStep(loop, level)
  BY LoopUnfolds
<1>3. None \notin Rungs
  BY RungsFinite
<1>4. /\ DOMAIN loop.graded = seen \cap Graded
      /\ \A l \in seen \cap Graded : loop.graded[l] = Outcome(l)
      /\ loop.terminated_at = None =>
           (\A l \in seen : ~Terminates(l)) /\ BestSoFar(loop.best, k - 1)
      /\ loop.terminated_at # None =>
           loop.terminated_at \in seen \cap Graded /\ Terminates(loop.terminated_at)
  BY DEF LoopInv
<1> HIDE DEF LoopAfter, level, loop, next, seen
<1>5. CASE loop.terminated_at # None
  <2>1. next = loop
    BY <1>2, <1>5 DEF LoopStep
  <2>2. level \notin Graded
    BY <1>1, <1>4, <1>5 DEF Graded
  <2>3. Seen(k) \cap Graded = seen \cap Graded /\ seen \in SUBSET Seen(k)
    BY <1>1, <2>2
  <2>4. /\ DOMAIN next.graded = Seen(k) \cap Graded
        /\ \A l \in Seen(k) \cap Graded : next.graded[l] = Outcome(l)
        /\ next.terminated_at # None
        /\ next.terminated_at \in Seen(k) \cap Graded /\ Terminates(next.terminated_at)
    BY <1>4, <1>5, <2>1, <2>3
  <2> QED BY <2>4 DEF LoopInv, next
<1>6. CASE loop.terminated_at = None
  <2> DEFINE verdict == RungVerdict(level)
             collapsed == /\ verdict # "invalid"
                          /\ Measured(level) # {} /\ loop.best # None
                          /\ CollapseDen * Throughput2(level) < CollapseNum * loop.best
             outcome == IF collapsed THEN "failed" ELSE verdict
             stops == collapsed \/ RungZeroCompletions(level)
             best == IF ~stops /\ outcome = "complete"
                     THEN BestReference(loop.best, level) ELSE loop.best
  <2>1. /\ next.graded = [l \in DOMAIN loop.graded \cup {level} |->
                            IF l = level THEN outcome ELSE loop.graded[l]]
        /\ next.terminated_at = IF stops THEN level ELSE None
        /\ next.best = best
    BY <1>2, <1>6 DEF LoopStep
  <2>2. BestSoFar(loop.best, k - 1) /\ \A l \in seen : ~Terminates(l)
    BY <1>4, <1>6
  <2>3. collapsed <=> Collapsed(level)
    <3>1. ASSUME Measured(level) # {}
          PROVE  (\E l \in CollapseReferences(level) :
                     CollapseDen * Throughput2(level) < CollapseNum * Throughput2(l))
                   <=> loop.best # None
                         /\ CollapseDen * Throughput2(level) < CollapseNum * loop.best
      BY <2>2, <3>1, CollapseIsAgainstBest DEF level
    <3> QED BY <3>1 DEF Collapsed
  <2>4. outcome = Outcome(level) /\ (stops <=> Terminates(level))
    BY <2>3 DEF Outcome, Terminates
  <2>5. level \in Graded
    BY <1>1, <2>2 DEF Graded
  <2>6. BestSoFar(IF verdict = "complete" THEN BestReference(loop.best, level)
                  ELSE loop.best, k)
    BY <2>2, BestIsKept DEF level
  <2>7. ~stops => best = IF verdict = "complete" THEN BestReference(loop.best, level)
                         ELSE loop.best
    OBVIOUS
  <2> HIDE DEF collapsed, outcome, stops, best, verdict
  <2>8. Seen(k) \cap Graded = (seen \cap Graded) \cup {level}
    BY <1>1, <2>5
  <2>9. DOMAIN next.graded = Seen(k) \cap Graded
    BY <1>4, <2>1, <2>8
  <2>10. \A l \in Seen(k) \cap Graded : next.graded[l] = Outcome(l)
    <3> SUFFICES ASSUME NEW l \in Seen(k) \cap Graded PROVE next.graded[l] = Outcome(l)
      OBVIOUS
    <3>1. next.graded[l] = IF l = level THEN outcome ELSE loop.graded[l]
      BY <1>4, <2>1, <2>8
    <3>2. l # level => l \in seen \cap Graded
      BY <2>8
    <3> QED BY <1>4, <2>4, <3>1, <3>2
  <2>11. next.terminated_at = None =>
           (\A l \in Seen(k) : ~Terminates(l)) /\ BestSoFar(next.best, k)
    <3> SUFFICES ASSUME next.terminated_at = None
                 PROVE  (\A l \in Seen(k) : ~Terminates(l)) /\ BestSoFar(next.best, k)
      OBVIOUS
    <3>1. ~stops
      BY <1>1, <1>3, <2>1
    <3>2. ~Terminates(level)
      BY <2>4, <3>1
    <3> QED BY <1>1, <2>1, <2>2, <2>6, <2>7, <3>1, <3>2
  <2>12. next.terminated_at # None =>
           next.terminated_at \in Seen(k) \cap Graded /\ Terminates(next.terminated_at)
    BY <2>1, <2>4, <2>8
  <2> QED BY <2>9, <2>10, <2>11, <2>12 DEF LoopInv, next
<1> QED BY <1>5, <1>6

\* So it holds after every rung.
LEMMA LoopInvHolds ==
  ASSUME LadderPolicyAssumption, EvidenceInv
  PROVE  \A k \in 0 .. Cardinality(Rungs) : LoopInv(k)
<1> DEFINE N == Cardinality(Rungs)
           bad == {k \in 0 .. N : ~LoopInv(k)}
<1>1. N \in Nat
  BY RungsFinite
<1> SUFFICES ASSUME bad # {} PROVE FALSE
  OBVIOUS
<1> HIDE DEF N
<1>2. PICK m \in bad : \A x \in bad : m <= x
  <2>1. bad \in SUBSET Nat
    BY <1>1
  <2> HIDE DEF bad
  <2> QED BY <2>1, LeastExists
<1>3. m \in 0 .. N /\ m \in Nat /\ ~LoopInv(m)
  BY <1>1
<1>4. m # 0
  BY <1>3, LoopInvFirst
<1>5. m \in 1 .. N /\ m - 1 \in 0 .. N /\ ~(m <= m - 1)
  BY <1>1, <1>3, <1>4
<1>6. LoopInv(m - 1)
  BY <1>2, <1>5
<1> QED BY <1>3, <1>5, <1>6, LoopInvNext DEF N

\* The loop of grade_ladder, with its running best and its break, grades the rungs the
\* declarative reading grades, with the same outcomes, and stops at the same rung
\* (ladder.py:312-350).
THEOREM LoopIsDeclared == EvidenceSpec => []LoopGradesAsDeclared
<1>1. LadderPolicyAssumption
  BY LadderPolicyAssumption
<1>2. EvidenceInv => LoopGradesAsDeclared
  <2> SUFFICES ASSUME EvidenceInv PROVE LoopGradesAsDeclared
    OBVIOUS
  <2> DEFINE N == Cardinality(Rungs)
  <2>1. N \in Nat /\ None \notin Rungs
    BY <1>1, RungsFinite
  <2>2. Seen(N) = Rungs /\ Graded \in SUBSET Rungs
    <3>1. \A level \in Rungs : Cardinality(Below(level)) \in 0 .. N - 1
      BY <1>1, BelowIsRank
    <3> HIDE DEF N
    <3>2. \A level \in Rungs : Cardinality(Below(level)) < N
      BY <2>1, <3>1
    <3> QED BY <3>2 DEF Seen, Graded
  <2>3. LoopInv(N)
    <3>1. N \in 0 .. N
      BY <2>1
    <3> QED BY <1>1, <3>1, LoopInvHolds
  <2>4. Loop = LoopAfter[N]
    BY DEF Loop
  <2>5. Seen(N) \cap Graded = Graded
    BY <2>2
  <2> HIDE DEF N, LoopAfter
  <2>6. /\ DOMAIN Loop.graded = Graded
        /\ \A level \in Graded : Loop.graded[level] = Outcome(level)
        /\ Loop.terminated_at = None => \A level \in Rungs : ~Terminates(level)
        /\ Loop.terminated_at # None =>
             Loop.terminated_at \in Graded /\ Terminates(Loop.terminated_at)
    BY <2>2, <2>3, <2>4, <2>5 DEF LoopInv
  <2> HIDE DEF Loop
  <2>7. \A a, b \in Graded : Terminates(a) /\ Terminates(b) => a = b
    <3> SUFFICES ASSUME NEW a \in Graded, NEW b \in Graded, Terminates(a), Terminates(b),
                        a # b
                 PROVE  FALSE
      OBVIOUS
    <3>1. a \in Rungs /\ b \in Rungs /\ (a < b \/ b < a)
      BY <1>1, <2>2, RungsFinite
    <3> QED BY <3>1 DEF Graded, Below
  <2> QED BY <2>1, <2>2, <2>6, <2>7 DEF LoopGradesAsDeclared
<1> QED BY <1>2, EvidenceInvariant, PTL
=============================================================================

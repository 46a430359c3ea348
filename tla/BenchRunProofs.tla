---------------------------- MODULE BenchRunProofs ----------------------------
(***************************************************************************)
(* What a bench leaves behind, for every ladder, every window result and   *)
(* every number of strikes.                                                *)
(***************************************************************************)
EXTENDS BenchRun, LadderGradingProofs

Label(rep) == <<rep.concurrency, rep.repetition>>

\* The k-th window of the search.
Place(k) == <<RungAt(k \div Repetitions), k % Repetitions>>

\* What _keep files is the next declared window, or the re-run of the boundary.
PendingFits ==
  /\ pending.concurrency \in Levels
  /\ pending.post_search \in BOOLEAN
  /\ IF pending.post_search
     THEN driven = Declared /\ boundary # None /\ Label(pending) = <<boundary, Repetitions>>
     ELSE driven < Declared /\ boundary = None /\ Label(pending) = Place(driven)

\* A search that nothing cut short ran every window, and re-ran its boundary.
Searched ==
  /\ driven = Declared
  /\ boundary # None => <<boundary, Repetitions>> \in Labels(runs)

\* The windows: what is kept, in which order, and how it relates to what is graded.
LadderInv ==
  /\ DOMAIN evidence = Levels
  /\ driven \in 0 .. Declared
  /\ boundary \in Levels \cup {None}
  /\ \A rep \in runs : rep.concurrency \in Levels
  /\ \A k \in 0 .. driven - 1 : Place(k) \in Labels(runs)
  /\ AllEvidence \subseteq runs
  /\ \E rep : runs \subseteq AllEvidence \cup {rep}
  /\ stage # "keeping" /\ ~censored => runs = AllEvidence
  /\ stage \in {"checking", "searching", "keeping", "confirming"} => ~censored
  /\ stage \in {"checking", "searching"} => boundary = None
  /\ stage = "keeping" => PendingFits /\ runs \in {AllEvidence, AllEvidence \cup {pending}}
  /\ stage = "confirming" => driven = Declared /\ boundary # None
  /\ stage \in {"closing", "grading", "capturing", "writing", "removing", "reporting"}
       => censored \/ Searched

\* The files: what stands at bundle_dir at each stage, and how the process ends.
FilesInv ==
  /\ stage \in {"checking", "searching", "keeping", "confirming", "closing", "grading",
                "capturing", "writing", "removing", "reporting", "exited"}
  /\ stage \in {"checking", "searching", "keeping", "confirming", "closing", "grading",
                "capturing"} => bundle # "partial"
  /\ stage = "reporting" => bundle = "whole"
  /\ stage # "exited" => exit = None
  /\ exit = 0 => ~censored /\ Searched /\ bundle = "whole" /\ report
  /\ stage = "exited" /\ bundle = "partial" => <<"removing", "interrupt">> \in struck

\* Only the ladder was struck, and nobody else touched the disk.
LadderStruckOnly ==
  /\ ~foreign /\ ~LogProblem
  /\ struck # {}
  /\ struck \subseteq ({"searching", "keeping", "confirming", "closing"}
                          \X {"interrupt", "abort"})

\* Such a run is past its preflight, censored, and on its way to a whole bundle.
SurvivorInv ==
  /\ ~foreign /\ stage \in {"searching", "keeping", "confirming", "closing", "grading",
                            "capturing"} => bundle = "absent"
  /\ stage = "checking" => struck = {}
  /\ stage \in {"searching", "keeping", "confirming"} => struck = {}
  /\ stage \in {"capturing", "writing", "reporting"} => runs # {}
  /\ LadderStruckOnly =>
       /\ censored /\ stage # "removing"
       /\ stage = "writing" => bundle = "partial"
       /\ stage = "exited" /\ runs # {} => bundle = "whole" /\ report /\ exit = 3

BenchInv == LadderInv /\ FilesInv /\ SurvivorInv

-----------------------------------------------------------------------------
(* The declared windows. *)

\* The k-th window is one of the search's, and every window of the search is the k-th
\* for some k.
LEMMA PlacesAreSearchWindows ==
  ASSUME LadderPolicyAssumption
  PROVE  /\ Declared \in Nat
         /\ \A k \in 0 .. Declared - 1 : RungAt(k \div Repetitions) \in Levels
         /\ \A w \in SearchWindows : \E k \in 0 .. Declared - 1 : Place(k) = w
<1> DEFINE N == Cardinality(Levels)  R == Repetitions
<1>1. /\ Levels \in SUBSET Nat /\ IsFiniteSet(Levels)
      /\ N \in Nat /\ R \in Nat \ {0}
  BY FS_CardinalityType DEF LadderPolicyAssumption
<1>2. Declared = N * R /\ Declared \in Nat
  BY <1>1 DEF Declared
<1>3. ASSUME NEW r \in 0 .. N - 1
      PROVE  RungAt(r) \in Levels /\ Rank(Levels, RungAt(r)) = r
  <2>1. \E l \in Levels : Rank(Levels, l) = r
    BY <1>1, RankOnto
  <2> QED BY <2>1 DEF RungAt, Rank
<1>4. \A k \in 0 .. Declared - 1 : RungAt(k \div R) \in Levels
  <2> SUFFICES ASSUME NEW k \in 0 .. Declared - 1 PROVE RungAt(k \div R) \in Levels
    OBVIOUS
  <2> HIDE DEF N, R
  <2>1. k \in Nat /\ k < N * R
    BY <1>2
  <2>2. k \div R \in 0 .. N - 1
    BY <1>1, <2>1
  <2> QED BY <1>3, <2>2
<1>5. ASSUME NEW w \in SearchWindows
      PROVE  \E k \in 0 .. Declared - 1 : Place(k) = w
  <2>1. PICK l \in Levels, n \in 0 .. R - 1 : w = <<l, n>>
    BY DEF SearchWindows
  <2> DEFINE r == Rank(Levels, l)
             k == r * R + n
  <2>2. r \in 0 .. N - 1
    BY <1>1, RankType
  <2>3. RungAt(r) = l
    <3>1. RungAt(r) \in Levels /\ Rank(Levels, RungAt(r)) = r
      BY <1>3, <2>2
    <3>2. RungAt(r) \in Nat /\ l \in Nat
      <4> HIDE DEF r
      <4> QED BY <1>1, <3>1
    <3>3. ~(RungAt(r) < l) /\ ~(l < RungAt(r))
      <4>1. r \in Nat
        BY <1>1, <2>2
      <4>2. RungAt(r) < l => Rank(Levels, RungAt(r)) < Rank(Levels, l)
        BY <1>1, <3>1, RankIncreases
      <4>3. l < RungAt(r) => Rank(Levels, l) < Rank(Levels, RungAt(r))
        BY <1>1, <3>1, RankIncreases
      <4> QED BY <3>1, <4>1, <4>2, <4>3
    <3> QED BY <3>2, <3>3
  <2>4. k \div R = r /\ k % R = n /\ k \in 0 .. N * R - 1
    <3> HIDE DEF N, R, r
    <3> QED BY <1>1, <2>2
  <2>5. Place(k) = w
    BY <2>1, <2>3, <2>4 DEF Place
  <2> QED BY <1>2, <2>4, <2>5
<1> QED BY <1>2, <1>4, <1>5

-----------------------------------------------------------------------------
(* The windows, action by action. *)

\* The stages after the ladder's coroutine has been left, but for the end.
After == {"closing", "grading", "capturing", "writing", "removing", "reporting"}

\* What happens to the files or to the process, and what only censors the ladder, keeps
\* the windows in order.
LEMMA LadderFrame ==
  ASSUME LadderInv, UNCHANGED <<evidence, driven, runs, boundary>>,
         stage' \notin {"checking", "keeping", "confirming"},
         censored => censored',
         stage = "keeping" => censored',
         stage' = "searching" => stage \in {"checking", "searching"} /\ ~censored',
         stage' \in After => censored' \/ stage \in After
  PROVE  LadderInv'
<1>1. AllEvidence' = AllEvidence /\ Labels(runs)' = Labels(runs)
  BY DEF AllEvidence, Labels
<1>2. \A k : Place(k)' = Place(k)
  BY DEF Place, RungAt
<1>3. Searched' = Searched
  BY <1>1 DEF Searched, Declared
<1>4. Declared' = Declared
  BY DEF Declared
<1>5. /\ DOMAIN evidence' = Levels
      /\ driven' \in 0 .. Declared'
      /\ boundary' \in Levels \cup {None}
      /\ \A rep \in runs' : rep.concurrency \in Levels
      /\ \A k \in 0 .. driven' - 1 : Place(k)' \in Labels(runs)'
      /\ AllEvidence' \subseteq runs'
      /\ \E rep : runs' \subseteq AllEvidence' \cup {rep}
  BY <1>1, <1>2, <1>4 DEF LadderInv
<1>6. /\ stage' # "keeping" /\ ~censored' => runs' = AllEvidence'
      /\ stage' \in {"checking", "searching", "keeping", "confirming"} => ~censored'
      /\ stage' \in {"checking", "searching"} => boundary' = None
  BY <1>1 DEF LadderInv
<1>7. stage' \in After => censored' \/ Searched'
  BY <1>3 DEF LadderInv, After
<1> QED BY <1>5, <1>6, <1>7 DEF LadderInv, After

\* A window of the search, or of the confirmation, is put before _keep.
LEMMA WindowKeepsLadder ==
  ASSUME LadderPolicyAssumption, LadderInv, NEW result,
         SearchWindow(result) \/ ConfirmWindow(result)
  PROVE  LadderInv'
<1>1. AllEvidence' = AllEvidence /\ Labels(runs)' = Labels(runs)
  BY DEF AllEvidence, Labels, SearchWindow, ConfirmWindow
<1>2. \A k : Place(k)' = Place(k)
  BY DEF Place, RungAt
<1>3. UNCHANGED <<evidence, driven, runs, boundary, censored>> /\ stage' = "keeping"
  BY DEF SearchWindow, ConfirmWindow
<1>4. Declared' = Declared
  BY DEF Declared
<1>5. PendingFits'
  <2>1. CASE SearchWindow(result)
    <3>1. driven \in 0 .. Declared - 1 /\ boundary = None
      BY <2>1, PlacesAreSearchWindows DEF LadderInv, SearchWindow
    <3>2. /\ pending'.concurrency = RungAt(driven \div Repetitions)
          /\ pending'.repetition = driven % Repetitions
          /\ pending'.post_search = FALSE
      BY <2>1 DEF SearchWindow, AsRepetition
    <3>3. Label(pending)' = Place(driven)'
      BY <1>2, <1>3, <3>2 DEF Label, Place
    <3>4. RungAt(driven \div Repetitions) \in Levels
      BY <3>1, PlacesAreSearchWindows
    <3> QED BY <1>3, <1>4, <2>1, <3>1, <3>2, <3>3, <3>4 DEF PendingFits, SearchWindow
  <2>2. CASE ConfirmWindow(result)
    <3>1. driven = Declared /\ boundary # None /\ boundary \in Levels
      BY <2>2 DEF LadderInv, ConfirmWindow
    <3>2. /\ pending'.concurrency = boundary
          /\ pending'.repetition = Repetitions
          /\ pending'.post_search = TRUE
      BY <2>2 DEF ConfirmWindow, AsRepetition
    <3>3. Label(pending)' = <<boundary', Repetitions>>
      BY <1>3, <3>2 DEF Label
    <3> QED BY <1>3, <1>4, <3>1, <3>2, <3>3 DEF PendingFits
  <2> QED BY <2>1, <2>2
<1>6. ~censored /\ runs = AllEvidence
  BY DEF LadderInv, SearchWindow, ConfirmWindow
<1> QED BY <1>1, <1>2, <1>3, <1>4, <1>5, <1>6 DEF LadderInv

\* _keep files the run.
LEMMA KeepRunKeepsLadder ==
  ASSUME LadderInv, KeepRun
  PROVE  LadderInv'
<1>1. /\ stage = "keeping" /\ pending \notin runs /\ runs' = runs \cup {pending}
      /\ UNCHANGED <<evidence, stage, driven, pending, boundary, censored>>
  BY DEF KeepRun
<1>2. AllEvidence' = AllEvidence
  BY <1>1 DEF AllEvidence
<1>3. PendingFits /\ PendingFits' /\ ~censored
  <2>1. PendingFits /\ ~censored
    BY <1>1 DEF LadderInv
  <2>2. PendingFits' = PendingFits
    BY <1>1 DEF PendingFits, Declared, Label, Place, RungAt
  <2> QED BY <2>1, <2>2
<1>4. runs = AllEvidence
  BY <1>1 DEF LadderInv
<1>5. Labels(runs) \subseteq Labels(runs)'
  BY <1>1 DEF Labels
<1>6. \A k \in 0 .. driven' - 1 : Place(k)' \in Labels(runs)'
  BY <1>1, <1>5 DEF LadderInv, Place, RungAt
<1>7. \A rep \in runs' : rep.concurrency \in Levels
  BY <1>1, <1>3 DEF LadderInv, PendingFits
<1> QED BY <1>1, <1>2, <1>3, <1>4, <1>6, <1>7 DEF LadderInv, Declared

\* _keep files the repetition.
LEMMA KeepRepetitionKeepsLadder ==
  ASSUME LadderPolicyAssumption, LadderInv, KeepRepetition
  PROVE  LadderInv'
<1>1. /\ stage = "keeping" /\ pending \in runs /\ File(pending.concurrency, pending)
      /\ driven' = IF pending.post_search THEN driven ELSE driven + 1
      /\ stage' = IF pending.post_search THEN "closing" ELSE "searching"
      /\ UNCHANGED <<runs, boundary, censored>>
  BY DEF KeepRepetition, RunFiled, Advanced, AfterConfirmation
<1>2. PendingFits /\ ~censored /\ runs = AllEvidence \cup {pending}
  BY <1>1 DEF LadderInv
<1>3. DOMAIN evidence' = Levels /\ AllEvidence' = AllEvidence \cup {pending}
  BY <1>1, <1>2, FileAdds DEF AllEvidence, PendingFits, LadderInv
<1>4. Labels(runs)' = Labels(runs) /\ Label(pending) \in Labels(runs)
  BY <1>1 DEF Labels, Label
<1>5. \A k : Place(k)' = Place(k)
  BY DEF Place, RungAt
<1>6. Declared \in Nat /\ driven \in 0 .. Declared /\ Declared' = Declared
  BY PlacesAreSearchWindows DEF LadderInv, Declared
<1>7. CASE pending.post_search
  <2>1. driven' = driven /\ stage' = "closing"
    BY <1>1, <1>7
  <2>2. Searched'
    BY <1>1, <1>2, <1>4, <1>6, <1>7, <2>1 DEF PendingFits, Searched
  <2> QED BY <1>1, <1>2, <1>3, <1>4, <1>5, <1>6, <2>1, <2>2 DEF LadderInv
<1>8. CASE ~pending.post_search
  <2>1. /\ driven' = driven + 1 /\ stage' = "searching"
        /\ driven < Declared /\ boundary = None /\ Label(pending) = Place(driven)
    BY <1>1, <1>2, <1>8 DEF PendingFits
  <2>2. \A k \in 0 .. driven' - 1 : k = driven \/ k \in 0 .. driven - 1
    BY <1>6, <2>1
  <2>3. \A k \in 0 .. driven' - 1 : Place(k)' \in Labels(runs)'
    BY <1>4, <1>5, <2>1, <2>2 DEF LadderInv
  <2>4. driven' \in 0 .. Declared'
    BY <1>6, <2>1
  <2> QED BY <1>1, <1>2, <1>3, <2>1, <2>3, <2>4 DEF LadderInv
<1> QED BY <1>7, <1>8

\* The search is over and its boundary is chosen.
LEMMA ChooseKeepsLadder ==
  ASSUME LadderPolicyAssumption, LadderInv, ChooseBoundary
  PROVE  LadderInv'
<1>1. /\ stage = "searching" /\ driven = Declared /\ boundary' = MaxSustainable
      /\ stage' = IF MaxSustainable = None THEN "closing" ELSE "confirming"
      /\ UNCHANGED <<evidence, driven, pending, runs, censored>>
  BY DEF ChooseBoundary
<1>2. AllEvidence' = AllEvidence /\ Labels(runs)' = Labels(runs)
  BY <1>1 DEF AllEvidence, Labels
<1>3. \A k : Place(k)' = Place(k)
  BY DEF Place, RungAt
<1>4. boundary' \in Levels \cup {None}
  BY <1>1, BoundaryIsARung
<1>5. Declared' = Declared
  BY DEF Declared
<1>6. stage' = "closing" => Searched'
  BY <1>1, <1>5 DEF Searched
<1> QED BY <1>1, <1>2, <1>3, <1>4, <1>5, <1>6 DEF LadderInv

-----------------------------------------------------------------------------
(* Every action. *)

Stages == {"checking", "searching", "keeping", "confirming", "closing", "grading",
           "capturing", "writing", "removing", "reporting", "exited"}

\* The search and its confirmation: no file is touched, nothing strikes.
LEMMA LadderStepKeeps ==
  ASSUME LadderPolicyAssumption, BenchAssumption, BenchInv,
         \/ \E result \in WindowResults : SearchWindow(result) \/ ConfirmWindow(result)
         \/ KeepRun \/ KeepRepetition \/ ChooseBoundary \/ CloseAdapter
  PROVE  BenchInv'
<1>1. LadderInv'
  <2>1. CASE \E result \in WindowResults : SearchWindow(result) \/ ConfirmWindow(result)
    BY <2>1, WindowKeepsLadder DEF BenchInv
  <2>2. CASE KeepRun
    BY <2>2, KeepRunKeepsLadder DEF BenchInv
  <2>3. CASE KeepRepetition
    BY <2>3, KeepRepetitionKeepsLadder DEF BenchInv
  <2>4. CASE ChooseBoundary
    BY <2>4, ChooseKeepsLadder DEF BenchInv
  <2>5. CASE CloseAdapter
    <3>1. /\ stage = "closing" /\ stage' = "grading"
          /\ UNCHANGED <<evidence, driven, runs, boundary, censored>>
      BY <2>5 DEF CloseAdapter
    <3> QED BY <3>1, LadderFrame DEF BenchInv, After
  <2> QED BY <2>1, <2>2, <2>3, <2>4, <2>5
<1>2. /\ UNCHANGED <<bundle, report, exit, log_outside, log_big, foreign, censored, struck>>
      /\ stage \in {"searching", "keeping", "confirming", "closing"}
      /\ stage' \in {"searching", "keeping", "confirming", "closing", "grading"}
      /\ stage = "closing" => stage' = "grading"
  BY DEF SearchWindow, ConfirmWindow, KeepRun, KeepRepetition, ChooseBoundary, CloseAdapter,
         outcomeVars, worldVars, AfterConfirmation
<1>3. exit' = None /\ None # 0
  BY <1>2 DEF BenchInv, FilesInv, LadderPolicyAssumption
<1>4. FilesInv'
  BY <1>2, <1>3 DEF BenchInv, FilesInv
<1>5. LadderStruckOnly' = LadderStruckOnly
  BY <1>2 DEF LadderStruckOnly, LogProblem
<1>6. SurvivorInv'
  BY <1>2, <1>5 DEF BenchInv, SurvivorInv, LadderStruckOnly
<1> QED BY <1>1, <1>4, <1>6 DEF BenchInv

\* The preflight, the bundle and the report.
LEMMA FilesStepKeeps ==
  ASSUME LadderPolicyAssumption, BenchAssumption, BenchInv,
         \/ Preflight \/ GradeLadder \/ CreateBundle \/ FinishBundle
         \/ RemoveBundle \/ WriteReport
  PROVE  BenchInv'
<1>1. UNCHANGED <<evidence, driven, pending, runs, boundary, censored, struck, worldVars>>
  BY DEF Preflight, GradeLadder, CreateBundle, FinishBundle, RemoveBundle, WriteReport,
         ladderVars
<1>2. /\ None # 0 /\ Raised # 0
  BY DEF LadderPolicyAssumption, BenchAssumption
<1>3. LadderInv'
  <2>1. /\ stage' \notin {"checking", "keeping", "confirming"}
        /\ stage # "keeping"
        /\ stage' = "searching" => stage = "checking"
        /\ stage' \in After => stage \in After
    BY DEF Preflight, GradeLadder, CreateBundle, FinishBundle, RemoveBundle, WriteReport,
           Exit, After
  <2> QED BY <1>1, <2>1, LadderFrame DEF BenchInv, LadderInv
<1>4. LadderStruckOnly' = LadderStruckOnly /\ Searched' = Searched
  BY <1>1 DEF LadderStruckOnly, LogProblem, worldVars, Searched, Labels, Declared
<1>5. /\ stage \in {"checking", "grading", "capturing", "writing", "removing", "reporting"}
      /\ stage' \in Stages
  BY DEF Preflight, GradeLadder, CreateBundle, FinishBundle, RemoveBundle, WriteReport,
         Exit, Stages
<1>6. CASE Preflight
  BY <1>1, <1>2, <1>3, <1>4, <1>6
     DEF BenchInv, FilesInv, SurvivorInv, LadderStruckOnly, Preflight, Exit, worldVars
<1>7. CASE GradeLadder
  BY <1>1, <1>2, <1>3, <1>4, <1>7
     DEF BenchInv, FilesInv, SurvivorInv, LadderStruckOnly, GradeLadder, Exit, worldVars
<1>8. CASE CreateBundle
  BY <1>1, <1>2, <1>3, <1>4, <1>8
     DEF BenchInv, FilesInv, SurvivorInv, LadderStruckOnly, CreateBundle, Exit, worldVars
<1>9. CASE FinishBundle
  BY <1>1, <1>2, <1>3, <1>4, <1>9
     DEF BenchInv, FilesInv, SurvivorInv, LadderStruckOnly, FinishBundle, Exit, worldVars
<1>10. CASE RemoveBundle
  BY <1>1, <1>2, <1>3, <1>4, <1>10
     DEF BenchInv, FilesInv, SurvivorInv, LadderStruckOnly, RemoveBundle, Exit, worldVars
<1>11. CASE WriteReport
  <2>1. /\ stage = "reporting" /\ stage' = "exited" /\ report' = TRUE
        /\ exit' = IF DraftProblems \/ censored THEN 3 ELSE 0
        /\ bundle' = bundle
    BY <1>11 DEF WriteReport, Exit, ExitCode
  <2>2. bundle = "whole" /\ (censored \/ Searched)
    BY <2>1 DEF BenchInv, FilesInv, LadderInv
  <2>3. exit' = 0 => ~censored
    BY <2>1
  <2>4. FilesInv'
    BY <1>1, <1>4, <2>1, <2>2, <2>3 DEF FilesInv
  <2>5. SurvivorInv'
    BY <1>1, <1>4, <2>1, <2>2 DEF BenchInv, SurvivorInv
  <2> QED BY <1>3, <2>4, <2>5 DEF BenchInv
<1> QED BY <1>6, <1>7, <1>8, <1>9, <1>10, <1>11

\* What strikes the ladder censors it.
LEMMA LadderStrikeKeeps ==
  ASSUME LadderPolicyAssumption, BenchAssumption, BenchInv, InterruptLadder \/ AbortLadder
  PROVE  BenchInv'
<1>1. /\ UNCHANGED <<evidence, driven, runs, boundary, bundle, report, exit, worldVars>>
      /\ censored' = TRUE
      /\ stage \in {"searching", "keeping", "confirming", "closing"}
      /\ stage' = IF stage = "closing" THEN "grading" ELSE "closing"
      /\ \E kind \in {"interrupt", "abort"} : struck' = struck \cup {<<stage, kind>>}
  BY DEF InterruptLadder, AbortLadder, InLadder, Strikes, AfterInterrupt, ladderVars,
         outcomeVars
<1>2. LadderInv'
  BY <1>1, LadderFrame DEF BenchInv, After
<1>3. exit' = None /\ None # 0
  BY <1>1 DEF BenchInv, FilesInv, LadderPolicyAssumption
<1>4. FilesInv'
  BY <1>1, <1>3 DEF BenchInv, FilesInv
<1>5. SurvivorInv'
  BY <1>1 DEF BenchInv, SurvivorInv, worldVars
<1> QED BY <1>2, <1>4, <1>5 DEF BenchInv

\* What strikes the write or anything else takes the run out of the clean ones.
LEMMA OtherStrikeKeeps ==
  ASSUME LadderPolicyAssumption, BenchAssumption, BenchInv,
         \/ ReportFails
         \/ \E kind \in {"interrupt", "disk"} : StrikeWriting(kind) \/ StrikeUnguarded(kind)
  PROVE  BenchInv'
<1>1. /\ UNCHANGED <<evidence, driven, pending, runs, boundary, censored, worldVars, bundle,
                     report>>
      /\ \/ /\ stage' = "exited" /\ exit' \in {3, Raised}
            /\ stage = "removing" => <<"removing", "interrupt">> \in struck'
            /\ stage # "writing"
         \/ stage' = "removing" /\ exit' = exit /\ stage \in {"capturing", "writing"}
      /\ stage \in {"checking", "grading", "capturing", "writing", "removing", "reporting"}
      /\ struck \subseteq struck'
  BY DEF ReportFails, StrikeWriting, StrikeUnguarded, Strikes, CleansUp, Exit, ladderVars
<1>2. ~LadderStruckOnly'
  <2>1. \E kind \in {"interrupt", "disk"} :
          /\ <<stage, kind>> \in struck'
          /\ stage \notin {"searching", "keeping", "confirming", "closing"}
    BY DEF ReportFails, StrikeWriting, StrikeUnguarded, Strikes
  <2> QED BY <2>1 DEF LadderStruckOnly
<1>3. LadderInv'
  BY <1>1, LadderFrame DEF BenchInv, LadderInv, After
<1>4. FilesInv'
  <2>1. None # 0 /\ Raised # 0
    BY DEF LadderPolicyAssumption, BenchAssumption
  <2> QED BY <1>1, <2>1 DEF BenchInv, FilesInv
<1>5. SurvivorInv'
  BY <1>1, <1>2 DEF BenchInv, SurvivorInv
<1> QED BY <1>3, <1>4, <1>5 DEF BenchInv

\* Another run's bundle and the server's log.
LEMMA WorldKeeps ==
  ASSUME LadderPolicyAssumption, BenchAssumption, BenchInv, ForeignBundle \/ LogGrows
  PROVE  BenchInv'
<1>1. /\ UNCHANGED <<evidence, driven, pending, runs, boundary, censored, stage, report, exit,
                     struck>>
      /\ stage \in {"grading", "capturing", "writing"}
      /\ \/ foreign' = TRUE /\ bundle' = "foreign" /\ stage # "writing"
         \/ foreign' = foreign /\ bundle' = bundle
      /\ LadderStruckOnly' => LadderStruckOnly
  BY DEF ForeignBundle, LogGrows, ladderVars, outcomeVars, LadderStruckOnly, LogProblem
<1>2. LadderInv'
  BY <1>1, LadderFrame DEF BenchInv, LadderInv, After
<1>3. exit' = None /\ None # 0
  BY <1>1 DEF BenchInv, FilesInv, LadderPolicyAssumption
<1>4. FilesInv'
  BY <1>1, <1>3 DEF BenchInv, FilesInv
<1>5. SurvivorInv'
  <2>1. foreign' = TRUE => ~LadderStruckOnly'
    BY DEF LadderStruckOnly
  <2> QED BY <1>1, <2>1 DEF BenchInv, SurvivorInv
<1> QED BY <1>2, <1>4, <1>5 DEF BenchInv

\* Nothing happens.
LEMMA BenchStutterKeeps ==
  ASSUME BenchInv, UNCHANGED benchVars
  PROVE  BenchInv'
<1>1. /\ UNCHANGED <<evidence, stage, driven, pending, runs, censored, boundary>>
      /\ UNCHANGED <<bundle, report, exit, log_outside, log_big, foreign, struck>>
  BY DEF benchVars
<1>2. /\ AllEvidence' = AllEvidence /\ Labels(runs)' = Labels(runs)
      /\ Declared' = Declared /\ Searched' = Searched /\ PendingFits' = PendingFits
  BY <1>1 DEF AllEvidence, Labels, Declared, Searched, PendingFits, Label, Place, RungAt
<1>3. \A k : Place(k)' = Place(k)
  BY DEF Place, RungAt
<1>4. LadderInv'
  BY <1>1, <1>2, <1>3 DEF BenchInv, LadderInv
<1>5. FilesInv'
  BY <1>1, <1>2 DEF BenchInv, FilesInv
<1>6. SurvivorInv'
  BY <1>1 DEF BenchInv, SurvivorInv, LadderStruckOnly, LogProblem
<1> QED BY <1>4, <1>5, <1>6 DEF BenchInv

-----------------------------------------------------------------------------
(* Theorems *)

\* The inductive invariant holds throughout every bench.
THEOREM BenchInvariant == BenchSpec => []BenchInv
<1>1. LadderPolicyAssumption /\ BenchAssumption
  BY LadderPolicyAssumption, BenchAssumption
<1>2. BenchInit => BenchInv
  <2> SUFFICES ASSUME BenchInit PROVE BenchInv
    OBVIOUS
  <2>1. AllEvidence = {} /\ DOMAIN evidence = Levels
    BY DEF BenchInit, NoEvidence, AllEvidence
  <2>2. Declared \in Nat
    BY <1>1, PlacesAreSearchWindows
  <2>3. LadderInv
    BY <2>1, <2>2 DEF BenchInit, LadderInv
  <2>4. None # 0
    BY <1>1 DEF LadderPolicyAssumption
  <2>5. FilesInv /\ SurvivorInv
    BY <2>4 DEF BenchInit, FilesInv, SurvivorInv, LadderStruckOnly
  <2> QED BY <2>3, <2>5 DEF BenchInv
<1>3. BenchInv /\ [BenchNext]_benchVars => BenchInv'
  <2> SUFFICES ASSUME BenchInv, [BenchNext]_benchVars PROVE BenchInv'
    OBVIOUS
  <2>1. CASE Progress
    BY <1>1, <2>1, LadderStepKeeps, FilesStepKeeps DEF Progress
  <2>2. CASE Strike
    BY <1>1, <2>2, LadderStrikeKeeps, OtherStrikeKeeps DEF Strike
  <2>3. CASE ForeignBundle \/ LogGrows
    BY <1>1, <2>3, WorldKeeps
  <2>4. CASE UNCHANGED benchVars
    BY <2>4, BenchStutterKeeps
  <2> QED BY <2>1, <2>2, <2>3, <2>4 DEF BenchNext
<1> QED BY <1>2, <1>3, PTL DEF BenchSpec

\* Nothing is graded that the bundle does not hold, and the bundle holds at most one
\* window more, the one _keep was cut off in (run.py:909-919, 1141-1165).
THEOREM GradedAreBundled == BenchSpec => []GradedWindowsAreBundled
<1>1. BenchInv => GradedWindowsAreBundled
  <2> SUFFICES ASSUME BenchInv PROVE GradedWindowsAreBundled
    OBVIOUS
  <2>1. PICK rep : runs \subseteq AllEvidence \cup {rep}
    BY DEF BenchInv, LadderInv
  <2>2. runs \ AllEvidence = {} \/ runs \ AllEvidence = {rep}
    BY <2>1
  <2>3. Cardinality(runs \ AllEvidence) \in {0, 1}
    <3>1. Cardinality({}) = 0 /\ Cardinality({rep}) = 1
      BY FS_EmptySet, FS_Singleton
    <3> QED BY <2>2, <3>1
  <2>4. runs # AllEvidence => pending \in runs \/ censored
    BY DEF BenchInv, LadderInv
  <2> QED BY <2>3, <2>4 DEF GradedWindowsAreBundled, BenchInv, LadderInv
<1> QED BY <1>1, BenchInvariant, PTL

\* A bundle left unfinished means that the removal itself was interrupted
\* (run.py:1183-1194).
THEOREM PartialIsRemoved == BenchSpec => []PartialBundleRemoved
<1>1. BenchInv => PartialBundleRemoved
  BY DEF BenchInv, FilesInv, PartialBundleRemoved
<1> QED BY <1>1, BenchInvariant, PTL

\* However often the ladder is struck, with a window kept the bundle and the draft are
\* written and the exit code is 3 (run.py:1141-1242).
THEOREM LadderSurvives == BenchSpec => []InterruptedLadderSurvives
<1>1. BenchInv => InterruptedLadderSurvives
  BY DEF BenchInv, SurvivorInv, LadderStruckOnly, LogProblem, InterruptedLadderSurvives
<1> QED BY <1>1, BenchInvariant, PTL

\* Exit code 0 means the whole declared search, its confirmation, a whole bundle that
\* holds nothing else, and the draft (run.py:972-1053, 1242).
THEOREM ExitZeroIsEarned == BenchSpec => []ExitZeroIsComplete
<1>1. LadderPolicyAssumption
  BY LadderPolicyAssumption
<1>2. BenchInv => ExitZeroIsComplete
  <2> SUFFICES ASSUME BenchInv, exit = 0
               PROVE  /\ SearchWindows \subseteq Labels(runs)
                      /\ runs = AllEvidence
                      /\ boundary # None <=> <<boundary, Repetitions>> \in Labels(runs)
                      /\ bundle = "whole" /\ report
    BY DEF ExitZeroIsComplete
  <2>1. ~censored /\ Searched /\ bundle = "whole" /\ report /\ stage = "exited"
    BY <1>1 DEF BenchInv, FilesInv, LadderPolicyAssumption
  <2>2. SearchWindows \subseteq Labels(runs)
    <3>1. \A k \in 0 .. Declared - 1 : Place(k) \in Labels(runs)
      BY <2>1 DEF BenchInv, LadderInv, Searched
    <3> QED BY <1>1, <3>1, PlacesAreSearchWindows
  <2>3. runs = AllEvidence
    BY <2>1 DEF BenchInv, LadderInv
  <2>4. <<None, Repetitions>> \notin Labels(runs)
    <3>1. None \notin Levels
      BY <1>1, BoundaryIsARung
    <3> QED BY <3>1 DEF BenchInv, LadderInv, Labels
  <2> QED BY <2>1, <2>2, <2>3, <2>4 DEF Searched
<1> QED BY <1>2, BenchInvariant, PTL
=============================================================================

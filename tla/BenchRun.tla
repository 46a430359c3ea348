------------------------------ MODULE BenchRun ------------------------------
(***************************************************************************)
(* One `ascep bench` (bench/run.py): the preflight refusals, the ladder    *)
(* window by window in one coroutine, the confirmation of the boundary,    *)
(* the bundle, the draft report and the exit code, under everything that   *)
(* may cut it short: an interrupt (Ctrl-C, or SIGTERM raised as one), a    *)
(* window that raises, a disk that fails, another run that takes the same  *)
(* bundle directory, an engine log that outgrows its cap.                  *)
(*                                                                         *)
(* A window is one step here; ClosedLoopWindow is its inside.  Ctrl-C only *)
(* cancels the coroutine at its next await, so it is the Interrupt of the  *)
(* next window or of the closing; SIGTERM interrupts between any two       *)
(* statements.  --dry-run, which returns before any of this, is left out.  *)
(***************************************************************************)
EXTENDS DraftReport

CONSTANTS WindowResults,   \* what one window may measure
          Raised,          \* the exit of a process that an exception ends
          MaxStruck        \* bound: interrupts, disk failures and aborts together

\* load_config insists on three rungs; no caller of _keep records an outcome.
ASSUME BenchAssumption ==
    /\ Cardinality(Levels) >= 3
    /\ WindowResults \subseteq [offered : BOOLEAN, completed : BOOLEAN,
                                slo_pass : BOOLEAN \cup {None}, tok_s : Nat \cup {None},
                                ttft : Nat \cup {None}, context : Nat \cup {None}]
    /\ Raised \notin 0 .. 3 /\ Raised # None
    /\ MaxStruck \in Nat

VARIABLES stage,        \* where _bench stands
          driven,       \* windows the search has kept
          pending,      \* the window _keep is filing; None outside _keep
          runs,         \* state["runs"], what the bundle will hold
          censored,     \* whether state["censor"] says anything
          boundary,     \* the provisional boundary _confirm_boundary re-runs
          adapter,      \* the endpoint adapter's client
          bundle,       \* what stands at output.bundle_dir
          report,       \* whether the draft report is on disk
          exit,         \* the exit code; Raised when an exception escapes
          log_outside,  \* the engine log lies outside the report directory
          log_big,      \* the engine log is above the snapshot cap
          foreign,      \* another run took the bundle directory
          struck        \* the stages something struck, and what

benchVars == <<evidence, stage, driven, pending, runs, censored, boundary, adapter,
               bundle, report, exit, log_outside, log_big, foreign, struck>>

outcomeVars == <<bundle, report, exit>>
worldVars == <<log_outside, log_big, foreign>>
ladderVars == <<evidence, driven, pending, runs, boundary, adapter>>

BenchInit ==
    /\ evidence = NoEvidence
    /\ stage = "checking"
    /\ driven = 0 /\ pending = None /\ runs = {}
    /\ censored = FALSE /\ boundary = None
    /\ adapter = "unbuilt" /\ report = FALSE /\ exit = None
    /\ log_outside \in BOOLEAN /\ log_big \in BOOLEAN
    /\ foreign \in BOOLEAN
    /\ bundle = IF foreign THEN "foreign" ELSE "absent"
    /\ struck = {}

Exit(code) == stage' = "exited" /\ exit' = code

-----------------------------------------------------------------------------
(* Preflight *)

LogProblem == log_outside /\ log_big

\* The config, its inputs or the endpoint may be refused too.
Preflight ==
    /\ stage = "checking"
    /\ \/ Exit(2) /\ UNCHANGED adapter
       \/ /\ bundle = "absent" /\ ~LogProblem
          /\ stage' = "searching" /\ adapter' = "open"
          /\ UNCHANGED exit
    /\ UNCHANGED <<worldVars, evidence, driven, pending, runs, boundary, censored,
                   bundle, report, struck>>

-----------------------------------------------------------------------------
(* The ladder *)

\* lad["concurrency"] is strictly increasing: the k-th rung has k rungs below.
RungAt(k) == CHOOSE l \in Levels : Cardinality({m \in Levels : m < l}) = k
Declared == Cardinality(Levels) * Repetitions

AsRepetition(level, number, result, post) ==
    [concurrency |-> level, repetition |-> number,
     offered |-> result.offered, completed |-> result.completed,
     slo_pass |-> result.slo_pass, tok_s |-> result.tok_s,
     ttft |-> result.ttft, context |-> result.context,
     outcome |-> None, post_search |-> post]

\* _one_window returned its run and its summary.
SearchWindow(result) ==
    /\ stage = "searching" /\ driven < Declared
    /\ pending' = AsRepetition(RungAt(driven \div Repetitions), driven % Repetitions,
                            result, FALSE)
    /\ stage' = "keeping"
    /\ UNCHANGED <<outcomeVars, worldVars, evidence, driven, runs, boundary, adapter,
                   censored, struck>>

ConfirmWindow(result) ==
    /\ stage = "confirming"
    /\ pending' = AsRepetition(boundary, Repetitions, result, TRUE)
    /\ stage' = "keeping"
    /\ UNCHANGED <<outcomeVars, worldVars, evidence, driven, runs, boundary, adapter,
                   censored, struck>>

\* The first statement of _keep files the run.
KeepRun ==
    /\ stage = "keeping" /\ pending \notin runs
    /\ runs' = runs \cup {pending}
    /\ UNCHANGED <<outcomeVars, worldVars, evidence, stage, driven, pending, boundary,
                   adapter, censored, struck>>

\* Mutated: the repetition filed whether or not its run is.
RunFiledOrNot == TRUE
RunFiled == pending \in runs

\* Mutated: the confirmation repeated until it passes.
AfterConfirmationRetry ==
    IF RepetitionFailure(pending) THEN "confirming" ELSE "closing"
AfterConfirmation == "closing"

Advanced == IF pending.post_search THEN driven ELSE driven + 1

\* The second files the repetition; then back to the loop, or out of it.
KeepRepetition ==
    /\ stage = "keeping" /\ RunFiled
    /\ File(pending.concurrency, pending)
    /\ pending' = None
    /\ driven' = Advanced
    /\ stage' = IF pending.post_search THEN AfterConfirmation ELSE "searching"
    /\ UNCHANGED <<outcomeVars, worldVars, runs, boundary, adapter, censored, struck>>

\* The search is over: its provisional grade names the rung to confirm, if any.
ChooseBoundary ==
    /\ stage = "searching" /\ driven = Declared
    /\ boundary' = MaxSustainable
    /\ stage' = IF MaxSustainable = None THEN "closing" ELSE "confirming"
    /\ UNCHANGED <<outcomeVars, worldVars, evidence, driven, pending, runs, adapter,
                   censored, struck>>

\* The finally of _run_ladder.
CloseAdapter ==
    /\ stage = "closing"
    /\ adapter' = "closed"
    /\ stage' = "grading"
    /\ UNCHANGED <<outcomeVars, worldVars, evidence, driven, pending, runs, boundary,
                   censored, struck>>

-----------------------------------------------------------------------------
(* The bundle and the report *)

GradeLadder ==
    /\ stage = "grading"
    /\ \/ runs = {} /\ Exit(1)
       \/ runs # {} /\ stage' = "capturing" /\ UNCHANGED exit
    /\ UNCHANGED <<ladderVars, worldVars, censored, bundle, report, struck>>

\* capture_environment is over; write_bundle refuses a directory that exists.
CreateBundle ==
    /\ stage = "capturing"
    /\ \/ bundle # "absent" /\ Exit(2) /\ UNCHANGED bundle
       \/ bundle = "absent" /\ bundle' = "partial" /\ stage' = "writing" /\ UNCHANGED exit
    /\ UNCHANGED <<ladderVars, worldVars, censored, report, struck>>

\* The manifest is the last file written; only then is the log's path rendered,
\* and one that no relative path names raises ValueError.
FinishBundle ==
    /\ stage = "writing"
    /\ bundle' = "whole"
    /\ \/ LogProblem /\ Exit(Raised)
       \/ ~LogProblem /\ stage' = "reporting" /\ UNCHANGED exit
    /\ UNCHANGED <<ladderVars, worldVars, censored, report, struck>>

\* shutil.rmtree, on whatever stands at bundle_dir.
RemoveBundle ==
    /\ stage = "removing"
    /\ bundle' = "absent"
    /\ Exit(1)
    /\ UNCHANGED <<ladderVars, worldVars, censored, report, struck>>

\* Mutated: a censored ladder exits as a complete one.
ExitIgnoringCensor(problems) == IF problems THEN 3 ELSE 0
ExitCode(problems) == IF problems \/ censored THEN 3 ELSE 0

\* build_report, the write, and the draft against its own schema.
WriteReport ==
    /\ stage = "reporting"
    /\ report' = TRUE
    /\ Exit(ExitCode(DraftProblems))
    /\ UNCHANGED <<ladderVars, worldVars, censored, bundle, struck>>

-----------------------------------------------------------------------------
(* What may strike it *)

Strikes(kind) ==
    /\ Cardinality(struck) < MaxStruck
    /\ <<stage, kind>> \notin struck
    /\ struck' = struck \cup {<<stage, kind>>}

InLadder == stage \in {"searching", "keeping", "confirming", "closing"}

\* Mutated: the run goes on without a bundle.
AfterInterruptNoBundle == "reporting"
AfterInterrupt == IF stage = "closing" THEN "grading" ELSE "closing"

\* In a window, in _keep or in aclose(): the ladder is censored, the window that
\* was driven or filed is dropped, and _bench goes on with what it has.
InterruptLadder ==
    /\ InLadder /\ Strikes("interrupt")
    /\ censored' = TRUE
    /\ pending' = None
    /\ stage' = AfterInterrupt
    /\ UNCHANGED <<outcomeVars, worldVars, evidence, driven, runs, boundary, adapter>>

\* A window or aclose() raises: bundle what completed, with the cause.
AbortLadder ==
    /\ stage \in {"searching", "confirming", "closing"} /\ Strikes("abort")
    /\ censored' = TRUE
    /\ stage' = IF stage = "closing" THEN "grading" ELSE "closing"
    /\ UNCHANGED <<outcomeVars, worldVars, ladderVars>>

\* Mutated: only an OSError cleans up.
CleansUpDiskOnly(kind) == kind = "disk"
CleansUp(kind) == kind \in {"disk", "interrupt"}

\* Inside the try around write_bundle, its arguments included.
StrikeWriting(kind) ==
    /\ \/ kind = "interrupt" /\ stage \in {"capturing", "writing"}
       \/ kind = "disk" /\ stage = "writing"
    /\ Strikes(kind)
    /\ \/ CleansUp(kind) /\ stage' = "removing" /\ UNCHANGED exit
       \/ ~CleansUp(kind) /\ Exit(Raised)
    /\ UNCHANGED <<ladderVars, worldVars, censored, bundle, report>>

\* Outside any try nothing catches an interrupt; nor the OSError of the mkdir of
\* bundle_dir.parent.
StrikeUnguarded(kind) ==
    /\ \/ kind = "interrupt" /\ stage \in {"checking", "grading", "removing", "reporting"}
       \/ kind = "disk" /\ stage = "grading"
    /\ Strikes(kind)
    /\ Exit(Raised)
    /\ UNCHANGED <<ladderVars, worldVars, censored, bundle, report>>

\* The report is recoverable from the bundle: nothing is deleted.
ReportFails ==
    /\ stage = "reporting" /\ Strikes("disk")
    /\ Exit(3)
    /\ UNCHANGED <<ladderVars, worldVars, censored, bundle, report>>

\* Another run creates the directory this one found free.  Nothing looks at it
\* between the preflight and the write, so it may as well come last.
ForeignBundle ==
    /\ stage \in {"grading", "capturing"} /\ bundle = "absent"
    /\ bundle' = "foreign" /\ foreign' = TRUE
    /\ UNCHANGED <<ladderVars, log_outside, log_big, stage, censored, report, exit, struck>>

\* The server keeps logging; only the write looks at the size again.
LogGrows ==
    /\ stage = "writing" /\ ~log_big
    /\ log_big' = TRUE
    /\ UNCHANGED <<ladderVars, outcomeVars, log_outside, foreign, stage, censored, struck>>

-----------------------------------------------------------------------------
Progress ==
    \/ Preflight \/ KeepRun \/ KeepRepetition \/ ChooseBoundary \/ CloseAdapter
    \/ \E result \in WindowResults : SearchWindow(result) \/ ConfirmWindow(result)
    \/ GradeLadder \/ CreateBundle \/ FinishBundle \/ RemoveBundle \/ WriteReport

Strike ==
    \/ InterruptLadder \/ AbortLadder \/ ReportFails
    \/ \E kind \in {"interrupt", "disk"} : StrikeWriting(kind) \/ StrikeUnguarded(kind)

BenchNext == Progress \/ Strike \/ ForeignBundle \/ LogGrows

\* One process that nothing else blocks: every window ends (ClosedLoopWindow) and
\* every file operation returns.
BenchSpec == BenchInit /\ [][BenchNext]_benchVars
BenchFairSpec == BenchSpec /\ WF_benchVars(Progress)

-----------------------------------------------------------------------------
(* Properties *)

SearchWindows == {<<l, n>> : l \in Levels, n \in 0 .. Repetitions - 1}
Labels(S) == {<<rep.concurrency, rep.repetition>> : rep \in S}
AllEvidence == UNION {evidence[l] : l \in Levels}

\* Exit code 0 is earned: every declared window was kept, the boundary the search
\* found was re-run, all of it is in a whole bundle, and the draft is on disk.
ExitZeroIsComplete ==
    exit = 0 =>
        /\ SearchWindows \subseteq Labels(runs)
        /\ runs = AllEvidence
        /\ boundary # None <=> <<boundary, Repetitions>> \in Labels(runs)
        /\ bundle = "whole" /\ report

\* What is graded is in the bundle, so a reader of the bundle can grade it again.
\* The bundle holds at most one window more, and only when the ladder was cut
\* short inside _keep.
GradedWindowsAreBundled ==
    /\ AllEvidence \subseteq runs
    /\ Cardinality(runs \ AllEvidence) <= 1
    /\ runs # AllEvidence => pending \in runs \/ censored

\* One interrupt of the ladder, with a window kept, costs no measurement: the
\* bundle and the draft are written and the exit code says the run is truncated.
InterruptedLadderSurvives ==
    (/\ stage = "exited" /\ runs # {}
     /\ ~foreign /\ ~(log_outside /\ log_big)
     /\ struck # {}
     /\ struck \subseteq ({"searching", "keeping", "confirming", "closing"}
                            \X {"interrupt", "abort"}))
        => bundle = "whole" /\ report /\ exit = 3

\* A bundle that was not finished does not stay to block the retry, unless a
\* second interrupt hit the removal itself.
PartialBundleRemoved ==
    (stage = "exited" /\ bundle = "partial") => <<"removing", "interrupt">> \in struck

\* However it is struck, a bench ends.
BenchEnds == <>(stage = "exited")

=============================================================================

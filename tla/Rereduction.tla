---------------------------- MODULE Rereduction ----------------------------
(***************************************************************************)
(* bench/rereduce.py behind `ascep reduce`: a published report and the     *)
(* bundle it cites, and what re-deriving one from the other writes,        *)
(* refuses or certifies, while the reduction's code is corrected, fields   *)
(* of the records are elided, the report is graded or its figures edited.  *)
(*                                                                         *)
(* evidence is what the live run graded; the bundle holds the windows      *)
(* under their (concurrency, repetition) labels, without the post_search   *)
(* mark.  Both derivations are the same build_report, DraftReport, over    *)
(* two readings of the windows.  Reading has no effect, so a check is an   *)
(* operator.                                                               *)
(***************************************************************************)
EXTENDS DraftReport

CONSTANTS Patterns,     \* what the repetitions of one rung may have measured
          TtftGate      \* a tail above it fails the ttft gate

\* A pattern gives each repetition its result; a verdict is that of the gates, and
\* a tail above its gate fails them whatever the ITL gate says.
ASSUME PatternsAssumption ==
    /\ TtftGate \in Nat
    /\ \A pattern \in Patterns :
          /\ DOMAIN pattern = 0 .. Repetitions - 1
          /\ \A n \in DOMAIN pattern :
                /\ pattern[n] \in [completed : BOOLEAN, slo_pass : BOOLEAN \cup {None},
                                   tok_s : Nat \cup {None}, ttft : Nat \cup {None},
                                   context : Nat \cup {None}]
                /\ pattern[n].ttft # None /\ pattern[n].ttft > TtftGate
                       => pattern[n].slo_pass = FALSE

Fields == {"token_ts", "output_tokens"}   \* what may be elided: in the map, and not in it

VARIABLES windows,    \* the windows of the bundle
          censored,   \* the ladder was cut short
          matched,    \* the report cites this bundle, and every window of it carries
                      \* its session counters, which older bundles do not
          published,  \* the report; None before the run ends
          opening,    \* the first paragraph of its note: draft or graded
          elided,     \* manifest["elisions"] of records.jsonl
          corrected,  \* a fix of the reduction has been released
          basis       \* what the report's figures rest on

reduceVars == <<evidence, windows, censored, matched, published, opening, elided,
                corrected, basis>>
runVars == <<evidence, windows, censored, matched>>

Labelled(level, n, result, post) ==
    [concurrency |-> level, repetition |-> n, offered |-> TRUE, completed |-> result.completed,
     slo_pass |-> result.slo_pass, tok_s |-> result.tok_s, ttft |-> result.ttft,
     context |-> result.context, outcome |-> None, post_search |-> post]

\* A search that ran all its rungs, or was cut after a rung or in one; an interrupt
\* of the confirmation censors a whole search.
ReduceInit ==
    /\ \E pattern \in [Levels -> Patterns], last \in Levels, kept \in {1, Repetitions} :
          /\ evidence = [level \in Levels |->
                {Labelled(level, n, pattern[level][n], FALSE) :
                    n \in 0 .. (IF level < last THEN Repetitions ELSE IF level = last
                                THEN kept ELSE 0) - 1}]
          /\ censored \in BOOLEAN
          /\ kept < Repetitions \/ (\E level \in Levels : level > last) => censored
    /\ windows = {} /\ published = None /\ opening = "draft"
    /\ matched \in BOOLEAN
    /\ elided = {} /\ corrected = FALSE /\ basis = "released"

Bundled == UNION {evidence[level] : level \in Levels}

\* The confirmation, if the search found a boundary; then the bundle and the draft.
ConfirmRun ==
    /\ published = None /\ ~censored
    /\ MaxSustainable # None /\ \A rep \in Bundled : ~rep.post_search
    /\ \E pattern \in Patterns :
          File(MaxSustainable, Labelled(MaxSustainable, Repetitions, pattern[0], TRUE))
    /\ UNCHANGED <<windows, censored, matched, published, opening, elided, corrected, basis>>

PublishRun ==
    /\ published = None
    /\ censored \/ MaxSustainable = None \/ \E rep \in Bundled : rep.post_search
    /\ windows' = {[rep EXCEPT !.post_search = FALSE] : rep \in Bundled}
    /\ published' = Draft(censored) /\ basis' = "released"
    /\ UNCHANGED <<evidence, censored, matched, opening, elided, corrected>>

-----------------------------------------------------------------------------
(* reduce_window over the records the bundle still holds *)

\* Without its stamps the ITL gate reads the per-request means, which hide a stall:
\* only a tail above its own gate still fails the window.
Substituted(rep) ==
    IF rep.slo_pass = FALSE /\ rep.completed /\ ~(rep.ttft # None /\ rep.ttft > TtftGate)
    THEN [rep EXCEPT !.slo_pass = TRUE] ELSE rep

\* The correction moves the tail estimator.
Reduce1(rep, removed) ==
    LET gated == IF "token_ts" \in removed THEN Substituted(rep) ELSE rep
        counted == IF "output_tokens" \in removed THEN [gated EXCEPT !.tok_s = None] ELSE gated
    IN  IF corrected /\ counted.ttft # None THEN [counted EXCEPT !.ttft = @ + 1] ELSE counted

\* _derive_report: post_search = window_run.policy.repetition >= policy.repetitions.
\* Mutated: an off-by-one.
IsPostSearchLater(rep) == rep.repetition > Repetitions
IsPostSearch(rep) == rep.repetition >= Repetitions

Reread(removed) ==
    [level \in Levels |->
        {[Reduce1(rep, removed) EXCEPT !.post_search = IsPostSearch(rep)] :
            rep \in {w \in windows : w.concurrency = level}}]

\* The draft of a reading of the windows: what the bundle backs, without the fields
\* removed, and what the whole records would.  The reading is bound, not defined, so
\* that TLC computes it once.
From(reading) == INSTANCE DraftReport WITH evidence <- reading
DraftWithout(removed) ==
    CHOOSE draft \in {From(reading)!Draft(FALSE) : reading \in {Reread(removed)}} : TRUE
Rebuilt == DraftWithout(elided)
Unelided == DraftWithout({})

-----------------------------------------------------------------------------
(* Refusals *)

\* _derive_report's and load_window_runs's: the note says the ladder was censored,
\* the report cites another bundle, the session counters would have to be guessed.
\* Mutated: the phrase is looked for in an ungraded note only.
SaysCensoredUngraded == opening = "draft" /\ "censored" \in published.caveats
SaysCensored == "censored" \in published.caveats

DeriveRefuses == SaysCensored \/ ~matched

\* Mutated: only a field the map does not know is held against a rebuild.
GradingElisionsUnmapped == elided \ {"token_ts"}
GradingElisions == elided
RebuildRefuses == GradingElisions # {} \/ DeriveRefuses

\* _unmapped_elisions.
Unmapped == elided \ {"token_ts"}
CheckRefuses == Unmapped # {} \/ DeriveRefuses

-----------------------------------------------------------------------------
(* check_report *)

\* _ELIDED_FIELD_IMPACT and the sections: the verdicts and the tiers.
\* Mutated: the whole row is skipped, not the figures the field backs.
RowWithoutTaintedEmpty(row) == [concurrency |-> row.concurrency]
RowWithoutTainted(row) ==
    [concurrency |-> row.concurrency, tok_s |-> row.tok_s, ttft |-> row.ttft,
     context |-> row.context, dispersion |-> row.dispersion]

WithoutTainted(report) ==
    IF elided = {} THEN report
    ELSE [rows |-> [level \in DOMAIN report.rows |-> RowWithoutTainted(report.rows[level])],
          monotone |-> report.monotone, caveats |-> report.caveats]

\* _top_level_diffs: the draft's paragraph and a graded one fold into each other.
Matches(report) == WithoutTainted(published) = WithoutTainted(report)

CheckExit ==
    IF CheckRefuses THEN 2 ELSE IF Matches(Rebuilt) THEN 0 ELSE 1

-----------------------------------------------------------------------------
(* What happens to a published report *)

\* `ascep reduce`: written only if it is accepted whole; the grade goes.
Reduce ==
    /\ published # None /\ ~RebuildRefuses
    /\ \E rebuilt \in {Rebuilt} :
          Cardinality(DOMAIN rebuilt.rows) >= MinRows /\ published' = rebuilt
    /\ opening' = "draft"
    /\ basis' = IF corrected THEN "corrected" ELSE "released"
    /\ UNCHANGED <<runVars, elided, corrected>>

\* `ascep conformance --raise`.
Grade ==
    /\ published # None /\ opening = "draft"
    /\ opening' = "graded"
    /\ UNCHANGED <<runVars, published, elided, corrected, basis>>

\* The publisher empties a field of the records and declares it in the manifest.
Elide(field) ==
    /\ published # None /\ field \notin elided
    /\ elided' = elided \cup {field}
    /\ UNCHANGED <<runVars, published, opening, corrected, basis>>

CorrectReduction ==
    /\ published # None /\ ~corrected
    /\ corrected' = TRUE
    /\ UNCHANGED <<runVars, published, opening, elided, basis>>

\* A figure of the report is edited by hand.
EditFigure ==
    /\ published # None /\ basis # "edited"
    /\ \E level \in DOMAIN published.rows :
          published' = [published EXCEPT !.rows[level].tok_s = IF @ = None THEN 1 ELSE @ + 1]
    /\ basis' = "edited"
    /\ UNCHANGED <<runVars, opening, elided, corrected>>

ReduceNext ==
    \/ ConfirmRun \/ PublishRun \/ Reduce \/ Grade \/ CorrectReduction \/ EditFigure
    \/ \E field \in Fields : Elide(field)

ReduceSpec == ReduceInit /\ [][ReduceNext]_reduceVars

-----------------------------------------------------------------------------
(* Properties *)

Current == basis = IF corrected THEN "corrected" ELSE "released"

\* A bundle is sufficient to regenerate the report it backs: while the code is the
\* one its figures rest on, a check matches in full, graded or not, and once the code
\* was corrected a rebuild restores that.
BundleRegeneratesReport ==
    (published # None /\ Current /\ elided = {} /\ ~DeriveRefuses) => CheckExit = 0

\* What a check certifies holds: with exit 0 the rungs, and in each of them every
\* figure the message does not list as skipped, are what the whole records give under
\* the current rules.
CheckCertifiesOnlyEvidence ==
    (published # None /\ CheckExit = 0) =>
        \A rows \in {Unelided.rows} :
            /\ DOMAIN published.rows = DOMAIN rows
            /\ \A level \in DOMAIN rows :
                  /\ published.rows[level].tok_s = rows[level].tok_s
                  /\ published.rows[level].ttft = rows[level].ttft
                  /\ elided = {} => published.rows[level] = rows[level]

\* A truncated ladder is marked as one for good: no grading and no rebuild publishes
\* its lower bounds without the sentence that says so.
CensoredStaysMarked ==
    (published # None /\ censored) => "censored" \in published.caveats

\* No sequence of elisions, corrections and rebuilds publishes more than the whole
\* records back.
NothingPromoted ==
    published # None =>
        LET users == published.tiers[2].users
        IN  users # None => Unelided.tiers[2].users = users

\* check_report: every field the elision backs is removed from both sides before
\* anything is compared, and no elision can mint or erase a concurrency.
ElisionAloneChecks ==
    (published # None /\ Current /\ elided = {"token_ts"} /\ ~DeriveRefuses) => CheckExit = 0
=============================================================================

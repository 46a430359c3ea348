----------------------------- MODULE BenchDraft -----------------------------
(***************************************************************************)
(* The draft a bench leaves, graded: build_report's figures (DraftReport)  *)
(* laid into the leaves of a report and put to the rules of Conformance,   *)
(* over every evidence a run of BenchRun can end with.                     *)
(***************************************************************************)
EXTENDS BenchRun, ReportSchema

CONSTANTS Absent, Todo, NaN,   \* as in Conformance; its Null is None here
          Deployments              \* their declarations, the four layers leaf by leaf

Layers == {"model", "hardware", "serving", "workload"}

\* What a declaration leaves open draws its own errors; the operator's declarations
\* of the runs leave nothing open.
ASSUME DeclarationsAssumption ==
    \A declarations \in Deployments :
        DOMAIN declarations = {leaf \in Leaves : leaf[1] \in Layers}

-----------------------------------------------------------------------------
\* The rows in ladder order; None where run.results is shorter.
DraftRows ==
    LET levels == RowLevels
        below(row) == CASE row = "row1" -> 0 [] row = "row2" -> 1 [] OTHER -> 2
        at(k) == CHOOSE l \in levels : Cardinality({m \in levels : m < l}) = k
    IN  [row \in Rows |->
            IF below(row) < Cardinality(levels) THEN Row(at(below(row))) ELSE None]

DraftTiers ==
    [tier \in Tiers |-> CASE tier = "measured" -> MeasuredTier
                          [] tier = "sustainable" -> SustainableTier [] OTHER -> Unfilled]

\* What bench does not measure is an explicit null with its reason.
RowField(row, name) ==
    CASE name = "outcome" -> row.outcome [] name = "slo_pass" -> row.slo_pass
      [] name \in {"context_tokens", "input_tokens"} -> row.context
      [] name = "output_tok_s" -> row.tok_s
      [] name = "dispersion" -> IF row.dispersion = None THEN None ELSE 1
      [] name \in {"prefill_tok_s", "mix"} -> None

TierField(declarations, tier, name) ==
    CASE name = "max_concurrent_users" -> tier.users
      [] name = "binding_constraint" -> tier.constraint
      [] name = "provenance" -> tier.provenance
      [] name = "n_gpus" -> declarations["serving", "gpu_count"]
      [] name = "context_tokens" -> Absent

\* build_report.
DraftOf(declarations, rows, tiers) ==
    [leaf \in Leaves |->
        LET section == leaf[1]
            name == leaf[2]
        IN  CASE section \in Layers -> declarations[leaf]
              [] section \in Rows ->
                    (CASE name = "published" -> rows[section] # None
                       [] rows[section] = None -> Absent
                       [] OTHER -> RowField(rows[section], name))
              [] section \in Tiers -> TierField(declarations, tiers[section], name)
              [] section = "scaling" -> IF name = "published" THEN FALSE ELSE Absent
              [] leaf = <<"run", "truncation_rate">> -> Absent
              [] leaf = <<"run", "gate">> -> 2
              [] leaf = <<"run", "declared_before_run">> -> TRUE
              [] leaf = <<"run", "repeats">> -> Repetitions
              [] leaf = <<"reproduction", "raw_records_path">> -> "path"
              [] OTHER -> None]

ReasonsOf(draft) ==
    [leaf \in Leaves |->
        IF leaf \in Companions /\ leaf[1] \notin Layers /\ draft[leaf] = None
        THEN "stated" ELSE "none"]

Grader(draft, companions) ==
    INSTANCE Conformance
        WITH Null <- None, value <- draft, reason <- companions, assumed <- {}

-----------------------------------------------------------------------------
(* Properties.  The draft is bound, not defined, so that TLC computes it once. *)

\* Four gaps of a draft are errors to check(), whatever was deployed and however the
\* ladder went.  Two are what the run could not know: the context on a server that
\* counted no tokens, and the floor of a tier no rung failed at or above.  Two are the
\* harness's own: a draft of fewer rows than its schema asks for, and the truncation
\* rate of a deployment that thinks, which build_report never fills although every
\* record keeps its finish_reason (records.py:117, conformance.py:865).
Gaps(declarations, rows, tiers) ==
    (IF DraftProblems THEN {<<"C1", "run", "results">>} ELSE {})
    \cup {<<"C4", row, "context_tokens">> :
             row \in {r \in Rows : rows[r] # None /\ rows[r].context = None}}
    \cup {<<"C5", tier, "binding_constraint">> :
             tier \in {t \in {"measured", "sustainable"} :
                 /\ tiers[t].users # None
                 /\ \A level \in FailedRungs : level < tiers[t].users}}
    \cup (IF declarations["workload", "reasoning_mode"] \in {"thinking", "mixed"}
          THEN {<<"C4", "run", "truncation_rate">>} ELSE {})

\* check() holds exactly these against a draft: it overlooks none, and no other rule
\* refuses what build_report writes.
DraftErrorsAreItsGaps ==
    report =>
        \A rows \in {DraftRows}, tiers \in {DraftTiers}, declarations \in Deployments :
            \A draft \in {DraftOf(declarations, rows, tiers)} :
                {<<x.rule, x.path[1], x.path[2]>> : x \in Grader(draft, ReasonsOf(draft))!Errors}
                    = Gaps(declarations, rows, tiers)

\* load_config's comment on three rungs: a ladder that declares them cannot produce a
\* report that fails its schema.
CompleteLadderValidates == report /\ ~censored => ~DraftProblems
=============================================================================

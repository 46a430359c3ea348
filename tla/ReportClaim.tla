---------------------------- MODULE ReportClaim ----------------------------
(***************************************************************************)
(* What a report claims of itself, and the three parties that move it      *)
(* between two gradings: the author who acts on the findings of check(),   *)
(* `ascep conformance --raise` and `ascep reduce`, with what raise_claim() *)
(* writes.                                                                 *)
(***************************************************************************)
EXTENDS Conformance

CONSTANTS Truths,          \* what may be true of the deployment, per leaf
          Spoiled(_, _),   \* what a careless draft may hold at a leaf
          Pairs            \* bound: leaves a draft gets wrong together

\* run.schema.json, capacity-report.schema.json: a context is a number or none.
Contextual(v) == v \in Int \cup {Null, Absent, Todo, NaN}
ASSUME ContextAssumption ==
    \A leaf \in Leaves : leaf[2] = "context_tokens" =>
        \A facts \in Truths :
            Contextual(facts[leaf]) /\ \A v \in Spoiled(leaf, facts[leaf]) : Contextual(v)

VARIABLES truth,     \* what the author knows, a member of Truths
          claim,     \* report["conformance"]
          note       \* report["conformance_note"]: opening and caveats

vars == <<truth, value, reason, assumed, claim, note>>

ClaimLevels == {"non-conforming", "partial", "conforming"}
\* _LEVEL_STRENGTH
Strength(level) == CASE level = "conforming" -> 2 [] level = "partial" -> 1 [] OTHER -> 0

-----------------------------------------------------------------------------
(* The author, who knows the truth and acts on what a finding blames *)

\* The companion of a true leaf: a stated reason beside a null, if the schema has
\* a key for it, an unmeasured_assumptions entry if not.
TrueReason(leaf) ==
    IF truth[leaf] = Null /\ leaf \in Companions THEN "stated" ELSE "none"
ByAssumption(leaf) == truth[leaf] = Null /\ leaf \notin Companions \cup Exempt

Wrong(leaf) ==
    \/ value[leaf] # truth[leaf] \/ reason[leaf] # TrueReason(leaf)
    \/ ByAssumption(leaf) /\ leaf \notin assumed

Correct(leaf) ==
    /\ Wrong(leaf)
    /\ \E x \in Errors : leaf \in x.blames
    /\ value' = [value EXCEPT ![leaf] = truth[leaf]]
    /\ reason' = [reason EXCEPT ![leaf] = TrueReason(leaf)]
    /\ assumed' = IF ByAssumption(leaf) THEN assumed \cup {leaf} ELSE assumed
    /\ UNCHANGED <<truth, claim, note>>

\* _cmd_conformance --raise: an overstated claim is left for its author; the draft
\* paragraph is swapped for the graded one and what follows it rides along.
\* Mutated: the note is written anew.
RaiseNewNote ==
    /\ Strength(claim) <= Strength(Level)
    /\ claim' = Level
    /\ note' = IF note.opening = "draft"
               THEN [opening |-> "graded", caveats |-> {}] ELSE note
    /\ UNCHANGED <<truth, value, reason, assumed>>
Raise ==
    LET level == Level IN
    /\ Strength(claim) <= Strength(level)
    /\ claim' = level
    /\ note' = IF note.opening = "draft" THEN [note EXCEPT !.opening = "graded"] ELSE note
    /\ UNCHANGED <<truth, value, reason, assumed>>

\* The caveats build_report appends, from the ladder the report was built of.
Caveats == {c \in {"lower_bound", "cache"} : truth["ladder", c] = TRUE}

\* _cmd_reduce: an ungraded draft by construction.
Reduce ==
    /\ claim' = "non-conforming"
    /\ note' = [opening |-> "draft", caveats |-> Caveats]
    /\ UNCHANGED <<truth, value, reason, assumed>>

-----------------------------------------------------------------------------
(* A draft gets at most two leaves wrong, and related ones together *)

Spoils(leaf) ==
    {<<v, "none">> : v \in Spoiled(leaf, truth[leaf]) \cup {Null, Absent, Todo}}
    \cup (IF leaf \in Companions
          THEN {<<Null, "weak">>, <<Null, "todo">>, <<Null, "stated">>, <<truth[leaf], "stated">>}
          ELSE {})

Init ==
    /\ truth \in Truths
    /\ \E pair \in Pairs : \E one \in Spoils(pair[1]), two \in Spoils(pair[2]) :
            /\ pair[1] = pair[2] => one = two
            /\ value = [leaf \in Leaves |-> CASE leaf = pair[1] -> one[1]
                                             [] leaf = pair[2] -> two[1]
                                             [] OTHER -> truth[leaf]]
            /\ reason = [leaf \in Leaves |-> CASE leaf = pair[1] -> one[2]
                                              [] leaf = pair[2] -> two[2]
                                              [] OTHER -> TrueReason(leaf)]
            /\ assumed = {leaf \in Leaves \ {pair[1], pair[2]} : ByAssumption(leaf)}
    /\ \/ claim = "conforming" /\ note = [opening |-> "own", caveats |-> {}]
       \/ claim = "non-conforming" /\ note = [opening |-> "draft", caveats |-> Caveats]

Next == (\E leaf \in Leaves : Correct(leaf)) \/ Raise \/ Reduce

\* The author keeps acting while a finding blames a leaf that is wrong.
Spec == Init /\ [][Next]_vars /\ WF_vars(\E leaf \in Leaves : Correct(leaf))

-----------------------------------------------------------------------------
(* Properties *)

\* What check() holds against the truth itself, which no honest entry answers: fewer rows
\* than the schema asks for, a context no server counted, a number no floor was found
\* above (a lower bound, conformance.py:913), and a truncation rate nobody published
\* (conformance.py:865).  The remedy of each is another measurement, not another entry.
OwedByTruth(x) ==
    LET published == {r \in Rows : truth[r, "published"] = TRUE}
        uncounted(r) == IsNone(truth[r, "context_tokens"]) /\ IsNone(truth[r, "input_tokens"])
        bare(t) == /\ ~IsNone(truth[t, "max_concurrent_users"])
                   /\ IsNone(truth[t, "binding_constraint"])
    IN  \/ /\ x.rule = "C1" /\ x.path = <<"run", "results">>
           /\ Cardinality(published) < MinRows
        \/ /\ x.rule = "C4"
           /\ \E r \in published : x.path = <<r, "context_tokens">> /\ uncounted(r)
        \/ /\ x.rule = "C5"
           /\ \E t \in Tiers : x.path = <<t, "binding_constraint">> /\ bare(t)
        \/ /\ x.rule = "C4" /\ x.path = <<"run", "truncation_rate">>
           /\ truth["workload", "reasoning_mode"] \in {"thinking", "mixed"}
           /\ IsNone(truth["run", "truncation_rate"])

\* An author who only ever touches what an error names, and puts there what is true (an
\* honest unknown included), gets rid of every error but those the truth itself owes: no
\* remedy asks for what another rule or the schema forbids.
RemediesConverge == <>[](\A x \in Errors : OwedByTruth(x))

\* Whatever the findings of the other rules, a report better than non-conforming
\* holds no scaffolding, no non-finite number and no null without its story.
NothingHidden ==
    (\E leaf \in Held :
        \/ value[leaf] \in {Todo, NaN}
        \/ /\ value[leaf] = Null /\ leaf \notin Exempt
           /\ reason[leaf] # "stated" /\ leaf \notin assumed)
    => Level = "non-conforming"

\* The caveats of the ladder a report was built of outlive every later grading, and
\* the paragraph that calls it an ungraded draft never stands beside a claim.
CaveatsRideAlong ==
    /\ note.opening # "own" => note.caveats = Caveats
    /\ note.opening = "draft" => claim = "non-conforming"

\* A measured tier cannot escape the unpriced-prefill warning by quoting a context
\* no rung ran: with every rung overstated and none priced, the warning is there.
NoTierEscapesPrefill ==
    /\ \E t \in Tiers : /\ IsNumber(Users(t)) /\ value[t, "provenance"] \in {"M", "I"}
                         /\ IsNumber(value[t, "context_tokens"])
    /\ \E r \in Results : IsNumber(value[r, "context_tokens"])
    /\ \A r \in Results : IsNone(value[r, "prefill_tok_s"]) /\ Overstated(r)
    => C11 # {}

=============================================================================

---------------------------- MODULE Conformance ----------------------------
(***************************************************************************)
(* ascep/conformance.py: check(), rules C1-C12 over one capacity report,   *)
(* a function from the leaves of ReportSchema to values, so                *)
(* value["model", "weight_bytes_on_disk"].  Beside each leaf is the state  *)
(* of its *_u_reason companion.                                            *)
(***************************************************************************)
EXTENDS ReportSchema, Integers

CONSTANTS Null, Absent,    \* an explicit null, a key that is not there
          Todo, NaN        \* scaffolding or "", a non-finite number

VARIABLES value,     \* the report, leaf by leaf
          reason,    \* the companions: none, weak, todo or stated
          assumed    \* leaves named by an unmeasured_assumptions entry

-----------------------------------------------------------------------------
\* The rows run.results holds, and the leaves that are anywhere in the file.
Results == {r \in Rows : value[r, "published"] = TRUE}
HasScaling == value["scaling", "published"] = TRUE
\* run.results has minItems 3.
MinRows == 3
Held == {leaf \in Leaves : leaf[1] \in Rows \cup {"scaling"} => value[leaf[1], "published"] = TRUE}

-----------------------------------------------------------------------------
(* Values and findings *)

Endless == 1000   \* the mix of a workload that generates no token

IsNone(v) == v \in {Null, Absent}
IsNumber(v) == v \notin {Null, Absent, Todo, NaN}
Positive(v) == IsNumber(v) /\ v > 0

Error(rule, path, blames) ==
    [rule |-> rule, severity |-> "error", path |-> path, blames |-> blames \cup {path}]
Warning(rule, path) ==
    [rule |-> rule, severity |-> "warning", path |-> path, blames |-> {path}]
When(condition, finding) == IF condition THEN {finding} ELSE {}

-----------------------------------------------------------------------------
(* C1 completeness *)

CarriesMedia ==
    Positive(value["workload", "images_per_request"])
    \/ Positive(value["workload", "videos_per_request"])

\* A stated sentence after the tag, or an entry of unmeasured_assumptions.
\* Mutated: the bare tag is taken for a reason.
JustifiedByTag(leaf) == reason[leaf] \in {"weak", "todo", "stated"} \/ leaf \in assumed
Justified(leaf) == reason[leaf] \in {"todo", "stated"} \/ leaf \in assumed

\* A null value_used inside unmeasured_assumptions is the honest state.
Exempt == {<<"unmeasured_assumptions", "value_used">>}

Stale(leaf) == ~IsNone(value[leaf]) /\ reason[leaf] # "none"

Placeholder(leaf) ==
    value[leaf] \in {Todo, NaN} \/ (IsNone(value[leaf]) /\ reason[leaf] = "todo")

ThinksAloud == value["workload", "reasoning_mode"] \in {"thinking", "mixed"}

\* The structural errors jsonschema reports: a missing key, a null where none is
\* allowed, a companion that does not exist, and the conditional requirements.
SchemaViolations ==
    LET w(name) == value["workload", name]
        needs(condition, name) ==
            IF condition /\ ~IsNumber(w(name)) THEN {<<"workload", name>>} ELSE {}
    IN  {leaf \in Held :
            \/ leaf \notin Optional /\ value[leaf] = Absent
            \/ leaf \in NonNull /\ value[leaf] = Null
            \/ leaf \notin Companions /\ reason[leaf] # "none"}
        \cup (IF Cardinality(Results) < MinRows THEN {<<"run", "results">>} ELSE {})
        \cup needs(ThinksAloud, "max_output_tokens")
        \cup needs(w("reasoning_mode") = "mixed", "reasoning_share")
        \cup needs(Positive(w("videos_per_request")), "video_seconds_per_request")
        \cup (IF (w("archetypes") = "code_agent") = IsNone(w("agent_loop"))
              THEN {<<"workload", "agent_loop">>} ELSE {})

\* A conditional requirement may also be met by correcting its condition.
Conditions == {"archetypes", "reasoning_mode", "videos_per_request"}

C1 ==
    {Error("C1", leaf, {}) : leaf \in
        {l \in Held \ Exempt : value[l] = Null /\ ~Justified(l)}
        \cup {l \in Held : Stale(l) \/ Placeholder(l)}}
    \cup {Error("C1", leaf, {<<"workload", f>> : f \in Conditions}) : leaf \in SchemaViolations}
    \cup When(/\ CarriesMedia
              /\ ~IsNone(value["hardware", "cpu_cores"])
              /\ IsNone(value["hardware", "cpu_cores_note"]),
              Error("C1", <<"hardware", "cpu_cores">>,
                    {<<"hardware", "cpu_cores_note">>,
                     <<"workload", "images_per_request">>, <<"workload", "videos_per_request">>}))

-----------------------------------------------------------------------------
(* C2 provenance, C3 topology, C5 constraint *)

\* The tier and scaling rows, and _TAGGED_NUMBERS: number and tag.
RowTags ==
    {<<<<"scaling", "output_tok_s">>, <<"scaling", "provenance">>>>}
    \cup {<<<<t, "max_concurrent_users">>, <<t, "provenance">>>> : t \in Tiers}
TaggedNumbers ==
    {<<<<"model", "weight_bytes_on_disk">>, <<"model", "weight_bytes_tag">>>>,
     <<<<"workload", "avg_context_tokens">>, <<"workload", "avg_context_tokens_tag">>>>}

\* Mutated: a null is asked for its provenance as well.
UntaggedNull(pair) == IsNone(value[pair[2]])
Untagged(pair) ==
    /\ IsNone(value[pair[2]])
    /\ IF pair \in RowTags THEN IsNumber(value[pair[1]]) ELSE ~IsNone(value[pair[1]])

C2 ==
    {Error("C2", pair[2], {pair[1]}) : pair \in {p \in RowTags \cup TaggedNumbers : Untagged(p)}}
    \cup {Error("C2", leaf, {}) :
             leaf \in {l \in Leaves : l[2] = "provenance"
                                      /\ value[l] \notin {Null, Absent, "M", "I", "T", "U"}}}

Topology == {<<"serving", f>> : f \in {"tensor_parallel", "pipeline_parallel", "gpu_count"}}

C3 ==
    {Error("C3", leaf, {}) :
        leaf \in {l \in Topology \cup {<<"scaling", "gpu_count">>} : l \in Held /\ IsNone(value[l])}}
    \cup When(/\ \A leaf \in Topology : IsNumber(value[leaf])
              /\ value["serving", "gpu_count"] #
                    value["serving", "tensor_parallel"] * value["serving", "pipeline_parallel"],
              Error("C3", <<"serving", "gpu_count">>, Topology))
    \cup {Error("C3", <<t, "n_gpus">>, {<<t, "max_concurrent_users">>}) :
             t \in {u \in Tiers : ~IsNone(value[u, "max_concurrent_users"])
                                  /\ IsNone(value[u, "n_gpus"])}}

C5 ==
    {Error("C5", <<t, "binding_constraint">>, {<<t, "max_concurrent_users">>}) :
        t \in {u \in Tiers : ~IsNone(value[u, "max_concurrent_users"])
                             /\ IsNone(value[u, "binding_constraint"])}}
    \cup When(~IsNone(value["sizing", "gpus_required"])
              /\ IsNone(value["sizing", "binding_constraint"]),
              Error("C5", <<"sizing", "binding_constraint">>, {<<"sizing", "gpus_required">>}))

-----------------------------------------------------------------------------
(* C4 context, media and reasoning *)

Contexts == {value[r, "context_tokens"] : r \in {q \in Results : IsNumber(value[q, "context_tokens"])}}

MediaAndReasoning ==
    LET w(name) == value["workload", name]
        missing(condition, name, why) ==
            When(condition /\ IsNone(w(name)), Error("C4", <<"workload", name>>, {why}))
        modalities == <<"model", "input_modalities">>
        mode == <<"workload", "reasoning_mode">>
    IN  missing(value[modalities] \in {"image", "video"}, "images_per_request", modalities)
        \cup missing(value[modalities] = "video", "videos_per_request", modalities)
        \cup missing(value[modalities] = "video" /\ Positive(w("videos_per_request")),
                     "video_seconds_per_request", <<"workload", "videos_per_request">>)
        \cup missing(value["model", "reasoning_modes"] = "thinking", "reasoning_mode",
                     <<"model", "reasoning_modes">>)
        \cup missing(ThinksAloud, "max_output_tokens", mode)
        \cup When(ThinksAloud /\ IsNone(value["run", "truncation_rate"]),
                  Error("C4", <<"run", "truncation_rate">>, {mode}))
        \cup missing(w("reasoning_mode") = "mixed", "reasoning_share", mode)
        \cup When(CarriesMedia /\ IsNone(value["serving", "media_preprocessing"]),
                  Warning("C4", <<"serving", "media_preprocessing">>))

C4 ==
    {Error("C4", <<r, "context_tokens">>, {<<r, "input_tokens">>}) :
        r \in {q \in Results : IsNone(value[q, "context_tokens"]) /\ IsNone(value[q, "input_tokens"])}}
    \cup When(Cardinality(Contexts) < 3, Warning("C4", <<"run", "results">>))
    \cup When(HasScaling /\ IsNone(value["scaling", "context_tokens"]),
              Warning("C4", <<"scaling", "context_tokens">>))
    \cup MediaAndReasoning

-----------------------------------------------------------------------------
(* C6 tiers, C7 gates, C8 reproduction *)

Users(t) == value[t, "max_concurrent_users"]
UsersLeaf(t) == <<t, "max_concurrent_users">>

\* Neighbours only: the order of the chapter, low to high.
TierOrder == {<<"recommended", "sustainable">>, <<"sustainable", "measured">>,
              <<"measured", "theoretical">>}

C6 ==
    {Warning("C6", UsersLeaf(t)) : t \in {u \in Tiers : IsNone(Users(u))}}
    \cup {Error("C6", UsersLeaf(p[2]), {UsersLeaf(p[1])}) :
             p \in {q \in TierOrder : IsNumber(Users(q[1])) /\ IsNumber(Users(q[2]))
                                      /\ Users(q[1]) > Users(q[2])}}
    \cup When(IsNumber(value["roofline", "efficiency_pct"])
              /\ value["roofline", "efficiency_pct"] >= 100,
              Error("C6", <<"roofline", "efficiency_pct">>, {}))

Failures == {r \in Results : value[r, "slo_pass"] = FALSE}
Envelope == value["workload", "avg_context_tokens"]

Inside(r) ==
    \/ ~IsNumber(Envelope) \/ ~IsNumber(value[r, "context_tokens"])
    \/ value[r, "context_tokens"] <= Envelope

SustainsTheCeiling ==
    /\ IsNumber(Users("measured")) /\ IsNumber(Users("sustainable"))
    /\ Users("measured") = Users("sustainable")

C7 ==
    LET failing(r) == {<<r, "slo_pass">>, <<r, "context_tokens">>}
    IN  When(value["run", "declared_before_run"] # TRUE,
             Error("C7", <<"run", "declared_before_run">>, {}))
        \cup When(IsNone(value["run", "gate"]), Warning("C7", <<"run", "gate">>))
        \cup (IF ~SustainsTheCeiling \/ Failures = {} THEN {}
              ELSE IF \E r \in Failures : Inside(r)
              THEN {Error("C7", UsersLeaf("sustainable"),
                          {UsersLeaf("measured"), <<"workload", "avg_context_tokens">>}
                          \cup UNION {failing(r) : r \in Failures})}
              ELSE {Warning("C7", UsersLeaf("sustainable"))})

\* A digest that is present must look like one.
C8 ==
    {Warning("C8", <<"reproduction", f>>) :
        f \in {g \in {"raw_records_path", "container_digest"} : IsNone(value["reproduction", g])}}
    \cup When(value["reproduction", "container_digest"] = "short",
              Warning("C8", <<"reproduction", "container_digest">>))

-----------------------------------------------------------------------------
(* C9 archetype terms, C10 agent estimators *)

Archetype == value["workload", "archetypes"]

C9 ==
    LET counts == {<<"workload", "images_per_request">>, <<"workload", "videos_per_request">>}
        terms == counts \cup {<<"workload", "media_tokens_per_request">>}
        archetypes == <<"workload", "archetypes">>
    IN  (CASE Archetype \in {Null, Absent, Todo} -> {}
           [] Archetype \in {"image_grounded", "video_grounded"} ->
                When(~CarriesMedia,
                     Error("C9", IF Archetype = "image_grounded"
                                 THEN <<"workload", "images_per_request">>
                                 ELSE <<"workload", "videos_per_request">>,
                           counts \cup {archetypes}))
                \cup When(/\ IsNone(value["workload", "media_tokens_per_request"])
                          /\ IsNumber(Envelope)
                          /\ value["workload", "avg_context_tokens_tag"] # "M",
                          Warning("C9", <<"workload", "media_tokens_per_request">>))
           [] OTHER -> When(\E leaf \in terms : Positive(value[leaf]),
                            Error("C9", archetypes, terms)))
        \cup When(Archetype = "code_agent" /\ IsNone(value["workload", "agent_loop"]),
                  Error("C9", <<"workload", "agent_loop">>, {archetypes}))

C10 ==
    LET tag == value["workload", "avg_context_tokens_tag"]
        accumulates == value["workload", "avg_context_note"] = "accumulating"
        duty == value["workload", "duty_cycle_pct"]
    IN  IF Archetype # "code_agent" THEN {}
        ELSE When(IsNumber(Envelope) /\ ~IsNone(tag) /\ tag # "M" /\ ~(tag = "I" /\ accumulates),
                  Error("C10", <<"workload", "avg_context_tokens_tag">>,
                        {<<"workload", "avg_context_note">>, <<"workload", "archetypes">>}))
             \cup When(IsNumber(duty) /\ duty < 100 /\ IsNone(value["workload", "kv_residency"]),
                       Warning("C10", <<"workload", "kv_residency">>))

-----------------------------------------------------------------------------
(* C11 unpriced prefill, C12 dispersion *)

Distance(a, b) == IF a < b THEN b - a ELSE a - b

\* The rung a tier's number was read off: the nearest context, the first of two.
\* Mutated: only a rung at exactly the tier's context backs it.
BackingExact(t) ==
    {r \in Results : IsNumber(value[r, "context_tokens"])
                  /\ value[r, "context_tokens"] = value[t, "context_tokens"]}
Backing(t) ==
    LET measured == {r \in Results : IsNumber(value[r, "context_tokens"])}
        away(r) == Distance(value[r, "context_tokens"], value[t, "context_tokens"])
        before(r, q) == CASE r = "row1" -> TRUE [] r = "row2" -> q # "row1" [] OTHER -> q = "row3"
    IN  {r \in measured : \A q \in measured :
            away(r) < away(q) \/ (away(r) = away(q) /\ before(r, q))}

Backed ==
    UNION {Backing(t) : t \in {u \in Tiers :
        /\ IsNumber(Users(u)) /\ value[u, "provenance"] \in {"M", "I"}
        /\ IsNumber(value[u, "context_tokens"])}}

\* Declared and measured input:output mixes, more than 1.5 times apart, or a
\* declared workload that generates nothing.
Overstated(r) ==
    LET declared == value["workload", "mix"]
        measured == value[r, "mix"]
    IN  /\ IsNumber(declared)
        /\ declared = Endless \/ (IsNumber(measured) /\ 2 * declared > 3 * measured)

C11 ==
    {Warning("C11", <<r, "prefill_tok_s">>) :
        r \in {q \in Backed : IsNone(value[q, "prefill_tok_s"]) /\ Overstated(q)}}

\* A repeated run owes every measured row its spread or the reason it has none.
C12 ==
    IF ~(IsNumber(value["run", "repeats"]) /\ value["run", "repeats"] >= 2) THEN {}
    ELSE LET owing == {r \in Results : value[r, "outcome"] # "aborted"
                                    /\ IsNumber(value[r, "output_tok_s"])}
         IN  {Error("C12", <<r, "dispersion">>, {<<r, "outcome">>, <<"run", "repeats">>}) :
                 r \in {q \in owing :
                     \/ value[q, "dispersion"] = Absent
                     \/ value[q, "dispersion"] = Null
                        /\ reason[q, "dispersion"] \notin {"todo", "stated"}}}

-----------------------------------------------------------------------------
(* check(): every rule, and the level its findings leave *)

Findings == C1 \cup C2 \cup C3 \cup C4 \cup C5 \cup C6 \cup C7 \cup C8 \cup C9 \cup C10
                \cup C11 \cup C12
Errors == {x \in Findings : x.severity = "error"}

\* _FATAL_RULES
Fatal == {"C1", "C2", "C3", "C4", "C5"}

Level ==
    IF \E x \in Errors : x.rule \in Fatal THEN "non-conforming"
    ELSE IF Findings # {} THEN "partial" ELSE "conforming"
=============================================================================

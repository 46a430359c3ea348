---------------------------- MODULE ReportSchema ----------------------------
(***************************************************************************)
(* What src/schemas/ says of the leaves of a capacity report that a rule   *)
(* of the grader reads: which there are, which may be missing, which may   *)
(* not be null, and which have a *_u_reason companion.                     *)
(*                                                                         *)
(* A leaf is a pair of a section and a name; one leaf stands for every     *)
(* field a rule treats alike.  The leaf "published" of a row of            *)
(* run.results, and of scaling, says whether the list holds it.            *)
(***************************************************************************)
EXTENDS FiniteSets

Tiers == {"theoretical", "measured", "sustainable", "recommended"}
\* Bound: run.results holds at most the three rows the schema asks for at least.
Rows == {"row1", "row2", "row3"}

Fields(section) ==
    CASE section = "model" ->
            {"weight_bytes_on_disk", "weight_bytes_tag", "input_modalities", "reasoning_modes"}
      [] section = "hardware" -> {"cpu_cores", "cpu_cores_note"}
      [] section = "serving" ->
            {"tensor_parallel", "pipeline_parallel", "gpu_count", "media_preprocessing"}
      [] section = "workload" ->
            {"archetypes", "images_per_request", "videos_per_request",
             "video_seconds_per_request", "media_tokens_per_request", "reasoning_mode",
             "max_output_tokens", "reasoning_share", "avg_context_tokens",
             "avg_context_tokens_tag", "avg_context_note", "duty_cycle_pct", "kv_residency",
             "agent_loop", "mix"}
      [] section = "run" -> {"truncation_rate", "gate", "declared_before_run", "repeats"}
      [] section \in Rows ->
            {"published", "outcome", "context_tokens", "input_tokens", "output_tok_s",
             "slo_pass", "prefill_tok_s", "mix", "dispersion"}
      [] section = "scaling" ->
            {"published", "output_tok_s", "provenance", "gpu_count", "context_tokens"}
      [] section \in Tiers ->
            {"max_concurrent_users", "provenance", "n_gpus", "context_tokens",
             "binding_constraint"}
      [] section = "sizing" -> {"gpus_required", "binding_constraint"}
      [] section = "roofline" -> {"efficiency_pct"}
      [] section = "reproduction" -> {"raw_records_path", "container_digest"}
      [] section = "unmeasured_assumptions" -> {"value_used"}

Sections ==
    {"model", "hardware", "serving", "workload", "run", "scaling", "sizing", "roofline",
     "reproduction", "unmeasured_assumptions"} \cup Rows \cup Tiers

Leaves == UNION {{section} \X Fields(section) : section \in Sections}

Optional ==
    {<<"model", "weight_bytes_tag">>, <<"hardware", "cpu_cores_note">>,
     <<"serving", "media_preprocessing">>, <<"run", "truncation_rate">>}
    \cup ({"workload"} \X {"avg_context_tokens_tag", "avg_context_note", "archetypes",
                           "agent_loop", "kv_residency", "mix"})
    \cup (Rows \X {"context_tokens", "prefill_tok_s", "mix", "dispersion"})
    \cup (Tiers \X {"context_tokens"})

NonNull ==
    {<<"model", "input_modalities">>, <<"model", "reasoning_modes">>,
     <<"hardware", "cpu_cores_note">>, <<"workload", "avg_context_note">>,
     <<"run", "declared_before_run">>,
     <<"scaling", "output_tok_s">>, <<"scaling", "gpu_count">>}
    \cup ({"serving"} \X Fields("serving")) \cup (Tiers \X {"n_gpus"})

Companions ==
    Leaves \ (NonNull
        \cup ({"workload"} \X {"archetypes", "agent_loop", "kv_residency"})
        \cup {leaf \in Leaves : leaf[2] \in {"provenance", "value_used", "published"}})
=============================================================================

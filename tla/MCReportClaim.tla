--------------------------- MODULE MCReportClaim ---------------------------
EXTENDS ReportClaim, TLC

CONSTANTS Nil, Gone, Scaffold, NotANumber

\* A chat deployment measured on one context, every figure published.
Chat ==
    LET of(section, fields) == [l \in {section} \X DOMAIN fields |-> fields[l[2]]]
        row == [published |-> TRUE, outcome |-> "complete", context_tokens |-> 2000, input_tokens |-> 1000,
                output_tok_s |-> 50, slo_pass |-> TRUE, prefill_tok_s |-> Nil, mix |-> 10,
                dispersion |-> 1]
        tier(n, tag) == [max_concurrent_users |-> n, provenance |-> tag, n_gpus |-> 2,
                         context_tokens |-> 2000, binding_constraint |-> "kv"]
    IN  of("model", [weight_bytes_on_disk |-> 16, weight_bytes_tag |-> "M",
                     input_modalities |-> "text", reasoning_modes |-> "none"])
     @@ of("hardware", [cpu_cores |-> 32, cpu_cores_note |-> Gone])
     @@ of("serving", [tensor_parallel |-> 2, pipeline_parallel |-> 1, gpu_count |-> 2,
                       media_preprocessing |-> Gone])
     @@ of("workload",
           [archetypes |-> "chat_assistant", images_per_request |-> 0, videos_per_request |-> 0,
            video_seconds_per_request |-> Nil, media_tokens_per_request |-> Nil,
            reasoning_mode |-> Nil, max_output_tokens |-> 500, reasoning_share |-> Nil,
            avg_context_tokens |-> 2000, avg_context_tokens_tag |-> "M",
            avg_context_note |-> Gone, duty_cycle_pct |-> 100, kv_residency |-> Gone,
            agent_loop |-> Gone, mix |-> 10])
     @@ of("run", [truncation_rate |-> Nil, gate |-> 2, declared_before_run |-> TRUE,
                   repeats |-> 2])
     @@ of("row1", row) @@ of("row2", [row EXCEPT !.context_tokens = 4000])
     @@ of("row3", [row EXCEPT !.context_tokens = 8000])
     @@ of("scaling", [published |-> TRUE, output_tok_s |-> 50, provenance |-> "M", gpu_count |-> 2,
                       context_tokens |-> 2000])
     @@ of("theoretical", tier(40, "T")) @@ of("measured", tier(20, "M"))
     @@ of("sustainable", tier(20, "M")) @@ of("recommended", tier(10, "I"))
     @@ of("sizing", [gpus_required |-> 4, binding_constraint |-> "kv"])
     @@ of("roofline", [efficiency_pct |-> 60])
     @@ of("reproduction", [raw_records_path |-> "path", container_digest |-> "sha"])
     @@ of("unmeasured_assumptions", [value_used |-> Nil])
     @@ of("ladder", [lower_bound |-> FALSE, cache |-> TRUE])

\* A video desk, whose sustainable tier stops below the failing rung.
Video ==
    [Chat EXCEPT !["model", "input_modalities"] = "video",
        !["hardware", "cpu_cores_note"] = "an allocation",
        !["serving", "media_preprocessing"] = "sampling",
        !["workload", "archetypes"] = "video_grounded", !["workload", "videos_per_request"] = 1,
        !["workload", "video_seconds_per_request"] = 9,
        !["workload", "avg_context_tokens_tag"] = "I",
        !["row3", "slo_pass"] = FALSE, !["row3", "outcome"] = "failed",
        !["sustainable", "max_concurrent_users"] = 12]

\* A code agent that thinks, with a prompt-heavy mix, a rung the harness never ran
\* and tiers quoted at a context between two rungs.
Agent ==
    [Chat EXCEPT !["model", "reasoning_modes"] = "thinking",
        !["workload", "archetypes"] = "code_agent", !["workload", "agent_loop"] = "loop",
        !["workload", "reasoning_mode"] = "mixed", !["workload", "reasoning_share"] = 1,
        !["run", "truncation_rate"] = 0, !["workload", "avg_context_note"] = "accumulating",
        !["workload", "avg_context_tokens_tag"] = "I", !["workload", "duty_cycle_pct"] = 30,
        !["workload", "kv_residency"] = Nil, !["workload", "mix"] = 40,
        !["measured", "context_tokens"] = 3000, !["sustainable", "context_tokens"] = 3000,
        !["recommended", "context_tokens"] = 3000,
        !["row3", "outcome"] = "aborted", !["row3", "output_tok_s"] = Nil,
        !["row3", "slo_pass"] = Nil, !["row3", "dispersion"] = Nil]

\* A draft as the harness leaves it after a ladder of a thinking model in which nothing
\* failed: a ceiling and a boundary without a constraint, two tiers that state nothing,
\* no truncation rate, and a rung whose context was only half counted.
Draft ==
    [Chat EXCEPT !["theoretical", "max_concurrent_users"] = Nil,
        !["theoretical", "binding_constraint"] = Nil, !["theoretical", "provenance"] = "U",
        !["recommended", "max_concurrent_users"] = Nil,
        !["recommended", "binding_constraint"] = Nil, !["recommended", "provenance"] = "U",
        !["measured", "binding_constraint"] = Nil, !["sustainable", "binding_constraint"] = Nil,
        !["sizing", "gpus_required"] = Nil, !["sizing", "binding_constraint"] = Nil,
        !["scaling", "published"] = FALSE,
        !["model", "reasoning_modes"] = "thinking", !["workload", "reasoning_mode"] = "thinking",
        !["run", "truncation_rate"] = Gone,
        !["row2", "context_tokens"] = 2000, !["row3", "context_tokens"] = Nil,
        !["row3", "dispersion"] = Nil,
        !["model", "weight_bytes_on_disk"] = Nil, !["model", "weight_bytes_tag"] = Nil,
        !["ladder", "lower_bound"] = TRUE]

\* The draft of a chat ladder that collapsed on its second rung, on a server that counted
\* nothing there: two rows, and both tiers with the floor that was hit.
Collapsed ==
    LET gone == [leaf \in {"row3"} \X Fields("row3") |->
                     IF leaf[2] = "published" THEN FALSE ELSE Gone]
        ladder == [Draft EXCEPT
            !["model", "reasoning_modes"] = "none", !["workload", "reasoning_mode"] = Nil,
            !["row2", "outcome"] = "failed", !["row2", "slo_pass"] = FALSE,
            !["row2", "context_tokens"] = Nil, !["row2", "input_tokens"] = Nil,
            !["measured", "binding_constraint"] = "slo",
            !["sustainable", "max_concurrent_users"] = 12,
            !["sustainable", "binding_constraint"] = "slo", !["ladder", "lower_bound"] = FALSE]
    IN  gone @@ ladder

MCTruths == {Chat, Video, Agent, Draft, Collapsed}
\* What else a draft may hold: another number, the other flag, another name.
MCSpoiled(leaf, true) ==
    CASE leaf[2] \in {"provenance", "weight_bytes_tag", "avg_context_tokens_tag"} -> {"I", "X"}
      [] leaf[2] \in {"slo_pass", "declared_before_run"} -> {TRUE, FALSE} \ {true}
      [] leaf[2] = "archetypes" -> {"chat_assistant", "image_grounded", "code_agent"} \ {true}
      [] leaf[2] = "reasoning_mode" -> {"thinking", "mixed"} \ {true}
      [] leaf[2] = "container_digest" -> {"short"}
      [] leaf[2] = "outcome" -> {"complete", "aborted"} \ {true}
      [] leaf[2] = "mix" -> {Endless, NotANumber, 20}
      [] leaf[2] \in {"max_concurrent_users", "avg_context_tokens", "context_tokens",
                      "images_per_request", "videos_per_request", "efficiency_pct",
                      "gpu_count", "repeats", "duty_cycle_pct"} -> {1, 9000, NotANumber} \ {true}
      [] OTHER -> {}

\* Leaves that rules relate, and every leaf by itself.
MCPairs ==
    {<<leaf, leaf>> : leaf \in {l \in Leaves : l[2] # "published"}}
    \cup {<<<<"model", "weight_bytes_on_disk">>, <<"model", "weight_bytes_tag">>>>,
          <<<<"workload", "archetypes">>, <<"workload", "agent_loop">>>>,
          <<<<"workload", "archetypes">>, <<"workload", "images_per_request">>>>,
          <<<<"workload", "videos_per_request">>, <<"workload", "video_seconds_per_request">>>>,
          <<<<"workload", "videos_per_request">>, <<"hardware", "cpu_cores_note">>>>,
          <<<<"workload", "reasoning_mode">>, <<"workload", "max_output_tokens">>>>,
          <<<<"workload", "reasoning_mode">>, <<"run", "truncation_rate">>>>,
          <<<<"workload", "avg_context_tokens_tag">>, <<"workload", "avg_context_note">>>>,
          <<<<"measured", "max_concurrent_users">>, <<"measured", "provenance">>>>,
          <<<<"measured", "max_concurrent_users">>, <<"measured", "n_gpus">>>>,
          <<<<"sizing", "gpus_required">>, <<"sizing", "binding_constraint">>>>,
          <<<<"sustainable", "max_concurrent_users">>, <<"row3", "slo_pass">>>>,
          <<<<"serving", "gpu_count">>, <<"serving", "tensor_parallel">>>>,
          <<<<"row1", "mix">>, <<"row2", "mix">>>>,
          <<<<"workload", "mix">>, <<"row1", "prefill_tok_s">>>>,
          <<<<"run", "repeats">>, <<"row2", "dispersion">>>>}
=============================================================================

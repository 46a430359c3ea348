---------------------------- MODULE MCBenchDraft ----------------------------
(* Windows for TLC: a pass, and a failed gate at a throughput low enough for *)
(* a collapse, on a server that counted no tokens.                           *)
EXTENDS BenchDraft, TLC

Measuring(slo_pass, tok_s, context) ==
    [offered |-> TRUE, completed |-> TRUE, slo_pass |-> slo_pass, tok_s |-> tok_s,
     ttft |-> 3, context |-> context]

PassOrFail == {Measuring(TRUE, 8, 2000), Measuring(FALSE, 3, None)}

\* A chat deployment, every layer declared.
Chat ==
    LET of(section, fields) == [l \in {section} \X DOMAIN fields |-> fields[l[2]]]
    IN  of("model", [weight_bytes_on_disk |-> 16, weight_bytes_tag |-> "M",
                     input_modalities |-> "text", reasoning_modes |-> "none"])
     @@ of("hardware", [cpu_cores |-> 32, cpu_cores_note |-> Absent])
     @@ of("serving", [tensor_parallel |-> 2, pipeline_parallel |-> 1, gpu_count |-> 2,
                       media_preprocessing |-> Absent])
     @@ of("workload",
           [archetypes |-> "chat_assistant", images_per_request |-> 0, videos_per_request |-> 0,
            video_seconds_per_request |-> 0, media_tokens_per_request |-> 0,
            reasoning_mode |-> "off", max_output_tokens |-> 500, reasoning_share |-> 0,
            avg_context_tokens |-> 2000, avg_context_tokens_tag |-> "M",
            avg_context_note |-> Absent, duty_cycle_pct |-> 100, kv_residency |-> Absent,
            agent_loop |-> Absent, mix |-> 10])

\* The same model answering after a visible or a mixed trace, in an agent's loop, and
\* over video.
Thinking ==
    [Chat EXCEPT !["model", "reasoning_modes"] = "thinking",
                 !["workload", "reasoning_mode"] = "thinking"]
MixedAgent ==
    [Thinking EXCEPT !["workload", "reasoning_mode"] = "mixed",
        !["workload", "reasoning_share"] = 1, !["workload", "archetypes"] = "code_agent",
        !["workload", "agent_loop"] = "loop", !["workload", "duty_cycle_pct"] = 30]
Video ==
    [Chat EXCEPT !["model", "input_modalities"] = "video",
        !["hardware", "cpu_cores_note"] = "an allocation",
        !["workload", "archetypes"] = "video_grounded", !["workload", "videos_per_request"] = 1,
        !["workload", "video_seconds_per_request"] = 9]

Deployed == {Chat, Thinking, MixedAgent, Video}
=============================================================================

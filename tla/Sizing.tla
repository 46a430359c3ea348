-------------------------------- MODULE Sizing --------------------------------
(***************************************************************************)
(* How many GPUs a workload needs (capacity.py): the KV memory one token    *)
(* costs on a model's geometry, the users each floor supports, and the      *)
(* search gpus_required makes, one replica count after another.             *)
(*                                                                          *)
(* A quantity is an exact fraction <<n, d>>, <<1, 0>> being math.inf; duty, *)
(* residency and headroom are multiples of 1 / Whole.  A prompt's media     *)
(* counts as input and its reasoning as output, as in the code's sums.      *)
(* Floating-point error is left out.                                        *)
(***************************************************************************)
EXTENDS Integers, FiniteSets, FiniteSetsExt, Sums

CONSTANTS
  None,
  Raised,
  Whole,        \* 1.0 in the unit of duty, residency and headroom
  DayS,         \* seconds in a day
  Workloads,    \* [concurrent, daily, duty, residency, input, output, growth, requests,
                \*  target, secs, peak]
  Deployments,  \* [layers, global, heads, window, width, vram, weights, tok, prefill]
  Headrooms,
  MaxGpus

VARIABLES w, dep, headroom, replicas, result

sizingVars == <<w, dep, headroom, replicas, result>>

\* What the schemas and the functions' own refusals leave: nothing negative, a session makes
\* a request, a model has a layer of full attention and a head, a window keeps something, a
\* replica has a GPU.
ASSUME SizingAssumption ==
  /\ Whole \in Nat \ {0} /\ DayS \in Nat \ {0} /\ MaxGpus \in Nat
  /\ \A h \in Headrooms : h \in Nat /\ h >= Whole
  /\ Workloads \subseteq
       [concurrent : Nat \cup {None}, daily : Nat, duty : Nat, residency : Nat \cup {None},
        input : Nat, output : Nat, growth : Nat, requests : Nat \ {0}, target : Nat,
        secs : Nat, peak : Nat]
  /\ Deployments \subseteq
       [layers : Nat \ {0}, global : Nat \ {0}, heads : Nat \ {0},
        window : (Nat \ {0}) \cup {None}, width : Nat \ {0}, vram : Nat, weights : Nat,
        tok : Nat, prefill : Nat \cup {None}]
  /\ \A d \in Deployments : d.global <= d.layers

Infinite == <<1, 0>>
Leq(a, b) == a[1] * b[2] <= b[1] * a[2]
Times(a, b) == <<a[1] * b[1], a[2] * b[2]>>
Over(a, b) == IF b[1] = 0 THEN Infinite ELSE <<a[1] * b[2], a[2] * b[1]>>

-----------------------------------------------------------------------------
(* Demand.                                                                  *)

\* Mutated: the re-read transcript of a tool loop is not priced.
ChatContext == <<2 * w.input + w.output, 2>>

\* Full prompt, half the output, and half the transcript the turns accumulate.
avg_context_tokens ==
  <<2 * w.input + w.output
      + (IF w.growth > 0 /\ w.requests > 1 THEN w.growth * (w.requests - 1) ELSE 0), 2>>

peak_concurrent_users ==
  IF w.concurrent # None THEN <<w.concurrent, 1>>
  ELSE <<w.daily * w.secs * w.peak, DayS>>

UsersUnknown == w.concurrent = None /\ (w.daily = 0 \/ w.secs = 0)

\* Generated tokens per second one concurrent user demands: demand_tok_s over the users.
PerUser ==
  IF peak_concurrent_users[1] = 0 THEN <<0, 1>>
  ELSE IF w.target > 0 THEN <<w.duty * w.target, Whole>>
  ELSE <<w.output * w.requests, w.secs>>

\* Prompt tokens per second one concurrent user demands.
PerUserPrefill ==
  IF peak_concurrent_users[1] = 0 THEN <<0, 1>>
  ELSE IF w.target > 0 THEN <<w.duty * w.target * w.input, Whole * w.output>>
  ELSE <<w.input * w.requests, w.secs>>

Residency == IF w.residency = None THEN w.duty ELSE w.residency

\* Every ValueError capacity_at can raise on these inputs.
Unpriceable ==
  \/ avg_context_tokens[1] <= 0
  \/ Residency < w.duty
  \/ UsersUnknown
  \/ peak_concurrent_users[1] > 0 /\ w.target = 0 /\ w.secs = 0
  \/ peak_concurrent_users[1] > 0 /\ dep.prefill # None /\ w.target > 0 /\ w.output = 0

-----------------------------------------------------------------------------
(* KV geometry.                                                             *)

\* KV heads on each rank: whole heads, at least one, whatever the width.
kv_heads_per_rank == <<Max({1, (dep.heads + dep.width - 1) \div dep.width}), 1>>

\* The share of full-length KV a stack with windowed layers holds at this context.
effective_layer_frac ==
  IF dep.window = None THEN <<1, 1>>
  ELSE LET ctx  == avg_context_tokens[1]
           held == Min({ctx, 2 * dep.window})
       IN  <<dep.global * ctx + (dep.layers - dep.global) * held, dep.layers * ctx>>

\* Keys and values of one token across the ranks, in units of head_dim * dtype_bytes.
kv_bytes_per_token ==
  Times(<<2 * dep.layers * dep.width, 1>>, Times(effective_layer_frac, kv_heads_per_rank))

kv_pool_bytes == Max({0, dep.width * dep.vram - dep.weights})

\* kv_capacity_tokens of one replica, over its GPUs: what --kv-tokens is given.
KvTokensPerGpu == Over(<<kv_pool_bytes, dep.width>>, kv_bytes_per_token)

-----------------------------------------------------------------------------
(* capacity_at                                                              *)

Usable(supply, n) == Times(supply, <<n * Whole, headroom>>)

KvFloor(n) ==
  Over(Over(Usable(KvTokensPerGpu, n), avg_context_tokens), <<Residency, Whole>>)

ThroughputFloor(n) == Over(Usable(<<dep.tok, 1>>, n), PerUser)

PrefillFloor(n) ==
  IF dep.prefill = None THEN Infinite ELSE Over(Usable(<<dep.prefill, 1>>, n), PerUserPrefill)

\* Mutated: a floor counts only where tokens are generated.
LowestFloorGenerated(n) ==
  IF Leq(KvFloor(n), ThroughputFloor(n)) THEN <<"KV", KvFloor(n)>>
  ELSE <<"throughput", ThroughputFloor(n)>>

\* Mutated: the prefill floor lowers the answer without being named.
LowestFloorUnnamed(n) ==
  LET users == IF Leq(KvFloor(n), ThroughputFloor(n)) THEN KvFloor(n) ELSE ThroughputFloor(n)
  IN  <<IF Leq(KvFloor(n), ThroughputFloor(n)) THEN "KV" ELSE "throughput",
        IF Leq(users, PrefillFloor(n)) THEN users ELSE PrefillFloor(n)>>

\* The lowest floor; KV wins ties, then throughput.
LowestFloor(n) ==
  IF Leq(KvFloor(n), ThroughputFloor(n)) /\ Leq(KvFloor(n), PrefillFloor(n))
  THEN <<"KV", KvFloor(n)>>
  ELSE IF Leq(ThroughputFloor(n), PrefillFloor(n)) THEN <<"throughput", ThroughputFloor(n)>>
  ELSE <<"prefill", PrefillFloor(n)>>

-----------------------------------------------------------------------------
(* gpus_required                                                            *)

SizingInit ==
  /\ w \in Workloads
  /\ dep \in Deployments
  /\ headroom \in Headrooms
  /\ replicas = 1
  /\ result = None

Refuse ==
  /\ result = None
  /\ Unpriceable \/ replicas > MaxGpus \div dep.width
  /\ result' = Raised
  /\ UNCHANGED <<w, dep, headroom, replicas>>

TryReplicas ==
  /\ result = None
  /\ ~Unpriceable
  /\ replicas <= MaxGpus \div dep.width
  /\ \E n \in {replicas * dep.width} : \E floor \in {LowestFloor(n)} :
       IF Leq(peak_concurrent_users, floor[2])
       THEN /\ result' = [n_gpus |-> n, users |-> floor[2], binding |-> floor[1]]
            /\ UNCHANGED replicas
       ELSE /\ replicas' = replicas + 1
            /\ UNCHANGED result
  /\ UNCHANGED <<w, dep, headroom>>

SizingNext == Refuse \/ TryReplicas

SizingSpec == SizingInit /\ [][SizingNext]_sizingVars

-----------------------------------------------------------------------------
(* What a purchase must mean.  Demand is totalled over the users at peak    *)
(* and compared with what the hardware holds, in the hardware's own units.  *)

Users == peak_concurrent_users

\* Tokens a layer keeps of one session: the first `global' layers keep everything.  Halves.
HeldBy(layer) ==
  LET ctx == 2 * w.input + w.output + (w.requests - 1) * w.growth
  IN  IF dep.window = None \/ layer <= dep.global THEN ctx ELSE Min({ctx, 2 * dep.window})

\* KV heads are dealt to the ranks in turn; a rank left without one replicates one.
HeadsOn(rank) == Max({1, Cardinality({h \in 1..dep.heads : h % dep.width = rank - 1})})

HeadCopies == SumTo(dep.width, [rank \in 1..dep.width |-> HeadsOn(rank)])

\* Key and value of every held token, on every rank that holds its head.
SessionBytes == HeadCopies * SumTo(dep.layers, [layer \in 1..dep.layers |-> HeldBy(layer)])

\* n GPUs have room for the KV of every resident session at peak, with the headroom kept.
PoolHolds(n) ==
  Users[1] * Residency * headroom * SessionBytes
    <= Users[2] * Whole * Whole * ((n \div dep.width) * kv_pool_bytes)

\* n GPUs answer what the users at peak ask for, with the headroom kept: in w.secs a user
\* makes w.requests requests, or generates at the target rate for its duty.
RatesHold(n) ==
  IF w.target = 0
  THEN /\ Users[1] * w.requests * w.output * headroom <= Users[2] * Whole * dep.tok * n * w.secs
       /\ dep.prefill # None =>
            Users[1] * w.requests * w.input * headroom
              <= Users[2] * Whole * dep.prefill * n * w.secs
  ELSE /\ Users[1] * w.duty * w.target * headroom <= Users[2] * Whole * Whole * dep.tok * n
       /\ dep.prefill # None =>
            Users[1] * w.duty * w.target * w.input * headroom
              <= Users[2] * Whole * Whole * dep.prefill * n * w.output

\* Where heads do not divide over the ranks the estimate rounds them up on every rank.
HeadsDivide == dep.heads % dep.width = 0 \/ dep.heads < dep.width

Sized == result \notin {None, Raised}

\* A deployment that loads but has no KV left is not viable (capacity.py:354): the cluster
\* bought has memory for every session that holds its context at peak -- tool pauses, windowed
\* layers, replicated heads and the transcript a tool loop accumulates included.
PoolHoldsSessions == Sized => PoolHolds(result.n_gpus)

\* "Smallest GPU count meeting workload, rounded up to whole replicas" (capacity.py:1175):
\* the cluster meets every priced demand, and one replica less would not.
SmallestCluster ==
  Sized =>
    /\ result.n_gpus % dep.width = 0
    /\ RatesHold(result.n_gpus)
    /\ result.n_gpus > dep.width /\ HeadsDivide =>
         ~(PoolHolds(result.n_gpus - dep.width) /\ RatesHold(result.n_gpus - dep.width))

\* The constraint named with the answer is the one that runs out first: one more user than
\* the answer supports is one too many for that supply.
BindingRunsOut ==
  Sized /\ result.users # Infinite =>
    LET more == <<result.users[1] \div result.users[2] + 1, 1>>
        Spent(perUser, supply) ==
          ~Leq(Times(more, Times(perUser, <<headroom, Whole>>)), <<supply * result.n_gpus, 1>>)
    IN  CASE result.binding = "throughput" -> Spent(PerUser, dep.tok)
          [] result.binding = "prefill"    -> Spent(PerUserPrefill, dep.prefill)
          [] result.binding = "KV" -> HeadsDivide => more[1] * Residency * headroom * SessionBytes >
                        more[2] * Whole * Whole * ((result.n_gpus \div dep.width) * kv_pool_bytes)
=============================================================================

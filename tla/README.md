# Formal models of ASCEP

ASCEP (`src/ascep`) measures how many concurrent users an LLM server sustains, publishes the
answer as a capacity report, and grades such reports. Its core is `ascep bench`: a ladder of
closed-loop windows is driven against an endpoint, every window is reduced from its request
records, the windows are graded into a capacity verdict, a draft report is written, and the
records are published as a bundle a third party can verify and re-derive the report from. Around
it stand the grader of reports, the profile of agent sessions that a replay is made of, and the
formulas that size a purchase. This directory holds TLA+ models of these parts, the TLC
configurations that check them, and TLAPS proofs.

## 1. Inventory

| component | source | state it keeps | operations | hard behaviour |
|---|---|---|---|---|
| load driver | `bench/driver.py` | next_index, next_session, records, sunk, t0, one task per virtual user | `run_window`, `apply_boundary_rules` | N coroutines and a main coroutine on one event loop; barrier, de-phasing, close, drain deadline, cancellation |
| adapter | `bench/adapters/` | one record per request in flight | `issue`, `aclose` | answers at any time or never; a partial record at cancellation; may raise |
| records | `bench/records.py` | - | the record and its serialization | identity, outcome, `in_window` |
| agent profile | `agent_profile.py` | - | `parse_session`, `to_replay_shapes`, aggregates | clocks that overlap, run backwards or are missing; compactions; export order |
| session plans | `bench/sessions.py` | memo of recent prompt texts | `shape`, `spec`, `load_shapes` | the ordinal never repeats; steps in order with their gaps; a memo shared by users and windows |
| workloads | `bench/workloads.py` | - | prompts from seeds and corpora | stateless |
| reduction | `bench/metrics.py` | - | `reduce_window`, `slice_window`, `peak_in_flight` | which cohort a record belongs to at the edges |
| ladder grading | `bench/ladder.py` | - | `grade_rung`, `grade_ladder` | windows in any order; collapse, termination, confirmation |
| draft report | `bench/report.py` | - | `build_report` | which window a row is read off; tiers, constraints and caveats of a truncated or failed ladder |
| bench run | `bench/run.py` | `state` (runs, repetitions, censor), adapter, files | `bench`, `_run_ladder`, `_confirm_boundary`, `_keep` | interrupts anywhere, aborts, disk failures, another run, a growing log |
| bundle | `bench/persist.py` | the bundle directory and its manifest | `write_bundle`, `verify_bundle`, `load_elisions` | the server appends to its log meanwhile |
| re-reduction | `bench/rereduce.py` | - | `rebuild_report`, `check_report` | censored ladders, elided fields, a corrected reduction |
| conformance | `conformance.py`, `schemas/` | - | `check` (C1-C12), `raise_claim` | rules that see parts of one report, remedies that may forbid each other |
| capacity formulas | `capacity.py` | - | `capacity_at`, `gpus_required`, KV geometry | rounding, infinite floors, ties |
| CLI, rendering, skeletons, validation, tools | `cli.py`, `render.py`, `init.py`, `validation.py`, `src/tools` | - | dispatch, formatting, file maintenance | - |

How they interact: `agent-profile` turns exported sessions into a shapes file; `bench` builds an
adapter and a plan and calls `_run_ladder`, which for each rung and repetition awaits
`run_window` (driver), which awaits `adapter.issue` from every virtual user and is given partial
records through a `sink` callback. The records go to `reduce_window`; the summary and the run
are filed by `_keep` in shared mutable `state`, because after an interrupt only mutated state
survives. `_confirm_boundary` grades what is there and runs one window more. Then
`grade_ladder`, `write_bundle`, `build_report`, and an exit code a batch script reads. The
report's author fills it in against `conformance`, which may raise its claim; `reduce` rebuilds
it from the bundle or checks that it still follows; `size` uses its figures.

What makes each part correct:

- **driver**: every request issued is in the records once, or the window is void; the cohorts
  partition the records at the edges; the window ends whatever the server does; a session is
  walked in order and never twice.
- **replay**: a prompt is the one a fresh process would render, extends the one before it, and
  shares nothing with another session but the declared prefix; the profile's statistics are
  about the steps that are replayed; a profiled campaign is never refused.
- **grading and draft**: a failure is final, what is publishable was earned, a row and the
  spread beside it are about the same windows, a number no floor was found above says so.
- **bench run**: exit 0 means complete; an interrupt costs no finished window; what is graded
  is bundled; no half bundle stays; the draft has four known gaps and no other error.
- **bundle and re-reduction**: an untouched bundle verifies while the server goes on logging,
  an edited one is reported; a rebuild and a check give the report and no more than the whole
  records back.
- **conformance**: no claim hides an unknown; caveats outlive a grading; every error the truth
  does not owe has a remedy that no other rule forbids.
- **sizing**: the cluster bought holds and serves the workload, a replica less does not, and
  the constraint named is the one that runs out.

`PROJECT.json` lists the hazards behind these, each at its line with the properties that cover
it, or the reason none does.

## 2. Modules

```
WindowRules ── ClosedLoopWindow ── SessionWindow ── ClosedLoopWindowProofs
                     └ implements RequestLedger (abstract)
Sums ─ AgentProfile ─┐
PureReplay           ├─ ProfiledReplay ── SessionReplayProofs
  └─ SessionReplay ──┘
      └ implements PureReplay (abstract)
LadderGrading ── DraftReport ─┬─ LadderEvidence ───────┬─ LadderEvidenceProofs
                     │        ├─ BenchRun ─ BenchDraft ┼─ BenchRunProofs
                     │        └─ Rereduction ──────────┴─ BundleProofs
                     └ LadderGradingProofs (lemmas) ───┘
ReproductionBundle ── BundleProofs
ReportSchema ── Conformance ── ReportClaim ── ReportClaimProofs
Sums ── Sizing ── SizingProofs
```

BenchDraft puts its drafts to an `INSTANCE` of Conformance; Rereduction reads its bundle with an
`INSTANCE` of DraftReport. BenchRunProofs extends BenchRun, not BenchDraft. BundleProofs holds
the proofs of the two modules about a published bundle. **Sums** is `sum()`, as a recursive
function.

**WindowRules** - `apply_boundary_rules` and, written independently as in the code, the cohorts
of `reduce_window` and `peak_in_flight`. Records keep identity, `issued_ts`, `end_ts`, outcome
and `in_window`; time is a natural number.

**RequestLedger** - the abstract promise of a window about its requests: numbered as issued, at
most one open per user, never reopened, all of them published or nothing.

**ClosedLoopWindow** - `run_window` with `next_spec`. One action per stretch of code between
two awaits: `Resume` (a task is scheduled first, or its sleep or `wait_until` is over),
`Answer` (`issue` returns and the user runs on to its next await), `Reset`, `Launch` (the
gather returned; median of the warm-up latencies, clamp, offsets, tasks created),
`OpenWindow` (the main coroutine wakes at or after the predicted `t0` and reads the warm-up
counter), `CancelOutstanding`, `CancelDelivered` (`CancelledError` in `issue`, with or without
a returned copy), `AdapterRaises`, `Settle` (gather, dedupe, boundary rules). The variables are
the function's locals; `at`, `wake` and `flight` are where each coroutine is suspended and the
record it is filling. The clock may advance inside an action between the driver's read and the
adapter's (`ClockSkew`).

**SessionWindow** - the same window with a session plan: it reuses every action of the main
coroutine and replaces the user's loop by `run_one_session` (`NextSession`, `NextStep`,
`ServeGap`), with ordinals, tags and counters.

**PureReplay** - the abstract promise of a replay: the prompt texts behind those steps
(`sessions.py`), each rendered from the shape alone. A text is the sequence of filler pieces it
is made of: who drew each, and how many tokens it adds. **SessionReplay** - the same with the
memo, which implements it (`MemolessReplay`). `OpenSession` and
`NextStep` are one `spec()` call of a user: `_text` resumes from the memo `_recent` or rebuilds
the segment, raises where a shape shrinks, and files the text, evicting the oldest insertion.
`NextWindow` keeps the memo and changes the session base, as the next rung does.

**AgentProfile** - one export as `parse_session` counts it (session length, merged tool
intervals, generating time, growth, compaction resumes) and as `to_replay_shapes` cuts it
(resets, gaps). The two sorts of the code are orders here: `Earlier` of turns (by creation, then
by place in the export: the sort is stable) and `Sooner` of steps; what the loops remember from
one event to the next - the last step, a pending compaction - is said of what lies between two
steps. `_merge_intervals` alone is the loop it is, as a recursive function. **ProfiledReplay**
composes both readings with the replay: a campaign is profiled, cut, loaded and replayed.

**LadderGrading** - `grade_rung` and `grade_ladder` as operators over the evidence, in the
declarative reading. **DraftReport** - `build_report` over the same evidence: the median window
behind a row, the dispersion block, the measured and sustainable tiers with their constraints,
the caveats of the note, and whether the row list passes the schema.

**LadderEvidence** - windows filed one by one, in any order; what one more window may change;
the loop of `grade_ladder`, with its running best and its break, as a recursive function over
the sorted rungs, compared with the declarative reading.

**BenchRun** - `_bench` from the preflight to the exit code. A window is one step here
(ClosedLoopWindow is its inside). `KeepRun` and `KeepRepetition` are the two statements of
`_keep`; strikes (interrupt, abort, disk failure) hit at every stage and go where the
`except` clauses send them. **BenchDraft** lays the figures of each draft such a run can end
with into the leaves of a report and puts it to `Conformance`.

**ReproductionBundle** - `write_bundle` step by step while the server appends to its log, the
later life of the bundle, and `verify_bundle` as an operator. A digest is the content itself.

**Rereduction** - a published report and its bundle: the windows with their labels but without
the `post_search` mark, as the files have them; `Reduce` (`ascep reduce`), `Grade`
(`conformance --raise`), `Elide`, `CorrectReduction`, `EditFigure` in any order; `CheckExit` is
`reduce --check`. The rebuild is DraftReport a second time, over the re-read windows. Without
its time stamps a window that stalls passes its ITL gate (`Substituted`), the hazard the
refusals are there for.

**ReportSchema, Conformance** - a report as a function from leaves (section, name) to values,
one leaf per kind of field the rules treat alike, each with the state of its `_u_reason`
companion; `check()` as the union of the rules' findings. A finding carries the leaves it blames,
which are the ones its message tells the author to change. **ReportClaim** - the author, who
knows the truth and changes only what an error blames, `raise_claim` and `reduce`, in any order.

**Sizing** - `gpus_required` as the search it is, one replica count per step, over exact
fractions (infinity is `<<1, 0>>`). The properties count the demand a second time: memory layer
by layer and head by head, tokens over the users at peak.

## 3. What is checked

| run | question | distinct states |
|---|---|---|
| `window` | accounting, cohorts, residual, warm-up quota; the window implements `RequestLedger` (`KeepsLedger`) and ends (`WindowEnds`) | 1.72 M |
| `session_window` | order and uniqueness of session steps; peak in flight | 196 k |
| `profiled_replay` | memo against pure rendering (`MemolessReplay`), prefix and isolation of texts; profile against replay; idle time against session time | 78 k |
| `ladder` | what one more window may change, loop against declaration, rows against spreads, lower bounds | 159 k |
| `bench_run` | exit code, bundle and draft under two strikes; the errors of the draft, exactly; the bench ends | 639 k |
| `bundle_verification` | no false alarm, nothing missed | about 1 k |
| `rereduction` | what a rebuild may publish and a check certify, over the life of a report | 45 k |
| `report_claim` | claims, caveats, and which errors are left to an honest author | 20 k |
| `sizing` | enough, not too much, and the right constraint | 189 k |
| `session_counters`, `draft_rows`, `elided_check` | findings, see 5 | |

Every property of a passing run has a mutant in `PROJECT.json`: a changed definition standing
beside the original ("Mutated: ..."), under which TLC finds the property violated. Type
invariants are kept where a proof rests on one (`TypeOK` of ClosedLoopWindow); elsewhere the
properties themselves constrain the values.

**Bounds.** *Window*: two users are the least that share a quota, race for an index and can be
in different phases; every accounting property is about one user against the rest. `WindowS = 1`
and `DrainDeadlineS = 1` leave room for a request that ends in the window, one that straddles it
and one abandoned; the session runs take `WindowS = 2` so that a two-step session with a gap
fits, and a user can re-issue inside the window in the instant its answer came, the case
`PeakWithinFleet` is about. `ClockSkew = 1` is one clock read. `WarmHorizon` and `Lateness`
stop the clock: before the warm-up ends it moves only while some user needs it, and it stops one
unit after the deadline, when the next event is the cancellation. The warm-up is a quota of two
requests; a timed one (`WarmupS > 0`) is covered by the proofs only. *Replay*: two users, two
windows whose session ranges differ, three sessions a window and a memo for two, so that a live
session is evicted; `MCCampaigns` has tool calls nested, overlapping, adjacent, unfinished and
backwards, messages in and out of order, every placement of compactions among three messages,
a long session beside a short one, and, for the times alone (`Clocked`), messages whose stamps
are missing, equal or run backwards. *Grading*: three repetitions are the least the code
accepts, a fourth and a fifth window are the confirmation and an extra; the third rung is what
separates the best reference from the last, and each rung files the results that matter there
(`MCLadderEvidence`). *Bench*: three rungs (the config check insists), two strikes, so that a
second interrupt can hit the clean-up of the first; one strike of a kind per stage. *Bundle*:
lengths to 5 around a cap of 2 and one rotation. *Rereduction*: each rung repeats one of four
patterns (spread tails, a stall only the stamps show, one late window, a slow rung); two fields
can be elided, one the map of `rereduce.py` knows and one it does not. *Conformance*: five
truths (chat, video, thinking code agent, the draft of a thinking model's exhausted ladder, the
draft of a ladder that collapsed on its second rung) with every leaf, and every pair of leaves two
rules relate, spoiled in every way its kind allows; three rows. The drafts of `bench_run` are
graded under four deployments (chat, thinking, an agent of mixed reasoning, video). *Sizing*: workloads
and geometries at each zero, tie and boundary, clusters to 8 GPUs.

**Reductions.** Users are symmetric in `profiled_replay` and its properties do not name one. In
BenchRun the foreign bundle appears and the log grows only in the stages that look at them:
nothing in between reads them, so an earlier arrival has the same effect. `--dry-run` and the
embedded caller without signal handling are left out. In ClosedLoopWindow a request takes at
least one clock unit. In DraftReport one throughput and one latency figure stand for the five of
the dispersion block, which the code treats alike. Sizing has no floating-point error: at an
exact tie the code may land on either side.

**Stated exceptions.** `UntouchedVerifies` holds outside the race of `persist.py:402` (see 5).
`ProfileAgreesWithReplay` excepts messages created in the same millisecond, where the aggregate
counts a compaction after every step and the shapes go by export order. `IdleFitsSession`
speaks of exports in which one message is generated at a time, nothing was created after the last
recorded end, and tools run inside their message (`OneAtATime`, `ToolsInside`; without the second
see 5); the gaps are those before their rounding to milliseconds.
`LowerBoundIsSaid` excepts, for the measured ceiling only, a ladder that passed above a failure:
it publishes neither a constraint nor the sentence (see 5), but is then published as
not monotone and without a sustainable number. `DraftErrorsAreItsGaps` is an equality: what
`check` holds against a draft is too few rows, a context no server counted, a tier with no failed
rung at or above it, and the truncation rate of a deployment that thinks - the first and the last
are the harness's own - and nothing else. `RemediesConverge` leaves an author with those of these
four that are true of the deployment (`OwedByTruth`); each has a truth in `MCReportClaim` that
owes it, and every other error goes. `SmallestCluster` and
`BindingRunsOut` speak of memory only where the heads divide over the ranks or are fewer than
they are; elsewhere the estimate rounds up on every rank, and errs on the safe side.

**Deadlock** is not checked (`CHECK_DEADLOCK FALSE`): each system really ends - a window is
reduced or void, a bench exits, a search answers - and the evidence, the log and the sessions
reach their bounds; that they end, and do not hang, is `WindowEnds` and `BenchEnds`.

**Fairness.** The event loop is FIFO, so each runnable coroutine is eventually run
(weak fairness on `Main`, on each user's `Resume` and on a delivered cancellation), and the
clock advances (`Tick`). The server owes nothing in the measured window; during the warm-up no
deadline of the driver exists and `AdapterConfig.timeout_s` ends a request, hence fairness of
`Answer` in phase warmup only. `AdapterRaises` is never fair. A bench is one process whose every
step returns: weak fairness of `Progress`, none of a strike. In ReportClaim the author goes on
while an error blames a leaf that is wrong (weak fairness of the corrections together, not of
any single one); nobody owes a grading or a rebuild.

## 4. What is proved

Every theorem holds for all values of the constants that satisfy the named assumptions, each of
which TLC evaluates on the instance of a run. A property of section 3 is seldom inductive as it
stands; the invariant that carries it is named, with what it adds.

**The window** (`ClosedLoopWindowProofs`; `EdgesAssumption`, `PolicyAssumption`: what
`WindowPolicy.__post_init__` accepts; `SessionAssumption`: what `SessionShape` accepts).

- `AccountingInvariant`, over `TypeCorrect`. `EveryRequestOnce` speaks only of the reduced window:
  the invariant says where every index is before. An index taken is below `next_index`, busy
  users hold distinct ones, none of them has a record yet, returned and sunk records are unique
  per index, and as long as no adapter has raised every index is held or recorded. `Issue` keeps
  it because `next_index` is new, `Answer` and `CancelDelivered` because they move one index
  from `flight` to the records, `Settle` because the dedupe keeps one record per index and
  `ApplyBoundaryRules` changes no identity. Hence `NoRequestLost`.
- `StampedInvariant`: no stamp lies in the future, one index at most is issued past the close (the
  clock read that carries it past the close stops everybody else), a ruled record's mark is that
  of its own interval. Hence `CohortsAgreeAlways` (two implementations of the cohorts, set by
  set) and `ResidualIsBounded`.
- `QuotaIsExact`: while the warm-up lasts `next_index` is at most the quota, and a user that is
  done has seen it reached.
- `PeakStaysWithinFleet`: the records do not say who issued them, so the invariant claims that an
  owner can be assigned to every index (`OneAtATime`) such that the requests of one owner are
  apart in time; two records overlapping at an instant have two owners, and the peak is at most
  the number of users by counting (`FS_Injection`).
- `WindowKeepsLedger`: `Spec => KeepsLedger`, the refinement of `RequestLedger` under open = the
  indices in flight, closed = those of returned and sunk records. Each action is an exchange, a
  loss, a publication, a void, or a stutter.
- `SessionInvariant`: with a session plan, the invariants above for the replaced user loop, and:
  a session is walked by one user, its tags are at or behind the walker's
  step (`SessionsApart`), a tagged step was issued after its predecessor ended and its gap was
  served (`InOrder`). Hence `NoStepIsRepeated`, `SessionsWalkedInOrder`, `SessionWindowSound`
  (accounting, cohorts, residual, peak again) and `SessionWindowKeepsLedger`, the second
  implementation of the ledger.

**The replay** (`SessionReplayProofs`; `ReplayAssumption`: what `load_shapes` accepts;
`ProfiledAssumption`: what `to_replay_shapes` writes, `load_shapes` takes).

- `ReplayInvariant`: every text in the memo and every text handed out is `PureText` of its
  session and step, of a shape a rebuild would accept, and the memo holds a session once.
  `MemoTransparent` alone says nothing of what is remembered. The step rests on three lemmas: the
  segment of a step is that of every step inside it (`SameSegment`); filler concatenates
  (`FillerConcat`); so a resumed text is a rebuilt one (`ResumeIsRebuild`). Hence
  `MemoIsTransparent`, `MemoIsBounded`, `TextExtends` and, since every piece of a pure text
  carries its session (`PieceOwner`), `SharesOnlyPrefix`.
- `ReplayIsMemoless`: `ReplaySpec => MemolessReplay`, the refinement of PureReplay. By the
  invariant a step that hands out a remembered or a resumed text hands out the pure one, and one
  that raises raises where a fresh rendering would.
- `ProfiledIsReplay`: `ProfiledSpec => ReplaySpec`, so all of this holds of a profiled campaign
  (`ProfiledTextsAreSound`).
- `ProfileIsReplayed`: the two readings of a transcript agree (`ProfileAgreesWithReplay`). The code
  reads two streams: conversation steps with compaction marks, and all steps with a pending reset.
  `GrowthIsAppended`: when no mark lies between two neighbours of the first stream, they are
  neighbours in the second and nothing is pending. `ResumeIsCold`: the last compaction before a
  step that resumes (`LeastExists`) has no step of either stream behind it.
- `ProfiledReplaysToTheEnd`: `ProfiledNeverRefused` needs that every step but the first of a shape
  grows or resets (`GrowsOrResets`), which is how `to_replay_shapes` marks resets
  (`ShapesGrow`: the n-th step of the order has the (n-1)-th right before it, `StepAtIs`), and that
  `_text` appends from inside the current segment only (`FirstStepInSegment`).
- `ReplayIdlesWithinSession`: `IdleFitsSession` for every transcript, and however finely the gaps
  are cut. Times are turned into sets of milliseconds. The merge loop keeps a list of intervals
  apart from each other that covers what it was given (`MergedIs`, `MergeIs`), so its lengths and
  overlaps are sizes of sets (`LengthIs`). Windows of messages, what tools block of them, and the
  waits after them lie apart inside the session (`SessionIsDivided`), sums of sizes are sizes of
  unions (`SumIsUnion`, `SumInUnion`), and equal parts rounded down lose and never gain
  (`TurnIdles`).

**Grading and draft** (`LadderEvidenceProofs` over `LadderGradingProofs`;
`LadderPolicyAssumption`; `ResultsAssumption`, with: a window in which no request was issued
passes no gate, as its statistics are unmeasured, `metrics.py:571-584`, `run.py:441-449`;
`DraftAssumption`: None is no constraint and no spread).

- `LoopIsDeclared`: the loop of `grade_ladder` over the rungs in order, with its running best and
  its break, grades the rungs LadderGrading declares, with the same outcomes, and stops at the same
  rung (`LoopGradesAsDeclared`), for every set of rungs and whatever they hold. The invariant
  of the loop says what its locals are after the k-th rung; it is carried from one rung to the
  next by a least counterexample.
- `EvidenceInvariant`: each rung holds finitely many windows of its own. That a number is left
  for one more window (`NumberIsFree`) is a counting argument.
- `FailedStaysFailed`: a window added leaves the failing one in place; the verdict is a matter of
  existence and of a count that only grows.
- `LowerBoundSaid`: a sustainable number without a constraint has every graded rung COMPLETE up to
  it and none failed above, so the ladder is called a lower bound; a measured ceiling without one
  is that, or has a failed rung below it, and then the ladder is not monotone and publishes no
  sustainable number; and where no rung failed no tier names a floor.
- `PublishableEarned`, `RowsAgree`: facts of the grading and the draft over any evidence of that
  form. The last needs order statistics: `LadderGradingProofs` shows that every
  rank of a finite set is taken exactly once (`RankOnto`) and that the median the row is read off
  is a member, also when figures tie.

**The bench** (`BenchRunProofs`; `BenchAssumption`).

- `BenchInvariant` has three parts. `LadderInv`: the k-th window driven is the k-th of the
  declared search, what is graded is what is kept, up to the one window between the two
  statements of `_keep`; past the search a run is censored or searched to the end. `FilesInv`:
  what stands at `bundle_dir` at each stage, and what each exit code presupposes. `SurvivorInv`:
  a run whose ladder alone was struck is on its way to a whole bundle.
- `GradedAreBundled`, `PartialIsRemoved`, `LadderSurvives`, `ExitZeroIsEarned` follow; for the
  last, that the places enumerate the search (`PlacesAreSearchWindows`) turns a count of windows
  into the set of all declared ones.

**The bundle** (`BundleProofs`; `BundleAssumption`). `BundleInvariant` says what the
manifest records of the log at each step of `write_bundle` - a digest of the copy, or of a log of
just the recorded length unless it grew in between - and that nothing is tampered with before
publication. Hence `NoFalseAlarm` and `NoChangeMissed`.

**Re-reduction** (`BundleProofs`; `PatternsAssumption`: the figures of a window are numbers
or none, and one past the latency gate fails it).

- `ReduceInvariant`: a published report is the draft of the evidence, or, after a correction was
  rebuilt, of its corrected reading, or an edit that left rungs, tiers and caveats; the bundle is
  the evidence without its marks. The properties speak of readings; the invariant says which
  reading the report rests on (`basis`).
- The work is in three lemmas: windows read back whole get their marks and figures again
  (`RereadIsDerived`, `FromEvidence`); two evidences that differ only in tail figures give the
  same ladder (`LadderOfTwins`), so a correction moves no verdict; the row of a rung is determined
  by throughput, tail and number of its windows (`OneInTheMiddle`, `MedianOfMates`), so nothing
  the bundle lacks enters it.
- Hence `CensoredIsMarked`, `BundleIsSufficient`, `NothingIsPromoted`, `CheckIsEvidence`.

**The claim** (`ReportClaimProofs`; `ContextAssumption`: a context is a number or none,
`run.schema.json:863`, `capacity-report.schema.json:604`). `NothingIsHidden` holds of any report
at all: C1 finds each hidden unknown and C1 is fatal. `CaveatsStay` and `PrefillIsPriced` rest on
`ClaimInvariant`; the second is a case distinction over what backs the tier: no rung, so that all
rungs count, or the rungs at its context.

**The purchase** (`SizingProofs`; `SizingAssumption`: the types the schemas and
`capacity.py` demand; at least one layer, head, rank and request; headroom of at least 1).

- `SearchInvariant`: every smaller number of replicas was tried and fell short, and an answer is
  the number that serves or the refusal of inputs `capacity_at` refuses. `SmallestCluster` needs
  the first part, which no state of the search shows.
- `PurchaseHoldsSessions`: the memory estimate of a session is a product of rounded factors; what
  it occupies is a sum over layers, heads and ranks. The sum is bounded term by term (`SumBound`),
  the share of a rank by dividing its heads into rounds (`Share`).
- `PurchaseIsSmallest`, `BindingIsRight`: a floor is at least n exactly when n times the price does
  not exceed the supply, so each floor of `capacity_at` is a comparison, and the least of the
  three names the constraint that one user more overdraws.

**Only model-checked, and why.** Liveness (`WindowEnds`, `BenchEnds`, `RemediesConverge`): the
prover has no ENABLED and no fairness here. `DraftErrorsAreItsGaps`: it speaks of concrete
declarations under all twelve rules, and is a question of one instance rather than of all.
Induction on numbers is done without the library's induction theorems, by the least member of a
set of counterexamples (`LeastExists`, `UpTo`), and recursion is kept in functions (the filler of
a prompt, the loop of the ladder, the merge of intervals, `SumTo`).

## 5. Findings

With a run:

- `session_counters`: sessions begun while the fleet is de-phased are not started but may be
  completed (`driver.py:511-512`); a window can publish more completed than started.
- `draft_rows`: a complete ladder of three rungs that collapses on the second leaves two rows,
  and the draft fails its own schema (`run.py:343`, `report.py:506`), the outcome the check of
  the declared rungs is there to prevent.
- `elided_check`: eliding the token stamps can make `reduce --check` report a mismatch for an
  untouched report: the rung list, `run.monotone` and the lower-bound caveat move with the
  verdict that is substituted, and stay compared (`rereduce.py:567`, `606`).

Seen while modelling, and modelled, without a run of their own:

- The pass-through log is digested and measured by two calls (`persist.py:396`, `402`); growth
  in between makes an intact bundle fail for ever (`raced` in ReproductionBundle).
- A log outside the report directory that passes the cap during the run ends the bench in an
  uncaught `ValueError` after the last window (`persist.py:421`, `run.py:1184`; `FinishBundle`).
- An interrupt while the environment is captured removes whatever stands at `bundle_dir`, also
  what another run has put there (`run.py:1166-1188`; `StrikeWriting`, `ForeignBundle`).
- A ladder stopped by a rung that delivered nothing, but has too few windows to be graded, is
  INVALID and counts as exhausted without failure (`ladder.py:344`, `371`).
- The memo drops the oldest insertion, which may be a session still being walked, although the
  comment takes it for a finished one (`sessions.py:322`); by `MemoIsTransparent` that costs a
  rebuild of the text and changes no prompt.
- A complete ladder that fails a low rung and passes the top one publishes the top as its measured
  ceiling with a null constraint (`report.py:327`) and, since a rung did fail, without the sentence
  that calls it a lower bound (`ladder.py:371`, `report.py:293`). Section 5 of the protocol asks for
  that sentence wherever the top rung passed (`07-benchmark-procedure.md:99`). It is the second
  alternative in `LowerBoundIsSaid`, reached by the evidence of `ladder` and of `bench_run`.
- `build_report` never fills `run.truncation_rate`, although every record keeps its
  `finish_reason` (`records.py:117`) and C4 asks for it beside any thinking or mixed workload
  (`conformance.py:865`): every draft of such a deployment is refused (`Gaps`), and only the raw
  records could answer.
- `session_seconds` ends with the last completion or tool end (`agent_profile.py:287-292`). A last
  message that never completed lies outside it, while the wait before that message is replayed as
  a gap (`agent_profile.py:505-512`): a replay of such a session idles longer than the session is
  said to have lasted (the third conjunct of `OneAtATime` sets the case aside).
- `build_report` counts context lengths within 5 percent as one, C4 counts distinct numbers: a
  draft labelled `single_point` draws no C4 warning (`report.py:605`, `conformance.py:723`).

## 6. Not modelled, and why

- `workloads.py`: prompts as functions of a seed and a corpus; no state, no concurrency.
- Percentiles, rates, slices and gates of `metrics.py`, bootstrap intervals: real arithmetic over
  one finished window. A window enters grading with its verdict.
- Parsing of the adapters' streams, serialization of records, configuration files: formats. A
  refused configuration is one branch of `Preflight`.
- `capture_environment`; the refusals of `rereduce.py` over damaged files.
- MLA caches, calibration, rooflines, scaling fits and media tokens of `capacity.py`: single
  formulas over reals.
- `to_ascep_workload` and the percentiles of the agent profile; output tokens, tool names,
  providers.
- The types and enumerations of the schemas, and every message.
- `render.py`, `init.py`, CLI parsing, `src/tools`, templates, protocol and examples. The order in
  which `redact_bundle.py` rewrites files and manifest is listed as a hazard.
- In BenchRun, the text of a censoring cause: whether there is one is kept, what it says is not.

What would come next: BenchRun's window refined by ClosedLoopWindow, so that an interrupt inside a
window is one step of the other module; the order in which `redact_bundle.py` rewrites its files;
the rounding of gaps to milliseconds.

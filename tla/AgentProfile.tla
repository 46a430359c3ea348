----------------------------- MODULE AgentProfile -----------------------------
(***************************************************************************)
(* Measuring one exported agent session (agent_profile.py): what            *)
(* parse_session counts in a transcript, and the replay shapes              *)
(* to_replay_shapes cuts from the same transcript.                          *)
(*                                                                          *)
(* A transcript is [asked |-> when the user's messages were created, turns  *)
(* |-> the assistant messages in export order].  A turn has its creation    *)
(* and completion times, the prompt tokens of its steps, its tool calls and *)
(* whether it is a compaction.  Times are milliseconds; Missing is a field  *)
(* the export lacks.  Output tokens, names and providers are left out.     *)
(***************************************************************************)
EXTENDS Integers, Sequences, FiniteSets, FiniteSetsExt, Functions, Sums

CONSTANT Missing

\* What an export may hold.
Stamps == Nat \cup {Missing}
Calls == [start : Stamps, end : Stamps]
TurnRecords == [created : Stamps, completed : Stamps, summary : BOOLEAN,
                prompts : Seq(Int), tools : Seq(Calls)]
IsTranscript(t) ==
  /\ t.asked \subseteq Stamps /\ IsFiniteSet(t.asked)
  /\ t.turns \in Seq(TurnRecords)

Known(times) == times \ {Missing}
LexLess(a, b) == a[1] < b[1] \/ (a[1] = b[1] /\ a[2] < b[2])

-----------------------------------------------------------------------------
(* parse_session: a turn is known by its place in the export.               *)

\* A call that ended before it started, or without a start, is one that never ended.
Intervals(turn) ==
  {<<c.start, c.end>> : c \in {c \in Range(turn.tools) :
     c.start # Missing /\ c.end # Missing /\ c.start <= c.end}}

CreatedMs(turn) == IF turn.created = Missing THEN 0 ELSE turn.created

\* Turns in chronological order.  The sort is stable: turns created together keep their
\* export order.
Earlier(t, i, j) == LexLess(<<CreatedMs(t.turns[i]), i>>, <<CreatedMs(t.turns[j]), j>>)

AllCreated(t) == Known(t.asked \cup {turn.created : turn \in Range(t.turns)})
ToolIntervals(t) == UNION {Intervals(turn) : turn \in Range(t.turns)}
EndTimes(t) ==
  Known({turn.completed : turn \in Range(t.turns)}) \cup {i[2] : i \in ToolIntervals(t)}
MessageWindows(t) ==
  {i \in DOMAIN t.turns : t.turns[i].created # Missing /\ t.turns[i].completed # Missing}

SessionMs(t) ==
  IF AllCreated(t) = {} THEN 0
  ELSE Max(IF EndTimes(t) # {} THEN EndTimes(t) ELSE AllCreated(t)) - Min(AllCreated(t))

-----------------------------------------------------------------------------
(* Tool time, generating time, residency.                                   *)

\* sorted(intervals)[n - 1]
Sorted(intervals, n) ==
  CHOOSE i \in intervals : Cardinality({j \in intervals : LexLess(j, i)}) = n - 1

\* The loop body: an interval that starts inside the last one, or where it ends, extends it.
Merged(merged, i) ==
  IF merged # <<>> /\ i[1] <= merged[Len(merged)][2]
  THEN [merged EXCEPT ![Len(merged)] = <<@[1], Max({@[2], i[2]})>>]
  ELSE Append(merged, i)

\* The disjoint, sorted union.
_merge_intervals(intervals) ==
  LET after[n \in 0..Cardinality(intervals)] ==
        IF n = 0 THEN <<>> ELSE Merged(after[n - 1], Sorted(intervals, n))
  IN  after[Cardinality(intervals)]

Length(merged) == SumTo(Len(merged), [n \in DOMAIN merged |-> merged[n][2] - merged[n][1]])

ToolBlockedMs(t) == Length(_merge_intervals(ToolIntervals(t)))

Overlap(i, w) == Max({0, Min({i[2], w.completed}) - Max({i[1], w.created})})
OverlapMs(merged, w) == SumTo(Len(merged), [n \in DOMAIN merged |-> Overlap(merged[n], w)])

\* Every message's own window, less the merged tool time that falls inside it.
MessageMs(t, i) ==
  LET w == t.turns[i]
      overlap == OverlapMs(_merge_intervals(ToolIntervals(t)), w)
  IN  IF i \in MessageWindows(t) THEN Max({0, (w.completed - w.created) - overlap}) ELSE 0

GeneratingMs(t) == SumTo(Len(t.turns), [i \in DOMAIN t.turns |-> MessageMs(t, i)])

-----------------------------------------------------------------------------
(* Context growth and compaction resumes: a step is <<turn, place in the turn>>. *)

Steps(t) == UNION {{i} \X DOMAIN t.turns[i].prompts : i \in DOMAIN t.turns}
Input(t, s) == t.turns[s[1]].prompts[s[2]]
Sooner(t, r, s) == Earlier(t, r[1], s[1]) \/ (r[1] = s[1] /\ r[2] < s[2])

\* r comes last among the steps of S before s.
Precedes(t, S, r, s) ==
  r \in S /\ Sooner(t, r, s) /\ \A x \in S : ~(Sooner(t, r, x) /\ Sooner(t, x, s))

Compactions(t) == {i \in DOMAIN t.turns : t.turns[i].summary}
ConversationSteps(t) == {s \in Steps(t) : s[1] \notin Compactions(t)}

\* In the stream of events the mark of a compaction follows the steps created with it.
MarkBefore(t, m, s) == CreatedMs(t.turns[m]) < CreatedMs(t.turns[s[1]])

\* Mutated: the delta across a compaction is averaged in.
GrowthAcrossCompaction(t) ==
  {s \in ConversationSteps(t) : \E r \in ConversationSteps(t) :
     Precedes(t, ConversationSteps(t), r, s) /\ Input(t, s) > Input(t, r)}

\* The steps whose prompt growth enters context_growth_tokens_per_turn.
GrowthSteps(t) ==
  {s \in ConversationSteps(t) : \E r \in ConversationSteps(t) :
     /\ Precedes(t, ConversationSteps(t), r, s)
     /\ \A m \in Compactions(t) : MarkBefore(t, m, s) => MarkBefore(t, m, r)
     /\ Input(t, s) > Input(t, r)}

\* The steps whose prompt enters compaction_resume_tokens: the first after each mark.
ResumeSteps(t) ==
  {s \in ConversationSteps(t) : \E m \in Compactions(t) :
     /\ MarkBefore(t, m, s)
     /\ \A r \in ConversationSteps(t) : Sooner(t, r, s) => ~MarkBefore(t, m, r)}

-----------------------------------------------------------------------------
(* to_replay_shapes: all the steps, the compactions' own included.          *)

\* A compaction turn lies before the turn of s and after that of every step before s: the
\* compaction's own request continues the prefix, the step after it starts cold.
PendingReset(t, s) ==
  \E m \in Compactions(t) :
    /\ Earlier(t, m, s[1])
    /\ \A r \in Steps(t) : Sooner(t, r, s) => ~Earlier(t, m, r[1])

\* Mutated: only a prompt that shrank is a reset.
ResetsOnShrink(t, s) ==
  \/ PendingReset(t, s)
  \/ \E r \in Steps(t) : Precedes(t, Steps(t), r, s) /\ Input(t, s) < Input(t, r)

ResetsPrefix(t, s) ==
  \/ PendingReset(t, s)
  \/ \E r \in Steps(t) : Precedes(t, Steps(t), r, s) /\ Input(t, s) <= Input(t, r)

\* A prompt below one token cannot be replayed.
ShapesRaise(t) == \E s \in Steps(t) : Input(t, s) < 1

\* The step with n - 1 steps before it.
StepAt(t, n) ==
  CHOOSE s \in Steps(t) : Cardinality({r \in Steps(t) : Sooner(t, r, s)}) = n - 1

ReplayShape(t) ==
  [n \in 1..Cardinality(Steps(t)) |->
     [prompt |-> Input(t, StepAt(t, n)), resets |-> ResetsPrefix(t, StepAt(t, n))]]

\* Mutated: the whole tool time of a turn is charged to each of its gaps.
WholeTurnGap(turn) == <<Length(_merge_intervals(Intervals(turn))), 1>>

\* A turn's tool time, spread evenly over its inner gaps: <<ms, gaps>>.
_intra_turn_gaps(turn) ==
  <<Length(_merge_intervals(Intervals(turn))), Len(turn.prompts) - 1>>

\* From the end of a turn to the arrival of the next one.
Trailing(t, i) ==
  LET later == {CreatedMs(t.turns[j]) : j \in {j \in DOMAIN t.turns : Earlier(t, i, j)}}
  IN  IF t.turns[i].completed = Missing \/ later = {} THEN 0
      ELSE Max({0, Min(later) - t.turns[i].completed})

\* The client's idle time after step s, as <<ms, parts>>, before its rounding.
Gap(t, s) ==
  IF s[2] = Len(t.turns[s[1]].prompts) THEN <<Trailing(t, s[1]), 1>>
  ELSE _intra_turn_gaps(t.turns[s[1]])

\* Sessions without a step are skipped.
Stepped(campaign) == {i \in DOMAIN campaign : Steps(campaign[i]) # {}}
Nth(S, n) == CHOOSE i \in S : Cardinality({j \in S : j <= i}) = n
to_replay_shapes(campaign) ==
  [n \in 1..Cardinality(Stepped(campaign)) |-> ReplayShape(campaign[Nth(Stepped(campaign), n)])]
=============================================================================

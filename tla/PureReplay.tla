------------------------------ MODULE PureReplay ------------------------------
(***************************************************************************)
(* What a session replay promises (bench/sessions.py): the text of a step  *)
(* is a function of the plan, the session and the step, whatever was       *)
(* rendered before it, and a step is refused exactly when its segment      *)
(* cannot be rendered.  This is the replay of a process that remembers     *)
(* nothing; SessionReplay, which resumes from a memo of earlier texts,     *)
(* implements it.                                                          *)
(*                                                                         *)
(* A text is the sequence of the pieces of filler it is made of: who drew  *)
(* the piece (the random material is a function of the session and the     *)
(* step) and how many tokens it adds.  The tokenizer is the one the run    *)
(* installs, one token per word, so a target above the base is always hit. *)
(* Steps are numbered from 1.                                              *)
(***************************************************************************)
EXTENDS Integers, Sequences, FiniteSets

CONSTANTS
  Users,        \* the virtual users of a window
  None,
  Plans,        \* the loaded shapes files: [shapes |-> ..., shared |-> ...]
  SessionBase,  \* the first session index of each window: a digest of its operating point
  MaxOrdinal    \* bound: sessions one window opens

VARIABLES
  plan,     \* the shapes file the run replays; never changes
  window,   \* the window being run
  ordinal,  \* next_session: sessions opened in this window
  at,       \* the last step each user was handed: [session, step, text]
  refused   \* a render raised ValueError: the ladder is over

pureVars == <<plan, window, ordinal, at, refused>>

StepShapes == [prompt : Nat \ {0}, resets : BOOLEAN]

ASSUME PlanAssumption ==
  /\ MaxOrdinal \in Nat
  /\ SessionBase \in Seq(Nat)
  /\ SessionBase # <<>>
  /\ \A p \in Plans :
       /\ p.shapes \in Seq(Seq(StepShapes) \ {<<>>})
       /\ p.shapes # <<>>
       /\ p.shared \in Nat

-----------------------------------------------------------------------------
(* The plan: pure functions of the session index and the step.             *)

shape(s) == plan.shapes[(s % Len(plan.shapes)) + 1]
Prompt(s, k) == shape(s)[k].prompt
Resets(s, k) == k = 1 \/ shape(s)[k].resets

\* The step that opens the segment of step k: the last compaction, or the first step.
SegmentStart(s, k) ==
  CHOOSE j \in 1..k : Resets(s, j) /\ \A i \in (j+1)..k : ~Resets(s, i)

_seed_material(s, k) == <<s, k>>

_shared_prefix_text ==
  IF plan.shared = 0 THEN <<>> ELSE <<[by |-> <<>>, tokens |-> plan.shared]>>

\* What _grow adds at step j of the segment that begins at start.
Added(s, start, j) ==
  Prompt(s, j) - (IF j = start THEN plan.shared ELSE Prompt(s, j - 1))

\* Appending cannot shrink: within a segment the prompt must grow, and _grow cannot
\* cut a shared prefix longer than the prompt.
Shrinks(s, start, j) ==
  IF j = start THEN Added(s, start, j) < 0 ELSE Added(s, start, j) <= 0

\* Mutated: the filler is drawn from the step alone, so sessions repeat each other.
FillerByStep(s, start, i, j) ==
  [n \in 1..(j - i + 1) |->
     [by |-> <<0, i + n - 1>>, tokens |-> Added(s, start, i + n - 1)]]

\* The pieces steps i to j append.
Filler(s, start, i, j) ==
  [n \in 1..(j - i + 1) |->
     [by |-> _seed_material(s, i + n - 1), tokens |-> Added(s, start, i + n - 1)]]

\* What step k of session s reads when nothing is remembered.
PureText(s, k) ==
  _shared_prefix_text \o Filler(s, SegmentStart(s, k), SegmentStart(s, k), k)

Replayable(s, k) ==
  \A j \in SegmentStart(s, k)..k : ~Shrinks(s, SegmentStart(s, k), j)

-----------------------------------------------------------------------------
(* The session users of the driver, served by a plan without a memory.     *)

session_index == SessionBase[window] + ordinal
Finished(u) == at[u] # None => at[u].step = Len(shape(at[u].session))

\* spec(): step k of session s is handed to user u, or refused.
Hand(u, s, k) ==
  \/ /\ Replayable(s, k)
     /\ at' = [at EXCEPT ![u] = [session |-> s, step |-> k, text |-> PureText(s, k)]]
     /\ UNCHANGED refused
  \/ /\ ~Replayable(s, k)
     /\ refused' = TRUE
     /\ UNCHANGED at

PureOpenSession(u) ==
  /\ ~refused
  /\ Finished(u)
  /\ ordinal < MaxOrdinal
  /\ ordinal' = ordinal + 1
  /\ Hand(u, session_index, 1)
  /\ UNCHANGED <<plan, window>>

PureNextStep(u) ==
  /\ ~refused
  /\ ~Finished(u)
  /\ Hand(u, at[u].session, at[u].step + 1)
  /\ UNCHANGED <<plan, window, ordinal>>

PureNextWindow ==
  /\ ~refused
  /\ window < Len(SessionBase)
  /\ window' = window + 1
  /\ ordinal' = 0
  /\ at' = [u \in Users |-> None]
  /\ UNCHANGED <<plan, refused>>

PureStart ==
  /\ window = 1
  /\ ordinal = 0
  /\ at = [u \in Users |-> None]
  /\ refused = FALSE

PureInit == plan \in Plans /\ PureStart

PureNext ==
  \/ \E u \in Users : PureOpenSession(u) \/ PureNextStep(u)
  \/ PureNextWindow

PureSpec == PureInit /\ [][PureNext]_pureVars

=============================================================================

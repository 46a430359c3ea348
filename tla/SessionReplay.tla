---------------------------- MODULE SessionReplay ----------------------------
(***************************************************************************)
(* Captured agent sessions replayed as prompt text (bench/sessions.py) by  *)
(* the session users of the driver (bench/driver.py, run_one_session).     *)
(*                                                                         *)
(* One plan instance serves every window of a ladder.  Rendering step k of *)
(* a session appends filler to the text of step k-1, so the server finds   *)
(* the earlier prompt in its prefix cache; a step marked resets_prefix     *)
(* starts again from the shared prefix.  A memo of the last text of the    *)
(* RecentMax most recently opened sessions spares the rebuild.  What a     *)
(* text is, and what the replay would hand out without the memo, is module *)
(* PureReplay, which this one implements.                                  *)
(***************************************************************************)
EXTENDS PureReplay

CONSTANT RecentMax  \* _RECENT_MAX

VARIABLE recent     \* _recent, oldest insertion first: a sequence of [session, step, text]

replayVars == <<plan, window, ordinal, at, recent, refused>>

ASSUME MemoAssumption == RecentMax \in Nat \ {0}

ReplayAssumption == PlanAssumption /\ MemoAssumption

-----------------------------------------------------------------------------
(* The memo.                                                               *)

Remembered(s) == {n \in DOMAIN recent : recent[n].session = s}

\* Mutated: any earlier step of the session will do, a discarded conversation included.
ResumableAnySegment(s, k) ==
  {n \in Remembered(s) : recent[n].step < k}

\* The entry _text resumes from: a step of this session inside the current segment.
Resumable(s, k) ==
  {n \in Remembered(s) : SegmentStart(s, k) <= recent[n].step /\ recent[n].step < k}

\* The first step _text has to append.
FirstStep(s, k) ==
  IF Resumable(s, k) = {} THEN SegmentStart(s, k)
  ELSE recent[CHOOSE n \in Resumable(s, k) : TRUE].step + 1

BaseText(s, k) ==
  IF Resumable(s, k) = {} THEN _shared_prefix_text
  ELSE recent[CHOOSE n \in Resumable(s, k) : TRUE].text

_text(s, k) == BaseText(s, k) \o Filler(s, SegmentStart(s, k), FirstStep(s, k), k)

Raises(s, k) == \E j \in FirstStep(s, k)..k : Shrinks(s, SegmentStart(s, k), j)

\* A new session evicts the oldest insertion; a known one keeps its place.
Remember(entry) ==
  IF Remembered(entry.session) # {}
  THEN [n \in DOMAIN recent |->
          IF n \in Remembered(entry.session) THEN entry ELSE recent[n]]
  ELSE Append(IF Len(recent) >= RecentMax THEN Tail(recent) ELSE recent, entry)

-----------------------------------------------------------------------------
(* The session users of the driver.                                        *)

\* spec(): render step k of session s for user u, or raise out of the window.
Render(u, s, k) ==
  \/ /\ ~Raises(s, k)
     /\ \E entry \in {[session |-> s, step |-> k, text |-> _text(s, k)]} :
          /\ at' = [at EXCEPT ![u] = entry]
          /\ recent' = Remember(entry)
     /\ UNCHANGED refused
  \/ /\ Raises(s, k)
     /\ refused' = TRUE
     /\ UNCHANGED <<at, recent>>

\* run_one_session takes the next ordinal and renders the session's first step.
OpenSession(u) ==
  /\ ~refused
  /\ Finished(u)
  /\ ordinal < MaxOrdinal
  /\ ordinal' = ordinal + 1
  /\ Render(u, session_index, 1)
  /\ UNCHANGED <<plan, window>>

\* The answer came back and the gap was served: the next step of the same session.
NextStep(u) ==
  /\ ~refused
  /\ ~Finished(u)
  /\ Render(u, at[u].session, at[u].step + 1)
  /\ UNCHANGED <<plan, window, ordinal>>

\* The window closes on every user wherever it is; the next one opens with new sessions.
NextWindow ==
  /\ ~refused
  /\ window < Len(SessionBase)
  /\ window' = window + 1
  /\ ordinal' = 0
  /\ at' = [u \in Users |-> None]
  /\ UNCHANGED <<plan, recent, refused>>

ReplayStart == PureStart /\ recent = <<>>

ReplayInit == plan \in Plans /\ ReplayStart

ReplayNext ==
  \/ \E u \in Users : OpenSession(u) \/ NextStep(u)
  \/ NextWindow

ReplaySpec == ReplayInit /\ [][ReplayNext]_replayVars

-----------------------------------------------------------------------------
(* What the memo may never change.                                         *)

\* "A memo, not state" (sessions.py:174): whatever was remembered, evicted or left behind
\* by an earlier window, every step is handed out or refused as by a plan that remembers
\* nothing: the same text, the same refusals, at the same moments.
MemolessReplay == PureSpec

\* The memo is bounded and holds each session once.
MemoBounded ==
  /\ Len(recent) <= RecentMax
  /\ \A m, n \in DOMAIN recent : recent[m].session = recent[n].session => m = n

\* "A memo, not state" (sessions.py:174): whatever was remembered, evicted or left behind
\* by an earlier window, the text handed out is the text a fresh process would render, and
\* resuming never hands out a shape a full rebuild would have refused (sessions.py:291).
MemoTransparent ==
  \A u \in Users : at[u] # None =>
    /\ at[u].text = PureText(at[u].session, at[u].step)
    /\ Replayable(at[u].session, at[u].step)

\* A text extends the one the same user was handed before in the same session, unless the
\* capture compacted in between: the prefix-cache hit the replay exists to reproduce.
PrefixExtends ==
  [][\A u \in Users :
       /\ at[u] # None /\ at'[u] # None
       /\ at[u].session = at'[u].session
       /\ ~Resets(at[u].session, at'[u].step)
       => SubSeq(at'[u].text, 1, Len(at[u].text)) = at[u].text]_replayVars

\* No prompt meets, beyond the shared prefix, text of another session that the server may
\* hold: not another user's, not a session of an earlier window.
OnlySharedPrefixInCommon ==
  \A u \in Users, n \in DOMAIN recent :
    at[u] # None /\ at[u].session # recent[n].session =>
      \A i \in DOMAIN at[u].text \cap DOMAIN recent[n].text :
        at[u].text[i] = recent[n].text[i] => at[u].text[i].by = <<>>

=============================================================================

--------------------------- MODULE SessionWindow ---------------------------
(***************************************************************************)
(* run_window of bench/driver.py with a session plan: the unit of work is  *)
(* a captured session, whose steps one user issues in order, serving the   *)
(* captured gap after each.  The fleet, the clock, the barrier, the drain  *)
(* and the boundary rules are those of ClosedLoopWindow; this module       *)
(* replaces the loop of a virtual user and adds the session bookkeeping.   *)
(* The warm-up is a request quota, the only kind the bench declares.       *)
(***************************************************************************)
EXTENDS ClosedLoopWindow, Sequences

CONSTANTS Shapes,       \* the plan's shapes: each the sequence of its steps' gap_s
          SessionBase   \* the operating point's offset into the plan

\* SessionShape refuses an empty session and a negative gap.
ASSUME SessionAssumption ==
    /\ Shapes \in Seq(Seq(Nat) \ {<<>>}) /\ Shapes # <<>>
    /\ SessionBase \in Nat

VARIABLES ordinal,              \* the session each user is walking
          step,                 \* how many of its steps the user has issued
          next_session,
          sessions_completed,
          warmup_sessions,      \* next_session when the window was seen to open
          session_tags          \* identity of each issued request, kept by request

sessionVars == <<ordinal, step, next_session, sessions_completed, warmup_sessions,
                 session_tags>>
svars == <<vars, sessionVars>>

\* ReplaySessionPlan.shape: round-robin by session index.
ShapeOf(session) == Shapes[1 + ((SessionBase + session) % Len(Shapes))]

\* run_window refuses a think time on top of the gaps; the bench declares its warm-up
\* as a number of requests.
SessionInit ==
    /\ ThinkTimeS = 0 /\ WarmupS = 0
    /\ Init
    /\ ordinal = [u \in Users |-> 0]
    /\ step = [u \in Users |-> 0]
    /\ next_session = 0
    /\ sessions_completed = 0
    /\ warmup_sessions = 0
    /\ session_tags = {}

-----------------------------------------------------------------------------
(* The loop of a virtual user *)

InSession(u) == step[u] > 0
StepsLeft(u) == InSession(u) /\ step[u] < Len(ShapeOf(ordinal[u]))

\* Mutated: a step is identified only once its record has come back, so that a
\* step the deadline cancels has no identity.
TagOnReturn(u, session, k) ==
    IF at[u] = "waiting" THEN {[id |-> flight[u].id, session |-> ordinal[u], step |-> step[u]]}
                         ELSE {}
\* The request's identity is recorded before it is issued.
Tag(u, session, k) == {[id |-> next_index, session |-> session, step |-> k]}

IssueStep(u, session, k) ==
    /\ Issue(u)
    /\ session_tags' = session_tags \cup Tag(u, session, k)
    /\ ordinal' = [ordinal EXCEPT ![u] = session]
    /\ step' = [step EXCEPT ![u] = k]

\* The session is dropped where it stands and the user leaves its loop.
StopSessions(u) ==
    /\ EndTask(u)
    /\ UNCHANGED next_index
    /\ ordinal' = [ordinal EXCEPT ![u] = 0]
    /\ step' = [step EXCEPT ![u] = 0]
    /\ UNCHANGED session_tags

\* should_stop() is asked before every step, not only before the session.
NextStep(u) ==
    /\ StepsLeft(u)
    /\ \/ KeepsIssuing /\ IssueStep(u, ordinal[u], step[u] + 1)
       \/ ~KeepsIssuing /\ StopSessions(u) /\ UNCHANGED now
    /\ UNCHANGED <<next_session, sessions_completed>>

\* The head of the loop, past the last step of a session or before the first:
\* the next ordinal is taken, and the clock may reach the close before the
\* first step asks should_stop().
NextSession(u) ==
    /\ ~StepsLeft(u)
    /\ sessions_completed' = IF InSession(u) THEN sessions_completed + 1
                                             ELSE sessions_completed
    /\ \/ /\ KeepsIssuing
          /\ IssueStep(u, next_session, 1)
          /\ next_session' = next_session + 1
       \/ /\ KeepsIssuing
          /\ now' \in now .. now + ClockSkew
          /\ phase # "warmup" /\ now' >= Close(t0)
          /\ StopSessions(u)
          /\ next_session' = next_session + 1
       \/ /\ ~KeepsIssuing
          /\ StopSessions(u)
          /\ UNCHANGED <<now, next_session>>

\* The gap after the step just answered.
Gap(u) == ShapeOf(ordinal[u])[step[u]]

ServeGap(u) ==
    /\ at' = [at EXCEPT ![u] = "sleeping"]
    /\ wake' = [wake EXCEPT ![u] = now + Gap(u)]
    /\ flight' = [flight EXCEPT ![u] = NoFlight]
    /\ UNCHANGED <<now, next_index, ordinal, step, session_tags, next_session,
                   sessions_completed>>

Proceed(u) == NextStep(u) \/ NextSession(u)

SessionResume(u) ==
    /\ UserPhase
    /\ \/ at[u] = "ready" /\ phase = "warmup"
       \/ at[u] = "sleeping" /\ now >= wake[u]
    /\ Proceed(u)
    /\ UNCHANGED <<phase, records, sunk, warmup_started, t0, warmup_count, warmup_sessions>>

SessionAnswer(u, outcome) ==
    /\ UserPhase
    /\ at[u] = "waiting" /\ now > flight[u].issued_ts
    /\ records' = records \cup {Filled(u, outcome, "returned")}
    /\ \/ Gap(u) > 0 /\ ServeGap(u)
       \/ Gap(u) = 0 /\ Proceed(u)
    /\ UNCHANGED <<phase, sunk, warmup_started, t0, warmup_count, warmup_sessions>>

-----------------------------------------------------------------------------
(* The main coroutine *)

\* Mutated: the window starts its sessions from zero again.
OrdinalRestarted == 0
OrdinalKept == next_session

\* The session counters are taken with the warm-up counter: the ordinal keeps
\* climbing, the completions start from zero.
SessionOpenWindow ==
    /\ OpenWindow
    /\ warmup_sessions' = next_session
    /\ next_session' = OrdinalKept
    /\ sessions_completed' = 0
    /\ UNCHANGED <<ordinal, step, session_tags>>

SessionMain ==
    \/ SessionOpenWindow
    \/ (Reset \/ Launch \/ CancelOutstanding \/ Settle) /\ UNCHANGED sessionVars

\* WindowRun.sessions_started
SessionsStarted == next_session - warmup_sessions

SessionTick == Tick /\ UNCHANGED sessionVars

\* A cancellation takes the user out of its session; an adapter that returns the
\* record all the same lets it fall through the last step.
SessionCancelled(u) ==
    /\ CancelDelivered(u)
    /\ sessions_completed' = IF records' # records /\ ~StepsLeft(u)
                             THEN sessions_completed + 1 ELSE sessions_completed
    /\ UNCHANGED <<ordinal, step, next_session, warmup_sessions, session_tags>>

SessionRaises(u) == AdapterRaises(u) /\ UNCHANGED sessionVars

SessionNext ==
    \/ SessionTick
    \/ SessionMain
    \/ \E u \in Users :
          \/ SessionResume(u)
          \/ \E outcome \in ServerOutcomes : SessionAnswer(u, outcome)
          \/ SessionCancelled(u)
          \/ SessionRaises(u)

SessionSpec == SessionInit /\ [][SessionNext]_svars

-----------------------------------------------------------------------------
(* Properties *)

TagOf(r) == {t \in session_tags : t.id = r.id}

\* Every record of the window knows its session and its step, the cancelled
\* ones included, and a session was walked in order: step k+1 was issued only
\* after step k ended and its captured gap was served, and no step was skipped.
StepsInOrder ==
    phase = "reduced" =>
        /\ \A r \in records : TagOf(r) # {}
        /\ \A s \in records : \A ts \in TagOf(s) : ts.step > 1 =>
              \E r \in records : \E tr \in TagOf(r) :
                 /\ tr.session = ts.session
                 /\ tr.step = ts.step - 1
                 /\ s.issued_ts >= r.end_ts + ShapeOf(tr.session)[tr.step]

\* No two requests are the same step of the same session, so no two prompts of
\* the window are the same text: the ordinal is never taken twice.
NoStepTwice ==
    \A a, b \in session_tags : a.session = b.session /\ a.step = b.step => a = b

\* What the bench's own test asserts of every window, and what the bundle's
\* readers subtract: no more sessions completed than were started.
CompletedWithinStarted ==
    phase = "reduced" => sessions_completed <= SessionsStarted
=============================================================================

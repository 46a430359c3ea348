-------------------------- MODULE ClosedLoopWindow --------------------------
(***************************************************************************)
(* One repetition of the load driver: run_window of bench/driver.py with   *)
(* a request source (next_spec).  A fixed fleet of virtual users shares    *)
(* one event loop.  After the reset the users spend a warm-up quota, meet  *)
(* at a barrier, are spread over one request cycle, and then issue in a    *)
(* closed loop until the window closes; the main coroutine waits out the   *)
(* drain deadline, cancels what is left and rules the records.             *)
(*                                                                         *)
(* The event loop is single-threaded: everything a coroutine does between  *)
(* two awaits is one action.  The clock may still move inside it, so an    *)
(* issue stamps issued_ts on a second, later read of the clock.            *)
(*                                                                         *)
(* The adapter is modelled from its contract (bench/adapters/base.py) and  *)
(* from OpenAICompatAdapter.issue: it suspends at least once, answers with *)
(* any outcome at any time or never, hands a partial record to the sink    *)
(* when it is cancelled, and may break the contract by raising.            *)
(***************************************************************************)
EXTENDS WindowRules

CONSTANTS Users,            \* the virtual users, WindowPolicy.concurrency of them
          WarmupRequests,   \* WindowPolicy.warmup_requests
          WarmupS,          \* WindowPolicy.warmup_s
          ThinkTimeS,       \* WindowPolicy.think_time_s
          Dephase,          \* WindowPolicy.dephase
          ServerOutcomes,   \* what issue() may return: any Outcome but "cancelled"
          ClockSkew,        \* how far the clock moves between two reads of one step
          WarmHorizon,      \* bound: the clock stops here until the warm-up ends
          Lateness          \* bound: the clock stops this far after the deadline

\* What WindowPolicy.__post_init__ refuses never reaches run_window.
ASSUME PolicyAssumption ==
    /\ IsFiniteSet(Users) /\ Users # {}
    /\ WarmupRequests \in Nat /\ WarmupS \in Nat
    /\ ~(WarmupRequests = 0 /\ WarmupS = 0)
    /\ ThinkTimeS \in Nat /\ Dephase \in BOOLEAN
    /\ "ok" \in ServerOutcomes /\ ServerOutcomes \subseteq Outcome \ {"cancelled"}
    /\ ClockSkew \in Nat /\ WarmHorizon \in Nat /\ Lateness \in Nat

VARIABLES now,             \* the injected clock
          phase,           \* where the main coroutine stands
          at,              \* where each virtual user stands
          wake,            \* when a sleeping user's sleep is over
          flight,          \* the record a waiting user's issue() is filling in
          next_index,      \* requests issued so far
          records,         \* records the adapter returned
          sunk,            \* records the adapter handed to the sink
          warmup_started,  \* when the warm-up began
          t0,              \* when the window opens, predicted at launch
          warmup_count     \* next_index when the window was seen to open

vars == <<now, phase, at, wake, flight, next_index, records, sunk,
          warmup_started, t0, warmup_count>>

-----------------------------------------------------------------------------
\* "list" tells apart two copies of one request, the returned and the sunk one.
Record == [id : Nat, issued_ts : Nat, end_ts : Nat, outcome : Outcome,
           in_window : BOOLEAN, list : {"returned", "sunk"}]

NoFlight == [id |-> 0, issued_ts |-> 0]

Filled(u, outcome, list) ==
    [id |-> flight[u].id, issued_ts |-> flight[u].issued_ts, end_ts |-> now,
     outcome |-> outcome, in_window |-> TRUE, list |-> list]

Ids(S) == {r.id : r \in S}

TypeOK ==
    /\ now \in Nat
    /\ phase \in {"resetting", "warmup", "spreading", "measuring", "settling",
                  "reduced", "void"}
    /\ at \in [Users -> {"ready", "sleeping", "waiting", "cancelling", "done", "raised"}]
    /\ wake \in [Users -> Nat]
    /\ flight \in [Users -> [id : Nat, issued_ts : Nat]]
    /\ next_index \in Nat
    /\ records \subseteq Record
    /\ sunk \subseteq Record
    /\ warmup_started \in Nat
    /\ t0 \in Nat
    /\ warmup_count \in Nat

Init ==
    /\ now = 0
    /\ phase = "resetting"
    /\ at = [u \in Users |-> "ready"]
    /\ wake = [u \in Users |-> 0]
    /\ flight = [u \in Users |-> NoFlight]
    /\ next_index = 0
    /\ records = {}
    /\ sunk = {}
    /\ warmup_started = 0
    /\ t0 = 0
    /\ warmup_count = 0

-----------------------------------------------------------------------------
(* The loop of a virtual user *)

\* Mutated: the quota tested against completions, and the time bound ignored.
WarmupDoneByRecords ==
    /\ WarmupRequests = 0 \/ Cardinality(records) >= WarmupRequests
    /\ WarmupS = 0 \/ now - warmup_started >= WarmupS

WarmupDone ==
    /\ WarmupRequests = 0 \/ next_index >= WarmupRequests
    /\ WarmupS = 0 \/ now - warmup_started >= WarmupS

\* Mutated: a user keeps issuing until it is cancelled.
KeepsIssuingUntilCancelled ==
    \/ phase = "warmup" /\ ~WarmupDone
    \/ phase # "warmup"

KeepsIssuing ==
    \/ phase = "warmup" /\ ~WarmupDone
    \/ phase # "warmup" /\ now < Close(t0)

\* take_index() and the head of adapter.issue: no await lies between them.
Issue(u) ==
    /\ now' \in now .. now + ClockSkew
    /\ flight' = [flight EXCEPT ![u] = [id |-> next_index, issued_ts |-> now']]
    /\ next_index' = next_index + 1
    /\ at' = [at EXCEPT ![u] = "waiting"]
    /\ wake' = [wake EXCEPT ![u] = 0]

EndTask(u) ==
    /\ at' = [at EXCEPT ![u] = "done"]
    /\ wake' = [wake EXCEPT ![u] = 0]
    /\ flight' = [flight EXCEPT ![u] = NoFlight]

LeaveLoop(u) == EndTask(u) /\ UNCHANGED <<now, next_index>>

Round(u) == \/ KeepsIssuing /\ Issue(u)
            \/ ~KeepsIssuing /\ LeaveLoop(u)

Think(u) ==
    /\ at' = [at EXCEPT ![u] = "sleeping"]
    /\ wake' = [wake EXCEPT ![u] = now + ThinkTimeS]
    /\ flight' = [flight EXCEPT ![u] = NoFlight]
    /\ UNCHANGED <<now, next_index>>

\* The rest of the loop body after issue() returned.
AfterIssue(u) == \/ ThinkTimeS > 0 /\ Think(u)
                 \/ ThinkTimeS = 0 /\ Round(u)

UserPhase == phase \in {"warmup", "spreading", "measuring"}

\* A warm-up task is scheduled for the first time, or a sleep is over.
Resume(u) ==
    /\ UserPhase
    /\ \/ at[u] = "ready" /\ phase = "warmup"
       \/ at[u] = "sleeping" /\ now >= wake[u]
    /\ Round(u)
    /\ UNCHANGED <<phase, records, sunk, warmup_started, t0, warmup_count>>

\* adapter.issue returns a record with whatever outcome the server earned.  The
\* clock is monotonic and fine: a request takes at least one unit of it.
Answer(u, outcome) ==
    /\ UserPhase
    /\ at[u] = "waiting" /\ now > flight[u].issued_ts
    /\ records' = records \cup {Filled(u, outcome, "returned")}
    /\ AfterIssue(u)
    /\ UNCHANGED <<phase, sunk, warmup_started, t0, warmup_count>>

-----------------------------------------------------------------------------
(* The main coroutine *)

\* `await reset()` comes back; only then does the warm-up start.
Reset ==
    /\ phase = "resetting"
    /\ phase' = "warmup"
    /\ warmup_started' = now
    /\ UNCHANGED <<now, at, wake, flight, next_index, records, sunk, t0, warmup_count>>

E2E(r) == r.end_ts - r.issued_ts
WarmOK == {r \in records : r.outcome = "ok"}

\* statistics.median averages the two middle samples; any whole number between
\* them stands for it.
IsMedianE2E(m) ==
    /\ Cardinality(WarmOK) <= 2 * Cardinality({r \in WarmOK : E2E(r) <= m})
    /\ Cardinality(WarmOK) <= 2 * Cardinality({r \in WarmOK : E2E(r) >= m})

ClampToWindow(c) == IF c > WindowS THEN WindowS ELSE c

\* cycle_est: zero when dephasing is declared off or no warm-up request is OK.
CycleEstimates ==
    IF Dephase /\ WarmOK # {}
    THEN {ClampToWindow(m + ThinkTimeS) : m \in {k \in 0 .. now : IsMedianE2E(k)}}
    ELSE {0}

BarrierPassed == \A u \in Users : at[u] = "done"

\* The warm-up gather returned: t0 is predicted and every user's task created,
\* each waiting for its own offset into the de-phasing interval.
Launch ==
    /\ phase = "warmup"
    /\ BarrierPassed
    /\ \E cycle \in CycleEstimates : \E offsets \in [Users -> 0 .. cycle] :
          /\ t0' = now + cycle
          /\ wake' = [u \in Users |-> now + offsets[u]]
    /\ phase' = "spreading"
    /\ at' = [u \in Users |-> "sleeping"]
    /\ UNCHANGED <<now, flight, next_index, records, sunk, warmup_started, warmup_count>>

\* wait_until(t0) is over; the warm-up counter is read only now.
OpenWindow ==
    /\ phase = "spreading"
    /\ now >= t0
    /\ phase' = "measuring"
    /\ warmup_count' = next_index
    /\ UNCHANGED <<now, at, wake, flight, next_index, records, sunk, warmup_started, t0>>

Idle == \A u \in Users : at[u] \in {"done", "raised"}

\* Mutated: a drain without a deadline.
DrainUnbounded == Idle
DrainOver == now >= Deadline(t0) \/ Idle

\* Every task not done is cancelled.  A sleeping user just ends; a user inside
\* issue() finds CancelledError at its await.
CancelOutstanding ==
    /\ phase = "measuring"
    /\ DrainOver
    /\ phase' = "settling"
    /\ at' = [u \in Users |-> CASE at[u] = "waiting" -> "cancelling"
                                [] at[u] = "raised" -> "raised"
                                [] OTHER -> "done"]
    /\ UNCHANGED <<now, wake, flight, next_index, records, sunk, warmup_started,
                   t0, warmup_count>>

PartialRecord(u) == {Filled(u, "cancelled", "sunk")}

\* CancelledError inside issue(): the partial record goes to the sink first.
\* An adapter that also returns it puts a second copy among the records; its
\* user then finds the window closed.
CancelDelivered(u) ==
    /\ phase = "settling"
    /\ at[u] = "cancelling"
    /\ sunk' = sunk \cup PartialRecord(u)
    /\ \/ UNCHANGED records
       \/ records' = records \cup {Filled(u, "cancelled", "returned")}
    /\ at' = [at EXCEPT ![u] = "done"]
    /\ flight' = [flight EXCEPT ![u] = NoFlight]
    /\ UNCHANGED <<now, phase, wake, next_index, warmup_started, t0, warmup_count>>

\* The adapter breaks its contract: the request leaves no record.  The warm-up
\* gather propagates at once; later the exception waits in the task.
AdapterRaises(u) ==
    /\ \/ at[u] = "waiting" /\ UserPhase
       \/ at[u] = "cancelling" /\ phase = "settling"
    /\ at' = [at EXCEPT ![u] = "raised"]
    /\ flight' = [flight EXCEPT ![u] = NoFlight]
    /\ phase' = IF phase = "warmup" THEN "void" ELSE phase
    /\ UNCHANGED <<now, wake, next_index, records, sunk, warmup_started, t0, warmup_count>>

\* Mutated: the sunk records joined without looking for a returned copy.
JoinedWithCopies == records \cup sunk
Joined == records \cup {r \in sunk : r.id \notin Ids(records)}

\* Mutated: an exception swallowed together with the cancellations.
RaisedSwallowed == FALSE
SomeRaised == \E u \in Users : at[u] = "raised"

Settle ==
    /\ phase = "settling"
    /\ Idle
    /\ \/ SomeRaised /\ phase' = "void" /\ UNCHANGED records
       \/ /\ ~SomeRaised
          /\ phase' = "reduced"
          /\ records' = ApplyBoundaryRules(Joined, t0)
    /\ UNCHANGED <<now, at, wake, flight, next_index, sunk, warmup_started, t0,
                   warmup_count>>

-----------------------------------------------------------------------------
\* The warm-up has no end of its own: past WarmHorizon the clock moves only as
\* far as some user needs it to get on.
NeedsTime(u) == \/ at[u] = "waiting" /\ flight[u].issued_ts >= now
                \/ at[u] = "sleeping" /\ wake[u] > now

ClockBound ==
    \/ phase \in {"resetting", "warmup"} /\ now < WarmHorizon
    \/ phase = "warmup" /\ \E u \in Users : NeedsTime(u)
    \/ phase \notin {"resetting", "warmup"} /\ now < Deadline(t0) + Lateness

Tick ==
    /\ phase \notin {"reduced", "void"}
    /\ ClockBound
    /\ now' = now + 1
    /\ UNCHANGED <<phase, at, wake, flight, next_index, records, sunk,
                   warmup_started, t0, warmup_count>>

Main == Reset \/ Launch \/ OpenWindow \/ CancelOutstanding \/ Settle

Next ==
    \/ Tick
    \/ Main
    \/ \E u \in Users :
          \/ Resume(u)
          \/ \E outcome \in ServerOutcomes : Answer(u, outcome)
          \/ CancelDelivered(u)
          \/ AdapterRaises(u)

\* The event loop runs every coroutine that can run and the clock moves on.
\* The server owes an answer only during the warm-up, where no deadline cancels
\* a request and the adapter's own timeout is what ends it.
Fairness ==
    /\ WF_vars(Tick)
    /\ WF_vars(Main)
    /\ \A u \in Users :
          /\ WF_vars(Resume(u))
          /\ WF_vars(CancelDelivered(u))
          /\ WF_vars(phase = "warmup" /\ \E outcome \in ServerOutcomes : Answer(u, outcome))

Spec == Init /\ [][Next]_vars
FairSpec == Spec /\ Fairness

-----------------------------------------------------------------------------
(* Properties *)

\* No issued request vanishes and none is counted twice: when the window is
\* reduced, whatever was answered, cancelled or raised, the records are exactly
\* one per index ever taken.  This is the denominator run_window protects by
\* the sink, the dedupe by request_id, and the void window.
EveryRequestOnce ==
    phase = "reduced" =>
        /\ Ids(records) = 0 .. next_index - 1
        /\ \A r, s \in records : r.id = s.id => r = s

\* The residual run_window's docstring leaves visible: a request decided just
\* before the close may be stamped after it, at most one per virtual user.
ResidualBounded ==
    phase = "reduced" =>
        Cardinality({r \in records : r.issued_ts > Close(t0)}) <= Cardinality(Users)

\* The two independent readings of the marked records agree: what the driver
\* counts as completed inside or straddling is what reduce_window samples for
\* latency, every other offered request is an error, an abandoned one is among
\* the errors, and a request that warmed up or de-phased the fleet and finished
\* inside the window is a completion of it in both.
CohortsAgree ==
    phase = "reduced" =>
        /\ Cardinality(LatencySamples(records)) =
              Cardinality(CompletedInWindow(records, t0) \cap Offered(records))
              + Cardinality(Straddlers(records, t0))
        /\ Cardinality(Offered(records)) =
              Cardinality(LatencySamples(records)) + Cardinality(ExcludedError(records))
        /\ Abandoned(records, t0) \subseteq ExcludedError(records)
        /\ FinishedHere(records, t0) = CompletedInWindow(records, t0)

\* A warm-up declared by a quota issues exactly that many requests, however
\* many users share it, before the fleet is launched.
WarmupQuotaExact ==
    [][phase = "warmup" /\ phase' = "spreading" /\ WarmupS = 0
          => next_index = WarmupRequests]_vars

\* The peak in flight that reduce_window derives from the records never exceeds
\* the declared concurrency, though a user re-issues in the instant its answer
\* came: the diagnostic cannot make a throttled rung look saturated.
PeakWithinFleet ==
    phase = "reduced" =>
        \A r \in Offered(records) :
            Cardinality(InFlightAt(records, r.issued_ts)) <= Cardinality(Users)

\* The requests in flight, the requests a record accounts for, and the verdict:
\* how a window looks to a reader who only follows its requests.
Busy(u) == at[u] \in {"waiting", "cancelling"}
OpenIds == {flight[u].id : u \in {v \in Users : Busy(v)}}
ClosedIds == Ids(records) \cup Ids(sunk)
Verdict == CASE phase = "reduced" -> "published"
             [] phase = "void" -> "void"
             [] OTHER -> "running"

Ledger == INSTANCE RequestLedger WITH
              Fleet <- Users, issued <- next_index,
              open <- OpenIds, closed <- ClosedIds, verdict <- Verdict

\* run_window implements the request ledger: never more in flight than users, no
\* request opened twice, all of them published or none.
KeepsLedger == Ledger!LedgerSpec

\* The window ends, even when the server never answers a measured request.
WindowEnds == <>(phase \in {"reduced", "void"})
=============================================================================

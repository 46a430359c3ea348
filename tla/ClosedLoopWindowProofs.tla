----------------------- MODULE ClosedLoopWindowProofs -----------------------
(***************************************************************************)
(* Proofs about run_window, for every fleet, warm-up, window, drain and    *)
(* think time, and with a session plan for every plan.                     *)
(*                                                                         *)
(* ClosedLoopWindow and SessionWindow differ in the loop of a virtual user *)
(* only.  What both loops may do in one step is UserMoves; what is shown   *)
(* of WindowStep, a step in which some user moves or the main coroutine,   *)
(* an adapter or the clock does, holds of either module.                   *)
(***************************************************************************)
EXTENDS SessionWindow, FiniteSetTheorems, TLAPS

-----------------------------------------------------------------------------
(* One step of a virtual user, whatever it issues *)

Issues(u) ==
    /\ KeepsIssuing
    /\ flight' = [flight EXCEPT ![u] = [id |-> next_index, issued_ts |-> now']]
    /\ next_index' = next_index + 1
    /\ at' = [at EXCEPT ![u] = "waiting"]

Leaves(u) ==
    /\ phase = "warmup" => ~KeepsIssuing
    /\ at' = [at EXCEPT ![u] = "done"]
    /\ flight' = [flight EXCEPT ![u] = NoFlight]
    /\ next_index' = next_index

Sleeps(u) ==
    /\ Busy(u)
    /\ at' = [at EXCEPT ![u] = "sleeping"]
    /\ flight' = [flight EXCEPT ![u] = NoFlight]
    /\ next_index' = next_index

UserMoves(u) ==
    /\ UserPhase
    /\ \/ at[u] \in {"ready", "sleeping"} /\ records' = records
       \/ /\ at[u] = "waiting" /\ now > flight[u].issued_ts
          /\ \E o \in ServerOutcomes : records' = records \cup {Filled(u, o, "returned")}
    /\ now' \in now .. now + ClockSkew
    /\ wake' \in [Users -> Nat]
    /\ Issues(u) \/ Leaves(u) \/ Sleeps(u)
    /\ UNCHANGED <<phase, sunk, warmup_started, t0, warmup_count>>

WindowStep ==
    \/ Tick \/ Main
    \/ \E u \in Users : UserMoves(u) \/ CancelDelivered(u) \/ AdapterRaises(u)
    \/ UNCHANGED vars

\* The loop of a user with a request source moves like that.
LEMMA RequestLoopMoves ==
    ASSUME TypeOK, NEW u \in Users,
           Resume(u) \/ \E o \in ServerOutcomes : Answer(u, o)
    PROVE  UserMoves(u)
  <1>1. now \in now .. now + ClockSkew
    BY PolicyAssumption DEF TypeOK
  <1>2. ASSUME Round(u)
        PROVE  /\ now' \in now .. now + ClockSkew
               /\ wake' \in [Users -> Nat]
               /\ Issues(u) \/ Leaves(u)
    <2>1. CASE KeepsIssuing /\ Issue(u)
      BY <2>1 DEF Issue, Issues, TypeOK
    <2>2. CASE ~KeepsIssuing /\ LeaveLoop(u)
      BY <1>1, <2>2 DEF LeaveLoop, EndTask, Leaves, TypeOK
    <2> QED
      BY <1>2, <2>1, <2>2 DEF Round
  <1>3. CASE Resume(u)
    BY <1>2, <1>3 DEF Resume, UserMoves
  <1>4. ASSUME NEW o \in ServerOutcomes, Answer(u, o)
        PROVE  UserMoves(u)
    <2>1. CASE Think(u)
      <3>1. wake' \in [Users -> Nat]
        BY <2>1, PolicyAssumption DEF Think, TypeOK
      <3>2. Sleeps(u)
        BY <1>4, <2>1 DEF Think, Sleeps, Answer, Busy
      <3> QED
        BY <1>1, <1>4, <2>1, <3>1, <3>2 DEF Think, Answer, UserMoves
    <2>2. CASE Round(u)
      BY <1>2, <1>4, <2>2 DEF Answer, UserMoves
    <2> QED
      BY <1>4, <2>1, <2>2 DEF Answer, AfterIssue
  <1> QED
    BY <1>3, <1>4

\* So a step of the window is a window step.
LEMMA NextIsWindowStep ==
    ASSUME TypeOK, [Next]_vars
    PROVE  WindowStep
  BY RequestLoopMoves DEF Next, WindowStep

\* A user that moves changes only its own row, and the index moves exactly when it
\* issues.
LEMMA MoveShape ==
    ASSUME TypeOK, NEW u \in Users, UserMoves(u)
    PROVE  /\ now' \in Nat /\ now <= now'
           /\ at' \in [Users -> {"ready", "sleeping", "waiting", "cancelling", "done", "raised"}]
           /\ wake' \in [Users -> Nat]
           /\ flight' \in [Users -> [id : Nat, issued_ts : Nat]]
           /\ next_index' \in Nat
           /\ \A v \in Users \ {u} : at'[v] = at[v] /\ flight'[v] = flight[v]
           /\ \/ /\ at'[u] = "waiting"
                 /\ flight'[u] = [id |-> next_index, issued_ts |-> now']
                 /\ next_index' = next_index + 1
                 /\ KeepsIssuing
              \/ at'[u] \in {"done", "sleeping"} /\ next_index' = next_index
  <1>1. now' \in Nat /\ now <= now'
    BY PolicyAssumption DEF UserMoves, TypeOK
  <1>2. CASE Issues(u)
    BY <1>1, <1>2 DEF Issues, UserMoves, TypeOK
  <1>3. CASE Leaves(u)
    BY <1>1, <1>3 DEF Leaves, UserMoves, TypeOK, NoFlight
  <1>4. CASE Sleeps(u)
    BY <1>1, <1>4 DEF Sleeps, UserMoves, TypeOK, NoFlight
  <1> QED
    BY <1>2, <1>3, <1>4 DEF UserMoves

\* A record takes the identity of the flight it fills in.
LEMMA FilledType ==
    ASSUME TypeOK, NEW u \in Users, NEW o \in Outcome, NEW l \in {"returned", "sunk"}
    PROVE  Filled(u, o, l) \in Record /\ Filled(u, o, l).id = flight[u].id
  BY DEF TypeOK, Filled, Record

\* Ruling a record keeps its type, its identity and its stamps.
LEMMA RuledType ==
    ASSUME NEW r \in Record, NEW t \in Nat
    PROVE  /\ Ruled(r, t) \in Record /\ Ruled(r, t).id = r.id
           /\ Ruled(r, t).issued_ts = r.issued_ts /\ Ruled(r, t).end_ts = r.end_ts
  BY EdgesAssumption DEF Ruled, RuledOutcome, Record, Offers, Outcome

-----------------------------------------------------------------------------
\* Every window step keeps the types.
LEMMA TypeStep ==
    ASSUME TypeOK, WindowStep
    PROVE  TypeOK'
  <1>1. CASE Tick
    BY <1>1 DEF Tick, TypeOK
  <1>2. CASE Reset
    BY <1>2 DEF Reset, TypeOK
  <1>3. CASE Launch
    <2>1. PICK cycle \in CycleEstimates : \E offsets \in [Users -> 0 .. cycle] :
             /\ t0' = now + cycle
             /\ wake' = [u \in Users |-> now + offsets[u]]
      BY <1>3 DEF Launch
    <2>2. cycle \in Nat
      BY EdgesAssumption, PolicyAssumption DEF CycleEstimates, ClampToWindow, TypeOK
    <2>3. t0' \in Nat /\ wake' \in [Users -> Nat]
      BY <2>1, <2>2 DEF TypeOK
    <2> QED
      BY <1>3, <2>3 DEF Launch, TypeOK
  <1>4. CASE OpenWindow
    BY <1>4 DEF OpenWindow, TypeOK
  <1>5. CASE CancelOutstanding
    BY <1>5 DEF CancelOutstanding, TypeOK
  <1>6. CASE Settle
    <2>1. Joined \subseteq Record
      BY DEF Joined, TypeOK
    <2>2. ApplyBoundaryRules(Joined, t0) \subseteq Record
      BY <2>1, RuledType DEF ApplyBoundaryRules, TypeOK
    <2> QED
      BY <1>6, <2>2 DEF Settle, TypeOK
  <1>7. ASSUME NEW u \in Users, UserMoves(u)
        PROVE  TypeOK'
    <2>1. records' \subseteq Record
      BY <1>7, FilledType, PolicyAssumption DEF UserMoves, TypeOK
    <2> QED
      BY <1>7, <2>1, MoveShape DEF UserMoves, TypeOK
  <1>9. ASSUME NEW u \in Users, CancelDelivered(u)
        PROVE  TypeOK'
    <2>1. Filled(u, "cancelled", "sunk") \in Record /\ Filled(u, "cancelled", "returned") \in Record
      BY FilledType DEF Outcome
    <2> QED
      BY <1>9, <2>1 DEF CancelDelivered, PartialRecord, TypeOK, NoFlight
  <1>10. ASSUME NEW u \in Users, AdapterRaises(u)
         PROVE  TypeOK'
    BY <1>10 DEF AdapterRaises, TypeOK, NoFlight
  <1>11. CASE UNCHANGED vars
    BY <1>11 DEF vars, TypeOK
  <1> QED
    BY <1>1, <1>2, <1>3, <1>4, <1>5, <1>6, <1>7, <1>9, <1>10, <1>11 DEF WindowStep, Main

\* Every variable keeps its type through every step of run_window.
THEOREM TypeCorrect == Spec => []TypeOK
  <1>1. Init => TypeOK
    BY DEF Init, TypeOK, NoFlight
  <1>2. TypeOK /\ [Next]_vars => TypeOK'
    BY NextIsWindowStep, TypeStep
  <1> QED
    BY <1>1, <1>2, PTL DEF Spec

-----------------------------------------------------------------------------
(***************************************************************************)
(* The accounting of requests.  EveryRequestOnce speaks of the last state  *)
(* only; it holds there because at every earlier moment each index below   *)
(* next_index is either in flight at exactly one user, or accounted for by *)
(* a record and in flight nowhere, unless some user's adapter raised.      *)
(***************************************************************************)
OneCopy(S) == \A r, s \in S : r.id = s.id => r = s

FlightsApart ==
    \A u \in Users : Busy(u) =>
        /\ flight[u].id < next_index
        /\ flight[u].id \notin ClosedIds
        /\ \A v \in Users : Busy(v) /\ flight[v].id = flight[u].id => v = u

ListsSound ==
    /\ \A i \in ClosedIds : i < next_index
    /\ OneCopy(records)
    /\ OneCopy(sunk)

NoneMissing ==
    (phase # "void" /\ ~SomeRaised) => 0 .. next_index - 1 \subseteq OpenIds \cup ClosedIds

\* Which stations of a user go with which phase of the main coroutine.
Stations ==
    /\ phase = "resetting" => \A u \in Users : at[u] = "ready"
    /\ phase = "warmup" => ~SomeRaised
    /\ UserPhase => \A u \in Users : at[u] # "cancelling"
    /\ phase = "settling" => \A u \in Users : at[u] \in {"cancelling", "done", "raised"}
    /\ phase = "reduced" => \A u \in Users : at[u] = "done"

Accounting == /\ TypeOK
              /\ FlightsApart
              /\ ListsSound
              /\ NoneMissing
              /\ Stations
              /\ EveryRequestOnce

-----------------------------------------------------------------------------
\* A step in which user u may close its own flight with one new record r and
\* may open the next one keeps the books.
LEMMA ExchangeKeepsBooks ==
    ASSUME Accounting, UserPhase, NEW u \in Users, at[u] # "raised",
           UNCHANGED <<phase, sunk>>,
           next_index' \in Nat, at'[u] # "raised", at'[u] # "cancelling", at'[u] # "ready",
           \A v \in Users \ {u} : at'[v] = at[v] /\ flight'[v] = flight[v],
           \/ /\ at'[u] = "waiting"
              /\ flight'[u].id = next_index
              /\ next_index' = next_index + 1
           \/ at'[u] \in {"done", "sleeping"} /\ next_index' = next_index,
           \/ ~Busy(u) /\ records' = records
           \/ Busy(u) /\ \E r : r.id = flight[u].id /\ records' = records \cup {r}
    PROVE  FlightsApart' /\ ListsSound' /\ NoneMissing' /\ Stations' /\ EveryRequestOnce'
  <1> USE DEF Accounting
  <1>1. ClosedIds' = ClosedIds \cup (IF Busy(u) THEN {flight[u].id} ELSE {})
    BY DEF ClosedIds, Ids
  <1>2. \A i \in ClosedIds' : i < next_index
    BY <1>1 DEF ListsSound, FlightsApart
  <1>3. next_index <= next_index' /\ next_index \in Nat
    BY DEF TypeOK
  <1>4. \A v \in Users \ {u} : Busy(v)' = Busy(v)
    BY DEF Busy
  <1>5. Busy(u)' => flight'[u].id = next_index /\ next_index' = next_index + 1
    BY DEF Busy
  <1>6. \A v \in Users : (Busy(v) => flight[v].id \in Nat) /\ \A i \in ClosedIds : i \in Nat
    BY DEF TypeOK, ClosedIds, Ids, Record
  <1>7. FlightsApart'
    <2> SUFFICES ASSUME NEW v \in Users, Busy(v)'
                 PROVE  /\ flight'[v].id < next_index'
                        /\ flight'[v].id \notin ClosedIds'
                        /\ \A w \in Users : Busy(w)' /\ flight'[w].id = flight'[v].id => w = v
      BY DEF FlightsApart
    <2>1. CASE v = u
      BY <2>1, <1>2, <1>3, <1>4, <1>5, <1>6 DEF FlightsApart
    <2>2. CASE v # u
      BY <2>2, <1>1, <1>3, <1>4, <1>5, <1>6 DEF FlightsApart
    <2> QED
      BY <2>1, <2>2
  <1>8. ListsSound'
    <2>1. OneCopy(records')
      BY DEF OneCopy, ListsSound, FlightsApart, ClosedIds, Ids
    <2> QED
      BY <2>1, <1>2, <1>3, <1>6, <1>1 DEF ListsSound, OneCopy, FlightsApart
  <1>9. NoneMissing'
    <2> SUFFICES ASSUME phase # "void", ~SomeRaised', NEW i \in 0 .. next_index' - 1
                 PROVE  i \in OpenIds' \cup ClosedIds'
      BY DEF NoneMissing
    <2>1. ~SomeRaised
      BY DEF SomeRaised
    <2>2. CASE i = next_index
      <3>1. next_index' # next_index
        <4>1. \A m, n \in Nat : m \in 0 .. n - 1 => n # m
          OBVIOUS
        <4> QED
          BY <4>1, <2>2, <1>3
      <3>2. at'[u] = "waiting"
        BY <3>1
      <3> QED
        BY <3>2, <2>2 DEF OpenIds, Busy
    <2>3. CASE i # next_index
      <3>1. i \in 0 .. next_index - 1
        BY <2>3, <1>3
      <3>2. i \in OpenIds \cup ClosedIds
        BY <3>1, <2>1 DEF NoneMissing
      <3>3. CASE i \in ClosedIds
        BY <3>3, <1>1
      <3>4. ASSUME NEW v \in Users, Busy(v), i = flight[v].id
            PROVE  i \in OpenIds' \cup ClosedIds'
        BY <3>4, <1>1, <1>4 DEF OpenIds
      <3> QED
        BY <3>2, <3>3, <3>4 DEF OpenIds
    <2> QED
      BY <2>2, <2>3
  <1>10. Stations'
    BY DEF Stations, SomeRaised, UserPhase
  <1>11. EveryRequestOnce'
    BY DEF EveryRequestOnce, UserPhase
  <1> QED
    BY <1>7, <1>8, <1>9, <1>10, <1>11

\* Once every task is settled and none raised, the records account for every
\* index.
LEMMA SettledBooks ==
    ASSUME Accounting, phase = "settling", Idle, ~SomeRaised
    PROVE  OpenIds = {} /\ ClosedIds = 0 .. next_index - 1
  <1> USE DEF Accounting
  <1>1. OpenIds = {}
    BY DEF OpenIds, Idle, Busy
  <1>2. 0 .. next_index - 1 \subseteq ClosedIds
    BY <1>1 DEF NoneMissing
  <1>3. \A i \in ClosedIds : i \in Nat /\ i < next_index
    BY DEF ListsSound, ClosedIds, Ids, TypeOK, Record
  <1>4. ClosedIds \subseteq 0 .. next_index - 1
    BY <1>3 DEF TypeOK
  <1> QED
    BY <1>1, <1>2, <1>4

\* Joining the sunk records and ruling the join neither drops nor doubles one.
LEMMA JoinedBooks ==
    ASSUME Accounting
    PROVE  /\ OneCopy(ApplyBoundaryRules(Joined, t0))
           /\ Ids(ApplyBoundaryRules(Joined, t0)) = ClosedIds
  <1> USE DEF Accounting
  <1>1. Joined \subseteq Record /\ OneCopy(Joined)
    BY DEF Joined, OneCopy, ListsSound, Ids, TypeOK
  <1>2. \A r \in Joined : Ruled(r, t0).id = r.id
    BY <1>1, RuledType DEF TypeOK
  <1>3. OneCopy(ApplyBoundaryRules(Joined, t0))
    BY <1>1, <1>2 DEF OneCopy, ApplyBoundaryRules
  <1>4. Ids(ApplyBoundaryRules(Joined, t0)) = Ids(Joined)
    BY <1>2 DEF Ids, ApplyBoundaryRules
  <1>5. Ids(Joined) = ClosedIds
    BY DEF Joined, Ids, ClosedIds
  <1> QED
    BY <1>3, <1>4, <1>5

\* Every window step keeps the accounting.
LEMMA AccountingStep ==
    ASSUME TypeOK', Accounting, WindowStep
    PROVE  Accounting'
  <1> SUFFICES FlightsApart' /\ ListsSound' /\ NoneMissing' /\ Stations'
               /\ EveryRequestOnce'
    BY DEF Accounting
  <1> USE DEF Accounting
  <1>1. ASSUME UNCHANGED <<at, flight, next_index, records, sunk>>,
               \/ phase' = phase /\ UNCHANGED t0
               \/ phase = "resetting" /\ phase' = "warmup"
               \/ phase = "spreading" /\ phase' = "measuring"
        PROVE  FlightsApart' /\ ListsSound' /\ NoneMissing' /\ Stations'
               /\ EveryRequestOnce'
    BY <1>1 DEF FlightsApart, ListsSound, NoneMissing, Stations, EveryRequestOnce,
                UserPhase, Busy, OpenIds, ClosedIds, SomeRaised
  <1>2. CASE Tick
    BY <1>2, <1>1 DEF Tick
  <1>3. CASE Reset
    BY <1>3, <1>1 DEF Reset
  <1>4. CASE OpenWindow
    BY <1>4, <1>1 DEF OpenWindow
  <1>5. CASE UNCHANGED vars
    BY <1>5, <1>1 DEF vars
  <1>6. CASE Launch
    <2>1. /\ phase = "warmup" /\ phase' = "spreading"
          /\ \A u \in Users : at[u] = "done" /\ at'[u] = "sleeping"
          /\ UNCHANGED <<flight, next_index, records, sunk>>
      BY <1>6 DEF Launch, BarrierPassed
    <2>2. OpenIds = {} /\ OpenIds' = {} /\ ClosedIds' = ClosedIds
      BY <2>1 DEF OpenIds, Busy, ClosedIds
    <2>3. ~SomeRaised /\ ~SomeRaised'
      BY <2>1 DEF SomeRaised
    <2> QED
      BY <2>1, <2>2, <2>3 DEF FlightsApart, ListsSound, NoneMissing, Stations,
                              EveryRequestOnce, UserPhase, Busy
  <1>7. CASE CancelOutstanding
    <2>1. /\ phase = "measuring" /\ phase' = "settling"
          /\ UNCHANGED <<flight, next_index, records, sunk>>
      BY <1>7 DEF CancelOutstanding
    <2>2. \A u \in Users : /\ Busy(u)' <=> Busy(u)
                           /\ at'[u] = "raised" <=> at[u] = "raised"
                           /\ at'[u] \in {"cancelling", "done", "raised"}
      BY <1>7, <2>1 DEF CancelOutstanding, Busy, Stations, UserPhase, TypeOK
    <2>3. OpenIds' = OpenIds /\ ClosedIds' = ClosedIds /\ SomeRaised' = SomeRaised
      BY <2>1, <2>2 DEF OpenIds, ClosedIds, SomeRaised
    <2> QED
      BY <2>1, <2>2, <2>3 DEF FlightsApart, ListsSound, NoneMissing, Stations,
                              EveryRequestOnce, UserPhase
  <1>8. ASSUME NEW u \in Users, UserMoves(u)
        PROVE  FlightsApart' /\ ListsSound' /\ NoneMissing' /\ Stations'
               /\ EveryRequestOnce'
    <2>1. UserPhase /\ at[u] # "raised" /\ UNCHANGED <<phase, sunk>>
          /\ \/ ~Busy(u) /\ records' = records
             \/ Busy(u) /\ \E r : r.id = flight[u].id /\ records' = records \cup {r}
      <3>1. \A o : Filled(u, o, "returned").id = flight[u].id
        BY DEF Filled
      <3> QED
        BY <1>8, <3>1 DEF UserMoves, Busy
    <2> QED
      BY <1>8, <2>1, MoveShape, ExchangeKeepsBooks
  <1>10. ASSUME NEW u \in Users, CancelDelivered(u)
         PROVE  FlightsApart' /\ ListsSound' /\ NoneMissing' /\ Stations'
                /\ EveryRequestOnce'
    <2>1. /\ phase = "settling" /\ phase' = "settling" /\ Busy(u)
          /\ next_index' = next_index
          /\ at'[u] = "done" /\ ~Busy(u)'
          /\ \A v \in Users \ {u} : at'[v] = at[v] /\ flight'[v] = flight[v] /\ Busy(v)' = Busy(v)
      BY <1>10 DEF CancelDelivered, Busy, TypeOK
    <2>2. \E r : /\ r.id = flight[u].id /\ sunk' = sunk \cup {r}
      BY <1>10 DEF CancelDelivered, PartialRecord, Filled
    <2>3. \/ records' = records
          \/ \E r : r.id = flight[u].id /\ records' = records \cup {r}
      BY <1>10 DEF CancelDelivered, Filled
    <2>4. ClosedIds' = ClosedIds \cup {flight[u].id}
      BY <2>2, <2>3 DEF ClosedIds, Ids
    <2>5. FlightsApart'
      BY <2>1, <2>4 DEF FlightsApart
    <2>6. ListsSound'
      BY <2>1, <2>2, <2>3, <2>4 DEF ListsSound, OneCopy, FlightsApart, ClosedIds, Ids
    <2>7. NoneMissing'
      <3>1. OpenIds \subseteq OpenIds' \cup {flight[u].id}
        BY <2>1 DEF OpenIds
      <3>2. SomeRaised => SomeRaised'
        BY <2>1 DEF SomeRaised, Busy
      <3> QED
        BY <2>1, <2>4, <3>1, <3>2 DEF NoneMissing
    <2> QED
      BY <2>1, <2>5, <2>6, <2>7 DEF Stations, UserPhase, EveryRequestOnce
  <1>11. ASSUME NEW u \in Users, AdapterRaises(u)
         PROVE  FlightsApart' /\ ListsSound' /\ NoneMissing' /\ Stations'
                /\ EveryRequestOnce'
    <2>1. /\ UNCHANGED <<next_index, records, sunk>>
          /\ at'[u] = "raised" /\ ~Busy(u)'
          /\ \A v \in Users \ {u} : at'[v] = at[v] /\ flight'[v] = flight[v] /\ Busy(v)' = Busy(v)
          /\ \/ phase' = "void"
             \/ phase' = phase /\ phase \in {"spreading", "measuring", "settling"}
      BY <1>11 DEF AdapterRaises, Busy, UserPhase, TypeOK
    <2>2. SomeRaised' /\ ClosedIds' = ClosedIds
      BY <2>1 DEF SomeRaised, ClosedIds
    <2> QED
      BY <2>1, <2>2 DEF FlightsApart, ListsSound, NoneMissing, Stations,
                        EveryRequestOnce, UserPhase
  <1>12. CASE Settle
    <2>1. phase = "settling" /\ UNCHANGED <<at, flight, next_index, sunk>>
          /\ \A u \in Users : ~Busy(u) /\ ~Busy(u)'
      BY <1>12 DEF Settle, Idle, Busy
    <2>2. CASE SomeRaised /\ phase' = "void" /\ UNCHANGED records
      BY <2>1, <2>2 DEF FlightsApart, ListsSound, NoneMissing, Stations,
                        EveryRequestOnce, UserPhase, ClosedIds
    <2>3. CASE ~SomeRaised /\ phase' = "reduced"
               /\ records' = ApplyBoundaryRules(Joined, t0)
      <3>1. \A u \in Users : at'[u] = "done"
        BY <1>12, <2>1, <2>3 DEF Settle, Idle, SomeRaised, TypeOK
      <3>2. OneCopy(records') /\ Ids(records') = ClosedIds
        BY <2>3, JoinedBooks
      <3>3. ClosedIds' = ClosedIds
        BY <2>1, <3>2 DEF ClosedIds, Ids
      <3>4. 0 .. next_index - 1 = ClosedIds
        BY <1>12, <2>1, <2>3, SettledBooks DEF Settle
      <3>5. EveryRequestOnce'
        BY <2>1, <3>2, <3>4 DEF EveryRequestOnce, OneCopy
      <3>6. FlightsApart' /\ NoneMissing' /\ Stations'
        BY <2>1, <2>3, <3>1, <3>3, <3>4 DEF FlightsApart, NoneMissing, Stations, UserPhase
      <3>7. ListsSound'
        BY <2>1, <3>2, <3>3 DEF ListsSound, OneCopy
      <3> QED
        BY <3>5, <3>6, <3>7
    <2> QED
      BY <1>12, <2>2, <2>3 DEF Settle
  <1> QED
    BY <1>2, <1>3, <1>4, <1>5, <1>6, <1>7, <1>8, <1>10, <1>11, <1>12 DEF WindowStep, Main

\* Nothing is accounted for yet when run_window starts.
LEMMA AccountingInit == Init => Accounting
  <1> SUFFICES ASSUME Init PROVE Accounting
    OBVIOUS
  <1>1. TypeOK
    BY DEF Init, TypeOK, NoFlight
  <1>2. ~SomeRaised /\ \A u \in Users : ~Busy(u)
    BY DEF Init, SomeRaised, Busy
  <1> QED
    BY <1>1, <1>2 DEF Init, Accounting, FlightsApart, ListsSound, NoneMissing,
                      Stations, UserPhase, EveryRequestOnce, ClosedIds, Ids, OneCopy

\* The accounting holds through every step of run_window.
THEOREM AccountingInvariant == Spec => []Accounting
  <1>1. TypeOK' /\ Accounting /\ [Next]_vars => Accounting'
    BY NextIsWindowStep, AccountingStep DEF Accounting
  <1> QED
    BY <1>1, AccountingInit, TypeCorrect, PTL DEF Spec

\* A reduced window publishes exactly one record per request ever issued.
THEOREM NoRequestLost == Spec => []EveryRequestOnce
  <1>1. Accounting => EveryRequestOnce
    BY DEF Accounting
  <1> QED
    BY <1>1, AccountingInvariant, PTL

-----------------------------------------------------------------------------
(* run_window implements the request ledger *)

\* A step in which a user closes its flight, opens its next one, or both, is an
\* exchange of the ledger.
LEMMA ExchangeMaps ==
    ASSUME Accounting, Verdict = "running", Verdict' = "running", NEW u \in Users,
           Busy(u)' => flight'[u].id = next_index /\ next_index' = next_index + 1,
           ~Busy(u)' => next_index' = next_index,
           \A v \in Users \ {u} : Busy(v)' = Busy(v) /\ flight'[v] = flight[v],
           ClosedIds' = ClosedIds \cup (IF Busy(u) THEN {flight[u].id} ELSE {})
    PROVE  Ledger!Exchange
  <1> DEFINE ended == IF Busy(u) THEN {flight[u].id} ELSE {}
             new == IF Busy(u)' THEN {next_index} ELSE {}
             holder == [i \in OpenIds' |-> CHOOSE v \in Users : Busy(v)' /\ flight'[v].id = i]
  <1>1. OpenIds' = (OpenIds \ ended) \cup new
    BY DEF OpenIds, Accounting, FlightsApart
  <1>2. ended \in {{}} \cup {{i} : i \in OpenIds} /\ new \in {{}, {next_index}}
    BY DEF OpenIds
  <1>3. ClosedIds' = ClosedIds \cup ended
    OBVIOUS
  <1>4. next_index' = IF new = {} THEN next_index ELSE next_index + 1
    OBVIOUS
  <1>5. \A i \in OpenIds' : holder[i] \in Users /\ flight'[holder[i]].id = i
    BY DEF OpenIds
  <1>6. Ledger!HeldApart(OpenIds')
    <2>1. holder \in [OpenIds' -> Users]
      BY <1>5
    <2>2. \A i, j \in OpenIds' : holder[i] = holder[j] => i = j
      BY <1>5
    <2> HIDE DEF holder
    <2> QED
      BY <2>1, <2>2 DEF Ledger!HeldApart
  <1> HIDE DEF ended, new
  <1>7. \E e \in {{}} \cup {{i} : i \in OpenIds}, n \in {{}, {next_index}} :
          /\ OpenIds' = (OpenIds \ e) \cup n
          /\ ClosedIds' = ClosedIds \cup e
          /\ next_index' = IF n = {} THEN next_index ELSE next_index + 1
    BY <1>1, <1>2, <1>3, <1>4
  <1> QED
    BY <1>6, <1>7 DEF Ledger!Exchange

\* Seen through its requests alone, a window step is a step of the ledger.
LEMMA LedgerStep ==
    ASSUME Accounting, TypeOK', WindowStep
    PROVE  Ledger!LedgerNext \/ UNCHANGED Ledger!ledger
  <1> USE DEF Accounting
  <1>1. ASSUME UNCHANGED <<next_index, OpenIds, ClosedIds, Verdict>>
        PROVE  UNCHANGED Ledger!ledger
    BY <1>1 DEF Ledger!ledger
  <1>2. CASE UNCHANGED vars
    BY <1>2, <1>1 DEF vars, OpenIds, Busy, ClosedIds, Verdict
  <1>3. CASE Tick
    BY <1>3, <1>1 DEF Tick, OpenIds, Busy, ClosedIds, Verdict
  <1>4. CASE Reset
    BY <1>4, <1>1 DEF Reset, OpenIds, Busy, ClosedIds, Verdict
  <1>5. CASE OpenWindow
    BY <1>5, <1>1 DEF OpenWindow, OpenIds, Busy, ClosedIds, Verdict
  <1>6. CASE Launch
    BY <1>6, <1>1 DEF Launch, BarrierPassed, OpenIds, Busy, ClosedIds, Verdict
  <1>7. CASE CancelOutstanding
    <2>1. \A u \in Users : Busy(u)' <=> Busy(u)
      BY <1>7 DEF CancelOutstanding, Busy, Stations, UserPhase
    <2> QED
      BY <1>7, <1>1, <2>1 DEF CancelOutstanding, OpenIds, ClosedIds, Verdict
  <1>8. ASSUME NEW u \in Users, UserMoves(u)
        PROVE  Ledger!LedgerNext
    <2>1. UNCHANGED <<phase, sunk>> /\ phase \in {"warmup", "spreading", "measuring"}
          /\ \/ ~Busy(u) /\ records' = records
             \/ Busy(u) /\ \E r : r.id = flight[u].id /\ records' = records \cup {r}
      <3>1. \A o : Filled(u, o, "returned").id = flight[u].id
        BY DEF Filled
      <3> QED
        BY <1>8, <3>1 DEF UserMoves, UserPhase, Busy
    <2>2. ClosedIds' = ClosedIds \cup (IF Busy(u) THEN {flight[u].id} ELSE {})
      BY <2>1 DEF ClosedIds, Ids
    <2>3. Verdict = "running" /\ Verdict' = "running"
      BY <2>1 DEF Verdict
    <2>4. Ledger!Exchange
      BY <1>8, <2>2, <2>3, MoveShape, ExchangeMaps DEF Busy
    <2> QED
      BY <2>4 DEF Ledger!LedgerNext
  <1>10. ASSUME NEW u \in Users, CancelDelivered(u)
         PROVE  Ledger!LedgerNext
    <2>1. /\ Busy(u) /\ ~Busy(u)' /\ next_index' = next_index
          /\ \A v \in Users \ {u} : flight'[v] = flight[v] /\ Busy(v)' = Busy(v)
      BY <1>10 DEF CancelDelivered, Busy, TypeOK
    <2>2. ClosedIds' = ClosedIds \cup {flight[u].id}
      <3>1. \E r : r.id = flight[u].id /\ sunk' = sunk \cup {r}
        BY <1>10 DEF CancelDelivered, PartialRecord, Filled
      <3>2. \/ records' = records
            \/ \E r : r.id = flight[u].id /\ records' = records \cup {r}
        BY <1>10 DEF CancelDelivered, Filled
      <3> QED
        BY <3>1, <3>2 DEF ClosedIds, Ids
    <2>3. Verdict = "running" /\ Verdict' = "running"
      BY <1>10 DEF CancelDelivered, Verdict
    <2>4. Ledger!Exchange
      BY <2>1, <2>2, <2>3, ExchangeMaps
    <2> QED
      BY <2>4 DEF Ledger!LedgerNext
  <1>11. ASSUME NEW u \in Users, AdapterRaises(u)
         PROVE  Ledger!LedgerNext
    <2>1. /\ Busy(u) /\ ~Busy(u)'
          /\ \A v \in Users \ {u} : flight'[v] = flight[v] /\ Busy(v)' = Busy(v)
      BY <1>11 DEF AdapterRaises, Busy, TypeOK
    <2>2. OpenIds' = OpenIds \ {flight[u].id} /\ flight[u].id \in OpenIds
      BY <2>1 DEF OpenIds, FlightsApart
    <2>3. UNCHANGED <<next_index, ClosedIds>>
      BY <1>11 DEF AdapterRaises, ClosedIds
    <2>4. Verdict = "running" /\ Verdict' \in {"running", "void"}
      BY <1>11 DEF AdapterRaises, UserPhase, Verdict
    <2>5. Ledger!Lose
      BY <2>2, <2>3, <2>4 DEF Ledger!Lose
    <2> QED
      BY <2>5 DEF Ledger!LedgerNext
  <1>12. CASE Settle
    <2>1. OpenIds' = OpenIds /\ next_index' = next_index /\ Verdict = "running"
      BY <1>12 DEF Settle, OpenIds, Busy, Verdict
    <2>2. CASE SomeRaised /\ phase' = "void" /\ UNCHANGED records
      <3>1. Ledger!Void
        BY <1>12, <2>1, <2>2 DEF Settle, Ledger!Void, Verdict, ClosedIds
      <3> QED
        BY <3>1 DEF Ledger!LedgerNext
    <2>3. CASE ~SomeRaised /\ phase' = "reduced"
               /\ records' = ApplyBoundaryRules(Joined, t0)
      <3>1. ClosedIds' = ClosedIds
        BY <1>12, <2>3, JoinedBooks DEF Settle, ClosedIds, Ids
      <3>2. OpenIds = {} /\ ClosedIds = 0 .. next_index - 1
        BY <1>12, <2>3, SettledBooks DEF Settle
      <3>3. Ledger!Publish
        BY <2>1, <2>3, <3>1, <3>2 DEF Ledger!Publish, Verdict
      <3> QED
        BY <3>3 DEF Ledger!LedgerNext
    <2> QED
      BY <1>12, <2>2, <2>3 DEF Settle
  <1> QED
    BY <1>2, <1>3, <1>4, <1>5, <1>6, <1>7, <1>8, <1>10, <1>11, <1>12 DEF WindowStep, Main

\* So is the initial state.
LEMMA LedgerStart == Init => Ledger!LedgerInit
  BY DEF Init, Ledger!LedgerInit, OpenIds, Busy, ClosedIds, Ids, Verdict

\* The window implements the request ledger: never more in flight than users, none
\* opened twice, all published or none.
THEOREM WindowKeepsLedger == Spec => KeepsLedger
  <1>1. TypeOK /\ Accounting /\ TypeOK' /\ [Next]_vars => [Ledger!LedgerNext]_(Ledger!ledger)
    BY NextIsWindowStep, LedgerStep
  <1> QED
    BY <1>1, LedgerStart, AccountingInvariant, TypeCorrect, PTL
       DEF Spec, KeepsLedger, Ledger!LedgerSpec

-----------------------------------------------------------------------------
(***************************************************************************)
(* The stamps of the requests.  What is counted at the end rests on three  *)
(* facts that hold all along: no stamp lies ahead of the clock, a request  *)
(* ends no earlier than it is issued, and at most one request is ever      *)
(* issued past the close, since a user decides to issue before it and the  *)
(* clock that overtakes the close in between stops every other user.       *)
(***************************************************************************)
Closed == records \cup sunk

StampsBehind ==
    /\ \A r \in Closed : r.issued_ts <= r.end_ts /\ r.end_ts <= now
    /\ \A u \in Users : Busy(u) => flight[u].issued_ts <= now

Launched == phase \notin {"resetting", "warmup", "void"}

Late == {r.id : r \in {q \in Closed : q.issued_ts > Close(t0)}}
        \cup {flight[u].id : u \in {v \in Users : Busy(v) /\ flight[v].issued_ts > Close(t0)}}

OneLate == Launched => \A i, j \in Late : i = j

RuledSound ==
    phase = "reduced" =>
        \A r \in records :
            /\ r.in_window <=> Offers(r, t0)
            /\ r.in_window /\ r.outcome = "ok" => r.end_ts <= Deadline(t0)

ListsFinite == IsFiniteSet(records) /\ IsFiniteSet(sunk)

Stamped == /\ TypeOK /\ StampsBehind /\ OneLate /\ RuledSound /\ ListsFinite
           /\ phase = "resetting" => \A u \in Users : at[u] = "ready"
           /\ phase = "resetting" => records = {} /\ sunk = {}

\* A record filled in now carries the stamp of its flight and ends now.
LEMMA FilledStamps ==
    ASSUME NEW u \in Users, NEW o, NEW l
    PROVE  /\ Filled(u, o, l).id = flight[u].id
           /\ Filled(u, o, l).issued_ts = flight[u].issued_ts
           /\ Filled(u, o, l).end_ts = now
  BY DEF Filled

\* The joined and ruled records are finite when the two lists are, carry the stamps
\* they had, and are marked by the rules of the window.
LEMMA RulingStamps ==
    ASSUME TypeOK, ListsFinite
    PROVE  LET ruled == ApplyBoundaryRules(Joined, t0)
           IN  /\ IsFiniteSet(ruled)
               /\ \A r \in ruled :
                     /\ \E q \in Closed : q.id = r.id /\ q.issued_ts = r.issued_ts
                                          /\ q.end_ts = r.end_ts
                     /\ r.in_window <=> Offers(r, t0)
                     /\ r.in_window /\ r.outcome = "ok" => r.end_ts <= Deadline(t0)
  <1> DEFINE ruled == ApplyBoundaryRules(Joined, t0)
  <1>1. Joined \subseteq Closed /\ Joined \subseteq Record /\ t0 \in Nat
    BY DEF Joined, Closed, TypeOK
  <1>2. IsFiniteSet(Joined)
    <2>1. IsFiniteSet(records \cup sunk)
      BY FS_Union DEF ListsFinite
    <2> QED
      BY <1>1, <2>1, FS_Subset DEF Closed
  <1>3. IsFiniteSet(ruled)
    <2> DEFINE f == [r \in Joined |-> Ruled(r, t0)]
    <2>1. f \in Surjection(Joined, ruled)
      BY DEF Surjection, ApplyBoundaryRules
    <2> HIDE DEF f, ruled
    <2> QED
      BY <1>2, <2>1, FS_Surjection
  <1>4. ASSUME NEW r \in ruled
        PROVE  /\ \E q \in Closed : q.id = r.id /\ q.issued_ts = r.issued_ts
                                    /\ q.end_ts = r.end_ts
               /\ r.in_window <=> Offers(r, t0)
               /\ r.in_window /\ r.outcome = "ok" => r.end_ts <= Deadline(t0)
    <2>1. PICK q \in Joined : r = Ruled(q, t0)
      BY <1>4 DEF ApplyBoundaryRules
    <2>2. q \in Record /\ q \in Closed
      BY <1>1
    <2>3. r.id = q.id /\ r.issued_ts = q.issued_ts /\ r.end_ts = q.end_ts
      BY <1>1, <2>1, <2>2, RuledType
    <2>4. r.in_window = Offers(q, t0) /\ r.outcome = RuledOutcome(q, t0)
      BY <2>1, <2>2 DEF Ruled, Record
    <2>5. Offers(q, t0) <=> Offers(r, t0)
      BY <2>3 DEF Offers
    <2>6. Offers(q, t0) /\ RuledOutcome(q, t0) = "ok" => q.end_ts <= Deadline(t0)
      <3>1. q.end_ts \in Nat /\ Deadline(t0) \in Nat
        BY <1>1, <2>2, EdgesAssumption DEF Record, Deadline, Close
      <3> QED
        BY <3>1 DEF RuledOutcome, Outstanding
    <2> QED
      BY <2>2, <2>3, <2>4, <2>5, <2>6
  <1> QED
    BY <1>3, <1>4

\* Nothing is stamped when run_window starts.
LEMMA StampedInit == Init => Stamped
  <1> SUFFICES ASSUME Init PROVE Stamped
    OBVIOUS
  <1>1. TypeOK
    BY DEF Init, TypeOK, NoFlight
  <1>2. IsFiniteSet({})
    BY FS_EmptySet
  <1> QED
    BY <1>1, <1>2 DEF Init, Stamped, StampsBehind, OneLate, RuledSound, ListsFinite,
                      Closed, Busy, Launched

\* Every window step keeps the stamps in order.
LEMMA StampedStep ==
    ASSUME TypeOK', Stamped, WindowStep
    PROVE  Stamped'
  <1>0. /\ now \in Nat /\ now' \in Nat /\ t0 \in Nat /\ t0' \in Nat
        /\ Close(t0) \in Nat /\ Close(t0)' \in Nat
        /\ \A r \in Closed : r.issued_ts \in Nat /\ r.end_ts \in Nat
        /\ \A u \in Users : flight[u].issued_ts \in Nat
    <2>1. TypeOK
      BY DEF Stamped
    <2>2. now \in Nat /\ now' \in Nat /\ t0 \in Nat /\ t0' \in Nat
      BY <2>1 DEF TypeOK
    <2>3. \A n \in Nat : n + WindowS \in Nat
      BY EdgesAssumption
    <2>4. \A r \in Closed : r.issued_ts \in Nat /\ r.end_ts \in Nat
      BY <2>1 DEF TypeOK, Closed, Record
    <2>5. \A u \in Users : flight[u].issued_ts \in Nat
      BY <2>1 DEF TypeOK
    <2> QED
      BY <2>2, <2>3, <2>4, <2>5 DEF Close
  <1> USE DEF Stamped
  <1>1. ASSUME UNCHANGED <<at, flight, records, sunk, t0>>, now <= now',
               \/ phase' = phase
               \/ phase = "resetting" /\ phase' = "warmup"
               \/ phase = "spreading" /\ phase' = "measuring"
        PROVE  Stamped'
    <2>1. Late' = Late
      BY <1>1 DEF Late, Closed, Busy, Close
    <2>2. StampsBehind' /\ ListsFinite'
      BY <1>0, <1>1 DEF StampsBehind, ListsFinite, Closed, Busy
    <2>3. OneLate'
      BY <1>1, <2>1 DEF OneLate, Launched
    <2>4. RuledSound'
      BY <1>1 DEF RuledSound, Offers, Close, Deadline
    <2> QED
      BY <1>1, <2>2, <2>3, <2>4
  <1>2. CASE Tick
    BY <1>0, <1>1, <1>2 DEF Tick
  <1>3. CASE Reset
    BY <1>0, <1>1, <1>3 DEF Reset
  <1>4. CASE OpenWindow
    BY <1>0, <1>1, <1>4 DEF OpenWindow
  <1>5. CASE UNCHANGED vars
    BY <1>0, <1>1, <1>5 DEF vars
  <1>6. CASE Launch
    <2>1. /\ phase' = "spreading" /\ at' = [u \in Users |-> "sleeping"]
          /\ UNCHANGED <<now, flight, records, sunk>>
      BY <1>6 DEF Launch
    <2>2. now <= Close(t0)'
      <3>1. PICK cycle \in CycleEstimates : t0' = now + cycle
        BY <1>6 DEF Launch
      <3>2. cycle \in Nat
        BY EdgesAssumption, PolicyAssumption DEF CycleEstimates, ClampToWindow, TypeOK
      <3> QED
        BY <1>0, <3>1, <3>2, EdgesAssumption DEF Close
    <2>3. Late' = {}
      BY <1>0, <2>1, <2>2 DEF Late, StampsBehind, Closed, Busy
    <2> QED
      BY <1>0, <2>1, <2>3 DEF StampsBehind, OneLate, RuledSound, ListsFinite, Closed, Busy
  <1>7. CASE CancelOutstanding
    <2>1. /\ phase = "measuring" /\ phase' = "settling"
          /\ UNCHANGED <<now, flight, records, sunk, t0>>
          /\ \A u \in Users : Busy(u)' => Busy(u) \/ at[u] = "cancelling"
      BY <1>7 DEF CancelOutstanding, Busy, TypeOK
    <2>2. \A u \in Users : Busy(u)' => Busy(u)
      BY <2>1 DEF Busy
    <2>3. Late' \subseteq Late
      BY <2>1, <2>2 DEF Late, Closed, Close
    <2> QED
      BY <1>0, <2>1, <2>2, <2>3 DEF StampsBehind, OneLate, RuledSound, ListsFinite, Closed,
                                    Launched
  <1>8. ASSUME NEW u \in Users, UserMoves(u)
        PROVE  Stamped'
    <2>1. /\ UNCHANGED <<phase, sunk, t0>> /\ phase \notin {"resetting", "reduced"}
          /\ now <= now'
          /\ \A v \in Users \ {u} : flight'[v] = flight[v] /\ (Busy(v)' <=> Busy(v))
      BY <1>8, MoveShape DEF UserMoves, UserPhase, Busy
    <2>2. \/ records' = records
          \/ /\ Busy(u)
             /\ \E r : /\ records' = records \cup {r} /\ r.id = flight[u].id
                       /\ r.issued_ts = flight[u].issued_ts /\ r.end_ts = now
      BY <1>8, FilledStamps DEF UserMoves, Busy
    <2>3. ListsFinite'
      BY <2>1, <2>2, FS_AddElement DEF ListsFinite
    <2>4. \/ Busy(u)' /\ flight'[u].id = next_index /\ flight'[u].issued_ts = now'
             /\ KeepsIssuing
          \/ ~Busy(u)'
      BY <1>8, MoveShape DEF Busy
    <2>5. StampsBehind'
      BY <1>0, <2>1, <2>2, <2>4 DEF StampsBehind, Closed
    <2>6. OneLate'
      <3> SUFFICES ASSUME Launched PROVE \A i, j \in Late' : i = j
        BY <2>1 DEF OneLate, Launched
      <3>1. CASE now < Close(t0)
        <4>1. \A i \in Late' : i = next_index
          BY <1>0, <2>1, <2>2, <2>4, <3>1 DEF Late, StampsBehind, Closed, Close
        <4> QED
          BY <4>1
      <3>2. CASE ~(now < Close(t0))
        <4>1. ~KeepsIssuing
          BY <3>2 DEF KeepsIssuing, Launched
        <4>2. Late' \subseteq Late
          BY <2>1, <2>2, <2>4, <4>1 DEF Late, Closed, Close
        <4> QED
          BY <4>2 DEF OneLate
      <3> QED
        BY <3>1, <3>2
    <2> QED
      BY <2>1, <2>3, <2>5, <2>6 DEF RuledSound
  <1>9. ASSUME NEW u \in Users, CancelDelivered(u)
        PROVE  Stamped'
    <2>1. /\ UNCHANGED <<now, phase, t0>> /\ phase = "settling" /\ Busy(u) /\ ~Busy(u)'
          /\ \A v \in Users \ {u} : flight'[v] = flight[v] /\ (Busy(v)' <=> Busy(v))
      BY <1>9 DEF CancelDelivered, Busy, TypeOK
    <2>2. \E r, s :
             /\ r.id = flight[u].id /\ r.issued_ts = flight[u].issued_ts /\ r.end_ts = now
             /\ s.id = flight[u].id /\ s.issued_ts = flight[u].issued_ts /\ s.end_ts = now
             /\ sunk' = sunk \cup {r}
             /\ records' = records \/ records' = records \cup {s}
      BY <1>9, FilledStamps DEF CancelDelivered, PartialRecord
    <2>3. ListsFinite'
      BY <2>2, FS_AddElement DEF ListsFinite
    <2>4. StampsBehind'
      BY <1>0, <2>1, <2>2 DEF StampsBehind, Closed
    <2>5. Late' \subseteq Late
      BY <2>1, <2>2 DEF Late, Closed, Close
    <2> QED
      BY <2>1, <2>3, <2>4, <2>5 DEF OneLate, Launched, RuledSound
  <1>10. ASSUME NEW u \in Users, AdapterRaises(u)
         PROVE  Stamped'
    <2>1. /\ UNCHANGED <<now, records, sunk, t0>>
          /\ phase' = "void" \/ phase' = phase
          /\ phase \notin {"resetting", "reduced"}
          /\ \A v \in Users : Busy(v)' => Busy(v) /\ flight'[v] = flight[v]
      BY <1>10 DEF AdapterRaises, UserPhase, Busy, TypeOK
    <2>2. Late' \subseteq Late
      BY <2>1 DEF Late, Closed, Close
    <2> QED
      BY <2>1, <2>2 DEF StampsBehind, OneLate, RuledSound, ListsFinite, Closed, Launched
  <1>11. CASE Settle
    <2>1. UNCHANGED <<now, at, flight, sunk, t0>> /\ phase = "settling"
      BY <1>11 DEF Settle
    <2>2. CASE phase' = "void" /\ UNCHANGED records
      BY <2>1, <2>2 DEF StampsBehind, OneLate, RuledSound, ListsFinite, Closed, Launched, Busy
    <2>3. CASE phase' = "reduced" /\ records' = ApplyBoundaryRules(Joined, t0)
      <3>1. /\ IsFiniteSet(records')
            /\ \A r \in records' :
                  /\ \E q \in Closed : q.id = r.id /\ q.issued_ts = r.issued_ts
                                       /\ q.end_ts = r.end_ts
                  /\ r.in_window <=> Offers(r, t0)
                  /\ r.in_window /\ r.outcome = "ok" => r.end_ts <= Deadline(t0)
        BY <2>3, RulingStamps
      <3>2. ListsFinite'
        BY <2>1, <3>1 DEF ListsFinite
      <3>3. StampsBehind'
        BY <2>1, <3>1 DEF StampsBehind, Closed, Busy
      <3>4. Late' \subseteq Late
        BY <2>1, <3>1 DEF Late, Closed, Close, Busy
      <3>5. RuledSound'
        BY <2>1, <3>1 DEF RuledSound, Offers, Close, Deadline
      <3> QED
        BY <2>1, <2>3, <3>2, <3>3, <3>4, <3>5 DEF OneLate, Launched
    <2> QED
      BY <1>11, <2>2, <2>3 DEF Settle
  <1> QED
    BY <1>2, <1>3, <1>4, <1>5, <1>6, <1>7, <1>8, <1>9, <1>10, <1>11 DEF WindowStep, Main

\* The stamps are in order throughout run_window.
THEOREM StampedInvariant == Spec => []Stamped
  <1>1. TypeOK' /\ Stamped /\ [Next]_vars => Stamped'
    BY NextIsWindowStep, StampedStep DEF Stamped
  <1> QED
    BY <1>1, StampedInit, TypeCorrect, PTL DEF Spec

\* Two sets without a common member: the sizes add up.
LEMMA DisjointSizes ==
    ASSUME NEW S, NEW T, IsFiniteSet(S), IsFiniteSet(T), S \cap T = {}
    PROVE  Cardinality(S \cup T) = Cardinality(S) + Cardinality(T)
  <1>1. Cardinality(S \cup T) = Cardinality(S) + Cardinality(T) - Cardinality(S \cap T)
    BY FS_Union
  <1>2. Cardinality(S \cap T) = 0
    BY FS_EmptySet
  <1>3. Cardinality(S) \in Nat /\ Cardinality(T) \in Nat
    BY FS_CardinalityType
  <1> QED
    BY <1>1, <1>2, <1>3

\* Of ruled and stamped records the driver and reduce_window take the same cohorts.
LEMMA StampedCohorts == Stamped => CohortsAgree
  <1> SUFFICES ASSUME Stamped, phase = "reduced"
               PROVE  /\ Cardinality(LatencySamples(records)) =
                            Cardinality(CompletedInWindow(records, t0) \cap Offered(records))
                            + Cardinality(Straddlers(records, t0))
                      /\ Cardinality(Offered(records)) =
                            Cardinality(LatencySamples(records))
                            + Cardinality(ExcludedError(records))
                      /\ Abandoned(records, t0) \subseteq ExcludedError(records)
                      /\ FinishedHere(records, t0) = CompletedInWindow(records, t0)
    BY DEF CohortsAgree
  <1> DEFINE samples == LatencySamples(records)
             inside == CompletedInWindow(records, t0) \cap Offered(records)
             straddling == Straddlers(records, t0)
             failed == ExcludedError(records)
             offered == Offered(records)
  <1>1. TypeOK /\ RuledSound /\ StampsBehind /\ IsFiniteSet(records)
    BY DEF Stamped, ListsFinite
  <1>2. t0 \in Nat /\ WindowS \in Nat /\ DrainDeadlineS \in Nat /\ None \notin Nat
    BY <1>1, EdgesAssumption DEF TypeOK
  <1>3. \A r \in records :
           /\ r.issued_ts \in Nat /\ r.end_ts \in Nat /\ r.end_ts # None
           /\ r.issued_ts <= r.end_ts
           /\ r.in_window <=> Offers(r, t0)
           /\ r.in_window /\ r.outcome = "ok" => r.end_ts <= Deadline(t0)
    <2>1. \A r \in records : r.issued_ts \in Nat /\ r.end_ts \in Nat
      BY <1>1 DEF TypeOK, Record
    <2> QED
      BY <1>1, <1>2, <2>1 DEF StampsBehind, Closed, RuledSound
  <1>4. \A r \in records : IsMonotonic(r)
    BY <1>3 DEF IsMonotonic
  <1>5. samples = inside \cup straddling
    <2>1. ASSUME NEW r \in records, r.in_window, r.outcome = "ok"
          PROVE  \/ EndedBetween(r, t0, Close(t0))
                 \/ EndedBetween(r, Close(t0) + 1, Deadline(t0))
      <3>1. t0 <= r.issued_ts
        BY <1>3, <2>1 DEF Offers
      <3> QED
        BY <1>2, <1>3, <2>1, <3>1 DEF EndedBetween, Close, Deadline
    <2> QED
      BY <1>4, <2>1 DEF LatencySamples, CompletedInWindow, Straddlers, Offered
  <1>6. inside \cap straddling = {}
    <2>1. \A r \in records : ~(/\ EndedBetween(r, t0, Close(t0))
                               /\ EndedBetween(r, Close(t0) + 1, Deadline(t0)))
      BY <1>2, <1>3 DEF EndedBetween, Close
    <2> QED
      BY <2>1 DEF CompletedInWindow, Straddlers, Offered
  <1>7. offered = samples \cup failed /\ samples \cap failed = {}
    BY <1>4 DEF LatencySamples, ExcludedError, Offered
  <1>8. \A S \in SUBSET records : IsFiniteSet(S)
    BY <1>1, FS_Subset
  <1>9. inside \in SUBSET records /\ straddling \in SUBSET records
        /\ samples \in SUBSET records /\ failed \in SUBSET records
    BY DEF CompletedInWindow, Straddlers, LatencySamples, ExcludedError, Offered
  <1>10. Abandoned(records, t0) \subseteq failed
    BY DEF Abandoned, ExcludedError
  <1>11. FinishedHere(records, t0) = CompletedInWindow(records, t0)
    BY <1>4 DEF FinishedHere, CompletedInWindow
  <1> HIDE DEF samples, inside, straddling, failed, offered
  <1>12. Cardinality(samples) = Cardinality(inside) + Cardinality(straddling)
    BY <1>5, <1>6, <1>8, <1>9, DisjointSizes
  <1>13. Cardinality(offered) = Cardinality(samples) + Cardinality(failed)
    BY <1>7, <1>8, <1>9, DisjointSizes
  <1> QED
    BY <1>10, <1>11, <1>12, <1>13 DEF samples, inside, straddling, failed, offered

\* The driver's counts (driver.py:117-180) and reduce_window's cohorts, taken from the same
\* marked records by different code, agree in every window.
THEOREM CohortsAgreeAlways == Spec => []CohortsAgree
  BY StampedCohorts, StampedInvariant, PTL

-----------------------------------------------------------------------------
(* The residual past the close *)

\* Of stamped records, one for each request, at most one is late, and a fleet has a user.
LEMMA StampedResidual == Stamped /\ Accounting => ResidualBounded
  <1> SUFFICES ASSUME Stamped, Accounting, phase = "reduced"
               PROVE  Cardinality({r \in records : r.issued_ts > Close(t0)})
                          <= Cardinality(Users)
    BY DEF ResidualBounded
  <1> DEFINE residual == {r \in records : r.issued_ts > Close(t0)}
  <1>1. OneLate /\ Launched /\ OneCopy(records)
    BY DEF Stamped, Launched, Accounting, ListsSound
  <1>2. \A r, s \in residual : r = s
    BY <1>1 DEF OneLate, Late, Closed, OneCopy
  <1>3. residual = {} \/ \E r : residual = {r}
    BY <1>2
  <1> HIDE DEF residual
  <1>4. Cardinality(residual) \in {0, 1}
    <2>1. CASE residual = {}
      BY <2>1, FS_EmptySet
    <2>2. ASSUME NEW r, residual = {r}
          PROVE  Cardinality(residual) = 1
      BY <2>2, FS_Singleton
    <2> QED
      BY <1>3, <2>1, <2>2
  <1>5. 1 <= Cardinality(Users) /\ Cardinality(Users) \in Nat
    <2>1. Cardinality(Users) \in Nat
      BY PolicyAssumption, FS_CardinalityType
    <2>2. Cardinality(Users) # 0
      BY PolicyAssumption, FS_EmptySet
    <2> QED
      BY <2>1, <2>2
  <1> QED
    BY <1>4, <1>5 DEF residual

\* The residual run_window's docstring leaves visible, a request decided just before the
\* close and stamped after it, never exceeds one per virtual user.
THEOREM ResidualIsBounded == Spec => []ResidualBounded
  BY StampedResidual, StampedInvariant, AccountingInvariant, PTL

-----------------------------------------------------------------------------
(***************************************************************************)
(* The warm-up quota.  A user leaves the warm-up loop only once the quota  *)
(* is used up, and no user issues past it.                                 *)
(***************************************************************************)
QuotaKept ==
    WarmupS = 0 =>
        /\ phase = "resetting" => next_index = 0 /\ \A u \in Users : at[u] = "ready"
        /\ phase = "warmup" =>
              /\ next_index <= WarmupRequests
              /\ (\E u \in Users : at[u] = "done") => next_index = WarmupRequests

\* Every window step keeps the quota.
LEMMA QuotaStep ==
    ASSUME TypeOK, Stations, QuotaKept, WindowStep
    PROVE  QuotaKept'
  <1> SUFFICES ASSUME WarmupS = 0
               PROVE  /\ phase' = "resetting" =>
                            next_index' = 0 /\ \A u \in Users : at'[u] = "ready"
                      /\ phase' = "warmup" =>
                            /\ next_index' <= WarmupRequests
                            /\ (\E u \in Users : at'[u] = "done") => next_index' = WarmupRequests
    BY DEF QuotaKept
  <1>1. next_index \in Nat /\ WarmupRequests \in Nat \ {0}
    BY PolicyAssumption DEF TypeOK
  <1>2. CASE Tick \/ OpenWindow \/ UNCHANGED vars
    BY <1>2 DEF Tick, OpenWindow, vars, QuotaKept
  <1>3. CASE Reset
    BY <1>1, <1>3 DEF Reset, QuotaKept
  <1>4. CASE Launch \/ CancelOutstanding \/ Settle
    BY <1>4 DEF Launch, CancelOutstanding, Settle
  <1>5. ASSUME NEW u \in Users, UserMoves(u)
        PROVE  /\ phase' # "resetting"
               /\ phase' = "warmup" =>
                     /\ next_index' <= WarmupRequests
                     /\ (\E v \in Users : at'[v] = "done") => next_index' = WarmupRequests
    <2>1. phase' = phase /\ phase # "resetting"
      BY <1>5 DEF UserMoves, UserPhase
    <2> SUFFICES ASSUME phase = "warmup"
                 PROVE  /\ next_index' <= WarmupRequests
                        /\ (\E v \in Users : at'[v] = "done") => next_index' = WarmupRequests
      BY <2>1
    <2>2. /\ next_index <= WarmupRequests
          /\ (\E v \in Users : at[v] = "done") => next_index = WarmupRequests
      BY DEF QuotaKept
    <2>3. KeepsIssuing <=> next_index < WarmupRequests
      BY <1>1 DEF KeepsIssuing, WarmupDone
    <2>4. CASE Issues(u)
      BY <1>1, <2>2, <2>3, <2>4 DEF Issues, TypeOK
    <2>5. CASE Leaves(u)
      BY <1>1, <2>2, <2>3, <2>5 DEF Leaves, TypeOK
    <2>6. CASE Sleeps(u)
      BY <1>1, <2>2, <2>6 DEF Sleeps, TypeOK
    <2> QED
      BY <1>5, <2>4, <2>5, <2>6 DEF UserMoves
  <1>6. ASSUME NEW u \in Users, CancelDelivered(u)
        PROVE  phase' \notin {"resetting", "warmup"}
    BY <1>6 DEF CancelDelivered
  <1>7. ASSUME NEW u \in Users, AdapterRaises(u)
        PROVE  phase' \notin {"resetting", "warmup"}
    BY <1>7 DEF AdapterRaises, UserPhase
  <1> QED
    BY <1>2, <1>3, <1>4, <1>5, <1>6, <1>7 DEF WindowStep, Main

\* A warm-up declared by a quota has issued exactly that many requests, however many users
\* share it, when the fleet is launched (driver.py:374-379, 394).
THEOREM QuotaIsExact == Spec => WarmupQuotaExact
  <1>1. Init => QuotaKept
    BY DEF Init, QuotaKept
  <1>2. TypeOK /\ Accounting /\ QuotaKept /\ [Next]_vars => QuotaKept'
    BY NextIsWindowStep, QuotaStep DEF Accounting
  <1>3. TypeOK /\ QuotaKept /\ [Next]_vars =>
           [phase = "warmup" /\ phase' = "spreading" /\ WarmupS = 0
               => next_index = WarmupRequests]_vars
    <2> SUFFICES ASSUME TypeOK, QuotaKept, [Next]_vars,
                        phase = "warmup", phase' = "spreading", WarmupS = 0
                 PROVE  next_index = WarmupRequests
      OBVIOUS
    <2>1. Launch
      <3>1. WindowStep
        BY NextIsWindowStep
      <3> QED
        BY <3>1 DEF WindowStep, Main, Tick, Reset, OpenWindow, CancelOutstanding, Settle,
                    UserMoves, CancelDelivered, AdapterRaises, vars
    <2>2. \E u \in Users : at[u] = "done"
      BY <2>1, PolicyAssumption DEF Launch, BarrierPassed
    <2> QED
      BY <2>2 DEF QuotaKept
  <1> QED
    BY <1>1, <1>2, <1>3, TypeCorrect, AccountingInvariant, PTL DEF Spec, WarmupQuotaExact

-----------------------------------------------------------------------------
(***************************************************************************)
(* The peak in flight.  The records do not say which user issued them, but *)
(* the requests can be dealt to the users so that those of one user follow *)
(* one another: each is over when the next begins.  Requests in flight at  *)
(* one instant then belong to different users.                             *)
(***************************************************************************)
Owned(own) ==
    /\ \A u \in Users : Busy(u) => own[flight[u].id] = u
    /\ \A r, s \in Closed : own[r.id] = own[s.id] /\ r.id # s.id =>
          r.end_ts <= s.issued_ts \/ s.end_ts <= r.issued_ts
    /\ \A r \in Closed, u \in Users : Busy(u) /\ own[r.id] = u =>
          r.end_ts <= flight[u].issued_ts

OneAtATime == \E own \in [Nat -> Users] : Owned(own)

\* Every window step leaves the requests of each user in a row.
LEMMA OneAtATimeStep ==
    ASSUME TypeOK', Accounting, Stamped, OneAtATime, WindowStep
    PROVE  OneAtATime'
  <1>0. /\ TypeOK /\ FlightsApart /\ StampsBehind /\ ListsFinite /\ next_index \in Nat
        /\ \A i \in ClosedIds : i < next_index
    BY DEF Accounting, Stamped, ListsSound, TypeOK
  <1>1. /\ \A r \in Closed : /\ r.id \in Nat /\ r.id < next_index
                             /\ r.issued_ts \in Nat /\ r.end_ts \in Nat
        /\ \A u \in Users : flight[u].id \in Nat /\ flight[u].issued_ts \in Nat
        /\ now \in Nat
    BY <1>0 DEF TypeOK, Closed, Record, ClosedIds, Ids
  <1>2. PICK own \in [Nat -> Users] : Owned(own)
    BY DEF OneAtATime
  <1>3. ASSUME records' = records, sunk' = sunk,
               \A u \in Users : Busy(u)' => Busy(u) /\ flight'[u] = flight[u]
        PROVE  OneAtATime'
    <2>1. Owned(own)'
      BY <1>2, <1>3 DEF Owned, Closed
    <2> QED
      BY <1>2, <2>1 DEF OneAtATime
  <1>4. CASE Tick \/ Reset \/ OpenWindow \/ UNCHANGED vars
    BY <1>3, <1>4 DEF Tick, Reset, OpenWindow, vars, Busy
  <1>5. CASE Launch
    BY <1>3, <1>5 DEF Launch, Busy
  <1>6. CASE CancelOutstanding
    BY <1>0, <1>3, <1>6 DEF CancelOutstanding, Busy, TypeOK
  <1>7. ASSUME NEW u \in Users, AdapterRaises(u)
        PROVE  OneAtATime'
    BY <1>0, <1>3, <1>7 DEF AdapterRaises, Busy, TypeOK
  <1>8. ASSUME NEW u \in Users, UserMoves(u)
        PROVE  OneAtATime'
    <2>1. \E dealt \in [Nat -> Users] :
             (\A i \in Nat : i < next_index => dealt[i] = own[i]) /\ dealt[next_index] = u
      <3>1. [own EXCEPT ![next_index] = u] \in [Nat -> Users]
        BY <1>0, <1>2
      <3>2. \A i \in Nat : i < next_index => [own EXCEPT ![next_index] = u][i] = own[i]
        BY <1>0, <1>2
      <3>3. [own EXCEPT ![next_index] = u][next_index] = u
        BY <1>0, <1>2
      <3> QED
        BY <3>1, <3>2, <3>3
    <2>2. PICK dealt \in [Nat -> Users] :
             (\A i \in Nat : i < next_index => dealt[i] = own[i]) /\ dealt[next_index] = u
      BY <2>1
    <2>3. /\ \A i \in Nat : i < next_index => dealt[i] = own[i]
          /\ dealt[next_index] = u
      BY <2>2
    <2>4. /\ now <= now' /\ now' \in Nat
          /\ \A v \in Users \ {u} : flight'[v] = flight[v] /\ (Busy(v)' <=> Busy(v))
          /\ \/ Busy(u)' /\ flight'[u].id = next_index /\ flight'[u].issued_ts = now'
             \/ ~Busy(u)'
      <3>1. /\ now <= now' /\ now' \in Nat
            /\ \A v \in Users \ {u} : at'[v] = at[v] /\ flight'[v] = flight[v]
            /\ \/ at'[u] = "waiting" /\ flight'[u] = [id |-> next_index, issued_ts |-> now']
               \/ at'[u] \in {"done", "sleeping"}
        BY <1>0, <1>8, MoveShape
      <3> QED
        BY <3>1 DEF Busy
    <2>5. \/ Closed' = Closed
          \/ /\ Busy(u)
             /\ \E r : /\ Closed' = Closed \cup {r} /\ r.id = flight[u].id
                       /\ r.issued_ts = flight[u].issued_ts /\ r.end_ts = now
      <3>1. sunk' = sunk
            /\ \/ records' = records
               \/ /\ Busy(u)
                  /\ \E o \in ServerOutcomes : records' = records \cup {Filled(u, o, "returned")}
        BY <1>8 DEF UserMoves, Busy
      <3> QED
        BY <3>1, FilledStamps DEF Closed
    <2>6. \A v \in Users : Busy(v) => flight[v].id < next_index /\ own[flight[v].id] = v
      BY <1>0, <1>2 DEF FlightsApart, Owned
    <2>7. \A r \in Closed' : r.end_ts <= now /\ r.id \in Nat /\ r.id < next_index
      BY <1>0, <1>1, <2>5, <2>6 DEF StampsBehind
    <2>8. \A v \in Users : Busy(v)' => dealt[flight'[v].id] = v
      BY <1>1, <2>3, <2>4, <2>6
    <2>9. \A r, s \in Closed' : dealt[r.id] = dealt[s.id] /\ r.id # s.id =>
             r.end_ts <= s.issued_ts \/ s.end_ts <= r.issued_ts
      <3>1. \A r \in Closed : Busy(u) /\ own[r.id] = u => r.end_ts <= flight[u].issued_ts
        BY <1>2 DEF Owned
      <3>2. \A r, s \in Closed : own[r.id] = own[s.id] /\ r.id # s.id =>
               r.end_ts <= s.issued_ts \/ s.end_ts <= r.issued_ts
        BY <1>2 DEF Owned
      <3>3. \A r, s \in Closed' : own[r.id] = own[s.id] /\ r.id # s.id =>
               r.end_ts <= s.issued_ts \/ s.end_ts <= r.issued_ts
        BY <2>5, <2>6, <3>1, <3>2
      <3> QED
        BY <2>3, <2>7, <3>3
    <2>10. \A r \in Closed', v \in Users : Busy(v)' /\ dealt[r.id] = v =>
              r.end_ts <= flight'[v].issued_ts
      <3>1. \A r \in Closed, v \in Users : Busy(v) /\ own[r.id] = v =>
               r.end_ts <= flight[v].issued_ts
        BY <1>2 DEF Owned
      <3>2. ASSUME NEW r \in Closed', NEW v \in Users \ {u}, Busy(v)', own[r.id] = v
            PROVE  r.end_ts <= flight'[v].issued_ts
        BY <2>4, <2>5, <2>6, <3>1, <3>2
      <3>3. ASSUME NEW r \in Closed', Busy(u)'
            PROVE  r.end_ts <= flight'[u].issued_ts
        <4>1. r.end_ts \in Nat /\ r.end_ts <= now
          BY <1>1, <2>5, <2>7
        <4> QED
          BY <1>1, <2>4, <3>3, <4>1
      <3> QED
        BY <2>3, <2>7, <3>2, <3>3
    <2>11. Owned(dealt)'
      BY <2>8, <2>9, <2>10 DEF Owned
    <2> QED
      BY <2>2, <2>11 DEF OneAtATime
  <1>9. ASSUME NEW u \in Users, CancelDelivered(u)
        PROVE  OneAtATime'
    <2>1. /\ Busy(u) /\ ~Busy(u)'
          /\ \A v \in Users \ {u} : flight'[v] = flight[v] /\ (Busy(v)' <=> Busy(v))
      BY <1>0, <1>9 DEF CancelDelivered, Busy, TypeOK
    <2>2. \A r \in Closed' : \/ r \in Closed
                             \/ /\ r.id = flight[u].id /\ r.end_ts = now
                                /\ r.issued_ts = flight[u].issued_ts
      BY <1>9, FilledStamps DEF CancelDelivered, PartialRecord, Closed
    <2>3. Owned(own)'
      BY <1>2, <2>1, <2>2 DEF Owned
    <2> QED
      BY <1>2, <2>3 DEF OneAtATime
  <1>10. CASE Settle
    <2>1. UNCHANGED <<at, flight, sunk>>
      BY <1>10 DEF Settle
    <2>2. CASE records' = records
      BY <1>3, <2>1, <2>2 DEF Busy
    <2>3. CASE records' = ApplyBoundaryRules(Joined, t0)
      <3>1. \A r \in Closed' : \E q \in Closed :
               q.id = r.id /\ q.issued_ts = r.issued_ts /\ q.end_ts = r.end_ts
        BY <1>0, <2>1, <2>3, RulingStamps DEF Closed
      <3>2. Owned(own)'
        BY <1>2, <2>1, <3>1 DEF Owned, Busy
      <3> QED
        BY <1>2, <3>2 DEF OneAtATime
    <2> QED
      BY <1>10, <2>2, <2>3 DEF Settle
  <1> QED
    BY <1>4, <1>5, <1>6, <1>7, <1>8, <1>9, <1>10 DEF WindowStep, Main

\* Nothing is in flight when run_window starts.
LEMMA OneAtATimeInit == Init => OneAtATime
  <1> SUFFICES ASSUME Init PROVE OneAtATime
    OBVIOUS
  <1>1. PICK u : u \in Users
    BY PolicyAssumption
  <1>2. [i \in Nat |-> u] \in [Nat -> Users]
    BY <1>1
  <1>3. Owned([i \in Nat |-> u])
    BY DEF Init, Owned, Closed, Busy
  <1> QED
    BY <1>2, <1>3 DEF OneAtATime

\* Dealt one at a time, no more requests are in flight together than there are users.
LEMMA PeakOfOwned == Accounting /\ Stamped /\ OneAtATime => PeakWithinFleet
  <1> SUFFICES ASSUME Accounting, Stamped, OneAtATime, phase = "reduced",
                      NEW t \in {r.issued_ts : r \in Offered(records)}
               PROVE  Cardinality(InFlightAt(records, t)) <= Cardinality(Users)
    BY DEF PeakWithinFleet
  <1> DEFINE together == InFlightAt(records, t)
  <1>1. PICK own \in [Nat -> Users] : Owned(own)
    BY DEF OneAtATime
  <1>2. TypeOK /\ OneCopy(records) /\ StampsBehind
    BY DEF Accounting, ListsSound, Stamped
  <1>3. together \subseteq records /\ together \subseteq Closed
    BY DEF InFlightAt, Offered, Closed
  <1>4. \A r \in together : r.id \in Nat /\ r.issued_ts \in Nat /\ r.end_ts \in Nat
                            /\ r.end_ts # None
    BY <1>2, <1>3, EdgesAssumption DEF TypeOK, Record
  <1>5. t \in Nat /\ \A r \in together : r.issued_ts <= t /\ t < r.end_ts
    <2>1. t \in Nat
      BY <1>2 DEF Offered, TypeOK, Record
    <2> QED
      BY <1>4, <2>1 DEF InFlightAt
  <1> DEFINE f == [r \in together |-> own[r.id]]
  <1>6. f \in [together -> Users]
    BY <1>1, <1>4
  <1>7. ASSUME NEW r \in together, NEW s \in together, own[r.id] = own[s.id]
        PROVE  r = s
    <2>1. CASE r.id = s.id
      BY <1>2, <1>3, <2>1 DEF OneCopy
    <2>2. CASE r.id # s.id
      <3>1. r.end_ts <= s.issued_ts \/ s.end_ts <= r.issued_ts
        BY <1>1, <1>3, <1>7, <2>2 DEF Owned
      <3> QED
        BY <1>4, <1>5, <3>1
    <2> QED
      BY <2>1, <2>2
  <1>8. f \in Injection(together, Users)
    BY <1>6, <1>7 DEF Injection, IsInjective
  <1> HIDE DEF f, together
  <1> QED
    BY <1>8, PolicyAssumption, FS_Injection DEF together

\* The peak in flight of the published records never exceeds the declared concurrency,
\* though the records do not say who issued them (metrics.py:144-174).
THEOREM PeakStaysWithinFleet == Spec => []PeakWithinFleet
  <1>1. TypeOK' /\ Accounting /\ Stamped /\ OneAtATime /\ [Next]_vars => OneAtATime'
    BY NextIsWindowStep, OneAtATimeStep DEF Stamped
  <1> QED
    BY <1>1, OneAtATimeInit, PeakOfOwned, TypeCorrect, AccountingInvariant,
       StampedInvariant, PTL DEF Spec

-----------------------------------------------------------------------------
(* The sessions: what one step of a session user does *)

SessionTypeOK ==
    /\ TypeOK
    /\ ordinal \in [Users -> Nat]
    /\ step \in [Users -> Nat]
    /\ \A u \in Users : step[u] <= Len(ShapeOf(ordinal[u]))
    /\ next_session \in Nat
    /\ session_tags \subseteq [id : Nat, session : Nat, step : Nat \ {0}]
    /\ \A u \in Users : at[u] = "waiting" => InSession(u)

\* The next step of the session, once the one before was answered and its gap served.
StepsOn(u) ==
    /\ StepsLeft(u)
    /\ \/ at[u] = "waiting" /\ Gap(u) = 0
       \/ at[u] = "sleeping" /\ now >= wake[u]
       \/ at[u] = "ready" /\ phase = "warmup"
    /\ Issues(u)
    /\ session_tags' = session_tags
                       \cup {[id |-> next_index, session |-> ordinal[u], step |-> step[u] + 1]}
    /\ ordinal'[u] = ordinal[u] /\ step'[u] = step[u] + 1
    /\ next_session' = next_session

OpensNext(u) ==
    /\ Issues(u)
    /\ session_tags' = session_tags
                       \cup {[id |-> next_index, session |-> next_session, step |-> 1]}
    /\ ordinal'[u] = next_session /\ step'[u] = 1
    /\ next_session' = next_session + 1

StopsWalk(u) ==
    /\ Leaves(u)
    /\ ordinal'[u] = 0 /\ step'[u] = 0
    /\ session_tags' = session_tags
    /\ next_session' \in {next_session, next_session + 1}

ServesGap(u) ==
    /\ Sleeps(u)
    /\ wake'[u] = now + Gap(u)
    /\ ordinal'[u] = ordinal[u] /\ step'[u] = step[u]
    /\ session_tags' = session_tags
    /\ next_session' = next_session

Walks(u) ==
    /\ UserMoves(u)
    /\ ordinal' \in [Users -> Nat] /\ step' \in [Users -> Nat] /\ next_session' \in Nat
    /\ \A v \in Users \ {u} :
          ordinal'[v] = ordinal[v] /\ step'[v] = step[v] /\ wake'[v] = wake[v]
    /\ StepsOn(u) \/ OpensNext(u) \/ StopsWalk(u) \/ ServesGap(u)

\* A plan has a shape for every session, and no shape is empty.
LEMMA ShapeOfType ==
    ASSUME NEW n \in Nat
    PROVE  /\ ShapeOf(n) \in Seq(Nat)
           /\ Len(ShapeOf(n)) \in Nat \ {0}
           /\ \A k \in 1 .. Len(ShapeOf(n)) : ShapeOf(n)[k] \in Nat
  <1> DEFINE L == Len(Shapes)
             k == 1 + ((SessionBase + n) % L)
  <1>1. Shapes \in Seq(Seq(Nat) \ {<<>>}) /\ L \in Nat \ {0} /\ SessionBase + n \in Nat
    BY SessionAssumption
  <1>2. k \in 1 .. L
    <2> HIDE DEF L
    <2> QED
      BY <1>1
  <1>3. ShapeOf(n) = Shapes[k]
    BY DEF ShapeOf
  <1> HIDE DEF k
  <1>4. ShapeOf(n) \in Seq(Nat) \ {<<>>}
    BY <1>1, <1>2, <1>3
  <1> HIDE DEF L
  <1> QED
    BY <1>4

\* The loop of a session user walks like that.
LEMMA SessionLoopWalks ==
    ASSUME SessionTypeOK, NEW u \in Users,
           SessionResume(u) \/ \E o \in ServerOutcomes : SessionAnswer(u, o)
    PROVE  Walks(u)
  <1>1. TypeOK /\ ordinal \in [Users -> Nat] /\ step \in [Users -> Nat] /\ next_session \in Nat
        /\ now \in Nat /\ now \in now .. now + ClockSkew
    BY PolicyAssumption DEF SessionTypeOK, TypeOK
  <1>2. ASSUME NEW session \in Nat, NEW k \in Nat, IssueStep(u, session, k), KeepsIssuing
        PROVE  /\ now' \in now .. now + ClockSkew /\ wake' \in [Users -> Nat]
               /\ Issues(u)
               /\ session_tags' = session_tags
                                  \cup {[id |-> next_index, session |-> session, step |-> k]}
               /\ ordinal' \in [Users -> Nat] /\ step' \in [Users -> Nat]
               /\ ordinal'[u] = session /\ step'[u] = k
               /\ \A v \in Users \ {u} :
                     ordinal'[v] = ordinal[v] /\ step'[v] = step[v] /\ wake'[v] = wake[v]
    BY <1>1, <1>2 DEF IssueStep, Issue, Issues, Tag, TypeOK
  <1>3. ASSUME StopSessions(u), phase = "warmup" => ~KeepsIssuing
        PROVE  /\ wake' \in [Users -> Nat]
               /\ Leaves(u)
               /\ session_tags' = session_tags
               /\ ordinal' \in [Users -> Nat] /\ step' \in [Users -> Nat]
               /\ ordinal'[u] = 0 /\ step'[u] = 0
               /\ \A v \in Users \ {u} :
                     ordinal'[v] = ordinal[v] /\ step'[v] = step[v] /\ wake'[v] = wake[v]
    BY <1>1, <1>3 DEF StopSessions, EndTask, Leaves, TypeOK
  <1>4. ASSUME Proceed(u),
               \/ at[u] = "waiting" /\ Gap(u) = 0
               \/ at[u] = "sleeping" /\ now >= wake[u]
               \/ at[u] = "ready" /\ phase = "warmup"
        PROVE  /\ now' \in now .. now + ClockSkew /\ wake' \in [Users -> Nat]
               /\ ordinal' \in [Users -> Nat] /\ step' \in [Users -> Nat]
               /\ next_session' \in Nat
               /\ \A v \in Users \ {u} :
                     ordinal'[v] = ordinal[v] /\ step'[v] = step[v] /\ wake'[v] = wake[v]
               /\ StepsOn(u) \/ OpensNext(u) \/ StopsWalk(u)
    <2>1. CASE NextStep(u) /\ KeepsIssuing /\ IssueStep(u, ordinal[u], step[u] + 1)
      <3>1. ordinal[u] \in Nat /\ step[u] + 1 \in Nat
        BY <1>1
      <3>2. StepsLeft(u) /\ next_session' = next_session
        BY <2>1 DEF NextStep
      <3> QED
        BY <1>1, <1>2, <1>4, <2>1, <3>1, <3>2 DEF StepsOn
    <2>2. CASE NextStep(u) /\ ~KeepsIssuing /\ StopSessions(u) /\ UNCHANGED now
      BY <1>1, <1>3, <2>2 DEF NextStep, StopsWalk
    <2>3. CASE KeepsIssuing /\ IssueStep(u, next_session, 1) /\ next_session' = next_session + 1
      BY <1>1, <1>2, <2>3 DEF OpensNext
    <2>4. CASE /\ now' \in now .. now + ClockSkew /\ phase # "warmup"
               /\ StopSessions(u) /\ next_session' = next_session + 1
      BY <1>1, <1>3, <2>4 DEF StopsWalk
    <2>5. CASE ~KeepsIssuing /\ StopSessions(u) /\ UNCHANGED <<now, next_session>>
      BY <1>1, <1>3, <2>5 DEF StopsWalk
    <2> QED
      BY <1>4, <2>1, <2>2, <2>3, <2>4, <2>5 DEF Proceed, NextStep, NextSession
  <1>5. CASE SessionResume(u)
    <2>1. StepsOn(u) \/ OpensNext(u) \/ StopsWalk(u) => Issues(u) \/ Leaves(u)
      BY DEF StepsOn, OpensNext, StopsWalk
    <2>2. Proceed(u) /\ (\/ at[u] = "sleeping" /\ now >= wake[u]
                         \/ at[u] = "ready" /\ phase = "warmup")
      BY <1>5 DEF SessionResume
    <2> QED
      BY <1>4, <1>5, <2>1, <2>2 DEF SessionResume, Walks, UserMoves
  <1>6. ASSUME NEW o \in ServerOutcomes, SessionAnswer(u, o)
        PROVE  Walks(u)
    <2>1. CASE Gap(u) = 0 /\ Proceed(u)
      <3>1. StepsOn(u) \/ OpensNext(u) \/ StopsWalk(u) => Issues(u) \/ Leaves(u)
        BY DEF StepsOn, OpensNext, StopsWalk
      <3>2. at[u] = "waiting"
        BY <1>6 DEF SessionAnswer
      <3> QED
        BY <1>4, <1>6, <2>1, <3>1, <3>2 DEF SessionAnswer, Walks, UserMoves
    <2>2. CASE ServeGap(u)
      <3>1. Gap(u) \in Nat
        <4>1. step[u] \in 1 .. Len(ShapeOf(ordinal[u])) /\ ordinal[u] \in Nat
          <5>1. step[u] \in Nat /\ step[u] > 0 /\ step[u] <= Len(ShapeOf(ordinal[u]))
            BY <1>6, <1>1 DEF SessionAnswer, SessionTypeOK, InSession
          <5>2. ordinal[u] \in Nat
            BY <1>1
          <5>3. Len(ShapeOf(ordinal[u])) \in Nat
            BY <5>2, ShapeOfType
          <5> QED
            BY <5>1, <5>2, <5>3
        <4> QED
          BY <4>1, ShapeOfType DEF Gap
      <3>2. wake' \in [Users -> Nat] /\ wake'[u] = now + Gap(u)
            /\ \A v \in Users \ {u} : wake'[v] = wake[v]
        BY <1>1, <2>2, <3>1 DEF ServeGap, TypeOK
      <3>3. Sleeps(u)
        BY <1>6, <2>2 DEF SessionAnswer, ServeGap, Sleeps, Busy
      <3>4. UNCHANGED <<now, ordinal, step, session_tags, next_session>>
        BY <2>2 DEF ServeGap
      <3>5. ServesGap(u)
        BY <3>2, <3>3, <3>4 DEF ServesGap
      <3> QED
        BY <1>1, <1>6, <3>2, <3>3, <3>4, <3>5 DEF SessionAnswer, Walks, UserMoves
    <2> QED
      BY <1>6, <2>1, <2>2 DEF SessionAnswer
  <1> QED
    BY <1>5, <1>6

\* What the steps of the other parties leave of the sessions.
OthersMove ==
    /\ \/ Tick \/ Main \/ UNCHANGED vars
       \/ \E u \in Users : CancelDelivered(u) \/ AdapterRaises(u)
    /\ UNCHANGED <<ordinal, step, next_session, session_tags>>

\* So a step of a session window is a window step, in which a user walks or nothing
\* happens to the sessions.
LEMMA SessionSteps ==
    ASSUME SessionTypeOK, [SessionNext]_svars
    PROVE  WindowStep /\ (OthersMove \/ \E u \in Users : Walks(u))
  <1>1. CASE SessionTick \/ UNCHANGED svars
    BY <1>1 DEF SessionTick, svars, sessionVars, OthersMove, WindowStep
  <1>2. CASE SessionMain
    BY <1>2 DEF SessionMain, SessionOpenWindow, OrdinalKept, Main, sessionVars, OthersMove,
                WindowStep
  <1>3. ASSUME NEW u \in Users, SessionCancelled(u) \/ SessionRaises(u)
        PROVE  WindowStep /\ OthersMove
    BY <1>3 DEF SessionCancelled, SessionRaises, sessionVars, OthersMove, WindowStep
  <1>4. ASSUME NEW u \in Users,
               SessionResume(u) \/ \E o \in ServerOutcomes : SessionAnswer(u, o)
        PROVE  WindowStep /\ Walks(u)
    <2>1. Walks(u)
      BY <1>4, SessionLoopWalks
    <2> QED
      BY <2>1 DEF Walks, WindowStep
  <1> QED
    BY <1>1, <1>2, <1>3, <1>4 DEF SessionNext

\* Every step keeps the types of the sessions.
LEMMA SessionTypeStep ==
    ASSUME SessionTypeOK, TypeOK', [SessionNext]_svars
    PROVE  SessionTypeOK'
  <1>1. TypeOK /\ next_index \in Nat
    BY DEF SessionTypeOK, TypeOK
  <1>2. \A n : ShapeOf(n)' = ShapeOf(n)
    BY DEF ShapeOf
  <1>3. CASE OthersMove
    <2>1. \A u \in Users : at'[u] = "waiting" => at[u] = "waiting"
      BY <1>1, <1>3 DEF OthersMove, Main, Tick, Reset, OpenWindow, Launch, CancelOutstanding,
                        Settle, CancelDelivered, AdapterRaises, TypeOK, vars
    <2> QED
      BY <1>2, <1>3, <2>1 DEF SessionTypeOK, OthersMove, InSession
  <1>4. ASSUME NEW u \in Users, Walks(u)
        PROVE  SessionTypeOK'
    <2>1. \A v \in Users \ {u} : /\ ordinal'[v] = ordinal[v] /\ step'[v] = step[v]
                                 /\ at'[v] = at[v]
      BY <1>1, <1>4, MoveShape DEF Walks
    <2>2. /\ at'[u] = "waiting" => step'[u] > 0
          /\ step'[u] <= Len(ShapeOf(ordinal'[u]))
          /\ session_tags' \subseteq [id : Nat, session : Nat, step : Nat \ {0}]
      <3>1. /\ step[u] \in Nat /\ ordinal[u] \in Nat /\ next_session \in Nat
            /\ Len(ShapeOf(ordinal[u])) \in Nat /\ step[u] <= Len(ShapeOf(ordinal[u]))
            /\ session_tags \subseteq [id : Nat, session : Nat, step : Nat \ {0}]
        BY ShapeOfType DEF SessionTypeOK
      <3>2. CASE StepsOn(u)
        BY <1>1, <3>1, <3>2 DEF StepsOn, StepsLeft
      <3>3. CASE OpensNext(u)
        <4>1. Len(ShapeOf(next_session)) \in Nat \ {0}
          BY <3>1, ShapeOfType
        <4> QED
          BY <1>1, <3>1, <3>3, <4>1 DEF OpensNext
      <3>4. CASE StopsWalk(u)
        <4>1. Len(ShapeOf(0)) \in Nat \ {0} /\ at'[u] = "done"
          BY <1>1, <3>4, ShapeOfType DEF StopsWalk, Leaves, TypeOK
        <4> QED
          BY <3>1, <3>4, <4>1 DEF StopsWalk
      <3>5. CASE ServesGap(u)
        <4>1. at'[u] = "sleeping"
          BY <1>1, <3>5 DEF ServesGap, Sleeps, TypeOK
        <4> QED
          BY <3>1, <3>5, <4>1 DEF ServesGap
      <3> QED
        BY <1>4, <3>2, <3>3, <3>4, <3>5 DEF Walks
    <2> QED
      BY <1>2, <1>4, <2>1, <2>2 DEF SessionTypeOK, InSession, Walks
  <1> QED
    BY <1>3, <1>4, SessionSteps

-----------------------------------------------------------------------------
(***************************************************************************)
(* No step twice.  An ordinal is taken once, the users who are in a        *)
(* session are in different ones, and a user has issued of its session no  *)
(* step past the one it stands at.                                         *)
(***************************************************************************)
SessionsApart ==
    /\ \A t \in session_tags : t.session < next_session /\ t.id < next_index
    /\ \A u \in Users : InSession(u) => ordinal[u] < next_session
    /\ \A u, v \in Users : InSession(u) /\ InSession(v) /\ ordinal[u] = ordinal[v] => u = v
    /\ \A t \in session_tags, u \in Users :
          InSession(u) /\ t.session = ordinal[u] => t.step <= step[u]
    /\ \A a, b \in session_tags : a.id = b.id => a = b
    /\ NoStepTwice

\* Every step of a session window keeps the sessions apart.
LEMMA SessionsApartStep ==
    ASSUME SessionTypeOK, SessionsApart, OthersMove \/ \E u \in Users : Walks(u)
    PROVE  SessionsApart'
  <1>1. /\ next_index \in Nat /\ next_session \in Nat
        /\ \A t \in session_tags : t.id \in Nat /\ t.session \in Nat /\ t.step \in Nat
        /\ \A u \in Users : ordinal[u] \in Nat /\ step[u] \in Nat
    BY DEF SessionTypeOK, TypeOK
  <1>2. CASE OthersMove
    <2>1. UNCHANGED <<next_index, ordinal, step, next_session, session_tags>>
      BY <1>2 DEF OthersMove, Main, Tick, Reset, OpenWindow, Launch, CancelOutstanding,
                  Settle, CancelDelivered, AdapterRaises, vars
    <2> QED
      BY <2>1 DEF SessionsApart, NoStepTwice, InSession
  <1>3. ASSUME NEW u \in Users, Walks(u)
        PROVE  SessionsApart'
    <2>1. \A v \in Users \ {u} : ordinal'[v] = ordinal[v] /\ step'[v] = step[v]
      BY <1>3 DEF Walks
    <2>2. CASE StepsOn(u)
      <3>1. /\ session_tags' = session_tags
               \cup {[id |-> next_index, session |-> ordinal[u], step |-> step[u] + 1]}
            /\ ordinal'[u] = ordinal[u] /\ step'[u] = step[u] + 1 /\ InSession(u)
            /\ next_session' = next_session /\ next_index' = next_index + 1
        BY <2>2 DEF StepsOn, StepsLeft, Issues
      <3>2. \A v \in Users : InSession(v)' <=> InSession(v)
        BY <1>1, <2>1, <3>1 DEF InSession
      <3> QED
        BY <1>1, <2>1, <3>1, <3>2 DEF SessionsApart, NoStepTwice
    <2>3. CASE OpensNext(u)
      <3>1. /\ session_tags' = session_tags
               \cup {[id |-> next_index, session |-> next_session, step |-> 1]}
            /\ ordinal'[u] = next_session /\ step'[u] = 1
            /\ next_session' = next_session + 1 /\ next_index' = next_index + 1
        BY <2>3 DEF OpensNext, Issues
      <3>2. \A v \in Users \ {u} : InSession(v)' <=> InSession(v)
        BY <2>1 DEF InSession
      <3> QED
        BY <1>1, <2>1, <3>1, <3>2 DEF SessionsApart, NoStepTwice
    <2>4. CASE StopsWalk(u)
      <3>1. /\ session_tags' = session_tags /\ ~InSession(u)'
            /\ next_session' \in {next_session, next_session + 1} /\ next_index' = next_index
        BY <2>4 DEF StopsWalk, Leaves, InSession
      <3>2. \A v \in Users \ {u} : InSession(v)' <=> InSession(v)
        BY <2>1 DEF InSession
      <3> QED
        BY <1>1, <2>1, <3>1, <3>2 DEF SessionsApart, NoStepTwice
    <2>5. CASE ServesGap(u)
      <3>1. /\ session_tags' = session_tags /\ ordinal'[u] = ordinal[u] /\ step'[u] = step[u]
            /\ next_session' = next_session /\ next_index' = next_index
        BY <2>5 DEF ServesGap, Sleeps
      <3>2. \A v \in Users : InSession(v)' <=> InSession(v)
        BY <2>1, <3>1 DEF InSession
      <3> QED
        BY <1>1, <2>1, <3>1, <3>2 DEF SessionsApart, NoStepTwice
    <2> QED
      BY <1>3, <2>2, <2>3, <2>4, <2>5 DEF Walks
  <1> QED
    BY <1>2, <1>3

-----------------------------------------------------------------------------
(***************************************************************************)
(* The order of a walk.  A step past the first is issued when the record   *)
(* of the step before it is there and the captured gap after that one has  *)
(* gone by; the step in flight at a user, and the sleep before the next,   *)
(* are where this is known before the window is reduced.                   *)
(***************************************************************************)
Preceded(t, issued) ==
    t.step > 1 =>
        \E r \in records : \E tr \in TagOf(r) :
            /\ tr.session = t.session
            /\ tr.step = t.step - 1
            /\ issued >= r.end_ts + ShapeOf(tr.session)[tr.step]

InOrder ==
    /\ \A s \in Closed : TagOf(s) # {} /\ \A ts \in TagOf(s) : Preceded(ts, s.issued_ts)
    /\ \A u \in Users : Busy(u) =>
          \E t \in session_tags : /\ t.id = flight[u].id
                                  /\ t.session = ordinal[u] /\ t.step = step[u]
                                  /\ Preceded(t, flight[u].issued_ts)
    /\ \A u \in Users : UserPhase /\ at[u] = "sleeping" /\ InSession(u) =>
          \E r \in records : \E t \in TagOf(r) :
              /\ t.session = ordinal[u] /\ t.step = step[u]
              /\ wake[u] >= r.end_ts + Gap(u)
    /\ \A u \in Users : (phase = "resetting" \/ UserPhase) /\ at[u] \in {"ready", "done"} =>
          step[u] = 0

\* A step is preceded as long as the records and the tags only grow.
LEMMA StaysPreceded ==
    ASSUME session_tags \subseteq session_tags',
           \A r \in records : \E q \in records' : q.id = r.id /\ q.end_ts = r.end_ts
    PROVE  \A t, i : Preceded(t, i) => Preceded(t, i)'
  <1> SUFFICES ASSUME NEW t, NEW i, Preceded(t, i), t.step > 1
               PROVE  \E r \in records' : \E tr \in TagOf(r)' :
                          /\ tr.session = t.session
                          /\ tr.step = t.step - 1
                          /\ i >= r.end_ts + ShapeOf(tr.session)'[tr.step]
    BY DEF Preceded
  <1>1. PICK r \in records : \E tr \in TagOf(r) :
            /\ tr.session = t.session
            /\ tr.step = t.step - 1
            /\ i >= r.end_ts + ShapeOf(tr.session)[tr.step]
    BY DEF Preceded
  <1>2. PICK q \in records' : q.id = r.id /\ q.end_ts = r.end_ts
    BY <1>1
  <1>3. TagOf(r) \subseteq TagOf(q)'
    BY <1>2 DEF TagOf
  <1> QED
    BY <1>1, <1>2, <1>3 DEF ShapeOf

\* Every step of a session window keeps the walks in order.
LEMMA InOrderStep ==
    ASSUME SessionTypeOK, TypeOK', Accounting, Stamped, SessionsApart, InOrder,
           OthersMove \/ \E u \in Users : Walks(u)
    PROVE  InOrder'
  <1>0. /\ TypeOK /\ next_index \in Nat /\ now \in Nat
        /\ \A r \in Closed : r.id \in Nat /\ r.id < next_index /\ r.end_ts \in Nat
                             /\ r.issued_ts \in Nat
        /\ \A u \in Users : Busy(u) => flight[u].id \in Nat /\ flight[u].id < next_index
        /\ \A a, b \in session_tags : a.id = b.id => a = b
        /\ \A a \in session_tags : a.id \in Nat /\ a.id < next_index
    <2>1. TypeOK /\ next_index \in Nat /\ now \in Nat
      BY DEF SessionTypeOK, TypeOK
    <2>2. \A r \in Closed : r.id \in Nat /\ r.id < next_index /\ r.end_ts \in Nat
                            /\ r.issued_ts \in Nat
      BY <2>1 DEF Accounting, ListsSound, Closed, ClosedIds, Ids, TypeOK, Record
    <2>3. \A u \in Users : Busy(u) => flight[u].id \in Nat /\ flight[u].id < next_index
      BY <2>1 DEF Accounting, FlightsApart, TypeOK
    <2>4. \A a \in session_tags : a.id \in Nat /\ a.id < next_index
      BY DEF SessionsApart, SessionTypeOK
    <2> QED
      BY <2>1, <2>2, <2>3, <2>4 DEF SessionsApart
  <1>1. CASE OthersMove
    <2>1. UNCHANGED <<ordinal, step, session_tags>>
      BY <1>1 DEF OthersMove
    <2>2. \A r : TagOf(r)' = TagOf(r)
      BY <2>1 DEF TagOf
    <2>3. \A u : InSession(u)' = InSession(u) /\ Gap(u)' = Gap(u)
      BY <2>1 DEF InSession, Gap, ShapeOf
    <2>4. ASSUME UNCHANGED <<at, wake, flight, records, sunk>>,
                 UserPhase' => UserPhase \/ phase = "resetting", phase' # "resetting" \/ phase' = phase
          PROVE  InOrder'
      <3>1. \A t, i : Preceded(t, i) => Preceded(t, i)'
        BY <2>1, <2>4, StaysPreceded
      <3>2. \A u \in Users : Busy(u)' <=> Busy(u)
        BY <2>4 DEF Busy
      <3>3. /\ \A s \in Closed' : TagOf(s)' # {} /\ \A ts \in TagOf(s)' : Preceded(ts, s.issued_ts)'
            /\ \A u \in Users : Busy(u)' =>
                  \E t \in session_tags' : /\ t.id = flight'[u].id
                                           /\ t.session = ordinal'[u] /\ t.step = step'[u]
                                           /\ Preceded(t, flight[u].issued_ts)'
        BY <2>1, <2>2, <2>4, <3>1, <3>2 DEF InOrder, Closed
      <3>4. phase = "resetting" => \A u \in Users : at[u] = "ready"
        BY DEF Stamped
      <3> QED
        BY <2>1, <2>2, <2>3, <2>4, <3>3, <3>4 DEF InOrder
    <2>5. CASE Tick \/ Reset \/ OpenWindow \/ UNCHANGED vars
      BY <2>4, <2>5 DEF Tick, Reset, OpenWindow, vars, UserPhase
    <2>6. CASE Launch
      <3>1. /\ UNCHANGED <<flight, records, sunk>> /\ phase = "warmup" /\ phase' = "spreading"
            /\ \A u \in Users : at[u] = "done" /\ at'[u] = "sleeping"
        BY <2>6 DEF Launch, BarrierPassed
      <3>2. \A t, i : Preceded(t, i) => Preceded(t, i)'
        BY <2>1, <3>1, StaysPreceded
      <3>3. \A u \in Users : ~Busy(u)' /\ ~InSession(u)'
        BY <2>1, <3>1 DEF Busy, InSession, InOrder, UserPhase
      <3>4. \A s \in Closed' : TagOf(s)' # {} /\ \A ts \in TagOf(s)' : Preceded(ts, s.issued_ts)'
        BY <2>2, <3>1, <3>2 DEF InOrder, Closed
      <3> QED
        BY <3>1, <3>3, <3>4 DEF InOrder
    <2>7. CASE CancelOutstanding
      <3>1. /\ UNCHANGED <<flight, records, sunk>> /\ phase = "measuring" /\ phase' = "settling"
            /\ \A u \in Users : Busy(u)' => Busy(u)
        BY <1>0, <2>7 DEF CancelOutstanding, Busy, TypeOK
      <3>2. \A t, i : Preceded(t, i) => Preceded(t, i)'
        BY <2>1, <3>1, StaysPreceded
      <3>3. /\ \A s \in Closed' : TagOf(s)' # {} /\ \A ts \in TagOf(s)' : Preceded(ts, s.issued_ts)'
            /\ \A u \in Users : Busy(u)' =>
                  \E t \in session_tags' : /\ t.id = flight'[u].id
                                           /\ t.session = ordinal'[u] /\ t.step = step'[u]
                                           /\ Preceded(t, flight[u].issued_ts)'
        BY <2>1, <2>2, <3>1, <3>2 DEF InOrder, Closed
      <3> QED
        BY <3>1, <3>3 DEF InOrder, UserPhase
    <2>8. CASE Settle
      <3>1. /\ UNCHANGED <<at, flight, sunk>> /\ phase = "settling"
            /\ phase' \in {"void", "reduced"}
            /\ records' = records \/ records' = ApplyBoundaryRules(Joined, t0)
        BY <2>8 DEF Settle
      <3>2. /\ \A s \in Closed' : \E q \in Closed : q.id = s.id /\ q.issued_ts = s.issued_ts
            /\ \A r \in records : \E q \in records' : q.id = r.id /\ q.end_ts = r.end_ts
        <4>1. CASE records' = records
          BY <3>1, <4>1 DEF Closed
        <4>2. CASE records' = ApplyBoundaryRules(Joined, t0)
          <5>1. \A s \in records' : \E q \in Closed : q.id = s.id /\ q.issued_ts = s.issued_ts
            BY <1>0, <4>2, RulingStamps DEF Stamped
          <5>2. \A r \in records : \E q \in records' : q.id = r.id /\ q.end_ts = r.end_ts
            <6>1. \A r \in records : r \in Record /\ r \in Joined /\ t0 \in Nat
              BY <1>0 DEF TypeOK, Joined
            <6> QED
              BY <4>2, <6>1, RuledType DEF ApplyBoundaryRules
          <5> QED
            BY <3>1, <5>1, <5>2 DEF Closed
        <4> QED
          BY <3>1, <4>1, <4>2
      <3>3. \A t, i : Preceded(t, i) => Preceded(t, i)'
        BY <2>1, <3>2, StaysPreceded
      <3>4. \A s \in Closed' : TagOf(s)' # {} /\ \A ts \in TagOf(s)' : Preceded(ts, s.issued_ts)'
        BY <2>2, <3>2, <3>3 DEF InOrder, TagOf
      <3>5. \A u \in Users : ~Busy(u)'
        BY <2>8, <3>1 DEF Settle, Idle, Busy
      <3> QED
        BY <3>1, <3>4, <3>5 DEF InOrder, UserPhase
    <2>9. ASSUME NEW u \in Users, CancelDelivered(u)
          PROVE  InOrder'
      <3>1. /\ phase = "settling" /\ phase' = "settling" /\ Busy(u) /\ ~Busy(u)'
            /\ \A v \in Users \ {u} : flight'[v] = flight[v] /\ (Busy(v)' <=> Busy(v))
        BY <1>0, <2>9 DEF CancelDelivered, Busy, TypeOK
      <3>2. /\ records \subseteq records'
            /\ \A s \in Closed' : \/ s \in Closed
                                  \/ s.id = flight[u].id /\ s.issued_ts = flight[u].issued_ts
        BY <2>9, FilledStamps DEF CancelDelivered, PartialRecord, Closed
      <3>3. \A t, i : Preceded(t, i) => Preceded(t, i)'
        BY <2>1, <3>2, StaysPreceded
      <3>4. PICK t \in session_tags : t.id = flight[u].id /\ Preceded(t, flight[u].issued_ts)
        BY <3>1 DEF InOrder
      <3>5. \A s \in Closed' : TagOf(s)' # {} /\ \A ts \in TagOf(s)' : Preceded(ts, s.issued_ts)'
        <4>1. ASSUME NEW s, s.id = flight[u].id, s.issued_ts = flight[u].issued_ts
              PROVE  TagOf(s) # {} /\ \A ts \in TagOf(s) : Preceded(ts, s.issued_ts)
          <5>1. TagOf(s) = {t}
            BY <1>0, <3>4, <4>1 DEF TagOf
          <5> QED
            BY <3>4, <4>1, <5>1
        <4>2. \A s \in Closed' : TagOf(s) # {} /\ \A ts \in TagOf(s) : Preceded(ts, s.issued_ts)
          BY <3>2, <4>1 DEF InOrder
        <4> QED
          BY <2>2, <3>3, <4>2
      <3>6. \A v \in Users : Busy(v)' =>
               \E tv \in session_tags' : /\ tv.id = flight'[v].id
                                         /\ tv.session = ordinal'[v] /\ tv.step = step'[v]
                                         /\ Preceded(tv, flight[v].issued_ts)'
        <4> SUFFICES ASSUME NEW v \in Users, Busy(v)'
                     PROVE  \E tv \in session_tags : /\ tv.id = flight'[v].id
                                         /\ tv.session = ordinal[v] /\ tv.step = step[v]
                                         /\ Preceded(tv, flight[v].issued_ts)'
          BY <2>1
        <4>1. v # u /\ Busy(v) /\ flight'[v] = flight[v]
          BY <3>1
        <4> QED
          BY <3>3, <4>1 DEF InOrder
      <3> QED
        BY <3>1, <3>5, <3>6 DEF InOrder, UserPhase
    <2>10. ASSUME NEW u \in Users, AdapterRaises(u)
           PROVE  InOrder'
      <3>1. /\ UNCHANGED <<records, sunk, wake>>
            /\ \A v \in Users : at'[v] # "raised" => at'[v] = at[v]
            /\ \A v \in Users : Busy(v)' => Busy(v) /\ flight'[v] = flight[v]
            /\ UserPhase' => UserPhase
            /\ phase' # "resetting"
        BY <1>0, <2>10 DEF AdapterRaises, Busy, TypeOK, UserPhase
      <3>2. \A t, i : Preceded(t, i) => Preceded(t, i)'
        BY <2>1, <3>1, StaysPreceded
      <3>3. \A s \in Closed' : TagOf(s)' # {} /\ \A ts \in TagOf(s)' : Preceded(ts, s.issued_ts)'
        BY <2>2, <3>1, <3>2 DEF InOrder, Closed
      <3>4. \A v \in Users : Busy(v)' =>
               \E tv \in session_tags' : /\ tv.id = flight'[v].id
                                         /\ tv.session = ordinal'[v] /\ tv.step = step'[v]
                                         /\ Preceded(tv, flight[v].issued_ts)'
        BY <2>1, <3>1, <3>2 DEF InOrder
      <3> QED
        BY <2>1, <2>2, <2>3, <3>1, <3>3, <3>4 DEF InOrder
    <2> QED
      BY <1>1, <2>5, <2>6, <2>7, <2>8, <2>9, <2>10 DEF OthersMove, Main
  <1>2. ASSUME NEW u \in Users, Walks(u)
        PROVE  InOrder'
    <2>1. /\ UserPhase /\ phase' = phase /\ sunk' = sunk
          /\ now' \in Nat /\ now <= now'
          /\ \A v \in Users \ {u} : /\ at'[v] = at[v] /\ flight'[v] = flight[v]
                                    /\ ordinal'[v] = ordinal[v] /\ step'[v] = step[v]
                                    /\ wake'[v] = wake[v]
          /\ \/ /\ at'[u] = "waiting"
                /\ flight'[u] = [id |-> next_index, issued_ts |-> now']
             \/ at'[u] \in {"done", "sleeping"}
      BY <1>0, <1>2, MoveShape DEF Walks, UserMoves
    <2>2. /\ records \subseteq records'
          /\ at[u] = "waiting" =>
                \E r \in records' : r.id = flight[u].id /\ r.end_ts = now
          /\ \A s \in records' :
                \/ s \in records
                \/ at[u] = "waiting" /\ s.id = flight[u].id /\ s.issued_ts = flight[u].issued_ts
      BY <1>2, FilledStamps DEF Walks, UserMoves
    <2>3. /\ session_tags \subseteq session_tags'
          /\ \A t \in session_tags' : t \in session_tags \/ t.id = next_index
      BY <1>2 DEF Walks, StepsOn, OpensNext, StopsWalk, ServesGap
    <2>4. \A t, i : Preceded(t, i) => Preceded(t, i)'
      BY <2>2, <2>3, StaysPreceded
    <2>5. \A r : r.id \in Nat /\ r.id < next_index => TagOf(r)' = TagOf(r)
      BY <1>0, <2>3 DEF TagOf
    <2>6. ASSUME at[u] = "waiting"
          PROVE  /\ flight[u].id \in Nat /\ flight[u].id < next_index
                 /\ \E t \in session_tags : /\ t.id = flight[u].id
                                            /\ t.session = ordinal[u] /\ t.step = step[u]
                                            /\ Preceded(t, flight[u].issued_ts)
      <3>1. Busy(u)
        BY <2>6 DEF Busy
      <3> QED
        BY <1>0, <3>1 DEF InOrder
    <2>7. \A s \in Closed' : TagOf(s)' # {} /\ \A ts \in TagOf(s)' : Preceded(ts, s.issued_ts)'
      <3> SUFFICES ASSUME NEW s \in Closed'
                   PROVE  TagOf(s)' # {} /\ \A ts \in TagOf(s)' : Preceded(ts, s.issued_ts)'
        OBVIOUS
      <3>1. CASE s \in Closed
        <4>1. TagOf(s)' = TagOf(s)
          BY <1>0, <2>5, <3>1
        <4> QED
          BY <2>4, <3>1, <4>1 DEF InOrder
      <3>2. CASE at[u] = "waiting" /\ s.id = flight[u].id /\ s.issued_ts = flight[u].issued_ts
        <4>1. PICK t \in session_tags : t.id = flight[u].id /\ Preceded(t, flight[u].issued_ts)
          BY <2>6, <3>2
        <4>2. TagOf(s)' = TagOf(s)
          BY <2>5, <2>6, <3>2
        <4>3. TagOf(s) = {t}
          BY <1>0, <3>2, <4>1 DEF TagOf
        <4> QED
          BY <2>4, <3>2, <4>1, <4>2, <4>3
      <3> QED
        BY <2>1, <2>2, <3>1, <3>2 DEF Closed
    <2>8. ASSUME at[u] = "waiting"
          PROVE  \E r \in records' : \E t \in TagOf(r)' :
                    /\ r.end_ts = now /\ t.session = ordinal[u] /\ t.step = step[u]
      <3>1. PICK r \in records' : r.id = flight[u].id /\ r.end_ts = now
        BY <2>2, <2>8
      <3>2. PICK t \in session_tags : /\ t.id = flight[u].id
                                      /\ t.session = ordinal[u] /\ t.step = step[u]
        BY <2>6, <2>8
      <3>3. t \in TagOf(r)'
        BY <2>3, <3>1, <3>2 DEF TagOf
      <3> QED
        BY <3>1, <3>2, <3>3
    <2>9. ASSUME NEW v \in Users, Busy(v)'
          PROVE  \E t \in session_tags' : /\ t.id = flight'[v].id
                                          /\ t.session = ordinal'[v] /\ t.step = step'[v]
                                          /\ Preceded(t, flight[v].issued_ts)'
      <3>1. CASE v # u
        <4>1. Busy(v)
          BY <2>1, <2>9, <3>1 DEF Busy
        <4> QED
          BY <2>1, <2>3, <2>4, <3>1, <4>1 DEF InOrder
      <3>2. CASE v = u /\ StepsOn(u)
        <4>1. PICK t \in session_tags' :
                 t = [id |-> next_index, session |-> ordinal[u], step |-> step[u] + 1]
          BY <3>2 DEF StepsOn
        <4>7. ordinal'[u] = ordinal[u] /\ step'[u] = step[u] + 1
          BY <3>2 DEF StepsOn
        <4>2. flight'[u] = [id |-> next_index, issued_ts |-> now']
          BY <2>1, <2>9, <3>2 DEF Busy
        <4>3. step[u] \in 1 .. Len(ShapeOf(ordinal[u])) /\ ordinal[u] \in Nat
          <5>1. step[u] \in Nat /\ step[u] > 0 /\ step[u] <= Len(ShapeOf(ordinal[u]))
                /\ ordinal[u] \in Nat
            BY <3>2 DEF StepsOn, StepsLeft, InSession, SessionTypeOK
          <5>2. Len(ShapeOf(ordinal[u])) \in Nat
            BY <5>1, ShapeOfType
          <5> QED
            BY <5>1, <5>2
        <4>4. Gap(u) \in Nat
          BY <4>3, ShapeOfType DEF Gap
        <4>5. \E r \in records' : \E tr \in TagOf(r)' :
                 tr.session = ordinal[u] /\ tr.step = step[u] /\ now' >= r.end_ts + Gap(u)
          <5>1. CASE at[u] = "waiting" /\ Gap(u) = 0
            BY <1>0, <2>1, <2>8, <5>1
          <5>2. CASE at[u] = "sleeping" /\ now >= wake[u]
            <6>1. PICK r \in records : \E tr \in TagOf(r) :
                     /\ tr.session = ordinal[u] /\ tr.step = step[u]
                     /\ wake[u] >= r.end_ts + Gap(u)
              BY <2>1, <3>2, <5>2 DEF InOrder, StepsOn, StepsLeft
            <6>2. /\ TagOf(r)' = TagOf(r) /\ r.end_ts \in Nat /\ wake[u] \in Nat
              BY <1>0, <2>5 DEF Closed, TypeOK
            <6>3. now' >= r.end_ts + Gap(u)
              BY <1>0, <2>1, <4>4, <5>2, <6>1, <6>2
            <6> QED
              BY <2>2, <6>1, <6>2, <6>3
          <5>3. CASE at[u] = "ready"
            BY <2>1, <4>3, <5>3 DEF InOrder
          <5> QED
            BY <3>2, <5>1, <5>2, <5>3 DEF StepsOn
        <4>6. Preceded(t, flight[u].issued_ts)'
          <5>1. t.session = ordinal[u] /\ t.step - 1 = step[u]
            BY <4>1, <4>3
          <5>2. \A n : ShapeOf(n)' = ShapeOf(n)
            BY DEF ShapeOf
          <5> QED
            BY <4>2, <4>5, <5>1, <5>2 DEF Preceded, Gap
        <4> QED
          BY <3>2, <4>1, <4>2, <4>6, <4>7
      <3>3. CASE v = u /\ OpensNext(u)
        <4>1. PICK t \in session_tags' :
                 t = [id |-> next_index, session |-> next_session, step |-> 1]
          BY <3>3 DEF OpensNext
        <4>4. ordinal'[u] = next_session /\ step'[u] = 1
          BY <3>3 DEF OpensNext
        <4>2. flight'[u] = [id |-> next_index, issued_ts |-> now']
          BY <2>1, <2>9, <3>3 DEF Busy
        <4>3. Preceded(t, flight[u].issued_ts)'
          BY <4>1 DEF Preceded
        <4> QED
          BY <3>3, <4>1, <4>2, <4>3, <4>4
      <3>4. CASE v = u /\ (StopsWalk(u) \/ ServesGap(u))
        BY <1>0, <2>9, <3>4 DEF StopsWalk, ServesGap, Leaves, Sleeps, Busy, TypeOK
      <3> QED
        BY <1>2, <3>1, <3>2, <3>3, <3>4 DEF Walks
    <2>10. ASSUME NEW v \in Users, at'[v] = "sleeping", InSession(v)'
           PROVE  \E r \in records' : \E t \in TagOf(r)' :
                     /\ t.session = ordinal'[v] /\ t.step = step'[v]
                     /\ wake'[v] >= r.end_ts + Gap(v)'
      <3>1. CASE v # u
        <4>1. /\ at[v] = "sleeping" /\ InSession(v) /\ Gap(v)' = Gap(v)
              /\ ordinal'[v] = ordinal[v] /\ step'[v] = step[v] /\ wake'[v] = wake[v]
          BY <2>1, <2>10, <3>1 DEF InSession, Gap, ShapeOf
        <4>2. PICK r \in records : \E t \in TagOf(r) :
                 /\ t.session = ordinal[v] /\ t.step = step[v]
                 /\ wake[v] >= r.end_ts + Gap(v)
          BY <2>1, <4>1 DEF InOrder
        <4>3. TagOf(r)' = TagOf(r)
          BY <1>0, <2>5 DEF Closed
        <4> QED
          BY <2>2, <4>1, <4>2, <4>3
      <3>2. CASE v = u
        <4>1. ServesGap(u)
          BY <1>0, <1>2, <2>10, <3>2
             DEF Walks, StepsOn, OpensNext, StopsWalk, Issues, Leaves, TypeOK
        <4>2. /\ at[u] = "waiting" /\ wake'[u] = now + Gap(u)
              /\ ordinal'[u] = ordinal[u] /\ step'[u] = step[u]
          <5>1. at[u] \in {"ready", "sleeping", "waiting"} /\ Busy(u)
            BY <1>2, <4>1 DEF Walks, UserMoves, ServesGap, Sleeps
          <5> QED
            BY <4>1, <5>1 DEF ServesGap, Busy
        <4>3. Gap(u)' = Gap(u) /\ Gap(u) \in Nat
          <5>1. step[u] \in Nat /\ step[u] > 0 /\ step[u] <= Len(ShapeOf(ordinal[u]))
                /\ ordinal[u] \in Nat
            BY <4>2 DEF InSession, SessionTypeOK
          <5>2. Len(ShapeOf(ordinal[u])) \in Nat
            BY <5>1, ShapeOfType
          <5>3. step[u] \in 1 .. Len(ShapeOf(ordinal[u]))
            BY <5>1, <5>2
          <5>4. Gap(u) \in Nat
            BY <5>1, <5>3, ShapeOfType DEF Gap
          <5> QED
            BY <4>2, <5>4 DEF Gap, ShapeOf
        <4> QED
          BY <1>0, <2>8, <3>2, <4>2, <4>3
      <3> QED
        BY <3>1, <3>2
    <2>11. ASSUME NEW v \in Users, at'[v] \in {"ready", "done"}
           PROVE  step'[v] = 0
      <3>1. CASE v # u
        BY <2>1, <2>11, <3>1 DEF InOrder
      <3>2. CASE v = u
        BY <1>0, <1>2, <2>11, <3>2
           DEF Walks, StepsOn, OpensNext, StopsWalk, ServesGap, Issues, Sleeps, TypeOK
      <3> QED
        BY <3>1, <3>2
    <2> QED
      BY <2>7, <2>9, <2>10, <2>11 DEF InOrder
  <1> QED
    BY <1>1, <1>2

-----------------------------------------------------------------------------
(* What holds of every window with a session plan *)

SessionInv ==
    /\ SessionTypeOK /\ Accounting /\ Stamped /\ OneAtATime
    /\ SessionsApart /\ InOrder

\* No session is walked yet when run_window starts.
LEMMA SessionInvInit == SessionInit => SessionInv
  <1> SUFFICES ASSUME SessionInit PROVE SessionInv
    OBVIOUS
  <1>1. Init
    BY DEF SessionInit
  <1>2. Accounting /\ Stamped /\ OneAtATime /\ TypeOK
    BY <1>1, AccountingInit, StampedInit, OneAtATimeInit DEF Stamped
  <1>3. \A u \in Users : at[u] = "ready" /\ ~Busy(u)
    BY <1>1 DEF Init, Busy
  <1>4. Closed = {} /\ records = {}
    BY <1>1 DEF Init, Closed
  <1>5. SessionTypeOK
    <2>1. Len(ShapeOf(0)) \in Nat
      BY ShapeOfType
    <2> QED
      BY <1>2, <1>3, <2>1 DEF SessionInit, SessionTypeOK
  <1>6. SessionsApart
    BY DEF SessionInit, SessionsApart, InSession, NoStepTwice
  <1>7. InOrder
    BY <1>3, <1>4 DEF SessionInit, InOrder, InSession
  <1> QED
    BY <1>2, <1>5, <1>6, <1>7 DEF SessionInv

\* Every step of a window with a session plan keeps all of it.
LEMMA SessionInvStep ==
    ASSUME SessionInv, [SessionNext]_svars
    PROVE  SessionInv'
  <1>1. WindowStep /\ (OthersMove \/ \E u \in Users : Walks(u))
    BY SessionSteps DEF SessionInv
  <1>2. TypeOK'
    BY <1>1, TypeStep DEF SessionInv, SessionTypeOK
  <1>3. SessionTypeOK'
    BY <1>2, SessionTypeStep DEF SessionInv
  <1>4. Accounting' /\ Stamped' /\ OneAtATime'
    BY <1>1, <1>2, AccountingStep, StampedStep, OneAtATimeStep DEF SessionInv
  <1>5. SessionsApart'
    BY <1>1, SessionsApartStep DEF SessionInv
  <1>6. InOrder'
    BY <1>1, <1>2, InOrderStep DEF SessionInv
  <1> QED
    BY <1>3, <1>4, <1>5, <1>6 DEF SessionInv

\* The sessions are typed, apart and walked in order, and the requests that carry them
\* are accounted for and stamped, throughout run_window with a session plan.
THEOREM SessionInvariant == SessionSpec => []SessionInv
  BY SessionInvInit, SessionInvStep, PTL DEF SessionSpec

\* No two requests of a window are the same step of the same session: the ordinal is
\* never taken twice, not even when the window opens (driver.py:330-334, 508-511).
THEOREM NoStepIsRepeated == SessionSpec => []NoStepTwice
  <1>1. SessionInv => NoStepTwice
    BY DEF SessionInv, SessionsApart
  <1> QED
    BY <1>1, SessionInvariant, PTL

\* Every record of a reduced window, a cancelled one included, knows its step, and a step
\* past the first was issued only after the step before it ended and its gap was served.
THEOREM SessionsWalkedInOrder == SessionSpec => []StepsInOrder
  <1>1. SessionInv => StepsInOrder
    BY DEF SessionInv, InOrder, StepsInOrder, Preceded, Closed
  <1> QED
    BY <1>1, SessionInvariant, PTL

\* With a session plan too a reduced window publishes one record per request issued, its
\* cohorts agree, at most a request per user is issued past the close and the peak in
\* flight stays within the fleet.
THEOREM SessionWindowSound ==
    SessionSpec => [](EveryRequestOnce /\ CohortsAgree /\ ResidualBounded /\ PeakWithinFleet)
  <1>1. SessionInv => EveryRequestOnce /\ CohortsAgree /\ ResidualBounded /\ PeakWithinFleet
    BY StampedCohorts, StampedResidual, PeakOfOwned DEF SessionInv, Accounting
  <1> QED
    BY <1>1, SessionInvariant, PTL

\* And it implements the request ledger.
THEOREM SessionWindowKeepsLedger == SessionSpec => KeepsLedger
  <1>1. SessionInit => Ledger!LedgerInit
    BY LedgerStart DEF SessionInit
  <1>2. SessionInv /\ SessionInv' /\ [SessionNext]_svars => [Ledger!LedgerNext]_(Ledger!ledger)
    BY SessionSteps, LedgerStep DEF SessionInv, SessionTypeOK
  <1> QED
    BY <1>1, <1>2, SessionInvariant, PTL DEF SessionSpec, KeepsLedger, Ledger!LedgerSpec
=============================================================================

------------------------- MODULE ReportClaimProofs -------------------------
(***************************************************************************)
(* What no author, no grading and no rebuild can make of a report, for     *)
(* every deployment and every draft: one that hides an unknown and is not  *)
(* non-conforming, one that sheds the caveats of its ladder, one whose     *)
(* tier escapes the unpriced-prefill rule by quoting another context.      *)
(***************************************************************************)
EXTENDS ReportClaim, TLAPS

\* A finding that is an error of a fatal rule decides the level.
LEMMA FatalDecides ==
  ASSUME NEW leaf, NEW blames, Error("C1", leaf, blames) \in C1
  PROVE  Level = "non-conforming"
<1> DEFINE x == Error("C1", leaf, blames)
<1>1. x.severity = "error" /\ x.rule = "C1"
  BY DEF Error
<1> HIDE DEF x
<1>2. x \in Findings
  BY DEF Findings, x
<1>3. x \in Errors /\ x.rule \in Fatal
  BY <1>1, <1>2 DEF Errors, Fatal
<1> QED BY <1>3 DEF Level

\* A leaf that is a placeholder, or an exempt-less null nobody justified, is an error of C1.
LEMMA HiddenIsAnError ==
  ASSUME NEW leaf \in Held,
         Placeholder(leaf) \/ (leaf \notin Exempt /\ value[leaf] = Null /\ ~Justified(leaf))
  PROVE  Error("C1", leaf, {}) \in C1
<1>1. leaf \in {l \in Held \ Exempt : value[l] = Null /\ ~Justified(l)}
               \cup {l \in Held : Stale(l) \/ Placeholder(l)}
  OBVIOUS
<1> QED BY <1>1 DEF C1

\* A report better than non-conforming holds no scaffolding, no non-finite number and no
\* null without its story, whatever the other rules found (check, _null_is_justified).
THEOREM NothingIsHidden == Spec => []NothingHidden
<1>1. NothingHidden
  <2> SUFFICES ASSUME NEW leaf \in Held,
                      \/ value[leaf] \in {Todo, NaN}
                      \/ /\ value[leaf] = Null /\ leaf \notin Exempt
                         /\ reason[leaf] # "stated" /\ leaf \notin assumed
               PROVE  Level = "non-conforming"
    BY DEF NothingHidden
  <2>1. Placeholder(leaf) \/ (leaf \notin Exempt /\ value[leaf] = Null /\ ~Justified(leaf))
    BY DEF Placeholder, Justified, IsNone
  <2> QED BY <2>1, HiddenIsAnError, FatalDecides
<1> QED BY <1>1, PTL

\* The inductive invariant: a note is an opening and its caveats, which are those of the
\* ladder, and every context quoted is a number or none.
ClaimInv ==
  /\ truth \in Truths
  /\ DOMAIN value = Leaves
  /\ \A leaf \in Leaves : leaf[2] = "context_tokens" => Contextual(value[leaf])
  /\ note = [opening |-> note.opening, caveats |-> note.caveats]
  /\ CaveatsRideAlong

LEMMA InitClaim == Init => ClaimInv
<1> SUFFICES ASSUME Init PROVE ClaimInv
  OBVIOUS
<1>1. CaveatsRideAlong /\ note = [opening |-> note.opening, caveats |-> note.caveats]
  BY DEF Init, CaveatsRideAlong
<1>2. PICK pair \in Pairs : \E one \in Spoils(pair[1]), two \in Spoils(pair[2]) :
         value = [leaf \in Leaves |-> CASE leaf = pair[1] -> one[1]
                                         [] leaf = pair[2] -> two[1]
                                         [] OTHER -> truth[leaf]]
  BY DEF Init
<1>3. PICK one \in Spoils(pair[1]), two \in Spoils(pair[2]) :
         value = [leaf \in Leaves |-> CASE leaf = pair[1] -> one[1]
                                         [] leaf = pair[2] -> two[1]
                                         [] OTHER -> truth[leaf]]
  BY <1>2
<1>4. truth \in Truths
  BY DEF Init
<1>5. ASSUME NEW leaf \in Leaves, leaf[2] = "context_tokens"
      PROVE  Contextual(value[leaf])
  <2>1. /\ Contextual(truth[leaf])
        /\ \A v \in Spoiled(leaf, truth[leaf]) : Contextual(v)
    BY <1>4, <1>5, ContextAssumption
  <2>2. ASSUME NEW spoil \in Spoils(leaf) PROVE Contextual(spoil[1])
    <3>1. \/ \E v \in Spoiled(leaf, truth[leaf]) \cup {Null, Absent, Todo} : spoil = <<v, "none">>
          \/ spoil \in {<<Null, "weak">>, <<Null, "todo">>, <<Null, "stated">>, <<truth[leaf], "stated">>}
      BY DEF Spoils
    <3>2. \/ \E v \in Spoiled(leaf, truth[leaf]) \cup {Null, Absent, Todo} : spoil[1] = v
          \/ spoil[1] \in {Null, truth[leaf]}
      BY <3>1
    <3>3. Contextual(Null) /\ Contextual(Absent) /\ Contextual(Todo)
      BY DEF Contextual
    <3> QED BY <2>1, <3>2, <3>3
  <2>3. \/ value[leaf] = one[1] /\ leaf = pair[1]
        \/ value[leaf] = two[1] /\ leaf = pair[2]
        \/ value[leaf] = truth[leaf]
    BY <1>3
  <2> QED BY <2>1, <2>2, <2>3
<1>6. DOMAIN value = Leaves
  BY <1>3
<1> QED BY <1>1, <1>4, <1>5, <1>6 DEF ClaimInv

LEMMA ClaimStep == ClaimInv /\ [Next]_vars => ClaimInv'
<1> SUFFICES ASSUME ClaimInv, [Next]_vars PROVE ClaimInv'
  OBVIOUS
<1>1. truth' = truth => Caveats' = Caveats
  BY DEF Caveats
<1>2. ASSUME UNCHANGED <<truth, value, claim, note>>
      PROVE  ClaimInv'
  BY <1>1, <1>2 DEF ClaimInv, CaveatsRideAlong
<1>3. CASE Raise
  <2>1. /\ UNCHANGED <<truth, value>>
        /\ claim' = Level
        /\ note' = IF note.opening = "draft" THEN [note EXCEPT !.opening = "graded"] ELSE note
    BY <1>3 DEF Raise
  <2>2. /\ note' = [opening |-> note'.opening, caveats |-> note.caveats]
        /\ note'.opening = IF note.opening = "draft" THEN "graded" ELSE note.opening
    BY <2>1 DEF ClaimInv
  <2> QED BY <1>1, <2>1, <2>2 DEF ClaimInv, CaveatsRideAlong
<1>4. CASE Reduce
  BY <1>1, <1>4 DEF Reduce, ClaimInv, CaveatsRideAlong
<1>5. ASSUME NEW leaf \in Leaves, Correct(leaf)
      PROVE  ClaimInv'
  <2>1. value' = [value EXCEPT ![leaf] = truth[leaf]] /\ UNCHANGED <<truth, claim, note>>
    BY <1>5 DEF Correct
  <2>2. DOMAIN value' = Leaves /\ value'[leaf] = truth[leaf]
        /\ \A l \in Leaves : l # leaf => value'[l] = value[l]
    BY <2>1 DEF ClaimInv
  <2>3. leaf[2] = "context_tokens" => Contextual(truth[leaf])
    BY ContextAssumption DEF ClaimInv
  <2>4. \A l \in Leaves : l[2] = "context_tokens" => Contextual(value'[l])
    BY <2>2, <2>3 DEF ClaimInv
  <2> QED BY <1>1, <2>1, <2>2, <2>4 DEF ClaimInv, CaveatsRideAlong
<1>6. CASE UNCHANGED vars
  BY <1>2, <1>6 DEF vars
<1> QED BY <1>3, <1>4, <1>5, <1>6 DEF Next

\* Every report of every history has a note of its ladder's caveats and contexts that are
\* numbers or none.
THEOREM ClaimInvariant == Spec => []ClaimInv
BY InitClaim, ClaimStep, PTL DEF Spec

\* The caveats of the ladder a report was built of outlive every later grading, and a
\* draft's paragraph never stands beside a claim (_cmd_conformance, _cmd_reduce).
THEOREM CaveatsStay == Spec => []CaveatsRideAlong
<1>1. ClaimInv => CaveatsRideAlong
  BY DEF ClaimInv
<1> QED BY <1>1, ClaimInvariant, PTL

-----------------------------------------------------------------------------
(* The rung that backs a tier. *)

MeasuredRows == {r \in Results : IsNumber(value[<<r, "context_tokens">>])}
Away(r, t) == Distance(value[<<r, "context_tokens">>], value[<<t, "context_tokens">>])
Before(r, q) == CASE r = "row1" -> TRUE [] r = "row2" -> q # "row1" [] OTHER -> q = "row3"

LEMMA BackingIs ==
  ASSUME NEW t
  PROVE  Backing(t) = {r \in MeasuredRows : \A q \in MeasuredRows :
                         Away(r, t) < Away(q, t) \/ (Away(r, t) = Away(q, t) /\ Before(r, q))}
BY Zenon DEF Backing, MeasuredRows, Away, Before

\* Of the rows that quote a context one is the nearest, the first of those as near.
LEMMA NearestExists ==
  ASSUME NEW S \in SUBSET Rows, S # {}, NEW f \in [S -> Int]
  PROVE  \E r \in S : \A q \in S : f[r] < f[q] \/ (f[r] = f[q] /\ Before(r, q))
<1> SUFFICES ASSUME \A r \in S : \E q \in S :
                       ~(f[r] < f[q]) /\ ~(f[r] = f[q] /\ Before(r, q))
             PROVE  FALSE
  OBVIOUS
<1>1. \A r \in S : r \in {"row1", "row2", "row3"} /\ f[r] \in Int
  BY DEF Rows
<1>2. ASSUME NEW r \in S
      PROVE  \E q \in S : f[q] < f[r] \/ (f[q] = f[r] /\ ~Before(r, q))
  BY <1>1
<1>3. /\ \A q \in {"row1", "row2", "row3"} : Before("row1", q)
      /\ Before("row2", "row2") /\ Before("row2", "row3") /\ Before("row3", "row3")
  BY DEF Before
<1>4. \A r \in S : r = "row1" \/ r = "row2" \/ r = "row3"
  BY <1>1
<1>5. CASE "row1" \in S
  <2>1. \E q \in S : f[q] < f["row1"]
    BY <1>1, <1>2, <1>3, <1>5
  <2> QED BY <1>1, <1>2, <1>3, <1>4, <1>5, <2>1
<1>6. CASE "row1" \notin S
  BY <1>1, <1>2, <1>3, <1>4, <1>6
<1> QED BY <1>5, <1>6

\* A row's context is a leaf.
LEMMA ContextLeaves ==
  /\ \A r \in Rows : <<r, "context_tokens">> \in Leaves
  /\ \A t \in Tiers : <<t, "context_tokens">> \in Leaves
<1>1. \A r \in Rows : r \in Sections /\ "context_tokens" \in Fields(r)
  BY DEF Rows, Sections, Fields
<1>2. \A t \in Tiers : t \in Sections /\ "context_tokens" \in Fields(t)
  BY DEF Tiers, Sections, Fields, Rows
<1> QED BY <1>1, <1>2 DEF Leaves

\* A tier that publishes a number read off a run is backed by a row of the run.
LEMMA SomeRowBacks ==
  ASSUME ClaimInv, NEW t \in Tiers, IsNumber(value[<<t, "context_tokens">>]),
         MeasuredRows # {}
  PROVE  Backing(t) # {} /\ Backing(t) \subseteq MeasuredRows
<1>1. MeasuredRows \in SUBSET Rows
  BY DEF MeasuredRows, Results
<1>2. \A r \in MeasuredRows \cup {t} : value[<<r, "context_tokens">>] \in Int
  <2>1. \A r \in MeasuredRows \cup {t} : /\ <<r, "context_tokens">> \in Leaves
                                         /\ IsNumber(value[<<r, "context_tokens">>])
    BY <1>1, ContextLeaves DEF MeasuredRows
  <2>2. \A r \in MeasuredRows \cup {t} : Contextual(value[<<r, "context_tokens">>])
    BY <2>1 DEF ClaimInv
  <2> QED BY <2>1, <2>2 DEF Contextual, IsNumber
<1> DEFINE f == [r \in MeasuredRows |-> Away(r, t)]
<1>3. f \in [MeasuredRows -> Int]
  BY <1>2 DEF Away, Distance
<1>4. PICK r \in MeasuredRows : \A q \in MeasuredRows :
         f[r] < f[q] \/ (f[r] = f[q] /\ Before(r, q))
  <2> HIDE DEF f
  <2> QED BY <1>1, <1>3, NearestExists
<1>5. r \in Backing(t)
  BY <1>4, BackingIs
<1>6. Backing(t) \subseteq MeasuredRows
  BY BackingIs
<1> QED BY <1>5, <1>6

\* A measured tier does not escape the unpriced-prefill warning by quoting a context no
\* rung ran (_check_c11, _backing_rungs).
THEOREM PrefillIsPriced == Spec => []NoTierEscapesPrefill
<1>1. ASSUME ClaimInv,
             NEW t \in Tiers, IsNumber(Users(t)), value[<<t, "provenance">>] \in {"M", "I"},
             IsNumber(value[<<t, "context_tokens">>]),
             NEW r0 \in Results, IsNumber(value[<<r0, "context_tokens">>]),
             \A r \in Results : IsNone(value[<<r, "prefill_tok_s">>]) /\ Overstated(r)
      PROVE  C11 # {}
  <2>1. MeasuredRows # {}
    BY <1>1 DEF MeasuredRows
  <2>2. PICK r \in Backing(t) : r \in Results
    BY <1>1, <2>1, SomeRowBacks DEF MeasuredRows
  <2>3. r \in Backed
    BY <1>1, <2>2 DEF Backed
  <2>4. Warning("C11", <<r, "prefill_tok_s">>) \in C11
    BY <1>1, <2>2, <2>3 DEF C11
  <2> QED BY <2>4
<1>2. ClaimInv => NoTierEscapesPrefill
  BY <1>1 DEF NoTierEscapesPrefill
<1> QED BY <1>2, ClaimInvariant, PTL
=============================================================================

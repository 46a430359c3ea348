-------------------------- MODULE SessionReplayProofs --------------------------
(***************************************************************************)
(* The memo of the session replay never changes a rendered text, for every  *)
(* shapes file, fleet, ladder and memo size; a profiled campaign is replayed *)
(* to its end unless its shared prefix was declared too long, its profile   *)
(* and its shapes read every transcript alike, and its shapes idle no longer *)
(* than its sessions did.                                                   *)
(***************************************************************************)
EXTENDS ProfiledReplay, SequenceTheorems, FiniteSetTheorems, WellFoundedInduction, TLAPS

Pieces == [by : Seq(Nat), tokens : Int]
Entries == [session : Nat, step : Nat, text : Seq(Pieces)]

\* An entry holds the text a fresh process would render, of a shape it would accept.
Sound(e) ==
  /\ e.session \in Nat
  /\ e.step \in 1..Len(shape(e.session))
  /\ e.text = PureText(e.session, e.step)
  /\ Replayable(e.session, e.step)

\* The inductive invariant: every remembered and every handed text is sound.
ReplayInv ==
  /\ plan \in Plans
  /\ window \in 1..Len(SessionBase)
  /\ ordinal \in Nat
  /\ recent \in Seq(Entries)
  /\ \A n \in DOMAIN recent : Sound(recent[n])
  /\ MemoBounded
  /\ DOMAIN at = Users
  /\ \A u \in Users : at[u] # None => Sound(at[u])

-----------------------------------------------------------------------------
(* The segment of a step.                                                  *)

\* Among the steps that reset up to k there is a last one.
LEMMA LastReset ==
  ASSUME NEW s \in Nat, NEW k \in Nat \ {0}
  PROVE  \E j \in 1..k : Resets(s, j) /\ \A i \in (j+1)..k : ~Resets(s, i)
<1> DEFINE T == {m \in 0..(k-1) : Resets(s, k - m)}
<1>1. T # {}
  <2>1. Resets(s, 1)
    BY DEF Resets
  <2>2. k - (k - 1) = 1 /\ k - 1 \in 0..(k-1)
    OBVIOUS
  <2> QED BY <2>1, <2>2
<1>2. \E m \in T : \A i \in T : ~(<<i, m>> \in OpToRel(<, Nat))
  <2>1. T \subseteq Nat
    OBVIOUS
  <2> HIDE DEF T
  <2> QED BY <1>1, <2>1, NatLessThanWellFounded, WFMin
<1>3. PICK m \in T : \A i \in T : ~(<<i, m>> \in OpToRel(<, Nat))
  BY <1>2
<1>4. \A i \in T : ~(i < m)
  <2>1. OpToRel(<, Nat) = {ss \in Nat \X Nat : ss[1] < ss[2]}
    BY DEF OpToRel
  <2>2. T \subseteq Nat
    OBVIOUS
  <2> HIDE DEF T
  <2> QED BY <1>3, <2>1, <2>2
<1>5. \A i \in (k-m+1)..k : ~Resets(s, i)
  <2> SUFFICES ASSUME NEW i \in (k-m+1)..k, Resets(s, i) PROVE FALSE
    OBVIOUS
  <2>1. k - i \in 0..(k-1) /\ k - (k - i) = i /\ k - i < m
    OBVIOUS
  <2> QED BY <1>4, <2>1
<1> QED BY <1>5

\* SegmentStart is that step.
LEMMA SegmentStartIs ==
  ASSUME NEW s \in Nat, NEW k \in Nat \ {0}
  PROVE  /\ SegmentStart(s, k) \in 1..k
         /\ Resets(s, SegmentStart(s, k))
         /\ \A i \in (SegmentStart(s, k) + 1)..k : ~Resets(s, i)
BY LastReset DEF SegmentStart

\* Two steps of which the later one's segment reaches back to the earlier one share it.
LEMMA SameSegment ==
  ASSUME NEW s \in Nat, NEW k \in Nat \ {0}, NEW c \in Nat \ {0},
         SegmentStart(s, k) <= c, c < k
  PROVE  SegmentStart(s, c) = SegmentStart(s, k)
<1> DEFINE a == SegmentStart(s, c)  b == SegmentStart(s, k)
<1>1. a \in 1..c /\ Resets(s, a) /\ \A i \in (a+1)..c : ~Resets(s, i)
  BY SegmentStartIs
<1>2. b \in 1..k /\ Resets(s, b) /\ \A i \in (b+1)..k : ~Resets(s, i)
  BY SegmentStartIs
<1> HIDE DEF a, b
<1> QED BY <1>1, <1>2 DEF a, b

-----------------------------------------------------------------------------
(* The filler of consecutive steps.                                        *)

\* Round-robin stays within the shapes.
LEMMA RoundRobin ==
  ASSUME NEW a \in Nat, NEW n \in Nat \ {0}
  PROVE  (a % n) + 1 \in 1..n
OBVIOUS

\* The session's shape and its prompts are well typed.
LEMMA ShapeType ==
  ASSUME ReplayAssumption, plan \in Plans, NEW s \in Nat
  PROVE  /\ shape(s) \in Seq(StepShapes)
         /\ Len(shape(s)) \in Nat \ {0}
         /\ \A n \in 1..Len(shape(s)) : Prompt(s, n) \in Nat
<1>1. plan.shapes \in Seq(Seq(StepShapes) \ {<<>>}) /\ plan.shapes # <<>>
  BY DEF ReplayAssumption, PlanAssumption
<1>2. Len(plan.shapes) \in Nat \ {0}
  BY <1>1
<1>3. (s % Len(plan.shapes)) + 1 \in 1..Len(plan.shapes)
  BY <1>2, RoundRobin
<1>4. shape(s) \in Seq(StepShapes) \ {<<>>}
  BY <1>1, <1>3 DEF shape
<1>5. ASSUME NEW n \in 1..Len(shape(s)) PROVE Prompt(s, n) \in Nat
  <2>1. shape(s)[n] \in StepShapes
    BY <1>4
  <2> QED BY <2>1 DEF Prompt, StepShapes
<1> QED BY <1>4, <1>5

\* What a step adds is a number.
LEMMA AddedType ==
  ASSUME ReplayAssumption, plan \in Plans, NEW s \in Nat,
         NEW start \in 1..Len(shape(s)), NEW n \in start..Len(shape(s))
  PROVE  Added(s, start, n) \in Int
<1>1. plan.shared \in Nat
  BY DEF ReplayAssumption, PlanAssumption
<1>2. Len(shape(s)) \in Nat /\ Prompt(s, n) \in Nat
  <2>1. Len(shape(s)) \in Nat
    BY ShapeType
  <2>2. n \in 1..Len(shape(s))
    BY <2>1
  <2> QED BY <2>1, <2>2, ShapeType
<1>3. CASE n = start
  BY <1>1, <1>2, <1>3 DEF Added
<1>4. CASE n # start
  <2>1. n - 1 \in 1..Len(shape(s))
    BY <1>2, <1>4
  <2>2. Prompt(s, n - 1) \in Nat
    BY <2>1, ShapeType
  <2> QED BY <1>2, <1>4, <2>2 DEF Added
<1> QED BY <1>3, <1>4

\* The pieces of steps i to j are a sequence, one piece to a step.
LEMMA FillerType ==
  ASSUME ReplayAssumption, plan \in Plans, NEW s \in Nat,
         NEW start \in 1..Len(shape(s)), NEW i \in start..(Len(shape(s)) + 1),
         NEW j \in (i-1)..Len(shape(s))
  PROVE  /\ Filler(s, start, i, j) \in Seq(Pieces)
         /\ Len(Filler(s, start, i, j)) = j - i + 1
         /\ \A n \in 1..(j - i + 1) : Filler(s, start, i, j)[n] =
              [by |-> <<s, i + n - 1>>, tokens |-> Added(s, start, i + n - 1)]
<1> DEFINE piece(n) == [by |-> <<s, i + n - 1>>, tokens |-> Added(s, start, i + n - 1)]
           len == j - i + 1
<1>1. Len(shape(s)) \in Nat
  BY ShapeType
<1>2. len \in Nat
  BY <1>1
<1>3. ASSUME NEW n \in 1..len PROVE piece(n) \in Pieces
  <2>1. i + n - 1 \in start..Len(shape(s)) /\ i + n - 1 \in Nat
    BY <1>1, <1>3
  <2>2. Added(s, start, i + n - 1) \in Int
    BY <2>1, AddedType
  <2>3. <<s, i + n - 1>> \in Seq(Nat)
    BY <2>1
  <2> QED BY <2>2, <2>3 DEF Pieces
<1>4. Filler(s, start, i, j) = [n \in 1..len |-> piece(n)]
  BY DEF Filler, _seed_material
<1> HIDE DEF piece, len
<1>5. /\ Filler(s, start, i, j) \in Seq(Pieces)
      /\ Len(Filler(s, start, i, j)) = len
      /\ \A n \in 1..len : Filler(s, start, i, j)[n] = piece(n)
  BY <1>2, <1>3, <1>4
<1> QED BY <1>5 DEF piece, len

\* The pieces of steps a to c, then of c + 1 to k, are the pieces of a to k.
LEMMA FillerConcat ==
  ASSUME ReplayAssumption, plan \in Plans, NEW s \in Nat,
         NEW k \in 1..Len(shape(s)), NEW start \in 1..k, NEW c \in start..k
  PROVE  Filler(s, start, start, c) \o Filler(s, start, c + 1, k)
           = Filler(s, start, start, k)
<1> DEFINE f == Filler(s, start, start, c)
           g == Filler(s, start, c + 1, k)
           h == Filler(s, start, start, k)
           piece(n) == [by |-> <<s, start + n - 1>>, tokens |-> Added(s, start, start + n - 1)]
<1>0. Len(shape(s)) \in Nat
  BY ShapeType
<1>1. f \in Seq(Pieces) /\ Len(f) = c - start + 1 /\ \A n \in 1..(c - start + 1) : f[n] = piece(n)
  <2>1. start \in 1..Len(shape(s)) /\ start \in start..(Len(shape(s)) + 1)
        /\ c \in (start - 1)..Len(shape(s))
    BY <1>0
  <2> QED BY <2>1, FillerType
<1>2. g \in Seq(Pieces) /\ Len(g) = k - c
      /\ \A n \in 1..(k - c) : g[n] = piece(c - start + 1 + n)
  <2>1. /\ g \in Seq(Pieces) /\ Len(g) = k - (c + 1) + 1
        /\ \A n \in 1..(k - (c + 1) + 1) : g[n] =
             [by |-> <<s, (c + 1) + n - 1>>, tokens |-> Added(s, start, (c + 1) + n - 1)]
    <3>1. start \in 1..Len(shape(s)) /\ c + 1 \in start..(Len(shape(s)) + 1)
          /\ k \in ((c + 1) - 1)..Len(shape(s))
      BY <1>0
    <3> QED BY <3>1, FillerType
  <2>2. \A n \in 1..(k - c) : (c + 1) + n - 1 = start + (c - start + 1 + n) - 1
    BY <1>0
  <2>3. k - (c + 1) + 1 = k - c
    BY <1>0
  <2> QED BY <2>1, <2>2, <2>3
<1>3. h \in Seq(Pieces) /\ Len(h) = k - start + 1 /\ \A n \in 1..(k - start + 1) : h[n] = piece(n)
  <2>1. start \in 1..Len(shape(s)) /\ start \in start..(Len(shape(s)) + 1)
        /\ k \in (start - 1)..Len(shape(s))
    BY <1>0
  <2> QED BY <2>1, FillerType
<1> HIDE DEF f, g, h, piece
<1>4. /\ f \o g \in Seq(Pieces) /\ Len(f \o g) = Len(f) + Len(g)
      /\ \A i \in 1..Len(f) + Len(g) : (f \o g)[i] = IF i <= Len(f) THEN f[i] ELSE g[i - Len(f)]
  BY <1>1, <1>2, ConcatProperties
<1>5. Len(f \o g) = Len(h)
  BY <1>0, <1>1, <1>2, <1>3, <1>4
<1>6. \A i \in 1..Len(h) : (f \o g)[i] = h[i]
  <2> SUFFICES ASSUME NEW i \in 1..Len(h) PROVE (f \o g)[i] = h[i]
    OBVIOUS
  <2>1. CASE i <= Len(f)
    BY <1>0, <1>1, <1>2, <1>3, <1>4, <2>1
  <2>2. CASE ~(i <= Len(f))
    <3>1. i - Len(f) \in 1..(k - c) /\ c - start + 1 + (i - Len(f)) = i
      BY <1>0, <1>1, <1>3, <2>2
    <3>2. g[i - Len(f)] = piece(i)
      BY <1>2, <3>1
    <3>3. (f \o g)[i] = g[i - Len(f)]
      BY <1>4, <1>5, <2>2
    <3> QED BY <1>0, <1>3, <3>2, <3>3
  <2> QED BY <2>1, <2>2
<1>7. f \o g = h
  BY <1>3, <1>4, <1>5, <1>6, SeqEqual
<1> QED BY <1>7 DEF f, g, h

-----------------------------------------------------------------------------
(* One render.                                                             *)

\* The shared prefix and a pure text are sequences of pieces.
LEMMA PureTextType ==
  ASSUME ReplayAssumption, plan \in Plans, NEW s \in Nat, NEW k \in 1..Len(shape(s))
  PROVE  /\ _shared_prefix_text \in Seq(Pieces)
         /\ PureText(s, k) \in Seq(Pieces)
<1>1. plan.shared \in Nat
  BY DEF ReplayAssumption, PlanAssumption
<1>2. _shared_prefix_text \in Seq(Pieces)
  <2>1. [by |-> <<>>, tokens |-> plan.shared] \in Pieces
    BY <1>1 DEF Pieces
  <2> QED BY <2>1 DEF _shared_prefix_text
<1>3. Len(shape(s)) \in Nat
  BY ShapeType
<1>4. SegmentStart(s, k) \in 1..k
  <2>1. k \in Nat \ {0}
    BY <1>3
  <2> QED BY <2>1, SegmentStartIs
<1> DEFINE a == SegmentStart(s, k)
<1>5. a \in 1..Len(shape(s)) /\ a \in a..(Len(shape(s)) + 1) /\ k \in (a - 1)..Len(shape(s))
  BY <1>3, <1>4
<1>6. Filler(s, a, a, k) \in Seq(Pieces)
  BY <1>5, FillerType
<1> QED BY <1>2, <1>6, ConcatProperties DEF PureText

\* Concatenation of texts is associative.
LEMMA Associative ==
  ASSUME NEW x \in Seq(Pieces), NEW y \in Seq(Pieces), NEW z \in Seq(Pieces)
  PROVE  (x \o y) \o z = x \o (y \o z)
BY ConcatAssociative

\* Resuming inside a segment is the same as rebuilding it.
LEMMA ResumeIsRebuild ==
  ASSUME ReplayAssumption, plan \in Plans, NEW s \in Nat, NEW k \in 1..Len(shape(s)),
         NEW c \in Nat \ {0}, SegmentStart(s, k) <= c, c < k
  PROVE  PureText(s, c) \o Filler(s, SegmentStart(s, k), c + 1, k) = PureText(s, k)
<1> DEFINE a == SegmentStart(s, k)
<1>1. Len(shape(s)) \in Nat
  BY ShapeType
<1>2. a \in 1..k /\ SegmentStart(s, c) = a
  <2>1. k \in Nat \ {0}
    BY <1>1
  <2> QED BY <2>1, SegmentStartIs, SameSegment
<1> HIDE DEF a
<1>3. PureText(s, c) = _shared_prefix_text \o Filler(s, a, a, c)
  BY <1>2 DEF PureText
<1>4. Filler(s, a, a, c) \o Filler(s, a, c + 1, k) = Filler(s, a, a, k)
  <2>1. c \in a..k
    BY <1>1, <1>2 DEF a
  <2> QED BY <1>2, <2>1, FillerConcat
<1>5. Filler(s, a, a, c) \in Seq(Pieces)
  <2>1. a \in 1..Len(shape(s)) /\ a \in a..(Len(shape(s)) + 1) /\ c \in (a - 1)..Len(shape(s))
    BY <1>1, <1>2 DEF a
  <2> QED BY <2>1, FillerType
<1>6. Filler(s, a, c + 1, k) \in Seq(Pieces)
  <2>1. a \in 1..Len(shape(s)) /\ c + 1 \in a..(Len(shape(s)) + 1)
        /\ k \in ((c + 1) - 1)..Len(shape(s))
    BY <1>1, <1>2 DEF a
  <2> QED BY <2>1, FillerType
<1>7. _shared_prefix_text \in Seq(Pieces)
  BY PureTextType
<1>8. (_shared_prefix_text \o Filler(s, a, a, c)) \o Filler(s, a, c + 1, k)
        = _shared_prefix_text \o (Filler(s, a, a, c) \o Filler(s, a, c + 1, k))
  BY <1>5, <1>6, <1>7, Associative
<1>9. PureText(s, k) = _shared_prefix_text \o Filler(s, a, a, k)
  BY DEF PureText, a
<1> QED BY <1>3, <1>4, <1>8, <1>9 DEF a

\* A render from a sound memo hands out the pure text, and only of a shape that a full
\* rebuild would accept.
LEMMA RenderIsPure ==
  ASSUME ReplayAssumption, ReplayInv, NEW s \in Nat, NEW k \in 1..Len(shape(s)),
         ~Raises(s, k)
  PROVE  _text(s, k) = PureText(s, k) /\ Replayable(s, k)
<1>1. plan \in Plans /\ Len(shape(s)) \in Nat
  BY ShapeType DEF ReplayInv
<1>2. CASE Resumable(s, k) = {}
  BY <1>2 DEF _text, BaseText, FirstStep, PureText, Raises, Replayable
<1>3. CASE Resumable(s, k) # {}
  <2> DEFINE n == CHOOSE n \in Resumable(s, k) : TRUE
             c == recent[n].step
             a == SegmentStart(s, k)
  <2>1. n \in Resumable(s, k)
    BY <1>3
  <2> HIDE DEF n
  <2>2. n \in DOMAIN recent /\ recent[n].session = s /\ a <= c /\ c < k
    BY <2>1 DEF Resumable, Remembered
  <2>3. Sound(recent[n])
    BY <2>2 DEF ReplayInv
  <2>4. c \in 1..Len(shape(s)) /\ recent[n].text = PureText(s, c) /\ Replayable(s, c)
    BY <2>2, <2>3 DEF Sound
  <2>5. FirstStep(s, k) = c + 1 /\ BaseText(s, k) = PureText(s, c)
    BY <1>3, <2>4 DEF FirstStep, BaseText, n
  <2>6. a \in 1..k
    <3>1. k \in Nat \ {0}
      BY <1>1
    <3> QED BY <3>1, SegmentStartIs
  <2> HIDE DEF c, a
  <2>7. c \in Nat \ {0}
    BY <1>1, <2>4
  <2>8. _text(s, k) = PureText(s, k)
    BY <1>1, <2>2, <2>5, <2>7, ResumeIsRebuild DEF _text, a
  <2>9. SegmentStart(s, c) = a
    BY <1>1, <2>2, <2>7, SameSegment DEF a
  <2>10. \A j \in a..c : ~Shrinks(s, a, j)
    BY <2>4, <2>9 DEF Replayable
  <2>11. \A j \in (c+1)..k : ~Shrinks(s, a, j)
    BY <2>5 DEF Raises, a
  <2>12. \A j \in a..k : j \in a..c \/ j \in (c+1)..k
    BY <1>1, <2>2, <2>6, <2>7
  <2>13. \A j \in a..k : ~Shrinks(s, a, j)
    BY <2>10, <2>11, <2>12
  <2> QED BY <2>8, <2>13 DEF Replayable, a
<1> QED BY <1>2, <1>3

\* _text appends from a step of the current segment on.
LEMMA FirstStepInSegment ==
  ASSUME ReplayAssumption, ReplayInv, NEW s \in Nat, NEW k \in 1..Len(shape(s))
  PROVE  FirstStep(s, k) \in SegmentStart(s, k)..k
<1>1. Len(shape(s)) \in Nat
  BY ShapeType DEF ReplayInv
<1>2. SegmentStart(s, k) \in 1..k
  <2>1. k \in Nat \ {0}
    BY <1>1
  <2> QED BY <2>1, SegmentStartIs
<1>3. CASE Resumable(s, k) = {}
  BY <1>1, <1>2, <1>3 DEF FirstStep
<1>4. CASE Resumable(s, k) # {}
  <2> DEFINE n == CHOOSE n \in Resumable(s, k) : TRUE
  <2>1. n \in Resumable(s, k)
    BY <1>4
  <2>2. FirstStep(s, k) = recent[n].step + 1
    BY <1>4 DEF FirstStep
  <2> HIDE DEF n
  <2>3. /\ n \in DOMAIN recent
        /\ SegmentStart(s, k) <= recent[n].step /\ recent[n].step < k
    BY <2>1 DEF Resumable, Remembered
  <2>4. recent[n].step \in Nat
    BY <2>3 DEF ReplayInv, Sound
  <2> QED BY <1>1, <1>2, <2>2, <2>3, <2>4
<1> QED BY <1>3, <1>4

\* The memo hides no refusal and causes none: a render raises exactly when rebuilding the
\* segment would.
LEMMA RaisesIsRefused ==
  ASSUME ReplayAssumption, ReplayInv, NEW s \in Nat, NEW k \in 1..Len(shape(s))
  PROVE  Raises(s, k) <=> ~Replayable(s, k)
<1>1. ~Raises(s, k) => Replayable(s, k)
  BY RenderIsPure
<1>2. ASSUME Raises(s, k) PROVE ~Replayable(s, k)
  <2> DEFINE a == SegmentStart(s, k)
  <2>1. Len(shape(s)) \in Nat /\ k \in Nat \ {0}
    <3>1. Len(shape(s)) \in Nat
      BY ShapeType DEF ReplayInv
    <3> QED BY <3>1
  <2>2. a \in 1..k
    BY <2>1, SegmentStartIs
  <2>3. PICK j \in FirstStep(s, k)..k : Shrinks(s, a, j)
    BY <1>2 DEF Raises
  <2>4. FirstStep(s, k) \in a..k
    BY FirstStepInSegment
  <2> HIDE DEF a
  <2>5. j \in a..k
    BY <2>1, <2>2, <2>3, <2>4
  <2> QED BY <2>3, <2>5 DEF Replayable, a
<1> QED BY <1>1, <1>2

\* A render with the memo is a render without it.
LEMMA RenderHands ==
  ASSUME ReplayAssumption, ReplayInv, NEW u \in Users, NEW s \in Nat,
         NEW k \in 1..Len(shape(s)), Render(u, s, k)
  PROVE  Hand(u, s, k)
<1>1. CASE Raises(s, k)
  BY <1>1, RaisesIsRefused DEF Render, Hand
<1>2. CASE ~Raises(s, k)
  <2>1. _text(s, k) = PureText(s, k) /\ Replayable(s, k)
    BY <1>2, RenderIsPure
  <2>2. at' = [at EXCEPT ![u] = [session |-> s, step |-> k, text |-> _text(s, k)]]
        /\ UNCHANGED refused
    BY <1>2 DEF Render
  <2> QED BY <2>1, <2>2 DEF Hand
<1> QED BY <1>1, <1>2

\* Remembering a sound entry keeps the memo sound, bounded and free of repetitions.
LEMMA RememberKeeps ==
  ASSUME ReplayAssumption, ReplayInv, NEW e \in Entries, Sound(e)
  PROVE  /\ Remember(e) \in Seq(Entries)
         /\ \A n \in DOMAIN Remember(e) : Sound(Remember(e)[n])
         /\ Len(Remember(e)) <= RecentMax
         /\ \A m, n \in DOMAIN Remember(e) :
              Remember(e)[m].session = Remember(e)[n].session => m = n
<1>1. /\ recent \in Seq(Entries)
      /\ \A n \in 1..Len(recent) : Sound(recent[n]) /\ recent[n] \in Entries
      /\ Len(recent) \in Nat /\ Len(recent) <= RecentMax
      /\ DOMAIN recent = 1..Len(recent)
      /\ \A m, n \in 1..Len(recent) : recent[m].session = recent[n].session => m = n
  BY DEF ReplayInv, MemoBounded
<1>2. RecentMax \in Nat \ {0}
  BY DEF ReplayAssumption, MemoAssumption
<1>3. CASE Remembered(e.session) # {}
  <2> DEFINE r == [n \in 1..Len(recent) |->
                     IF n \in Remembered(e.session) THEN e ELSE recent[n]]
  <2>1. Remember(e) = r
    BY <1>1, <1>3 DEF Remember
  <2>2. \A n \in 1..Len(recent) : r[n].session = recent[n].session
    BY <1>1 DEF Remembered
  <2>3. r \in Seq(Entries) /\ Len(r) = Len(recent) /\ DOMAIN r = 1..Len(recent)
    BY <1>1
  <2>4. \A n \in DOMAIN r : Sound(r[n])
    BY <1>1
  <2>5. \A m, n \in DOMAIN r : r[m].session = r[n].session => m = n
    BY <1>1, <2>2, <2>3
  <2> HIDE DEF r
  <2> QED BY <1>1, <2>1, <2>3, <2>4, <2>5
<1>4. CASE Remembered(e.session) = {}
  <2> DEFINE q == IF Len(recent) >= RecentMax THEN Tail(recent) ELSE recent
  <2>1. /\ q \in Seq(Entries) /\ Len(q) \in Nat /\ Len(q) < RecentMax
        /\ \A n \in 1..Len(q) : Sound(q[n]) /\ q[n].session # e.session
        /\ \A m, n \in 1..Len(q) : q[m].session = q[n].session => m = n
    <3>1. \A n \in 1..Len(recent) : recent[n].session # e.session
      BY <1>1, <1>4 DEF Remembered
    <3>2. CASE Len(recent) >= RecentMax
      <4>1. q = Tail(recent) /\ recent # <<>>
        BY <1>1, <1>2, <3>2
      <4>2. /\ q \in Seq(Entries) /\ Len(q) = Len(recent) - 1
            /\ \A n \in 1..Len(q) : q[n] = recent[n+1] /\ n + 1 \in 1..Len(recent)
        <5>1. /\ Tail(recent) \in Seq(Entries) /\ Len(Tail(recent)) = Len(recent) - 1
              /\ \A n \in 1..Len(Tail(recent)) : Tail(recent)[n] = recent[n+1]
          BY <1>1, <4>1, HeadTailProperties
        <5>2. \A n \in 1..(Len(recent) - 1) : n + 1 \in 1..Len(recent)
          BY <1>1
        <5> HIDE DEF q
        <5> QED BY <4>1, <5>1, <5>2
      <4> HIDE DEF q
      <4>3. \A m, n \in 1..Len(q) : q[m].session = q[n].session => m + 1 = n + 1
        BY <1>1, <4>2
      <4> QED BY <1>1, <1>2, <3>1, <4>2, <4>3
    <3>3. CASE ~(Len(recent) >= RecentMax)
      <4>1. q = recent
        BY <3>3
      <4> HIDE DEF q
      <4> QED BY <1>1, <1>2, <3>1, <3>3, <4>1
    <3> QED BY <3>2, <3>3
  <2>2. Remember(e) = Append(q, e)
    BY <1>4 DEF Remember
  <2> HIDE DEF q
  <2> DEFINE r == Append(q, e)
  <2>3. /\ r \in Seq(Entries) /\ Len(r) = Len(q) + 1
        /\ \A i \in 1..Len(q) : r[i] = q[i]
        /\ r[Len(q) + 1] = e
    BY <2>1, AppendProperties
  <2> HIDE DEF r
  <2>4. \A i \in 1..Len(r) : i \in 1..Len(q) \/ i = Len(q) + 1
    BY <2>1, <2>3
  <2>5. \A n \in 1..Len(r) : Sound(r[n])
    BY <2>1, <2>3, <2>4
  <2>6. \A m, n \in 1..Len(r) : r[m].session = r[n].session => m = n
    BY <2>1, <2>3, <2>4
  <2>7. DOMAIN r = 1..Len(r) /\ Len(r) <= RecentMax
    BY <1>2, <2>1, <2>3
  <2>8. Remember(e) = r
    BY <2>2 DEF r
  <2> QED BY <2>3, <2>5, <2>6, <2>7, <2>8
<1> QED BY <1>3, <1>4

-----------------------------------------------------------------------------
(* Every step keeps the invariant.                                         *)

\* Rendering a step of a session for one user.
LEMMA RenderKeeps ==
  ASSUME ReplayAssumption, ReplayInv, NEW u \in Users, NEW s \in Nat,
         NEW k \in 1..Len(shape(s)), Render(u, s, k), plan' = plan
  PROVE  /\ recent' \in Seq(Entries)
         /\ \A n \in DOMAIN recent' : Sound(recent'[n])
         /\ Len(recent') <= RecentMax
         /\ \A m, n \in DOMAIN recent' : recent'[m].session = recent'[n].session => m = n
         /\ DOMAIN at' = Users
         /\ \A v \in Users : at'[v] # None => Sound(at'[v])
<1>1. CASE Raises(s, k)
  BY <1>1 DEF Render, ReplayInv, MemoBounded
<1>2. CASE ~Raises(s, k)
  <2> DEFINE e == [session |-> s, step |-> k, text |-> _text(s, k)]
  <2>1. at' = [at EXCEPT ![u] = e] /\ recent' = Remember(e)
    BY <1>2 DEF Render
  <2>2. _text(s, k) = PureText(s, k) /\ Replayable(s, k)
    BY <1>2, RenderIsPure
  <2>3. Sound(e)
    BY <2>2 DEF Sound
  <2>4. e \in Entries
    <3>1. plan \in Plans /\ Len(shape(s)) \in Nat
      BY ShapeType DEF ReplayInv
    <3>2. PureText(s, k) \in Seq(Pieces)
      BY <3>1, PureTextType
    <3> QED BY <2>2, <3>1, <3>2 DEF Entries
  <2> HIDE DEF e
  <2>5. /\ recent' \in Seq(Entries)
        /\ \A n \in DOMAIN recent' : Sound(recent'[n])
        /\ Len(recent') <= RecentMax
        /\ \A m, n \in DOMAIN recent' : recent'[m].session = recent'[n].session => m = n
    BY <2>1, <2>3, <2>4, RememberKeeps
  <2>6. DOMAIN at' = Users /\ \A v \in Users : at'[v] = IF v = u THEN e ELSE at[v]
    BY <2>1 DEF ReplayInv
  <2>7. \A v \in Users : at'[v] # None => Sound(at'[v])
    BY <2>3, <2>6 DEF ReplayInv
  <2> QED BY <2>5, <2>6, <2>7
<1> QED BY <1>1, <1>2

\* Soundness speaks of the plan only, which no step changes.
LEMMA SoundStays ==
  ASSUME plan' = plan
  PROVE  \A e : Sound(e) <=> Sound(e)'
<1>1. \A s : shape(s)' = shape(s)
  BY DEF shape
<1>2. \A s, k : Prompt(s, k)' = Prompt(s, k)
  BY <1>1 DEF Prompt
<1>3. \A s, k : Resets(s, k)' = Resets(s, k)
  BY <1>1 DEF Resets
<1>4. _shared_prefix_text' = _shared_prefix_text
  BY DEF _shared_prefix_text
<1>5. \A s, k : SegmentStart(s, k)' = SegmentStart(s, k)
  BY DEF SegmentStart, Resets, shape
<1>6. \A s, a, j : Added(s, a, j)' = Added(s, a, j)
  BY <1>2 DEF Added
<1>7. \A s, a, j : Shrinks(s, a, j)' <=> Shrinks(s, a, j)
  BY <1>6 DEF Shrinks
<1>8. \A s, a, i, j : Filler(s, a, i, j)' = Filler(s, a, i, j)
  BY <1>6 DEF Filler
<1>9. \A s, k : PureText(s, k)' = PureText(s, k)
  BY <1>4, <1>5, <1>8 DEF PureText
<1>10. \A s, k : Replayable(s, k)' <=> Replayable(s, k)
  BY <1>5, <1>7 DEF Replayable
<1> QED BY <1>1, <1>9, <1>10 DEF Sound

\* The invariant holds initially.
LEMMA ReplayInvInit == ReplayAssumption /\ ReplayInit => ReplayInv
<1> SUFFICES ASSUME ReplayAssumption, ReplayInit PROVE ReplayInv
  OBVIOUS
<1>1. Len(SessionBase) \in Nat \ {0} /\ RecentMax \in Nat
  BY DEF ReplayAssumption, PlanAssumption, MemoAssumption
<1>2. recent = <<>> /\ Len(recent) = 0 /\ DOMAIN recent = {}
  BY DEF ReplayInit, ReplayStart, PureStart
<1>3. recent \in Seq(Entries)
  BY <1>2
<1> QED BY <1>1, <1>2, <1>3 DEF ReplayInit, ReplayStart, PureStart, ReplayInv, MemoBounded

\* Every action keeps the invariant.
LEMMA ReplayInvStep ==
  ReplayAssumption /\ ReplayInv /\ [ReplayNext]_replayVars => ReplayInv'
<1> SUFFICES ASSUME ReplayAssumption, ReplayInv, [ReplayNext]_replayVars
             PROVE  ReplayInv'
  OBVIOUS
<1>1. ASSUME NEW u \in Users, OpenSession(u) PROVE ReplayInv'
  <2>1. plan' = plan /\ window' = window /\ ordinal' = ordinal + 1
        /\ Render(u, session_index, 1)
    BY <1>1 DEF OpenSession
  <2>2. session_index \in Nat
    <3>1. SessionBase[window] \in Nat
      BY DEF ReplayAssumption, PlanAssumption, ReplayInv
    <3> QED BY <3>1 DEF session_index, ReplayInv
  <2>3. 1 \in 1..Len(shape(session_index))
    <3>1. Len(shape(session_index)) \in Nat \ {0}
      BY <2>2, ShapeType DEF ReplayInv
    <3> QED BY <3>1
  <2>4. /\ recent' \in Seq(Entries)
        /\ \A n \in DOMAIN recent' : Sound(recent'[n])
        /\ Len(recent') <= RecentMax
        /\ \A m, n \in DOMAIN recent' : recent'[m].session = recent'[n].session => m = n
        /\ DOMAIN at' = Users
        /\ \A v \in Users : at'[v] # None => Sound(at'[v])
    BY <2>1, <2>2, <2>3, RenderKeeps
  <2>5. \A e : Sound(e) <=> Sound(e)'
    BY <2>1, SoundStays
  <2> QED BY <2>1, <2>4, <2>5 DEF ReplayInv, MemoBounded
<1>2. ASSUME NEW u \in Users, NextStep(u) PROVE ReplayInv'
  <2>1. /\ plan' = plan /\ window' = window /\ ordinal' = ordinal
        /\ at[u] # None /\ at[u].step # Len(shape(at[u].session))
        /\ Render(u, at[u].session, at[u].step + 1)
    BY <1>2 DEF NextStep, Finished
  <2>2. at[u].session \in Nat /\ at[u].step \in 1..Len(shape(at[u].session))
    BY <2>1 DEF ReplayInv, Sound
  <2>3. at[u].step + 1 \in 1..Len(shape(at[u].session))
    <3>1. Len(shape(at[u].session)) \in Nat
      BY <2>2, ShapeType DEF ReplayInv
    <3> QED BY <2>1, <2>2, <3>1
  <2>4. /\ recent' \in Seq(Entries)
        /\ \A n \in DOMAIN recent' : Sound(recent'[n])
        /\ Len(recent') <= RecentMax
        /\ \A m, n \in DOMAIN recent' : recent'[m].session = recent'[n].session => m = n
        /\ DOMAIN at' = Users
        /\ \A v \in Users : at'[v] # None => Sound(at'[v])
    BY <2>1, <2>2, <2>3, RenderKeeps
  <2>5. \A e : Sound(e) <=> Sound(e)'
    BY <2>1, SoundStays
  <2> QED BY <2>1, <2>4, <2>5 DEF ReplayInv, MemoBounded
<1>3. CASE NextWindow
  <2>1. /\ plan' = plan /\ window' = window + 1 /\ window < Len(SessionBase)
        /\ ordinal' = 0 /\ at' = [u \in Users |-> None] /\ recent' = recent
    BY <1>3 DEF NextWindow
  <2>2. \A e : Sound(e) <=> Sound(e)'
    BY <2>1, SoundStays
  <2>3. window' \in 1..Len(SessionBase)
    BY <2>1 DEF ReplayInv, ReplayAssumption, PlanAssumption
  <2> QED BY <2>1, <2>2, <2>3 DEF ReplayInv, MemoBounded
<1>4. CASE UNCHANGED replayVars
  <2>1. /\ plan' = plan /\ window' = window /\ ordinal' = ordinal
        /\ at' = at /\ recent' = recent
    BY <1>4 DEF replayVars
  <2>2. \A e : Sound(e) <=> Sound(e)'
    BY <2>1, SoundStays
  <2> QED BY <2>1, <2>2 DEF ReplayInv, MemoBounded
<1> QED BY <1>1, <1>2, <1>3, <1>4 DEF ReplayNext

\* The inductive invariant holds throughout every replay.
THEOREM ReplayInvariant == ReplaySpec => []ReplayInv
<1>1. ReplayAssumption
  BY PlanAssumption, MemoAssumption DEF ReplayAssumption
<1>2. ReplayInit => ReplayInv
  BY <1>1, ReplayInvInit
<1>3. ReplayInv /\ [ReplayNext]_replayVars => ReplayInv'
  BY <1>1, ReplayInvStep
<1> QED BY <1>2, <1>3, PTL DEF ReplaySpec

\* Whatever the memo holds, evicts or inherits from an earlier window, the text handed to a
\* user is the one a fresh process would render (sessions.py:280-325).
THEOREM MemoIsTransparent == ReplaySpec => []MemoTransparent
<1>1. ReplayInv => MemoTransparent
  BY DEF ReplayInv, MemoTransparent, Sound
<1> QED BY <1>1, ReplayInvariant, PTL

\* The replay with the memo implements the replay without one: every step of a window is
\* handed out or refused as if nothing had been remembered (sessions.py:174-178, 280-325).
THEOREM ReplayIsMemoless == ReplaySpec => MemolessReplay
<1>1. ReplayAssumption
  BY PlanAssumption, MemoAssumption DEF ReplayAssumption
<1>2. ReplayInit => PureInit
  BY DEF ReplayInit, ReplayStart, PureInit
<1>3. ReplayInv /\ [ReplayNext]_replayVars => [PureNext]_pureVars
  <2> SUFFICES ASSUME ReplayInv, [ReplayNext]_replayVars PROVE [PureNext]_pureVars
    OBVIOUS
  <2>1. ASSUME NEW u \in Users, OpenSession(u) PROVE PureOpenSession(u)
    <3>1. Render(u, session_index, 1)
      BY <2>1 DEF OpenSession
    <3>2. session_index \in Nat
      <4>1. SessionBase[window] \in Nat
        BY <1>1 DEF ReplayAssumption, PlanAssumption, ReplayInv
      <4> QED BY <4>1 DEF session_index, ReplayInv
    <3>3. 1 \in 1..Len(shape(session_index))
      <4>1. Len(shape(session_index)) \in Nat \ {0}
        BY <1>1, <3>2, ShapeType DEF ReplayInv
      <4> QED BY <4>1
    <3>4. Hand(u, session_index, 1)
      BY <1>1, <3>1, <3>2, <3>3, RenderHands
    <3> QED BY <2>1, <3>4 DEF OpenSession, PureOpenSession
  <2>2. ASSUME NEW u \in Users, NextStep(u) PROVE PureNextStep(u)
    <3>1. /\ at[u] # None /\ at[u].step # Len(shape(at[u].session))
          /\ Render(u, at[u].session, at[u].step + 1)
      BY <2>2 DEF NextStep, Finished
    <3>2. at[u].session \in Nat /\ at[u].step \in 1..Len(shape(at[u].session))
      BY <3>1 DEF ReplayInv, Sound
    <3>3. at[u].step + 1 \in 1..Len(shape(at[u].session))
      <4>1. Len(shape(at[u].session)) \in Nat
        BY <1>1, <3>2, ShapeType DEF ReplayInv
      <4> QED BY <3>1, <3>2, <4>1
    <3>4. Hand(u, at[u].session, at[u].step + 1)
      BY <1>1, <3>1, <3>2, <3>3, RenderHands
    <3> QED BY <2>2, <3>4 DEF NextStep, PureNextStep
  <2>3. CASE NextWindow
    BY <2>3 DEF NextWindow, PureNextWindow, PureNext
  <2>4. CASE UNCHANGED replayVars
    BY <2>4 DEF replayVars, pureVars
  <2> QED BY <2>1, <2>2, <2>3, <2>4 DEF ReplayNext, PureNext
<1> QED BY <1>2, <1>3, ReplayInvariant, PTL DEF ReplaySpec, PureSpec, MemolessReplay

\* The memo never outgrows its bound and never holds a session twice (sessions.py:321-325).
THEOREM MemoIsBounded == ReplaySpec => []MemoBounded
<1>1. ReplayInv => MemoBounded
  BY DEF ReplayInv
<1> QED BY <1>1, ReplayInvariant, PTL

-----------------------------------------------------------------------------
(* The prefix-cache hit.                                                   *)

\* The text of a step that does not reset is the one of the step before it, continued.
LEMMA PureTextExtends ==
  ASSUME ReplayAssumption, plan \in Plans, NEW s \in Nat, NEW k \in 2..Len(shape(s)),
         ~Resets(s, k)
  PROVE  SubSeq(PureText(s, k), 1, Len(PureText(s, k - 1))) = PureText(s, k - 1)
<1> DEFINE a == SegmentStart(s, k)
           t == PureText(s, k - 1)
           g == Filler(s, a, (k - 1) + 1, k)
<1>1. Len(shape(s)) \in Nat /\ k \in 1..Len(shape(s)) /\ k - 1 \in 1..Len(shape(s))
      /\ k \in Nat \ {0} /\ k - 1 \in Nat \ {0}
  <2>1. Len(shape(s)) \in Nat
    BY ShapeType
  <2> QED BY <2>1
<1>2. a \in 1..k /\ Resets(s, a)
  BY <1>1, SegmentStartIs
<1>3. a <= k - 1 /\ k - 1 < k
  <2>1. a # k
    BY <1>2
  <2> QED BY <1>1, <1>2, <2>1
<1>4. t \in Seq(Pieces)
  BY <1>1, PureTextType
<1>5. g \in Seq(Pieces)
  <2>1. a \in 1..Len(shape(s)) /\ (k - 1) + 1 \in a..(Len(shape(s)) + 1)
        /\ k \in (((k - 1) + 1) - 1)..Len(shape(s))
    BY <1>1, <1>2, <1>3
  <2> HIDE DEF a
  <2> QED BY <2>1, FillerType
<1>6. t \o g = PureText(s, k)
  BY <1>1, <1>3, ResumeIsRebuild
<1> HIDE DEF t, g, a
<1>7. SubSeq(t \o g, 1, Len(t)) = t
  BY <1>4, <1>5, ConcatProperties, SubSeqProperties
<1> QED BY <1>6, <1>7 DEF t

\* A sound text is its own prefix.
LEMMA WholeText ==
  ASSUME NEW t \in Seq(Pieces)
  PROVE  SubSeq(t, 1, Len(t)) = t
BY SubSeqProperties

\* A text handed to a user continues the one handed to it before in the same session,
\* unless the capture compacted in between (sessions.py:280-318).
THEOREM TextExtends == ReplaySpec => PrefixExtends
<1> DEFINE Extends(u) ==
      /\ at[u] # None /\ at'[u] # None
      /\ at[u].session = at'[u].session
      /\ ~Resets(at[u].session, at'[u].step)
      => SubSeq(at'[u].text, 1, Len(at[u].text)) = at[u].text
<1>1. ReplayAssumption
  BY PlanAssumption, MemoAssumption DEF ReplayAssumption
<1>2. ASSUME ReplayInv, [ReplayNext]_replayVars, NEW u \in Users,
             at[u] # None, at'[u] # None, at[u].session = at'[u].session,
             ~Resets(at[u].session, at'[u].step)
      PROVE  SubSeq(at'[u].text, 1, Len(at[u].text)) = at[u].text
  <2> DEFINE s == at[u].session
  <2>1. Sound(at[u]) /\ plan \in Plans
    BY <1>2 DEF ReplayInv
  <2>2. s \in Nat /\ at[u].step \in 1..Len(shape(s)) /\ at[u].text = PureText(s, at[u].step)
    BY <2>1 DEF Sound
  <2>3. at[u].text \in Seq(Pieces)
    BY <1>1, <2>1, <2>2, PureTextType
  <2>4. CASE at'[u] = at[u]
    BY <2>3, <2>4, WholeText
  <2>5. ASSUME NEW v \in Users, OpenSession(v), at'[u] # at[u]
        PROVE  FALSE
    <3>1. Render(v, session_index, 1)
      BY <2>5 DEF OpenSession
    <3>2. v = u /\ at'[u].step = 1
      BY <1>2, <2>5, <3>1 DEF Render, ReplayInv
    <3> QED BY <1>2, <3>2 DEF Resets
  <2>6. ASSUME NEW v \in Users, NextStep(v), at'[u] # at[u]
        PROVE  SubSeq(at'[u].text, 1, Len(at[u].text)) = at[u].text
    <3>1. Render(v, at[v].session, at[v].step + 1) /\ ~Finished(v) /\ plan' = plan
      BY <2>6 DEF NextStep
    <3>2. v = u
      BY <1>2, <2>6, <3>1 DEF Render, ReplayInv
    <3> DEFINE k == at[u].step + 1
    <3>3. /\ ~Raises(s, k) /\ at'[u].step = k /\ at'[u].text = _text(s, k)
      BY <1>2, <2>6, <3>1, <3>2 DEF Render, ReplayInv
    <3>4. k \in 2..Len(shape(s)) /\ k \in 1..Len(shape(s)) /\ k - 1 = at[u].step
      <4>1. Len(shape(s)) \in Nat
        BY <1>1, <2>1, <2>2, ShapeType
      <4>2. at[u].step # Len(shape(s))
        BY <1>2, <3>1, <3>2 DEF Finished
      <4> QED BY <2>2, <4>1, <4>2
    <3> HIDE DEF k
    <3>5. at'[u].text = PureText(s, k)
      BY <1>1, <1>2, <2>2, <3>3, <3>4, RenderIsPure
    <3>6. SubSeq(PureText(s, k), 1, Len(PureText(s, k - 1))) = PureText(s, k - 1)
      BY <1>1, <1>2, <2>1, <2>2, <3>3, <3>4, PureTextExtends
    <3> QED BY <2>2, <3>4, <3>5, <3>6
  <2>7. CASE NextWindow
    BY <1>2, <2>7 DEF NextWindow
  <2>8. CASE UNCHANGED replayVars
    BY <2>4, <2>8 DEF replayVars
  <2> QED BY <1>2, <2>4, <2>5, <2>6, <2>7, <2>8 DEF ReplayNext
<1>3. ReplayInv /\ [ReplayNext]_replayVars => [\A u \in Users : Extends(u)]_replayVars
  BY <1>2
<1> QED BY <1>3, ReplayInvariant, PTL DEF ReplaySpec, PrefixExtends

-----------------------------------------------------------------------------
(* Nothing else in common.                                                 *)

\* A piece of a pure text is the shared prefix or was drawn for the session of the text.
LEMMA PieceOwner ==
  ASSUME ReplayAssumption, plan \in Plans, NEW s \in Nat, NEW k \in 1..Len(shape(s)),
         NEW i \in DOMAIN PureText(s, k)
  PROVE  \/ PureText(s, k)[i].by = <<>>
         \/ \E j \in Int : PureText(s, k)[i].by = <<s, j>>
<1> DEFINE a == SegmentStart(s, k)
           h == _shared_prefix_text
           g == Filler(s, a, a, k)
<1>1. Len(shape(s)) \in Nat /\ k \in Nat \ {0}
  <2>1. Len(shape(s)) \in Nat
    BY ShapeType
  <2> QED BY <2>1
<1>2. a \in 1..k
  BY <1>1, SegmentStartIs
<1>3. h \in Seq(Pieces)
  BY PureTextType
<1>4. g \in Seq(Pieces)
  <2>1. a \in 1..Len(shape(s)) /\ a \in a..(Len(shape(s)) + 1) /\ k \in (a - 1)..Len(shape(s))
    BY <1>1, <1>2
  <2> HIDE DEF a
  <2> QED BY <2>1, FillerType
<1>5. PureText(s, k) = h \o g
  BY DEF PureText
<1>6. \A n \in 1..Len(h) : h[n].by = <<>>
  <2>1. CASE plan.shared = 0
    BY <2>1 DEF _shared_prefix_text
  <2>2. CASE plan.shared # 0
    <3>1. h = <<[by |-> <<>>, tokens |-> plan.shared]>>
      BY <2>2 DEF _shared_prefix_text
    <3>2. Len(h) = 1 /\ h[1].by = <<>>
      BY <3>1
    <3> HIDE DEF h
    <3> QED BY <3>2
  <2> QED BY <2>1, <2>2
<1>7. \A n \in 1..Len(g) : g[n].by = <<s, a + n - 1>> /\ a + n - 1 \in Int
  <2>1. Len(g) = k - a + 1
    BY <1>1, <1>2 DEF Filler
  <2>2. \A n \in 1..(k - a + 1) : g[n].by = <<s, a + n - 1>>
    BY DEF Filler, _seed_material
  <2>3. a \in Int
    BY <1>1, <1>2
  <2> HIDE DEF a, g
  <2> QED BY <2>1, <2>2, <2>3
<1> HIDE DEF a, h, g
<1>8. DOMAIN PureText(s, k) = 1..(Len(h) + Len(g)) /\ Len(h) \in Nat /\ Len(g) \in Nat
  BY <1>3, <1>4, <1>5
<1>9. CASE i <= Len(h)
  <2>1. i \in 1..Len(h) /\ (h \o g)[i] = h[i]
    BY <1>3, <1>4, <1>8, <1>9
  <2> QED BY <1>5, <1>6, <2>1
<1>10. CASE ~(i <= Len(h))
  <2> DEFINE n == i - Len(h)
  <2>1. n \in 1..Len(g) /\ (h \o g)[i] = g[n]
    BY <1>3, <1>4, <1>8, <1>10
  <2> HIDE DEF n
  <2>2. PureText(s, k)[i].by = <<s, a + n - 1>> /\ a + n - 1 \in Int
    BY <1>5, <1>7, <2>1
  <2> QED BY <2>2
<1> QED BY <1>9, <1>10

\* What a prompt has in common with the text of another session, one the server may still
\* hold from another user or an earlier window, is the shared prefix (sessions.py:280-318,
\* the seed material of a piece names its session).
THEOREM SharesOnlyPrefix == ReplaySpec => []OnlySharedPrefixInCommon
<1>1. ReplayAssumption
  BY PlanAssumption, MemoAssumption DEF ReplayAssumption
<1>2. ReplayInv => OnlySharedPrefixInCommon
  <2> SUFFICES ASSUME ReplayInv, NEW u \in Users, NEW n \in DOMAIN recent,
                      at[u] # None, at[u].session # recent[n].session,
                      NEW i \in DOMAIN at[u].text \cap DOMAIN recent[n].text,
                      at[u].text[i] = recent[n].text[i]
               PROVE  at[u].text[i].by = <<>>
    BY DEF OnlySharedPrefixInCommon
  <2>1. Sound(at[u]) /\ Sound(recent[n]) /\ plan \in Plans
    BY DEF ReplayInv
  <2> DEFINE s == at[u].session
             k == at[u].step
             r == recent[n].session
             l == recent[n].step
  <2>2. /\ s \in Nat /\ k \in 1..Len(shape(s)) /\ at[u].text = PureText(s, k)
        /\ r \in Nat /\ l \in 1..Len(shape(r)) /\ recent[n].text = PureText(r, l)
        /\ s # r
    BY <2>1 DEF Sound
  <2> HIDE DEF s, k, r, l
  <2>3. /\ i \in DOMAIN PureText(s, k) /\ i \in DOMAIN PureText(r, l)
        /\ PureText(s, k)[i] = PureText(r, l)[i]
    BY <2>2
  <2>4. PureText(s, k)[i].by = <<>> \/ \E j \in Int : PureText(s, k)[i].by = <<s, j>>
    BY <1>1, <2>1, <2>2, <2>3, PieceOwner
  <2>5. PureText(r, l)[i].by = <<>> \/ \E j \in Int : PureText(r, l)[i].by = <<r, j>>
    BY <1>1, <2>1, <2>2, <2>3, PieceOwner
  <2>6. PureText(s, k)[i].by = <<>>
    BY <2>2, <2>3, <2>4, <2>5
  <2> QED BY <2>2, <2>6
<1> QED BY <1>2, ReplayInvariant, PTL

-----------------------------------------------------------------------------
(***************************************************************************)
(* Finite sets, sums and products.                                         *)
(***************************************************************************)

\* A set of numbers that is not empty has a least member.
LEMMA LeastExists ==
  ASSUME NEW S \in SUBSET Nat, S # {}
  PROVE  \E m \in S : \A x \in S : m <= x
<1>1. PICK m \in S : \A x \in S : ~(<<x, m>> \in OpToRel(<, Nat))
  BY NatLessThanWellFounded, WFMin
<1>2. OpToRel(<, Nat) = {ss \in Nat \X Nat : ss[1] < ss[2]}
  BY DEF OpToRel
<1>3. \A x \in S : ~(x < m)
  BY <1>1, <1>2
<1> QED BY <1>3

\* Induction up to n, on a set.
LEMMA UpTo ==
  ASSUME NEW n \in Nat, NEW S, 0 \in S, \A k \in 0..(n - 1) : k \in S => k + 1 \in S
  PROVE  \A k \in 0..n : k \in S
<1> DEFINE bad == {k \in 0..n : k \notin S}
<1> SUFFICES ASSUME bad # {} PROVE FALSE
  OBVIOUS
<1>1. bad \in SUBSET Nat
  OBVIOUS
<1>2. PICK m \in bad : \A x \in bad : m <= x
  <2> HIDE DEF bad
  <2> QED BY <1>1, LeastExists
<1>3. m \in 0..n /\ m \notin S /\ m # 0
  OBVIOUS
<1>4. m - 1 \in 0..(n - 1) /\ (m - 1) + 1 = m /\ m - 1 \in 0..n /\ ~(m <= m - 1)
  BY <1>3
<1>5. m - 1 \in S
  BY <1>2, <1>4
<1> QED BY <1>3, <1>4, <1>5

\* The union of finitely many finite sets is finite.
LEMMA FiniteUnion ==
  ASSUME NEW n \in Nat, NEW U, \A k \in 1..n : IsFiniteSet(U[k])
  PROVE  IsFiniteSet(UNION {U[k] : k \in 1..n})
<1> DEFINE V == [m \in 0..n |-> UNION {U[k] : k \in 1..m}]
           good == {m \in 0..n : IsFiniteSet(V[m])}
<1>1. V[0] = {} /\ 0 \in 0..n /\ n \in 0..n
  OBVIOUS
<1>2. \A m \in 0..(n - 1) : V[m + 1] = V[m] \cup U[m + 1] /\ m + 1 \in 1..n /\ m + 1 \in 0..n
  <2> SUFFICES ASSUME NEW m \in 0..(n - 1)
               PROVE  V[m + 1] = V[m] \cup U[m + 1] /\ m + 1 \in 1..n /\ m + 1 \in 0..n
    OBVIOUS
  <2>1. /\ 1..(m + 1) = (1..m) \cup {m + 1} /\ m + 1 \in 0..n /\ m \in 0..n /\ m + 1 \in 1..n
    OBVIOUS
  <2> QED BY <2>1
<1> HIDE DEF V
<1>3. 0 \in good
  BY <1>1, FS_EmptySet
<1>4. ASSUME NEW m \in 0..(n - 1), m \in good PROVE m + 1 \in good
  <2>1. V[m + 1] = V[m] \cup U[m + 1] /\ IsFiniteSet(V[m]) /\ IsFiniteSet(U[m + 1])
    BY <1>2, <1>4
  <2>2. IsFiniteSet(V[m] \cup U[m + 1])
    <3> HIDE DEF good
    <3> QED BY <2>1, FS_Union
  <2> QED BY <1>2, <2>1, <2>2
<1>5. n \in good
  <2>1. \A m \in 0..n : m \in good
    <3> HIDE DEF good
    <3> QED BY <1>3, <1>4, UpTo
  <2> HIDE DEF good
  <2> QED BY <1>1, <2>1
<1> QED BY <1>1, <1>5 DEF V

\* So is the image of a finite set.
LEMMA ImageFinite ==
  ASSUME NEW S, IsFiniteSet(S), NEW f
  PROVE  IsFiniteSet({f[x] : x \in S})
<1> DEFINE T == {f[x] : x \in S}
           g == [x \in S |-> f[x]]
<1>1. g \in Surjection(S, T)
  BY DEF Surjection
<1> HIDE DEF T, g
<1>2. IsFiniteSet(T)
  BY <1>1, FS_Surjection
<1> QED BY <1>2 DEF T

\* And what a sequence holds.
LEMMA RangeFinite ==
  ASSUME NEW n \in Nat, NEW q, DOMAIN q = 1..n
  PROVE  IsFiniteSet(Range(q))
<1>1. IsFiniteSet(1..n)
  BY FS_Interval
<1>2. Range(q) = {q[x] : x \in 1..n}
  BY DEF Range
<1> QED BY <1>1, <1>2, ImageFinite

\* Members of a finite chain, each given by what comes before it, are numbered without a gap.
LEMMA RankTaken ==
  ASSUME NEW S, IsFiniteSet(S), NEW before,
         \A a \in S : before[a] \in SUBSET S /\ a \notin before[a],
         \A a, b \in S : a = b \/ (before[a] \cup {a}) \subseteq before[b]
                               \/ (before[b] \cup {b}) \subseteq before[a]
  PROVE  /\ \A k \in 1..Cardinality(S) : \E a \in S : Cardinality(before[a]) = k - 1
         /\ \A a \in S : Cardinality(before[a]) \in Nat
         /\ \A a \in S : Cardinality(before[a]) < Cardinality(S)
         /\ \A a, b \in S : a \in before[b] => Cardinality(before[a]) < Cardinality(before[b])
         /\ \A a, b \in S : Cardinality(before[a]) < Cardinality(before[b]) => a \in before[b]
<1> DEFINE n == Cardinality(S)
           f == [a \in S |-> Cardinality(before[a])]
<1>1. n \in Nat
  BY FS_CardinalityType
<1>2. \A a \in S : /\ IsFiniteSet(before[a]) /\ Cardinality(before[a]) \in Nat
                   /\ Cardinality(before[a]) < n
  <2> SUFFICES ASSUME NEW a \in S
               PROVE  /\ IsFiniteSet(before[a]) /\ Cardinality(before[a]) \in Nat
                      /\ Cardinality(before[a]) < n
    OBVIOUS
  <2>1. before[a] \in SUBSET S /\ before[a] # S
    OBVIOUS
  <2> QED BY <2>1, FS_Subset, FS_CardinalityType
<1>3. ASSUME NEW a \in S, NEW b \in S, (before[a] \cup {a}) \subseteq before[b]
      PROVE  Cardinality(before[a]) < Cardinality(before[b])
  <2>1. before[a] \in SUBSET before[b] /\ before[a] # before[b]
    BY <1>3
  <2>2. /\ Cardinality(before[a]) <= Cardinality(before[b])
        /\ Cardinality(before[a]) # Cardinality(before[b])
    BY <1>2, <2>1, FS_Subset
  <2> QED BY <1>2, <2>2
<1>4. \A a, b \in S : a \in before[b] => Cardinality(before[a]) < Cardinality(before[b])
  <2> SUFFICES ASSUME NEW a \in S, NEW b \in S, a \in before[b]
               PROVE  Cardinality(before[a]) < Cardinality(before[b])
    OBVIOUS
  <2>1. a # b /\ ~((before[b] \cup {b}) \subseteq before[a])
    <3> SUFFICES ASSUME (before[b] \cup {b}) \subseteq before[a] PROVE FALSE
      OBVIOUS
    <3>1. a \in before[a]
      OBVIOUS
    <3> QED BY <3>1
  <2> QED BY <1>3, <2>1
<1>5. \A a, b \in S : Cardinality(before[a]) < Cardinality(before[b]) => a \in before[b]
  <2> SUFFICES ASSUME NEW a \in S, NEW b \in S,
                      Cardinality(before[a]) < Cardinality(before[b]), a \notin before[b]
               PROVE  FALSE
    OBVIOUS
  <2>1. a # b
    BY <1>2
  <2>2. (before[b] \cup {b}) \subseteq before[a]
    BY <2>1
  <2>3. Cardinality(before[b]) < Cardinality(before[a])
    BY <1>3, <2>2
  <2> QED BY <1>2, <2>3
<1>6. f \in Injection(S, 0..n - 1)
  <2>1. f \in [S -> 0..n - 1]
    BY <1>1, <1>2
  <2>2. \A a, b \in S : f[a] = f[b] => a = b
    BY <1>2, <1>3
  <2> QED BY <2>1, <2>2 DEF Injection, IsInjective
<1>7. IsFiniteSet(0..n - 1) /\ Cardinality(0..n - 1) = n
  BY <1>1, FS_Interval
<1>8. f \in Surjection(S, 0..n - 1)
  <2> HIDE DEF f, n
  <2>1. Cardinality(S) = n
    BY DEF n
  <2> QED BY <1>6, <1>7, <2>1, FS_Injection
<1>9. \A k \in 1..n : \E a \in S : Cardinality(before[a]) = k - 1
  <2> SUFFICES ASSUME NEW k \in 1..n PROVE \E a \in S : f[a] = k - 1
    OBVIOUS
  <2>1. k - 1 \in 0..n - 1
    BY <1>1
  <2> HIDE DEF f
  <2> QED BY <1>8, <2>1 DEF Surjection
<1> QED BY <1>2, <1>4, <1>5, <1>9

\* A finite set of numbers has a greatest member.
LEMMA MaxOfSet ==
  ASSUME NEW S \in SUBSET Nat, IsFiniteSet(S), S # {}
  PROVE  Max(S) \in S /\ \A x \in S : x <= Max(S)
<1> DEFINE before == [a \in S |-> {b \in S : b < a}]
           n == Cardinality(S)
<1>1. \A a, b \in S : b \in before[a] <=> b < a
  OBVIOUS
<1>2. \A a \in S : before[a] \in SUBSET S /\ a \notin before[a]
  OBVIOUS
<1> HIDE DEF before
<1>3. \A a, b \in S : a = b \/ (before[a] \cup {a}) \subseteq before[b]
                            \/ (before[b] \cup {b}) \subseteq before[a]
  <2> SUFFICES ASSUME NEW a \in S, NEW b \in S, a < b
               PROVE  (before[a] \cup {a}) \subseteq before[b]
    <3>1. \A a, b \in S : a = b \/ a < b \/ b < a
      OBVIOUS
    <3> QED BY <3>1
  <2>1. \A c \in S : c < a => c < b
    OBVIOUS
  <2> QED BY <1>1, <1>2, <2>1
<1>4. n \in Nat /\ n # 0
  BY FS_CardinalityType, FS_EmptySet
<1>5. /\ \A k \in 1..n : \E a \in S : Cardinality(before[a]) = k - 1
      /\ \A a \in S : Cardinality(before[a]) \in Nat
      /\ \A a \in S : Cardinality(before[a]) < n
      /\ \A a, b \in S : a \in before[b] => Cardinality(before[a]) < Cardinality(before[b])
  BY <1>2, <1>3, RankTaken
<1> HIDE DEF n
<1>6. PICK a \in S : Cardinality(before[a]) = n - 1
  BY <1>4, <1>5
<1>7. \A b \in S : a >= b
  <2> SUFFICES ASSUME NEW b \in S, a < b PROVE FALSE
    OBVIOUS
  <2>1. Cardinality(before[a]) < Cardinality(before[b]) /\ Cardinality(before[b]) < n
        /\ Cardinality(before[b]) \in Nat
    BY <1>1, <1>5
  <2> QED BY <1>4, <1>6, <2>1
<1>8. Max(S) \in S /\ \A y \in S : Max(S) >= y
  BY <1>7 DEF Max
<1> QED BY <1>8

\* A set of numbers has a least one.
LEMMA MinOfSet ==
  ASSUME NEW S \in SUBSET Nat, S # {}
  PROVE  Min(S) \in S /\ \A x \in S : Min(S) <= x
<1>1. \E m \in S : \A x \in S : m <= x
  BY LeastExists
<1> QED BY <1>1 DEF Min

\* The smaller of two numbers.
LEMMA MinOfTwo ==
  ASSUME NEW a \in Int, NEW b \in Int
  PROVE  Min({a, b}) = IF a <= b THEN a ELSE b
BY DEF Min

\* The greater of two numbers.
LEMMA MaxOfTwo ==
  ASSUME NEW a \in Int, NEW b \in Int
  PROVE  Max({a, b}) = IF a >= b THEN a ELSE b
BY DEF Max

\* A sum is its last term on top of the sum before it.
LEMMA SumUnfolds ==
  ASSUME NEW n \in Nat, NEW f
  PROVE  \E s : /\ s[0] = 0 /\ \A k \in 1..n : s[k] = s[k - 1] + f[k]
                /\ SumTo(n, f) = s[n]
<1> DEFINE Fits(h, m) == h = [k \in 0..m |-> IF k = 0 THEN 0 ELSE h[k - 1] + f[k]]
           bad == {m \in 0..n : ~ \E h : Fits(h, m)}
<1>1. bad = {}
  <2> SUFFICES ASSUME bad # {} PROVE FALSE
    OBVIOUS
  <2>1. bad \in SUBSET Nat
    OBVIOUS
  <2>2. PICK m \in bad : \A x \in bad : m <= x
    <3> HIDE DEF bad
    <3> QED BY <2>1, LeastExists
  <2>3. m \in 0..n /\ m \in Nat /\ ~ \E h : Fits(h, m)
    OBVIOUS
  <2>4. m # 0
    <3> SUFFICES ASSUME m = 0 PROVE FALSE
      OBVIOUS
    <3> DEFINE h == [k \in 0..0 |-> 0]
    <3>1. h = [k \in 0..0 |-> IF k = 0 THEN 0 ELSE h[k - 1] + f[k]]
      OBVIOUS
    <3> HIDE DEF h
    <3> QED BY <2>3, <3>1
  <2>5. m - 1 \in 0..n /\ ~(m <= m - 1)
    BY <2>3, <2>4
  <2>6. PICK h : Fits(h, m - 1)
    <3>1. m - 1 \notin bad
      BY <2>2, <2>5
    <3> QED BY <2>5, <3>1
  <2> DEFINE g == [k \in 0..m |-> IF k = m THEN h[m - 1] + f[m] ELSE h[k]]
  <2>7. \A k \in 0..m : g[k] = IF k = 0 THEN 0 ELSE g[k - 1] + f[k]
    <3> SUFFICES ASSUME NEW k \in 0..m PROVE g[k] = IF k = 0 THEN 0 ELSE g[k - 1] + f[k]
      OBVIOUS
    <3>1. CASE k = m
      <4>1. k - 1 \in 0..m /\ k - 1 # m /\ k # 0
        BY <2>3, <2>4, <3>1
      <4>2. g[k - 1] = h[m - 1]
        BY <3>1, <4>1
      <4> QED BY <3>1, <4>1, <4>2
    <3>2. CASE k # m
      <4>1. k \in 0..m - 1
        BY <2>3, <3>2
      <4>2. h[k] = IF k = 0 THEN 0 ELSE h[k - 1] + f[k]
        BY <2>6, <4>1
      <4>3. g[k] = h[k]
        BY <3>2
      <4>4. k # 0 => k - 1 \in 0..m /\ k - 1 # m
        BY <2>3, <4>1
      <4>5. k # 0 => g[k - 1] = h[k - 1]
        BY <4>4
      <4> HIDE DEF g
      <4> QED BY <4>2, <4>3, <4>5
    <3> QED BY <3>1, <3>2
  <2>8. Fits(g, m)
    <3>1. g = [k \in 0..m |-> g[k]]
      OBVIOUS
    <3> HIDE DEF g
    <3> QED BY <2>7, <3>1
  <2> QED BY <2>3, <2>8
<1> DEFINE s == CHOOSE h : Fits(h, n)
<1>2. PICK h : Fits(h, n)
  <2>1. n \in 0..n
    OBVIOUS
  <2> QED BY <1>1, <2>1
<1>3. Fits(s, n)
  <2> HIDE DEF Fits
  <2> QED BY <1>2
<1>4. SumTo(n, f) = s[n]
  BY DEF SumTo
<1> HIDE DEF s
<1>5. s[0] = 0 /\ \A k \in 1..n : s[k] = s[k - 1] + f[k]
  <2>1. 0 \in 0..n /\ \A k \in 1..n : k \in 0..n /\ k # 0
    OBVIOUS
  <2> QED BY <1>3, <2>1
<1> QED BY <1>4, <1>5

\* A sum whose terms g's steps cover is at most g, and is g where they are the same.
LEMMA SumBound ==
  ASSUME NEW n \in Nat, NEW f, \A k \in 1..n : f[k] \in Nat,
         NEW g, g[0] = 0, \A k \in 0..n : g[k] \in Nat,
         \A k \in 1..n : g[k - 1] + f[k] <= g[k]
  PROVE  /\ SumTo(n, f) \in Nat /\ SumTo(n, f) <= g[n]
         /\ (\A k \in 1..n : g[k - 1] + f[k] = g[k]) => SumTo(n, f) = g[n]
<1>1. PICK s : /\ s[0] = 0 /\ \A k \in 1..n : s[k] = s[k - 1] + f[k]
               /\ SumTo(n, f) = s[n]
  BY SumUnfolds
<1> DEFINE exact == \A k \in 1..n : g[k - 1] + f[k] = g[k]
           P(k) == s[k] \in Nat /\ s[k] <= g[k] /\ (exact => s[k] = g[k])
           bad == {k \in 0..n : ~P(k)}
<1> HIDE DEF exact
<1>2. bad = {}
  <2> SUFFICES ASSUME bad # {} PROVE FALSE
    OBVIOUS
  <2>1. bad \in SUBSET Nat
    OBVIOUS
  <2>2. PICK m \in bad : \A x \in bad : m <= x
    <3> HIDE DEF bad
    <3> QED BY <2>1, LeastExists
  <2>3. m \in 0..n /\ ~P(m)
    OBVIOUS
  <2>4. m # 0
    BY <1>1, <2>3
  <2>5. m \in 1..n /\ m - 1 \in 0..n /\ ~(m <= m - 1)
    BY <2>3, <2>4
  <2>6. P(m - 1)
    BY <2>2, <2>5
  <2>7. /\ s[m] = s[m - 1] + f[m] /\ f[m] \in Nat /\ g[m] \in Nat /\ g[m - 1] \in Nat
        /\ g[m - 1] + f[m] <= g[m]
    BY <1>1, <2>5
  <2>8. exact => g[m - 1] + f[m] = g[m]
    BY <2>5 DEF exact
  <2>9. P(m)
    BY <2>6, <2>7, <2>8
  <2> QED BY <2>3, <2>9
<1>3. P(n)
  <2>1. n \in 0..n
    OBVIOUS
  <2> QED BY <1>2, <2>1
<1> QED BY <1>1, <1>3 DEF exact

\* c counts the first sets of U together.
Counts(c, n, U) ==
  /\ c[0] = 0 /\ \A m \in 0..n : c[m] \in Nat
  /\ \A m \in 1..n : Cardinality(U[m]) \in Nat /\ c[m - 1] + Cardinality(U[m]) = c[m]
  /\ c[n] = Cardinality(UNION {U[k] : k \in 1..n})

\* Sets that do not meet are counted one after the other.
LEMMA UnionCounts ==
  ASSUME NEW n \in Nat, NEW U, \A k \in 1..n : IsFiniteSet(U[k]),
         \A k, l \in 1..n : k # l => U[k] \cap U[l] = {}
  PROVE  /\ IsFiniteSet(UNION {U[k] : k \in 1..n})
         /\ \E c : Counts(c, n, U)
<1> DEFINE V == [m \in 0..n |-> UNION {U[k] : k \in 1..m}]
           g == [m \in 0..n |-> Cardinality(V[m])]
           good == {m \in 0..n : IsFiniteSet(V[m])}
<1>1. V[0] = {} /\ 0 \in 0..n /\ n \in 0..n
  OBVIOUS
<1>2. \A m \in 1..n : V[m] = V[m - 1] \cup U[m] /\ V[m - 1] \cap U[m] = {} /\ m - 1 \in 0..n
  <2> SUFFICES ASSUME NEW m \in 1..n
               PROVE  V[m] = V[m - 1] \cup U[m] /\ V[m - 1] \cap U[m] = {} /\ m - 1 \in 0..n
    OBVIOUS
  <2>1. /\ 1..m = (1..(m - 1)) \cup {m} /\ m - 1 \in 0..n /\ m \in 0..n
        /\ \A k \in 1..(m - 1) : k \in 1..n /\ k # m
    OBVIOUS
  <2>2. V[m] = V[m - 1] \cup U[m]
    BY <2>1
  <2>3. V[m - 1] \cap U[m] = {}
    BY <2>1
  <2> QED BY <2>1, <2>2, <2>3
<1> HIDE DEF V
<1>3. 0 \in good
  BY <1>1, FS_EmptySet
<1>4. ASSUME NEW m \in 0..(n - 1), m \in good PROVE m + 1 \in good
  <2>1. m + 1 \in 1..n /\ (m + 1) - 1 = m /\ m + 1 \in 0..n
    OBVIOUS
  <2>2. V[m + 1] = V[m] \cup U[m + 1] /\ IsFiniteSet(V[m]) /\ IsFiniteSet(U[m + 1])
    BY <1>2, <1>4, <2>1
  <2>3. IsFiniteSet(V[m] \cup U[m + 1])
    <3> HIDE DEF good
    <3> QED BY <2>2, FS_Union
  <2> QED BY <2>1, <2>2, <2>3
<1>5. \A m \in 0..n : IsFiniteSet(V[m])
  <2>1. \A m \in 0..n : m \in good
    <3> HIDE DEF good
    <3> QED BY <1>3, <1>4, UpTo
  <2> QED BY <2>1
<1>6. \A m \in 1..n : Cardinality(V[m]) = Cardinality(V[m - 1]) + Cardinality(U[m])
  <2> SUFFICES ASSUME NEW m \in 1..n
               PROVE  Cardinality(V[m]) = Cardinality(V[m - 1]) + Cardinality(U[m])
    OBVIOUS
  <2>1. /\ IsFiniteSet(V[m - 1]) /\ IsFiniteSet(U[m])
        /\ V[m] = V[m - 1] \cup U[m] /\ V[m - 1] \cap U[m] = {}
    BY <1>2, <1>5
  <2>2. Cardinality(V[m]) = Cardinality(V[m - 1]) + Cardinality(U[m]) - Cardinality({})
    BY <2>1, FS_Union
  <2>3. Cardinality(V[m - 1]) \in Nat /\ Cardinality(U[m]) \in Nat /\ Cardinality({}) = 0
    BY <2>1, FS_CardinalityType, FS_EmptySet
  <2> QED BY <2>2, <2>3
<1>7. \A m \in 0..n : Cardinality(V[m]) \in Nat
  BY <1>5, FS_CardinalityType
<1>8. \A m \in 1..n : Cardinality(U[m]) \in Nat
  BY FS_CardinalityType
<1>9. /\ g[0] = 0
      /\ \A m \in 0..n : g[m] \in Nat
      /\ \A m \in 1..n : Cardinality(U[m]) \in Nat /\ g[m - 1] + Cardinality(U[m]) = g[m]
      /\ g[n] = Cardinality(V[n])
  <2>1. g[0] = 0
    BY <1>1, FS_EmptySet
  <2>2. \A m \in 1..n : g[m - 1] + Cardinality(U[m]) = g[m]
    BY <1>2, <1>6
  <2>3. (\A m \in 0..n : g[m] \in Nat) /\ g[n] = Cardinality(V[n])
    BY <1>1, <1>7
  <2> HIDE DEF g
  <2> QED BY <1>8, <2>1, <2>2, <2>3
<1>10. V[n] = UNION {U[k] : k \in 1..n}
  BY <1>1 DEF V
<1>11. Counts(g, n, U)
  <2> HIDE DEF g
  <2> QED BY <1>9, <1>10 DEF Counts
<1> HIDE DEF g
<1> QED BY <1>1, <1>5, <1>10, <1>11

\* The sizes of sets that do not meet add up to the size of their union.
LEMMA SumIsUnion ==
  ASSUME NEW n \in Nat, NEW U, NEW f,
         \A k \in 1..n : IsFiniteSet(U[k]) /\ f[k] = Cardinality(U[k]),
         \A k, l \in 1..n : k # l => U[k] \cap U[l] = {}
  PROVE  /\ IsFiniteSet(UNION {U[k] : k \in 1..n})
         /\ SumTo(n, f) = Cardinality(UNION {U[k] : k \in 1..n})
<1>0. \A k \in 1..n : IsFiniteSet(U[k])
  OBVIOUS
<1>1. IsFiniteSet(UNION {U[k] : k \in 1..n})
  BY <1>0, UnionCounts
<1>2. PICK c : Counts(c, n, U)
  BY <1>0, UnionCounts
<1>3. \A k \in 1..n : f[k] \in Nat /\ c[k - 1] + f[k] = c[k] /\ c[k - 1] + f[k] <= c[k]
  <2> SUFFICES ASSUME NEW k \in 1..n
               PROVE  f[k] \in Nat /\ c[k - 1] + f[k] = c[k] /\ c[k - 1] + f[k] <= c[k]
    OBVIOUS
  <2>1. f[k] \in Nat /\ c[k - 1] + f[k] = c[k] /\ k \in 0..n
    BY <1>2 DEF Counts
  <2>2. c[k] \in Nat
    BY <1>2, <2>1 DEF Counts
  <2> QED BY <2>1, <2>2
<1>4. SumTo(n, f) = c[n]
  BY <1>2, <1>3, SumBound DEF Counts
<1> QED BY <1>1, <1>2, <1>4 DEF Counts

\* A product with a number that is not negative.
LEMMA ProductTypes ==
  ASSUME NEW a \in Nat, NEW b \in Nat, NEW scale \in Nat
  PROVE  /\ scale * a \in Nat /\ scale * (a + b) = scale * a + scale * b
         /\ scale * 0 = 0 /\ (a <= b => scale * a <= scale * b)
OBVIOUS

\* Terms no greater than scale times the sizes sum to no more than that of the union.
LEMMA SumInUnion ==
  ASSUME NEW n \in Nat, NEW U, \A k \in 1..n : IsFiniteSet(U[k]),
         \A k, l \in 1..n : k # l => U[k] \cap U[l] = {}
  PROVE  /\ IsFiniteSet(UNION {U[k] : k \in 1..n})
         /\ \A f, scale :
              /\ scale \in Nat
              /\ \A k \in 1..n : f[k] \in Nat /\ f[k] <= scale * Cardinality(U[k])
              => /\ SumTo(n, f) \in Nat
                 /\ SumTo(n, f) <= scale * Cardinality(UNION {U[k] : k \in 1..n})
<1>0. \A k \in 1..n : IsFiniteSet(U[k])
  OBVIOUS
<1>1. IsFiniteSet(UNION {U[k] : k \in 1..n})
  BY <1>0, UnionCounts
<1>2. PICK c : Counts(c, n, U)
  BY <1>0, UnionCounts
<1>3. ASSUME NEW f, NEW scale \in Nat,
             \A k \in 1..n : f[k] \in Nat /\ f[k] <= scale * Cardinality(U[k])
      PROVE  /\ SumTo(n, f) \in Nat
             /\ SumTo(n, f) <= scale * Cardinality(UNION {U[k] : k \in 1..n})
  <2> DEFINE g == [m \in 0..n |-> scale * c[m]]
  <2>1. \A m \in 0..n : g[m] \in Nat /\ g[m] = scale * c[m]
    BY <1>2, ProductTypes DEF Counts
  <2>2. g[0] = 0 /\ g[n] = scale * Cardinality(UNION {U[k] : k \in 1..n})
    BY <1>2, ProductTypes DEF Counts
  <2> HIDE DEF g
  <2>3. \A k \in 1..n : g[k - 1] + f[k] <= g[k]
    <3> SUFFICES ASSUME NEW k \in 1..n PROVE g[k - 1] + f[k] <= g[k]
      OBVIOUS
    <3> DEFINE x == scale * c[k - 1]
               y == scale * Cardinality(U[k])
    <3>1. k \in 0..n /\ k - 1 \in 0..n
      OBVIOUS
    <3>2. c[k - 1] \in Nat /\ Cardinality(U[k]) \in Nat /\ c[k - 1] + Cardinality(U[k]) = c[k]
      BY <1>2, <3>1 DEF Counts
    <3>3. scale * c[k] = x + y /\ x \in Nat /\ y \in Nat
      BY <3>2, ProductTypes
    <3>4. f[k] \in Nat /\ f[k] <= y
      BY <1>3
    <3>5. g[k - 1] = x /\ g[k] = scale * c[k]
      BY <2>1, <3>1
    <3> HIDE DEF x, y
    <3> QED BY <3>3, <3>4, <3>5
  <2>4. SumTo(n, f) \in Nat /\ SumTo(n, f) <= g[n]
    BY <2>1, <2>2, <2>3, <1>3, SumBound
  <2> QED BY <2>2, <2>4
<1> QED BY <1>1, <1>3

\* What is left of a after m equal shares.
LEMMA Shares ==
  ASSUME NEW a \in Nat, NEW m \in Nat, m > 0
  PROVE  a \div m \in Nat /\ m * (a \div m) <= a
<1> DEFINE q == a \div m
           y == m * q
<1>1. q \in Nat /\ (a % m) \in Nat /\ a = y + (a % m)
  OBVIOUS
<1>2. y \in Nat
  BY <1>1
<1> HIDE DEF y
<1>3. y <= a
  BY <1>1, <1>2
<1> QED BY <1>1, <1>3 DEF y

-----------------------------------------------------------------------------
(***************************************************************************)
(* The transcripts and their steps.                                        *)
(***************************************************************************)

\* What an export's turns are.
LEMMA TurnTypes ==
  ASSUME NEW t, IsTranscript(t)
  PROVE  /\ Len(t.turns) \in Nat /\ DOMAIN t.turns = 1..Len(t.turns)
         /\ \A i \in DOMAIN t.turns :
              /\ i \in Nat /\ t.turns[i] \in TurnRecords
              /\ t.turns[i].prompts \in Seq(Int)
              /\ t.turns[i].created \in Stamps /\ t.turns[i].completed \in Stamps
              /\ CreatedMs(t.turns[i]) \in Nat
<1>1. t.turns \in Seq(TurnRecords)
  BY DEF IsTranscript
<1>2. \A i \in DOMAIN t.turns : t.turns[i] \in TurnRecords /\ i \in Nat
  BY <1>1
<1>3. \A turn \in TurnRecords :
        /\ turn.prompts \in Seq(Int) /\ turn.created \in Stamps /\ turn.completed \in Stamps
        /\ CreatedMs(turn) \in Nat
  BY DEF TurnRecords, CreatedMs, Stamps
<1> QED BY <1>1, <1>2, <1>3

\* The turns are in a strict total order of time.
LEMMA EarlierOrders ==
  ASSUME NEW t, IsTranscript(t)
  PROVE  \A i, j, k \in DOMAIN t.turns :
           /\ ~Earlier(t, i, i)
           /\ Earlier(t, i, j) => CreatedMs(t.turns[i]) <= CreatedMs(t.turns[j])
           /\ CreatedMs(t.turns[i]) < CreatedMs(t.turns[j]) => Earlier(t, i, j)
           /\ Earlier(t, i, j) /\ Earlier(t, j, k) => Earlier(t, i, k)
           /\ i = j \/ Earlier(t, i, j) \/ Earlier(t, j, i)
<1>1. \A i \in DOMAIN t.turns : CreatedMs(t.turns[i]) \in Nat /\ i \in Nat
  BY TurnTypes
<1>2. \A i, j : Earlier(t, i, j) <=>
        \/ CreatedMs(t.turns[i]) < CreatedMs(t.turns[j])
        \/ CreatedMs(t.turns[i]) = CreatedMs(t.turns[j]) /\ i < j
  BY DEF Earlier, LexLess
<1> QED BY <1>1, <1>2

\* The steps of a transcript.
LEMMA StepTypes ==
  ASSUME NEW t, IsTranscript(t), NEW s \in Steps(t)
  PROVE  /\ s = <<s[1], s[2]>> /\ s[1] \in DOMAIN t.turns /\ s[2] \in Nat
         /\ s[2] \in DOMAIN t.turns[s[1]].prompts
         /\ Input(t, s) \in Int
<1>1. PICK i \in DOMAIN t.turns : s \in {i} \X DOMAIN t.turns[i].prompts
  BY DEF Steps
<1>2. s = <<s[1], s[2]>> /\ s[1] = i /\ s[2] \in DOMAIN t.turns[i].prompts
  BY <1>1
<1>3. t.turns[i].prompts \in Seq(Int)
  BY TurnTypes
<1> QED BY <1>2, <1>3 DEF Input

\* So are the steps.
LEMMA SoonerOrders ==
  ASSUME NEW t, IsTranscript(t)
  PROVE  \A r, s, x \in Steps(t) :
           /\ ~Sooner(t, r, r)
           /\ Sooner(t, r, s) /\ Sooner(t, s, x) => Sooner(t, r, x)
           /\ r = s \/ Sooner(t, r, s) \/ Sooner(t, s, r)
<1> SUFFICES ASSUME NEW r \in Steps(t), NEW s \in Steps(t), NEW x \in Steps(t)
             PROVE  /\ ~Sooner(t, r, r)
                    /\ Sooner(t, r, s) /\ Sooner(t, s, x) => Sooner(t, r, x)
                    /\ r = s \/ Sooner(t, r, s) \/ Sooner(t, s, r)
  OBVIOUS
<1>1. \A y \in {r, s, x} : y = <<y[1], y[2]>> /\ y[1] \in DOMAIN t.turns /\ y[2] \in Nat
  BY StepTypes
<1> QED BY <1>1, EarlierOrders DEF Sooner

\* A transcript has finitely many steps.
LEMMA StepsFinite ==
  ASSUME NEW t, IsTranscript(t)
  PROVE  IsFiniteSet(Steps(t))
<1> DEFINE n == Len(t.turns)
           U == [i \in 1..n |-> {i} \X DOMAIN t.turns[i].prompts]
<1>1. n \in Nat /\ DOMAIN t.turns = 1..n
  BY TurnTypes
<1>2. \A i \in 1..n : IsFiniteSet(U[i])
  <2> SUFFICES ASSUME NEW i \in 1..n PROVE IsFiniteSet({i} \X DOMAIN t.turns[i].prompts)
    OBVIOUS
  <2>1. t.turns[i].prompts \in Seq(Int)
    BY <1>1, TurnTypes
  <2>2. \E m \in Nat : DOMAIN t.turns[i].prompts = 1..m
    BY <2>1
  <2>3. IsFiniteSet(DOMAIN t.turns[i].prompts)
    <3>1. \A m \in Nat : IsFiniteSet(1..m)
      BY FS_Interval
    <3> QED BY <2>2, <3>1
  <2> QED BY <2>3, FS_Singleton, FS_Product
<1>3. Steps(t) = UNION {U[i] : i \in 1..n}
  BY <1>1 DEF Steps
<1> HIDE DEF U
<1> QED BY <1>1, <1>2, <1>3, FiniteUnion

\* The n-th step of a transcript has n - 1 before it, and comes right after the one before.
LEMMA StepAtIs ==
  ASSUME NEW t, IsTranscript(t)
  PROVE  /\ Cardinality(Steps(t)) \in Nat
         /\ \A n \in 1..Cardinality(Steps(t)) : StepAt(t, n) \in Steps(t)
         /\ \A n \in 2..Cardinality(Steps(t)) :
              Precedes(t, Steps(t), StepAt(t, n - 1), StepAt(t, n))
<1> DEFINE before == [s \in Steps(t) |-> {r \in Steps(t) : Sooner(t, r, s)}]
           S == Steps(t)
<1>1. IsFiniteSet(S)
  BY StepsFinite
<1>2. \A r, s \in S : r \in before[s] <=> Sooner(t, r, s)
  OBVIOUS
<1>3. \A s \in S : before[s] \in SUBSET S /\ s \notin before[s]
  BY SoonerOrders
<1>4. \A a, b \in S : a = b \/ (before[a] \cup {a}) \subseteq before[b]
                            \/ (before[b] \cup {b}) \subseteq before[a]
  BY SoonerOrders
<1>5. \A n, s : s \in S => ((Cardinality({r \in S : Sooner(t, r, s)}) = n - 1)
                            <=> Cardinality(before[s]) = n - 1)
  OBVIOUS
<1> HIDE DEF before
<1>6. /\ \A k \in 1..Cardinality(S) : \E a \in S : Cardinality(before[a]) = k - 1
      /\ \A a \in S : Cardinality(before[a]) \in Nat
      /\ \A a, b \in S : a \in before[b] => Cardinality(before[a]) < Cardinality(before[b])
      /\ \A a, b \in S : Cardinality(before[a]) < Cardinality(before[b]) => a \in before[b]
  <2> HIDE DEF S
  <2> QED BY <1>1, <1>3, <1>4, RankTaken
<1>7. \A n \in 1..Cardinality(S) : StepAt(t, n) \in S /\ Cardinality(before[StepAt(t, n)]) = n - 1
  BY <1>5, <1>6 DEF StepAt
<1>8. Cardinality(S) \in Nat
  BY <1>1, FS_CardinalityType
<1>9. ASSUME NEW n \in 2..Cardinality(S)
      PROVE  Precedes(t, S, StepAt(t, n - 1), StepAt(t, n))
  <2> DEFINE a == StepAt(t, n - 1)
             b == StepAt(t, n)
  <2>1. n \in 1..Cardinality(S) /\ n - 1 \in 1..Cardinality(S) /\ (n - 1) - 1 = n - 2 /\ n \in Nat
    BY <1>8
  <2>2. a \in S /\ b \in S /\ Cardinality(before[a]) = n - 2 /\ Cardinality(before[b]) = n - 1
    BY <1>7, <2>1
  <2> HIDE DEF a, b
  <2>3. a \in before[b]
    BY <1>6, <2>1, <2>2
  <2>4. ASSUME NEW x \in S, a \in before[x], x \in before[b] PROVE FALSE
    <3>1. Cardinality(before[a]) < Cardinality(before[x])
          /\ Cardinality(before[x]) < Cardinality(before[b])
      BY <1>6, <2>2, <2>4
    <3> QED BY <1>6, <2>1, <2>2, <3>1
  <2>5. Precedes(t, S, a, b)
    BY <1>2, <2>2, <2>3, <2>4 DEF Precedes
  <2> QED BY <2>5 DEF a, b
<1> QED BY <1>7, <1>8, <1>9

\* The n-th session with a step is one of the campaign.
LEMMA NthIs ==
  ASSUME NEW S \in SUBSET Nat, IsFiniteSet(S), NEW n \in 1..Cardinality(S)
  PROVE  Nth(S, n) \in S
<1> DEFINE before == [i \in S |-> {j \in S : j < i}]
<1>1. \A a \in S : before[a] \in SUBSET S /\ a \notin before[a]
  OBVIOUS
<1>2. \A a, b \in S : a = b \/ (before[a] \cup {a}) \subseteq before[b]
                            \/ (before[b] \cup {b}) \subseteq before[a]
  <2> SUFFICES ASSUME NEW a \in S, NEW b \in S, a < b
               PROVE  (before[a] \cup {a}) \subseteq before[b]
    OBVIOUS
  <2>1. \A j \in S : j < a \/ j = a => j < b
    OBVIOUS
  <2> QED BY <2>1
<1>3. \A i \in S : {j \in S : j <= i} = before[i] \cup {i}
  <2> SUFFICES ASSUME NEW i \in S PROVE {j \in S : j <= i} = before[i] \cup {i}
    OBVIOUS
  <2>1. \A j \in S : j <= i <=> j < i \/ j = i
    OBVIOUS
  <2> QED BY <2>1
<1> HIDE DEF before
<1>4. \E i \in S : Cardinality(before[i]) = n - 1
  BY <1>1, <1>2, RankTaken
<1>5. PICK i \in S : Cardinality(before[i]) = n - 1
  BY <1>4
<1>6. Cardinality(before[i] \cup {i}) = n
  <2>1. IsFiniteSet(before[i]) /\ i \notin before[i]
    BY <1>1, FS_Subset
  <2>2. n \in Nat
    <3>1. Cardinality(S) \in Nat
      BY FS_CardinalityType
    <3> QED BY <3>1
  <2>3. Cardinality(before[i] \cup {i}) = Cardinality(before[i]) + 1
    BY <2>1, FS_AddElement
  <2> QED BY <1>5, <2>2, <2>3
<1>7. \E j \in S : Cardinality({l \in S : l <= j}) = n
  BY <1>3, <1>6
<1> QED BY <1>7 DEF Nth

\* What the campaigns hold are transcripts.
LEMMA CampaignHolds ==
  ASSUME campaign \in Campaigns, NEW n \in DOMAIN campaign
  PROVE  IsTranscript(campaign[n])
<1>1. campaign \in Seq({t \in Range(campaign) : IsTranscript(t)})
  BY ProfiledAssumption
<1> QED BY <1>1

\* A prompt that grew within a conversation was counted as growth and is appended.
LEMMA GrowthIsAppended ==
  ASSUME NEW t, IsTranscript(t), NEW s \in GrowthSteps(t),
         \A i, j \in DOMAIN t.turns : CreatedMs(t.turns[i]) = CreatedMs(t.turns[j]) => i = j
  PROVE  ~ResetsPrefix(t, s)
<1> DEFINE Created(y) == CreatedMs(t.turns[y[1]])
<1>1. PICK r \in ConversationSteps(t) :
        /\ Precedes(t, ConversationSteps(t), r, s)
        /\ \A m \in Compactions(t) : MarkBefore(t, m, s) => MarkBefore(t, m, r)
        /\ Input(t, s) > Input(t, r)
  BY DEF GrowthSteps
<1>2. /\ s \in Steps(t) /\ s[1] \in DOMAIN t.turns /\ s[1] \notin Compactions(t)
      /\ r \in Steps(t) /\ r[1] \in DOMAIN t.turns /\ r[1] \notin Compactions(t)
      /\ Input(t, s) \in Int /\ Input(t, r) \in Int
      /\ Sooner(t, r, s)
  BY <1>1, StepTypes DEF GrowthSteps, ConversationSteps, Precedes
\* No mark lies between r and s.
<1>3. ASSUME NEW m \in Compactions(t), Earlier(t, m, s[1]) PROVE Earlier(t, m, r[1])
  <2>1. m \in DOMAIN t.turns /\ CreatedMs(t.turns[m]) \in Nat
        /\ CreatedMs(t.turns[s[1]]) \in Nat /\ m # s[1]
    BY <1>2, TurnTypes DEF Compactions
  <2>2. MarkBefore(t, m, s)
    BY <1>2, <1>3, <2>1, EarlierOrders DEF MarkBefore
  <2>3. MarkBefore(t, m, r)
    BY <1>1, <2>2
  <2> QED BY <1>2, <2>1, <2>3, EarlierOrders DEF MarkBefore
<1>4. ~PendingReset(t, s)
  BY <1>2, <1>3 DEF PendingReset
<1>5. ASSUME NEW q \in Steps(t), Precedes(t, Steps(t), q, s) PROVE q = r
  <2>1. Sooner(t, q, s) /\ ~Sooner(t, q, r) /\ q[1] \in DOMAIN t.turns
    BY <1>2, <1>5, StepTypes DEF Precedes
  <2>2. q = r \/ Sooner(t, r, q)
    BY <1>2, <2>1, SoonerOrders
  <2>3. CASE q \in ConversationSteps(t)
    BY <1>1, <2>1, <2>2, <2>3 DEF Precedes
  <2>4. CASE q \notin ConversationSteps(t) /\ Sooner(t, r, q)
    <3>1. q[1] \in Compactions(t)
      BY <2>4 DEF ConversationSteps
    <3>2. Earlier(t, q[1], s[1]) /\ Earlier(t, r[1], q[1])
      BY <1>2, <2>1, <2>4, <3>1 DEF Sooner
    <3>3. Earlier(t, q[1], r[1])
      BY <1>3, <3>1, <3>2
    <3> QED BY <1>2, <2>1, <3>2, <3>3, EarlierOrders
  <2> QED BY <2>2, <2>3, <2>4
<1> QED BY <1>1, <1>2, <1>4, <1>5 DEF ResetsPrefix

\* A step counted as resuming from a compaction comes after the last of the compactions
\* before it, with no step in between.
LEMMA ResumeIsCold ==
  ASSUME NEW t, IsTranscript(t), NEW s \in ResumeSteps(t),
         \A i, j \in DOMAIN t.turns : CreatedMs(t.turns[i]) = CreatedMs(t.turns[j]) => i = j
  PROVE  ResetsPrefix(t, s)
<1>1. PICK m \in Compactions(t) :
        /\ MarkBefore(t, m, s)
        /\ \A r \in ConversationSteps(t) : Sooner(t, r, s) => ~MarkBefore(t, m, r)
  BY DEF ResumeSteps
<1>2. s \in Steps(t) /\ s[1] \in DOMAIN t.turns /\ s[1] \notin Compactions(t)
  BY StepTypes DEF ResumeSteps, ConversationSteps
<1>3. \A i \in DOMAIN t.turns : CreatedMs(t.turns[i]) \in Nat
  BY TurnTypes
<1>4. Compactions(t) \subseteq DOMAIN t.turns
  BY DEF Compactions
<1> DEFINE gaps == {CreatedMs(t.turns[s[1]]) - CreatedMs(t.turns[l]) :
                      l \in {l \in Compactions(t) : MarkBefore(t, l, s)}}
<1>5. gaps \in SUBSET Nat /\ gaps # {}
  BY <1>1, <1>2, <1>3, <1>4 DEF MarkBefore
<1>6. PICK gap \in gaps : \A x \in gaps : gap <= x
  <2> HIDE DEF gaps
  <2> QED BY <1>5, LeastExists
<1>7. PICK last \in Compactions(t) :
        MarkBefore(t, last, s) /\ gap = CreatedMs(t.turns[s[1]]) - CreatedMs(t.turns[last])
  OBVIOUS
<1>8. \A l \in Compactions(t) : MarkBefore(t, l, s) =>
        CreatedMs(t.turns[l]) <= CreatedMs(t.turns[last])
  <2> SUFFICES ASSUME NEW l \in Compactions(t), MarkBefore(t, l, s)
               PROVE  CreatedMs(t.turns[l]) <= CreatedMs(t.turns[last])
    OBVIOUS
  <2>1. gap <= CreatedMs(t.turns[s[1]]) - CreatedMs(t.turns[l])
    BY <1>6
  <2> HIDE DEF gaps
  <2> QED BY <1>2, <1>3, <1>4, <1>7, <2>1
<1> HIDE DEF gaps
<1>9. Earlier(t, last, s[1])
  BY <1>2, <1>4, <1>7, EarlierOrders DEF MarkBefore
<1>10. ASSUME NEW r \in Steps(t), Sooner(t, r, s), Earlier(t, last, r[1]) PROVE FALSE
  <2>1. /\ r[1] \in DOMAIN t.turns /\ last # r[1]
        /\ CreatedMs(t.turns[last]) < CreatedMs(t.turns[r[1]])
    <3>1. r[1] \in DOMAIN t.turns /\ last # r[1]
      BY <1>4, <1>10, StepTypes, EarlierOrders
    <3>2. CreatedMs(t.turns[last]) <= CreatedMs(t.turns[r[1]])
      BY <1>4, <1>10, <3>1, EarlierOrders
    <3> QED BY <1>3, <1>4, <3>1, <3>2
  <2>2. CASE r \in ConversationSteps(t)
    <3>1. ~MarkBefore(t, m, r)
      BY <1>1, <1>10, <2>2
    <3>2. CreatedMs(t.turns[m]) <= CreatedMs(t.turns[last])
      BY <1>1, <1>8
    <3> QED BY <1>3, <1>4, <2>1, <3>1, <3>2 DEF MarkBefore
  <2>3. CASE r \notin ConversationSteps(t)
    <3>1. r[1] \in Compactions(t)
      BY <2>3 DEF ConversationSteps
    <3>2. Earlier(t, r[1], s[1])
      BY <1>2, <1>10, <3>1 DEF Sooner
    <3>3. CreatedMs(t.turns[r[1]]) < CreatedMs(t.turns[s[1]])
      BY <1>2, <1>3, <2>1, <3>1, <3>2, EarlierOrders
    <3>4. CreatedMs(t.turns[r[1]]) <= CreatedMs(t.turns[last])
      BY <1>8, <3>1, <3>3 DEF MarkBefore
    <3> QED BY <1>3, <1>4, <2>1, <3>4
  <2> QED BY <2>2, <2>3
<1> QED BY <1>7, <1>9, <1>10 DEF PendingReset, ResetsPrefix

\* The aggregate and the shapes read every transcript alike: a step whose growth was counted
\* is appended, one counted as resuming from a compaction starts cold
\* (agent_profile.py:253-283 against 519-554).
THEOREM ProfileIsReplayed == ProfiledSpec => []ProfileAgreesWithReplay
<1>1. campaign \in Campaigns => ProfileAgreesWithReplay
  BY CampaignHolds, GrowthIsAppended, ResumeIsCold DEF ProfileAgreesWithReplay, ReadAlike
<1>2. ProfiledInit => campaign \in Campaigns
  BY DEF ProfiledInit
<1>3. campaign \in Campaigns /\ [ProfiledNext]_profiledVars => (campaign \in Campaigns)'
  BY DEF ProfiledNext, profiledVars
<1> QED BY <1>1, <1>2, <1>3, PTL DEF ProfiledSpec

-----------------------------------------------------------------------------
(***************************************************************************)
(* The replay of a profiled campaign.  It is a replay, of a plan of shapes *)
(* in which a step either grows the prompt or starts a segment.            *)
(***************************************************************************)

\* Every step of a session's shape but the first starts a segment or grows the prompt.
GrowsOrResets ==
  \A i \in DOMAIN plan.shapes : \A k \in 2..Len(plan.shapes[i]) :
    plan.shapes[i][k].resets \/ plan.shapes[i][k].prompt > plan.shapes[i][k - 1].prompt

LEMMA ShapesGrow ==
  ASSUME campaign \in Campaigns, plan.shapes = to_replay_shapes(campaign)
  PROVE  GrowsOrResets
<1> SUFFICES ASSUME NEW i \in DOMAIN plan.shapes, NEW k \in 2..Len(plan.shapes[i]),
                    ~plan.shapes[i][k].resets
             PROVE  plan.shapes[i][k].prompt > plan.shapes[i][k - 1].prompt
  BY DEF GrowsOrResets
<1> DEFINE S == Stepped(campaign)
           t == campaign[Nth(S, i)]
           N == Cardinality(Steps(t))
           q == plan.shapes[i]
<1>1. i \in 1..Cardinality(S) /\ q = ReplayShape(t)
  BY DEF to_replay_shapes
<1>2. IsTranscript(t)
  <2>1. DOMAIN campaign \in SUBSET Nat /\ IsFiniteSet(DOMAIN campaign)
    <3>1. campaign \in Seq({x \in Range(campaign) : IsTranscript(x)})
      BY ProfiledAssumption
    <3>2. \E m \in Nat : DOMAIN campaign = 1..m
      BY <3>1
    <3>3. \A m \in Nat : IsFiniteSet(1..m)
      BY FS_Interval
    <3> QED BY <3>2, <3>3
  <2>2. S \in SUBSET DOMAIN campaign
    BY DEF Stepped
  <2>3. IsFiniteSet(S) /\ S \in SUBSET Nat
    BY <2>1, <2>2, FS_Subset
  <2> HIDE DEF S
  <2>4. Nth(S, i) \in S
    BY <1>1, <2>3, NthIs
  <2> QED BY <2>2, <2>4, CampaignHolds
<1>3. N \in Nat
  BY <1>2, StepAtIs
<1>4. /\ Len(q) = N
      /\ \A n \in 1..N : /\ q[n].prompt = Input(t, StepAt(t, n))
                         /\ q[n].resets = ResetsPrefix(t, StepAt(t, n))
  <2> HIDE DEF t, q
  <2>1. q = [n \in 1..N |->
               [prompt |-> Input(t, StepAt(t, n)), resets |-> ResetsPrefix(t, StepAt(t, n))]]
    BY <1>1 DEF ReplayShape
  <2>2. Len(q) = N
    <3>1. DOMAIN q = 1..N
      BY <2>1
    <3> HIDE DEF N
    <3> QED BY <1>3, <3>1
  <2> QED BY <2>1, <2>2
<1> HIDE DEF N, t, q
<1>5. k \in 2..N /\ k \in 1..N /\ k - 1 \in 1..N
  BY <1>3, <1>4 DEF q
<1> DEFINE r == StepAt(t, k - 1)
           s == StepAt(t, k)
<1>6. r \in Steps(t) /\ s \in Steps(t) /\ Precedes(t, Steps(t), r, s)
  BY <1>2, <1>5, StepAtIs DEF N
<1>7. ~ResetsPrefix(t, s)
  BY <1>4, <1>5 DEF q
<1> HIDE DEF r, s
<1>8. ~(Input(t, s) <= Input(t, r))
  BY <1>6, <1>7 DEF ResetsPrefix
<1>9. Input(t, s) \in Int /\ Input(t, r) \in Int
  BY <1>2, <1>6, StepTypes
<1>10. q[k].prompt = Input(t, s) /\ q[k - 1].prompt = Input(t, r)
  BY <1>4, <1>5 DEF r, s
<1> QED BY <1>8, <1>9, <1>10 DEF q

\* When every other step grows, only the shared prefix can fail to fit.
LEMMA RefusalCause ==
  ASSUME ReplayAssumption, ReplayInv, GrowsOrResets,
         NEW s \in Nat, NEW k \in 1..Len(shape(s)), Raises(s, k)
  PROVE  \E q \in Range(plan.shapes) : \E j \in DOMAIN q :
           (j = 1 \/ q[j].resets) /\ q[j].prompt < plan.shared
<1> DEFINE a == SegmentStart(s, k)
           q == shape(s)
<1>1. plan \in Plans /\ plan.shared \in Nat
  BY DEF ReplayInv, ReplayAssumption, PlanAssumption
<1>2. /\ q \in Seq(StepShapes) /\ Len(q) \in Nat
      /\ \A n \in 1..Len(q) : Prompt(s, n) \in Nat
  BY <1>1, ShapeType
<1>3. a \in 1..k /\ Resets(s, a) /\ \A j \in (a+1)..k : ~Resets(s, j)
  <2>1. k \in Nat \ {0}
    BY <1>2
  <2> QED BY <2>1, SegmentStartIs
<1>4. PICK j \in FirstStep(s, k)..k : Shrinks(s, a, j)
  BY DEF Raises
<1>5. j \in a..k
  <2>1. FirstStep(s, k) \in a..k
    BY FirstStepInSegment
  <2> HIDE DEF a
  <2> QED BY <1>2, <1>3, <2>1
<1>6. \E i \in DOMAIN plan.shapes : q = plan.shapes[i]
  <2>1. plan.shapes \in Seq(Seq(StepShapes) \ {<<>>}) /\ plan.shapes # <<>>
    BY <1>1 DEF ReplayAssumption, PlanAssumption
  <2>2. Len(plan.shapes) \in Nat \ {0}
    BY <2>1
  <2>3. (s % Len(plan.shapes)) + 1 \in 1..Len(plan.shapes)
    BY <2>2, RoundRobin
  <2> QED BY <2>1, <2>3 DEF shape
<1>7. CASE j = a
  <2>1. Prompt(s, a) - plan.shared < 0
    BY <1>4, <1>7 DEF Shrinks, Added
  <2>2. a \in 1..Len(q)
    <3> HIDE DEF a, q
    <3> QED BY <1>2, <1>3 DEF q
  <2>3. Prompt(s, a) = q[a].prompt /\ (a = 1 \/ q[a].resets)
    BY <1>3 DEF Prompt, Resets
  <2>4. Prompt(s, a) \in Nat
    BY <1>2, <2>2
  <2>5. q \in Range(plan.shapes)
    BY <1>6 DEF Range
  <2> HIDE DEF a, q
  <2>6. q[a].prompt < plan.shared /\ a \in DOMAIN q
    BY <1>1, <1>2, <2>1, <2>2, <2>3, <2>4
  <2> QED BY <2>3, <2>5, <2>6
<1>8. CASE j # a
  <2>1. Added(s, a, j) <= 0 /\ Added(s, a, j) = Prompt(s, j) - Prompt(s, j - 1)
    BY <1>4, <1>8 DEF Shrinks, Added
  <2>2. ~Resets(s, j) /\ j \in 2..Len(q) /\ j - 1 \in 1..Len(q) /\ j \in 1..Len(q)
    <3> HIDE DEF a, q
    <3> QED BY <1>2, <1>3, <1>5, <1>8 DEF q
  <2>3. q[j].prompt > q[j - 1].prompt
    <3>1. ~q[j].resets
      BY <2>2 DEF Resets
    <3> HIDE DEF q
    <3> QED BY <1>6, <2>2, <3>1 DEF GrowsOrResets
  <2>4. Prompt(s, j) = q[j].prompt /\ Prompt(s, j - 1) = q[j - 1].prompt
    BY DEF Prompt
  <2>5. Prompt(s, j) \in Nat /\ Prompt(s, j - 1) \in Nat
    BY <1>2, <2>2
  <2> HIDE DEF a, q
  <2> QED BY <2>1, <2>3, <2>4, <2>5
<1> QED BY <1>7, <1>8

\* A plan the replay starts from is one it may load.
LEMMA LoadsWhatWasWritten ==
  ASSUME ProfiledInit
  PROVE  plan \in Plans
<1>1. campaign \in Campaigns /\ \A i \in DOMAIN campaign : ~ShapesRaise(campaign[i])
  BY DEF ProfiledInit
<1>2. PICK shared \in SharedPrefixes :
        /\ to_replay_shapes(campaign) # <<>>
        /\ plan = [shapes |-> to_replay_shapes(campaign), shared |-> shared]
  BY DEF ProfiledInit
<1>3. plan \in {[shapes |-> to_replay_shapes(c), shared |-> p] :
                  c \in {c \in Campaigns : /\ \A i \in DOMAIN c : ~ShapesRaise(c[i])
                                          /\ to_replay_shapes(c) # <<>>},
                  p \in SharedPrefixes}
  BY <1>1, <1>2
<1> QED BY <1>3, ProfiledAssumption

\* The replay of a profiled campaign is a replay of a plan that may be loaded: what
\* agent-profile writes, load_shapes takes (agent_profile.py:471-568, sessions.py:92-160).
THEOREM ProfiledIsReplay == ProfiledSpec => ReplaySpec
<1>1. ProfiledInit => ReplayInit
  <2> SUFFICES ASSUME ProfiledInit PROVE ReplayInit
    OBVIOUS
  <2>1. plan \in Plans
    BY LoadsWhatWasWritten
  <2> QED BY <2>1 DEF ProfiledInit, ReplayInit
<1>2. [ProfiledNext]_profiledVars => [ReplayNext]_replayVars
  BY DEF ProfiledNext, profiledVars
<1> QED BY <1>1, <1>2, PTL DEF ProfiledSpec, ReplaySpec

\* So what holds of every replay holds of it: it is the replay a plan without a memo would
\* give, its texts continue each other and share nothing but the prefix
\* (sessions.py:280-325).
THEOREM ProfiledTextsAreSound ==
  ProfiledSpec => MemolessReplay /\ []OnlySharedPrefixInCommon /\ PrefixExtends
BY ProfiledIsReplay, ReplayIsMemoless, SharesOnlyPrefix, TextExtends, PTL

\* A profiled campaign is refused in the middle of a ladder only when the declared shared
\* prefix is longer than a prompt that starts a segment (sessions.py:291-318 against
\* agent_profile.py:540-552).
THEOREM ProfiledReplaysToTheEnd == ProfiledSpec => []ProfiledNeverRefused
<1> DEFINE Inv == GrowsOrResets /\ ProfiledNeverRefused
<1>1. ReplayAssumption
  BY PlanAssumption, MemoAssumption DEF ReplayAssumption
<1>2. ProfiledInit => Inv
  <2> SUFFICES ASSUME ProfiledInit PROVE Inv
    OBVIOUS
  <2>1. plan.shapes = to_replay_shapes(campaign) /\ refused = FALSE
    BY DEF ProfiledInit, ReplayStart, PureStart
  <2>2. campaign \in Campaigns
    BY DEF ProfiledInit
  <2>3. GrowsOrResets
    BY <2>1, <2>2, ShapesGrow
  <2> QED BY <2>1, <2>3 DEF ProfiledNeverRefused
<1>3. ReplayInv /\ Inv /\ [ReplayNext]_replayVars => Inv'
  <2> SUFFICES ASSUME ReplayInv, Inv, [ReplayNext]_replayVars PROVE Inv'
    OBVIOUS
  <2>1. plan' = plan
    BY DEF ReplayNext, OpenSession, NextStep, NextWindow, replayVars
  <2>2. GrowsOrResets'
    BY <2>1 DEF GrowsOrResets
  <2>3. ASSUME refused' = refused PROVE ProfiledNeverRefused'
    <3>1. ProfiledNeverRefused
      OBVIOUS
    <3>2. Range(plan.shapes)' = Range(plan.shapes)
      BY <2>1
    <3> QED BY <2>1, <2>3, <3>1, <3>2 DEF ProfiledNeverRefused
  <2>4. ASSUME NEW s \in Nat, NEW k \in 1..Len(shape(s)), Raises(s, k)
        PROVE  ProfiledNeverRefused'
    BY <1>1, <2>1, <2>4, RefusalCause DEF ProfiledNeverRefused
  <2>5. ASSUME NEW u \in Users, OpenSession(u) PROVE ProfiledNeverRefused'
    <3>1. Render(u, session_index, 1)
      BY <2>5 DEF OpenSession
    <3>2. session_index \in Nat
      <4>1. SessionBase[window] \in Nat
        BY <1>1 DEF ReplayAssumption, PlanAssumption, ReplayInv
      <4> QED BY <4>1 DEF session_index, ReplayInv
    <3>3. 1 \in 1..Len(shape(session_index))
      <4>1. Len(shape(session_index)) \in Nat \ {0}
        BY <1>1, <3>2, ShapeType DEF ReplayInv
      <4> QED BY <4>1
    <3> QED BY <2>3, <2>4, <3>1, <3>2, <3>3 DEF Render
  <2>6. ASSUME NEW u \in Users, NextStep(u) PROVE ProfiledNeverRefused'
    <3>1. /\ at[u] # None /\ at[u].step # Len(shape(at[u].session))
          /\ Render(u, at[u].session, at[u].step + 1)
      BY <2>6 DEF NextStep, Finished
    <3>2. at[u].session \in Nat /\ at[u].step \in 1..Len(shape(at[u].session))
      BY <3>1 DEF ReplayInv, Sound
    <3>3. at[u].step + 1 \in 1..Len(shape(at[u].session))
      <4>1. Len(shape(at[u].session)) \in Nat
        BY <1>1, <3>2, ShapeType DEF ReplayInv
      <4> QED BY <3>1, <3>2, <4>1
    <3> QED BY <2>3, <2>4, <3>1, <3>2, <3>3 DEF Render
  <2>7. CASE NextWindow
    BY <2>2, <2>3, <2>7 DEF NextWindow
  <2>8. CASE UNCHANGED replayVars
    BY <2>2, <2>3, <2>8 DEF replayVars
  <2> QED BY <2>2, <2>5, <2>6, <2>7, <2>8 DEF ReplayNext
<1>4. [ProfiledNext]_profiledVars => [ReplayNext]_replayVars
  BY DEF ProfiledNext, profiledVars
<1>5. Inv => ProfiledNeverRefused
  OBVIOUS
<1> QED BY <1>2, <1>3, <1>4, <1>5, ProfiledIsReplay, ReplayInvariant, PTL DEF ProfiledSpec

-----------------------------------------------------------------------------
(***************************************************************************)
(* Tool time.  _merge_intervals covers the milliseconds its intervals do,  *)
(* so lengths and overlaps of tool time are sizes of sets.                 *)
(***************************************************************************)

\* Intervals of milliseconds, and the milliseconds they cover.
Spans == {i \in Nat \X Nat : i[1] <= i[2]}
Ms(i) == i[1]..(i[2] - 1)
Covered(intervals) == UNION {Ms(i) : i \in intervals}

\* What _merge_intervals promises: intervals in order, apart from each other.
Apart(q) ==
  /\ q \in Seq(Spans)
  /\ \A k, l \in DOMAIN q : k < l => q[k][2] < q[l][1]

\* Taking the least of what is left lists the intervals in order.
LEMMA SortedIs ==
  ASSUME NEW S \in SUBSET Spans, IsFiniteSet(S)
  PROVE  /\ Cardinality(S) \in Nat
         /\ \A n \in 1..Cardinality(S) : Sorted(S, n) \in S
         /\ \A i \in S : \E n \in 1..Cardinality(S) : i = Sorted(S, n)
         /\ \A n \in 1..Cardinality(S) : n - 1 \in 1..Cardinality(S) =>
              Sorted(S, n - 1)[1] <= Sorted(S, n)[1]
<1> DEFINE N == Cardinality(S)
           before == [i \in S |-> {j \in S : LexLess(j, i)}]
<1>1. \A i \in S : i[1] \in Nat /\ i[2] \in Nat /\ i = <<i[1], i[2]>>
  BY DEF Spans
<1>2. \A i, j \in S : j \in before[i] <=> LexLess(j, i)
  OBVIOUS
<1>3. \A a \in S : before[a] \in SUBSET S /\ a \notin before[a]
  BY <1>1 DEF LexLess
<1>4. \A a, b \in S : a = b \/ (before[a] \cup {a}) \subseteq before[b]
                            \/ (before[b] \cup {b}) \subseteq before[a]
  <2>1. \A a, b, c \in S : LexLess(a, b) /\ LexLess(b, c) => LexLess(a, c)
    BY <1>1 DEF LexLess
  <2>2. \A a, b \in S : a = b \/ LexLess(a, b) \/ LexLess(b, a)
    BY <1>1 DEF LexLess
  <2> QED BY <2>1, <2>2
<1>5. \A n, i : i \in S => ((Cardinality({j \in S : LexLess(j, i)}) = n - 1)
                            <=> Cardinality(before[i]) = n - 1)
  OBVIOUS
<1> HIDE DEF before
<1>6. /\ \A k \in 1..N : \E a \in S : Cardinality(before[a]) = k - 1
      /\ \A a \in S : Cardinality(before[a]) \in Nat
      /\ \A a \in S : Cardinality(before[a]) < N
      /\ \A a, b \in S : a \in before[b] => Cardinality(before[a]) < Cardinality(before[b])
      /\ \A a, b \in S : Cardinality(before[a]) < Cardinality(before[b]) => a \in before[b]
  BY <1>3, <1>4, RankTaken
<1>7. \A n \in 1..N : Sorted(S, n) \in S /\ Cardinality(before[Sorted(S, n)]) = n - 1
  BY <1>5, <1>6 DEF Sorted
<1>8. N \in Nat
  BY FS_CardinalityType
<1>9. \A a, b \in S : Cardinality(before[a]) = Cardinality(before[b]) => a = b
  <2> SUFFICES ASSUME NEW a \in S, NEW b \in S,
                      Cardinality(before[a]) = Cardinality(before[b]), a # b
               PROVE  FALSE
    OBVIOUS
  <2>1. a \in before[b] \/ b \in before[a]
    BY <1>4
  <2> QED BY <1>6, <2>1
<1>10. ASSUME NEW i \in S PROVE \E n \in 1..N : i = Sorted(S, n)
  <2> DEFINE n == Cardinality(before[i]) + 1
  <2>1. n \in 1..N /\ n - 1 = Cardinality(before[i])
    BY <1>6, <1>8
  <2> HIDE DEF n
  <2>2. i = Sorted(S, n)
    BY <1>7, <1>9, <2>1
  <2> QED BY <2>1, <2>2
<1>11. ASSUME NEW n \in 1..N, n - 1 \in 1..N
       PROVE  Sorted(S, n - 1)[1] <= Sorted(S, n)[1]
  <2> DEFINE a == Sorted(S, n - 1)
             b == Sorted(S, n)
  <2>1. a \in S /\ b \in S /\ Cardinality(before[a]) = (n - 1) - 1
        /\ Cardinality(before[b]) = n - 1
    BY <1>7, <1>11
  <2>2. (n - 1) - 1 < n - 1
    BY <1>8
  <2> HIDE DEF a, b
  <2>3. LexLess(a, b)
    BY <1>2, <1>6, <2>1, <2>2
  <2>4. a[1] <= b[1]
    BY <1>1, <2>1, <2>3 DEF LexLess
  <2> QED BY <2>4 DEF a, b
<1> QED BY <1>7, <1>8, <1>10, <1>11

\* One pass of the loop keeps the promise and covers the interval it is given.
LEMMA MergedIs ==
  ASSUME NEW q, Apart(q), NEW i \in Spans, q # <<>> => q[Len(q)][1] <= i[1]
  PROVE  /\ Apart(Merged(q, i)) /\ Merged(q, i) # <<>>
         /\ Merged(q, i)[Len(Merged(q, i))][1] <= i[1]
         /\ Covered(Range(Merged(q, i))) = Covered(Range(q)) \cup Ms(i)
<1> DEFINE L == Len(q)
           r == Merged(q, i)
<1>1. /\ q \in Seq(Spans) /\ L \in Nat /\ DOMAIN q = 1..L
      /\ \A k \in 1..L : q[k] \in Spans /\ q[k][1] \in Nat /\ q[k][2] \in Nat
                         /\ q[k][1] <= q[k][2] /\ q[k] = <<q[k][1], q[k][2]>>
      /\ \A k, l \in 1..L : k < l => q[k][2] < q[l][1]
  <2>1. q \in Seq(Spans)
    BY DEF Apart
  <2>2. L \in Nat /\ DOMAIN q = 1..L /\ \A k \in 1..L : q[k] \in Spans
    BY <2>1
  <2>3. \A s \in Spans : s[1] \in Nat /\ s[2] \in Nat /\ s[1] <= s[2] /\ s = <<s[1], s[2]>>
    BY DEF Spans
  <2> HIDE DEF L
  <2> QED BY <2>1, <2>2, <2>3 DEF Apart
<1>2. i[1] \in Nat /\ i[2] \in Nat /\ i[1] <= i[2] /\ i = <<i[1], i[2]>>
  BY DEF Spans
<1>3. CASE q # <<>> /\ i[1] <= q[L][2]
  <2> DEFINE top == Max({q[L][2], i[2]})
             last == <<q[L][1], top>>
  <2>1. L \in 1..L /\ L # 0
    BY <1>1, <1>3
  <2>2. top \in Nat /\ q[L][2] <= top /\ i[2] <= top /\ (top = q[L][2] \/ top = i[2])
    <3>1. q[L][2] \in Int /\ i[2] \in Int
      BY <1>1, <1>2, <2>1
    <3>2. top = IF q[L][2] >= i[2] THEN q[L][2] ELSE i[2]
      BY <3>1, MaxOfTwo
    <3> HIDE DEF top
    <3> QED BY <1>1, <1>2, <2>1, <3>2
  <2> HIDE DEF top
  <2>3. r = [q EXCEPT ![L] = last]
    BY <1>3 DEF Merged, top
  <2>4. last \in Spans /\ last[1] = q[L][1] /\ last[2] = top
    <3>1. last \in Nat \X Nat /\ last[1] = q[L][1] /\ last[2] = top
      BY <1>1, <2>1, <2>2
    <3>2. q[L][1] <= top
      BY <1>1, <2>1, <2>2
    <3> QED BY <3>1, <3>2 DEF Spans
  <2> HIDE DEF r, last
  <2>5. /\ r \in Seq(Spans) /\ Len(r) = L /\ DOMAIN r = 1..L
        /\ r[L] = last /\ \A k \in 1..L : k # L => r[k] = q[k]
    <3> HIDE DEF L
    <3>1. r \in [1..L -> Spans]
      BY <1>1, <2>1, <2>3, <2>4
    <3>2. r \in Seq(Spans)
      BY <1>1, <3>1
    <3>3. Len(r) = L
      BY <1>1, <3>1, <3>2
    <3> QED BY <1>1, <2>1, <2>3, <3>1, <3>2, <3>3
  <2>6. \A k, l \in DOMAIN r : k < l => r[k][2] < r[l][1]
    <3> SUFFICES ASSUME NEW k \in 1..L, NEW l \in 1..L, k < l PROVE r[k][2] < r[l][1]
      BY <2>5
    <3>1. k # L /\ q[k][2] < q[l][1]
      <4>1. L \in Nat
        BY <1>1
      <4> HIDE DEF L
      <4>2. k # L
        BY <4>1
      <4> QED BY <1>1, <4>2
    <3>2. r[k] = q[k] /\ r[l][1] = q[l][1]
      <4> HIDE DEF L
      <4> QED BY <2>4, <2>5, <3>1
    <3> QED BY <3>1, <3>2
  <2>7. Covered(Range(r)) = Covered(Range(q)) \cup Ms(i)
    <3>1. Ms(last) = Ms(q[L]) \cup Ms(i)
      <4>1. q[L][1] \in Nat /\ q[L][2] \in Nat /\ q[L][1] <= q[L][2]
            /\ q[L][1] <= i[1] /\ i[1] <= q[L][2]
        BY <1>1, <1>3, <2>1
      <4>2. Ms(last) = q[L][1]..(top - 1)
        BY <2>4 DEF Ms
      <4>3. \A a, b, c, d, e \in Nat :
              a <= b /\ a <= c /\ c <= b /\ b <= e /\ d <= e /\ (e = b \/ e = d) /\ c <= d
                => a..(e - 1) = (a..(b - 1)) \cup (c..(d - 1))
        OBVIOUS
      <4>4. q[L][1]..(top - 1) = (q[L][1]..(q[L][2] - 1)) \cup (i[1]..(i[2] - 1))
        <5> HIDE DEF L
        <5> QED BY <1>2, <2>2, <4>1, <4>3
      <4> QED BY <4>2, <4>4 DEF Ms
    <3>2. \A m : m \in Covered(Range(r)) <=> \E k \in 1..L : m \in Ms(r[k])
      BY <2>5 DEF Covered, Range
    <3>3. \A m : m \in Covered(Range(q)) <=> \E k \in 1..L : m \in Ms(q[k])
      BY <1>1 DEF Covered, Range
    <3> HIDE DEF L
    <3> QED BY <2>1, <2>5, <3>1, <3>2, <3>3
  <2>8. r # <<>> /\ r[Len(r)][1] <= i[1]
    <3>1. q[L][1] <= i[1]
      BY <1>3
    <3>2. r # <<>>
      BY <2>1, <2>5
    <3> HIDE DEF L
    <3> QED BY <2>4, <2>5, <3>1, <3>2
  <2> QED BY <2>5, <2>6, <2>7, <2>8 DEF Apart, r
<1>4. CASE ~(q # <<>> /\ i[1] <= q[L][2])
  <2>1. r = Append(q, i)
    BY <1>4 DEF Merged
  <2> HIDE DEF r
  <2>2. /\ r \in Seq(Spans) /\ Len(r) = L + 1 /\ DOMAIN r = 1..(L + 1) /\ L + 1 \in 1..(L + 1)
        /\ r[L + 1] = i /\ \A k \in 1..L : r[k] = q[k]
    BY <1>1, <2>1
  <2>3. \A k \in 1..L : q[k][2] < i[1]
    <3> SUFFICES ASSUME NEW k \in 1..L PROVE q[k][2] < i[1]
      OBVIOUS
    <3>1. L \in 1..L /\ q # <<>>
      BY <1>1
    <3>2. q[L][2] < i[1]
      BY <1>1, <1>2, <1>4, <3>1
    <3>3. k # L => q[k][2] < q[L][1] /\ q[L][1] <= q[L][2]
      <4>1. L \in Nat
        BY <1>1
      <4> HIDE DEF L
      <4>2. k # L => k < L
        BY <4>1
      <4> QED BY <1>1, <3>1, <4>2
    <3>4. q[k][2] \in Nat /\ q[L][1] \in Nat /\ q[L][2] \in Nat
      BY <1>1, <3>1
    <3> HIDE DEF L
    <3> QED BY <1>2, <3>2, <3>3, <3>4
  <2>4. \A k, l \in DOMAIN r : k < l => r[k][2] < r[l][1]
    <3> SUFFICES ASSUME NEW k \in 1..(L + 1), NEW l \in 1..(L + 1), k < l
                 PROVE  r[k][2] < r[l][1]
      BY <2>2
    <3>0. L \in Nat
      BY <1>1
    <3>1. k \in 1..L /\ r[k] = q[k]
      <4> HIDE DEF L
      <4>1. k \in 1..L
        BY <3>0
      <4> QED BY <2>2, <4>1
    <3>2. CASE l = L + 1
      BY <2>2, <2>3, <3>1, <3>2
    <3>3. CASE l # L + 1
      <4> HIDE DEF L
      <4>1. l \in 1..L
        BY <3>0, <3>3
      <4> QED BY <1>1, <2>2, <3>1, <4>1
    <3> QED BY <3>2, <3>3
  <2>5. Covered(Range(r)) = Covered(Range(q)) \cup Ms(i)
    <3>1. \A m : m \in Covered(Range(r)) <=> \E k \in 1..(L + 1) : m \in Ms(r[k])
      BY <2>2 DEF Covered, Range
    <3>2. \A m : m \in Covered(Range(q)) <=> \E k \in 1..L : m \in Ms(q[k])
      BY <1>1 DEF Covered, Range
    <3>3. \A k : k \in 1..(L + 1) <=> k \in 1..L \/ k = L + 1
      BY <1>1
    <3> HIDE DEF L
    <3> QED BY <2>2, <3>1, <3>2, <3>3
  <2>6. r # <<>> /\ r[Len(r)][1] <= i[1]
    BY <1>1, <1>2, <2>2
  <2> QED BY <2>2, <2>4, <2>5, <2>6 DEF Apart, r
<1> QED BY <1>3, <1>4

\* _merge_intervals is its loop, pass by pass.
LEMMA MergeUnfolds ==
  ASSUME NEW S, Cardinality(S) \in Nat
  PROVE  \E s : /\ s[0] = <<>>
                /\ \A k \in 1..Cardinality(S) : s[k] = Merged(s[k - 1], Sorted(S, k))
                /\ _merge_intervals(S) = s[Cardinality(S)]
<1> DEFINE N == Cardinality(S)
           Fits(h, m) == h = [k \in 0..m |-> IF k = 0 THEN <<>> ELSE Merged(h[k - 1], Sorted(S, k))]
           good == {m \in 0..N : \E h : Fits(h, m)}
<1> HIDE DEF N
<1>0. N \in Nat
  BY DEF N
<1>1. 0 \in good
  <2> DEFINE h == [k \in 0..0 |-> <<>>]
  <2>1. h = [k \in 0..0 |-> IF k = 0 THEN <<>> ELSE Merged(h[k - 1], Sorted(S, k))]
    OBVIOUS
  <2> HIDE DEF h
  <2>2. 0 \in 0..N
    BY <1>0
  <2> QED BY <2>1, <2>2
<1>2. ASSUME NEW m \in 0..(N - 1), m \in good PROVE m + 1 \in good
  <2>1. PICK h : Fits(h, m)
    BY <1>2
  <2> DEFINE n == m + 1
             g == [k \in 0..n |-> IF k = n THEN Merged(h[m], Sorted(S, n)) ELSE h[k]]
  <2>2. n \in 0..N /\ n # 0 /\ n - 1 = m /\ m \in Nat
    BY <1>0
  <2> HIDE DEF n
  <2>3. \A k \in 0..n : g[k] = IF k = 0 THEN <<>> ELSE Merged(g[k - 1], Sorted(S, k))
    <3> SUFFICES ASSUME NEW k \in 0..n
                 PROVE  g[k] = IF k = 0 THEN <<>> ELSE Merged(g[k - 1], Sorted(S, k))
      OBVIOUS
    <3>1. CASE k = n
      <4>1. k - 1 \in 0..n /\ k - 1 # n /\ k # 0 /\ k - 1 = m
        BY <1>0, <2>2, <3>1
      <4>2. g[k - 1] = h[m]
        BY <3>1, <4>1
      <4>3. g[k] = Merged(h[m], Sorted(S, k))
        BY <3>1
      <4> HIDE DEF g
      <4> QED BY <3>1, <4>1, <4>2, <4>3
    <3>2. CASE k # n
      <4>1. k \in 0..m
        BY <1>0, <2>2, <3>2
      <4>2. h[k] = IF k = 0 THEN <<>> ELSE Merged(h[k - 1], Sorted(S, k))
        BY <2>1, <4>1
      <4>3. g[k] = h[k]
        BY <3>2
      <4>4. k # 0 => k - 1 \in 0..n /\ k - 1 # n
        BY <2>2, <4>1
      <4>5. k # 0 => g[k - 1] = h[k - 1]
        BY <4>4
      <4> HIDE DEF g
      <4> QED BY <4>2, <4>3, <4>5
    <3> QED BY <3>1, <3>2
  <2>4. Fits(g, n)
    <3>1. g = [k \in 0..n |-> g[k]]
      OBVIOUS
    <3> HIDE DEF g
    <3> QED BY <2>3, <3>1
  <2>5. n \in good
    <3> HIDE DEF Fits, g
    <3> QED BY <2>2, <2>4
  <2> QED BY <2>5 DEF n
<1>3. N \in good
  <2>1. \A m \in 0..N : m \in good
    <3> HIDE DEF good
    <3> QED BY <1>0, <1>1, <1>2, UpTo
  <2>2. N \in 0..N
    BY <1>0
  <2> HIDE DEF good
  <2> QED BY <2>1, <2>2
<1> DEFINE s == CHOOSE h : Fits(h, N)
<1>4. Fits(s, N)
  <2>1. \E h : Fits(h, N)
    BY <1>3
  <2> HIDE DEF Fits
  <2> QED BY <2>1
<1>5. _merge_intervals(S) = s[N]
  BY DEF _merge_intervals, N
<1> HIDE DEF s
<1>6. s[0] = <<>> /\ \A k \in 1..N : s[k] = Merged(s[k - 1], Sorted(S, k))
  <2>1. 0 \in 0..N /\ \A k \in 1..N : k \in 0..N /\ k # 0
    BY <1>0
  <2> QED BY <1>4, <2>1
<1> QED BY <1>5, <1>6 DEF N

\* The merge lists intervals that do not touch and cover the same milliseconds.
LEMMA MergeIs ==
  ASSUME NEW S \in SUBSET Spans, IsFiniteSet(S)
  PROVE  /\ Apart(_merge_intervals(S))
         /\ Covered(Range(_merge_intervals(S))) = Covered(S)
<1> DEFINE N == Cardinality(S)
<1>1. /\ N \in Nat
      /\ \A n \in 1..N : Sorted(S, n) \in S
      /\ \A i \in S : \E n \in 1..N : i = Sorted(S, n)
      /\ \A n \in 1..N : n - 1 \in 1..N => Sorted(S, n - 1)[1] <= Sorted(S, n)[1]
  BY SortedIs
<1>2. PICK s : /\ s[0] = <<>> /\ \A k \in 1..N : s[k] = Merged(s[k - 1], Sorted(S, k))
               /\ _merge_intervals(S) = s[N]
  BY <1>1, MergeUnfolds
<1> HIDE DEF N
<1> DEFINE Pre(m) == UNION {Ms(Sorted(S, n)) : n \in 1..m}
           good == {m \in 0..N : /\ Apart(s[m])
                                 /\ Covered(Range(s[m])) = Pre(m)
                                 /\ m # 0 => s[m] # <<>> /\ s[m][Len(s[m])][1] <= Sorted(S, m)[1]}
<1>3. 0 \in good
  <2>1. Apart(<<>>)
    BY DEF Apart
  <2>2. Range(<<>>) = {}
    BY DEF Range
  <2>3. Covered(Range(<<>>)) = {} /\ Pre(0) = {}
    BY <2>2 DEF Covered
  <2>4. 0 \in 0..N
    BY <1>1
  <2> HIDE DEF Pre
  <2> QED BY <1>2, <2>1, <2>3, <2>4
<1>4. ASSUME NEW m \in 0..(N - 1), m \in good PROVE m + 1 \in good
  <2> DEFINE n == m + 1
             i == Sorted(S, n)
             q == s[m]
  <2>1. n \in 1..N /\ n \in 0..N /\ n - 1 = m /\ m \in Nat /\ n # 0 /\ (m # 0 => m \in 1..N)
    BY <1>1
  <2>2. s[n] = Merged(q, i)
    BY <1>2, <2>1
  <2>3. i \in Spans /\ i[1] \in Nat
    <3>1. i \in S
      BY <1>1, <2>1
    <3>2. \A x \in Spans : x[1] \in Nat
      BY DEF Spans
    <3> QED BY <3>1, <3>2
  <2>4. /\ Apart(q) /\ Covered(Range(q)) = Pre(m)
        /\ m # 0 => q # <<>> /\ q[Len(q)][1] <= Sorted(S, m)[1]
    BY <1>4
  <2>5. q # <<>> => q[Len(q)][1] <= i[1]
    <3> SUFFICES ASSUME q # <<>> PROVE q[Len(q)][1] <= i[1]
      OBVIOUS
    <3>1. m # 0
      BY <1>2
    <3>2. Sorted(S, m)[1] <= i[1]
      <4>1. n - 1 \in 1..N
        BY <2>1, <3>1
      <4>2. Sorted(S, n - 1)[1] <= Sorted(S, n)[1]
        BY <1>1, <2>1, <4>1
      <4> HIDE DEF n
      <4> QED BY <2>1, <4>2
    <3>3. Sorted(S, m)[1] \in Nat
      <4>1. Sorted(S, m) \in S
        BY <1>1, <2>1, <3>1
      <4> QED BY <4>1 DEF Spans
    <3>4. q[Len(q)][1] \in Nat
      <4>1. q \in Seq(Spans)
        BY <2>4 DEF Apart
      <4>2. q[Len(q)] \in Spans
        <5> HIDE DEF q
        <5> QED BY <4>1
      <4> QED BY <4>2 DEF Spans
    <3>5. q[Len(q)][1] <= Sorted(S, m)[1]
      BY <2>4, <3>1
    <3> HIDE DEF q, i
    <3> QED BY <2>3, <3>2, <3>3, <3>4, <3>5
  <2> HIDE DEF q, i, n, Pre
  <2>6. /\ Apart(s[n]) /\ s[n] # <<>> /\ s[n][Len(s[n])][1] <= i[1]
        /\ Covered(Range(s[n])) = Covered(Range(q)) \cup Ms(i)
    BY <2>2, <2>3, <2>4, <2>5, MergedIs
  <2>7. Pre(n) = Pre(m) \cup Ms(i)
    <3>1. \A k : k \in 1..n <=> k \in 1..m \/ k = n
      BY <2>1
    <3> QED BY <3>1 DEF Pre, i
  <2>8. n \in good
    <3> DEFINE good2 == good
    <3> QED BY <2>1, <2>4, <2>6, <2>7 DEF i
  <2> QED BY <2>8 DEF n
<1>5. N \in good
  <2>1. \A m \in 0..N : m \in good
    <3> HIDE DEF good
    <3> QED BY <1>1, <1>3, <1>4, UpTo
  <2> QED BY <1>1, <2>1
<1>6. Pre(N) = Covered(S)
  BY <1>1 DEF Covered
<1> HIDE DEF Pre
<1> QED BY <1>2, <1>5, <1>6

\* A range of numbers has as many as its ends are apart.
LEMMA MsFinite ==
  ASSUME NEW a \in Int, NEW b \in Int
  PROVE  IsFiniteSet(a..(b - 1)) /\ Cardinality(a..(b - 1)) = Max({0, b - a})
<1>1. b - 1 \in Int
  OBVIOUS
<1>2. IsFiniteSet(a..(b - 1)) /\ Cardinality(a..(b - 1)) = IF a > b - 1 THEN 0 ELSE (b - 1) - a + 1
  BY <1>1, FS_Interval
<1>3. Max({0, b - a}) = IF 0 >= b - a THEN 0 ELSE b - a
  BY MaxOfTwo
<1> QED BY <1>2, <1>3

\* The merged length is the number of milliseconds covered, and the overlap with a window
\* the number of those in the window.
LEMMA LengthIs ==
  ASSUME NEW q, Apart(q)
  PROVE  /\ IsFiniteSet(Covered(Range(q)))
         /\ Length(q) = Cardinality(Covered(Range(q)))
         /\ \A w : w.created \in Nat /\ w.completed \in Nat =>
              OverlapMs(q, w) = Cardinality(Covered(Range(q)) \cap (w.created..(w.completed - 1)))
<1> DEFINE L == Len(q)
           U == [k \in 1..L |-> Ms(q[k])]
<1>1. q \in Seq(Spans) /\ L \in Nat /\ DOMAIN q = 1..L /\ \A k \in 1..L : q[k] \in Spans
  <2>1. q \in Seq(Spans)
    BY DEF Apart
  <2> QED BY <2>1
<1>2. \A k \in 1..L : q[k][1] \in Nat /\ q[k][2] \in Nat /\ q[k][1] <= q[k][2]
  <2>1. \A x \in Spans : x[1] \in Nat /\ x[2] \in Nat /\ x[1] <= x[2]
    BY DEF Spans
  <2> HIDE DEF L
  <2> QED BY <1>1, <2>1
<1>3. \A k, l \in 1..L : k < l => q[k][2] < q[l][1]
  BY <1>1 DEF Apart
<1>4. Covered(Range(q)) = UNION {U[k] : k \in 1..L}
  BY <1>1 DEF Covered, Range
<1> HIDE DEF L
<1>5. \A k, l \in 1..L : k # l => U[k] \cap U[l] = {}
  <2> SUFFICES ASSUME NEW k \in 1..L, NEW l \in 1..L, k < l PROVE U[k] \cap U[l] = {}
    <3>1. \A k, l \in 1..L : k # l => k < l \/ l < k
      BY <1>1
    <3> QED BY <3>1
  <2>1. q[k][2] < q[l][1] /\ q[k][1] \in Nat /\ q[k][2] \in Nat /\ q[l][1] \in Nat /\ q[l][2] \in Nat
    BY <1>2, <1>3
  <2>2. U[k] = q[k][1]..(q[k][2] - 1) /\ U[l] = q[l][1]..(q[l][2] - 1)
    BY DEF Ms
  <2> HIDE DEF U
  <2> QED BY <2>1, <2>2
<1>6. /\ IsFiniteSet(Covered(Range(q)))
      /\ Length(q) = Cardinality(Covered(Range(q)))
  <2> DEFINE f == [n \in DOMAIN q |-> q[n][2] - q[n][1]]
  <2>1. Length(q) = SumTo(L, f)
    BY DEF Length, L
  <2>2. \A k \in 1..L : IsFiniteSet(U[k]) /\ f[k] = Cardinality(U[k])
    <3> SUFFICES ASSUME NEW k \in 1..L PROVE IsFiniteSet(U[k]) /\ f[k] = Cardinality(U[k])
      OBVIOUS
    <3>1. U[k] = q[k][1]..(q[k][2] - 1)
      BY DEF Ms
    <3>2. f[k] = q[k][2] - q[k][1]
      BY <1>1
    <3>3. q[k][2] - q[k][1] \in Nat /\ q[k][2] - q[k][1] \in Int
      BY <1>2
    <3>4. Max({0, q[k][2] - q[k][1]}) = q[k][2] - q[k][1]
      <4>1. Max({0, q[k][2] - q[k][1]}) = IF 0 >= q[k][2] - q[k][1] THEN 0 ELSE q[k][2] - q[k][1]
        BY <3>3, MaxOfTwo
      <4> QED BY <3>3, <4>1
    <3>5. q[k][1] \in Int /\ q[k][2] \in Int
      BY <1>2
    <3> HIDE DEF U, f
    <3> QED BY <3>1, <3>2, <3>4, <3>5, MsFinite
  <2> HIDE DEF f, U
  <2> QED BY <1>1, <1>4, <1>5, <2>1, <2>2, SumIsUnion
<1>7. ASSUME NEW w, w.created \in Nat, w.completed \in Nat
      PROVE  OverlapMs(q, w) = Cardinality(Covered(Range(q)) \cap (w.created..(w.completed - 1)))
  <2> DEFINE f == [n \in DOMAIN q |-> Overlap(q[n], w)]
             W == w.created..(w.completed - 1)
             V == [k \in 1..L |-> U[k] \cap W]
  <2>1. OverlapMs(q, w) = SumTo(L, f)
    BY DEF OverlapMs, L
  <2>2. \A k \in 1..L : IsFiniteSet(V[k]) /\ f[k] = Cardinality(V[k])
    <3> SUFFICES ASSUME NEW k \in 1..L PROVE IsFiniteSet(V[k]) /\ f[k] = Cardinality(V[k])
      OBVIOUS
    <3> DEFINE lo == Max({q[k][1], w.created})
               hi == Min({q[k][2], w.completed})
    <3>1. q[k][1] \in Nat /\ q[k][2] \in Nat /\ q[k][1] \in Int /\ q[k][2] \in Int
          /\ w.created \in Int /\ w.completed \in Int
      BY <1>2, <1>7
    <3>2. lo = IF q[k][1] >= w.created THEN q[k][1] ELSE w.created
      BY <3>1, MaxOfTwo
    <3>3. hi = IF q[k][2] <= w.completed THEN q[k][2] ELSE w.completed
      BY <3>1, MinOfTwo
    <3>4. f[k] = Max({0, hi - lo})
      BY <1>1 DEF Overlap
    <3> HIDE DEF lo, hi, f
    <3>5. V[k] = lo..(hi - 1)
      <4>1. V[k] = (q[k][1]..(q[k][2] - 1)) \cap (w.created..(w.completed - 1))
        BY DEF Ms
      <4> HIDE DEF V
      <4> QED BY <3>1, <3>2, <3>3, <4>1
    <3>6. lo \in Int /\ hi \in Int
      BY <3>1, <3>2, <3>3
    <3> HIDE DEF V
    <3> QED BY <3>4, <3>5, <3>6, MsFinite
  <2>3. \A k, l \in 1..L : k # l => V[k] \cap V[l] = {}
    BY <1>5
  <2>4. UNION {V[k] : k \in 1..L} = Covered(Range(q)) \cap W
    BY <1>4
  <2> HIDE DEF f, V, U, W
  <2>5. L \in Nat
    BY <1>1
  <2>6. /\ IsFiniteSet(UNION {V[k] : k \in 1..L})
        /\ SumTo(L, f) = Cardinality(UNION {V[k] : k \in 1..L})
    BY <2>2, <2>3, <2>5, SumIsUnion
  <2> QED BY <2>1, <2>4, <2>6 DEF W
<1> QED BY <1>6, <1>7

-----------------------------------------------------------------------------
(***************************************************************************)
(* The milliseconds of a session.                                          *)
(***************************************************************************)

\* The session itself; a message's window; the wait from its end to the next message.
Session(t) ==
  IF AllCreated(t) = {} THEN {} ELSE Min(AllCreated(t))..(Max(EndTimes(t)) - 1)
Window(t, i) ==
  IF i \in MessageWindows(t) THEN t.turns[i].created..(t.turns[i].completed - 1) ELSE {}
Waiting(t, i) ==
  IF i \in MessageWindows(t)
  THEN t.turns[i].completed..(t.turns[i].completed + Trailing(t, i) - 1) ELSE {}
Blocked(t, i) == Covered(Intervals(t.turns[i]))

\* The tool calls of an export are finitely many intervals.
LEMMA IntervalTypes ==
  ASSUME NEW t, IsTranscript(t)
  PROVE  /\ \A i \in DOMAIN t.turns : /\ Intervals(t.turns[i]) \in SUBSET Spans
                                      /\ IsFiniteSet(Intervals(t.turns[i]))
         /\ ToolIntervals(t) \in SUBSET Spans /\ IsFiniteSet(ToolIntervals(t))
         /\ ToolIntervals(t) = UNION {Intervals(t.turns[i]) : i \in DOMAIN t.turns}
<1> DEFINE n == Len(t.turns)
           U == [i \in 1..n |-> Intervals(t.turns[i])]
<1>1. n \in Nat /\ DOMAIN t.turns = 1..n
  BY TurnTypes
<1>2. ASSUME NEW i \in DOMAIN t.turns
      PROVE  Intervals(t.turns[i]) \in SUBSET Spans /\ IsFiniteSet(Intervals(t.turns[i]))
  <2> DEFINE tools == t.turns[i].tools
             S == {c \in Range(tools) : c.start # Missing /\ c.end # Missing /\ c.start <= c.end}
             f == [c \in S |-> <<c.start, c.end>>]
  <2>1. tools \in Seq(Calls)
    <3>1. t.turns[i] \in TurnRecords
      BY TurnTypes
    <3> QED BY <3>1 DEF TurnRecords
  <2>2. \A c \in Range(tools) : c.start \in Stamps /\ c.end \in Stamps
    <3>1. Range(tools) \subseteq Calls
      <4> HIDE DEF tools
      <4> QED BY <2>1 DEF Range
    <3> QED BY <3>1 DEF Calls
  <2>3. Intervals(t.turns[i]) \in SUBSET Spans
    <3>1. \A c \in S : <<c.start, c.end>> \in Spans
      <4>1. \A c \in S : c.start \in Nat /\ c.end \in Nat /\ c.start <= c.end
        BY <2>2 DEF Stamps
      <4> QED BY <4>1 DEF Spans
    <3> QED BY <3>1 DEF Intervals
  <2>4. IsFiniteSet(S)
    <3>1. \E m \in Nat : DOMAIN tools = 1..m
      <4> HIDE DEF tools
      <4> QED BY <2>1
    <3>2. IsFiniteSet(Range(tools))
      <4> HIDE DEF tools
      <4> QED BY <3>1, RangeFinite
    <3>3. S \in SUBSET Range(tools)
      OBVIOUS
    <3> HIDE DEF S, tools
    <3> QED BY <3>2, <3>3, FS_Subset
  <2>5. Intervals(t.turns[i]) = {f[x] : x \in S}
    BY DEF Intervals
  <2> HIDE DEF f, S
  <2> QED BY <2>3, <2>4, <2>5, ImageFinite
<1>3. ToolIntervals(t) = UNION {Intervals(t.turns[i]) : i \in DOMAIN t.turns}
  BY DEF ToolIntervals, Range
<1>4. IsFiniteSet(ToolIntervals(t))
  <2>1. \A k \in 1..n : IsFiniteSet(U[k])
    BY <1>1, <1>2
  <2>2. ToolIntervals(t) = UNION {U[k] : k \in 1..n}
    BY <1>1, <1>3
  <2> HIDE DEF U
  <2> QED BY <1>1, <2>1, <2>2, FiniteUnion
<1> QED BY <1>2, <1>3, <1>4

\* The recorded times of an export.
LEMMA TimeTypes ==
  ASSUME NEW t, IsTranscript(t)
  PROVE  /\ AllCreated(t) \in SUBSET Nat
         /\ EndTimes(t) \in SUBSET Nat /\ IsFiniteSet(EndTimes(t))
         /\ \A i \in DOMAIN t.turns :
              /\ t.turns[i].created # Missing =>
                   t.turns[i].created \in AllCreated(t) /\ t.turns[i].created \in Nat
                   /\ CreatedMs(t.turns[i]) = t.turns[i].created
              /\ t.turns[i].completed # Missing =>
                   t.turns[i].completed \in EndTimes(t) /\ t.turns[i].completed \in Nat
<1> DEFINE n == Len(t.turns)
           done == {turn.completed : turn \in Range(t.turns)}
           ends == {i[2] : i \in ToolIntervals(t)}
<1>1. n \in Nat /\ DOMAIN t.turns = 1..n
      /\ \A i \in DOMAIN t.turns : t.turns[i].created \in Stamps /\ t.turns[i].completed \in Stamps
  BY TurnTypes
<1>2. \A turn \in Range(t.turns) : turn.created \in Stamps /\ turn.completed \in Stamps
  BY <1>1 DEF Range
<1>3. AllCreated(t) \in SUBSET Nat
  BY <1>2 DEF AllCreated, Known, Stamps, IsTranscript
<1>4. ends \in SUBSET Nat
  BY IntervalTypes DEF Spans
<1>5. EndTimes(t) = (done \ {Missing}) \cup ends
  BY DEF EndTimes, Known
<1>6. EndTimes(t) \in SUBSET Nat
  BY <1>2, <1>4, <1>5 DEF Stamps
<1>7. IsFiniteSet(EndTimes(t))
  <2>1. IsFiniteSet(Range(t.turns))
    BY <1>1, RangeFinite
  <2>2. IsFiniteSet(done)
    <3> DEFINE f == [turn \in Range(t.turns) |-> turn.completed]
    <3>1. done = {f[x] : x \in Range(t.turns)}
      OBVIOUS
    <3> HIDE DEF f, done
    <3> QED BY <2>1, <3>1, ImageFinite
  <2>3. IsFiniteSet(ends)
    <3> DEFINE f == [i \in ToolIntervals(t) |-> i[2]]
    <3>1. ends = {f[x] : x \in ToolIntervals(t)}
      OBVIOUS
    <3> HIDE DEF f, ends
    <3> QED BY <3>1, IntervalTypes, ImageFinite
  <2>4. IsFiniteSet(done \ {Missing})
    <3> HIDE DEF done
    <3> QED BY <2>2, FS_RemoveElement
  <2> HIDE DEF done, ends
  <2> QED BY <1>5, <2>3, <2>4, FS_Union
<1>8. ASSUME NEW i \in DOMAIN t.turns
      PROVE  /\ t.turns[i].created # Missing =>
                   t.turns[i].created \in AllCreated(t) /\ t.turns[i].created \in Nat
                   /\ CreatedMs(t.turns[i]) = t.turns[i].created
             /\ t.turns[i].completed # Missing =>
                   t.turns[i].completed \in EndTimes(t) /\ t.turns[i].completed \in Nat
  <2>1. t.turns[i] \in Range(t.turns)
    BY DEF Range
  <2> QED BY <1>2, <2>1 DEF AllCreated, EndTimes, Known, Stamps, CreatedMs
<1> QED BY <1>3, <1>6, <1>7, <1>8

\* Where messages ran one after another, windows and waits lie apart inside the session.
LEMMA SessionIsDivided ==
  ASSUME NEW t, IsTranscript(t), OneAtATime(t), ToolsInside(t)
  PROVE  /\ IsFiniteSet(Session(t)) /\ SessionMs(t) = Cardinality(Session(t))
         /\ \A i \in DOMAIN t.turns :
              /\ Trailing(t, i) \in Nat
              /\ i \notin MessageWindows(t) => Trailing(t, i) = 0
              /\ i \in MessageWindows(t) =>
                   /\ t.turns[i].created \in Nat /\ t.turns[i].completed \in Nat
                   /\ t.turns[i].created <= t.turns[i].completed
              /\ Blocked(t, i) \subseteq Window(t, i)
              /\ Window(t, i) \subseteq Session(t) /\ Waiting(t, i) \subseteq Session(t)
         /\ \A i, j \in DOMAIN t.turns :
              /\ Window(t, i) \cap Waiting(t, j) = {}
              /\ i # j => /\ Window(t, i) \cap Window(t, j) = {}
                          /\ Waiting(t, i) \cap Waiting(t, j) = {}
<1> DEFINE first == Min(AllCreated(t))
           last == Max(EndTimes(t))
           Done(i) == t.turns[i].completed
           Begun(i) == t.turns[i].created
           later(i) == {CreatedMs(t.turns[j]) : j \in {j \in DOMAIN t.turns : Earlier(t, i, j)}}
<1>1. \A i \in DOMAIN t.turns :
        /\ i \in Nat /\ CreatedMs(t.turns[i]) \in Nat
        /\ Begun(i) # Missing =>
             Begun(i) \in AllCreated(t) /\ Begun(i) \in Nat /\ CreatedMs(t.turns[i]) = Begun(i)
        /\ Done(i) # Missing => Done(i) \in EndTimes(t) /\ Done(i) \in Nat
        /\ Done(i) # Missing => Begun(i) # Missing /\ Begun(i) <= Done(i)
  BY TurnTypes, TimeTypes DEF OneAtATime
<1>2. \A i \in DOMAIN t.turns : i \in MessageWindows(t) <=> Done(i) # Missing
  BY <1>1 DEF MessageWindows
<1>3. \A i \in MessageWindows(t) :
        /\ i \in DOMAIN t.turns /\ Begun(i) \in AllCreated(t) /\ Done(i) \in EndTimes(t)
        /\ Begun(i) \in Nat /\ Done(i) \in Nat /\ Begun(i) <= Done(i)
        /\ CreatedMs(t.turns[i]) = Begun(i)
  BY <1>1, <1>2 DEF MessageWindows
<1>4. AllCreated(t) # {} =>
        /\ EndTimes(t) # {} /\ first \in Nat /\ last \in Nat /\ first <= last
        /\ \A x \in AllCreated(t) : first <= x /\ x <= last
        /\ \A x \in EndTimes(t) : x <= last
  <2> SUFFICES ASSUME AllCreated(t) # {}
               PROVE  /\ EndTimes(t) # {} /\ first \in Nat /\ last \in Nat /\ first <= last
                      /\ \A x \in AllCreated(t) : first <= x /\ x <= last
                      /\ \A x \in EndTimes(t) : x <= last
    OBVIOUS
  <2>1. \A x \in AllCreated(t) : \E y \in EndTimes(t) : x <= y
    BY DEF OneAtATime
  <2>2. EndTimes(t) # {} /\ AllCreated(t) \in SUBSET Nat /\ EndTimes(t) \in SUBSET Nat
        /\ IsFiniteSet(EndTimes(t))
    BY <2>1, TimeTypes
  <2>3. last \in EndTimes(t) /\ \A x \in EndTimes(t) : x <= last
    BY <2>2, MaxOfSet
  <2>4. first \in AllCreated(t) /\ \A x \in AllCreated(t) : first <= x
    BY <2>2, MinOfSet
  <2> HIDE DEF first, last
  <2>5. \A x \in AllCreated(t) : x <= last
    <3> SUFFICES ASSUME NEW x \in AllCreated(t) PROVE x <= last
      OBVIOUS
    <3>1. PICK y \in EndTimes(t) : x <= y
      BY <2>1
    <3>2. y <= last /\ x \in Nat /\ y \in Nat /\ last \in Nat
      BY <2>2, <2>3
    <3> QED BY <3>1, <3>2
  <2> QED BY <2>2, <2>3, <2>4, <2>5
<1>5. IsFiniteSet(Session(t)) /\ SessionMs(t) = Cardinality(Session(t))
  <2>1. CASE AllCreated(t) = {}
    BY <2>1, FS_EmptySet DEF Session, SessionMs
  <2>2. CASE AllCreated(t) # {}
    <3>1. Session(t) = first..(last - 1)
      BY <2>2 DEF Session
    <3>2. SessionMs(t) = last - first
      BY <1>4, <2>2 DEF SessionMs
    <3>3. first \in Nat /\ last \in Nat /\ first <= last
      BY <1>4, <2>2
    <3> HIDE DEF first, last
    <3>4. first \in Int /\ last - 1 \in Int
      BY <3>3
    <3>5. /\ IsFiniteSet(first..(last - 1))
          /\ Cardinality(first..(last - 1)) = IF first > last - 1 THEN 0 ELSE (last - 1) - first + 1
      BY <3>4, FS_Interval
    <3> QED BY <3>1, <3>2, <3>3, <3>5
  <2> QED BY <2>1, <2>2
\* The wait after a message ends no later than any later message begins.
<1>6. ASSUME NEW i \in DOMAIN t.turns
      PROVE  /\ Trailing(t, i) \in Nat
             /\ i \notin MessageWindows(t) => Trailing(t, i) = 0
             /\ \A j \in DOMAIN t.turns : i \in MessageWindows(t) /\ Earlier(t, i, j) =>
                  \/ Trailing(t, i) = 0
                  \/ Done(i) + Trailing(t, i) <= CreatedMs(t.turns[j])
             /\ i \in MessageWindows(t) =>
                  \/ Trailing(t, i) = 0
                  \/ AllCreated(t) # {} /\ Done(i) + Trailing(t, i) <= last
  <2>1. CASE i \notin MessageWindows(t) \/ later(i) = {}
    <3>1. Trailing(t, i) = 0
      BY <1>2, <2>1 DEF Trailing
    <3> QED BY <3>1
  <2>2. CASE i \in MessageWindows(t) /\ later(i) # {}
    <3> DEFINE next == Min(later(i))
    <3>1. Trailing(t, i) = Max({0, next - Done(i)})
      BY <1>2, <2>2 DEF Trailing
    <3>2. later(i) \in SUBSET Nat
      BY <1>1
    <3>3. next \in later(i) /\ \A x \in later(i) : next <= x
      <4> HIDE DEF later
      <4> QED BY <2>2, <3>2, MinOfSet
    <3>4. \A j \in DOMAIN t.turns : Earlier(t, i, j) =>
            next <= CreatedMs(t.turns[j]) /\ CreatedMs(t.turns[j]) \in Nat
      <4> HIDE DEF next
      <4> QED BY <1>1, <3>3
    <3>5. PICK j \in DOMAIN t.turns : next = CreatedMs(t.turns[j])
      <4> HIDE DEF next
      <4> QED BY <3>3
    <3> HIDE DEF next, later
    <3>6. next \in Nat /\ Done(i) \in Nat
      BY <1>1, <1>3, <2>2, <3>5
    <3>7. Trailing(t, i) = IF 0 >= next - Done(i) THEN 0 ELSE next - Done(i)
      <4>1. 0 \in Int /\ next - Done(i) \in Int
        BY <3>6
      <4> QED BY <3>1, <4>1, MaxOfTwo
    <3>8. Trailing(t, i) \in Nat /\ (Trailing(t, i) = 0 \/ (Done(i) + Trailing(t, i) = next /\ next > 0))
      BY <3>6, <3>7
    <3>9. next > 0 => AllCreated(t) # {} /\ next <= last
      <4> SUFFICES ASSUME next > 0 PROVE AllCreated(t) # {} /\ next <= last
        OBVIOUS
      <4>1. Begun(j) # Missing
        BY <3>5, <3>6 DEF CreatedMs
      <4>2. next \in AllCreated(t)
        BY <1>1, <3>5, <4>1
      <4> HIDE DEF last
      <4> QED BY <1>4, <4>2
    <3> HIDE DEF last
    <3> QED BY <2>2, <3>4, <3>8, <3>9
  <2> QED BY <2>1, <2>2
<1>7. \A i, j \in MessageWindows(t) : i # j =>
        \/ Earlier(t, i, j) /\ Done(i) <= Begun(j)
        \/ Earlier(t, j, i) /\ Done(j) <= Begun(i)
  <2>1. \A i, j \in MessageWindows(t) : i # j => Earlier(t, i, j) \/ Earlier(t, j, i)
    BY <1>3, EarlierOrders
  <2> QED BY <2>1 DEF OneAtATime
<1> HIDE DEF first, last, later
<1>8. ASSUME NEW i \in DOMAIN t.turns
      PROVE  /\ Blocked(t, i) \subseteq Window(t, i)
             /\ Window(t, i) \subseteq Session(t) /\ Waiting(t, i) \subseteq Session(t)
  <2>1. Blocked(t, i) \subseteq Window(t, i)
    <3> SUFFICES ASSUME NEW x \in Intervals(t.turns[i]) PROVE Ms(x) \subseteq Window(t, i)
      BY DEF Blocked, Covered
    <3>1. t.turns[i] \in Range(t.turns)
      BY DEF Range
    <3>2. Begun(i) # Missing /\ Done(i) # Missing /\ Begun(i) <= x[1] /\ x[2] <= Done(i)
      BY <3>1 DEF ToolsInside
    <3>3. i \in MessageWindows(t) /\ Begun(i) \in Nat /\ Done(i) \in Nat
      BY <1>2, <1>3, <3>2
    <3>4. x[1] \in Nat /\ x[2] \in Nat
      BY IntervalTypes DEF Spans
    <3>5. Window(t, i) = Begun(i)..(Done(i) - 1) /\ Ms(x) = x[1]..(x[2] - 1)
      BY <3>3 DEF Window, Ms
    <3> HIDE DEF Begun, Done
    <3> QED BY <3>2, <3>3, <3>4, <3>5
  <2>2. CASE i \notin MessageWindows(t)
    BY <2>1, <2>2 DEF Window, Waiting
  <2>3. CASE i \in MessageWindows(t)
    <3>1. Begun(i) \in Nat /\ Done(i) \in Nat /\ Begun(i) <= Done(i) /\ Trailing(t, i) \in Nat
      BY <1>3, <1>6, <2>3
    <3>2. /\ AllCreated(t) # {} /\ first \in Nat /\ last \in Nat
          /\ first <= Begun(i) /\ Done(i) <= last
      BY <1>3, <1>4, <2>3
    <3>3. Trailing(t, i) = 0 \/ Done(i) + Trailing(t, i) <= last
      BY <1>6, <2>3
    <3>4. /\ Session(t) = first..(last - 1) /\ Window(t, i) = Begun(i)..(Done(i) - 1)
          /\ Waiting(t, i) = Done(i)..(Done(i) + Trailing(t, i) - 1)
      BY <2>3, <3>2 DEF Session, Window, Waiting, first, last
    <3> HIDE DEF Begun, Done
    <3> QED BY <2>1, <3>1, <3>2, <3>3, <3>4
  <2> QED BY <2>2, <2>3
<1>9. ASSUME NEW i \in DOMAIN t.turns, NEW j \in DOMAIN t.turns
      PROVE  /\ Window(t, i) \cap Waiting(t, j) = {}
             /\ i # j => /\ Window(t, i) \cap Window(t, j) = {}
                         /\ Waiting(t, i) \cap Waiting(t, j) = {}
  <2>1. CASE i \notin MessageWindows(t) \/ j \notin MessageWindows(t)
    BY <2>1 DEF Window, Waiting
  <2>2. CASE i \in MessageWindows(t) /\ j \in MessageWindows(t)
    <3>1. /\ Begun(i) \in Nat /\ Done(i) \in Nat /\ Begun(i) <= Done(i) /\ Trailing(t, i) \in Nat
          /\ Begun(j) \in Nat /\ Done(j) \in Nat /\ Begun(j) <= Done(j) /\ Trailing(t, j) \in Nat
      BY <1>3, <1>6, <2>2
    <3>2. i # j => \/ /\ Done(i) <= Begun(j)
                      /\ Trailing(t, i) = 0 \/ Done(i) + Trailing(t, i) <= Begun(j)
                   \/ /\ Done(j) <= Begun(i)
                      /\ Trailing(t, j) = 0 \/ Done(j) + Trailing(t, j) <= Begun(i)
      BY <1>3, <1>6, <1>7, <2>2
    <3>3. /\ Window(t, i) = Begun(i)..(Done(i) - 1) /\ Window(t, j) = Begun(j)..(Done(j) - 1)
          /\ Waiting(t, i) = Done(i)..(Done(i) + Trailing(t, i) - 1)
          /\ Waiting(t, j) = Done(j)..(Done(j) + Trailing(t, j) - 1)
      BY <2>2 DEF Window, Waiting
    <3>4. i = j => Done(i) = Done(j) /\ Begun(i) = Begun(j) /\ Trailing(t, i) = Trailing(t, j)
      OBVIOUS
    <3> HIDE DEF Begun, Done
    <3>5. Window(t, i) \cap Waiting(t, j) = {}
      BY <3>1, <3>2, <3>3, <3>4
    <3>6. i # j => Window(t, i) \cap Window(t, j) = {}
      BY <3>1, <3>2, <3>3
    <3>7. i # j => Waiting(t, i) \cap Waiting(t, j) = {}
      BY <3>1, <3>2, <3>3
    <3> QED BY <3>5, <3>6, <3>7
  <2> QED BY <2>1, <2>2
<1>10. \A i \in MessageWindows(t) :
         t.turns[i].created \in Nat /\ t.turns[i].completed \in Nat
         /\ t.turns[i].created <= t.turns[i].completed
  BY <1>3
<1>11. \A i \in DOMAIN t.turns :
         Trailing(t, i) \in Nat /\ (i \notin MessageWindows(t) => Trailing(t, i) = 0)
  BY <1>6
<1> HIDE DEF Begun, Done
<1> QED BY <1>5, <1>8, <1>9, <1>10, <1>11

\* The tool time inside one turn, and how much of a message's window is left of it.
LEMMA TurnTimes ==
  ASSUME NEW t, IsTranscript(t), OneAtATime(t), ToolsInside(t)
  PROVE  /\ IsFiniteSet(Covered(ToolIntervals(t)))
         /\ ToolBlockedMs(t) = Cardinality(Covered(ToolIntervals(t)))
         /\ Covered(ToolIntervals(t)) = UNION {Blocked(t, i) : i \in DOMAIN t.turns}
         /\ \A i \in DOMAIN t.turns :
              /\ IsFiniteSet(Blocked(t, i))
              /\ Length(_merge_intervals(Intervals(t.turns[i]))) = Cardinality(Blocked(t, i))
              /\ IsFiniteSet(Window(t, i) \ Covered(ToolIntervals(t)))
              /\ MessageMs(t, i) = Cardinality(Window(t, i) \ Covered(ToolIntervals(t)))
              /\ IsFiniteSet(Waiting(t, i)) /\ Trailing(t, i) = Cardinality(Waiting(t, i))
<1> DEFINE K == Covered(ToolIntervals(t))
           merged == _merge_intervals(ToolIntervals(t))
<1>1. ToolIntervals(t) \in SUBSET Spans /\ IsFiniteSet(ToolIntervals(t))
      /\ ToolIntervals(t) = UNION {Intervals(t.turns[i]) : i \in DOMAIN t.turns}
      /\ \A i \in DOMAIN t.turns :
           Intervals(t.turns[i]) \in SUBSET Spans /\ IsFiniteSet(Intervals(t.turns[i]))
  BY IntervalTypes
<1>2. Apart(merged) /\ Covered(Range(merged)) = K
  BY <1>1, MergeIs
<1> HIDE DEF merged, K
<1>3. /\ IsFiniteSet(K) /\ Length(merged) = Cardinality(K)
      /\ \A w : w.created \in Nat /\ w.completed \in Nat =>
           OverlapMs(merged, w) = Cardinality(K \cap (w.created..(w.completed - 1)))
  BY <1>2, LengthIs
<1>4. ASSUME NEW i \in DOMAIN t.turns
      PROVE  /\ IsFiniteSet(Blocked(t, i))
             /\ Length(_merge_intervals(Intervals(t.turns[i]))) = Cardinality(Blocked(t, i))
  <2> DEFINE q == _merge_intervals(Intervals(t.turns[i]))
  <2>1. Apart(q) /\ Covered(Range(q)) = Blocked(t, i)
    BY <1>1, MergeIs DEF Blocked
  <2> HIDE DEF q
  <2>2. IsFiniteSet(Blocked(t, i)) /\ Length(q) = Cardinality(Blocked(t, i))
    BY <2>1, LengthIs
  <2> QED BY <2>2 DEF q
<1>5. ASSUME NEW i \in DOMAIN t.turns
      PROVE  /\ IsFiniteSet(Window(t, i) \ K) /\ MessageMs(t, i) = Cardinality(Window(t, i) \ K)
  <2>1. CASE i \notin MessageWindows(t)
    <3>1. Window(t, i) \ K = {} /\ MessageMs(t, i) = 0
      BY <2>1 DEF Window, MessageMs
    <3> QED BY <3>1, FS_EmptySet
  <2>2. CASE i \in MessageWindows(t)
    <3> DEFINE w == t.turns[i]
               W == w.created..(w.completed - 1)
    <3>1. w.created \in Nat /\ w.completed \in Nat /\ w.created <= w.completed
      BY <2>2, SessionIsDivided
    <3>2. OverlapMs(merged, w) = Cardinality(K \cap W)
      BY <1>3, <3>1
    <3>3. Window(t, i) = W
      BY <2>2 DEF Window
    <3>4. MessageMs(t, i) = Max({0, (w.completed - w.created) - OverlapMs(merged, w)})
      BY <2>2 DEF MessageMs, merged
    <3> HIDE DEF w
    <3>5. IsFiniteSet(W) /\ Cardinality(W) = w.completed - w.created
      <4>1. w.created \in Int /\ w.completed - 1 \in Int
        BY <3>1
      <4>2. IsFiniteSet(W) /\ Cardinality(W) = IF w.created > w.completed - 1 THEN 0
                                               ELSE (w.completed - 1) - w.created + 1
        BY <4>1, FS_Interval
      <4> QED BY <3>1, <4>2
    <3> HIDE DEF W
    <3>6. /\ IsFiniteSet(W \ K) /\ IsFiniteSet(W \cap K)
          /\ Cardinality(W \ K) \in Nat /\ Cardinality(W \cap K) \in Nat
          /\ Cardinality(W \ K) = Cardinality(W) - Cardinality(W \cap K)
      <4>1. W \ K \in SUBSET W /\ W \cap K \in SUBSET W
        OBVIOUS
      <4>2. IsFiniteSet(W \ K) /\ IsFiniteSet(W \cap K)
        BY <3>5, <4>1, FS_Subset
      <4>3. (W \ K) \cup (W \cap K) = W /\ (W \ K) \cap (W \cap K) = {}
        OBVIOUS
      <4>4. Cardinality(W) = Cardinality(W \ K) + Cardinality(W \cap K) - Cardinality({})
        BY <4>2, <4>3, FS_Union
      <4>5. /\ Cardinality(W \ K) \in Nat /\ Cardinality(W \cap K) \in Nat
            /\ Cardinality({}) = 0
        BY <4>2, FS_CardinalityType, FS_EmptySet
      <4> QED BY <4>2, <4>4, <4>5
    <3>7. K \cap W = W \cap K
      OBVIOUS
    <3> DEFINE left == Cardinality(W \ K)
    <3>8. left \in Nat /\ (w.completed - w.created) - OverlapMs(merged, w) = left
      BY <3>1, <3>2, <3>5, <3>6, <3>7
    <3> HIDE DEF left
    <3>9. Max({0, left}) = IF 0 >= left THEN 0 ELSE left
      BY <3>8, MaxOfTwo
    <3>10. MessageMs(t, i) = left
      BY <3>4, <3>8, <3>9
    <3> QED BY <3>3, <3>6, <3>10 DEF left
  <2> QED BY <2>1, <2>2
<1>6. ASSUME NEW i \in DOMAIN t.turns
      PROVE  IsFiniteSet(Waiting(t, i)) /\ Trailing(t, i) = Cardinality(Waiting(t, i))
  <2>1. Trailing(t, i) \in Nat /\ (i \notin MessageWindows(t) => Trailing(t, i) = 0)
    BY SessionIsDivided
  <2>2. CASE i \notin MessageWindows(t)
    BY <2>1, <2>2, FS_EmptySet DEF Waiting
  <2>3. CASE i \in MessageWindows(t)
    <3> DEFINE c == t.turns[i].completed
               b == Trailing(t, i)
    <3>1. c \in Nat /\ b \in Nat
      BY <2>1, <2>3, SessionIsDivided
    <3>2. Waiting(t, i) = c..(c + b - 1)
      BY <2>3 DEF Waiting
    <3> HIDE DEF c, b
    <3>3. c \in Int /\ c + b - 1 \in Int
      BY <3>1
    <3>4. /\ IsFiniteSet(c..(c + b - 1))
          /\ Cardinality(c..(c + b - 1)) = IF c > c + b - 1 THEN 0 ELSE (c + b - 1) - c + 1
      BY <3>3, FS_Interval
    <3>5. Cardinality(c..(c + b - 1)) = b
      BY <3>1, <3>4
    <3> QED BY <3>2, <3>4, <3>5 DEF b
  <2> QED BY <2>2, <2>3
<1>7. K = UNION {Blocked(t, i) : i \in DOMAIN t.turns}
  BY <1>1 DEF K, Covered, Blocked
<1>8. ToolBlockedMs(t) = Cardinality(K)
  BY <1>3 DEF ToolBlockedMs, merged
<1> QED BY <1>3, <1>4, <1>5, <1>6, <1>7, <1>8 DEF K

\* The gaps of one turn: its tool time cut into equal parts, and the wait for the next.
LEMMA TurnIdles ==
  ASSUME NEW t, IsTranscript(t), NEW i \in DOMAIN t.turns, NEW scale \in Nat,
         NEW a \in Nat, a = Length(_merge_intervals(Intervals(t.turns[i]))),
         NEW b \in Nat, b = Trailing(t, i)
  PROVE  LET idle == SumTo(Len(t.turns[i].prompts), [k \in DOMAIN t.turns[i].prompts |->
                       (scale * Gap(t, <<i, k>>)[1]) \div Gap(t, <<i, k>>)[2]])
         IN  idle \in Nat /\ idle <= scale * (a + b)
<1> DEFINE S == Len(t.turns[i].prompts)
           f == [k \in DOMAIN t.turns[i].prompts |->
                       (scale * Gap(t, <<i, k>>)[1]) \div Gap(t, <<i, k>>)[2]]
           x == scale * a
           y == scale * b
           c == x \div (S - 1)
           g == [k \in 0..S |-> IF k = 0 THEN 0 ELSE IF k = S THEN x + y ELSE k * c]
<1>1. S \in Nat /\ DOMAIN t.turns[i].prompts = 1..S
  <2>1. t.turns[i].prompts \in Seq(Int)
    BY TurnTypes
  <2> QED BY <2>1
<1>2. x \in Nat /\ y \in Nat /\ scale * (a + b) = x + y
  BY ProductTypes
<1>3. ASSUME NEW k \in 1..S PROVE f[k] = IF k = S THEN y ELSE c
  <2>1. Gap(t, <<i, k>>) = IF k = S THEN <<b, 1>> ELSE <<a, S - 1>>
    BY DEF Gap, _intra_turn_gaps
  <2>2. f[k] = (scale * Gap(t, <<i, k>>)[1]) \div Gap(t, <<i, k>>)[2]
    BY <1>1
  <2>3. CASE k = S
    <3>1. f[k] = y \div 1
      BY <2>1, <2>2, <2>3
    <3> HIDE DEF f, y
    <3>2. y \div 1 = y
      BY <1>2
    <3> QED BY <2>3, <3>1, <3>2
  <2>4. CASE k # S
    BY <2>1, <2>2, <2>4
  <2> QED BY <2>3, <2>4
<1>4. S > 1 => c \in Nat /\ (S - 1) * c <= x
  <2> SUFFICES ASSUME S > 1 PROVE c \in Nat /\ (S - 1) * c <= x
    OBVIOUS
  <2> HIDE DEF x, S
  <2>1. x \in Nat /\ S - 1 \in Nat /\ S - 1 > 0
    BY <1>1, <1>2
  <2> QED BY <2>1, Shares
<1> HIDE DEF f, S, x, y, c
<1>5. \A k \in 1..S : f[k] \in Nat
  BY <1>1, <1>2, <1>3, <1>4
<1>6. g[0] = 0 /\ \A k \in 0..S : g[k] \in Nat
  <2>1. 0 \in 0..S
    BY <1>1
  <2>2. \A k \in 0..S : k # 0 /\ k # S => S > 1 /\ k \in Nat
    BY <1>1
  <2>3. \A k, d \in Nat : k * d \in Nat
    OBVIOUS
  <2> QED BY <1>1, <1>2, <1>4, <2>1, <2>2, <2>3
<1>7. ASSUME NEW k \in 1..S PROVE g[k - 1] + f[k] <= g[k]
  <2>1. k \in 0..S /\ k - 1 \in 0..S /\ k # 0 /\ k \in Nat
    BY <1>1
  <2>2. CASE k = S /\ k = 1
    <3>1. g[k - 1] = 0 /\ g[k] = x + y /\ f[k] = y
      BY <1>3, <2>1, <2>2
    <3> QED BY <1>2, <3>1
  <2>3. CASE k = S /\ k # 1
    <3>1. k - 1 # 0 /\ k - 1 # S /\ S > 1
      BY <1>1, <2>1, <2>3
    <3>2. g[k - 1] = (S - 1) * c /\ g[k] = x + y /\ f[k] = y
      BY <1>3, <2>1, <2>3, <3>1
    <3> DEFINE z == (S - 1) * c
    <3>3. z \in Nat /\ z <= x
      <4>1. S - 1 \in Nat
        BY <1>1, <3>1
      <4>2. \A p, d \in Nat : p * d \in Nat
        OBVIOUS
      <4> QED BY <1>4, <3>1, <4>1, <4>2
    <3> HIDE DEF z, g
    <3>4. g[k - 1] = z
      BY <3>2 DEF z
    <3> QED BY <1>2, <3>2, <3>3, <3>4
  <2>4. CASE k # S
    <3>1. S > 1 /\ k - 1 # S
      BY <1>1, <2>1, <2>4
    <3>2. g[k] = k * c /\ f[k] = c /\ c \in Nat
      BY <1>3, <1>4, <2>1, <2>4, <3>1
    <3>3. \A d \in Nat : 0 * d = 0
      OBVIOUS
    <3>4. g[k - 1] = (k - 1) * c
      BY <2>1, <3>1, <3>2, <3>3
    <3>5. \A p \in Nat, d \in Nat : (p - 1) * d + d = p * d
      OBVIOUS
    <3>6. \A p \in Nat, d \in Nat : p * d \in Nat
      OBVIOUS
    <3> DEFINE u == (k - 1) * c
               v == k * c
    <3>7. u + c = v /\ v \in Nat
      BY <2>1, <3>2, <3>5, <3>6
    <3>8. u + c <= v
      <4> HIDE DEF u, v
      <4> QED BY <3>7
    <3> HIDE DEF g
    <3> QED BY <3>2, <3>4, <3>8
  <2> QED BY <2>2, <2>3, <2>4
<1>8. g[S] <= x + y /\ g[S] \in Nat
  <2>1. S \in 0..S
    BY <1>1
  <2> QED BY <1>2, <1>6, <2>1
<1> HIDE DEF g
<1>9. SumTo(S, f) \in Nat /\ SumTo(S, f) <= g[S]
  BY <1>1, <1>5, <1>6, <1>7, SumBound
<1>10. SumTo(S, f) <= x + y
  BY <1>2, <1>8, <1>9
<1> QED BY <1>2, <1>9, <1>10 DEF S, f

\* Gaps, tool time and generating time are the sizes of sets that lie apart in the session.
LEMMA IdleFitsAlways ==
  ASSUME NEW t, IsTranscript(t), NEW scale \in Nat
  PROVE  IdleFits(t, scale)
<1> SUFFICES ASSUME OneAtATime(t), ToolsInside(t)
             PROVE  /\ IdleTime(t, scale) + scale * GeneratingMs(t) <= scale * SessionMs(t)
                    /\ ToolBlockedMs(t) + GeneratingMs(t) <= SessionMs(t)
  BY DEF IdleFits
<1> DEFINE n == Len(t.turns)
           K == Covered(ToolIntervals(t))
           G == [i \in 1..n |-> Window(t, i) \ K]
           Y == [i \in 1..n |-> Blocked(t, i) \cup Waiting(t, i)]
           allG == UNION {G[i] : i \in 1..n}
           allY == UNION {Y[i] : i \in 1..n}
           message == [i \in DOMAIN t.turns |-> MessageMs(t, i)]
           idle == [i \in DOMAIN t.turns |->
                      SumTo(Len(t.turns[i].prompts), [k \in DOMAIN t.turns[i].prompts |->
                        (scale * Gap(t, <<i, k>>)[1]) \div Gap(t, <<i, k>>)[2]])]
<1>1. n \in Nat /\ DOMAIN t.turns = 1..n
  BY TurnTypes
<1>2. /\ IsFiniteSet(Session(t)) /\ SessionMs(t) = Cardinality(Session(t))
      /\ \A i \in 1..n : /\ Trailing(t, i) \in Nat
                         /\ Blocked(t, i) \subseteq Window(t, i)
                         /\ Window(t, i) \subseteq Session(t) /\ Waiting(t, i) \subseteq Session(t)
      /\ \A i, j \in 1..n : /\ Window(t, i) \cap Waiting(t, j) = {}
                            /\ i # j => /\ Window(t, i) \cap Window(t, j) = {}
                                        /\ Waiting(t, i) \cap Waiting(t, j) = {}
  BY <1>1, SessionIsDivided
<1>3. /\ IsFiniteSet(K) /\ ToolBlockedMs(t) = Cardinality(K)
      /\ K = UNION {Blocked(t, i) : i \in 1..n}
      /\ \A i \in 1..n :
           /\ IsFiniteSet(Blocked(t, i))
           /\ Length(_merge_intervals(Intervals(t.turns[i]))) = Cardinality(Blocked(t, i))
           /\ IsFiniteSet(G[i]) /\ MessageMs(t, i) = Cardinality(G[i])
           /\ IsFiniteSet(Waiting(t, i)) /\ Trailing(t, i) = Cardinality(Waiting(t, i))
  BY <1>1, TurnTimes
<1> HIDE DEF n, K
<1>4. /\ \A i \in 1..n : IsFiniteSet(G[i]) /\ message[i] = Cardinality(G[i])
      /\ \A i, j \in 1..n : i # j => G[i] \cap G[j] = {}
      /\ allG \cap K = {} /\ allG \subseteq Session(t)
  <2>1. \A i \in 1..n : message[i] = MessageMs(t, i)
    BY <1>1
  <2>2. \A i \in 1..n : G[i] = Window(t, i) \ K
    OBVIOUS
  <2>3. \A i \in 1..n : IsFiniteSet(G[i]) /\ message[i] = Cardinality(G[i])
    BY <1>3, <2>1
  <2> HIDE DEF message, G
  <2>4. \A i, j \in 1..n : i # j => G[i] \cap G[j] = {}
    BY <1>2, <2>2
  <2>5. allG \cap K = {} /\ allG \subseteq Session(t)
    BY <1>2, <2>2
  <2> QED BY <2>3, <2>4, <2>5
<1>5. /\ \A i, j \in 1..n : i # j => Y[i] \cap Y[j] = {}
      /\ \A i, j \in 1..n : G[i] \cap Y[j] = {}
      /\ \A i \in 1..n : Y[i] \subseteq Session(t)
  <2>1. \A j \in 1..n : Blocked(t, j) \subseteq K
    BY <1>3
  <2>2. \A i, j \in 1..n : G[i] \cap Y[j] = {}
    BY <1>2, <2>1
  <2>3. \A i, j \in 1..n : i # j => Y[i] \cap Y[j] = {}
    <3> SUFFICES ASSUME NEW i \in 1..n, NEW j \in 1..n, i # j PROVE Y[i] \cap Y[j] = {}
      OBVIOUS
    <3>1. /\ Blocked(t, i) \subseteq Window(t, i) /\ Blocked(t, j) \subseteq Window(t, j)
          /\ Window(t, i) \cap Waiting(t, j) = {} /\ Window(t, j) \cap Waiting(t, i) = {}
          /\ Window(t, i) \cap Window(t, j) = {} /\ Waiting(t, i) \cap Waiting(t, j) = {}
      BY <1>2
    <3> QED BY <3>1
  <2>4. \A i \in 1..n : Y[i] \subseteq Session(t)
    BY <1>2
  <2> HIDE DEF G, Y
  <2> QED BY <2>2, <2>3, <2>4
<1>6. \A i \in 1..n : /\ IsFiniteSet(Y[i]) /\ idle[i] \in Nat
                      /\ idle[i] <= scale * Cardinality(Y[i])
  <2> SUFFICES ASSUME NEW i \in 1..n
               PROVE  /\ IsFiniteSet(Y[i]) /\ idle[i] \in Nat
                      /\ idle[i] <= scale * Cardinality(Y[i])
    OBVIOUS
  <2> DEFINE a == Cardinality(Blocked(t, i))
             b == Cardinality(Waiting(t, i))
  <2>1. /\ IsFiniteSet(Blocked(t, i)) /\ IsFiniteSet(Waiting(t, i))
        /\ a = Length(_merge_intervals(Intervals(t.turns[i]))) /\ b = Trailing(t, i)
    BY <1>3
  <2>2. a \in Nat /\ b \in Nat
    BY <2>1, FS_CardinalityType
  <2>3. Blocked(t, i) \cap Waiting(t, i) = {}
    BY <1>2
  <2>4. IsFiniteSet(Blocked(t, i) \cup Waiting(t, i))
        /\ Cardinality(Blocked(t, i) \cup Waiting(t, i)) = a + b - Cardinality({})
    BY <2>1, <2>3, FS_Union
  <2>5. Y[i] = Blocked(t, i) \cup Waiting(t, i)
    OBVIOUS
  <2>6. i \in DOMAIN t.turns
    BY <1>1
  <2>7. idle[i] = SumTo(Len(t.turns[i].prompts), [k \in DOMAIN t.turns[i].prompts |->
                    (scale * Gap(t, <<i, k>>)[1]) \div Gap(t, <<i, k>>)[2]])
    BY <2>6
  <2> HIDE DEF a, b, idle, Y
  <2>8. Cardinality(Y[i]) = a + b /\ IsFiniteSet(Y[i])
    <3>1. Cardinality({}) = 0
      BY FS_EmptySet
    <3> QED BY <2>2, <2>4, <2>5, <3>1
  <2>9. idle[i] \in Nat /\ idle[i] <= scale * (a + b)
    BY <2>1, <2>2, <2>6, <2>7, TurnIdles
  <2> QED BY <2>8, <2>9
<1>7. IsFiniteSet(allG) /\ GeneratingMs(t) = Cardinality(allG)
  <2>1. GeneratingMs(t) = SumTo(n, message)
    BY DEF GeneratingMs, n
  <2> HIDE DEF message, G
  <2> QED BY <1>1, <1>4, <2>1, SumIsUnion
<1>8. IsFiniteSet(allY) /\ IdleTime(t, scale) \in Nat
      /\ IdleTime(t, scale) <= scale * Cardinality(allY)
  <2>1. IdleTime(t, scale) = SumTo(n, idle)
    BY DEF IdleTime, n
  <2>2. \A i \in 1..n : IsFiniteSet(Y[i])
    BY <1>6
  <2>3. \A i \in 1..n : idle[i] \in Nat /\ idle[i] <= scale * Cardinality(Y[i])
    BY <1>6
  <2>4. \A i, j \in 1..n : i # j => Y[i] \cap Y[j] = {}
    BY <1>5
  <2> HIDE DEF idle, Y
  <2>5. /\ IsFiniteSet(allY)
        /\ \A f, s :
             /\ s \in Nat
             /\ \A k \in 1..n : f[k] \in Nat /\ f[k] <= s * Cardinality(Y[k])
             => SumTo(n, f) \in Nat /\ SumTo(n, f) <= s * Cardinality(allY)
    BY <1>1, <2>2, <2>4, SumInUnion
  <2> HIDE DEF allY
  <2> QED BY <2>1, <2>3, <2>5
<1>9. allG \cap allY = {} /\ allG \cup allY \subseteq Session(t) /\ allG \cup K \subseteq Session(t)
  <2>1. allG \cap allY = {}
    <3> HIDE DEF G, Y
    <3> QED BY <1>5
  <2>2. allY \subseteq Session(t)
    <3> HIDE DEF Y
    <3> QED BY <1>5
  <2>3. K \subseteq Session(t)
    BY <1>2, <1>3
  <2> HIDE DEF allG, allY
  <2> QED BY <1>4, <2>1, <2>2, <2>3
<1> HIDE DEF allG, allY
<1>10. ASSUME NEW T, IsFiniteSet(T), allG \cap T = {}, allG \cup T \subseteq Session(t)
       PROVE  /\ Cardinality(T) \in Nat /\ Cardinality(allG) \in Nat /\ SessionMs(t) \in Nat
              /\ Cardinality(T) + Cardinality(allG) <= SessionMs(t)
  <2>1. /\ IsFiniteSet(allG \cup T)
        /\ Cardinality(allG \cup T) = Cardinality(allG) + Cardinality(T) - Cardinality({})
    BY <1>7, <1>10, FS_Union
  <2>2. Cardinality(allG \cup T) <= Cardinality(Session(t))
    BY <1>2, <1>10, FS_Subset
  <2>3. /\ Cardinality(T) \in Nat /\ Cardinality(allG) \in Nat
        /\ Cardinality(Session(t)) \in Nat /\ Cardinality({}) = 0
    BY <1>2, <1>7, <1>10, FS_CardinalityType, FS_EmptySet
  <2> QED BY <1>2, <2>1, <2>2, <2>3
<1>11. ToolBlockedMs(t) + GeneratingMs(t) <= SessionMs(t)
  <2>1. Cardinality(K) + Cardinality(allG) <= SessionMs(t)
    BY <1>3, <1>4, <1>9, <1>10
  <2> QED BY <1>3, <1>7, <2>1
<1>12. IdleTime(t, scale) + scale * GeneratingMs(t) <= scale * SessionMs(t)
  <2> DEFINE u == Cardinality(allY)
             v == Cardinality(allG)
             x == scale * u
             y == scale * v
  <2>1. u \in Nat /\ v \in Nat /\ SessionMs(t) \in Nat /\ u + v <= SessionMs(t)
    BY <1>8, <1>9, <1>10
  <2>2. u + v \in Nat
    BY <2>1
  <2> HIDE DEF u, v
  <2>3. x \in Nat /\ y \in Nat /\ scale * (u + v) = x + y
    BY <2>1, ProductTypes
  <2>4. scale * SessionMs(t) \in Nat /\ scale * (u + v) <= scale * SessionMs(t)
    BY <2>1, <2>2, ProductTypes
  <2>5. IdleTime(t, scale) \in Nat /\ IdleTime(t, scale) <= x /\ scale * GeneratingMs(t) = y
    BY <1>7, <1>8 DEF u, v
  <2> DEFINE z == scale * SessionMs(t)
  <2> HIDE DEF x, y, z
  <2>6. z \in Nat /\ x + y <= z
    BY <2>3, <2>4 DEF z
  <2> QED BY <2>3, <2>5, <2>6 DEF z
<1> QED BY <1>11, <1>12

\* The idle time of every session's shape and its generating time fit in the session, in
\* whatever parts of a millisecond the gaps are counted (agent_profile.py:287-313,
\* 454-468, 505-548).
THEOREM ReplayIdlesWithinSession ==
  ProfiledSpec => [](IdleFitsSession /\ \A c \in DOMAIN campaign : \A scale \in Nat :
                       IdleFits(campaign[c], scale))
<1> DEFINE Fits == \A c \in DOMAIN campaign : \A scale \in Nat : IdleFits(campaign[c], scale)
<1>1. ProfiledInit => campaign \in Campaigns
  BY DEF ProfiledInit
<1>2. campaign \in Campaigns /\ [ProfiledNext]_profiledVars => (campaign \in Campaigns)'
  BY DEF ProfiledNext, profiledVars
<1>3. campaign \in Campaigns => IdleFitsSession /\ Fits
  <2> SUFFICES ASSUME campaign \in Campaigns, NEW c \in DOMAIN campaign, NEW scale \in Nat
               PROVE  IdleFits(campaign[c], scale)
    BY DEF IdleFitsSession
  <2>1. IsTranscript(campaign[c])
    BY CampaignHolds
  <2> QED BY <2>1, IdleFitsAlways
<1> HIDE DEF Fits
<1>4. ProfiledSpec => [](IdleFitsSession /\ Fits)
  BY <1>1, <1>2, <1>3, PTL DEF ProfiledSpec
<1> QED BY <1>4 DEF Fits
=============================================================================

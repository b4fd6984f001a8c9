-------------------------- MODULE TakerPathsProofs ---------------------------
(***************************************************************************)
(* The scores of choice and matrix answers, for any labels, weights and    *)
(* factors; and the six components of MCTakerPaths side by side.           *)
(***************************************************************************)
EXTENDS MCTakerPaths, EntryProofs, CertificationFunnelProofs, QuestionPagesProofs,
        ScoreTotalsProofs, FiniteSetTheorems, WellFoundedInduction, TLAPS

-----------------------------------------------------------------------------
(* Sums over finite sets *)

\* The element a sum takes first, and the running totals it builds: what it makes of
\* every part of S.
First(s) == CHOOSE x \in s : TRUE
Totals(w, S) ==
    {t \in [SUBSET S -> Int] : \A s \in SUBSET S :
        t[s] = IF s = {} THEN 0 ELSE w[First(s)] + t[s \ {First(s)}]}

\* A nonempty set of naturals has a least element.
LEMMA LeastExists ==
    ASSUME NEW S, S \subseteq Nat, S # {}
    PROVE  \E q \in S : \A r \in S : q <= r
<1>1. IsWellFoundedOn(OpToRel(<, Nat), Nat)
  BY NatLessThanWellFounded
<1>2. PICK q \in S : \A r \in S : ~ (<<r, q>> \in OpToRel(<, Nat))
  BY <1>1, WFMin
<1>3. \A r \in S : ~ (r < q)
  BY <1>2 DEF OpToRel
<1> QED
  BY <1>3

\* Parts of a finite set are counted, and lose one with each element taken.
LEMMA PartSizes ==
    ASSUME NEW S, IsFiniteSet(S), NEW s \in SUBSET S
    PROVE  /\ Cardinality(s) \in Nat
           /\ Cardinality(s) = 0 <=> s = {}
           /\ \A x \in s : Cardinality(s \ {x}) = Cardinality(s) - 1
<1>1. IsFiniteSet(s)
  BY FS_Subset
<1>2. Cardinality(s) \in Nat
  BY <1>1, FS_CardinalityType
<1>3. Cardinality(s) = 0 <=> s = {}
  BY <1>1, FS_EmptySet
<1>4. \A x \in s : Cardinality(s \ {x}) = Cardinality(s) - 1
  BY <1>1, FS_RemoveElement
<1> QED
  BY <1>2, <1>3, <1>4

\* Among bad parts of a finite set there is one that is good without any one element.
LEMMA SmallestBad ==
    ASSUME NEW S, IsFiniteSet(S), NEW Bad \in SUBSET (SUBSET S), Bad # {}
    PROVE  \E s \in Bad : \A x \in s : s \ {x} \notin Bad
<1> DEFINE Sizes == {Cardinality(s) : s \in Bad}
<1>1. Sizes \subseteq Nat /\ Sizes # {}
  BY PartSizes
<1>2. PICK n \in Sizes : \A k \in Sizes : n <= k
  BY <1>1, LeastExists
<1>3. PICK s \in Bad : n = Cardinality(s)
  BY <1>2
<1>4. ASSUME NEW x \in s, s \ {x} \in Bad PROVE FALSE
  <2>1. Cardinality(s \ {x}) = n - 1 /\ n \in Nat
    BY <1>3, PartSizes
  <2>2. n <= Cardinality(s \ {x})
    BY <1>2, <1>4
  <2> QED
    BY <2>1, <2>2
<1> QED
  BY <1>4

\* Any part with something in it has a first element.
LEMMA FirstIn == ASSUME NEW s, s # {} PROVE First(s) \in s
  BY DEF First

\* Whole weights have totals: part sizes are served one after the other.
LEMMA TotalsExist ==
    ASSUME NEW S, IsFiniteSet(S), NEW w \in [S -> Int]
    PROVE  \E t : t \in Totals(w, S)
<1> DEFINE Upto(n) ==
        {t \in [SUBSET S -> Int] : \A s \in SUBSET S : Cardinality(s) <= n =>
            t[s] = IF s = {} THEN 0 ELSE w[First(s)] + t[s \ {First(s)}]}
           Bad == {n \in Nat : Upto(n) = {}}
<1>1. Bad = {}
  <2> SUFFICES ASSUME Bad # {} PROVE FALSE
    OBVIOUS
  <2>1. PICK n \in Bad : \A k \in Bad : n <= k
    BY LeastExists
  <2>2. CASE n = 0
    <3> DEFINE t == [s \in SUBSET S |-> 0]
    <3>1. \A s \in SUBSET S : Cardinality(s) <= 0 => s = {}
      BY PartSizes
    <3>2. t \in Upto(0)
      BY <3>1
    <3> QED
      BY <2>1, <2>2, <3>2
  <2>3. CASE n # 0
    <3>1. n - 1 \in Nat /\ n - 1 \notin Bad
      <4>1. n \in Nat
        BY <2>1
      <4> HIDE DEF Bad
      <4>2. n - 1 \in Nat /\ ~ (n <= n - 1)
        BY <2>3, <4>1
      <4> QED
        BY <2>1, <4>2
    <3>2. PICK g \in Upto(n - 1) : TRUE
      BY <3>1
    <3> DEFINE t == [s \in SUBSET S |->
                        IF Cardinality(s) <= n - 1 THEN g[s]
                        ELSE IF s = {} THEN 0 ELSE w[First(s)] + g[s \ {First(s)}]]
    <3>3. t \in [SUBSET S -> Int]
      <4>1. \A s \in SUBSET S : s # {} => First(s) \in S /\ s \ {First(s)} \in SUBSET S
        BY FirstIn
      <4>2. \A s \in SUBSET S : s # {} => w[First(s)] + g[s \ {First(s)}] \in Int
        BY <3>2, <4>1
      <4> QED
        BY <3>2, <4>2
    <3>4. ASSUME NEW s \in SUBSET S, Cardinality(s) <= n
          PROVE  t[s] = IF s = {} THEN 0 ELSE w[First(s)] + t[s \ {First(s)}]
      <4>1. CASE s = {}
        BY <3>2, <4>1, PartSizes, <3>1
      <4>2. CASE s # {}
        <5>1. First(s) \in s /\ s \ {First(s)} \in SUBSET S
          BY <4>2, FirstIn
        <5>2. Cardinality(s) \in Nat /\ Cardinality(s \ {First(s)}) = Cardinality(s) - 1
          BY <5>1, PartSizes
        <5>3. Cardinality(s \ {First(s)}) <= n - 1
          BY <3>4, <5>2, <3>1
        <5>4. t[s \ {First(s)}] = g[s \ {First(s)}]
          BY <5>1, <5>3
        <5>5. t[s] = w[First(s)] + g[s \ {First(s)}]
          BY <3>2, <4>2
        <5> QED
          BY <4>2, <5>4, <5>5
      <4> QED
        BY <4>1, <4>2
    <3>5. t \in Upto(n)
      <4> HIDE DEF t
      <4> QED
        BY <3>3, <3>4
    <3> QED
      BY <2>1, <3>5
  <2> QED
    BY <2>2, <2>3
<1>2. PICK t \in Upto(Cardinality(S)) : TRUE
  BY <1>1, FS_CardinalityType
<1>3. \A s \in SUBSET S : Cardinality(s) <= Cardinality(S)
  BY FS_Subset
<1> QED
  BY <1>2, <1>3 DEF Totals

\* Whatever builds totals the way a sum does has built them.
LEMMA BuiltAreTotals ==
    ASSUME NEW S, IsFiniteSet(S), NEW w \in [S -> Int], NEW t,
           t = [s \in SUBSET S |-> IF s = {} THEN 0 ELSE w[First(s)] + t[s \ {First(s)}]]
    PROVE  t \in Totals(w, S)
<1> DEFINE Bad == {s \in SUBSET S : t[s] \notin Int}
<1>0. \A s \in SUBSET S : t[s] = IF s = {} THEN 0 ELSE w[First(s)] + t[s \ {First(s)}]
  OBVIOUS
<1>1. Bad = {}
  <2> SUFFICES ASSUME Bad # {} PROVE FALSE
    OBVIOUS
  <2>1. PICK s \in Bad : \A x \in s : s \ {x} \notin Bad
    BY SmallestBad
  <2>2. s # {}
    BY <1>0, <2>1
  <2>3. First(s) \in s /\ First(s) \in S /\ s \ {First(s)} \in SUBSET S
    BY <2>1, <2>2, FirstIn
  <2>4. t[s \ {First(s)}] \in Int
    BY <2>1, <2>3
  <2>5. t[s] = w[First(s)] + t[s \ {First(s)}]
    BY <1>0, <2>1, <2>2
  <2> QED
    BY <2>1, <2>3, <2>4, <2>5
<1>2. t \in [SUBSET S -> Int]
  BY <1>1
<1> QED
  BY <1>0, <1>2 DEF Totals

\* The order of the elements does not matter.
LEMMA AnyOrder ==
    ASSUME NEW S, IsFiniteSet(S), NEW w \in [S -> Int], NEW t \in Totals(w, S),
           NEW s \in SUBSET S, NEW x \in s
    PROVE  t[s] = w[x] + t[s \ {x}]
<1> DEFINE Bad == {r \in SUBSET S : \E y \in r : t[r] # w[y] + t[r \ {y}]}
<1>0. /\ t \in [SUBSET S -> Int]
      /\ \A r \in SUBSET S : r # {} => t[r] = w[First(r)] + t[r \ {First(r)}]
  BY DEF Totals
<1>1. Bad = {}
  <2> SUFFICES ASSUME Bad # {} PROVE FALSE
    OBVIOUS
  <2>1. PICK r \in Bad : \A z \in r : r \ {z} \notin Bad
    BY SmallestBad
  <2>2. PICK y \in r : t[r] # w[y] + t[r \ {y}]
    BY <2>1
  <2> DEFINE z == First(r)
  <2>3. z \in r /\ r \in SUBSET S
    BY <2>1, FirstIn
  <2> HIDE DEF z
  <2>4. t[r] = w[z] + t[r \ {z}]
    BY <1>0, <2>3 DEF z
  <2>5. z # y
    BY <2>2, <2>4
  <2>6. t[r \ {z}] = w[y] + t[(r \ {z}) \ {y}]
    BY <2>1, <2>2, <2>3, <2>5
  <2>7. t[r \ {y}] = w[z] + t[(r \ {y}) \ {z}]
    BY <2>1, <2>2, <2>3, <2>5
  <2> DEFINE k == t[(r \ {y}) \ {z}]
  <2>8. t[r \ {z}] = w[y] + k /\ t[r \ {y}] = w[z] + k
    <3>1. (r \ {z}) \ {y} = (r \ {y}) \ {z}
      OBVIOUS
    <3> QED
      BY <2>6, <2>7, <3>1
  <2>9. w[z] \in Int /\ w[y] \in Int /\ k \in Int
    BY <1>0, <2>2, <2>3
  <2> HIDE DEF k, Bad
  <2> QED
    BY <2>2, <2>4, <2>8, <2>9
<1> QED
  BY <1>1

\* Elements that weigh nothing do not count.
LEMMA Support ==
    ASSUME NEW S, IsFiniteSet(S), NEW w \in [S -> Int], NEW t \in Totals(w, S),
           NEW R \in SUBSET S, \A x \in S \ R : w[x] = 0
    PROVE  t[S] = t[R]
<1> DEFINE Bad == {s \in SUBSET S : t[s] # t[s \cap R]}
<1>0. t \in [SUBSET S -> Int]
  BY DEF Totals
<1>1. Bad = {}
  <2> SUFFICES ASSUME Bad # {} PROVE FALSE
    OBVIOUS
  <2>1. PICK s \in Bad : \A x \in s : s \ {x} \notin Bad
    BY SmallestBad
  <2>2. PICK x \in s : x \notin R
    <3>1. CASE s \subseteq R
      <4>1. s \cap R = s
        BY <3>1
      <4> QED
        BY <2>1, <4>1
    <3> QED
      BY <3>1
  <2>3. t[s] = w[x] + t[s \ {x}]
    BY <2>1, <2>2, AnyOrder
  <2>4. w[x] = 0 /\ t[s \ {x}] \in Int
    BY <1>0, <2>1, <2>2
  <2>5. t[s \ {x}] = t[(s \ {x}) \cap R]
    BY <2>1, <2>2
  <2>6. (s \ {x}) \cap R = s \cap R
    BY <2>2
  <2> QED
    BY <2>1, <2>3, <2>4, <2>5, <2>6
<1>2. S \cap R = R
  OBVIOUS
<1> QED
  BY <1>1, <1>2

\* A common factor comes out of the sum.
LEMMA Scaled ==
    ASSUME NEW S, IsFiniteSet(S), NEW w \in [S -> Int], NEW t \in Totals(w, S),
           NEW R \in SUBSET S, NEW v \in [R -> Int], NEW u \in Totals(v, R),
           NEW f \in Int, \A x \in R : w[x] = v[x] * f
    PROVE  t[R] = u[R] * f
<1> DEFINE Bad == {s \in SUBSET R : t[s] # u[s] * f}
<1>0. /\ t \in [SUBSET S -> Int] /\ u \in [SUBSET R -> Int]
      /\ \A s \in SUBSET S : t[s] = IF s = {} THEN 0 ELSE w[First(s)] + t[s \ {First(s)}]
      /\ \A s \in SUBSET R : u[s] = IF s = {} THEN 0 ELSE v[First(s)] + u[s \ {First(s)}]
  BY DEF Totals
<1>f. IsFiniteSet(R)
  BY FS_Subset
<1>1. Bad = {}
  <2> SUFFICES ASSUME Bad # {} PROVE FALSE
    OBVIOUS
  <2>1. PICK s \in Bad : \A x \in s : s \ {x} \notin Bad
    BY <1>f, SmallestBad
  <2>2. s # {}
    <3>1. s \in SUBSET R /\ t[s] # u[s] * f
      BY <2>1
    <3> HIDE DEF Bad
    <3>2. s = {} => t[s] = 0 /\ u[s] = 0
      BY <1>0, <3>1
    <3>3. 0 * f = 0
      OBVIOUS
    <3> QED
      BY <3>1, <3>2, <3>3
  <2> DEFINE x == First(s)
             r == s \ {x}
  <2>3. x \in s /\ x \in R /\ r \in SUBSET R /\ s \in SUBSET R /\ r \notin Bad
    BY <2>1, <2>2, FirstIn
  <2>4. t[s] = w[x] + t[r] /\ u[s] = v[x] + u[r]
    BY <1>0, <2>2, <2>3
  <2>5. t[r] = u[r] * f /\ w[x] = v[x] * f
    BY <2>3
  <2>6. v[x] \in Int /\ u[r] \in Int
    BY <1>0, <2>3
  <2>7. \A a, b \in Int : (a + b) * f = a * f + b * f
    OBVIOUS
  <2>8. t[s] # u[s] * f
    BY <2>1
  <2> HIDE DEF x, r
  <2> QED
    BY <2>4, <2>5, <2>6, <2>7, <2>8
<1> QED
  BY <1>1

-----------------------------------------------------------------------------
(* Grading *)

\* An answer has finitely many cells.
LEMMA CellsFinite == IsFiniteSet(Cells)
<1>1. IsFiniteSet(MatrixRows \cup {OneRow})
  BY ScoresAssumption, FS_AddElement
<1> QED
  BY <1>1, ScoresAssumption, FS_Product DEF Cells

\* What an answer's cells weigh is a total.
LEMMA WeightIsTotal ==
    ASSUME NEW m, NEW cells, IsFiniteSet(cells),
           \A c \in cells : AnswerWeight(m, c) \in Int
    PROVE  \E t \in Totals([c \in cells |-> AnswerWeight(m, c)], cells) :
               WeightOf(m, cells) = t[cells]
<1> DEFINE w == [c \in cells |-> AnswerWeight(m, c)]
           Built(g) == g = [s \in SUBSET cells |->
                               IF s = {} THEN 0 ELSE AnswerWeight(m, First(s)) + g[s \ {First(s)}]]
           iter == CHOOSE g : Built(g)
<1>1. w \in [cells -> Int]
  OBVIOUS
<1>2. WeightOf(m, cells) = iter[cells]
  BY DEF WeightOf, MapThenSumSet, MapThenFoldSet, First
<1>3. \A s \in SUBSET cells : s # {} => w[First(s)] = AnswerWeight(m, First(s))
  BY FirstIn
<1>4. Built(iter)
  <2>1. PICK t \in Totals(w, cells) : TRUE
    BY <1>1, TotalsExist
  <2> HIDE DEF w
  <2>2. /\ t \in [SUBSET cells -> Int]
        /\ \A s \in SUBSET cells :
              t[s] = IF s = {} THEN 0 ELSE AnswerWeight(m, First(s)) + t[s \ {First(s)}]
    BY <1>3, <2>1 DEF Totals
  <2>3. Built(t)
    BY <2>2
  <2> QED
    BY <2>3
<1>5. iter \in Totals(w, cells)
  <2> DEFINE u == iter
  <2>1. u = [s \in SUBSET cells |-> IF s = {} THEN 0 ELSE AnswerWeight(m, First(s)) + u[s \ {First(s)}]]
    BY <1>4
  <2> HIDE DEF w, u
  <2>2. u = [s \in SUBSET cells |-> IF s = {} THEN 0 ELSE w[First(s)] + u[s \ {First(s)}]]
    BY <1>3, <2>1
  <2>3. u \in Totals(w, cells)
    BY <1>1, <2>2, BuiltAreTotals
  <2> QED
    BY <2>3 DEF u
<1> HIDE DEF iter
<1> QED
  BY <1>2, <1>5

\* So is what the stored shares add up to.
LEMMA SharesAreTotal ==
    ASSUME share' \in Shares, NEW cells, NEW f
    PROVE  \E t \in Totals([c \in Cells |-> ScoreOf(share'[c])], Cells) :
               SharesSum(cells, f) <=> t[Cells] = ScoreOf(Graded(RawGrade(Now, cells), f))
<1> DEFINE w == [c \in Cells |-> ScoreOf(share'[c])]
           Built(g) == g = [s \in SUBSET Cells |->
                               IF s = {} THEN 0 ELSE ScoreOf(share'[First(s)]) + g[s \ {First(s)}]]
           iter == CHOOSE g : Built(g)
<1>1. w \in [Cells -> Int]
  BY DEF Shares, ScoreOf
<1>2. SharesSum(cells, f) <=> iter[Cells] = ScoreOf(Graded(RawGrade(Now, cells), f))
  BY DEF SharesSum, MapThenSumSet, MapThenFoldSet, First
<1>3. \A s \in SUBSET Cells : s # {} => w[First(s)] = ScoreOf(share'[First(s)])
  BY FirstIn
<1>4. Built(iter)
  <2>1. PICK t \in Totals(w, Cells) : TRUE
    BY <1>1, CellsFinite, TotalsExist
  <2> HIDE DEF w
  <2>2. /\ t \in [SUBSET Cells -> Int]
        /\ \A s \in SUBSET Cells :
              t[s] = IF s = {} THEN 0 ELSE ScoreOf(share'[First(s)]) + t[s \ {First(s)}]
    BY <1>3, <2>1 DEF Totals
  <2>3. Built(t)
    BY <2>2
  <2> QED
    BY <2>3
<1>5. iter \in Totals(w, Cells)
  <2> DEFINE u == iter
  <2>1. u = [s \in SUBSET Cells |-> IF s = {} THEN 0 ELSE ScoreOf(share'[First(s)]) + u[s \ {First(s)}]]
    BY <1>4
  <2> HIDE DEF w, u
  <2>2. u = [s \in SUBSET Cells |-> IF s = {} THEN 0 ELSE w[First(s)] + u[s \ {First(s)}]]
    BY <1>3, <2>1
  <2>3. u \in Totals(w, Cells)
    BY <1>1, <2>2, CellsFinite, BuiltAreTotals
  <2> QED
    BY <2>3 DEF u
<1> HIDE DEF iter
<1> QED
  BY <1>2, <1>5

\* Weights, grades, factors and shares have the types they should.
LEMMA GradeTypes ==
    ASSUME ScoresTypeOK, NEW m \in Marking, NEW cells \in SUBSET Cells
    PROVE  /\ IsFiniteSet(cells)
           /\ \A c \in Cells : AnswerWeight(m, c) \in Int
           /\ WeightOf(m, cells) \in Int
           /\ cells # {} => RawGrade(m, cells) \in Int \cup {Unscored}
           /\ RegradeFactor(m) \in Int
           /\ Factors \subseteq Int /\ Whole \in Int
<1>1. \A d \in SUBSET Cells : IsFiniteSet(d)
  BY CellsFinite, FS_Subset
<1>2. ASSUME NEW c \in Cells PROVE AnswerWeight(m, c) \in Int
  <2>1. m.label[c[2]] \in LabelRow
    BY ScoresAssumption DEF Cells, Marking
  <2>2. FullMark \in Int
    BY ScoresAssumption
  <2> QED
    BY <2>1, <2>2 DEF AnswerWeight, LabelRow
<1>3. ASSUME NEW d \in SUBSET Cells PROVE WeightOf(m, d) \in Int
  <2>1. PICK t \in Totals([c \in d |-> AnswerWeight(m, c)], d) : WeightOf(m, d) = t[d]
    BY <1>1, <1>2, WeightIsTotal
  <2> QED
    BY <2>1 DEF Totals
<1>4. ASSUME cells # {} PROVE RawGrade(m, cells) \in Int \cup {Unscored}
  <2>1. {c \in cells : Correct(m, c)} \in SUBSET Cells
    OBVIOUS
  <2>2. WeightOf(m, cells) \in Int /\ WeightOf(m, {c \in cells : Correct(m, c)}) \in Int
    BY <1>3, <2>1
  <2>3. AnswerWeight(m, CHOOSE c \in cells : TRUE) \in Int
    BY <1>2, <1>4
  <2> QED
    BY <2>2, <2>3 DEF RawGrade
<1>5. Factors \subseteq Int /\ Whole \in Int
  BY ScoresAssumption
<1>6. RegradeFactor(m) \in Int
  BY <1>5 DEF RegradeFactor, ScoresTypeOK
<1> QED
  BY <1>1, <1>2, <1>3, <1>4, <1>5, <1>6

\* The lines of an answer have shares where the answer has cells, and nowhere else.
LEMMA LineTypes ==
    ASSUME ScoresTypeOK, NEW m \in Marking,
           NEW cells \in SUBSET Cells, cells # {}, NEW f \in Int
    PROVE  /\ SetLines(m, cells, f) \in Shares
           /\ {c \in Cells : SetLines(m, cells, f)[c] # Unscored} \subseteq cells
<1> DEFINE raw == RawGrade(m, cells)
<1>1. raw \in Int \cup {Unscored} /\ \A c \in Cells : AnswerWeight(m, c) \in Int
  BY GradeTypes
<1>2. SetLines(m, cells, f) =
        [c \in Cells |->
            IF c \notin cells \/ raw = Unscored THEN Unscored
            ELSE IF m.kind = "simple" THEN Graded(raw, f)
            ELSE IF raw = 0 \/ (m.kind = "matrix" /\ ~Correct(m, c)) THEN 0
            ELSE AnswerWeight(m, c) * f]
  BY DEF SetLines
<1> HIDE DEF raw
<1>3. Graded(raw, f) \in Int \cup {Unscored}
  BY <1>1 DEF Graded
<1>4. \A c \in Cells : AnswerWeight(m, c) * f \in Int
  BY <1>1
<1>5. SetLines(m, cells, f) \in Shares
  BY <1>2, <1>3, <1>4 DEF Shares
<1> QED
  BY <1>2, <1>5

\* The lines stored for an answer add up to its grade: nothing of a score is lost or
\* counted twice when it is split over labels and cells.
LEMMA LinesAddUp ==
    ASSUME ScoresTypeOK, NEW cells \in SUBSET Cells, cells # {},
           choiceKind = "simple" => \E c \in Cells : cells = {c},
           NEW f \in Int, share' = SetLines(Now, cells, f)
    PROVE  SharesSum(cells, f)
<1> DEFINE raw == RawGrade(Now, cells)
           w == [c \in Cells |-> ScoreOf(share'[c])]
<1>0. /\ Now \in Marking /\ Now.kind = choiceKind
      /\ choiceKind \in Kinds
      /\ Unscored \notin Int
  BY ScoresAssumption DEF ScoresTypeOK, Now, Marking
<1>1. /\ raw \in Int \cup {Unscored}
      /\ \A c \in Cells : AnswerWeight(Now, c) \in Int
      /\ \A d \in SUBSET Cells : IsFiniteSet(d)
  BY <1>0, GradeTypes
<1>2. share' \in Shares
  BY <1>0, LineTypes
<1>3. PICK t \in Totals(w, Cells) : SharesSum(cells, f) <=> t[Cells] = ScoreOf(Graded(raw, f))
  BY <1>2, SharesAreTotal
<1>4. w \in [Cells -> Int] /\ t \in [SUBSET Cells -> Int] /\ t[{}] = 0
  BY <1>2, <1>3 DEF Shares, ScoreOf, Totals
<1>5. \A c \in Cells : share'[c] =
            IF c \notin cells \/ raw = Unscored THEN Unscored
            ELSE IF choiceKind = "simple" THEN Graded(raw, f)
            ELSE IF raw = 0 \/ (choiceKind = "matrix" /\ ~Correct(Now, c)) THEN 0
            ELSE AnswerWeight(Now, c) * f
  BY <1>0 DEF SetLines
<1>6. \A c \in Cells : w[c] = ScoreOf(share'[c])
  OBVIOUS
<1> HIDE DEF w, raw
<1>7. \A c \in Cells \ cells : w[c] = 0
  BY <1>5, <1>6 DEF ScoreOf
\* Where every share is nought, so is the sum.
<1>8. ASSUME raw \in {Unscored, 0}, choiceKind # "simple" \/ raw = Unscored PROVE SharesSum(cells, f)
  <2>1. \A c \in Cells \ {} : w[c] = 0
    BY <1>5, <1>6, <1>8 DEF ScoreOf
  <2>2. t[Cells] = 0
    BY <1>3, <1>4, <2>1, CellsFinite, Support
  <2>3. ScoreOf(Graded(raw, f)) = 0
    BY <1>0, <1>8 DEF ScoreOf, Graded
  <2> QED
    BY <1>3, <2>2, <2>3
\* One label carries it whole.
<1>9. ASSUME raw # Unscored, choiceKind = "simple" PROVE SharesSum(cells, f)
  <2>1. PICK c \in Cells : cells = {c}
    BY <1>9
  <2>2. share'[c] = Graded(raw, f) /\ Graded(raw, f) \in Int
    <3>1. raw * f \in Int /\ Graded(raw, f) = raw * f
      BY <1>1, <1>9 DEF Graded
    <3>2. share'[c] = Graded(raw, f)
      BY <1>5, <1>9, <2>1
    <3> QED
      BY <3>1, <3>2
  <2>3. w[c] = Graded(raw, f) /\ ScoreOf(Graded(raw, f)) = Graded(raw, f)
    BY <1>0, <1>6, <2>2 DEF ScoreOf
  <2>4. t[Cells] = t[cells]
    BY <1>0, <1>3, <1>4, <1>7, CellsFinite, Support
  <2>5. t[cells] = w[c] + t[cells \ {c}]
    BY <1>0, <1>3, <1>4, <2>1, CellsFinite, AnyOrder
  <2>6. t[cells \ {c}] = 0
    BY <1>4, <2>1
  <2>7. t[cells] = w[c]
    BY <2>2, <2>3, <2>5, <2>6
  <2> QED
    BY <1>3, <2>3, <2>4, <2>7
\* Otherwise the cells that count carry their weights, all at one factor.
<1>10. ASSUME raw \notin {Unscored, 0}, NEW R \in SUBSET cells, raw = WeightOf(Now, R),
              \A c \in R : w[c] = AnswerWeight(Now, c) * f,
              \A c \in cells \ R : w[c] = 0
       PROVE  SharesSum(cells, f)
  <2> DEFINE v == [c \in R |-> AnswerWeight(Now, c)]
  <2>1. R \in SUBSET Cells /\ IsFiniteSet(R)
    BY <1>0, <1>1
  <2>2. PICK u \in Totals(v, R) : raw = u[R]
    BY <1>1, <1>10, <2>1, WeightIsTotal
  <2>3. v \in [R -> Int] /\ \A c \in R : w[c] = v[c] * f
    BY <1>1, <1>10, <2>1
  <2> HIDE DEF v
  <2>4. t[R] = u[R] * f
    BY <1>3, <1>4, <2>1, <2>2, <2>3, CellsFinite, Scaled
  <2>5. \A c \in Cells \ R : w[c] = 0
    BY <1>7, <1>10
  <2>6. t[Cells] = t[R]
    BY <1>3, <1>4, <2>1, <2>5, CellsFinite, Support
  <2>7. ScoreOf(Graded(raw, f)) = raw * f
    <3>1. raw * f \in Int
      BY <1>1, <1>10
    <3> QED
      BY <1>0, <1>10, <3>1 DEF ScoreOf, Graded
  <2> QED
    BY <1>3, <2>2, <2>4, <2>6, <2>7
<1>11. ASSUME raw \notin {Unscored, 0}, choiceKind = "multiple" PROVE SharesSum(cells, f)
  <2>1. raw = WeightOf(Now, cells)
    BY <1>0, <1>11 DEF RawGrade, raw
  <2>2. \A c \in cells : w[c] = AnswerWeight(Now, c) * f
    <3>1. \A c \in cells : share'[c] = AnswerWeight(Now, c) * f /\ share'[c] \in Int
      BY <1>0, <1>1, <1>5, <1>11
    <3> QED
      BY <1>0, <1>6, <3>1 DEF ScoreOf
  <2>3. cells \in SUBSET cells /\ \A c \in cells \ cells : w[c] = 0
    OBVIOUS
  <2> QED
    BY <1>10, <1>11, <2>1, <2>2, <2>3
<1>12. ASSUME raw \notin {Unscored, 0}, choiceKind = "matrix" PROVE SharesSum(cells, f)
  <2> DEFINE R == {c \in cells : Correct(Now, c)}
  <2>1. raw = WeightOf(Now, R)
    BY <1>0, <1>12 DEF RawGrade, raw
  <2>2. \A c \in R : w[c] = AnswerWeight(Now, c) * f
    <3>1. \A c \in R : share'[c] = AnswerWeight(Now, c) * f /\ share'[c] \in Int
      BY <1>0, <1>1, <1>5, <1>12
    <3> QED
      BY <1>0, <1>6, <3>1 DEF ScoreOf
  <2>3. \A c \in cells \ R : w[c] = 0
    <3>1. \A c \in cells \ R : share'[c] = 0
      BY <1>0, <1>5, <1>12
    <3> QED
      BY <1>0, <1>6, <3>1 DEF ScoreOf
  <2>4. R \in SUBSET cells
    OBVIOUS
  <2> HIDE DEF R
  <2> QED
    BY <1>10, <1>12, <2>1, <2>2, <2>3, <2>4
<1> QED
  BY <1>0, <1>8, <1>9, <1>11, <1>12 DEF Kinds

-----------------------------------------------------------------------------
(* Submits, edits and regrades *)

\* ScoresInv holds before the first answer.
LEMMA ScoresStarts == ScoresInit => ScoresInv
<1> SUFFICES ASSUME ScoresInit PROVE ScoresInv
  OBVIOUS
<1>1. Nothing \in Shares /\ \A c \in Cells : Nothing[c] = Unscored
  BY DEF Nothing, Shares
<1>2. label \in [Labels -> LabelRows]
  BY DEF ScoresInit
<1>3. submitted \in Record /\ submitted.share = Nothing
  BY <1>1, <1>2 DEF ScoresInit, Record, Marking, Now
<1> QED
  BY <1>1, <1>2, <1>3 DEF ScoresInit, ScoresInv, ScoresTypeOK, SubmitStands

\* An accepted answer names cells, and one only of a simple choice.
LEMMA AnswersNameCells ==
    ASSUME NEW cells \in Answers
    PROVE  /\ cells \in SUBSET Cells /\ cells # {}
           /\ choiceKind = "simple" => \E c \in Cells : cells = {c}
<1> DEFINE Living == {c \in Cells : Live(Now, c)}
<1>1. /\ cells \in (SUBSET Living) \ {{}}
      /\ choiceKind = "simple" => \E c \in Cells : cells = {c}
  BY DEF Answers
<1>2. Living \subseteq Cells
  OBVIOUS
<1> HIDE DEF Living
<1> QED
  BY <1>1, <1>2

\* The lines of an answer just stored are those its recorded factor gives by the
\* marking of the moment.
LEMMA SubmitKeeps == ScoresInv /\ SubmitSet => ScoresInv'
<1> SUFFICES ASSUME ScoresInv, SubmitSet PROVE ScoresInv'
  OBVIOUS
<1> USE DEF ScoresInv
<1>1. PICK cells \in Answers, f \in Factors :
        LET rated == SpeedRated(Now, cells) IN
          /\ chosen' = cells
          /\ share' = SetLines(Now, cells, IF rated THEN f ELSE Whole)
          /\ factor' = IF rated THEN f ELSE Unscored
  BY DEF SubmitSet
<1>2. /\ submitted' = [marking |-> Now, share |-> share']
      /\ UNCHANGED <<choiceKind, label, scoring>>
  BY DEF SubmitSet
<1>3. /\ cells \in SUBSET Cells /\ cells # {}
      /\ choiceKind = "simple" => \E c \in Cells : cells = {c}
  BY AnswersNameCells
<1>4. Now \in Marking /\ Factors \subseteq Int /\ Whole \in Int /\ Unscored \notin Int
  BY ScoresAssumption DEF ScoresTypeOK, Now, Marking
<1>5. /\ share' \in Shares
      /\ {c \in Cells : share'[c] # Unscored} \subseteq cells
  <2> DEFINE g == IF SpeedRated(Now, cells) THEN f ELSE Whole
  <2>1. g \in Int /\ share' = SetLines(Now, cells, g)
    BY <1>1, <1>4
  <2> HIDE DEF g
  <2> QED
    BY <1>3, <1>4, <2>1, LineTypes
<1>6. submitted' \in Record /\ submitted'.share = share' /\ submitted'.marking = Now
  BY <1>2, <1>4, <1>5 DEF Record
<1>7. ScoresTypeOK'
  BY <1>1, <1>2, <1>3, <1>5, <1>6 DEF ScoresTypeOK
<1>8. RegradeFactor(submitted.marking)' = IF SpeedRated(Now, cells) THEN f ELSE Whole
  BY <1>1, <1>4, <1>6 DEF RegradeFactor
<1>9. SubmitStands'
  BY <1>1, <1>6, <1>8 DEF SubmitStands
<1> QED
  BY <1>7, <1>9

\* An answer of nothing leaves no line and no share.
LEMMA ClearKeeps == ScoresInv /\ ClearSet => ScoresInv'
<1> SUFFICES ASSUME ScoresInv, ClearSet PROVE ScoresInv'
  OBVIOUS
<1> USE DEF ScoresInv
<1>1. Nothing \in Shares /\ \A c \in Cells : Nothing[c] = Unscored
  BY DEF Nothing, Shares
<1>2. Now \in Marking
  BY DEF ScoresTypeOK, Now, Marking
<1>3. submitted' \in Record /\ submitted'.share = Nothing
  BY <1>1, <1>2 DEF ClearSet, Record
<1>4. ScoresTypeOK'
  BY <1>1, <1>3 DEF ClearSet, ScoresTypeOK
<1>5. SubmitStands'
  BY DEF ClearSet, SubmitStands
<1> QED
  BY <1>4, <1>5

\* A step that leaves the cells, the factor and the record of the submit alone leaves
\* standing what the submit stored.
LEMMA SubmitStandsFrame ==
    ASSUME SubmitStands, UNCHANGED <<chosen, factor, submitted>>
    PROVE  SubmitStands'
<1>1. RegradeFactor(submitted.marking)' = RegradeFactor(submitted.marking)
  BY DEF RegradeFactor
<1> QED
  BY <1>1 DEF SubmitStands

\* A regrade changes the shares alone.
LEMMA RegradeKeeps == ScoresInv /\ RegradeSet => ScoresInv'
<1> SUFFICES ASSUME ScoresInv, RegradeSet PROVE ScoresInv'
  OBVIOUS
<1> USE DEF ScoresInv
<1>1. Now \in Marking /\ chosen \in SUBSET Cells /\ chosen # {}
  BY DEF ScoresTypeOK, Now, Marking, RegradeSet
<1>2. RegradeFactor(Now) \in Int
  BY <1>1, GradeTypes
<1>3. share' \in Shares
  BY <1>1, <1>2, LineTypes DEF RegradeSet
<1>4. ScoresTypeOK'
  BY <1>1, <1>3 DEF RegradeSet, ScoresTypeOK
<1>5. SubmitStands'
  BY SubmitStandsFrame DEF RegradeSet
<1> QED
  BY <1>4, <1>5

\* Officers' edits reach the stored lines only through a regrade.
LEMMA EditKeeps ==
    ScoresInv /\ ((\E l \in Labels : EditLabel(l)) \/ EditScoring) => ScoresInv'
<1> SUFFICES ASSUME ScoresInv, (\E l \in Labels : EditLabel(l)) \/ EditScoring
             PROVE  ScoresInv'
  OBVIOUS
<1> USE DEF ScoresInv
<1>1. label' \in [Labels -> LabelRows] /\ scoring' \in Scoring
  BY DEF ScoresTypeOK, EditLabel, EditScoring
<1>2. UNCHANGED <<choiceKind, chosen, share, factor, submitted>>
  BY DEF EditLabel, EditScoring
<1>3. ScoresTypeOK'
  BY <1>1, <1>2 DEF ScoresTypeOK
<1>4. SubmitStands'
  BY <1>2, SubmitStandsFrame
<1> QED
  BY <1>3, <1>4

\* No step of submit_answer, regrade_question or an officer breaks ScoresInv.
LEMMA ScoresStep == ScoresInv /\ [ScoresNext]_scoresVars => ScoresInv'
<1> SUFFICES ASSUME ScoresInv, [ScoresNext]_scoresVars PROVE ScoresInv'
  OBVIOUS
<1>1. CASE UNCHANGED scoresVars
  <2>1. UNCHANGED <<choiceKind, label, scoring, chosen, share, factor, submitted>>
    BY <1>1 DEF scoresVars
  <2>2. ScoresTypeOK'
    BY <2>1 DEF ScoresInv, ScoresTypeOK
  <2> QED
    BY <2>1, <2>2, SubmitStandsFrame DEF ScoresInv
<1>2. CASE ScoresNext
  BY <1>2, SubmitKeeps, ClearKeeps, RegradeKeeps, EditKeeps DEF ScoresNext
<1> QED
  BY <1>1, <1>2

\* Whatever is answered, edited and regraded, the recorded factor and the marking of
\* the submit give the submit's lines.
THEOREM ScoresInvariance == ScoresSpec => []ScoresInv
<1>1. ScoresInit => ScoresInv
  BY ScoresStarts
<1>2. ScoresInv /\ [ScoresNext]_scoresVars => ScoresInv'
  BY ScoresStep
<1> QED
  BY <1>1, <1>2, PTL DEF ScoresSpec

\* regrade_question splits the grade it computes over the stored lines, and restores
\* the submit's lines when it finds labels and settings as they were.
THEOREM RegradesRestore == ScoresSpec => RegradeRestores
<1> DEFINE Restores ==
        /\ SharesSum(chosen, RegradeFactor(Now))
        /\ Now = submitted.marking => share' = submitted.share
<1>1. ScoresInv /\ [ScoresNext]_scoresVars => [RegradeSet => Restores]_scoresVars
  <2> SUFFICES ASSUME ScoresInv, RegradeSet PROVE Restores
    OBVIOUS
  <2>1. ScoresTypeOK /\ SubmitStands
    BY DEF ScoresInv
  <2>2. chosen # {} /\ share' = SetLines(Now, chosen, RegradeFactor(Now))
    BY DEF RegradeSet
  <2>3. RegradeFactor(Now) \in Int
    <3>1. Now \in Marking /\ chosen \in SUBSET Cells
      BY <2>1 DEF ScoresTypeOK, Now, Marking
    <3> QED
      BY <2>1, <3>1, GradeTypes
  <2>4. SharesSum(chosen, RegradeFactor(Now))
    <3>1. /\ chosen \in SUBSET Cells
          /\ choiceKind = "simple" => \E c \in Cells : chosen = {c}
      BY <2>1, <2>2 DEF ScoresTypeOK
    <3> QED
      BY <2>1, <2>2, <2>3, <3>1, LinesAddUp
  <2>5. Now = submitted.marking => share' = submitted.share
    BY <2>1, <2>2 DEF SubmitStands
  <2> QED
    BY <2>4, <2>5
<1> QED
  BY <1>1, ScoresInvariance, PTL DEF ScoresSpec, RegradeRestores

\* submit_answer splits the grade of the answer over the lines it stores, at the factor
\* it records with them.
THEOREM SubmitsSplit ==
    ScoresSpec => [][SubmitSet => SharesSum(chosen', RegradeFactor(Now)')]_scoresVars
<1>1. ScoresInv /\ [ScoresNext]_scoresVars
        => [SubmitSet => SharesSum(chosen', RegradeFactor(Now)')]_scoresVars
  <2> SUFFICES ASSUME ScoresInv, SubmitSet PROVE SharesSum(chosen', RegradeFactor(Now)')
    OBVIOUS
  <2>1. PICK cells \in Answers, f \in Factors :
            /\ chosen' = cells
            /\ share' = SetLines(Now, cells, IF SpeedRated(Now, cells) THEN f ELSE Whole)
            /\ factor' = IF SpeedRated(Now, cells) THEN f ELSE Unscored
    BY DEF SubmitSet
  <2>2. Now' = Now
    BY DEF SubmitSet, Now
  <2>3. ScoresTypeOK /\ Factors \subseteq Int /\ Whole \in Int /\ Unscored \notin Int
    BY ScoresAssumption DEF ScoresInv
  <2>4. RegradeFactor(Now)' = IF SpeedRated(Now, cells) THEN f ELSE Whole
    BY <2>1, <2>2, <2>3 DEF RegradeFactor
  <2> DEFINE g == RegradeFactor(Now)'
  <2>5. g \in Int /\ share' = SetLines(Now, cells, g)
    BY <2>1, <2>3, <2>4
  <2> HIDE DEF g
  <2>6. SharesSum(cells, g)
    BY <2>3, <2>5, AnswersNameCells, LinesAddUp
  <2> QED
    BY <2>1, <2>6 DEF g
<1> QED
  BY <1>1, ScoresInvariance, PTL DEF ScoresSpec

-----------------------------------------------------------------------------
(* The six components side by side *)

\* Whichever component moves, the others stand still.
LEMMA PathsAreEach ==
    PathsSpec => /\ LockoutSpec /\ LinkSpec /\ FunnelSpec
                 /\ PagesSpec /\ ScoresSpec /\ TotalsSpec
<1>1. PathsInit => /\ LockoutInit /\ LinkInit /\ FunnelInit
                   /\ PagesInit /\ ScoresInit /\ TotalsInit
  BY Zenon DEF PathsInit
<1>2. [PathsNext]_pathVars =>
        /\ [LockoutNext]_lockoutVars
        /\ [LinkNext]_linkVars
        /\ [FunnelNext]_funnelVars
        /\ [PagesNext]_pageVars
        /\ [ScoresNext]_scoresVars
        /\ [TotalsNext]_totalsVars
  BY Zenon DEF PathsNext, pathVars
<1> QED
  BY <1>1, <1>2, PTL
  DEF PathsSpec, LockoutSpec, LinkSpec, FunnelSpec, PagesSpec, ScoresSpec, TotalsSpec

\* The invariants of the six components hold together, for any rules, rows, people,
\* labels and limits.
THEOREM PathsInvariance == PathsSpec => []PathsInv
<1>1. LockoutInv /\ LinkInv /\ FunnelInv /\ PagesInv /\ ScoresInv /\ ScoreInv => PathsInv
  BY DEF PathsInv
<1> QED
  BY <1>1, PathsAreEach, LockoutInvariance, LinkInvariance, FunnelInvariance,
     PagesInvariance, ScoresInvariance, ScoreInvariance, PTL

\* And so do the properties of each: the code lockout, the capability links, the
\* certification funnel, the pages, the shares and the totals keep what they promise.
THEOREM PathsKeepPromises ==
    PathsSpec =>
        /\ []LockKept /\ GuessWaitsOutLocks
        /\ []DeadLinksOpenNothing /\ DeadlineKept /\ InviteAllOrNothing
        /\ []CompletedOnce /\ []GrantsEarned /\ []OneGrantPerUser
        /\ PagesDerived
        /\ RegradeRestores
        /\ []TotalsFreshUnlessOverlapped /\ []AnsweredStaysFrozen
        /\ DoneIsFixed /\ ScalarScoreWrittenOnce
BY PathsAreEach, LocksKept, GuessesWaitOutLocks, DeadLinksNeverOpen, DeadlinesStay,
   InvitesAllOrNothing, CompletionsOnce, GrantsAreEarned, GrantsOncePerUser,
   PagesAreDerived, RegradesRestore, TotalsStayFresh, AnsweredAlwaysFrozen,
   DoneStaysFixed, ScalarScoresWrittenOnce, PTL
=============================================================================

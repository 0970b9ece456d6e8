----------------------- MODULE ProgramMutator_proofs -----------------------
(***************************************************************************)
(* What any sequence of mutations leaves of a program, for any registers,  *)
(* instructions, data sources and length of programs, and what the marks   *)
(* of introns and the comparison of two programs mean for their results.   *)
(***************************************************************************)
EXTENDS ProgramMutator, FiniteSetTheorems, WellFoundedInduction, SequenceTheorems, TLAPS

-----------------------------------------------------------------------------
(* Least elements.  They stand for induction: among the numbers at which something fails there
   would be a least one. *)

LEMMA LeastNatural ==
    ASSUME NEW T \in SUBSET Nat, T # {}
    PROVE  \E x \in T : \A y \in T : x <= y
<1> DEFINE R == OpToRel(<, Nat)
<1>1. IsWellFoundedOn(R, Nat)
  BY NatLessThanWellFounded
<1>2. \A x, y \in Nat : y < x => <<y, x>> \in R
  BY DEF OpToRel
<1> HIDE DEF R
<1>3. PICK x \in T : \A y \in T : ~ (<<y, x>> \in R)
  BY <1>1, WFMin
<1>4. ASSUME NEW y \in T PROVE x <= y
  <2>1. x \in Nat /\ y \in Nat /\ ~ (y < x)
    BY <1>2, <1>3
  <2> QED BY <2>1
<1> QED BY <1>4

(* Nothing fails if it fails neither at 0 nor first at a successor. *)
LEMMA NoFirstFailure ==
    ASSUME NEW n \in Nat, NEW T \in SUBSET (0 .. n), 0 \notin T,
           \A k \in 1 .. n : k \in T => k - 1 \in T
    PROVE  T = {}
<1> SUFFICES ASSUME T # {} PROVE FALSE
  OBVIOUS
<1>1. PICK x \in T : \A y \in T : x <= y
  <2>1. T \in SUBSET Nat
    OBVIOUS
  <2> QED BY <2>1, LeastNatural
<1>2. x \in 1 .. n
  OBVIOUS
<1>3. x - 1 \in T
  BY <1>2
<1> QED BY <1>1, <1>2, <1>3

(* The same from n downward *)
LEMMA NoLastFailure ==
    ASSUME NEW n \in Nat, NEW T \in SUBSET (0 .. n), n \notin T,
           \A k \in 1 .. n : k - 1 \in T => k \in T
    PROVE  T = {}
<1> DEFINE U == {n - k : k \in T}
<1>1. U \in SUBSET (0 .. n) /\ 0 \notin U
  OBVIOUS
<1>2. ASSUME NEW j \in 1 .. n, j \in U PROVE j - 1 \in U
  <2>1. PICK k \in T : j = n - k
    BY <1>2
  <2>2. k + 1 \in 1 .. n /\ (k + 1) - 1 = k
    BY <2>1
  <2>3. k + 1 \in T
    BY <2>2
  <2>4. j - 1 = n - (k + 1)
    BY <2>1
  <2> QED BY <2>3, <2>4
<1> HIDE DEF U
<1>3. U = {}
  BY <1>1, <1>2, NoFirstFailure
<1> QED BY <1>3 DEF U

LEMMA LastOfInterval ==
    ASSUME NEW n \in Nat \ {0}
    PROVE  Max(1 .. n) = n /\ (1 .. n) \ {n} = 1 .. (n - 1)
<1>1. n \in 1 .. n /\ \A m \in 1 .. n : n >= m
  OBVIOUS
<1>2. \A x \in 1 .. n : (\A m \in 1 .. n : x >= m) => x = n
  OBVIOUS
<1>3. Max(1 .. n) = n
  BY <1>1, <1>2 DEF Max
<1> QED BY <1>3

LEMMA FirstOfInterval ==
    ASSUME NEW n \in Nat, NEW k \in 1 .. n
    PROVE  Min(k .. n) = k /\ (k .. n) \ {k} = (k + 1) .. n
<1>1. k \in k .. n /\ \A m \in k .. n : k <= m
  OBVIOUS
<1>2. \A x \in k .. n : (\A m \in k .. n : x <= m) => x = k
  OBVIOUS
<1>3. Min(k .. n) = k
  BY <1>1, <1>2 DEF Min
<1> QED BY <1>3

LEMMA LastOfSubset ==
    ASSUME NEW n \in Nat, NEW s \in SUBSET (1 .. n), s # {}
    PROVE  Max(s) \in s
<1> DEFINE T == {n - i : i \in s}
<1>1. T \in SUBSET Nat /\ T # {}
  <2>1. \A i \in s : n - i \in Nat
    OBVIOUS
  <2> QED BY <2>1
<1>2. PICK x \in T : \A y \in T : x <= y
  BY <1>1, LeastNatural
<1>3. PICK last \in s : x = n - last
  BY <1>2
<1>4. \A i \in s : last >= i
  BY <1>2, <1>3
<1> QED BY <1>4 DEF Max

LEMMA FirstOfSubset ==
    ASSUME NEW n \in Nat, NEW s \in SUBSET (1 .. n), s # {}
    PROVE  Min(s) \in s
<1>1. s \in SUBSET Nat
  OBVIOUS
<1>2. PICK x \in s : \A y \in s : x <= y
  BY <1>1, LeastNatural
<1> QED BY <1>2 DEF Min

LEMMA Finite ==
    ASSUME NEW n \in Nat, NEW s \in SUBSET (1 .. n)
    PROVE  /\ IsFiniteSet(s) /\ Cardinality(s) \in 0 .. n
           /\ \A x \in s : Cardinality(s \ {x}) = Cardinality(s) - 1
           /\ Cardinality(s) = 0 => s = {}
<1>1. IsFiniteSet(1 .. n) /\ Cardinality(1 .. n) = n
  <2>1. IsFiniteSet(1 .. n) /\ Cardinality(1 .. n) = IF 1 > n THEN 0 ELSE n - 1 + 1
    BY FS_Interval
  <2> QED BY <2>1
<1>2. IsFiniteSet(s) /\ Cardinality(s) <= n
  BY <1>1, FS_Subset
<1>3. Cardinality(s) \in Nat /\ (Cardinality(s) = 0 => s = {})
  BY <1>2, FS_CardinalityType, FS_EmptySet
<1>4. \A x \in s : Cardinality(s \ {x}) = Cardinality(s) - 1
  BY <1>2, FS_RemoveElement
<1> QED BY <1>2, <1>3, <1>4

-----------------------------------------------------------------------------
(* Folds.  The definition of a fold is a choice among the functions that satisfy a recursive
   equation on sets of indexes: there is one. *)

FoldValue(v, pick, base, H, s) ==
    IF s = {} THEN base ELSE H[pick[s]][v[s \ {pick[s]}]]

IsFold(v, n, pick, base, H) == \A s \in SUBSET (1 .. n) : v[s] = FoldValue(v, pick, base, H, s)

LEMMA FoldExists ==
    ASSUME NEW n \in Nat, NEW pick, \A s \in (SUBSET (1 .. n)) \ {{}} : pick[s] \in s,
           NEW X, NEW base \in X, NEW H \in [1 .. n -> [X -> X]]
    PROVE  \E v \in [SUBSET (1 .. n) -> X] : IsFold(v, n, pick, base, H)
<1> DEFINE S == SUBSET (1 .. n)
           Up(v, k) == \A s \in S : Cardinality(s) <= k => v[s] = FoldValue(v, pick, base, H, s)
           Reached(k) == \E v \in [S -> X] : Up(v, k)
           T == {k \in 0 .. n : ~ Reached(k)}
<1>1. Reached(0)
  <2> DEFINE v == [s \in S |-> base]
  <2>1. v \in [S -> X]
    OBVIOUS
  <2>2. ASSUME NEW s \in S, Cardinality(s) <= 0 PROVE v[s] = FoldValue(v, pick, base, H, s)
    <3>1. s = {}
      BY <2>2, Finite
    <3> QED BY <3>1 DEF FoldValue
  <2>3. Up(v, 0)
    BY <2>2
  <2> QED BY <2>1, <2>3
<1>2. ASSUME NEW k \in 1 .. n, Reached(k - 1) PROVE Reached(k)
  <2>0. PICK v \in [S -> X] : Up(v, k - 1)
    BY <1>2
  <2> DEFINE w == [s \in S |-> IF Cardinality(s) = k THEN FoldValue(v, pick, base, H, s) ELSE v[s]]
  <2>1. ASSUME NEW s \in S, s # {}
        PROVE  /\ pick[s] \in 1 .. n /\ s \ {pick[s]} \in S
               /\ Cardinality(s \ {pick[s]}) = Cardinality(s) - 1 /\ Cardinality(s) \in 0 .. n
    <3>1. pick[s] \in s
      BY <2>1
    <3> QED BY <3>1, Finite
  <2>2. ASSUME NEW s \in S PROVE FoldValue(v, pick, base, H, s) \in X
    <3>1. CASE s = {}
      BY <3>1 DEF FoldValue
    <3>2. CASE s # {}
      <4>1. v[s \ {pick[s]}] \in X /\ H[pick[s]] \in [X -> X]
        BY <2>1, <3>2
      <4>2. H[pick[s]][v[s \ {pick[s]}]] \in X
        BY <4>1
      <4> QED BY <3>2, <4>2 DEF FoldValue
    <3> QED BY <3>1, <3>2
  <2>3. w \in [S -> X]
    BY <2>2
  <2>4. ASSUME NEW s \in S, Cardinality(s) <= k
        PROVE  w[s] = FoldValue(w, pick, base, H, s)
    <3>1. Cardinality(s) \in 0 .. n
      BY Finite
    <3>2. w[s] = FoldValue(v, pick, base, H, s)
      <4>1. CASE Cardinality(s) = k
        BY <4>1
      <4>2. CASE Cardinality(s) <= k - 1
        <5>1. Cardinality(s) # k
          BY <3>1, <4>2
        <5> QED BY <2>0, <4>2, <5>1
      <4> QED BY <2>4, <3>1, <4>1, <4>2
    <3>3. s # {} => w[s \ {pick[s]}] = v[s \ {pick[s]}]
      <4> SUFFICES ASSUME s # {} PROVE w[s \ {pick[s]}] = v[s \ {pick[s]}]
        OBVIOUS
      <4>1. Cardinality(s \ {pick[s]}) # k
        BY <2>1, <2>4
      <4> QED BY <2>1, <4>1
    <3> QED BY <3>2, <3>3 DEF FoldValue
  <2>5. Up(w, k)
    BY <2>4
  <2> QED BY <2>3, <2>5
<1>3. Reached(n)
  <2> HIDE DEF Reached
  <2>1. T \in SUBSET (0 .. n) /\ 0 \notin T
    BY <1>1
  <2>2. ASSUME NEW k \in 1 .. n, k \in T PROVE k - 1 \in T
    BY <1>2, <2>2
  <2>3. T = {}
    <3> HIDE DEF T
    <3> QED BY <2>1, <2>2, NoFirstFailure
  <2>4. n \in 0 .. n
    OBVIOUS
  <2> QED BY <2>3, <2>4
<1>5. PICK v \in [S -> X] : Up(v, n)
  BY <1>3
<1>6. ASSUME NEW s \in S PROVE v[s] = FoldValue(v, pick, base, H, s)
  <2>1. Cardinality(s) <= n
    BY Finite
  <2> QED BY <1>5, <2>1
<1> QED BY <1>6 DEF IsFold

-----------------------------------------------------------------------------
(* The elements of a sequence that are in a set: one is added after the other, *)

SelectStep(kept, x, S) == IF x \in S THEN Append(kept, x) ELSE kept

IsSelection(c, q, S) ==
    /\ c[0] = <<>>
    /\ \A i \in 1 .. Len(q) : c[i] = SelectStep(c[i - 1], q[i], S)

LEMMA SelectScan ==
    ASSUME NEW T, NEW q \in Seq(T), NEW S
    PROVE  \E c \in [0 .. Len(q) -> Seq(T \cap S)] : IsSelection(c, q, S) /\ SelectIn(q, S) = c[Len(q)]
<1> DEFINE n == Len(q)
           X == Seq(T \cap S)
           Step(g) == [s \in SUBSET DOMAIN q |->
                         IF s = {} THEN <<>> ELSE IF q[Max(s)] \in S THEN Append(g[s \ {Max(s)}], q[Max(s)])
                                                  ELSE g[s \ {Max(s)}]]
           f == CHOOSE g : g = Step(g)
           pick == [s \in SUBSET (1 .. n) |-> Max(s)]
           H == [i \in 1 .. n |-> [x \in X |-> SelectStep(x, q[i], S)]]
<1>1. SelectIn(q, S) = f[DOMAIN q]
  BY DEF SelectIn, FoldLeft, MapThenFoldSet
<1>2. n \in Nat /\ DOMAIN q = 1 .. n
  BY LenProperties
<1>3. \A i \in 1 .. n : q[i] \in T
  BY <1>2, ElementOfSeq
<1>4. <<>> \in X
  BY EmptySeq
<1>5. H \in [1 .. n -> [X -> X]]
  <2>1. ASSUME NEW i \in 1 .. n, NEW x \in X PROVE SelectStep(x, q[i], S) \in X
    BY <1>3, AppendProperties DEF SelectStep
  <2> HIDE DEF X
  <2> QED BY <2>1
<1>6. \A s \in (SUBSET (1 .. n)) \ {{}} : pick[s] \in s
  BY <1>2, LastOfSubset
<1> HIDE DEF X, H, pick
<1>7. PICK v \in [SUBSET (1 .. n) -> X] : IsFold(v, n, pick, <<>>, H)
  BY <1>2, <1>4, <1>5, <1>6, FoldExists
<1>8. ASSUME NEW s \in SUBSET (1 .. n)
      PROVE  v[s] = IF s = {} THEN <<>> ELSE IF q[Max(s)] \in S THEN Append(v[s \ {Max(s)}], q[Max(s)])
                                                  ELSE v[s \ {Max(s)}]
  <2>1. v[s] = FoldValue(v, pick, <<>>, H, s)
    BY <1>7 DEF IsFold
  <2>2. CASE s = {}
    BY <2>1, <2>2 DEF FoldValue
  <2>3. CASE s # {}
    <3>1. pick[s] = Max(s) /\ Max(s) \in 1 .. n
      BY <1>6, <2>3 DEF pick
    <3>2. s \ {Max(s)} \in SUBSET (1 .. n)
      OBVIOUS
    <3>3. v[s \ {Max(s)}] \in X
      BY <3>2
    <3>4. H[Max(s)][v[s \ {Max(s)}]] = SelectStep(v[s \ {Max(s)}], q[Max(s)], S)
      BY <3>1, <3>3 DEF H
    <3> QED BY <2>1, <2>3, <3>1, <3>4 DEF FoldValue, SelectStep
  <2> QED BY <2>2, <2>3
<1>9. v = Step(v)
  BY <1>2, <1>8
<1>10. f = Step(f)
  BY <1>9
<1> HIDE DEF f
<1>11. ASSUME NEW s \in SUBSET (1 .. n)
       PROVE  f[s] = IF s = {} THEN <<>> ELSE SelectStep(f[s \ {Max(s)}], q[Max(s)], S)
  BY <1>2, <1>10 DEF SelectStep
<1> DEFINE c == [i \in 0 .. n |-> f[1 .. i]]
<1>12. ASSUME NEW i \in 1 .. n PROVE f[1 .. i] = SelectStep(f[1 .. (i - 1)], q[i], S)
  <2>1. (1 .. i) \in SUBSET (1 .. n) /\ (1 .. i) # {}
    BY <1>2
  <2>2. Max(1 .. i) = i /\ (1 .. i) \ {i} = 1 .. (i - 1)
    BY <1>2, LastOfInterval
  <2> QED BY <1>11, <2>1, <2>2
<1>13. c[0] = <<>> /\ \A i \in 1 .. n : c[i] = SelectStep(c[i - 1], q[i], S)
  <2>1. f[1 .. 0] = <<>>
    <3>1. 1 .. 0 = {}
      OBVIOUS
    <3> QED BY <1>11, <3>1
  <2>2. \A i \in 1 .. n : i \in 0 .. n /\ i - 1 \in 0 .. n
    BY <1>2
  <2>3. 0 \in 0 .. n
    BY <1>2
  <2> QED BY <1>12, <2>1, <2>2, <2>3
<1>14. \A i \in 0 .. n : c[i] \in X
  <2> DEFINE B == {i \in 0 .. n : c[i] \notin X}
  <2> HIDE DEF c
  <2>1. 0 \notin B
    BY <1>4, <1>13
  <2>2. ASSUME NEW i \in 1 .. n, i \in B PROVE i - 1 \in B
    <3> SUFFICES ASSUME c[i - 1] \in X PROVE FALSE
      BY <1>2
    <3>1. c[i] = H[i][c[i - 1]]
      BY <1>13 DEF H
    <3>2. c[i] \in X
      BY <1>5, <3>1
    <3> QED BY <2>2, <3>2
  <2>3. B \in SUBSET (0 .. n)
    OBVIOUS
  <2>4. B = {}
    <3> HIDE DEF B
    <3> QED BY <1>2, <2>1, <2>2, <2>3, NoFirstFailure
  <2> QED BY <2>4
<1>15. c \in [0 .. n -> X]
  BY <1>14
<1>16. SelectIn(q, S) = c[n]
  BY <1>1, <1>2
<1> HIDE DEF c
<1> QED BY <1>13, <1>15, <1>16 DEF IsSelection, X

(* so that each selected element has a place after those selected before. *)
HasPlaces(k, sel, q, S) ==
    /\ k[0] = 0 /\ k[Len(q)] = Len(sel)
    /\ \A i \in 1 .. Len(q) :
          IF q[i] \in S THEN k[i] = k[i - 1] + 1 /\ k[i] \in DOMAIN sel /\ sel[k[i]] = q[i]
                        ELSE k[i] = k[i - 1]

LEMMA SelectPlaces ==
    ASSUME NEW T, NEW q \in Seq(T), NEW S
    PROVE  /\ SelectIn(q, S) \in Seq(T \cap S)
           /\ \E k \in [0 .. Len(q) -> Nat] : HasPlaces(k, SelectIn(q, S), q, S)
<1> DEFINE n == Len(q)
           X == T \cap S
           sel == SelectIn(q, S)
<1>1. PICK c \in [0 .. n -> Seq(X)] : IsSelection(c, q, S) /\ sel = c[n]
  BY SelectScan
<1>2. n \in Nat
  BY LenProperties
<1> DEFINE k == [i \in 0 .. n |-> Len(c[i])]
<1>3. ASSUME NEW i \in 0 .. n PROVE c[i] \in Seq(X) /\ k[i] \in Nat /\ k[i] = Len(c[i]) /\ DOMAIN c[i] = 1 .. k[i]
  BY LenProperties
<1>4. k \in [0 .. n -> Nat]
  BY <1>3
<1> HIDE DEF k, sel
<1>5. ASSUME NEW i \in 1 .. n PROVE c[i] = SelectStep(c[i - 1], q[i], S) /\ i - 1 \in 0 .. n /\ i \in 0 .. n
  BY <1>1, <1>2 DEF IsSelection
<1>6. ASSUME NEW i \in 1 .. n, q[i] \in S
      PROVE  /\ k[i] = k[i - 1] + 1 /\ c[i][k[i]] = q[i]
             /\ \A m \in 1 .. k[i - 1] : c[i][m] = c[i - 1][m]
  <2>1. c[i] = Append(c[i - 1], q[i]) /\ c[i - 1] \in Seq(X)
    BY <1>3, <1>5, <1>6 DEF SelectStep
  <2>2. q[i] \in X
    BY <1>2, <1>6, ElementOfSeq
  <2> HIDE DEF X
  <2>3. /\ Len(c[i]) = Len(c[i - 1]) + 1 /\ c[i][Len(c[i - 1]) + 1] = q[i]
        /\ \A m \in 1 .. Len(c[i - 1]) : c[i][m] = c[i - 1][m]
    BY <2>1, <2>2, AppendProperties
  <2> QED BY <1>3, <1>5, <2>3
<1>7. ASSUME NEW i \in 1 .. n, q[i] \notin S PROVE c[i] = c[i - 1] /\ k[i] = k[i - 1]
  <2>1. c[i] = c[i - 1]
    BY <1>5, <1>7 DEF SelectStep
  <2> QED BY <1>3, <1>5, <2>1
<1> DEFINE Placed(j, i) == k[i] <= k[j] /\ (q[i] \in S => k[i] >= 1 /\ c[j][k[i]] = q[i])
           B == {j \in 0 .. n : ~ \A i \in 1 .. j : Placed(j, i)}
<1>8. ASSUME NEW j \in 1 .. n, \A i \in 1 .. (j - 1) : Placed(j - 1, i) PROVE \A i \in 1 .. j : Placed(j, i)
  <2> SUFFICES ASSUME NEW i \in 1 .. j PROVE Placed(j, i)
    OBVIOUS
  <2>1. i \in 1 .. n /\ k[i] \in Nat /\ k[j] \in Nat /\ k[j - 1] \in Nat
    BY <1>2, <1>3, <1>5
  <2>2. CASE i = j
    BY <1>3, <1>5, <1>6, <2>1, <2>2
  <2>3. CASE i # j
    <3>1. i \in 1 .. (j - 1)
      BY <1>2, <2>3
    <3>2. Placed(j - 1, i)
      BY <1>8, <3>1
    <3>3. CASE q[j] \in S
      <4>1. k[j] = k[j - 1] + 1 /\ \A m \in 1 .. k[j - 1] : c[j][m] = c[j - 1][m]
        BY <1>6, <3>3
      <4>2. k[i] <= k[j]
        BY <2>1, <3>2, <4>1
      <4>3. ASSUME q[i] \in S PROVE k[i] >= 1 /\ c[j][k[i]] = q[i]
        <5>1. k[i] \in 1 .. k[j - 1] /\ c[j - 1][k[i]] = q[i]
          BY <2>1, <3>2, <4>3
        <5> QED BY <4>1, <5>1
      <4> QED BY <4>2, <4>3
    <3>4. CASE q[j] \notin S
      BY <1>7, <2>1, <3>2, <3>4
    <3> QED BY <3>3, <3>4
  <2> QED BY <2>2, <2>3
<1> HIDE DEF Placed
<1>9. B = {}
  <2>1. 0 \notin B /\ B \in SUBSET (0 .. n)
    OBVIOUS
  <2>2. ASSUME NEW j \in 1 .. n, j \in B PROVE j - 1 \in B
    BY <1>5, <1>8, <2>2
  <2> HIDE DEF B
  <2> QED BY <1>2, <2>1, <2>2, NoFirstFailure
<1>10. ASSUME NEW i \in 1 .. n PROVE Placed(n, i)
  BY <1>2, <1>9
<1>11. k[0] = 0 /\ k[n] = Len(sel)
  <2>1. c[0] = <<>> /\ 0 \in 0 .. n /\ n \in 0 .. n
    BY <1>1, <1>2 DEF IsSelection
  <2>2. Len(c[0]) = 0
    BY <2>1
  <2> QED BY <1>1, <1>3, <2>1, <2>2
<1>12. ASSUME NEW i \in 1 .. n, q[i] \in S PROVE k[i] \in DOMAIN sel /\ sel[k[i]] = q[i]
  <2>1. n \in 0 .. n /\ DOMAIN sel = 1 .. k[n] /\ sel = c[n]
    BY <1>1, <1>2, <1>3
  <2> QED BY <1>3, <1>5, <1>10, <1>12, <2>1 DEF Placed
<1>13. HasPlaces(k, sel, q, S)
  BY <1>6, <1>7, <1>11, <1>12 DEF HasPlaces
<1>14. sel \in Seq(X)
  BY <1>1, <1>2
<1> QED BY <1>4, <1>13, <1>14 DEF sel

-----------------------------------------------------------------------------
(* The instructions kept, and the largest number of operands. *)

LEMMA InstructionsType == Instructions \in Seq(Seq(DataType))
<1> DEFINE S == {types \in ToSet(InstructionSet) :
                   \A n \in DOMAIN types : \E s \in DataSource : CanHandle(Handler(s), types[n])}
           T == Seq(DataType)
<1>1. InstructionSet \in Seq(T)
  BY EnvironmentAssumption
<1>2. Instructions = SelectIn(InstructionSet, S)
  BY DEF Instructions, FilterInstructionSet
<1> HIDE DEF S, T
<1>3. Instructions \in Seq(T \cap S)
  BY <1>1, <1>2, SelectPlaces
<1>4. Instructions \in Seq(T)
  BY <1>3
<1> QED BY <1>4 DEF T

LEMMA OperandNumbers ==
    /\ MaxNbOperands \in Nat
    /\ \A i \in DOMAIN Instructions :
          Len(Instructions[i]) \in Nat /\ Len(Instructions[i]) <= MaxNbOperands
<1> DEFINE n == Len(Instructions)
           Size(i) == Len(Instructions[i])
           Longest(k) == \E m \in 1 .. k : \A i \in 1 .. k : Size(i) <= Size(m)
           B == {k \in 0 .. n : k # 0 /\ ~ Longest(k)}
<1>1. n \in Nat /\ DOMAIN Instructions = 1 .. n
  BY InstructionsType, LenProperties
<1>2. n # 0
  BY <1>1, EnvironmentAssumption
<1>3. ASSUME NEW i \in 1 .. n PROVE Size(i) \in Nat
  <2>1. Instructions[i] \in Seq(DataType)
    BY <1>1, <1>3, InstructionsType, ElementOfSeq
  <2> QED BY <2>1, LenProperties
<1> HIDE DEF n, Size
<1>4. ASSUME NEW k \in 1 .. n, k = 1 \/ Longest(k - 1) PROVE Longest(k)
  <2>1. CASE k = 1
    <3>1. 1 \in 1 .. k /\ \A i \in 1 .. k : Size(i) <= Size(1)
      BY <1>1, <1>3, <2>1
    <3> QED BY <3>1
  <2>2. CASE k # 1
    <3>1. PICK m \in 1 .. (k - 1) : \A i \in 1 .. (k - 1) : Size(i) <= Size(m)
      BY <1>4, <2>2
    <3>2. \A i \in 1 .. k : Size(i) \in Nat
      BY <1>1, <1>3
    <3>3. CASE Size(k) <= Size(m)
      <4>1. \A i \in 1 .. k : i = k \/ i \in 1 .. (k - 1)
        BY <1>1
      <4>2. \A i \in 1 .. k : Size(i) <= Size(m)
        BY <3>1, <3>3, <4>1
      <4>3. m \in 1 .. k
        BY <1>1
      <4> QED BY <4>2, <4>3
    <3>4. CASE ~ (Size(k) <= Size(m))
      <4>1. \A i \in 1 .. k : i = k \/ i \in 1 .. (k - 1)
        BY <1>1
      <4>2. k \in 1 .. k /\ m \in 1 .. k
        BY <1>1
      <4>3. ASSUME NEW i \in 1 .. k PROVE Size(i) <= Size(k)
        <5>1. Size(i) \in Nat /\ Size(k) \in Nat /\ Size(m) \in Nat
          BY <3>2, <4>2
        <5>2. CASE i = k
          BY <5>1, <5>2
        <5>3. CASE i \in 1 .. (k - 1)
          <6>1. Size(i) <= Size(m)
            BY <3>1, <5>3
          <6> QED BY <3>4, <5>1, <6>1
        <5> QED BY <4>1, <5>2, <5>3
      <4> QED BY <4>2, <4>3
    <3> QED BY <3>3, <3>4
  <2> QED BY <2>1, <2>2
<1> HIDE DEF Longest
<1>5. B = {}
  <2>1. 0 \notin B /\ B \in SUBSET (0 .. n)
    OBVIOUS
  <2>2. ASSUME NEW k \in 1 .. n, k \in B PROVE k - 1 \in B
    <3>1. k # 1 /\ ~ Longest(k - 1)
      BY <1>4, <2>2
    <3>2. k - 1 \in 0 .. n /\ k - 1 # 0
      BY <1>1, <3>1
    <3> QED BY <3>1, <3>2
  <2> HIDE DEF B
  <2> QED BY <1>1, <2>1, <2>2, NoFirstFailure
<1>6. Longest(n)
  BY <1>1, <1>2, <1>5
<1>7. PICK m \in 1 .. n : \A i \in 1 .. n : Size(i) <= Size(m)
  BY <1>6 DEF Longest
<1> DEFINE L == {Size(i) : i \in 1 .. n}
<1>8. MaxNbOperands = Max(L)
  BY <1>1 DEF MaxNbOperands, Size
<1>9. Max(L) \in L /\ \A x \in L : Max(L) >= x
  <2>1. Size(m) \in L /\ \A x \in L : Size(m) >= x
    BY <1>3, <1>7
  <2> HIDE DEF L
  <2> QED BY <2>1 DEF Max
<1>10. \A i \in 1 .. n : Size(i) \in L
  OBVIOUS
<1>11. L \in SUBSET Nat
  BY <1>3
<1> HIDE DEF L
<1>12. MaxNbOperands \in Nat
  BY <1>8, <1>9, <1>11
<1>13. \A i \in 1 .. n : Size(i) \in Nat /\ Size(i) <= MaxNbOperands
  BY <1>8, <1>9, <1>10, <1>11, <1>12
<1> QED BY <1>1, <1>12, <1>13 DEF Size

-----------------------------------------------------------------------------
(* Lines that can be executed. *)

GoodLine == {line \in Line : LineCorrect(line)}

GoodMarkedLine == [line : GoodLine, intron : BOOLEAN]

(* What is known of an operand that is taken *)
LEMMA OperandTaken ==
    ASSUME NEW line \in GoodLine, NEW n \in 1 .. NbOperands(line)
    PROVE  /\ line.ops[n].src \in DataSource
           /\ line.ops[n].loc \in Nat
           /\ OperandType(line, n) \in DataType
           /\ CanHandle(Handler(line.ops[n].src), OperandType(line, n))
<1>1. line \in Line /\ LineCorrect(line)
  BY DEF GoodLine
<1>2. line.instr \in DOMAIN Instructions /\ line.ops \in [1 .. MaxNbOperands -> Operand]
  BY <1>1 DEF Line
<1>3. NbOperands(line) \in Nat /\ NbOperands(line) <= MaxNbOperands /\ MaxNbOperands \in Nat
  BY <1>2, OperandNumbers DEF NbOperands
<1>4. n \in 1 .. MaxNbOperands /\ n <= NbOperands(line)
  BY <1>3
<1>5. line.ops[n] \in Operand
  BY <1>2, <1>4
<1>6. Instructions[line.instr] \in Seq(DataType)
  BY <1>2, InstructionsType, LenProperties, ElementOfSeq
<1>7. OperandType(line, n) \in DataType
  BY <1>6, LenProperties, ElementOfSeq DEF OperandType, NbOperands
<1>8. line.ops[n].src \in SourcesFor(line, n)
  BY <1>1, <1>4 DEF LineCorrect
<1>9. line.ops[n].src \in DataSource /\ CanHandle(Handler(line.ops[n].src), OperandType(line, n))
  BY <1>4, <1>8 DEF SourcesFor
<1>10. line.ops[n].loc \in Nat
  <2>1. line.ops[n].loc \in DrawnLocation
    BY <1>5 DEF Operand
  <2>2. DrawnLocation \subseteq 0 .. LargestAddressSpace - 1
    BY EnvironmentAssumption
  <2>3. line.ops[n].loc \in 0 .. LargestAddressSpace - 1
    BY <2>1, <2>2
  <2> QED BY <2>3
<1> QED BY <1>7, <1>9, <1>10

LEMMA SmallRemainder ==
    ASSUME NEW a \in Nat, NEW b \in Nat \ {0}
    PROVE  /\ a % b \in 0 .. (b - 1)
           /\ a < b => a \div b = 0 /\ a % b = a
OBVIOUS

(* A block of one row is consecutive elements. *)
LEMMA BlockOfRow ==
    ASSUME NEW width \in Nat \ {0}, NEW type \in DataType, Height(type.dims) = 1,
           Width(type.dims) \in 1 .. width, NEW address \in 0 .. (width - Width(type.dims))
    PROVE  Block(width, type, address) = [i \in 1 .. Width(type.dims) |-> address + i - 1]
<1> DEFINE w == Width(type.dims)
           columns == width - w + 1
<1>1. address \div columns = 0 /\ address % columns = address
  <2>1. address \in Nat /\ columns \in Nat \ {0} /\ address < columns
    OBVIOUS
  <2> HIDE DEF columns
  <2> QED BY <2>1, SmallRemainder
<1>2. ASSUME NEW i \in 1 .. w PROVE (i - 1) \div w = 0 /\ (i - 1) % w = i - 1
  <2>1. i - 1 \in Nat /\ w \in Nat \ {0} /\ i - 1 < w
    OBVIOUS
  <2> HIDE DEF w
  <2> QED BY <2>1, SmallRemainder
<1> DEFINE first == (address \div columns) * width + (address % columns)
<1>3. first = address
  BY <1>1
<1>4. Block(width, type, address) =
        [i \in 1 .. Height(type.dims) * w |-> first + ((i - 1) \div w) * width + ((i - 1) % w)]
  BY DEF Block
<1> HIDE DEF first, w
<1>5. Height(type.dims) * w = w
  BY DEF w
<1>6. \A i \in 1 .. w : first + ((i - 1) \div w) * width + ((i - 1) % w) = address + i - 1
  BY <1>2, <1>3
<1> QED BY <1>4, <1>5, <1>6 DEF w

LEMMA DimsFacts ==
    ASSUME NEW type \in DataType
    PROVE  /\ type.dims \in Seq(Nat \ {0}) /\ Len(type.dims) \in Nat
           /\ Height(type.dims) \in Nat \ {0} /\ Width(type.dims) \in Nat \ {0}
           /\ Len(type.dims) <= 1 => Height(type.dims) = 1
           /\ type.dims = <<>> => Width(type.dims) = 1
<1>1. type.dims \in Seq(Nat \ {0})
  BY DEF DataType
<1>2. Len(type.dims) \in Nat /\ DOMAIN type.dims = 1 .. Len(type.dims)
  BY <1>1, LenProperties
<1>3. type.dims # <<>> => Len(type.dims) \in DOMAIN type.dims
  BY <1>1, <1>2, EmptySeq
<1>4. Width(type.dims) \in Nat \ {0}
  BY <1>1, <1>2, <1>3, ElementOfSeq DEF Width
<1>5. Height(type.dims) \in Nat \ {0}
  BY <1>1, <1>2, ElementOfSeq DEF Height
<1>6. ASSUME Len(type.dims) <= 1 PROVE Height(type.dims) = 1
  <2>1. Len(type.dims) # 2
    BY <1>2, <1>6
  <2> QED BY <2>1 DEF Height
<1>7. type.dims = <<>> => Width(type.dims) = 1
  BY DEF Width
<1> QED BY <1>1, <1>2, <1>4, <1>5, <1>6, <1>7

(* What a source of one row provides of a type *)
Row(native, size) == [native |-> native, dims |-> <<size>>]

RowAddress(h, type, loc, size) ==
    /\ h.native = type.native /\ Len(type.dims) <= 1 /\ Height(type.dims) = 1
    /\ Width(type.dims) \in 1 .. size
    /\ ScaleLocation(h, loc, type) \in 0 .. (size - Width(type.dims))
    /\ AddressSpace(h, type) = size - Width(type.dims) + 1
    /\ AddressesAccessed(h, type, ScaleLocation(h, loc, type))
         = [i \in 1 .. Width(type.dims) |-> ScaleLocation(h, loc, type) + i - 1]

LEMMA RowAddresses ==
    ASSUME NEW native, NEW size \in Nat \ {0}, NEW type \in DataType, NEW loc \in Nat,
           CanHandle(Row(native, size), type)
    PROVE  RowAddress(Row(native, size), type, loc, size)
<1> DEFINE h == Row(native, size)
           w == Width(type.dims)
           address == ScaleLocation(h, loc, type)
<1>1. Len(h.dims) = 1 /\ Height(h.dims) = 1 /\ Width(h.dims) = size /\ h.native = native
  BY DEF Height, Width, Row
<1>2. Height(type.dims) \in Nat \ {0} /\ w \in Nat \ {0} /\ Len(type.dims) \in Nat
  BY DimsFacts
<1>3. AddressSpace(h, type) > 0
  BY DEF CanHandle
<1>4. /\ h.native = type.native /\ ~ (Len(type.dims) > Len(h.dims))
      /\ ~ (Height(type.dims) > Height(h.dims)) /\ ~ (w > Width(h.dims))
      /\ AddressSpace(h, type) = (Height(h.dims) - Height(type.dims) + 1) * (Width(h.dims) - w + 1)
  BY <1>3 DEF AddressSpace
<1>5. Len(type.dims) <= 1 /\ Height(type.dims) = 1 /\ w \in 1 .. size
  BY <1>1, <1>2, <1>4, DimsFacts
<1>6. AddressSpace(h, type) = size - w + 1
  BY <1>1, <1>4, <1>5
<1>7. address \in 0 .. (size - w)
  <2>1. size - w + 1 \in Nat \ {0} /\ (size - w + 1) - 1 = size - w
    BY <1>5
  <2> QED BY <1>6, <2>1, SmallRemainder DEF ScaleLocation
<1>8. AddressesAccessed(h, type, address) = [i \in 1 .. w |-> address + i - 1]
  <2> HIDE DEF address
  <2>1. CASE type.dims = <<>>
    <3>1. w = 1
      BY <2>1, DimsFacts
    <3>2. AddressesAccessed(h, type, address) = <<address>>
      BY <2>1 DEF AddressesAccessed
    <3>3. <<address>> = [i \in 1 .. 1 |-> address + i - 1]
      BY <1>5, <1>7
    <3> QED BY <3>1, <3>2, <3>3
  <2>2. CASE type.dims # <<>>
    <3>1. AddressesAccessed(h, type, address) = Block(size, type, address)
      BY <1>1, <2>2 DEF AddressesAccessed
    <3> QED BY <1>5, <1>7, <3>1, BlockOfRow
  <2> QED BY <2>1, <2>2
<1> QED BY <1>4, <1>5, <1>6, <1>7, <1>8 DEF RowAddress

LEMMA SourcesFacts ==
    /\ NbRegisters \in Nat \ {0} /\ NbConstants \in Nat
    /\ Register = 0 .. NbRegisters - 1 /\ 0 \in Register
    /\ Handler(0) = Row("double", NbRegisters)
    /\ NbOwnSources \in {1, 2}
    /\ NbOwnSources = 2 <=> NbConstants > 0
    /\ 1 < NbOwnSources => Handler(1) = Row("Constant", NbConstants)
<1>1. NbRegisters \in Nat \ {0} /\ NbConstants \in Nat
  BY EnvironmentAssumption
<1>2. Register = 0 .. NbRegisters - 1 /\ 0 \in Register
  BY <1>1 DEF Register
<1>3. NbOwnSources \in {1, 2} /\ (NbOwnSources = 2 <=> NbConstants > 0)
  BY <1>1 DEF NbOwnSources
<1> QED BY <1>1, <1>2, <1>3 DEF Handler, Row

LEMMA ReadsRegisters ==
    ASSUME NEW line \in GoodLine
    PROVE  RegistersRead(line) \in SUBSET Register
<1> SUFFICES ASSUME NEW n \in 1 .. NbOperands(line), line.ops[n].src = 0,
                    NEW r \in ToSet(Accessed(line, n))
             PROVE  r \in Register
  BY DEF RegistersRead
<1> DEFINE type == OperandType(line, n)
           h == Row("double", NbRegisters)
           w == Width(type.dims)
           loc == line.ops[n].loc
           address == ScaleLocation(h, loc, type)
<1>1. line.ops[n].loc \in Nat /\ type \in DataType /\ CanHandle(h, type) /\ Handler(0) = h
  BY OperandTaken, SourcesFacts
<1>2. Accessed(line, n) = AddressesAccessed(h, type, address)
  BY <1>1 DEF Accessed, Location
<1>3. /\ w \in 1 .. NbRegisters
      /\ address \in 0 .. (NbRegisters - w)
      /\ AddressesAccessed(h, type, address) = [i \in 1 .. w |-> address + i - 1]
  <2>1. RowAddress(h, type, loc, NbRegisters)
    BY <1>1, SourcesFacts, RowAddresses
  <2> QED BY <2>1 DEF RowAddress
<1> HIDE DEF type, h, w, loc, address
<1>4. PICK i \in 1 .. w : r = address + i - 1
  BY <1>2, <1>3 DEF ToSet
<1> QED BY <1>3, <1>4, SourcesFacts

-----------------------------------------------------------------------------
(* The marks of a program are right: need[i] are the registers whose value the result depends
   on when line i was executed. *)

MarkedAt(need, lines, i) ==
    IF lines[i].line.dest \in need[i]
    THEN ~ lines[i].intron /\ need[i - 1] = UsefulBefore(lines[i].line, need[i])
    ELSE lines[i].intron /\ need[i - 1] = need[i]

Marking(need, lines) ==
    /\ need[Len(lines)] = {0}
    /\ \A i \in 1 .. Len(lines) : MarkedAt(need, lines, i)

IsMarked(lines) == \E need \in [0 .. Len(lines) -> SUBSET Register] : Marking(need, lines)

(* One step of the backward scan *)
Scan == [useful : SUBSET Register, lines : Seq(GoodMarkedLine)]

LEMMA MarkLineFacts ==
    ASSUME NEW m \in GoodMarkedLine, NEW x \in Scan
    PROVE  /\ MarkLine(m, x) \in Scan
           /\ MarkLine(m, x).useful = IF m.line.dest \in x.useful THEN UsefulBefore(m.line, x.useful)
                                                                   ELSE x.useful
           /\ MarkLine(m, x).lines =
                <<[line |-> m.line, intron |-> m.line.dest \notin x.useful]>> \o x.lines
<1> DEFINE mark(b) == [line |-> m.line, intron |-> b]
<1>1. m.line \in GoodLine /\ m = [line |-> m.line, intron |-> m.intron]
  BY DEF GoodMarkedLine
<1>2. \A b \in BOOLEAN : [m EXCEPT !.intron = b] = mark(b) /\ mark(b) \in GoodMarkedLine
  BY <1>1 DEF GoodMarkedLine
<1>3. x.useful \in SUBSET Register /\ x.lines \in Seq(GoodMarkedLine)
  BY DEF Scan
<1>4. UsefulBefore(m.line, x.useful) \in SUBSET Register
  BY <1>1, <1>3, ReadsRegisters DEF UsefulBefore
<1> HIDE DEF mark
<1>5. \A b \in BOOLEAN : <<mark(b)>> \o x.lines \in Seq(GoodMarkedLine)
  BY <1>2, <1>3
<1>6. CASE m.line.dest \in x.useful
  <2>1. MarkLine(m, x) = [useful |-> UsefulBefore(m.line, x.useful), lines |-> <<mark(FALSE)>> \o x.lines]
    BY <1>2, <1>6 DEF MarkLine
  <2>2. (m.line.dest \notin x.useful) = FALSE
    BY <1>6
  <2>3. MarkLine(m, x) \in Scan
    <3>1. <<mark(FALSE)>> \o x.lines \in Seq(GoodMarkedLine)
      BY <1>5
    <3> DEFINE q == <<mark(FALSE)>> \o x.lines
               u == UsefulBefore(m.line, x.useful)
    <3>2. MarkLine(m, x) = [useful |-> u, lines |-> q]
      BY <2>1
    <3>3. q \in Seq(GoodMarkedLine) /\ u \in SUBSET Register
      BY <1>4, <3>1
    <3> HIDE DEF q, u
    <3> QED BY <3>2, <3>3 DEF Scan
  <2>4. MarkLine(m, x).useful = UsefulBefore(m.line, x.useful) /\ MarkLine(m, x).lines = <<mark(FALSE)>> \o x.lines
    BY <2>1
  <2> QED BY <1>6, <2>2, <2>3, <2>4 DEF mark
<1>7. CASE m.line.dest \notin x.useful
  <2>1. MarkLine(m, x) = [useful |-> x.useful, lines |-> <<mark(TRUE)>> \o x.lines]
    BY <1>2, <1>7 DEF MarkLine
  <2>2. (m.line.dest \notin x.useful) = TRUE
    BY <1>7
  <2>3. MarkLine(m, x) \in Scan
    <3>1. <<mark(TRUE)>> \o x.lines \in Seq(GoodMarkedLine)
      BY <1>5
    <3> DEFINE q == <<mark(TRUE)>> \o x.lines
    <3>2. MarkLine(m, x) = [useful |-> x.useful, lines |-> q]
      BY <2>1
    <3>3. q \in Seq(GoodMarkedLine)
      BY <3>1
    <3> HIDE DEF q
    <3> QED BY <1>3, <3>2, <3>3 DEF Scan
  <2>4. MarkLine(m, x).useful = x.useful /\ MarkLine(m, x).lines = <<mark(TRUE)>> \o x.lines
    BY <2>1
  <2> QED BY <1>7, <2>2, <2>3, <2>4 DEF mark
<1> QED BY <1>6, <1>7

(* All of them *)
IsScan(d, lines) ==
    /\ d[Len(lines)] = [useful |-> {0}, lines |-> <<>>]
    /\ \A i \in 1 .. Len(lines) : d[i - 1] = MarkLine(lines[i], d[i])

LEMMA IntronScan ==
    ASSUME NEW lines \in Seq(GoodMarkedLine)
    PROVE  \E d \in [0 .. Len(lines) -> Scan] : IsScan(d, lines) /\ IdentifyIntrons(lines) = d[0].lines
<1> DEFINE n == Len(lines)
           base == [useful |-> {0}, lines |-> <<>>]
           Step(g) == [s \in SUBSET DOMAIN lines |->
                         IF s = {} THEN base ELSE MarkLine(lines[Min(s)], g[s \ {Min(s)}])]
           f == CHOOSE g : g = Step(g)
           pick == [s \in SUBSET (1 .. n) |-> Min(s)]
           H == [i \in 1 .. n |-> [x \in Scan |-> MarkLine(lines[i], x)]]
<1>1. IdentifyIntrons(lines) = f[DOMAIN lines].lines
  BY DEF IdentifyIntrons, FoldRight, MapThenFoldSet
<1>2. n \in Nat /\ DOMAIN lines = 1 .. n
  BY LenProperties
<1>3. \A i \in 1 .. n : lines[i] \in GoodMarkedLine
  BY <1>2, ElementOfSeq
<1>4. base \in Scan
  <2>1. <<>> \in Seq(GoodMarkedLine) /\ {0} \in SUBSET Register
    BY EmptySeq, SourcesFacts
  <2> QED BY <2>1 DEF Scan
<1>5. H \in [1 .. n -> [Scan -> Scan]]
  <2>1. ASSUME NEW i \in 1 .. n, NEW x \in Scan PROVE MarkLine(lines[i], x) \in Scan
    BY <1>3, MarkLineFacts
  <2> QED BY <2>1
<1>6. \A s \in (SUBSET (1 .. n)) \ {{}} : pick[s] \in s
  BY <1>2, FirstOfSubset
<1> HIDE DEF H, pick, base
<1>7. PICK v \in [SUBSET (1 .. n) -> Scan] : IsFold(v, n, pick, base, H)
  BY <1>2, <1>4, <1>5, <1>6, FoldExists
<1>8. ASSUME NEW s \in SUBSET (1 .. n)
      PROVE  v[s] = IF s = {} THEN base ELSE MarkLine(lines[Min(s)], v[s \ {Min(s)}])
  <2>1. v[s] = FoldValue(v, pick, base, H, s)
    BY <1>7 DEF IsFold
  <2>2. CASE s = {}
    BY <2>1, <2>2 DEF FoldValue
  <2>3. CASE s # {}
    <3>1. pick[s] = Min(s) /\ Min(s) \in 1 .. n
      BY <1>6, <2>3 DEF pick
    <3>2. v[s \ {Min(s)}] \in Scan
      OBVIOUS
    <3>3. H[Min(s)][v[s \ {Min(s)}]] = MarkLine(lines[Min(s)], v[s \ {Min(s)}])
      BY <3>1, <3>2 DEF H
    <3> QED BY <2>1, <2>3, <3>1, <3>3 DEF FoldValue
  <2> QED BY <2>2, <2>3
<1>9. v = Step(v)
  BY <1>2, <1>8
<1>10. f = Step(f)
  BY <1>9
<1> HIDE DEF f
<1>11. ASSUME NEW s \in SUBSET (1 .. n)
       PROVE  f[s] = IF s = {} THEN base ELSE MarkLine(lines[Min(s)], f[s \ {Min(s)}])
  BY <1>2, <1>10
<1> DEFINE d == [i \in 0 .. n |-> f[(i + 1) .. n]]
<1>12. ASSUME NEW i \in 1 .. n PROVE f[i .. n] = MarkLine(lines[i], f[(i + 1) .. n])
  <2>1. (i .. n) \in SUBSET (1 .. n) /\ (i .. n) # {}
    BY <1>2
  <2>2. Min(i .. n) = i /\ (i .. n) \ {i} = (i + 1) .. n
    BY <1>2, FirstOfInterval
  <2> QED BY <1>11, <2>1, <2>2
<1>13. d[n] = base /\ \A i \in 1 .. n : d[i - 1] = MarkLine(lines[i], d[i])
  <2>1. f[(n + 1) .. n] = base
    <3>1. (n + 1) .. n = {}
      BY <1>2
    <3> QED BY <1>11, <3>1
  <2>2. \A i \in 1 .. n : i \in 0 .. n /\ i - 1 \in 0 .. n /\ (i - 1) + 1 = i
    BY <1>2
  <2>3. n \in 0 .. n
    BY <1>2
  <2> QED BY <1>12, <2>1, <2>2, <2>3
<1>14. d[0] = f[DOMAIN lines]
  <2>1. 0 \in 0 .. n /\ 0 + 1 = 1
    BY <1>2
  <2> QED BY <1>2, <2>1
<1> DEFINE B == {i \in 0 .. n : d[i] \notin Scan}
<1>15. B = {}
  <2> HIDE DEF d
  <2>1. n \notin B /\ B \in SUBSET (0 .. n)
    BY <1>4, <1>13
  <2>2. ASSUME NEW i \in 1 .. n, i - 1 \in B PROVE i \in B
    <3> SUFFICES ASSUME d[i] \in Scan PROVE d[i - 1] \in Scan
      BY <1>2, <2>2
    <3>1. lines[i] \in GoodMarkedLine /\ d[i - 1] = MarkLine(lines[i], d[i])
      BY <1>3, <1>13
    <3> QED BY <3>1, MarkLineFacts
  <2> HIDE DEF B
  <2> QED BY <1>2, <2>1, <2>2, NoLastFailure
<1>16. d \in [0 .. n -> Scan]
  BY <1>15
<1> HIDE DEF d
<1> QED BY <1>1, <1>13, <1>14, <1>16 DEF IsScan, base

LEMMA IntronsIdentified ==
    ASSUME NEW lines \in Seq(GoodMarkedLine)
    PROVE  /\ IdentifyIntrons(lines) \in Seq(GoodMarkedLine)
           /\ IsMarked(IdentifyIntrons(lines))
<1> DEFINE n == Len(lines)
           marked == IdentifyIntrons(lines)
<1>1. PICK d \in [0 .. n -> Scan] : IsScan(d, lines) /\ marked = d[0].lines
  BY IntronScan
<1>2. n \in Nat /\ \A i \in 1 .. n : lines[i] \in GoodMarkedLine
  BY LenProperties, ElementOfSeq
<1> DEFINE need == [i \in 0 .. n |-> d[i].useful]
           Mark(i) == [line |-> lines[i].line, intron |-> lines[i].line.dest \notin need[i]]
           Marks(i) == /\ Len(d[i].lines) = n - i
                       /\ \A j \in 1 .. (n - i) : d[i].lines[j] = Mark(i + j)
           B == {i \in 0 .. n : ~ Marks(i)}
<1>3. ASSUME NEW i \in 0 .. n PROVE d[i].lines \in Seq(GoodMarkedLine) /\ need[i] \in SUBSET Register
  BY DEF Scan
<1>4. ASSUME NEW i \in 1 .. n
      PROVE  /\ i - 1 \in 0 .. n /\ i \in 0 .. n
             /\ d[i - 1].lines = <<Mark(i)>> \o d[i].lines
             /\ need[i - 1] = IF lines[i].line.dest \in need[i] THEN UsefulBefore(lines[i].line, need[i])
                                                               ELSE need[i]
  <2>1. i - 1 \in 0 .. n /\ i \in 0 .. n
    BY <1>2
  <2>2. d[i - 1] = MarkLine(lines[i], d[i])
    BY <1>1 DEF IsScan
  <2>3. need[i - 1] = d[i - 1].useful /\ need[i] = d[i].useful
    BY <2>1
  <2>4. d[i] \in Scan /\ lines[i] \in GoodMarkedLine
    BY <1>2, <2>1
  <2>5. /\ d[i - 1].useful = IF lines[i].line.dest \in d[i].useful
                              THEN UsefulBefore(lines[i].line, d[i].useful) ELSE d[i].useful
        /\ d[i - 1].lines =
             <<[line |-> lines[i].line, intron |-> lines[i].line.dest \notin d[i].useful]>> \o d[i].lines
    <3> DEFINE m == lines[i]
               x == d[i]
    <3>1. m \in GoodMarkedLine /\ x \in Scan /\ d[i - 1] = MarkLine(m, x)
      BY <2>2, <2>4
    <3> HIDE DEF m, x
    <3>2. /\ d[i - 1].useful = IF m.line.dest \in x.useful THEN UsefulBefore(m.line, x.useful) ELSE x.useful
          /\ d[i - 1].lines = <<[line |-> m.line, intron |-> m.line.dest \notin x.useful]>> \o x.lines
      BY <3>1, MarkLineFacts
    <3> QED BY <3>2 DEF m, x
  <2> HIDE DEF need
  <2> QED BY <2>1, <2>3, <2>5
<1>5. d[n].lines = <<>> /\ need[n] = {0}
  <2>1. n \in 0 .. n
    BY <1>2
  <2> QED BY <1>1, <2>1 DEF IsScan
<1> HIDE DEF need, Mark
<1>6. ASSUME NEW i \in 1 .. n, Marks(i) PROVE Marks(i - 1)
  <2>1. d[i - 1].lines = <<Mark(i)>> \o d[i].lines /\ d[i].lines \in Seq(GoodMarkedLine)
    BY <1>3, <1>4
  <2> DEFINE q == d[i].lines
             e == Mark(i)
  <2>2. Len(q) = n - i /\ \A j \in 1 .. (n - i) : q[j] = Mark(i + j)
    BY <1>6
  <2> HIDE DEF q, e
  <2>3. /\ Len(<<e>> \o q) = 1 + Len(q) /\ (<<e>> \o q)[1] = e
        /\ \A j \in 2 .. 1 + Len(q) : (<<e>> \o q)[j] = q[j - 1]
    BY <2>1 DEF q
  <2>4. Len(d[i - 1].lines) = n - (i - 1)
    BY <1>2, <2>1, <2>2, <2>3 DEF q, e
  <2>5. ASSUME NEW j \in 1 .. (n - (i - 1)) PROVE d[i - 1].lines[j] = Mark((i - 1) + j)
    <3>1. CASE j = 1
      <4>1. (i - 1) + j = i
        BY <3>1
      <4> QED BY <2>1, <2>3, <3>1, <4>1 DEF q, e
    <3>2. CASE j # 1
      <4>1. j \in 2 .. 1 + Len(q) /\ j - 1 \in 1 .. (n - i) /\ (i - 1) + j = i + (j - 1)
        BY <1>2, <2>2, <3>2
      <4>2. d[i - 1].lines[j] = q[j - 1]
        BY <2>1, <2>3, <4>1 DEF q, e
      <4> QED BY <2>2, <4>1, <4>2
    <3> QED BY <3>1, <3>2
  <2> QED BY <2>4, <2>5
<1>7. Marks(n)
  <2>1. Len(d[n].lines) = 0 /\ n - n = 0
    BY <1>2, <1>5
  <2> QED BY <2>1
<1> HIDE DEF Marks
<1>8. B = {}
  <2>1. n \notin B /\ B \in SUBSET (0 .. n)
    BY <1>7
  <2>2. ASSUME NEW i \in 1 .. n, i - 1 \in B PROVE i \in B
    BY <1>4, <1>6, <2>2
  <2> HIDE DEF B
  <2> QED BY <1>2, <2>1, <2>2, NoLastFailure
<1>9. Marks(0) /\ marked \in Seq(GoodMarkedLine)
  <2>1. 0 \in 0 .. n
    BY <1>2
  <2> QED BY <1>1, <1>3, <1>8, <2>1
<1>10. Len(marked) = n /\ \A i \in 1 .. n : marked[i] = Mark(i)
  <2>1. n - 0 = n /\ \A i \in 1 .. n : 0 + i = i
    BY <1>2
  <2> QED BY <1>1, <1>9, <2>1 DEF Marks
<1> HIDE DEF marked
<1>11. Marking(need, marked)
  <2>1. ASSUME NEW i \in 1 .. n
        PROVE  marked[i].line = lines[i].line /\ (marked[i].intron <=> lines[i].line.dest \notin need[i])
    <3>1. marked[i] = Mark(i)
      BY <1>10
    <3>2. Mark(i).line = lines[i].line /\ (Mark(i).intron <=> lines[i].line.dest \notin need[i])
      BY DEF Mark
    <3> QED BY <3>1, <3>2
  <2> QED BY <1>4, <1>5, <1>10, <2>1 DEF Marking, MarkedAt
<1>12. need \in [0 .. n -> SUBSET Register]
  BY <1>3 DEF need
<1> QED BY <1>9, <1>10, <1>11, <1>12 DEF IsMarked, marked

-----------------------------------------------------------------------------
(* The lines that are not introns *)

UsefulAt(k, sel, lines) ==
    /\ k[0] = 0 /\ k[Len(lines)] = Len(sel)
    /\ \A i \in 1 .. Len(lines) :
          IF lines[i].intron THEN k[i] = k[i - 1]
          ELSE k[i] = k[i - 1] + 1 /\ k[i] \in DOMAIN sel /\ sel[k[i]] = lines[i]

LEMMA UsefulPlaces ==
    ASSUME NEW lines \in Seq(GoodMarkedLine)
    PROVE  /\ UsefulLines(lines) \in Seq(GoodMarkedLine)
           /\ \E k \in [0 .. Len(lines) -> Nat] : UsefulAt(k, UsefulLines(lines), lines)
<1> DEFINE S == {l \in ToSet(lines) : ~ l.intron}
           n == Len(lines)
           sel == UsefulLines(lines)
<1>1. sel = SelectIn(lines, S)
  BY DEF UsefulLines
<1>2. n \in Nat /\ DOMAIN lines = 1 .. n
  BY LenProperties
<1>3. ASSUME NEW i \in 1 .. n PROVE lines[i] \in S <=> ~ lines[i].intron
  BY <1>2 DEF ToSet
<1> HIDE DEF S, sel
<1>4. sel \in Seq(GoodMarkedLine \cap S)
  BY <1>1, SelectPlaces
<1>5. PICK k \in [0 .. n -> Nat] : HasPlaces(k, sel, lines, S)
  BY <1>1, SelectPlaces
<1>6. UsefulAt(k, sel, lines)
  BY <1>3, <1>5 DEF UsefulAt, HasPlaces
<1>7. sel \in Seq(GoodMarkedLine)
  BY <1>4
<1> QED BY <1>5, <1>6, <1>7 DEF sel

(* Removing the introns leaves right marks. *)
LEMMA UsefulAreMarked ==
    ASSUME NEW lines \in Seq(GoodMarkedLine), IsMarked(lines)
    PROVE  IsMarked(UsefulLines(lines))
<1> DEFINE n == Len(lines)
           sel == UsefulLines(lines)
           m == Len(sel)
<1>1. sel \in Seq(GoodMarkedLine)
  BY UsefulPlaces
<1>2. PICK k \in [0 .. n -> Nat] : UsefulAt(k, sel, lines)
  BY UsefulPlaces
<1>3. PICK need \in [0 .. n -> SUBSET Register] : Marking(need, lines)
  BY DEF IsMarked
<1>4. n \in Nat
  BY LenProperties
<1> HIDE DEF sel
<1>5. m \in Nat /\ DOMAIN sel = 1 .. m
  BY <1>1, LenProperties
<1>6. k[0] = 0 /\ k[n] = m
  BY <1>2 DEF UsefulAt
<1>7. ASSUME NEW i \in 1 .. n
      PROVE  /\ i \in 0 .. n /\ i - 1 \in 0 .. n /\ k[i] \in Nat /\ k[i - 1] \in Nat
             /\ lines[i].intron => k[i] = k[i - 1]
             /\ ~ lines[i].intron => k[i] = k[i - 1] + 1 /\ k[i] \in 1 .. m /\ sel[k[i]] = lines[i]
             /\ MarkedAt(need, lines, i)
  <2>1. i \in 0 .. n /\ i - 1 \in 0 .. n
    BY <1>4
  <2>2. MarkedAt(need, lines, i)
    BY <1>3 DEF Marking
  <2>3. IF lines[i].intron THEN k[i] = k[i - 1]
        ELSE k[i] = k[i - 1] + 1 /\ k[i] \in DOMAIN sel /\ sel[k[i]] = lines[i]
    BY <1>2 DEF UsefulAt
  <2> QED BY <1>5, <2>1, <2>2, <2>3
<1> DEFINE Fits(u, i) == /\ u[k[i]] = need[i] /\ u[m] = {0}
                         /\ \A j \in (k[i] + 1) .. m : MarkedAt(u, sel, j)
           Reached(i) == k[i] <= m /\ \E u \in [k[i] .. m -> SUBSET Register] : Fits(u, i)
           B == {i \in 0 .. n : ~ Reached(i)}
<1> HIDE DEF m
<1>8. Reached(n)
  <2> DEFINE u == [j \in k[n] .. m |-> {0}]
  <2>1. need[n] = {0}
    BY <1>3 DEF Marking
  <2>2. m \in k[n] .. m /\ k[n] \in k[n] .. m
    BY <1>5, <1>6
  <2>3. u \in [k[n] .. m -> SUBSET Register]
    BY SourcesFacts
  <2>4. Fits(u, n)
    BY <1>5, <1>6, <2>1, <2>2
  <2> QED BY <1>5, <1>6, <2>3, <2>4
<1>9. ASSUME NEW i \in 1 .. n, Reached(i) PROVE Reached(i - 1)
  <2>1. PICK u \in [k[i] .. m -> SUBSET Register] : Fits(u, i)
    BY <1>9
  <2>2. CASE lines[i].intron
    <3>1. k[i] = k[i - 1] /\ need[i - 1] = need[i]
      BY <1>7, <2>2 DEF MarkedAt
    <3>2. Fits(u, i - 1)
      BY <2>1, <3>1
    <3> QED BY <1>9, <2>1, <3>1, <3>2
  <2>3. CASE ~ lines[i].intron
    <3>1. /\ k[i] = k[i - 1] + 1 /\ k[i] \in 1 .. m /\ sel[k[i]] = lines[i] /\ k[i - 1] \in Nat
          /\ lines[i].line.dest \in need[i] /\ need[i - 1] = UsefulBefore(lines[i].line, need[i])
      BY <1>7, <2>3 DEF MarkedAt
    <3> DEFINE v == [j \in k[i - 1] .. m |-> IF j = k[i - 1] THEN need[i - 1] ELSE u[j]]
    <3>2. v[k[i - 1]] = need[i - 1] /\ \A j \in k[i] .. m : v[j] = u[j]
      BY <1>5, <3>1
    <3>3. v \in [k[i - 1] .. m -> SUBSET Register]
      <4>1. need[i - 1] \in SUBSET Register
        BY <1>3, <1>7
      <4>2. \A j \in k[i - 1] .. m : j # k[i - 1] => j \in k[i] .. m
        BY <1>5, <3>1
      <4> QED BY <2>1, <4>1, <4>2
    <3> HIDE DEF v
    <3>4. ASSUME NEW j \in (k[i - 1] + 1) .. m PROVE MarkedAt(v, sel, j)
      <4>1. CASE j = k[i]
        <5>1. v[j] = need[i] /\ v[j - 1] = need[i - 1] /\ sel[j] = lines[i]
          BY <1>5, <2>1, <3>1, <3>2, <4>1
        <5> QED BY <2>3, <3>1, <5>1 DEF MarkedAt
      <4>2. CASE j # k[i]
        <5>1. j \in (k[i] + 1) .. m /\ j \in k[i] .. m /\ j - 1 \in k[i] .. m
          BY <1>5, <3>1, <4>2
        <5>2. MarkedAt(u, sel, j) /\ v[j] = u[j] /\ v[j - 1] = u[j - 1]
          BY <2>1, <3>2, <5>1
        <5> QED BY <5>2 DEF MarkedAt
      <4> QED BY <4>1, <4>2
    <3>5. m \in k[i] .. m
      BY <1>5, <3>1
    <3>6. Fits(v, i - 1)
      BY <2>1, <3>2, <3>4, <3>5
    <3>7. k[i - 1] <= m
      BY <1>5, <3>1
    <3> QED BY <3>3, <3>6, <3>7
  <2> QED BY <2>2, <2>3
<1> HIDE DEF Reached
<1>10. B = {}
  <2>1. n \notin B /\ B \in SUBSET (0 .. n)
    BY <1>8
  <2>2. ASSUME NEW i \in 1 .. n, i - 1 \in B PROVE i \in B
    BY <1>7, <1>9, <2>2
  <2> HIDE DEF B
  <2> QED BY <1>4, <2>1, <2>2, NoLastFailure
<1>11. Reached(0)
  BY <1>4, <1>10
<1>12. PICK u \in [0 .. m -> SUBSET Register] : u[m] = {0} /\ \A j \in 1 .. m : MarkedAt(u, sel, j)
  <2>1. PICK u \in [k[0] .. m -> SUBSET Register] : Fits(u, 0)
    BY <1>11 DEF Reached
  <2>2. k[0] + 1 = 1
    BY <1>6
  <2> QED BY <1>6, <2>1, <2>2
<1>13. Marking(u, sel)
  BY <1>12 DEF Marking, m
<1> QED BY <1>12, <1>13 DEF IsMarked, m, sel

-----------------------------------------------------------------------------
(* The reference definition: all lines are executed, forward. *)

DependsStep(lines, deps, i) ==
    LET l == lines[i].line
    IN  [deps EXCEPT ![l.dest] = {i} \cup UNION {deps[r] : r \in RegistersRead(l)}]

IsDependencies(c, lines) ==
    /\ c[0] = [r \in Register |-> {}]
    /\ \A i \in 1 .. Len(lines) : c[i] = DependsStep(lines, c[i - 1], i)

LEMMA DependencyScan ==
    ASSUME program.lines \in Seq(GoodMarkedLine)
    PROVE  \E c \in [0 .. NbLines -> [Register -> SUBSET (1 .. NbLines)]] :
              IsDependencies(c, program.lines) /\ Dependencies = c[NbLines]
<1> DEFINE lines == program.lines
           n == Len(lines)
           X == [Register -> SUBSET (1 .. n)]
           base == [r \in Register |-> {}]
           self == [i \in DOMAIN lines |-> i]
           Step(g) == [s \in SUBSET DOMAIN self |->
                         IF s = {} THEN base
                         ELSE LET l == lines[self[Max(s)]].line
                              IN  [g[s \ {Max(s)}] EXCEPT ![l.dest] =
                                     {self[Max(s)]} \cup UNION {g[s \ {Max(s)}][r] : r \in RegistersRead(l)}]]
           f == CHOOSE g : g = Step(g)
           pick == [s \in SUBSET (1 .. n) |-> Max(s)]
           H == [i \in 1 .. n |-> [x \in X |-> DependsStep(lines, x, i)]]
<1>1. Dependencies = f[DOMAIN self]
  BY DEF Dependencies, FoldLeftDomain, FoldLeft, MapThenFoldSet
<1>2. n \in Nat /\ DOMAIN lines = 1 .. n /\ DOMAIN self = 1 .. n
  BY LenProperties
<1>3. ASSUME NEW i \in 1 .. n PROVE lines[i] \in GoodMarkedLine /\ lines[i].line \in GoodLine
  <2>1. lines[i] \in GoodMarkedLine
    BY <1>2, ElementOfSeq
  <2> QED BY <2>1 DEF GoodMarkedLine
<1>4. base \in X
  OBVIOUS
<1>5. H \in [1 .. n -> [X -> X]]
  <2>1. ASSUME NEW i \in 1 .. n, NEW x \in X PROVE DependsStep(lines, x, i) \in X
    <3> DEFINE l == lines[i].line
               new == {i} \cup UNION {x[r] : r \in RegistersRead(l)}
    <3>1. RegistersRead(l) \in SUBSET Register
      BY <1>3, ReadsRegisters
    <3>2. new \in SUBSET (1 .. n)
      BY <3>1
    <3>3. DependsStep(lines, x, i) = [x EXCEPT ![l.dest] = new]
      BY DEF DependsStep
    <3> HIDE DEF new
    <3> QED BY <3>2, <3>3
  <2> HIDE DEF X
  <2> QED BY <2>1
<1>6. \A s \in (SUBSET (1 .. n)) \ {{}} : pick[s] \in s
  BY <1>2, LastOfSubset
<1> HIDE DEF H, pick, base, X, n
<1>7. PICK v \in [SUBSET (1 .. n) -> X] : IsFold(v, n, pick, base, H)
  BY <1>2, <1>4, <1>5, <1>6, FoldExists
<1>8. ASSUME NEW s \in SUBSET (1 .. n)
      PROVE  v[s] = IF s = {} THEN base ELSE DependsStep(lines, v[s \ {Max(s)}], Max(s))
  <2>1. v[s] = FoldValue(v, pick, base, H, s)
    BY <1>7 DEF IsFold
  <2>2. CASE s = {}
    BY <2>1, <2>2 DEF FoldValue
  <2>3. CASE s # {}
    <3>1. pick[s] = Max(s) /\ Max(s) \in 1 .. n
      BY <1>6, <2>3 DEF pick
    <3>2. v[s \ {Max(s)}] \in X
      OBVIOUS
    <3>3. H[Max(s)][v[s \ {Max(s)}]] = DependsStep(lines, v[s \ {Max(s)}], Max(s))
      BY <3>1, <3>2 DEF H
    <3> QED BY <2>1, <2>3, <3>1, <3>3 DEF FoldValue
  <2> QED BY <2>2, <2>3
<1>9. \A s \in SUBSET (1 .. n) : s # {} => self[Max(s)] = Max(s)
  BY <1>2, LastOfSubset
<1> HIDE DEF lines, self
<1>10. Step(v) = [s \in SUBSET (1 .. n) |->
                    IF s = {} THEN base ELSE DependsStep(lines, v[s \ {Max(s)}], Max(s))]
  BY <1>2, <1>9 DEF DependsStep
<1>11. v = Step(v)
  <2> HIDE DEF Step
  <2> QED BY <1>8, <1>10
<1>12. f = Step(f)
  BY <1>11
<1> HIDE DEF f
<1>13. ASSUME NEW s \in SUBSET (1 .. n)
       PROVE  f[s] = IF s = {} THEN base ELSE DependsStep(lines, f[s \ {Max(s)}], Max(s))
  BY <1>2, <1>9, <1>12 DEF DependsStep
<1> DEFINE c == [i \in 0 .. n |-> f[1 .. i]]
<1>14. ASSUME NEW i \in 1 .. n PROVE f[1 .. i] = DependsStep(lines, f[1 .. (i - 1)], i)
  <2>1. (1 .. i) \in SUBSET (1 .. n) /\ (1 .. i) # {}
    <3>1. n \in Nat
      BY <1>2
    <3>2. \A x \in 1 .. i : x \in 1 .. n
      BY <3>1
    <3>3. i \in 1 .. i
      OBVIOUS
    <3> QED BY <3>2, <3>3
  <2>2. Max(1 .. i) = i /\ (1 .. i) \ {i} = 1 .. (i - 1)
    BY <1>2, LastOfInterval
  <2> QED BY <1>13, <2>1, <2>2
<1>15. c[0] = base /\ \A i \in 1 .. n : c[i] = DependsStep(lines, c[i - 1], i)
  <2>1. f[1 .. 0] = base
    <3>1. 1 .. 0 = {}
      OBVIOUS
    <3> QED BY <1>13, <3>1
  <2>2. \A i \in 1 .. n : i \in 0 .. n /\ i - 1 \in 0 .. n
    BY <1>2
  <2>3. 0 \in 0 .. n
    BY <1>2
  <2> QED BY <1>14, <2>1, <2>2, <2>3
<1> DEFINE B == {i \in 0 .. n : c[i] \notin X}
<1>16. B = {}
  <2> HIDE DEF c
  <2>1. 0 \notin B /\ B \in SUBSET (0 .. n)
    BY <1>4, <1>15
  <2>2. ASSUME NEW i \in 1 .. n, i \in B PROVE i - 1 \in B
    <3> SUFFICES ASSUME c[i - 1] \in X PROVE c[i] \in X
      BY <1>2, <2>2
    <3>1. c[i] = H[i][c[i - 1]]
      BY <1>15 DEF H
    <3> QED BY <1>5, <3>1
  <2> HIDE DEF B
  <2> QED BY <1>2, <2>1, <2>2, NoFirstFailure
<1>17. c \in [0 .. n -> X]
  BY <1>16
<1>18. Dependencies = c[n]
  BY <1>1, <1>2
<1> HIDE DEF c
<1> QED BY <1>15, <1>17, <1>18 DEF IsDependencies, NbLines, base, X, n, lines

(* The result depends on a line exactly if the line is not marked as an intron: going backward,
   what the registers needed so far depend on, and the lines passed that are no introns, make
   up the dependencies of the result. *)
LEMMA MarkedAreExact ==
    ASSUME program.lines \in Seq(GoodMarkedLine), IsMarked(program.lines), NEW x \in 1 .. NbLines
    PROVE  program.lines[x].intron <=> x \notin Dependencies[0]
<1> DEFINE lines == program.lines
           n == NbLines
<1>1. PICK c \in [0 .. n -> [Register -> SUBSET (1 .. n)]] : IsDependencies(c, lines) /\ Dependencies = c[n]
  BY DependencyScan
<1>2. PICK need \in [0 .. n -> SUBSET Register] : Marking(need, lines)
  BY DEF IsMarked, NbLines
<1>3. n \in Nat /\ n = Len(lines) /\ 0 \in Register
  BY LenProperties, SourcesFacts DEF NbLines
<1> DEFINE Depends(k) == \E r \in need[k] : x \in c[k][r]
           Passed(k) == x \in (k + 1) .. n /\ ~ lines[x].intron
           B == {k \in 0 .. n : ~ (x \in c[n][0] <=> Depends(k) \/ Passed(k))}
<1>4. ASSUME NEW k \in 1 .. n PROVE Depends(k) \/ Passed(k) <=> Depends(k - 1) \/ Passed(k - 1)
  <2> DEFINE line == lines[k].line
  <2>1. MarkedAt(need, lines, k) /\ c[k] = DependsStep(lines, c[k - 1], k)
    BY <1>1, <1>2, <1>3 DEF Marking, IsDependencies
  <2>2. k \in 0 .. n /\ k - 1 \in 0 .. n
    BY <1>3
  <2>3. line \in GoodLine
    <3>1. lines[k] \in GoodMarkedLine
      BY <1>3, ElementOfSeq
    <3> QED BY <3>1 DEF GoodMarkedLine
  <2>4. RegistersRead(line) \in SUBSET Register /\ line.dest \in Register
    BY <2>3, ReadsRegisters DEF GoodLine, Line
  <2> DEFINE new == {k} \cup UNION {c[k - 1][r] : r \in RegistersRead(line)}
  <2>5. c[k] = [c[k - 1] EXCEPT ![line.dest] = new]
    BY <2>1 DEF DependsStep
  <2>6. x \in new <=> x = k \/ \E r \in RegistersRead(line) : x \in c[k - 1][r]
    OBVIOUS
  <2>7. c[k - 1] \in [Register -> SUBSET (1 .. n)] /\ need[k] \in SUBSET Register
    BY <2>2
  <2> HIDE DEF new, line
  <2>8. \A r \in Register : c[k][r] = IF r = line.dest THEN new ELSE c[k - 1][r]
    BY <2>4, <2>5, <2>7
  <2>9. (k - 1) + 1 = k /\ (x \in k .. n <=> x = k \/ x \in (k + 1) .. n)
    BY <1>3
  <2>10. CASE line.dest \in need[k]
    <3>1. ~ lines[k].intron /\ need[k - 1] = (need[k] \ {line.dest}) \cup RegistersRead(line)
      BY <2>1, <2>10 DEF MarkedAt, UsefulBefore, line
    <3>2. Depends(k) <=> x \in new \/ \E r \in need[k] \ {line.dest} : x \in c[k - 1][r]
      BY <2>4, <2>7, <2>8, <2>10
    <3>3. Depends(k) <=> x = k \/ Depends(k - 1)
      BY <2>6, <3>1, <3>2
    <3>4. Passed(k - 1) <=> x = k \/ Passed(k)
      BY <2>9, <3>1
    <3> QED BY <3>3, <3>4
  <2>11. CASE line.dest \notin need[k]
    <3>1. lines[k].intron /\ need[k - 1] = need[k]
      BY <2>1, <2>11 DEF MarkedAt, line
    <3>2. Depends(k) <=> Depends(k - 1)
      BY <2>7, <2>8, <2>11, <3>1
    <3>3. Passed(k) <=> Passed(k - 1)
      BY <2>9, <3>1
    <3> QED BY <3>2, <3>3
  <2> QED BY <2>10, <2>11
<1>5. x \in c[n][0] <=> Depends(n) \/ Passed(n)
  <2>1. need[n] = {0}
    BY <1>2, <1>3 DEF Marking
  <2>2. ~ (x \in (n + 1) .. n)
    BY <1>3
  <2> QED BY <2>1, <2>2
<1> HIDE DEF Depends, Passed
<1>6. B = {}
  <2>1. n \notin B /\ B \in SUBSET (0 .. n)
    BY <1>5
  <2>2. ASSUME NEW k \in 1 .. n, k - 1 \in B PROVE k \in B
    <3>1. k \in 0 .. n
      BY <1>3
    <3> QED BY <1>4, <2>2, <3>1
  <2> HIDE DEF B
  <2> QED BY <1>3, <2>1, <2>2, NoLastFailure
<1>7. x \in c[n][0] <=> Depends(0) \/ Passed(0)
  <2>1. 0 \in 0 .. n
    BY <1>3
  <2> QED BY <1>6, <2>1
<1>8. ~ Depends(0)
  <2>1. c[0] = [r \in Register |-> {}] /\ need[0] \in SUBSET Register
    BY <1>1, <1>3 DEF IsDependencies
  <2> QED BY <2>1 DEF Depends
<1>9. Passed(0) <=> ~ lines[x].intron
  BY <1>3 DEF Passed
<1> QED BY <1>1, <1>7, <1>8, <1>9

-----------------------------------------------------------------------------
(* Execution.  Symbolic values form no set known in advance, so that a fold of ExecuteLine is
   built on larger and larger sets of lines. *)

Fresh == [r \in Register |-> Zero]

RunValue(v, lines, cs, s) ==
    IF s = {} THEN Fresh ELSE ExecuteLine(v[s \ {Max(s)}], lines[Max(s)].line, cs)

IsRunFold(v, n, lines, cs) == v = [s \in SUBSET (1 .. n) |-> RunValue(v, lines, cs, s)]

LEMMA RunExists ==
    ASSUME NEW n \in Nat, NEW lines, NEW cs
    PROVE  \E v : IsRunFold(v, n, lines, cs)
<1> DEFINE S == SUBSET (1 .. n)
           Up(v, k) == \A s \in S : Cardinality(s) <= k => v[s] = RunValue(v, lines, cs, s)
           Reached(k) == \E v : Up(v, k)
           T == {k \in 0 .. n : ~ Reached(k)}
<1>1. Reached(0)
  <2> DEFINE v == [s \in S |-> Fresh]
  <2>1. ASSUME NEW s \in S, Cardinality(s) <= 0 PROVE v[s] = RunValue(v, lines, cs, s)
    <3>1. s = {}
      BY <2>1, Finite
    <3> QED BY <3>1 DEF RunValue
  <2>2. Up(v, 0)
    BY <2>1
  <2> QED BY <2>2
<1>2. ASSUME NEW k \in 1 .. n, Reached(k - 1) PROVE Reached(k)
  <2>0. PICK v : Up(v, k - 1)
    BY <1>2
  <2> DEFINE w == [s \in S |-> RunValue(v, lines, cs, s)]
  <2>1. ASSUME NEW s \in S, Cardinality(s) <= k PROVE w[s] = RunValue(w, lines, cs, s)
    <3>1. CASE s = {}
      BY <3>1 DEF RunValue
    <3>2. CASE s # {}
      <4> DEFINE t == s \ {Max(s)}
      <4>1. t \in S /\ Cardinality(t) <= k - 1
        <5>1. Max(s) \in s
          BY <3>2, LastOfSubset
        <5>2. Cardinality(s) \in 0 .. n /\ Cardinality(t) = Cardinality(s) - 1
          BY <5>1, Finite
        <5>3. t \in S
          OBVIOUS
        <5>4. Cardinality(t) <= k - 1
          <6> HIDE DEF t
          <6> QED BY <2>1, <5>2
        <5> QED BY <5>3, <5>4
      <4>2. v[t] = RunValue(v, lines, cs, t)
        BY <2>0, <4>1
      <4>3. w[t] = v[t]
        BY <4>1, <4>2
      <4> HIDE DEF t
      <4>4. w[s] = ExecuteLine(v[t], lines[Max(s)].line, cs)
        BY <3>2 DEF RunValue, t
      <4>5. RunValue(w, lines, cs, s) = ExecuteLine(w[t], lines[Max(s)].line, cs)
        BY <3>2 DEF RunValue, t
      <4> QED BY <4>3, <4>4, <4>5
    <3> QED BY <3>1, <3>2
  <2>2. Up(w, k)
    BY <2>1
  <2> QED BY <2>2
<1>3. Reached(n)
  <2> HIDE DEF Reached
  <2>1. T \in SUBSET (0 .. n) /\ 0 \notin T
    BY <1>1
  <2>2. ASSUME NEW k \in 1 .. n, k \in T PROVE k - 1 \in T
    BY <1>2, <2>2
  <2>3. T = {}
    <3> HIDE DEF T
    <3> QED BY <2>1, <2>2, NoFirstFailure
  <2>4. n \in 0 .. n
    OBVIOUS
  <2> QED BY <2>3, <2>4
<1>4. PICK v : Up(v, n)
  BY <1>3
<1> DEFINE w == [s \in S |-> RunValue(v, lines, cs, s)]
<1>5. \A s \in S : w[s] = v[s] /\ v[s] = RunValue(v, lines, cs, s)
  <2>1. \A s \in S : Cardinality(s) <= n
    BY Finite
  <2> QED BY <1>4, <2>1
<1>6. ASSUME NEW s \in S PROVE RunValue(v, lines, cs, s) = RunValue(w, lines, cs, s)
  <2>1. s # {} => w[s \ {Max(s)}] = v[s \ {Max(s)}]
    BY <1>5
  <2> HIDE DEF w
  <2> QED BY <2>1 DEF RunValue
<1>7. w = [s \in S |-> RunValue(w, lines, cs, s)]
  <2>1. w = [s \in S |-> RunValue(v, lines, cs, s)]
    OBVIOUS
  <2> HIDE DEF w
  <2> QED BY <1>6, <2>1
<1>8. IsRunFold(w, n, lines, cs)
  <2> HIDE DEF w
  <2> QED BY <1>7 DEF IsRunFold
<1> QED BY <1>8

(* The registers after each line: a fold by any step that does to the registers what the lines
   do goes through them. *)
IsRun(R, lines, cs) ==
    /\ R[0] = Fresh
    /\ \A i \in 1 .. Len(lines) : R[i] = ExecuteLine(R[i - 1], lines[i].line, cs)

LEMMA RunsOfFold ==
    ASSUME NEW n \in Nat, NEW lines, n = Len(lines), NEW cs, NEW f,
           IsRunFold(f, n, lines, cs)
    PROVE  \E R : /\ DOMAIN R = 0 .. n /\ \A i \in 0 .. n : DOMAIN R[i] = Register
                  /\ IsRun(R, lines, cs) /\ f[1 .. n] = R[n]
<1> DEFINE R == [i \in 0 .. n |-> f[1 .. i]]
<1>0. \A s \in SUBSET (1 .. n) : f[s] = RunValue(f, lines, cs, s)
  BY DEF IsRunFold
<1>1. ASSUME NEW i \in 1 .. n PROVE f[1 .. i] = ExecuteLine(f[1 .. (i - 1)], lines[i].line, cs)
  <2>1. (1 .. i) \in SUBSET (1 .. n) /\ (1 .. i) # {}
    OBVIOUS
  <2>2. Max(1 .. i) = i /\ (1 .. i) \ {i} = 1 .. (i - 1)
    BY LastOfInterval
  <2>3. f[1 .. i] = RunValue(f, lines, cs, 1 .. i)
    BY <1>0, <2>1
  <2> QED BY <2>1, <2>2, <2>3 DEF RunValue
<1>2. f[1 .. 0] = Fresh
  <2>1. 1 .. 0 = {}
    OBVIOUS
  <2>2. {} \in SUBSET (1 .. n)
    OBVIOUS
  <2>3. f[{}] = RunValue(f, lines, cs, {})
    BY <1>0, <2>2
  <2> QED BY <2>1, <2>3 DEF RunValue
<1>3. R[0] = Fresh /\ \A i \in 1 .. n : R[i] = ExecuteLine(R[i - 1], lines[i].line, cs)
  <2>1. \A i \in 1 .. n : i \in 0 .. n /\ i - 1 \in 0 .. n
    OBVIOUS
  <2>2. 0 \in 0 .. n
    OBVIOUS
  <2> QED BY <1>1, <1>2, <2>1, <2>2
<1>4. DOMAIN R = 0 .. n /\ R[n] = f[1 .. n]
  OBVIOUS
<1> DEFINE B == {i \in 0 .. n : DOMAIN R[i] # Register}
<1> HIDE DEF R
<1>5. B = {}
  <2>1. 0 \notin B /\ B \in SUBSET (0 .. n)
    BY <1>3 DEF Fresh
  <2>2. ASSUME NEW i \in 1 .. n, i \in B PROVE i - 1 \in B
    <3>1. DOMAIN R[i] = DOMAIN R[i - 1]
      BY <1>3 DEF ExecuteLine
    <3>2. i - 1 \in 0 .. n
      OBVIOUS
    <3> QED BY <2>2, <3>1, <3>2
  <2> HIDE DEF B
  <2> QED BY <2>1, <2>2, NoFirstFailure
<1>6. \A i \in 0 .. n : DOMAIN R[i] = Register
  BY <1>5
<1> QED BY <1>3, <1>4, <1>6 DEF IsRun

LEMMA ExecutionRun ==
    ASSUME NEW lines \in Seq(GoodMarkedLine), NEW cs
    PROVE  \E R : /\ DOMAIN R = 0 .. Len(lines) /\ \A i \in 0 .. Len(lines) : DOMAIN R[i] = Register
                  /\ IsRun(R, lines, cs) /\ Execute(lines, cs) = R[Len(lines)][0]
<1> DEFINE n == Len(lines)
           Step(g) == [s \in SUBSET DOMAIN lines |->
                         IF s = {} THEN [r \in Register |-> Zero]
                         ELSE ExecuteLine(g[s \ {Max(s)}], lines[Max(s)].line, cs)]
           f == CHOOSE g : g = Step(g)
<1>1. Execute(lines, cs) = f[DOMAIN lines][0]
  BY DEF Execute, FoldLeft, MapThenFoldSet
<1>2. n \in Nat /\ DOMAIN lines = 1 .. n
  BY LenProperties
<1>3. \A g : Step(g) = [s \in SUBSET (1 .. n) |-> RunValue(g, lines, cs, s)]
  BY <1>2 DEF RunValue, Fresh
<1> HIDE DEF Step
<1>4. PICK v : IsRunFold(v, n, lines, cs)
  BY <1>2, RunExists
<1>5. v = Step(v)
  BY <1>3, <1>4 DEF IsRunFold
<1>6. f = Step(f)
  BY <1>5
<1> HIDE DEF f
<1>7. IsRunFold(f, n, lines, cs)
  BY <1>3, <1>6 DEF IsRunFold
<1> QED BY <1>1, <1>2, <1>7, RunsOfFold

-----------------------------------------------------------------------------
(* What a line computes depends on the registers and the constants that it reads. *)

LineResult(R, line, cs) ==
    <<"result", line.instr,
      [m \in 1 .. NbOperands(line) |-> ValueAt(line.ops[m].src, Accessed(line, m), R, cs)]>>

SameWhereRead(line, cs, ds) ==
    \A m \in 1 .. NbOperands(line) :
        line.ops[m].src # 0 /\ line.ops[m].src < NbOwnSources =>
            \A i \in DOMAIN Accessed(line, m) : cs[Accessed(line, m)[i]] = ds[Accessed(line, m)[i]]

LEMMA SameValue ==
    ASSUME NEW s, NEW elements, NEW R, NEW Q, NEW cs, NEW ds,
           s = 0 => \A i \in DOMAIN elements : R[elements[i]] = Q[elements[i]],
           s # 0 /\ s < NbOwnSources => \A i \in DOMAIN elements : cs[elements[i]] = ds[elements[i]]
    PROVE  ValueAt(s, elements, R, cs) = ValueAt(s, elements, Q, ds)
BY DEF ValueAt

LEMMA SameResult ==
    ASSUME NEW line \in GoodLine, NEW R, NEW Q, \A r \in RegistersRead(line) : R[r] = Q[r],
           NEW cs, NEW ds, SameWhereRead(line, cs, ds)
    PROVE  LineResult(R, line, cs) = LineResult(Q, line, ds)
<1>1. ASSUME NEW m \in 1 .. NbOperands(line)
      PROVE  ValueAt(line.ops[m].src, Accessed(line, m), R, cs)
               = ValueAt(line.ops[m].src, Accessed(line, m), Q, ds)
  <2>1. ASSUME line.ops[m].src = 0
        PROVE  \A i \in DOMAIN Accessed(line, m) : R[Accessed(line, m)[i]] = Q[Accessed(line, m)[i]]
    BY <2>1 DEF RegistersRead, ToSet
  <2>2. line.ops[m].src # 0 /\ line.ops[m].src < NbOwnSources =>
            \A i \in DOMAIN Accessed(line, m) : cs[Accessed(line, m)[i]] = ds[Accessed(line, m)[i]]
    BY DEF SameWhereRead
  <2> QED BY <2>1, <2>2, SameValue
<1> QED BY <1>1 DEF LineResult

LEMMA LineExecuted ==
    ASSUME NEW line \in GoodLine, NEW R, DOMAIN R = Register, NEW cs
    PROVE  /\ line.dest \in Register
           /\ ExecuteLine(R, line, cs)[line.dest] = LineResult(R, line, cs)
           /\ \A r \in Register \ {line.dest} : ExecuteLine(R, line, cs)[r] = R[r]
<1> DEFINE new == LineResult(R, line, cs)
           d == line.dest
<1>1. ExecuteLine(R, line, cs) = [R EXCEPT ![d] = new]
  BY DEF ExecuteLine, LineResult
<1>2. d \in Register
  BY DEF GoodLine, Line
<1> HIDE DEF new, d
<1>3. [R EXCEPT ![d] = new][d] = new
  BY <1>2
<1>4. \A r \in Register \ {d} : [R EXCEPT ![d] = new][r] = R[r]
  OBVIOUS
<1> QED BY <1>1, <1>2, <1>3, <1>4 DEF new, d

(* Executing the lines that are no introns gives the result of executing all: before each line
   the registers needed hold the same in both executions. *)
LEMMA MarkedDoNotMatter ==
    ASSUME NEW lines \in Seq(GoodMarkedLine), IsMarked(lines), NEW cs
    PROVE  Execute(UsefulLines(lines), cs) = Execute(lines, cs)
<1> DEFINE n == Len(lines)
           sel == UsefulLines(lines)
<1>1. PICK need \in [0 .. n -> SUBSET Register] : Marking(need, lines)
  BY DEF IsMarked
<1>2. sel \in Seq(GoodMarkedLine)
  BY UsefulPlaces
<1>3. PICK k \in [0 .. n -> Nat] : UsefulAt(k, sel, lines)
  BY UsefulPlaces
<1>4. n \in Nat /\ Len(sel) \in Nat /\ DOMAIN sel = 1 .. Len(sel)
  BY <1>2, LenProperties
<1> HIDE DEF sel
<1>5. PICK R : /\ \A i \in 0 .. n : DOMAIN R[i] = Register
               /\ IsRun(R, lines, cs) /\ Execute(lines, cs) = R[n][0]
  BY ExecutionRun
<1>6. PICK Q : /\ \A i \in 0 .. Len(sel) : DOMAIN Q[i] = Register
               /\ IsRun(Q, sel, cs) /\ Execute(sel, cs) = Q[Len(sel)][0]
  BY <1>2, ExecutionRun
<1> DEFINE Same(i) == \A r \in need[i] : R[i][r] = Q[k[i]][r]
           B == {i \in 0 .. n : ~ Same(i)}
<1>7. Same(0)
  <2>1. k[0] = 0 /\ R[0] = Q[0]
    BY <1>3, <1>5, <1>6 DEF UsefulAt, IsRun
  <2> QED BY <2>1
<1>8. ASSUME NEW i \in 1 .. n, Same(i - 1) PROVE Same(i)
  <2> DEFINE line == lines[i].line
  <2>1. line \in GoodLine
    <3>1. lines[i] \in GoodMarkedLine
      BY ElementOfSeq
    <3> QED BY <3>1 DEF GoodMarkedLine
  <2>2. MarkedAt(need, lines, i) /\ i \in 0 .. n /\ i - 1 \in 0 .. n
    BY <1>1, <1>4 DEF Marking
  <2>3. need[i] \in SUBSET Register /\ need[i - 1] \in SUBSET Register /\ k[i] \in Nat /\ k[i - 1] \in Nat
    BY <2>2
  <2>4. R[i] = ExecuteLine(R[i - 1], line, cs) /\ DOMAIN R[i - 1] = Register
    BY <1>5, <2>2 DEF IsRun
  <2> HIDE DEF line
  <2>5. /\ line.dest \in Register /\ R[i][line.dest] = LineResult(R[i - 1], line, cs)
        /\ \A r \in Register \ {line.dest} : R[i][r] = R[i - 1][r]
    BY <2>1, <2>4, LineExecuted
  <2>6. CASE line.dest \in need[i]
    <3>1. ~ lines[i].intron /\ need[i - 1] = (need[i] \ {line.dest}) \cup RegistersRead(line)
      BY <2>2, <2>6 DEF MarkedAt, UsefulBefore, line
    <3>2. k[i] = k[i - 1] + 1 /\ k[i] \in DOMAIN sel /\ sel[k[i]] = lines[i]
      BY <1>3, <3>1 DEF UsefulAt
    <3> DEFINE P == Q[k[i - 1]]
    <3>3. Q[k[i]] = ExecuteLine(P, line, cs) /\ DOMAIN P = Register
      <4>1. k[i] \in 1 .. Len(sel) /\ k[i] - 1 = k[i - 1] /\ k[i - 1] \in 0 .. Len(sel)
        BY <1>4, <2>3, <3>2
      <4>2. Q[k[i]] = ExecuteLine(Q[k[i] - 1], sel[k[i]].line, cs)
        BY <1>6, <4>1 DEF IsRun
      <4> QED BY <1>6, <3>2, <4>1, <4>2 DEF line
    <3>4. \A r \in need[i - 1] : R[i - 1][r] = P[r]
      BY <1>8
    <3> HIDE DEF P
    <3>5. /\ Q[k[i]][line.dest] = LineResult(P, line, cs)
          /\ \A r \in Register \ {line.dest} : Q[k[i]][r] = P[r]
      BY <2>1, <3>3, LineExecuted
    <3>6. LineResult(R[i - 1], line, cs) = LineResult(P, line, cs)
      <4>1. \A r \in RegistersRead(line) : R[i - 1][r] = P[r]
        BY <3>1, <3>4
      <4>2. SameWhereRead(line, cs, cs)
        BY DEF SameWhereRead
      <4> QED BY <2>1, <4>1, <4>2, SameResult
    <3>7. ASSUME NEW r \in need[i] PROVE R[i][r] = Q[k[i]][r]
      <4>1. CASE r = line.dest
        BY <2>5, <3>5, <3>6, <4>1
      <4>2. CASE r # line.dest
        <5>1. r \in need[i - 1] /\ r \in Register \ {line.dest}
          BY <2>3, <3>1, <4>2
        <5> QED BY <2>5, <3>4, <3>5, <5>1
      <4> QED BY <4>1, <4>2
    <3> QED BY <3>7
  <2>7. CASE line.dest \notin need[i]
    <3>1. lines[i].intron /\ need[i - 1] = need[i]
      BY <2>2, <2>7 DEF MarkedAt, line
    <3>2. k[i] = k[i - 1]
      BY <1>3, <3>1 DEF UsefulAt
    <3>3. \A r \in need[i] : r \in Register \ {line.dest} /\ R[i - 1][r] = Q[k[i - 1]][r]
      BY <1>8, <2>3, <2>7, <3>1
    <3> QED BY <2>5, <3>2, <3>3
  <2> QED BY <2>6, <2>7
<1> HIDE DEF Same
<1>9. B = {}
  <2>1. 0 \notin B /\ B \in SUBSET (0 .. n)
    BY <1>7
  <2>2. ASSUME NEW i \in 1 .. n, i \in B PROVE i - 1 \in B
    <3>1. i - 1 \in 0 .. n
      BY <1>4
    <3> QED BY <1>8, <2>2, <3>1
  <2> HIDE DEF B
  <2> QED BY <1>4, <2>1, <2>2, NoFirstFailure
<1>10. Same(n)
  <2>1. n \in 0 .. n
    BY <1>4
  <2> QED BY <1>9, <2>1
<1>11. need[n] = {0} /\ k[n] = Len(sel)
  BY <1>1, <1>3 DEF Marking, UsefulAt
<1> QED BY <1>5, <1>6, <1>10, <1>11 DEF Same, sel

-----------------------------------------------------------------------------
(* Two sequences of the same lines, with constants that agree where they are read, give the
   same result. *)
LEMMA SameLinesSameResult ==
    ASSUME NEW a \in Seq(GoodMarkedLine), NEW b \in Seq(GoodMarkedLine), Len(a) = Len(b),
           NEW cs, NEW ds,
           \A i \in DOMAIN a : a[i].line = b[i].line /\ SameWhereRead(a[i].line, cs, ds)
    PROVE  Execute(a, cs) = Execute(b, ds)
<1> DEFINE n == Len(a)
<1>1. n \in Nat /\ DOMAIN a = 1 .. n /\ n = Len(b)
  BY LenProperties
<1>2. PICK R : /\ \A i \in 0 .. n : DOMAIN R[i] = Register
               /\ IsRun(R, a, cs) /\ Execute(a, cs) = R[n][0]
  BY ExecutionRun
<1>3. PICK Q : /\ \A i \in 0 .. n : DOMAIN Q[i] = Register
               /\ IsRun(Q, b, ds) /\ Execute(b, ds) = Q[n][0]
  BY <1>1, ExecutionRun
<1> DEFINE Same(i) == \A r \in Register : R[i][r] = Q[i][r]
           B == {i \in 0 .. n : ~ Same(i)}
<1>4. Same(0)
  BY <1>2, <1>3 DEF IsRun
<1>5. ASSUME NEW i \in 1 .. n, Same(i - 1) PROVE Same(i)
  <2> DEFINE line == a[i].line
             S == R[i - 1]
             P == Q[i - 1]
  <2>1. line \in GoodLine
    <3>1. a[i] \in GoodMarkedLine
      BY ElementOfSeq
    <3> QED BY <3>1 DEF GoodMarkedLine
  <2>2. b[i].line = line /\ SameWhereRead(line, cs, ds)
    BY <1>1
  <2>3. i - 1 \in 0 .. n
    BY <1>1
  <2>4. R[i] = ExecuteLine(S, line, cs) /\ DOMAIN S = Register
    BY <1>2, <2>3 DEF IsRun
  <2>5. Q[i] = ExecuteLine(P, line, ds) /\ DOMAIN P = Register
    BY <1>1, <1>3, <2>2, <2>3 DEF IsRun
  <2>6. \A r \in Register : S[r] = P[r]
    BY <1>5
  <2> HIDE DEF S, P, line
  <2>7. LineResult(S, line, cs) = LineResult(P, line, ds)
    <3>1. \A r \in RegistersRead(line) : S[r] = P[r]
      BY <2>1, <2>6, ReadsRegisters
    <3> QED BY <2>1, <2>2, <3>1, SameResult
  <2>8. /\ R[i][line.dest] = LineResult(S, line, cs)
        /\ \A r \in Register \ {line.dest} : R[i][r] = S[r]
    BY <2>1, <2>4, LineExecuted
  <2>9. /\ Q[i][line.dest] = LineResult(P, line, ds)
        /\ \A r \in Register \ {line.dest} : Q[i][r] = P[r]
    BY <2>1, <2>5, LineExecuted
  <2> QED BY <2>6, <2>7, <2>8, <2>9
<1> HIDE DEF Same
<1>6. B = {}
  <2>1. 0 \notin B /\ B \in SUBSET (0 .. n)
    BY <1>4
  <2>2. ASSUME NEW i \in 1 .. n, i \in B PROVE i - 1 \in B
    <3>1. i - 1 \in 0 .. n
      BY <1>1
    <3> QED BY <1>5, <2>2, <3>1
  <2> HIDE DEF B
  <2> QED BY <1>1, <2>1, <2>2, NoFirstFailure
<1>7. Same(n)
  <2>1. n \in 0 .. n
    BY <1>1
  <2> QED BY <1>6, <2>1
<1> QED BY <1>2, <1>3, <1>7, SourcesFacts DEF Same

-----------------------------------------------------------------------------
(* hasIdenticalBehavior compares one constant for each operand that reads constants: this is
   all that an operand reads, but for arrays of constants. *)
LEMMA ComparedConstants ==
    ASSUME NEW line \in GoodLine, NEW p, NEW q, SameConstants(p, q, line), ArraysAgree(p, q, line)
    PROVE  SameWhereRead(line, p.constants, q.constants)
<1> SUFFICES ASSUME NEW m \in 1 .. NbOperands(line),
                    line.ops[m].src # 0, line.ops[m].src < NbOwnSources,
                    NEW i \in DOMAIN Accessed(line, m)
             PROVE  p.constants[Accessed(line, m)[i]] = q.constants[Accessed(line, m)[i]]
  BY DEF SameWhereRead
<1> DEFINE type == OperandType(line, m)
           h == Row("Constant", NbConstants)
           loc == line.ops[m].loc
           address == ScaleLocation(h, loc, type)
<1>1. line.ops[m].src = 1 /\ NbConstants \in Nat \ {0}
  <2>1. line.ops[m].src \in DataSource
    BY OperandTaken
  <2>2. NbOwnSources \in {1, 2} /\ (NbOwnSources = 2 <=> NbConstants > 0) /\ NbConstants \in Nat
    BY SourcesFacts
  <2>3. line.ops[m].src \in Nat
    <3>1. \A x \in DataSource : x \in Nat
      BY DEF DataSource
    <3> QED BY <2>1, <3>1
  <2> QED BY <2>2, <2>3
<1>2. loc \in Nat /\ type \in DataType /\ CanHandle(h, type) /\ Handler(1) = h
  <2>1. 1 < NbOwnSources
    BY <1>1
  <2> QED BY <1>1, <2>1, OperandTaken, SourcesFacts
<1>3. RowAddress(h, type, loc, NbConstants)
  BY <1>1, <1>2, RowAddresses
<1>4. type.native = "Constant" /\ Width(type.dims) \in Nat \ {0}
  <2>1. type.native = "Constant"
    BY <1>3 DEF RowAddress, Row
  <2> QED BY <1>2, <2>1, DimsFacts
<1>5. CASE Width(type.dims) = 1
  <2>1. address = loc % NbConstants
    <3>1. AddressSpace(h, type) = NbConstants - 1 + 1
      BY <1>3, <1>5 DEF RowAddress
    <3>2. AddressSpace(h, type) = NbConstants
      BY <1>1, <3>1
    <3> QED BY <3>2 DEF ScaleLocation
  <2>2. Accessed(line, m) = [j \in 1 .. 1 |-> address + j - 1] /\ address \in Nat
    <3>1. Accessed(line, m) = AddressesAccessed(h, type, address)
      BY <1>1, <1>2 DEF Accessed, Location
    <3>2. AddressesAccessed(h, type, address) = [j \in 1 .. 1 |-> address + j - 1] /\ address \in 0 .. (NbConstants - 1)
      BY <1>3, <1>5 DEF RowAddress
    <3> QED BY <1>1, <3>1, <3>2
  <2>3. Accessed(line, m)[i] = loc % NbConstants
    <3> HIDE DEF address, loc
    <3>1. i = 1
      BY <2>2
    <3>2. Accessed(line, m)[1] = address + 1 - 1
      BY <2>2
    <3> QED BY <2>1, <2>2, <3>1, <3>2
  <2>4. p.constants[loc % NbConstants] = q.constants[loc % NbConstants]
    <3>1. NbConstants > 0
      BY <1>1
    <3> QED BY <1>1, <3>1 DEF SameConstants
  <2> QED BY <2>3, <2>4
<1>6. CASE Width(type.dims) # 1
  BY <1>4, <1>6 DEF ArraysAgree, ToSet
<1> QED BY <1>5, <1>6

(* so that programs found identical give the same result. *)
LEMMA IdenticalGiveSameResult ==
    ASSUME NEW p, NEW q, p.lines \in Seq(GoodMarkedLine), q.lines \in Seq(GoodMarkedLine),
           HasIdenticalBehavior(p, q),
           \A l \in ToSet(UsefulLines(p.lines)) : ArraysAgree(p, q, l.line)
    PROVE  ExecuteProgram(p) = ExecuteProgram(q)
<1> DEFINE a == UsefulLines(p.lines)
           b == UsefulLines(q.lines)
<1>1. a \in Seq(GoodMarkedLine) /\ b \in Seq(GoodMarkedLine)
  BY UsefulPlaces
<1>2. Len(a) = Len(b) /\ \A i \in DOMAIN a : a[i].line = b[i].line /\ SameConstants(p, q, a[i].line)
  BY DEF HasIdenticalBehavior
<1>3. ExecuteProgram(p) = Execute(a, p.constants) /\ ExecuteProgram(q) = Execute(b, q.constants)
  BY DEF ExecuteProgram, ExecutedLines
<1> HIDE DEF a, b
<1>4. ASSUME NEW i \in DOMAIN a PROVE SameWhereRead(a[i].line, p.constants, q.constants)
  <2>1. a[i] \in GoodMarkedLine
    BY <1>1, LenProperties, ElementOfSeq
  <2>2. a[i].line \in GoodLine
    BY <2>1 DEF GoodMarkedLine
  <2>3. a[i] \in ToSet(a)
    BY DEF ToSet
  <2>4. ArraysAgree(p, q, a[i].line)
    BY <2>3 DEF a
  <2> QED BY <1>2, <2>2, <2>4, ComparedConstants
<1>5. Execute(a, p.constants) = Execute(b, q.constants)
  BY <1>1, <1>2, <1>4, SameLinesSameResult, SMTT(30)
<1> QED BY <1>3, <1>5

-----------------------------------------------------------------------------
(* Generated code *)

LEMMA SourceOfName ==
    ASSUME NEW s \in DataSource
    PROVE  SourceNamed(NameSourceData(s)) = s
<1>1. s \in Nat /\ s <= NbOwnSources + Len(EnvironmentData) - 1 /\ Len(EnvironmentData) \in Nat
  <2>1. Len(EnvironmentData) \in Nat
    BY EnvironmentAssumption, LenProperties
  <2> QED BY <2>1, SourcesFacts DEF DataSource
<1>2. Cardinality(DataSource) = NbOwnSources + Len(EnvironmentData)
  <2> DEFINE top == NbOwnSources + Len(EnvironmentData) - 1
  <2>1. top \in Nat
    BY <1>1, SourcesFacts
  <2>2. Cardinality(0 .. top) = IF 0 > top THEN 0 ELSE top - 0 + 1
    BY <2>1, FS_Interval
  <2>3. Cardinality(0 .. top) = top + 1
    BY <2>1, <2>2
  <2> QED BY <1>1, <2>3, SourcesFacts DEF DataSource
<1>3. CASE s = 0
  BY <1>3 DEF SourceNamed, NameSourceData, Reg, Cst
<1>4. CASE NbConstants > 0 /\ s = 1
  <2>1. NameSourceData(s) = Cst
    BY <1>4 DEF NameSourceData
  <2> QED BY <1>4, <2>1 DEF SourceNamed, Reg, Cst
<1>5. CASE s # 0 /\ ~ (NbConstants > 0 /\ s = 1)
  <2> DEFINE i == IF NbConstants > 0 THEN 2 ELSE 1
             m == IF NbConstants > 0 THEN s - 1 ELSE s
  <2>1. NameSourceData(s) = In(m)
    BY <1>5 DEF NameSourceData
  <2>2. i = NbOwnSources
    BY DEF NbOwnSources
  <2>3. m \in 1 .. (Cardinality(DataSource) - i) /\ i + m - 1 = s
    BY <1>1, <1>2, <1>5, SourcesFacts DEF NbOwnSources
  <2>4. GlobalVariables = [cpt \in 1 .. (Cardinality(DataSource) - i) |-> i + cpt - 1]
    BY DEF GlobalVariables
  <2> HIDE DEF i, m
  <2>5. m \in DOMAIN GlobalVariables /\ GlobalVariables[m] = s
    BY <2>3, <2>4
  <2>6. In(m) # Reg /\ In(m) # Cst /\ In(m)[2] = m
    BY DEF In, Reg, Cst
  <2>7. SourceNamed(In(m)) = s
    BY <2>5, <2>6 DEF SourceNamed
  <2> QED BY <2>1, <2>7
<1> QED BY <1>3, <1>4, <1>5

IsHandler(h) ==
    /\ h = [native |-> h.native, dims |-> h.dims]
    /\ h.dims \in Seq(Nat \ {0}) /\ Len(h.dims) \in {1, 2}

LEMMA RowIsHandler ==
    ASSUME NEW native, NEW size \in Nat \ {0}
    PROVE  IsHandler(Row(native, size))
<1> DEFINE d == <<size>>
<1>1. d \in Seq(Nat \ {0}) /\ Len(d) \in {1, 2}
  OBVIOUS
<1>2. Row(native, size) = [native |-> native, dims |-> d]
  BY DEF Row
<1> HIDE DEF d
<1> QED BY <1>1, <1>2 DEF IsHandler

LEMMA HandlerFacts ==
    ASSUME NEW s \in DataSource
    PROVE  IsHandler(Handler(s))
<1>1. s \in Nat /\ s <= NbOwnSources + Len(EnvironmentData) - 1 /\ Len(EnvironmentData) \in Nat
  <2>1. Len(EnvironmentData) \in Nat
    BY EnvironmentAssumption, LenProperties
  <2> QED BY <2>1, SourcesFacts DEF DataSource
<1>2. CASE s = 0
  <2>1. Handler(s) = Row("double", NbRegisters) /\ NbRegisters \in Nat \ {0}
    BY <1>2, SourcesFacts
  <2> QED BY <2>1, RowIsHandler
<1>3. CASE s # 0 /\ s < NbOwnSources
  <2>1. s = 1 /\ 1 < NbOwnSources /\ NbConstants \in Nat \ {0}
    BY <1>1, <1>3, SourcesFacts
  <2>2. Handler(s) = Row("Constant", NbConstants)
    BY <2>1, SourcesFacts
  <2> QED BY <2>1, <2>2, RowIsHandler
<1>4. CASE s # 0 /\ ~ (s < NbOwnSources)
  <2>1. s - NbOwnSources + 1 \in 1 .. Len(EnvironmentData)
    BY <1>1, <1>4, SourcesFacts
  <2> DEFINE h == EnvironmentData[s - NbOwnSources + 1]
  <2>2. h \in HandlerType
    BY <2>1, EnvironmentAssumption, ElementOfSeq
  <2>3. Handler(s) = h
    BY <1>4 DEF Handler
  <2> HIDE DEF h
  <2> QED BY <2>2, <2>3 DEF IsHandler, HandlerType, DataType
<1> QED BY <1>2, <1>3, <1>4

(* printDataAt computes the row of an element with the first dimension of the data when the
   operand is one-dimensional: the elements are the right ones if the data have one
   dimension, or as many rows as columns. *)
LEMMA ElementsPrinted ==
    ASSUME NEW line \in GoodLine, ~ TakesRowOfRectangle(line), NEW m \in 1 .. NbOperands(line)
    PROVE  PrintDataAt(Handler(line.ops[m].src), OperandType(line, m), Location(line, m)) = Accessed(line, m)
<1> DEFINE s == line.ops[m].src
           type == OperandType(line, m)
           h == Handler(s)
           loc == line.ops[m].loc
           address == ScaleLocation(h, loc, type)
<1>1. s \in DataSource /\ loc \in Nat /\ type \in DataType /\ CanHandle(h, type)
  BY OperandTaken
<1>2. Accessed(line, m) = AddressesAccessed(h, type, address) /\ Location(line, m) = address
  BY DEF Accessed, Location
<1>3. IsHandler(h)
  BY <1>1, HandlerFacts
<1>4. Len(h.dims) \in {1, 2} /\ Len(type.dims) \in Nat
  BY <1>1, <1>3, DimsFacts DEF IsHandler
<1>5. Len(type.dims) <= Len(h.dims)
  <2>1. AddressSpace(h, type) > 0
    BY <1>1 DEF CanHandle
  <2>2. ~ (Len(type.dims) > Len(h.dims))
    BY <2>1 DEF AddressSpace
  <2> QED BY <1>4, <2>2
<1>6. type.dims # <<>> => Len(type.dims) # 0
  BY <1>1, DimsFacts, EmptySeq
<1> HIDE DEF address, h, loc
<1> DEFINE lt == Len(type.dims)
           lh == Len(h.dims)
<1>10. (type.dims # <<>> /\ lh = 1 => lt = 1) /\ (type.dims # <<>> /\ lh # 1 => lh = 2 /\ lt \in {1, 2})
  <2>1. lt \in Nat /\ lh \in {1, 2} /\ lt <= lh /\ (type.dims # <<>> => lt # 0)
    BY <1>4, <1>5, <1>6
  <2> HIDE DEF lt, lh
  <2> QED BY <2>1
<1>7. CASE type.dims = <<>>
  BY <1>2, <1>7 DEF PrintDataAt, AddressesAccessed, h
<1>8. CASE type.dims # <<>> /\ Len(h.dims) = 1
  <2>1. Len(type.dims) = 1
    BY <1>8, <1>10
  <2>2. Width(type.dims) = type.dims[1]
    BY <1>8, <2>1 DEF Width
  <2>3. h.dims = <<h.dims[1]>> /\ h.dims[1] \in Nat \ {0} /\ h = Row(h.native, h.dims[1])
    <3>1. h.dims \in Seq(Nat \ {0})
      BY <1>3 DEF IsHandler
    <3>2. h.dims = <<h.dims[1]>> /\ h.dims[1] \in Nat \ {0}
      BY <1>8, <3>1, LenProperties, ElementOfSeq
    <3>3. h = [native |-> h.native, dims |-> h.dims]
      BY <1>3 DEF IsHandler
    <3> QED BY <3>2, <3>3 DEF Row
  <2>4. RowAddress(h, type, loc, h.dims[1])
    BY <1>1, <2>3, RowAddresses DEF h, loc
  <2>5. AddressesAccessed(h, type, address) = [i \in 1 .. type.dims[1] |-> address + i - 1]
    BY <2>2, <2>4 DEF RowAddress, address
  <2>6. PrintDataAt(h, type, address) = [i \in 1 .. type.dims[1] |-> address + i - 1]
    BY <1>8 DEF PrintDataAt
  <2> QED BY <1>2, <2>5, <2>6 DEF h
<1>9. CASE type.dims # <<>> /\ Len(h.dims) # 1
  <2>1. Len(h.dims) = 2 /\ Len(type.dims) \in {1, 2}
    BY <1>9, <1>10
  <2>2. Width(h.dims) = h.dims[2]
    <3>1. h.dims # <<>>
      BY <2>1
    <3> QED BY <2>1, <3>1 DEF Width
  <2>3. h.dims[Len(type.dims)] = h.dims[2]
    <3>1. CASE Len(type.dims) = 1
      BY <2>1, <3>1 DEF TakesRowOfRectangle, h
    <3> QED BY <2>1, <3>1
  <2>4. PrintDataAt(h, type, address) = Block(h.dims[2], type, address)
    BY <1>9, <2>3 DEF PrintDataAt
  <2>5. AddressesAccessed(h, type, address) = Block(h.dims[2], type, address)
    BY <1>9, <2>2 DEF AddressesAccessed
  <2> QED BY <1>2, <2>4, <2>5 DEF h
<1> QED BY <1>7, <1>8, <1>9

LEMMA GeneratedLineRuns ==
    ASSUME NEW line \in GoodLine, ~ TakesRowOfRectangle(line), NEW R, NEW cs
    PROVE  RunBlock(R, GeneratedLine(line), cs) = ExecuteLine(R, line, cs)
<1> DEFINE ops == [m \in 1 .. NbOperands(line) |->
                     [variable |-> NameSourceData(line.ops[m].src),
                      elements |-> PrintDataAt(Handler(line.ops[m].src), OperandType(line, m), Location(line, m))]]
           block == GeneratedLine(line)
<1>1. block = [dest |-> line.dest, instr |-> line.instr, ops |-> ops]
  BY DEF GeneratedLine
<1> HIDE DEF ops, block
<1>2. block.dest = line.dest /\ block.instr = line.instr /\ block.ops = ops
  BY <1>1
<1>3. DOMAIN ops = 1 .. NbOperands(line)
  BY DEF ops
<1>4. ASSUME NEW m \in 1 .. NbOperands(line)
      PROVE  ValueAt(SourceNamed(ops[m].variable), ops[m].elements, R, cs)
               = ValueAt(line.ops[m].src, Accessed(line, m), R, cs)
  <2>1. /\ ops[m].variable = NameSourceData(line.ops[m].src)
        /\ ops[m].elements = PrintDataAt(Handler(line.ops[m].src), OperandType(line, m), Location(line, m))
    BY DEF ops
  <2>2. SourceNamed(ops[m].variable) = line.ops[m].src
    BY <2>1, OperandTaken, SourceOfName
  <2>3. ops[m].elements = Accessed(line, m)
    BY <2>1, ElementsPrinted
  <2> QED BY <2>2, <2>3
<1> DEFINE a == [m \in DOMAIN ops |-> ValueAt(SourceNamed(ops[m].variable), ops[m].elements, R, cs)]
           b == [m \in 1 .. NbOperands(line) |-> ValueAt(line.ops[m].src, Accessed(line, m), R, cs)]
<1>5. a = b
  BY <1>3, <1>4
<1>6. RunBlock(R, block, cs) = [R EXCEPT ![line.dest] = <<"result", line.instr, a>>]
  BY <1>2 DEF RunBlock
<1>7. ExecuteLine(R, line, cs) = [R EXCEPT ![line.dest] = <<"result", line.instr, b>>]
  BY DEF ExecuteLine
<1> HIDE DEF a, b
<1> QED BY <1>5, <1>6, <1>7 DEF block

(* Two runs of the same lines go through the same registers. *)
LEMMA RunsAgree ==
    ASSUME NEW lines, Len(lines) \in Nat, NEW cs, NEW R, NEW Q, IsRun(R, lines, cs), IsRun(Q, lines, cs)
    PROVE  R[Len(lines)] = Q[Len(lines)]
<1> DEFINE n == Len(lines)
           B == {i \in 0 .. n : R[i] # Q[i]}
<1>1. R[0] = Q[0] /\ \A i \in 1 .. n : R[i - 1] = Q[i - 1] => R[i] = Q[i]
  BY DEF IsRun
<1> HIDE DEF n
<1>2. n \in Nat
  BY DEF n
<1>3. B = {}
  <2>1. 0 \notin B /\ B \in SUBSET (0 .. n)
    BY <1>1
  <2>2. ASSUME NEW i \in 1 .. n, i \in B PROVE i - 1 \in B
    <3>1. i - 1 \in 0 .. n
      BY <1>2
    <3> QED BY <1>1, <2>2, <3>1
  <2> HIDE DEF B
  <2> QED BY <1>2, <2>1, <2>2, NoFirstFailure
<1>4. n \in 0 .. n
  BY <1>2
<1> QED BY <1>3, <1>4 DEF n

LEMMA GeneratedRuns ==
    ASSUME NEW p, p.lines \in Seq(GoodMarkedLine),
           \A l \in ToSet(UsefulLines(p.lines)) : ~ TakesRowOfRectangle(l.line)
    PROVE  RunGenerated(GenerateProgram(p)) = ExecuteProgram(p)
<1> DEFINE sel == UsefulLines(p.lines)
           n == Len(sel)
           cs == p.constants
           blocks == [i \in DOMAIN sel |-> GeneratedLine(sel[i].line)]
           Step(g) == [s \in SUBSET DOMAIN blocks |->
                         IF s = {} THEN [r \in Register |-> Zero]
                         ELSE RunBlock(g[s \ {Max(s)}], blocks[Max(s)], cs)]
           f == CHOOSE g : g = Step(g)
<1>1. sel \in Seq(GoodMarkedLine)
  BY UsefulPlaces
<1>2. n \in Nat /\ DOMAIN sel = 1 .. n
  BY <1>1, LenProperties
<1>3. RunGenerated(GenerateProgram(p)) = f[DOMAIN blocks][0]
  <2>1. GenerateProgram(p) = [cst |-> cs, blocks |-> blocks]
    BY DEF GenerateProgram
  <2> DEFINE code == GenerateProgram(p)
  <2> HIDE DEF blocks, cs, code
  <2>2. code.cst = cs /\ code.blocks = blocks
    BY <2>1 DEF code
  <2>3. RunGenerated(code) = f[DOMAIN blocks][0]
    BY <2>2 DEF RunGenerated, FoldLeft, MapThenFoldSet
  <2> QED BY <2>3 DEF code
<1>4. ExecuteProgram(p) = Execute(sel, cs)
  BY DEF ExecuteProgram, ExecutedLines
<1> HIDE DEF sel, cs
<1>5. ASSUME NEW i \in 1 .. n, NEW R PROVE RunBlock(R, blocks[i], cs) = ExecuteLine(R, sel[i].line, cs)
  <2>1. sel[i] \in GoodMarkedLine
    BY <1>1, ElementOfSeq
  <2>2. sel[i].line \in GoodLine
    BY <2>1 DEF GoodMarkedLine
  <2>3. blocks[i] = GeneratedLine(sel[i].line)
    BY <1>2
  <2>4. ~ TakesRowOfRectangle(sel[i].line)
    <3>1. sel[i] \in ToSet(sel)
      BY <1>2 DEF ToSet
    <3> QED BY <3>1 DEF sel
  <2> QED BY <2>2, <2>3, <2>4, GeneratedLineRuns
<1>6. DOMAIN blocks = 1 .. n
  BY <1>2
<1> HIDE DEF blocks
<1>7. ASSUME NEW g PROVE Step(g) = [s \in SUBSET (1 .. n) |-> RunValue(g, sel, cs, s)]
  <2>1. ASSUME NEW s \in SUBSET (1 .. n)
        PROVE  (IF s = {} THEN [r \in Register |-> Zero] ELSE RunBlock(g[s \ {Max(s)}], blocks[Max(s)], cs))
                 = RunValue(g, sel, cs, s)
    <3>1. CASE s = {}
      BY <3>1 DEF RunValue, Fresh
    <3>2. CASE s # {}
      <4>1. Max(s) \in 1 .. n
        BY <1>2, <3>2, LastOfSubset
      <4>2. RunBlock(g[s \ {Max(s)}], blocks[Max(s)], cs) = ExecuteLine(g[s \ {Max(s)}], sel[Max(s)].line, cs)
        BY <1>5, <4>1
      <4> QED BY <3>2, <4>2 DEF RunValue
    <3> QED BY <3>1, <3>2
  <2> QED BY <1>6, <2>1
<1> HIDE DEF Step
<1>8. PICK v : IsRunFold(v, n, sel, cs)
  BY <1>2, RunExists
<1>9. v = Step(v)
  BY <1>7, <1>8 DEF IsRunFold
<1>10. f = Step(f)
  BY <1>9
<1> HIDE DEF f
<1>11. IsRunFold(f, n, sel, cs)
  BY <1>7, <1>10 DEF IsRunFold
<1>12. PICK R : IsRun(R, sel, cs) /\ f[1 .. n] = R[n]
  BY <1>2, <1>11, RunsOfFold
<1>13. PICK Q : IsRun(Q, sel, cs) /\ Execute(sel, cs) = Q[n][0]
  BY <1>1, ExecutionRun
<1>14. R[n] = Q[n]
  BY <1>2, <1>12, <1>13, RunsAgree
<1> QED BY <1>3, <1>4, <1>6, <1>12, <1>13, <1>14

-----------------------------------------------------------------------------
(* Mutations of a line *)

LEMMA SameSources ==
    ASSUME NEW line, NEW l, l.instr = line.instr
    PROVE  \A m : SourcesFor(l, m) = SourcesFor(line, m)
BY DEF SourcesFor, NbOperands, OperandType

LEMMA AlteredIsGood ==
    ASSUME NEW line \in GoodLine, NEW l \in AlteredLines(line)
    PROVE  l \in GoodLine
<1>1. /\ line = [instr |-> line.instr, dest |-> line.dest, ops |-> line.ops]
      /\ line.instr \in DOMAIN Instructions /\ line.dest \in Register
      /\ line.ops \in [1 .. MaxNbOperands -> Operand] /\ LineCorrect(line)
  BY DEF GoodLine, Line
<1>2. ASSUME l \in InstructionAltered(line) PROVE l \in GoodLine
  <2> DEFINE S == [1 .. MaxNbOperands -> DataSource]
             Ops(f) == [n \in 1 .. MaxNbOperands |-> [src |-> f[n], loc |-> line.ops[n].loc]]
             Changed(i, f) == [line EXCEPT !.instr = i, !.ops = Ops(f)]
  <2>1. LineCorrect(l) /\ \E i \in DOMAIN Instructions : \E f \in S : l = Changed(i, f)
    <3> DEFINE Altered == {Changed(i, f) : i \in DOMAIN Instructions \ {line.instr}, f \in S}
               Kept(k) == \A n \in 1 .. MaxNbOperands :
                             line.ops[n].src \in SourcesFor(k, n) => k.ops[n] = line.ops[n]
    <3>1. InstructionAltered(line) = IF NbRegisters = 1 THEN {} ELSE {k \in Altered : LineCorrect(k) /\ Kept(k)}
      BY DEF InstructionAltered
    <3> HIDE DEF Kept, Altered
    <3>2. LineCorrect(l) /\ l \in Altered
      BY <1>2, <3>1
    <3> HIDE DEF Changed, S
    <3> QED BY <3>2 DEF Altered
  <2>2. PICK i \in DOMAIN Instructions, f \in S : l = Changed(i, f)
    BY <2>1
  <2>3. Ops(f) \in [1 .. MaxNbOperands -> Operand]
    <3>1. ASSUME NEW n \in 1 .. MaxNbOperands
          PROVE  [src |-> f[n], loc |-> line.ops[n].loc] \in Operand
      BY <1>1 DEF Operand
    <3> QED BY <3>1
  <2> HIDE DEF Ops
  <2>4. l = [instr |-> i, dest |-> line.dest, ops |-> Ops(f)]
    BY <1>1, <2>2
  <2>5. l \in Line
    BY <1>1, <2>3, <2>4 DEF Line
  <2> QED BY <2>1, <2>5 DEF GoodLine
<1>3. ASSUME l \in DestinationAltered(line) PROVE l \in GoodLine
  <2>1. CASE l = line
    BY <2>1
  <2>2. CASE l # line
    <3>1. PICK d \in Register : l = [line EXCEPT !.dest = d]
      BY <1>3, <2>2 DEF DestinationAltered
    <3>2. l = [instr |-> line.instr, dest |-> d, ops |-> line.ops]
      BY <1>1, <3>1
    <3>3. l \in Line
      BY <1>1, <3>2 DEF Line
    <3>4. LineCorrect(l)
      <4>1. l.instr = line.instr /\ l.ops = line.ops
        BY <3>2
      <4> QED BY <1>1, <4>1, SameSources DEF LineCorrect
    <3> QED BY <3>3, <3>4 DEF GoodLine
  <2> QED BY <2>1, <2>2
<1>4. ASSUME NEW m \in 1 .. MaxNbOperands, NEW op \in Operand, op.src \in SourcesFor(line, m),
             l = [line EXCEPT !.ops = [line.ops EXCEPT ![m] = op]]
      PROVE  l \in GoodLine
  <2> DEFINE o == [line.ops EXCEPT ![m] = op]
  <2>1. o \in [1 .. MaxNbOperands -> Operand] /\ o[m] = op
        /\ \A k \in (1 .. MaxNbOperands) \ {m} : o[k] = line.ops[k]
    BY <1>1
  <2> HIDE DEF o
  <2>2. l = [instr |-> line.instr, dest |-> line.dest, ops |-> o]
    BY <1>1, <1>4 DEF o
  <2>3. l \in Line
    BY <1>1, <2>1, <2>2 DEF Line
  <2>4. LineCorrect(l)
    <3>1. l.instr = line.instr /\ l.ops = o
      BY <2>2
    <3>2. ASSUME NEW k \in 1 .. MaxNbOperands PROVE o[k].src \in SourcesFor(line, k)
      <4>1. CASE k = m
        BY <1>4, <2>1, <4>1
      <4>2. CASE k # m
        BY <1>1, <2>1, <4>2 DEF LineCorrect
      <4> QED BY <4>1, <4>2
    <3> QED BY <3>1, <3>2, SameSources DEF LineCorrect
  <2> QED BY <2>3, <2>4 DEF GoodLine
<1>5. ASSUME NEW m \in 1 .. MaxNbOperands
      PROVE  /\ line.ops[m] = [src |-> line.ops[m].src, loc |-> line.ops[m].loc]
             /\ line.ops[m].loc \in DrawnLocation
             /\ line.ops[m].src \in DataSource /\ line.ops[m].src \in SourcesFor(line, m)
  <2>1. line.ops[m] \in Operand
    BY <1>1
  <2> QED BY <1>1, <2>1 DEF Operand, LineCorrect
<1>6. ASSUME NEW m \in 1 .. MaxNbOperands, l \in SourceAltered(line, m) PROVE l \in GoodLine
  <2>1. CASE l = line
    BY <2>1
  <2>2. CASE l # line
    <3>1. PICK s \in SourcesFor(line, m) : l = [line EXCEPT !.ops[m].src = s]
      BY <1>6, <2>2 DEF SourceAltered
    <3>2. s \in DataSource
      BY DEF SourcesFor
    <3> DEFINE op == [src |-> s, loc |-> line.ops[m].loc]
    <3>3. op \in Operand /\ op.src \in SourcesFor(line, m)
      BY <1>5, <3>2 DEF Operand
    <3>4. op = [line.ops[m] EXCEPT !.src = s]
      <4> DEFINE old == line.ops[m]
                 s0 == line.ops[m].src
                 a0 == line.ops[m].loc
      <4>1. old = [src |-> s0, loc |-> a0]
        BY <1>5
      <4> HIDE DEF old, s0, a0
      <4>2. [old EXCEPT !.src = s] = [src |-> s, loc |-> a0]
        BY <4>1
      <4> QED BY <4>2 DEF old, a0
    <3>5. l = [line EXCEPT !.ops = [line.ops EXCEPT ![m] = [line.ops[m] EXCEPT !.src = s]]]
      BY <1>1, <3>1
    <3> HIDE DEF op
    <3> QED BY <1>4, <3>3, <3>4, <3>5
  <2> QED BY <2>1, <2>2
<1>7. ASSUME NEW m \in 1 .. MaxNbOperands, l \in LocationAltered(line, m) PROVE l \in GoodLine
  <2>1. PICK a \in DrawnLocation : l = [line EXCEPT !.ops[m].loc = a]
    BY <1>7 DEF LocationAltered
  <2> DEFINE op == [src |-> line.ops[m].src, loc |-> a]
  <2>2. op \in Operand /\ op.src \in SourcesFor(line, m)
    BY <1>5 DEF Operand
  <2>3. op = [line.ops[m] EXCEPT !.loc = a]
    <3> DEFINE old == line.ops[m]
               s0 == line.ops[m].src
               a0 == line.ops[m].loc
    <3>1. old = [src |-> s0, loc |-> a0]
      BY <1>5
    <3> HIDE DEF old, s0, a0
    <3>2. [old EXCEPT !.loc = a] = [src |-> s0, loc |-> a]
      BY <3>1
    <3> QED BY <3>2 DEF old, s0
  <2>4. l = [line EXCEPT !.ops = [line.ops EXCEPT ![m] = [line.ops[m] EXCEPT !.loc = a]]]
    BY <1>1, <2>1
  <2> HIDE DEF op
  <2> QED BY <1>4, <2>2, <2>3, <2>4
<1> QED BY <1>2, <1>3, <1>6, <1>7 DEF AlteredLines

LEMMA RemovedInSeq ==
    ASSUME NEW S, NEW q \in Seq(S), NEW i \in 1 .. Len(q)
    PROVE  RemoveAt(q, i) \in Seq(S)
<1>1. Len(q) \in Nat /\ i \in Int /\ \A j \in 1 .. Len(q) : q[j] \in S
  BY LenProperties, ElementOfSeq
<1>2. SubSeq(q, 1, i - 1) \in Seq(S)
  <2>1. \A j \in 1 .. (i - 1) : q[j] \in S
    BY <1>1
  <2> QED BY <1>1, <2>1, SubSeqProperties
<1>3. SubSeq(q, i + 1, Len(q)) \in Seq(S)
  <2>1. \A j \in (i + 1) .. Len(q) : q[j] \in S
    BY <1>1
  <2> QED BY <1>1, <2>1, SubSeqProperties
<1> QED BY <1>2, <1>3, ConcatProperties DEF RemoveAt

LEMMA InsertedInSeq ==
    ASSUME NEW S, NEW q \in Seq(S), NEW i \in 1 .. Len(q) + 1, NEW e \in S
    PROVE  InsertAt(q, i, e) \in Seq(S)
<1>1. Len(q) \in Nat /\ i \in Int /\ \A j \in 1 .. Len(q) : q[j] \in S
  BY LenProperties, ElementOfSeq
<1>2. SubSeq(q, 1, i - 1) \in Seq(S)
  <2>1. \A j \in 1 .. (i - 1) : q[j] \in S
    BY <1>1
  <2> QED BY <1>1, <2>1, SubSeqProperties
<1>3. SubSeq(q, i, Len(q)) \in Seq(S)
  <2>1. \A j \in i .. Len(q) : q[j] \in S
    BY <1>1
  <2> QED BY <1>1, <2>1, SubSeqProperties
<1>4. <<e>> \in Seq(S)
  OBVIOUS
<1> QED BY <1>2, <1>3, <1>4, ConcatProperties DEF InsertAt

LEMMA SwappedInSeq ==
    ASSUME NEW S, NEW q \in Seq(S), NEW i \in 1 .. Len(q), NEW j \in 1 .. Len(q)
    PROVE  SwapLines(q, i, j) \in Seq(S)
<1>1. q[i] \in S /\ q[j] \in S
  BY ElementOfSeq
<1> DEFINE t == [q EXCEPT ![i] = q[j]]
<1>2. t \in Seq(S) /\ Len(t) = Len(q)
  BY <1>1, ExceptSeq
<1>3. SwapLines(q, i, j) = [t EXCEPT ![j] = q[i]]
  BY DEF SwapLines
<1> HIDE DEF t
<1> QED BY <1>1, <1>2, <1>3, ExceptSeq

-----------------------------------------------------------------------------
(* The inductive invariant.  Outside of a mutation, and in one that has changed nothing so far,
   the marks of introns are right.  A mutation that changed something leaves them stale; it
   ends by marking the lines again, as initRandomProgram does. *)

IsProgram(p) == /\ p = [lines |-> p.lines, constants |-> p.constants]
                /\ p.lines \in Seq(GoodMarkedLine)

Mutating == {"delete", "add", "alter", "swap", "constant", "identify"}

MarksAreRight == pc = "idle" \/ (pc \in Mutating /\ anyMutation = FALSE) => IsMarked(program.lines)

Inv == IsProgram(program) /\ anyMutation \in BOOLEAN /\ MarksAreRight

LEMMA EmptyIsMarked == IsMarked(<<>>)
<1> DEFINE need == [i \in 0 .. 0 |-> {0}]
<1>1. Len(<<>>) = 0
  OBVIOUS
<1>2. need \in [0 .. 0 -> SUBSET Register] /\ need[0] = {0}
  BY SourcesFacts
<1>3. 1 .. 0 = {}
  OBVIOUS
<1>4. Marking(need, <<>>)
  <2> HIDE DEF need
  <2> QED BY <1>1, <1>2, <1>3 DEF Marking
<1> QED BY <1>1, <1>2, <1>4 DEF IsMarked

LEMMA RightLineInserted ==
    ASSUME IsProgram(program), InsertRandomLine
    PROVE  IsProgram(program')
<1>1. PICK idx \in 1 .. NbLines + 1, line \in RandomCorrectLines :
         program' = [program EXCEPT !.lines = AddNewLine(@, idx, line)]
  BY DEF InsertRandomLine
<1> DEFINE e == [line |-> line, intron |-> FALSE]
           q == InsertAt(program.lines, idx, e)
<1>2. e \in GoodMarkedLine
  BY DEF RandomCorrectLines, GoodMarkedLine, GoodLine
<1>3. q \in Seq(GoodMarkedLine)
  <2> HIDE DEF e
  <2> QED BY <1>2, InsertedInSeq DEF IsProgram, NbLines
<1>4. program' = [lines |-> q, constants |-> program.constants]
  <2>1. program' = [program EXCEPT !.lines = q]
    BY <1>1 DEF AddNewLine
  <2> HIDE DEF q
  <2> QED BY <2>1 DEF IsProgram
<1> HIDE DEF q
<1> QED BY <1>3, <1>4 DEF IsProgram

LEMMA InitInv == Init => Inv
<1> SUFFICES ASSUME Init PROVE Inv
  OBVIOUS
<1>1. program = [lines |-> <<>>, constants |-> NoConstant]
  BY DEF Init
<1>2. <<>> \in Seq(GoodMarkedLine)
  BY EmptySeq
<1>3. program.lines = <<>> /\ program = [lines |-> program.lines, constants |-> program.constants]
  BY <1>1
<1>4. anyMutation = FALSE
  BY DEF Init
<1> QED BY <1>2, <1>3, <1>4, EmptyIsMarked DEF Inv, IsProgram, MarksAreRight

LEMMA NextInv == Inv /\ [Next]_vars => Inv'
<1> SUFFICES ASSUME Inv, [Next]_vars PROVE Inv'
  OBVIOUS
<1> DEFINE lines == program.lines
           cs == program.constants
<1>1. program = [lines |-> lines, constants |-> cs] /\ lines \in Seq(GoodMarkedLine)
  BY DEF Inv, IsProgram
<1>2. IsProgram(program) /\ anyMutation \in BOOLEAN /\ MarksAreRight
  BY DEF Inv
<1>3. ASSUME NEW q \in Seq(GoodMarkedLine), NEW ds, program' = [lines |-> q, constants |-> ds]
      PROVE  IsProgram(program') /\ program'.lines = q /\ program'.constants = ds
  BY <1>3 DEF IsProgram
<1>4. ASSUME NEW q, program' = [program EXCEPT !.lines = q]
      PROVE  program' = [lines |-> q, constants |-> cs]
  BY <1>1, <1>4
<1> HIDE DEF lines, cs
<1>5. IdentifyIntrons(lines) \in Seq(GoodMarkedLine) /\ IsMarked(IdentifyIntrons(lines))
  BY <1>1, IntronsIdentified
<1>6. CASE InitRandomProgram
  <2>1. PICK c \in Constants : program' = [lines |-> <<>>, constants |-> c]
    BY <1>6 DEF InitRandomProgram
  <2>2. IsProgram(program')
    <3>1. <<>> \in Seq(GoodMarkedLine)
      BY EmptySeq
    <3> QED BY <1>3, <2>1, <3>1
  <2>3. pc' = "insert" /\ anyMutation' = anyMutation
    BY <1>6 DEF InitRandomProgram
  <2> QED BY <1>2, <2>2, <2>3 DEF Inv, MarksAreRight, Mutating
<1>7. CASE InsertLine
  <2>1. IsProgram(program') /\ pc' = "insert" /\ anyMutation' = anyMutation
    BY <1>2, <1>7, RightLineInserted DEF InsertLine
  <2> QED BY <1>2, <2>1 DEF Inv, MarksAreRight, Mutating
<1>8. CASE EndInit
  <2>1. program' = [lines |-> IdentifyIntrons(lines), constants |-> cs]
    BY <1>4, <1>8 DEF EndInit, lines
  <2>2. IsProgram(program') /\ program'.lines = IdentifyIntrons(lines)
    BY <1>3, <1>5, <2>1
  <2>3. anyMutation' = anyMutation
    BY <1>8 DEF EndInit
  <2> QED BY <1>2, <1>5, <2>2, <2>3 DEF Inv, MarksAreRight
<1>9. CASE MutateProgram
  <2>1. program' = program /\ pc = "idle" /\ anyMutation' = FALSE
    BY <1>9 DEF MutateProgram
  <2> QED BY <1>2, <2>1 DEF Inv, MarksAreRight, IsProgram
<1>10. CASE DeleteRandomLine
  <2>1. PICK i \in 1 .. Len(lines) : program' = [lines |-> RemoveAt(lines, i), constants |-> cs]
    BY <1>4, <1>10 DEF DeleteRandomLine, NbLines, lines
  <2>2. RemoveAt(lines, i) \in Seq(GoodMarkedLine)
    BY <1>1, RemovedInSeq
  <2>3. IsProgram(program') /\ anyMutation' = TRUE /\ pc' = "add"
    BY <1>3, <1>10, <2>1, <2>2 DEF DeleteRandomLine, Goto
  <2> QED BY <2>3 DEF Inv, MarksAreRight
<1>11. CASE AddRandomLine
  <2>1. IsProgram(program') /\ anyMutation' = TRUE /\ pc' = "alter"
    BY <1>2, <1>11, RightLineInserted DEF AddRandomLine, Goto
  <2> QED BY <2>1 DEF Inv, MarksAreRight
<1>12. CASE AlterRandomLine
  <2>1. anyMutation' = TRUE /\ pc' = "swap"
    BY <1>12 DEF AlterRandomLine, Goto
  <2>2. CASE program' = program
    BY <1>2, <2>1, <2>2 DEF Inv, MarksAreRight
  <2>3. CASE program' # program
    <3>0. PICK i \in 1 .. Len(lines) : \E l \in AlteredLines(lines[i].line) :
             program' = [program EXCEPT !.lines[i].line = l]
      BY <1>12, <2>3 DEF AlterRandomLine, NbLines, lines
    <3>1. PICK l \in AlteredLines(lines[i].line) : program' = [program EXCEPT !.lines[i].line = l]
      BY <3>0
    <3> DEFINE m == [lines[i] EXCEPT !.line = l]
               q == [lines EXCEPT ![i] = m]
    <3>2. lines[i] \in GoodMarkedLine
      BY <1>1, ElementOfSeq
    <3>3. l \in GoodLine
      BY <3>2, AlteredIsGood DEF GoodMarkedLine
    <3>4. m \in GoodMarkedLine
      <4> DEFINE old == lines[i]
      <4> HIDE DEF old
      <4>1. old \in [line : GoodLine, intron : BOOLEAN]
        BY <3>2 DEF old, GoodMarkedLine
      <4>2. [old EXCEPT !.line = l] \in [line : GoodLine, intron : BOOLEAN]
        BY <3>3, <4>1
      <4> QED BY <4>2 DEF old, GoodMarkedLine
    <3>5. program' = [program EXCEPT !.lines = q]
      <4>1. [program EXCEPT !.lines[i].line = l]
              = [program EXCEPT !.lines = [program.lines EXCEPT ![i] = [program.lines[i] EXCEPT !.line = l]]]
        OBVIOUS
      <4> QED BY <3>1, <4>1 DEF lines
    <3> HIDE DEF m
    <3>6. q \in Seq(GoodMarkedLine)
      BY <1>1, <3>4, ExceptSeq
    <3> HIDE DEF q
    <3>7. IsProgram(program')
      BY <1>3, <1>4, <3>5, <3>6
    <3> QED BY <2>1, <3>7 DEF Inv, MarksAreRight
  <2> QED BY <2>2, <2>3
<1>13. CASE SwapRandomLines
  <2>1. anyMutation' = TRUE /\ pc' = "constant"
    BY <1>13 DEF SwapRandomLines, Goto
  <2>2. CASE program' = program
    BY <1>2, <2>1, <2>2 DEF Inv, MarksAreRight
  <2>3. CASE program' # program
    <3>1. PICK i \in 1 .. Len(lines), j \in 1 .. Len(lines) :
             program' = [program EXCEPT !.lines = SwapLines(lines, i, j)]
      BY <1>13, <2>3 DEF SwapRandomLines, NbLines, lines
    <3>2. SwapLines(lines, i, j) \in Seq(GoodMarkedLine)
      BY <1>1, SwappedInSeq
    <3>3. IsProgram(program')
      BY <1>3, <1>4, <3>1, <3>2
    <3> QED BY <2>1, <3>3 DEF Inv, MarksAreRight
  <2> QED BY <2>2, <2>3
<1>14. CASE AlterRandomConstant
  <2>1. anyMutation' = TRUE /\ pc' = "identify"
    BY <1>14 DEF AlterRandomConstant, Goto
  <2>2. PICK i \in 0 .. NbConstants - 1, c \in ConstantValue : program' = [program EXCEPT !.constants[i] = c]
    BY <1>14 DEF AlterRandomConstant
  <2> DEFINE ds == [cs EXCEPT ![i] = c]
  <2>3. program' = [lines |-> lines, constants |-> ds]
    <3>1. program' = [program EXCEPT !.constants = [program.constants EXCEPT ![i] = c]]
      BY <2>2
    <3>2. program' = [program EXCEPT !.constants = ds]
      BY <3>1 DEF cs
    <3> HIDE DEF ds
    <3> QED BY <1>1, <3>2
  <2> HIDE DEF ds
  <2>4. IsProgram(program')
    BY <1>1, <1>3, <2>3
  <2> QED BY <2>1, <2>4 DEF Inv, MarksAreRight
<1>15. CASE SkipMutation
  <2>1. program' = program /\ anyMutation' = anyMutation /\ pc \in DOMAIN Following
    BY <1>15 DEF SkipMutation
  <2>2. pc \in Mutating
    BY <2>1 DEF Following, Mutating
  <2>3. pc' # "idle"
    <3>1. pc' = Following[pc]
      BY <1>15 DEF SkipMutation, Goto
    <3> QED BY <2>1, <3>1 DEF Following
  <2> QED BY <1>2, <2>1, <2>2, <2>3 DEF Inv, MarksAreRight
<1>16. CASE EndMutation
  <2>1. pc = "identify" /\ pc \in Mutating
    BY <1>16 DEF EndMutation, Mutating
  <2>4. anyMutation' = FALSE
    BY <1>16 DEF EndMutation
  <2>2. CASE anyMutation = FALSE
    <3>1. program' = program
      BY <1>16, <2>2 DEF EndMutation
    <3>2. IsMarked(program.lines)
      BY <1>2, <2>1, <2>2 DEF MarksAreRight
    <3> QED BY <1>2, <2>4, <3>1, <3>2 DEF Inv, MarksAreRight
  <2>3. CASE anyMutation = TRUE
    <3>1. program' = [program EXCEPT !.lines = IdentifyIntrons(lines)]
      BY <1>16, <2>3 DEF EndMutation, lines
    <3>2. IsProgram(program') /\ program'.lines = IdentifyIntrons(lines)
      BY <1>3, <1>4, <1>5, <3>1
    <3> QED BY <1>5, <2>4, <3>2 DEF Inv, MarksAreRight
  <2> QED BY <1>2, <2>2, <2>3
<1>17. CASE ClearProgramIntrons
  <2>1. pc = "idle" /\ program' = [program EXCEPT !.lines = ClearIntrons(lines)] /\ anyMutation' = anyMutation
    BY <1>17 DEF ClearProgramIntrons, lines
  <2>2. IsMarked(lines)
    BY <1>2, <2>1 DEF MarksAreRight, lines
  <2>3. ClearIntrons(lines) \in Seq(GoodMarkedLine) /\ IsMarked(ClearIntrons(lines))
    BY <1>1, <2>2, UsefulPlaces, UsefulAreMarked DEF ClearIntrons
  <2>4. IsProgram(program') /\ program'.lines = ClearIntrons(lines)
    BY <1>3, <1>4, <2>1, <2>3
  <2> QED BY <1>2, <2>1, <2>3, <2>4 DEF Inv, MarksAreRight
<1>18. CASE UNCHANGED vars
  BY <1>2, <1>18 DEF vars, Inv, MarksAreRight
<1> QED BY <1>6, <1>7, <1>8, <1>9, <1>10, <1>11, <1>12, <1>13, <1>14, <1>15, <1>16, <1>17, <1>18 DEF Next

(* The lines of a program are correct, and its marks right whenever no mutation is under way. *)
LEMMA Invariance == Spec => []Inv
<1> QED BY InitInv, NextInv, PTL DEF Spec

(* Any sequence of initialisations, mutations and removals of introns leaves lines that can be
   executed: alterLine leaves the operands that its new instruction takes with sources that can
   provide them, the operands that were unused before included. *)
THEOREM LinesAlwaysCorrect == Spec => []LinesStayCorrect
<1>1. Inv => LinesStayCorrect
  <2> SUFFICES ASSUME Inv, NEW i \in 1 .. NbLines PROVE LineCorrect(program.lines[i].line)
    BY DEF LinesStayCorrect
  <2>1. program.lines[i] \in GoodMarkedLine
    BY ElementOfSeq DEF Inv, IsProgram, NbLines
  <2> QED BY <2>1 DEF GoodMarkedLine, GoodLine
<1> QED BY <1>1, Invariance, PTL

(* Outside of a mutation the lines marked as introns by the backward scan are exactly those that
   register 0 does not depend on when all lines are executed forward. *)
THEOREM IntronsAlwaysExact == Spec => []IntronsAreExact
<1>1. Inv => IntronsAreExact
  BY MarkedAreExact DEF Inv, IsProgram, MarksAreRight, IntronsAreExact
<1> QED BY <1>1, Invariance, PTL

(* The engine, which skips introns, gives the result of executing every line. *)
THEOREM IntronsNeverMatter == Spec => []IntronsDoNotMatter
<1>1. Inv => IntronsDoNotMatter
  <2> SUFFICES ASSUME Inv, pc = "idle"
               PROVE  ExecuteProgram(program) = Execute(program.lines, program.constants)
    BY DEF IntronsDoNotMatter
  <2>1. program.lines \in Seq(GoodMarkedLine) /\ IsMarked(program.lines)
    BY DEF Inv, IsProgram, MarksAreRight
  <2> QED BY <2>1, MarkedDoNotMatter DEF ExecuteProgram, ExecutedLines
<1> QED BY <1>1, Invariance, PTL

(* A program and what one removal, swap or change of a constant makes of it give the same result
   if hasIdenticalBehavior finds them identical, unless they differ by a constant of an array that
   is an operand. *)
THEOREM IdenticalAlwaysSameResult == Spec => []IdenticalProgramsGiveSameResult
<1>1. Inv => IdenticalProgramsGiveSameResult
  <2> SUFFICES ASSUME Inv, NEW p \in Variants, HasIdenticalBehavior(program, p),
                      \A l \in ToSet(UsefulLines(program.lines)) : ArraysAgree(program, p, l.line)
               PROVE  ExecuteProgram(program) = ExecuteProgram(p)
    BY DEF IdenticalProgramsGiveSameResult
  <2> DEFINE lines == program.lines
             Swaps == UNION {{SwapLines(lines, i, j) : j \in 1 .. NbLines} : i \in 1 .. NbLines}
             Removals == {RemoveAt(lines, i) : i \in 1 .. NbLines}
  <2>1. program = [lines |-> lines, constants |-> program.constants] /\ lines \in Seq(GoodMarkedLine)
    BY DEF Inv, IsProgram
  <2>2. Removals \subseteq Seq(GoodMarkedLine)
    BY <2>1, RemovedInSeq DEF NbLines
  <2>3. Swaps \subseteq Seq(GoodMarkedLine)
    <3>1. \A i, j \in 1 .. NbLines : SwapLines(lines, i, j) \in Seq(GoodMarkedLine)
      BY <2>1, SwappedInSeq DEF NbLines
    <3> QED BY <3>1
  <2>4. CASE \E c \in Constants : p = [program EXCEPT !.constants = c]
    <3>1. p.lines = lines
      BY <2>1, <2>4
    <3> QED BY <2>1, <3>1, IdenticalGiveSameResult
  <2>5. CASE \E ls \in Removals \cup Swaps : p = [program EXCEPT !.lines = IdentifyIntrons(ls)]
    <3> HIDE DEF Removals, Swaps
    <3>1. PICK ls \in Seq(GoodMarkedLine) : p = [program EXCEPT !.lines = IdentifyIntrons(ls)]
      BY <2>2, <2>3, <2>5
    <3>2. p.lines = IdentifyIntrons(ls)
      BY <2>1, <3>1
    <3>3. p.lines \in Seq(GoodMarkedLine)
      BY <3>2, IntronsIdentified
    <3> QED BY <2>1, <3>3, IdenticalGiveSameResult
  <2> QED BY <2>4, <2>5 DEF Variants
<1> QED BY <1>1, Invariance, PTL

(* The C code generated for a program computes what the program does, unless a line that is
   executed takes a row of data that are not as high as wide. *)
THEOREM GeneratedCodeAlwaysComputesResult == Spec => []GeneratedCodeComputesResult
<1>1. Inv => GeneratedCodeComputesResult
  BY GeneratedRuns DEF Inv, IsProgram, GeneratedCodeComputesResult
<1> QED BY <1>1, Invariance, PTL
=============================================================================

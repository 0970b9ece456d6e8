----------------------- MODULE InstrumentedTPG_proofs -----------------------
(***************************************************************************)
(* What the counters of an instrumented TPG say of the executions, for any *)
(* graphs, programs, data and number of engines, however they interleave.  *)
(***************************************************************************)
EXTENDS InstrumentedTPG, FiniteSetTheorems, WellFoundedInduction, SequenceTheorems, TLAPS

-----------------------------------------------------------------------------
(* Least elements.  They stand for induction: among the numbers, or the subsets of a finite set, at
   which something fails there would be a least one. *)

LEMMA LeastNatural ==
    ASSUME NEW T \in SUBSET Nat, T # {}
    PROVE  \E x \in T : \A y \in T : x <= y
<1> DEFINE R == OpToRel(<, Nat)
<1>1. IsWellFoundedOn(R, Nat)
  BY NatLessThanWellFounded
<1>2. \A x, y \in Nat : y < x => <<y, x>> \in R
  BY DEF OpToRel
<1> HIDE DEF R
<1>3. PICK x \in T : \A y \in T : ~ (<<y, x>> \in R)
  BY <1>1, WFMin
<1>4. ASSUME NEW y \in T PROVE x <= y
  <2>1. x \in Nat /\ y \in Nat /\ ~ (y < x)
    BY <1>2, <1>3
  <2> QED BY <2>1
<1> QED BY <1>4

(* Nothing fails if it fails neither at 0 nor first at a successor. *)
LEMMA NoFirstFailure ==
    ASSUME NEW n \in Nat, NEW T \in SUBSET (0 .. n), 0 \notin T,
           \A k \in 1 .. n : k \in T => k - 1 \in T
    PROVE  T = {}
<1> SUFFICES ASSUME T # {} PROVE FALSE
  OBVIOUS
<1>1. PICK x \in T : \A y \in T : x <= y
  <2>1. T \in SUBSET Nat
    OBVIOUS
  <2> QED BY <2>1, LeastNatural
<1>2. x \in 1 .. n
  OBVIOUS
<1>3. x - 1 \in T
  BY <1>2
<1> QED BY <1>1, <1>2, <1>3

LEMMA LastOfInterval ==
    ASSUME NEW n \in Nat \ {0}
    PROVE  Max(1 .. n) = n /\ (1 .. n) \ {n} = 1 .. (n - 1)
<1>1. n \in 1 .. n /\ \A m \in 1 .. n : n >= m
  OBVIOUS
<1>2. \A x \in 1 .. n : (\A m \in 1 .. n : x >= m) => x = n
  OBVIOUS
<1>3. Max(1 .. n) = n
  BY <1>1, <1>2 DEF Max
<1> QED BY <1>3

LEMMA LastOfSubset ==
    ASSUME NEW n \in Nat, NEW s \in SUBSET (1 .. n), s # {}
    PROVE  Max(s) \in s
<1> DEFINE T == {n - i : i \in s}
<1>1. T \in SUBSET Nat /\ T # {}
  <2>1. \A i \in s : n - i \in Nat
    OBVIOUS
  <2> QED BY <2>1
<1>2. PICK x \in T : \A y \in T : x <= y
  BY <1>1, LeastNatural
<1>3. PICK last \in s : x = n - last
  BY <1>2
<1>4. \A i \in s : last >= i
  BY <1>2, <1>3
<1> QED BY <1>4 DEF Max

LEMMA SmallestSet ==
    ASSUME NEW U, IsFiniteSet(U), NEW B \in SUBSET (SUBSET U), B # {}
    PROVE  \E s \in B : \A x \in s : s \ {x} \notin B
<1> DEFINE T == {Cardinality(s) : s \in B}
<1>1. ASSUME NEW s \in SUBSET U PROVE IsFiniteSet(s) /\ Cardinality(s) \in Nat
  BY FS_Subset, FS_CardinalityType
<1>2. T \in SUBSET Nat /\ T # {}
  BY <1>1
<1>3. PICK n \in T : \A m \in T : n <= m
  BY <1>2, LeastNatural
<1>4. PICK s \in B : n = Cardinality(s)
  BY <1>3
<1>5. ASSUME NEW x \in s, s \ {x} \in B PROVE FALSE
  <2>1. n <= Cardinality(s \ {x})
    BY <1>3, <1>5
  <2>2. Cardinality(s \ {x}) = Cardinality(s) - 1
    BY <1>1, FS_RemoveElement
  <2> QED BY <1>1, <1>4, <2>1, <2>2
<1> QED BY <1>5

-----------------------------------------------------------------------------
(* Folds.  The definition of a fold is a choice among the functions that satisfy a recursive
   equation on the subsets of a finite set: there is one. *)

FoldValue(v, pick, base, H, s) ==
    IF s = {} THEN base ELSE H[pick[s]][v[s \ {pick[s]}]]

IsFold(v, U, pick, base, H) == \A s \in SUBSET U : v[s] = FoldValue(v, pick, base, H, s)

LEMMA FoldExists ==
    ASSUME NEW U, IsFiniteSet(U), NEW pick, \A s \in (SUBSET U) \ {{}} : pick[s] \in s,
           NEW X, NEW base \in X, NEW H \in [U -> [X -> X]]
    PROVE  \E v \in [SUBSET U -> X] : IsFold(v, U, pick, base, H)
<1> DEFINE S == SUBSET U
           n == Cardinality(U)
           Up(v, k) == \A s \in S : Cardinality(s) <= k => v[s] = FoldValue(v, pick, base, H, s)
           Reached(k) == \E v \in [S -> X] : Up(v, k)
           T == {k \in 0 .. n : ~ Reached(k)}
<1>0. n \in Nat
  BY FS_CardinalityType
<1>a. ASSUME NEW s \in S
      PROVE  /\ Cardinality(s) \in 0 .. n
             /\ \A x \in s : Cardinality(s \ {x}) = Cardinality(s) - 1
             /\ Cardinality(s) = 0 => s = {}
  <2>1. IsFiniteSet(s) /\ Cardinality(s) <= n
    BY FS_Subset
  <2>2. Cardinality(s) \in Nat /\ (Cardinality(s) = 0 => s = {})
    BY <2>1, FS_CardinalityType, FS_EmptySet
  <2>3. \A x \in s : Cardinality(s \ {x}) = Cardinality(s) - 1
    BY <2>1, FS_RemoveElement
  <2> HIDE DEF n
  <2> QED BY <1>0, <2>1, <2>2, <2>3
<1> HIDE DEF n
<1>1. Reached(0)
  <2> DEFINE v == [s \in S |-> base]
  <2>1. v \in [S -> X]
    OBVIOUS
  <2>2. ASSUME NEW s \in S, Cardinality(s) <= 0 PROVE v[s] = FoldValue(v, pick, base, H, s)
    <3>1. s = {}
      BY <1>a, <2>2
    <3> QED BY <3>1 DEF FoldValue
  <2>3. Up(v, 0)
    BY <2>2
  <2> QED BY <2>1, <2>3
<1>2. ASSUME NEW k \in 1 .. n, Reached(k - 1) PROVE Reached(k)
  <2>0. PICK v \in [S -> X] : Up(v, k - 1)
    BY <1>2
  <2> DEFINE w == [s \in S |-> IF Cardinality(s) = k THEN FoldValue(v, pick, base, H, s) ELSE v[s]]
  <2>1. ASSUME NEW s \in S, s # {}
        PROVE  /\ pick[s] \in U /\ s \ {pick[s]} \in S
               /\ Cardinality(s \ {pick[s]}) = Cardinality(s) - 1 /\ Cardinality(s) \in 0 .. n
    <3>1. pick[s] \in s
      BY <2>1
    <3> QED BY <1>a, <3>1
  <2>2. ASSUME NEW s \in S PROVE FoldValue(v, pick, base, H, s) \in X
    <3>1. CASE s = {}
      BY <3>1 DEF FoldValue
    <3>2. CASE s # {}
      <4>1. v[s \ {pick[s]}] \in X /\ H[pick[s]] \in [X -> X]
        BY <2>1, <3>2
      <4>2. H[pick[s]][v[s \ {pick[s]}]] \in X
        BY <4>1
      <4> QED BY <3>2, <4>2 DEF FoldValue
    <3> QED BY <3>1, <3>2
  <2>3. w \in [S -> X]
    BY <2>2
  <2>4. ASSUME NEW s \in S, Cardinality(s) <= k
        PROVE  w[s] = FoldValue(w, pick, base, H, s)
    <3>1. Cardinality(s) \in 0 .. n
      BY <1>a
    <3>2. w[s] = FoldValue(v, pick, base, H, s)
      <4>1. CASE Cardinality(s) = k
        BY <4>1
      <4>2. CASE Cardinality(s) <= k - 1
        <5>1. Cardinality(s) # k
          BY <1>0, <3>1, <4>2
        <5> QED BY <2>0, <4>2, <5>1
      <4> QED BY <1>0, <2>4, <3>1, <4>1, <4>2
    <3>3. s # {} => w[s \ {pick[s]}] = v[s \ {pick[s]}]
      <4> SUFFICES ASSUME s # {} PROVE w[s \ {pick[s]}] = v[s \ {pick[s]}]
        OBVIOUS
      <4>1. Cardinality(s \ {pick[s]}) # k
        BY <1>0, <2>1, <2>4
      <4> QED BY <2>1, <4>1
    <3> QED BY <3>2, <3>3 DEF FoldValue
  <2>5. Up(w, k)
    BY <2>4
  <2> QED BY <2>3, <2>5
<1>3. Reached(n)
  <2> HIDE DEF Reached
  <2>1. T \in SUBSET (0 .. n) /\ 0 \notin T
    BY <1>1
  <2>2. ASSUME NEW k \in 1 .. n, k \in T PROVE k - 1 \in T
    BY <1>0, <1>2, <2>2
  <2>3. T = {}
    <3> HIDE DEF T
    <3> QED BY <1>0, <2>1, <2>2, NoFirstFailure
  <2>4. n \in 0 .. n
    BY <1>0
  <2> QED BY <2>3, <2>4
<1>5. PICK v \in [S -> X] : Up(v, n)
  BY <1>3
<1>6. ASSUME NEW s \in S PROVE v[s] = FoldValue(v, pick, base, H, s)
  BY <1>0, <1>a, <1>5
<1> QED BY <1>6 DEF IsFold

-----------------------------------------------------------------------------
(* The inductive invariant.  Of a graph: its lists go together, it has no cycle and its teams have
   edges. *)

Leaving(g, v) == {e \in ToSet(g.edges) : e.src = v}
Arriving(g, v) == {e \in ToSet(g.edges) : e.dst = v}

Ranked(g) ==
    \E rank \in [ToSet(g.vertices) -> Nat] : \A e \in ToSet(g.edges) : rank[e.src] < rank[e.dst]

Proper(g) ==
    /\ IsOrderedGraph(g) /\ Ranked(g)
    /\ \A v \in ToSet(g.vertices) : IsTeam(g, v) => OutgoingEdges(g, v) # <<>>

Ids == {e.id : e \in Edges}

CounterType ==
    /\ visits \in [Vertices -> Nat]
    /\ edgeVisits \in [Ids -> Nat] /\ traversals \in [Ids -> Nat]
    /\ since \in Seq(ToSet(since))

(* Of an engine in state s: it follows edges of the graph, and evaluates those of a team. *)
IsWalk(g, trace) ==
    \A i \in 1 .. Len(trace) - 1 : \E e \in ToSet(g.edges) : e.src = trace[i] /\ e.dst = trace[i + 1]

At(s, v) == s.visited # <<>> /\ Last(s.visited) = v

Place(g, s) ==
    IF s.visited = <<>> THEN s = Idle
    ELSE LET out == OutgoingEdges(g, Last(s.visited))
         IN  /\ IsWalk(g, s.visited)
             /\ \/ s.next = 0
                \/ /\ IsTeam(g, Last(s.visited))
                   /\ s.next \in 1 .. Len(out) + 1 /\ s.best \in DOMAIN out

EngineType == [data : Data \cup {Idle.data}, visited : Seq(Vertices), next : Nat, best : Nat]

EngineInv == engine \in [Engine -> EngineType] /\ \A t \in Engine : Place(graph, engine[t])

(* The vertices that an engine has been counted in: all it visited, the last one only once its
   edges are evaluated. *)
Counted(s) ==
    {s.visited[i] : i \in 1 .. (IF s.next = 0 THEN Len(s.visited) - 1 ELSE Len(s.visited))}

(* Of the counters: what they say of the executions that ended, and of those that the engines are
   in the middle of. *)
Ended(v) == {i \in DOMAIN since : v \in ToSet(since[i].trace)}
Started(v) == {i \in DOMAIN since : v = Head(since[i].trace)}
CountedIn(v) == {t \in Engine : v \in Counted(engine[t])}
StartedFrom(v) == {t \in Engine : engine[t].visited # <<>> /\ v = Head(engine[t].visited)}
Entering(v) == {t \in Engine : At(engine[t], v) /\ engine[t].next = 0}
Evaluating(v) == {t \in Engine : At(engine[t], v) /\ engine[t].next # 0}
ToEvaluate(v, j) == {t \in Engine : At(engine[t], v) /\ engine[t].next \in 1 .. j}

(* The sum of the counters f of the edges S *)
Total(S, f) == SumOver(S, LAMBDA e : f[e.id])

VisitsOf(v) == visits[v] = Cardinality(Ended(v)) + Cardinality(CountedIn(v))

EntriesOf(v) ==
    visits[v] + Cardinality(Entering(v)) =
        Cardinality(Started(v)) + Cardinality(StartedFrom(v)) + Total(Arriving(graph, v), traversals)

ExitsOf(v) == visits[v] = Total(Leaving(graph, v), traversals) + Cardinality(Evaluating(v))

EdgesOf(v) ==
    \A j \in DOMAIN OutgoingEdges(graph, v) :
        visits[v] = edgeVisits[OutgoingEdges(graph, v)[j].id] + Cardinality(ToEvaluate(v, j))

CounterInv ==
    \A v \in Vertices : /\ VisitsOf(v) /\ EntriesOf(v)
                        /\ IsTeam(graph, v) => ExitsOf(v) /\ EdgesOf(v)

Inv == Proper(graph) /\ CounterType /\ EngineInv /\ CounterInv

-----------------------------------------------------------------------------
(* The elements of a sequence that are in a set: one is added after the other. *)

SelectStep(kept, x, S) == IF x \in S THEN Append(kept, x) ELSE kept

IsSelection(c, q, S) ==
    /\ c[0] = <<>>
    /\ \A i \in 1 .. Len(q) : c[i] = SelectStep(c[i - 1], q[i], S)

LEMMA SelectScan ==
    ASSUME NEW T, NEW q \in Seq(T), NEW S
    PROVE  \E c \in [0 .. Len(q) -> Seq(T \cap S)] : IsSelection(c, q, S) /\ SelectIn(q, S) = c[Len(q)]
<1> DEFINE n == Len(q)
           X == Seq(T \cap S)
           Step(g) == [s \in SUBSET DOMAIN q |->
                         IF s = {} THEN <<>> ELSE IF q[Max(s)] \in S THEN Append(g[s \ {Max(s)}], q[Max(s)])
                                                  ELSE g[s \ {Max(s)}]]
           f == CHOOSE g : g = Step(g)
           pick == [s \in SUBSET (1 .. n) |-> Max(s)]
           H == [i \in 1 .. n |-> [x \in X |-> SelectStep(x, q[i], S)]]
<1>1. SelectIn(q, S) = f[DOMAIN q]
  BY DEF SelectIn, FoldLeft, MapThenFoldSet
<1>2. n \in Nat /\ DOMAIN q = 1 .. n
  BY LenProperties
<1>3. \A i \in 1 .. n : q[i] \in T
  BY <1>2, ElementOfSeq
<1>4. <<>> \in X
  BY EmptySeq
<1>5. H \in [1 .. n -> [X -> X]]
  <2>1. ASSUME NEW i \in 1 .. n, NEW x \in X PROVE SelectStep(x, q[i], S) \in X
    BY <1>3, AppendProperties DEF SelectStep
  <2> HIDE DEF X
  <2> QED BY <2>1
<1>6. \A s \in (SUBSET (1 .. n)) \ {{}} : pick[s] \in s
  BY <1>2, LastOfSubset
<1> HIDE DEF X, H, pick
<1>7. PICK v \in [SUBSET (1 .. n) -> X] : IsFold(v, 1 .. n, pick, <<>>, H)
  <2>1. IsFiniteSet(1 .. n)
    BY <1>2, FS_Interval
  <2> HIDE DEF n
  <2> QED BY <2>1, <1>4, <1>5, <1>6, FoldExists
<1>8. ASSUME NEW s \in SUBSET (1 .. n)
      PROVE  v[s] = IF s = {} THEN <<>> ELSE IF q[Max(s)] \in S THEN Append(v[s \ {Max(s)}], q[Max(s)])
                                                  ELSE v[s \ {Max(s)}]
  <2>1. v[s] = FoldValue(v, pick, <<>>, H, s)
    BY <1>7 DEF IsFold
  <2>2. CASE s = {}
    BY <2>1, <2>2 DEF FoldValue
  <2>3. CASE s # {}
    <3>1. pick[s] = Max(s) /\ Max(s) \in 1 .. n
      BY <1>6, <2>3 DEF pick
    <3>2. s \ {Max(s)} \in SUBSET (1 .. n)
      OBVIOUS
    <3>3. v[s \ {Max(s)}] \in X
      BY <3>2
    <3>4. H[Max(s)][v[s \ {Max(s)}]] = SelectStep(v[s \ {Max(s)}], q[Max(s)], S)
      BY <3>1, <3>3 DEF H
    <3> QED BY <2>1, <2>3, <3>1, <3>4 DEF FoldValue, SelectStep
  <2> QED BY <2>2, <2>3
<1>9. v = Step(v)
  BY <1>2, <1>8
<1>10. f = Step(f)
  BY <1>9
<1> HIDE DEF f
<1>11. ASSUME NEW s \in SUBSET (1 .. n)
       PROVE  f[s] = IF s = {} THEN <<>> ELSE SelectStep(f[s \ {Max(s)}], q[Max(s)], S)
  BY <1>2, <1>10 DEF SelectStep
<1> DEFINE c == [i \in 0 .. n |-> f[1 .. i]]
<1>12. ASSUME NEW i \in 1 .. n PROVE f[1 .. i] = SelectStep(f[1 .. (i - 1)], q[i], S)
  <2>1. (1 .. i) \in SUBSET (1 .. n) /\ (1 .. i) # {}
    BY <1>2
  <2>2. Max(1 .. i) = i /\ (1 .. i) \ {i} = 1 .. (i - 1)
    BY <1>2, LastOfInterval
  <2> QED BY <1>11, <2>1, <2>2
<1>13. c[0] = <<>> /\ \A i \in 1 .. n : c[i] = SelectStep(c[i - 1], q[i], S)
  <2>1. f[1 .. 0] = <<>>
    <3>1. 1 .. 0 = {}
      OBVIOUS
    <3> QED BY <1>11, <3>1
  <2>2. \A i \in 1 .. n : i \in 0 .. n /\ i - 1 \in 0 .. n
    BY <1>2
  <2>3. 0 \in 0 .. n
    BY <1>2
  <2> QED BY <1>12, <2>1, <2>2, <2>3
<1>14. \A i \in 0 .. n : c[i] \in X
  <2> DEFINE B == {i \in 0 .. n : c[i] \notin X}
  <2> HIDE DEF c
  <2>1. 0 \notin B
    BY <1>4, <1>13
  <2>2. ASSUME NEW i \in 1 .. n, i \in B PROVE i - 1 \in B
    <3> SUFFICES ASSUME c[i - 1] \in X PROVE FALSE
      BY <1>2
    <3>1. c[i] = H[i][c[i - 1]]
      BY <1>13 DEF H
    <3>2. c[i] \in X
      BY <1>5, <3>1
    <3> QED BY <2>2, <3>2
  <2>3. B \in SUBSET (0 .. n)
    OBVIOUS
  <2>4. B = {}
    <3> HIDE DEF B
    <3> QED BY <1>2, <2>1, <2>2, <2>3, NoFirstFailure
  <2> QED BY <2>4
<1>15. c \in [0 .. n -> X]
  BY <1>14
<1>16. SelectIn(q, S) = c[n]
  BY <1>1, <1>2
<1> HIDE DEF c
<1> QED BY <1>13, <1>15, <1>16 DEF IsSelection, X

LEMMA SelectedElements ==
    ASSUME NEW T, NEW q \in Seq(T), NEW S
    PROVE  /\ SelectIn(q, S) \in Seq(T)
           /\ ToSet(SelectIn(q, S)) = ToSet(q) \cap S
           /\ (\A i, j \in DOMAIN q : q[i] = q[j] => i = j) =>
                 \A i, j \in DOMAIN SelectIn(q, S) :
                     SelectIn(q, S)[i] = SelectIn(q, S)[j] => i = j
<1> DEFINE n == Len(q)
           distinct == \A i, j \in 1 .. n : q[i] = q[j] => i = j
           Good(k, s) == /\ ToSet(s) = {q[i] : i \in 1 .. k} \cap S
                         /\ distinct => \A i, j \in DOMAIN s : s[i] = s[j] => i = j
<1>1. n \in Nat /\ DOMAIN q = 1 .. n /\ \A i \in 1 .. n : q[i] \in T
  BY LenProperties, ElementOfSeq
<1>2. PICK c \in [0 .. n -> Seq(T \cap S)] : IsSelection(c, q, S) /\ SelectIn(q, S) = c[n]
  BY SelectScan
<1> DEFINE B == {k \in 0 .. n : ~ Good(k, c[k])}
<1>3. 0 \notin B
  <2>1. c[0] = <<>>
    BY <1>2 DEF IsSelection
  <2>2. ToSet(<<>>) = {} /\ DOMAIN <<>> = {}
    BY DEF ToSet
  <2>3. {q[i] : i \in 1 .. 0} = {}
    OBVIOUS
  <2> QED BY <2>1, <2>2, <2>3
<1>4. ASSUME NEW k \in 1 .. n, Good(k - 1, c[k - 1]) PROVE Good(k, c[k])
  <2>1. c[k] = SelectStep(c[k - 1], q[k], S)
    BY <1>2 DEF IsSelection
  <2>2. c[k - 1] \in Seq(T \cap S)
    BY <1>1, <1>2
  <2> DEFINE s == c[k - 1]
  <2>3. {q[i] : i \in 1 .. k} = {q[i] : i \in 1 .. (k - 1)} \cup {q[k]}
    <3>1. 1 .. k = 1 .. (k - 1) \cup {k}
      BY <1>1
    <3> QED BY <3>1
  <2>4. distinct => q[k] \notin {q[i] : i \in 1 .. (k - 1)}
    BY <1>1
  <2>5. Len(s) \in Nat /\ DOMAIN s = 1 .. Len(s)
    BY <2>2, LenProperties
  <2> HIDE DEF s, distinct
  <2>6. CASE q[k] \in S
    <3>1. c[k] = Append(s, q[k])
      BY <2>1, <2>6 DEF SelectStep, s
    <3>2. /\ Len(Append(s, q[k])) = Len(s) + 1 /\ DOMAIN Append(s, q[k]) = 1 .. (Len(s) + 1)
          /\ \A i \in 1 .. Len(s) : Append(s, q[k])[i] = s[i]
          /\ Append(s, q[k])[Len(s) + 1] = q[k]
      <4>1. q[k] \in T \cap S
        BY <1>1, <2>6
      <4> QED BY <2>2, <4>1, AppendProperties, LenProperties DEF s
    <3> DEFINE a == Append(s, q[k])
    <3> HIDE DEF a
    <3>3. ToSet(a) = ToSet(s) \cup {q[k]}
      <4>1. 1 .. (Len(s) + 1) = 1 .. Len(s) \cup {Len(s) + 1}
        BY <2>5
      <4>2. ToSet(s) = {s[i] : i \in 1 .. Len(s)} /\ ToSet(a) = {a[i] : i \in 1 .. (Len(s) + 1)}
        BY <2>5, <3>2 DEF ToSet, a
      <4>3. {a[i] : i \in 1 .. (Len(s) + 1)} = {a[i] : i \in 1 .. Len(s)} \cup {a[Len(s) + 1]}
        BY <4>1
      <4>4. {a[i] : i \in 1 .. Len(s)} = {s[i] : i \in 1 .. Len(s)}
        BY <3>2 DEF a
      <4> QED BY <3>2, <4>2, <4>3, <4>4 DEF a
    <3>4. ASSUME distinct, NEW i \in DOMAIN a, NEW j \in DOMAIN a, a[i] = a[j] PROVE i = j
      <4>1. \A m \in 1 .. Len(s) : s[m] # q[k]
        <5>1. q[k] \notin ToSet(s)
          BY <1>4, <2>4, <3>4 DEF s
        <5> QED BY <2>5, <5>1 DEF ToSet
      <4>2. i \in 1 .. (Len(s) + 1) /\ j \in 1 .. (Len(s) + 1)
        BY <3>2 DEF a
      <4>3. i \in 1 .. Len(s) /\ j \in 1 .. Len(s) => i = j
        BY <1>4, <2>5, <3>2, <3>4 DEF s, a
      <4>4. i \in 1 .. Len(s) => a[i] = s[i]
        BY <3>2 DEF a
      <4>5. j \in 1 .. Len(s) => a[j] = s[j]
        BY <3>2 DEF a
      <4>6. a[Len(s) + 1] = q[k]
        BY <3>2 DEF a
      <4>7. i \in 1 .. Len(s) \/ i = Len(s) + 1
        BY <2>5, <4>2
      <4>8. j \in 1 .. Len(s) \/ j = Len(s) + 1
        BY <2>5, <4>2
      <4> QED BY <3>4, <4>1, <4>3, <4>4, <4>5, <4>6, <4>7, <4>8
    <3> QED BY <1>4, <2>3, <2>6, <3>1, <3>3, <3>4 DEF a, s
  <2>7. CASE q[k] \notin S
    <3>1. c[k] = s
      BY <2>1, <2>7 DEF SelectStep, s
    <3> QED BY <1>4, <2>3, <2>7, <3>1 DEF s
  <2> QED BY <2>6, <2>7
<1>5. Good(n, c[n])
  <2> HIDE DEF Good
  <2>1. B = {}
    <3>1. B \in SUBSET (0 .. n) /\ \A k \in 1 .. n : k \in B => k - 1 \in B
      BY <1>1, <1>4
    <3> HIDE DEF B, n
    <3> QED BY <1>1, <1>3, <3>1, NoFirstFailure
  <2> QED BY <1>1, <2>1
<1>6. c[n] \in Seq(T)
  <2>1. c[n] \in Seq(T \cap S)
    BY <1>1, <1>2
  <2>2. c[n] \in [1 .. Len(c[n]) -> T] /\ Len(c[n]) \in Nat
    BY <2>1, LenProperties, ElementOfSeq
  <2> QED BY <2>2
<1>7. ToSet(q) = {q[i] : i \in 1 .. n}
  BY <1>1 DEF ToSet
<1> QED BY <1>1, <1>2, <1>5, <1>6, <1>7

(* Order in a sequence: x comes first, or is y. *)
UpTo(q, x, y) == \E i, j \in DOMAIN q : i <= j /\ q[i] = x /\ q[j] = y

(* A selection keeps the order of what it selects. *)
LEMMA SelectKeepsOrder ==
    ASSUME NEW T, NEW q \in Seq(T), NEW S, NEW a \in DOMAIN SelectIn(q, S), NEW b \in DOMAIN SelectIn(q, S),
           a < b
    PROVE  UpTo(q, SelectIn(q, S)[a], SelectIn(q, S)[b])
<1> DEFINE n == Len(q)
           Ordered(k, s) ==
               /\ \A i \in DOMAIN s : \E x \in 1 .. k : q[x] = s[i]
               /\ \A i, j \in DOMAIN s : i < j => \E x, y \in 1 .. k : x <= y /\ q[x] = s[i] /\ q[y] = s[j]
<1>1. n \in Nat /\ DOMAIN q = 1 .. n /\ \A i \in 1 .. n : q[i] \in T
  BY LenProperties, ElementOfSeq
<1>2. PICK c \in [0 .. n -> Seq(T \cap S)] : IsSelection(c, q, S) /\ SelectIn(q, S) = c[n]
  BY SelectScan
<1> DEFINE B == {k \in 0 .. n : ~ Ordered(k, c[k])}
<1>3. 0 \notin B
  <2>1. c[0] = <<>> /\ DOMAIN <<>> = {}
    BY <1>2 DEF IsSelection
  <2> QED BY <2>1
<1>4. ASSUME NEW k \in 1 .. n, Ordered(k - 1, c[k - 1]) PROVE Ordered(k, c[k])
  <2>1. c[k] = SelectStep(c[k - 1], q[k], S)
    BY <1>2 DEF IsSelection
  <2>2. c[k - 1] \in Seq(T \cap S)
    BY <1>1, <1>2
  <2> DEFINE s == c[k - 1]
             m == Len(s)
  <2>3. m \in Nat /\ DOMAIN s = 1 .. m
    BY <2>2, LenProperties
  <2>4. \A x \in 1 .. (k - 1) : x \in 1 .. k /\ x <= k
    BY <1>1
  <2>5. Ordered(k, s)
    BY <1>4, <2>4
  <2>6. \A i \in DOMAIN s : \E x \in 1 .. k : x <= k /\ q[x] = s[i]
    BY <1>4, <2>4
  <2> HIDE DEF s
  <2>7. CASE q[k] \in S
    <3> DEFINE t == Append(s, q[k])
    <3>1. c[k] = t
      BY <2>1, <2>7 DEF SelectStep, s
    <3>2. /\ DOMAIN t = 1 .. (m + 1) /\ \A i \in 1 .. m : t[i] = s[i]
          /\ t[m + 1] = q[k]
      <4>1. q[k] \in T \cap S
        BY <1>1, <2>7
      <4> QED BY <2>2, <4>1, AppendProperties, LenProperties DEF s
    <3> HIDE DEF t, m
    <3>3. \A i \in DOMAIN t : i \in 1 .. m \/ i = m + 1
      BY <2>3, <3>2
    <3>4. k \in 1 .. k
      BY <1>1
    <3>5. \A i \in DOMAIN t : \E x \in 1 .. k : q[x] = t[i]
      BY <2>3, <2>6, <3>2, <3>3, <3>4
    <3>6. ASSUME NEW i \in DOMAIN t, NEW j \in DOMAIN t, i < j
          PROVE  \E x, y \in 1 .. k : x <= y /\ q[x] = t[i] /\ q[y] = t[j]
      <4>1. i \in 1 .. m
        BY <2>3, <3>2, <3>6
      <4>2. t[i] = s[i] /\ i \in DOMAIN s
        BY <2>3, <3>2, <4>1
      <4>3. CASE j \in 1 .. m
        <5>1. t[j] = s[j] /\ j \in DOMAIN s
          BY <2>3, <3>2, <4>3
        <5> QED BY <2>5, <3>6, <4>2, <5>1
      <4>4. CASE j = m + 1
        <5>1. PICK x \in 1 .. k : x <= k /\ q[x] = s[i]
          BY <2>6, <4>2
        <5> QED BY <3>2, <3>4, <4>2, <4>4, <5>1
      <4> QED BY <3>3, <4>3, <4>4
    <3> QED BY <3>1, <3>5, <3>6
  <2>8. CASE q[k] \notin S
    <3>1. c[k] = s
      BY <2>1, <2>8 DEF SelectStep, s
    <3> QED BY <2>5, <3>1
  <2> QED BY <2>7, <2>8
<1>5. Ordered(n, c[n])
  <2>1. B = {}
    <3>1. \A k \in 1 .. n : k \in B => k - 1 \in B
      <4>1. \A k \in 1 .. n : k - 1 \in 0 .. n
        BY <1>1
      <4> QED BY <1>4, <4>1
    <3>2. B \in SUBSET (0 .. n)
      OBVIOUS
    <3> HIDE DEF B
    <3> QED BY <1>1, <1>3, <3>1, <3>2, NoFirstFailure
  <2>2. n \in 0 .. n
    BY <1>1
  <2> HIDE DEF Ordered
  <2> QED BY <2>1, <2>2
<1>6. \E x, y \in 1 .. n : x <= y /\ q[x] = SelectIn(q, S)[a] /\ q[y] = SelectIn(q, S)[b]
  BY <1>2, <1>5
<1> QED BY <1>1, <1>6 DEF UpTo

LEMMA UpToBothWays ==
    ASSUME NEW T, NEW q \in Seq(T), \A i, j \in DOMAIN q : q[i] = q[j] => i = j,
           NEW x, NEW y, UpTo(q, x, y), UpTo(q, y, x)
    PROVE  x = y
<1>1. DOMAIN q = 1 .. Len(q) /\ Len(q) \in Nat
  BY LenProperties
<1>2. PICK i \in DOMAIN q, j \in DOMAIN q : i <= j /\ q[i] = x /\ q[j] = y
  BY DEF UpTo
<1>3. PICK k \in DOMAIN q, l \in DOMAIN q : k <= l /\ q[k] = y /\ q[l] = x
  BY DEF UpTo
<1>4. i = l /\ j = k
  BY <1>2, <1>3
<1> QED BY <1>1, <1>2, <1>3, <1>4

(* What comes first still comes first among the elements that are left. *)
LEMMA SelectUpTo ==
    ASSUME NEW T, NEW q \in Seq(T), \A i, j \in DOMAIN q : q[i] = q[j] => i = j, NEW S,
           NEW x \in ToSet(SelectIn(q, S)), NEW y \in ToSet(SelectIn(q, S)), UpTo(q, x, y)
    PROVE  UpTo(SelectIn(q, S), x, y)
<1> DEFINE s == SelectIn(q, S)
<1>1. s \in Seq(T)
  BY SelectedElements
<1>2. DOMAIN s = 1 .. Len(s) /\ Len(s) \in Nat
  BY <1>1, LenProperties
<1>3. PICK a \in DOMAIN s, b \in DOMAIN s : s[a] = x /\ s[b] = y
  BY DEF ToSet
<1>4. CASE a <= b
  BY <1>3, <1>4 DEF UpTo
<1>5. CASE b < a
  <2>1. UpTo(q, y, x)
    BY <1>3, <1>5, SelectKeepsOrder
  <2>2. x = y
    BY <2>1, UpToBothWays
  <2>3. a \in DOMAIN s /\ a <= a /\ s[a] = x /\ s[a] = y
    BY <1>2, <1>3, <2>2
  <2>4. UpTo(s, x, y)
    <3> HIDE DEF s
    <3> QED BY <2>3 DEF UpTo
  <2> QED BY <2>4
<1> QED BY <1>2, <1>3, <1>4, <1>5

-----------------------------------------------------------------------------
(* Sums: community operator SumFunctionOnSet(f, S) adds the values of the function f on the set S. *)
NatOn(S, f) == IsFiniteSet(S) /\ \A x \in S : f[x] \in Nat

Chosen(s) == CHOOSE x \in s : TRUE

IsSum(v, U, f) == \A s \in SUBSET U : v[s] = IF s = {} THEN 0 ELSE f[Chosen(s)] + v[s \ {Chosen(s)}]

LEMMA SumFold ==
    ASSUME NEW U, NEW f, NatOn(U, f)
    PROVE  \E v \in [SUBSET U -> Nat] : IsSum(v, U, f) /\ SumFunctionOnSet(f, U) = v[U]
<1> DEFINE Step(g) == [s \in SUBSET U |-> IF s = {} THEN 0
                                         ELSE f[CHOOSE x \in s : TRUE] + g[s \ {CHOOSE x \in s : TRUE}]]
           h == CHOOSE g : g = Step(g)
           pick == [s \in SUBSET U |-> Chosen(s)]
           H == [x \in U |-> [n \in Nat |-> f[x] + n]]
<1>1. SumFunctionOnSet(f, U) = h[U]
  BY DEF SumFunctionOnSet, FoldFunctionOnSet, MapThenFoldSet
<1>2. H \in [U -> [Nat -> Nat]]
  <2>1. ASSUME NEW x \in U, NEW n \in Nat PROVE f[x] + n \in Nat
    BY DEF NatOn
  <2> QED BY <2>1
<1>3. \A s \in (SUBSET U) \ {{}} : pick[s] \in s
  BY DEF Chosen
<1> HIDE DEF H, pick
<1>4. PICK v \in [SUBSET U -> Nat] : IsFold(v, U, pick, 0, H)
  <2>1. IsFiniteSet(U) /\ 0 \in Nat
    BY DEF NatOn
  <2> QED BY <1>2, <1>3, <2>1, FoldExists
<1>5. ASSUME NEW s \in SUBSET U
      PROVE  v[s] = IF s = {} THEN 0 ELSE f[Chosen(s)] + v[s \ {Chosen(s)}]
  <2>1. v[s] = FoldValue(v, pick, 0, H, s)
    BY <1>4 DEF IsFold
  <2>2. CASE s = {}
    BY <2>1, <2>2 DEF FoldValue
  <2>3. CASE s # {}
    <3>1. pick[s] = Chosen(s) /\ Chosen(s) \in U
      <4>1. pick[s] = Chosen(s)
        BY DEF pick
      <4> QED BY <1>3, <2>3, <4>1
    <3>2. v[s \ {Chosen(s)}] \in Nat
      BY <1>4
    <3>3. H[Chosen(s)][v[s \ {Chosen(s)}]] = f[Chosen(s)] + v[s \ {Chosen(s)}]
      BY <3>1, <3>2 DEF H
    <3> QED BY <2>1, <2>3, <3>1, <3>3 DEF FoldValue
  <2> QED BY <2>2, <2>3
<1>6. v = Step(v)
  BY <1>5 DEF Chosen
<1>7. h = Step(h)
  BY <1>6
<1> HIDE DEF h
<1>8. ASSUME NEW s \in SUBSET U
      PROVE  h[s] = IF s = {} THEN 0 ELSE f[Chosen(s)] + h[s \ {Chosen(s)}]
  BY <1>7 DEF Chosen
<1> DEFINE B == {s \in SUBSET U : h[s] # v[s]}
<1>9. ASSUME NEW s \in B PROVE s # {} /\ Chosen(s) \in s /\ s \ {Chosen(s)} \in B
  <2>1. s # {}
    BY <1>5, <1>8
  <2>2. Chosen(s) \in s
    BY <2>1 DEF Chosen
  <2>3. h[s \ {Chosen(s)}] # v[s \ {Chosen(s)}]
    BY <1>5, <1>8, <2>1
  <2> QED BY <2>1, <2>2, <2>3
<1>10. B = {}
  <2>1. IsFiniteSet(U) /\ B \in SUBSET (SUBSET U)
    BY DEF NatOn
  <2> HIDE DEF B
  <2> QED BY <1>9, <2>1, SmallestSet
<1> QED BY <1>1, <1>4, <1>5, <1>10 DEF IsSum

(* The order in which the values are added is of no importance. *)
LEMMA AnyOrder ==
    ASSUME NEW U, NEW f, NatOn(U, f), NEW v \in [SUBSET U -> Nat], IsSum(v, U, f),
           NEW S \in SUBSET U, NEW x \in S
    PROVE  v[S] = f[x] + v[S \ {x}]
<1> DEFINE Fails(s) == \E y \in s : v[s] # f[y] + v[s \ {y}]
           B == {s \in SUBSET U : Fails(s)}
<1>1. ASSUME NEW s \in B PROVE \E y \in s : s \ {y} \in B
  <2>1. PICK y \in s : v[s] # f[y] + v[s \ {y}]
    OBVIOUS
  <2> DEFINE c == Chosen(s)
  <2>2. c \in s
    BY DEF Chosen
  <2>3. v[s] = f[c] + v[s \ {c}]
    BY DEF IsSum
  <2> HIDE DEF c
  <2>4. y # c
    BY <2>1, <2>3
  <2> SUFFICES ASSUME s \ {c} \notin B, s \ {y} \notin B PROVE FALSE
    BY <2>2
  <2>5. v[s \ {c}] = f[y] + v[(s \ {c}) \ {y}]
    BY <2>2, <2>4
  <2>6. v[s \ {y}] = f[c] + v[(s \ {y}) \ {c}]
    BY <2>2, <2>4
  <2>7. (s \ {y}) \ {c} = (s \ {c}) \ {y}
    OBVIOUS
  <2>8. f[c] \in Nat /\ f[y] \in Nat /\ v[(s \ {c}) \ {y}] \in Nat
    BY <2>2 DEF NatOn
  <2> DEFINE left == v[(s \ {c}) \ {y}]
  <2>9. v[s \ {c}] = f[y] + left /\ v[s \ {y}] = f[c] + left /\ left \in Nat
    BY <2>5, <2>6, <2>7, <2>8
  <2> HIDE DEF left
  <2>10. f[c] + (f[y] + left) = f[y] + (f[c] + left)
    BY <2>8, <2>9
  <2> QED BY <2>1, <2>3, <2>9, <2>10
<1>2. B = {}
  <2>1. IsFiniteSet(U) /\ B \in SUBSET (SUBSET U)
    BY DEF NatOn
  <2> HIDE DEF B
  <2> QED BY <1>1, <2>1, SmallestSet
<1> QED BY <1>2

LEMMA SumOfSubset ==
    ASSUME NEW U, NEW f, NatOn(U, f), NEW v \in [SUBSET U -> Nat], IsSum(v, U, f),
           NEW S \in SUBSET U
    PROVE  SumFunctionOnSet(f, S) = v[S]
<1>1. NatOn(S, f)
  BY FS_Subset DEF NatOn
<1>2. PICK w \in [SUBSET S -> Nat] : IsSum(w, S, f) /\ SumFunctionOnSet(f, S) = w[S]
  BY <1>1, SumFold
<1> DEFINE B == {s \in SUBSET S : w[s] # v[s]}
<1>3. ASSUME NEW s \in B PROVE \E x \in s : s \ {x} \in B
  <2>1. s # {}
    BY <1>2 DEF IsSum
  <2>2. Chosen(s) \in s
    BY <2>1 DEF Chosen
  <2>3. w[s] = f[Chosen(s)] + w[s \ {Chosen(s)}] /\ v[s] = f[Chosen(s)] + v[s \ {Chosen(s)}]
    BY <1>2, <2>1 DEF IsSum
  <2> QED BY <2>2, <2>3
<1>4. B = {}
  <2>1. IsFiniteSet(S) /\ B \in SUBSET (SUBSET S)
    BY <1>1 DEF NatOn
  <2> HIDE DEF B
  <2> QED BY <1>3, <2>1, SmallestSet
<1> QED BY <1>2, <1>4

LEMMA SumRec ==
    ASSUME NEW S, NEW f, NatOn(S, f)
    PROVE  /\ SumFunctionOnSet(f, S) \in Nat
           /\ SumFunctionOnSet(f, {}) = 0
           /\ \A x \in S : SumFunctionOnSet(f, S) = f[x] + SumFunctionOnSet(f, S \ {x})
<1>1. PICK v \in [SUBSET S -> Nat] : IsSum(v, S, f) /\ SumFunctionOnSet(f, S) = v[S]
  BY SumFold
<1>2. SumFunctionOnSet(f, {}) = v[{}] /\ v[{}] = 0
  <2>1. v[{}] = 0
    BY <1>1 DEF IsSum
  <2>2. SumFunctionOnSet(f, {}) = v[{}]
    BY <1>1, SumOfSubset
  <2> QED BY <2>1, <2>2
<1>3. ASSUME NEW x \in S PROVE SumFunctionOnSet(f, S) = f[x] + SumFunctionOnSet(f, S \ {x})
  <2> DEFINE rest == S \ {x}
  <2>1. rest \in SUBSET S /\ S \in SUBSET S
    OBVIOUS
  <2> HIDE DEF rest
  <2>2. SumFunctionOnSet(f, rest) = v[rest]
    BY <1>1, <2>1, SumOfSubset
  <2>3. v[S] = f[x] + v[S \ {x}]
    BY <1>1, <2>1, AnyOrder
  <2> QED BY <1>1, <2>2, <2>3 DEF rest
<1>4. v[S] \in Nat
  OBVIOUS
<1> QED BY <1>1, <1>2, <1>3, <1>4

LEMMA SumSame ==
    ASSUME NEW S, NEW f, NEW g, NatOn(S, f), \A x \in S : g[x] = f[x]
    PROVE  SumFunctionOnSet(g, S) = SumFunctionOnSet(f, S)
<1> DEFINE B == {s \in SUBSET S : SumFunctionOnSet(g, s) # SumFunctionOnSet(f, s)}
<1>1. ASSUME NEW s \in SUBSET S PROVE NatOn(s, f) /\ NatOn(s, g)
  BY FS_Subset DEF NatOn
<1>2. ASSUME NEW s \in B PROVE \E x \in s : s \ {x} \in B
  <2>1. s # {}
    BY <1>1, SumRec
  <2>2. PICK x \in s : TRUE
    BY <2>1
  <2>3. SumFunctionOnSet(f, s) = f[x] + SumFunctionOnSet(f, s \ {x})
    BY <1>1, SumRec
  <2>4. SumFunctionOnSet(g, s) = g[x] + SumFunctionOnSet(g, s \ {x})
    BY <1>1, SumRec
  <2> QED BY <2>3, <2>4
<1>3. B = {}
  <2>1. IsFiniteSet(S) /\ B \in SUBSET (SUBSET S)
    BY DEF NatOn
  <2> HIDE DEF B
  <2> QED BY <1>2, <2>1, SmallestSet
<1> QED BY <1>3

(* What is zero adds nothing. *)
LEMMA SumRest ==
    ASSUME NEW S, NEW f, NatOn(S, f), NEW R \in SUBSET S, \A x \in S \ R : f[x] = 0
    PROVE  SumFunctionOnSet(f, S) = SumFunctionOnSet(f, R)
<1> DEFINE B == {s \in SUBSET S : R \subseteq s /\ SumFunctionOnSet(f, s) # SumFunctionOnSet(f, R)}
<1>1. ASSUME NEW s \in B PROVE \E x \in s : s \ {x} \in B
  <2>1. PICK x \in s : x \notin R
    OBVIOUS
  <2>2. NatOn(s, f) /\ NatOn(s \ {x}, f)
    BY FS_Subset DEF NatOn
  <2>3. SumFunctionOnSet(f, s) = f[x] + SumFunctionOnSet(f, s \ {x}) /\ SumFunctionOnSet(f, s \ {x}) \in Nat
    BY <2>2, SumRec
  <2>4. f[x] = 0
    BY <2>1
  <2>5. SumFunctionOnSet(f, s \ {x}) = SumFunctionOnSet(f, s)
    BY <2>3, <2>4
  <2>6. s \ {x} \in SUBSET S /\ R \subseteq s \ {x}
    BY <2>1
  <2> QED BY <2>5, <2>6
<1>2. B = {}
  <2>1. IsFiniteSet(S) /\ B \in SUBSET (SUBSET S)
    BY DEF NatOn
  <2> HIDE DEF B
  <2> QED BY <1>1, <2>1, SmallestSet
<1> QED BY <1>2

LEMMA SumPlus ==
    ASSUME NEW S, NEW f, NEW g, NEW h, NatOn(S, f), NatOn(S, g), \A x \in S : h[x] = f[x] + g[x]
    PROVE  SumFunctionOnSet(h, S) = SumFunctionOnSet(f, S) + SumFunctionOnSet(g, S)
<1> DEFINE sum(q, s) == SumFunctionOnSet(q, s)
           B == {s \in SUBSET S : sum(h, s) # sum(f, s) + sum(g, s)}
<1>1. ASSUME NEW s \in SUBSET S PROVE NatOn(s, f) /\ NatOn(s, g) /\ NatOn(s, h)
  BY FS_Subset DEF NatOn
<1>2. ASSUME NEW s \in B PROVE \E x \in s : s \ {x} \in B
  <2>1. s # {}
    <3>1. sum(f, {}) = 0 /\ sum(g, {}) = 0 /\ sum(h, {}) = 0
      BY <1>1, SumRec
    <3> QED BY <3>1
  <2>2. PICK x \in s : TRUE
    BY <2>1
  <2>3. sum(f, s) = f[x] + sum(f, s \ {x}) /\ sum(g, s) = g[x] + sum(g, s \ {x})
        /\ sum(h, s) = h[x] + sum(h, s \ {x})
    BY <1>1, SumRec
  <2>4. f[x] \in Nat /\ g[x] \in Nat /\ sum(f, s \ {x}) \in Nat /\ sum(g, s \ {x}) \in Nat
        /\ h[x] = f[x] + g[x] /\ sum(h, s \ {x}) \in Nat
    BY <1>1, SumRec DEF NatOn
  <2> HIDE DEF sum
  <2>5. sum(h, s \ {x}) # sum(f, s \ {x}) + sum(g, s \ {x})
    BY <2>3, <2>4
  <2> QED BY <2>5
<1>3. B = {}
  <2>1. IsFiniteSet(S) /\ B \in SUBSET (SUBSET S)
    BY DEF NatOn
  <2> HIDE DEF B
  <2> QED BY <1>2, <2>1, SmallestSet
<1> QED BY <1>3

LEMMA SumOfOnes ==
    ASSUME NEW S, NEW f, IsFiniteSet(S), \A x \in S : f[x] = 1
    PROVE  SumFunctionOnSet(f, S) = Cardinality(S)
<1> DEFINE B == {s \in SUBSET S : SumFunctionOnSet(f, s) # Cardinality(s)}
<1>1. ASSUME NEW s \in SUBSET S PROVE NatOn(s, f) /\ IsFiniteSet(s) /\ Cardinality(s) \in Nat
  BY FS_Subset, FS_CardinalityType DEF NatOn
<1>2. ASSUME NEW s \in B PROVE \E x \in s : s \ {x} \in B
  <2>1. s # {}
    BY <1>1, SumRec, FS_EmptySet
  <2>2. PICK x \in s : TRUE
    BY <2>1
  <2>3. SumFunctionOnSet(f, s) = 1 + SumFunctionOnSet(f, s \ {x})
    BY <1>1, SumRec
  <2>4. Cardinality(s \ {x}) = Cardinality(s) - 1
    BY <1>1, FS_RemoveElement
  <2>5. SumFunctionOnSet(f, s \ {x}) \in Nat /\ Cardinality(s) \in Nat
    BY <1>1, SumRec
  <2>6. SumFunctionOnSet(f, s \ {x}) # Cardinality(s \ {x})
    BY <2>3, <2>4, <2>5
  <2> QED BY <2>6
<1>3. B = {}
  <2>1. IsFiniteSet(S) /\ B \in SUBSET (SUBSET S)
    OBVIOUS
  <2> HIDE DEF B
  <2> QED BY <1>2, <2>1, SmallestSet
<1> QED BY <1>3

(* Values may be added at the places q[j] instead of the places j. *)
LEMMA SumElsewhere ==
    ASSUME NEW S, NEW f, NEW q, NEW w, NatOn(S, f), \A i, j \in S : q[i] = q[j] => i = j,
           \A j \in S : f[j] = w[q[j]]
    PROVE  SumFunctionOnSet(f, S) = SumFunctionOnSet(w, {q[j] : j \in S})
<1> DEFINE img(s) == {q[j] : j \in s}
           B == {s \in SUBSET S : SumFunctionOnSet(f, s) # SumFunctionOnSet(w, img(s))}
<1>1. ASSUME NEW s \in SUBSET S PROVE NatOn(s, f) /\ NatOn(img(s), w)
  <2>1. IsFiniteSet(s) /\ IsFiniteSet(img(s))
    <3>1. IsFiniteSet(s)
      BY FS_Subset DEF NatOn
    <3>2. [j \in s |-> q[j]] \in Surjection(s, img(s))
      BY DEF Surjection
    <3> QED BY <3>1, <3>2, FS_Surjection
  <2> QED BY <2>1 DEF NatOn
<1>2. ASSUME NEW s \in B PROVE \E x \in s : s \ {x} \in B
  <2>1. s # {}
    <3> SUFFICES ASSUME s = {} PROVE FALSE
      OBVIOUS
    <3>1. img(s) = {}
      OBVIOUS
    <3>2. SumFunctionOnSet(f, {}) = 0 /\ SumFunctionOnSet(w, {}) = 0
      BY <1>1, SumRec
    <3> QED BY <3>1, <3>2
  <2>2. PICK x \in s : TRUE
    BY <2>1
  <2>3. SumFunctionOnSet(f, s) = f[x] + SumFunctionOnSet(f, s \ {x})
    BY <1>1, SumRec
  <2>4. SumFunctionOnSet(w, img(s)) = w[q[x]] + SumFunctionOnSet(w, img(s) \ {q[x]})
    BY <1>1, SumRec
  <2>5. img(s) \ {q[x]} = img(s \ {x})
    OBVIOUS
  <2>6. SumFunctionOnSet(f, s \ {x}) # SumFunctionOnSet(w, img(s \ {x}))
    BY <2>3, <2>4, <2>5
  <2> QED BY <2>6
<1>3. B = {}
  <2>1. IsFiniteSet(S) /\ B \in SUBSET (SUBSET S)
    BY DEF NatOn
  <2> HIDE DEF B
  <2> QED BY <1>2, <2>1, SmallestSet
<1> QED BY <1>3

LEMMA TimesOneMore ==
    ASSUME NEW w \in Nat, NEW n \in Nat
    PROVE  w * n \in Nat /\ w * (n + 1) = w * n + w /\ w * 0 = 0
OBVIOUS

(* Double counting: the elements x of S that are in the sets a[i] may be counted one element or one set
   after the other. *)
Times(D, a, x) == Cardinality({i \in D : x \in a[i]})

LEMMA DoubleCount ==
    ASSUME NEW S, NEW w, NatOn(S, w), NEW D, IsFiniteSet(D), NEW a \in [D -> SUBSET S],
           NEW f, \A x \in S : f[x] = w[x] * Times(D, a, x),
           NEW g, \A i \in D : g[i] = SumFunctionOnSet(w, a[i])
    PROVE  SumFunctionOnSet(f, S) = SumFunctionOnSet(g, D)
<1> DEFINE F(d) == [x \in S |-> w[x] * Times(d, a, x)]
           B == {d \in SUBSET D : SumFunctionOnSet(F(d), S) # SumFunctionOnSet(g, d)}
<1>1. ASSUME NEW d \in SUBSET D, NEW x \in S
      PROVE  IsFiniteSet({i \in d : x \in a[i]}) /\ Times(d, a, x) \in Nat
  <2>1. IsFiniteSet({i \in d : x \in a[i]})
    BY FS_Subset
  <2> QED BY <2>1, FS_CardinalityType DEF Times
<1>2. ASSUME NEW d \in SUBSET D PROVE NatOn(S, F(d)) /\ NatOn(d, g)
  <2>1. \A x \in S : F(d)[x] \in Nat
    BY <1>1, TimesOneMore DEF NatOn
  <2>2. \A i \in d : g[i] \in Nat
    <3>1. ASSUME NEW i \in d PROVE NatOn(a[i], w)
      <4>1. a[i] \in SUBSET S
        OBVIOUS
      <4> QED BY <4>1, FS_Subset DEF NatOn
    <3> QED BY <3>1, SumRec
  <2>3. IsFiniteSet(d)
    BY FS_Subset
  <2> HIDE DEF F
  <2> QED BY <2>1, <2>2, <2>3 DEF NatOn
<1>3. ASSUME NEW d \in B PROVE \E i \in d : d \ {i} \in B
  <2>1. d # {}
    <3> SUFFICES ASSUME d = {} PROVE FALSE
      OBVIOUS
    <3>1. \A x \in S : F(d)[x] = 0
      <4>1. ASSUME NEW x \in S PROVE Times(d, a, x) = 0
        <5>1. {i \in d : x \in a[i]} = {}
          OBVIOUS
        <5> QED BY <5>1, FS_EmptySet DEF Times
      <4> QED BY <4>1, TimesOneMore DEF NatOn
    <3>2. SumFunctionOnSet(F(d), S) = SumFunctionOnSet(F(d), {})
      <4> HIDE DEF F
      <4>1. NatOn(S, F(d)) /\ {} \in SUBSET S /\ \A x \in S \ {} : F(d)[x] = 0
        BY <1>2, <3>1
      <4> QED BY <4>1, SumRest
    <3>3. SumFunctionOnSet(F(d), {}) = 0 /\ SumFunctionOnSet(g, {}) = 0
      <4> HIDE DEF F
      <4> QED BY <1>2, SumRec
    <3> QED BY <3>2, <3>3
  <2>2. PICK i \in d : TRUE
    BY <2>1
  <2> DEFINE c == d \ {i}
             k == [x \in S |-> IF x \in a[i] THEN w[x] ELSE 0]
  <2>3. NatOn(S, k) /\ \A x \in S : k[x] \in Nat
    BY DEF NatOn
  <2>4. \A x \in S : F(d)[x] = F(c)[x] + k[x]
    <3>1. ASSUME NEW x \in S PROVE F(d)[x] = F(c)[x] + k[x]
      <4>1. IsFiniteSet({j \in c : x \in a[j]}) /\ Times(c, a, x) \in Nat
        BY <1>1
      <4>2. CASE x \in a[i]
        <5>1. {j \in d : x \in a[j]} = {j \in c : x \in a[j]} \cup {i}
          BY <4>2
        <5>2. Times(d, a, x) = Times(c, a, x) + 1
          <6>1. i \notin {j \in c : x \in a[j]}
            OBVIOUS
          <6> HIDE DEF c
          <6> QED BY <4>1, <5>1, <6>1, FS_AddElement DEF Times
        <5>3. w[x] * Times(d, a, x) = w[x] * Times(c, a, x) + w[x]
          BY <4>1, <5>2, TimesOneMore DEF NatOn
        <5> QED BY <4>2, <5>3
      <4>3. CASE x \notin a[i]
        <5>1. {j \in d : x \in a[j]} = {j \in c : x \in a[j]}
          BY <4>3
        <5>2. Times(d, a, x) = Times(c, a, x)
          BY <5>1 DEF Times
        <5>3. F(d)[x] = F(c)[x] /\ k[x] = 0 /\ F(c)[x] \in Nat
          BY <4>1, <4>3, <5>2, TimesOneMore DEF NatOn
        <5> QED BY <5>3
      <4> QED BY <4>2, <4>3
    <3> QED BY <3>1
  <2>5. SumFunctionOnSet(k, S) = g[i]
    <3>1. a[i] \in SUBSET S /\ \A x \in S \ a[i] : k[x] = 0
      OBVIOUS
    <3>2. NatOn(a[i], k) /\ \A x \in a[i] : w[x] = k[x]
      <4>1. IsFiniteSet(a[i])
        BY <3>1, FS_Subset DEF NatOn
      <4> QED BY <2>3, <3>1, <4>1 DEF NatOn
    <3> HIDE DEF k
    <3>3. SumFunctionOnSet(k, S) = SumFunctionOnSet(k, a[i])
      BY <2>3, <3>1, SumRest
    <3>4. SumFunctionOnSet(w, a[i]) = SumFunctionOnSet(k, a[i])
      BY <3>2, SumSame
    <3> QED BY <3>3, <3>4
  <2>6. c \in SUBSET D
    OBVIOUS
  <2> HIDE DEF c, k, F
  <2>7. NatOn(S, F(c)) /\ NatOn(S, F(d)) /\ NatOn(d, g) /\ NatOn(c, g)
    BY <1>2, <2>6
  <2>8. SumFunctionOnSet(F(d), S) = SumFunctionOnSet(F(c), S) + SumFunctionOnSet(k, S)
    BY <2>3, <2>4, <2>7, SumPlus
  <2>9. SumFunctionOnSet(g, d) = g[i] + SumFunctionOnSet(g, c)
    BY <2>7, SumRec DEF c
  <2>10. SumFunctionOnSet(g, c) \in Nat /\ g[i] \in Nat /\ SumFunctionOnSet(F(c), S) \in Nat
    BY <2>7, SumRec DEF NatOn
  <2>11. SumFunctionOnSet(F(c), S) # SumFunctionOnSet(g, c)
    BY <2>5, <2>8, <2>9, <2>10
  <2> QED BY <2>6, <2>11 DEF c
<1>4. B = {}
  <2>1. B \in SUBSET (SUBSET D)
    OBVIOUS
  <2> HIDE DEF B
  <2> QED BY <1>3, <2>1, SmallestSet
<1>5. SumFunctionOnSet(F(D), S) = SumFunctionOnSet(g, D)
  BY <1>4
<1>6. SumFunctionOnSet(f, S) = SumFunctionOnSet(F(D), S)
  <2>1. \A x \in S : f[x] = F(D)[x]
    OBVIOUS
  <2> HIDE DEF F
  <2> QED BY <1>2, <2>1, SumSame
<1> QED BY <1>5, <1>6

-----------------------------------------------------------------------------
(* Totals of counters *)

Counts(U, f) == IsFiniteSet(U) /\ \A x \in U : f[x.id] \in Nat

LEMMA TotalIsSum ==
    ASSUME NEW S, NEW f, NEW U, S \subseteq U
    PROVE  Total(S, f) = SumFunctionOnSet([x \in U |-> f[x.id]], S)
<1> DEFINE h == [x \in U |-> f[x.id]]
           A(g) == [s \in SUBSET S |-> IF s = {} THEN 0
                        ELSE f[(CHOOSE x \in s : TRUE).id] + g[s \ {CHOOSE x \in s : TRUE}]]
           B(g) == [s \in SUBSET S |-> IF s = {} THEN 0
                        ELSE h[CHOOSE x \in s : TRUE] + g[s \ {CHOOSE x \in s : TRUE}]]
           a == CHOOSE g : g = A(g)
           b == CHOOSE g : g = B(g)
<1>1. ASSUME NEW g PROVE A(g) = B(g)
  <2>1. \A s \in SUBSET S : s # {} => h[CHOOSE x \in s : TRUE] = f[(CHOOSE x \in s : TRUE).id]
    OBVIOUS
  <2> HIDE DEF h
  <2> QED BY <2>1
<1>2. Total(S, f) = a[S]
  BY DEF Total, SumOver, MapThenSumSet, MapThenFoldSet
<1>3. SumFunctionOnSet(h, S) = b[S]
  BY DEF SumFunctionOnSet, FoldFunctionOnSet, MapThenFoldSet
<1>4. a = b
  <2> HIDE DEF A, B
  <2> QED BY <1>1
<1> QED BY <1>2, <1>3, <1>4

LEMMA TotalRec ==
    ASSUME NEW S, NEW f, Counts(S, f)
    PROVE  /\ Total(S, f) \in Nat
           /\ Total({}, f) = 0
           /\ \A x \in S : Total(S, f) = f[x.id] + Total(S \ {x}, f)
<1> DEFINE h == [x \in S |-> f[x.id]]
<1>1. NatOn(S, h) /\ \A x \in S : h[x] = f[x.id]
  BY DEF Counts, NatOn
<1>2. \A s \in SUBSET S : Total(s, f) = SumFunctionOnSet(h, s)
  BY TotalIsSum
<1> HIDE DEF h
<1>3. {} \in SUBSET S /\ S \in SUBSET S /\ \A x \in S : S \ {x} \in SUBSET S
  OBVIOUS
<1>4. Total(S, f) = SumFunctionOnSet(h, S) /\ Total({}, f) = SumFunctionOnSet(h, {})
  BY <1>2, <1>3
<1>5. \A x \in S : Total(S \ {x}, f) = SumFunctionOnSet(h, S \ {x})
  BY <1>2, <1>3
<1> QED BY <1>1, <1>4, <1>5, SumRec

LEMMA TotalSame ==
    ASSUME NEW S, NEW f, NEW g, Counts(S, f), \A x \in S : g[x.id] = f[x.id]
    PROVE  Total(S, g) = Total(S, f)
<1> DEFINE B == {s \in SUBSET S : Total(s, g) # Total(s, f)}
<1>1. ASSUME NEW s \in SUBSET S PROVE Counts(s, f) /\ Counts(s, g)
  BY FS_Subset DEF Counts
<1>2. ASSUME NEW s \in B PROVE \E x \in s : s \ {x} \in B
  <2>1. s # {}
    BY <1>1, TotalRec
  <2>2. PICK x \in s : TRUE
    BY <2>1
  <2>3. Total(s, f) = f[x.id] + Total(s \ {x}, f)
    BY <1>1, TotalRec
  <2>4. Total(s, g) = g[x.id] + Total(s \ {x}, g)
    BY <1>1, TotalRec
  <2> QED BY <2>3, <2>4
<1>3. B = {}
  <2>1. IsFiniteSet(S) /\ B \in SUBSET (SUBSET S)
    BY DEF Counts
  <2> HIDE DEF B
  <2> QED BY <1>2, <2>1, SmallestSet
<1> QED BY <1>3

LEMMA TotalChange ==
    ASSUME NEW S, NEW f, NEW g, Counts(S, f), NEW x \in S, g[x.id] = f[x.id] + 1,
           \A y \in S \ {x} : g[y.id] = f[y.id]
    PROVE  Total(S, g) = Total(S, f) + 1
<1>1. Counts(S, g) /\ Counts(S \ {x}, f)
  BY FS_Subset DEF Counts
<1>2. Total(S, g) = g[x.id] + Total(S \ {x}, g)
  BY <1>1, TotalRec
<1>3. Total(S, f) = f[x.id] + Total(S \ {x}, f)
  BY TotalRec
<1>4. Total(S \ {x}, g) = Total(S \ {x}, f)
  BY <1>1, TotalSame
<1>5. f[x.id] \in Nat /\ Total(S \ {x}, f) \in Nat
  BY <1>1, TotalRec DEF Counts
<1> QED BY <1>2, <1>3, <1>4, <1>5

(* What is zero adds nothing. *)
LEMMA TotalRest ==
    ASSUME NEW S, NEW f, Counts(S, f), NEW R \in SUBSET S, \A x \in S \ R : f[x.id] = 0
    PROVE  Total(S, f) = Total(R, f)
<1> DEFINE B == {s \in SUBSET S : R \subseteq s /\ Total(s, f) # Total(R, f)}
<1>1. ASSUME NEW s \in B PROVE \E x \in s : s \ {x} \in B
  <2>1. PICK x \in s : x \notin R
    OBVIOUS
  <2>2. Counts(s, f) /\ Counts(s \ {x}, f)
    BY FS_Subset DEF Counts
  <2>3. Total(s, f) = f[x.id] + Total(s \ {x}, f) /\ Total(s \ {x}, f) \in Nat
    BY <2>2, TotalRec
  <2>4. f[x.id] = 0
    BY <2>1
  <2>5. Total(s \ {x}, f) = Total(s, f)
    BY <2>3, <2>4
  <2>6. s \ {x} \in SUBSET S /\ R \subseteq s \ {x}
    BY <2>1
  <2> QED BY <2>5, <2>6
<1>2. B = {}
  <2>1. IsFiniteSet(S) /\ B \in SUBSET (SUBSET S)
    BY DEF Counts
  <2> HIDE DEF B
  <2> QED BY <1>1, <2>1, SmallestSet
<1> QED BY <1>2

LEMMA TotalZero ==
    ASSUME NEW S, NEW f, Counts(S, f)
    PROVE  Total(S, f) = 0 <=> \A x \in S : f[x.id] = 0
<1>1. ASSUME \A x \in S : f[x.id] = 0 PROVE Total(S, f) = 0
  <2>1. Total(S, f) = Total({}, f)
    <3>1. {} \in SUBSET S /\ \A x \in S \ {} : f[x.id] = 0
      BY <1>1
    <3> QED BY <3>1, TotalRest
  <2>2. Total({}, f) = 0
    BY TotalRec
  <2> QED BY <2>1, <2>2
<1>2. ASSUME NEW x \in S, Total(S, f) = 0 PROVE f[x.id] = 0
  <2>1. Counts(S \ {x}, f) /\ f[x.id] \in Nat
    BY FS_Subset DEF Counts
  <2>2. Total(S, f) = f[x.id] + Total(S \ {x}, f) /\ Total(S \ {x}, f) \in Nat
    BY <2>1, TotalRec
  <2> QED BY <1>2, <2>1, <2>2
<1> QED BY <1>1, <1>2

-----------------------------------------------------------------------------
(* The graph *)

LEMMA FiniteList ==
    ASSUME NEW T, NEW q \in Seq(T)
    PROVE  IsFiniteSet(ToSet(q)) /\ IsFiniteSet(DOMAIN q)
<1>1. Len(q) \in Nat /\ DOMAIN q = 1 .. Len(q) /\ q \in [1 .. Len(q) -> T]
  BY LenProperties
<1>2. IsFiniteSet(1 .. Len(q))
  BY <1>1, FS_Interval
<1>3. q \in Surjection(1 .. Len(q), ToSet(q))
  BY <1>1 DEF Surjection, ToSet
<1> QED BY <1>1, <1>2, <1>3, FS_Surjection

LEMMA OrderedGraphFacts ==
    ASSUME NEW g, IsOrderedGraph(g)
    PROVE  /\ g.vertices \in Seq(ToSet(g.vertices)) /\ g.edges \in Seq(ToSet(g.edges))
           /\ IsFiniteSet(ToSet(g.vertices)) /\ IsFiniteSet(ToSet(g.edges))
           /\ DOMAIN g.kind = ToSet(g.vertices)
           /\ \A e \in ToSet(g.edges) : /\ e.src \in ToSet(g.vertices) /\ e.dst \in ToSet(g.vertices)
                                        /\ IsTeam(g, e.src)
           /\ \A e, f \in ToSet(g.edges) : e.id = f.id => e = f
           /\ \A i, j \in DOMAIN g.edges : g.edges[i] = g.edges[j] => i = j
<1>1. g.vertices \in Seq(ToSet(g.vertices)) /\ g.edges \in Seq(ToSet(g.edges))
  BY DEF IsOrderedGraph
<1>2. IsFiniteSet(ToSet(g.vertices)) /\ IsFiniteSet(ToSet(g.edges))
  BY <1>1, FiniteList
<1>3. ASSUME NEW e \in ToSet(g.edges), NEW f \in ToSet(g.edges), e.id = f.id PROVE e = f
  <2>1. PICK i \in DOMAIN g.edges : e = g.edges[i]
    BY DEF ToSet
  <2>2. PICK j \in DOMAIN g.edges : f = g.edges[j]
    BY DEF ToSet
  <2> QED BY <1>3, <2>1, <2>2 DEF IsOrderedGraph
<1>4. \A i, j \in DOMAIN g.edges : g.edges[i] = g.edges[j] => i = j
  BY DEF IsOrderedGraph
<1>5. \A e \in ToSet(g.edges) : {e.src, e.dst} \subseteq ToSet(g.vertices) /\ IsTeam(g, e.src)
  BY DEF IsOrderedGraph
<1>6. DOMAIN g.kind = ToSet(g.vertices)
  BY DEF IsOrderedGraph
<1> QED BY <1>1, <1>2, <1>3, <1>4, <1>5, <1>6

LEMMA GraphFacts ==
    ASSUME NEW g, Proper(g)
    PROVE  /\ g.vertices \in Seq(ToSet(g.vertices)) /\ g.edges \in Seq(ToSet(g.edges))
           /\ IsFiniteSet(ToSet(g.vertices)) /\ IsFiniteSet(ToSet(g.edges))
           /\ DOMAIN g.kind = ToSet(g.vertices)
           /\ \A e \in ToSet(g.edges) : /\ e.src \in ToSet(g.vertices) /\ e.dst \in ToSet(g.vertices)
                                        /\ IsTeam(g, e.src)
           /\ \A e, f \in ToSet(g.edges) : e.id = f.id => e = f
           /\ \A i, j \in DOMAIN g.edges : g.edges[i] = g.edges[j] => i = j
BY OrderedGraphFacts DEF Proper

(* The list of the outgoing edges of v, and what the lists of a graph hold. *)
LEMMA OutFacts ==
    ASSUME NEW g, Proper(g), NEW v
    PROVE  LET out == OutgoingEdges(g, v)
           IN  /\ out \in Seq(ToSet(g.edges)) /\ Len(out) \in Nat /\ DOMAIN out = 1 .. Len(out)
               /\ \A i \in DOMAIN out : out[i] \in ToSet(g.edges) /\ out[i].src = v
               /\ \A i, j \in DOMAIN out : out[i].id = out[j].id => i = j
               /\ \A e \in Leaving(g, v) : \E i \in DOMAIN out : e = out[i]
<1> DEFINE out == OutgoingEdges(g, v)
<1>1. /\ out \in Seq(ToSet(g.edges)) /\ ToSet(out) = Leaving(g, v)
      /\ \A i, j \in DOMAIN out : out[i] = out[j] => i = j
  <2> DEFINE S == {e \in ToSet(g.edges) : e.src = v}
  <2>1. g.edges \in Seq(ToSet(g.edges)) /\ \A i, j \in DOMAIN g.edges : g.edges[i] = g.edges[j] => i = j
    BY GraphFacts
  <2>2. out = SelectIn(g.edges, S)
    BY DEF OutgoingEdges
  <2>3. ToSet(g.edges) \cap S = Leaving(g, v)
    BY DEF Leaving
  <2> HIDE DEF out, S
  <2>4. SelectIn(g.edges, S) \in Seq(ToSet(g.edges)) /\ ToSet(SelectIn(g.edges, S)) = ToSet(g.edges) \cap S
    BY <2>1, SelectedElements
  <2>5. \A i, j \in DOMAIN SelectIn(g.edges, S) : SelectIn(g.edges, S)[i] = SelectIn(g.edges, S)[j] => i = j
    BY <2>1, SelectedElements
  <2> QED BY <2>2, <2>3, <2>4, <2>5
<1> HIDE DEF out
<1>2. Len(out) \in Nat /\ DOMAIN out = 1 .. Len(out)
  BY <1>1, LenProperties
<1>3. \A i \in DOMAIN out : out[i] \in ToSet(g.edges) /\ out[i].src = v
  <2>1. \A i \in DOMAIN out : out[i] \in ToSet(out)
    BY DEF ToSet
  <2> QED BY <1>1, <2>1 DEF Leaving
<1>4. \A i, j \in DOMAIN out : out[i].id = out[j].id => i = j
  BY <1>1, <1>3, GraphFacts
<1>5. \A e \in Leaving(g, v) : \E i \in DOMAIN out : e = out[i]
  BY <1>1 DEF ToSet
<1> QED BY <1>1, <1>2, <1>3, <1>4, <1>5 DEF out

LEMMA ListFacts ==
    ASSUME NEW g, Proper(g), NEW v
    PROVE  /\ ToSet(OutgoingEdges(g, v)) = Leaving(g, v)
           /\ ToSet(IncomingEdges(g, v)) = Arriving(g, v)
           /\ ToSet(Teams(g)) = {w \in ToSet(g.vertices) : IsTeam(g, w)}
           /\ ToSet(RootVertices(g)) \subseteq ToSet(g.vertices)
<1>1. g.vertices \in Seq(ToSet(g.vertices)) /\ g.edges \in Seq(ToSet(g.edges))
  BY GraphFacts
<1>2. ASSUME NEW S PROVE ToSet(SelectIn(g.edges, S)) = ToSet(g.edges) \cap S
  BY <1>1, SelectedElements
<1>3. ASSUME NEW S PROVE ToSet(SelectIn(g.vertices, S)) = ToSet(g.vertices) \cap S
  BY <1>1, SelectedElements
<1>4. ToSet(OutgoingEdges(g, v)) = Leaving(g, v)
  BY <1>2 DEF OutgoingEdges, Leaving
<1>5. ToSet(IncomingEdges(g, v)) = Arriving(g, v)
  BY <1>2 DEF IncomingEdges, Arriving
<1>6. ToSet(Teams(g)) = {w \in ToSet(g.vertices) : IsTeam(g, w)}
  BY <1>3 DEF Teams
<1>7. ToSet(RootVertices(g)) \subseteq ToSet(g.vertices)
  BY <1>3 DEF RootVertices
<1> QED BY <1>4, <1>5, <1>6, <1>7

(* What the removal of vertices or edges leaves of a graph. *)
LEMMA OwnElements ==
    ASSUME NEW T, NEW q \in Seq(T)
    PROVE  q \in Seq(ToSet(q))
<1>1. Len(q) \in Nat /\ DOMAIN q = 1 .. Len(q) /\ q = [i \in 1 .. Len(q) |-> q[i]]
  BY LenProperties
<1>2. q \in [1 .. Len(q) -> ToSet(q)]
  <2>1. \A i \in 1 .. Len(q) : q[i] \in ToSet(q)
    BY <1>1 DEF ToSet
  <2> QED BY <1>1, <2>1
<1> QED BY <1>1, <1>2

(* A selection of the edges of a graph has distinct edges. *)
LEMMA SelectedEdges ==
    ASSUME NEW g, IsOrderedGraph(g), NEW S
    PROVE  LET sel == SelectIn(g.edges, S)
           IN  /\ sel \in Seq(ToSet(sel)) /\ ToSet(sel) = ToSet(g.edges) \cap S
               /\ \A i, j \in DOMAIN sel : sel[i].id = sel[j].id => i = j
<1> DEFINE sel == SelectIn(g.edges, S)
<1>1. g.edges \in Seq(ToSet(g.edges)) /\ \A i, j \in DOMAIN g.edges : g.edges[i] = g.edges[j] => i = j
  BY OrderedGraphFacts
<1>2. sel \in Seq(ToSet(g.edges)) /\ ToSet(sel) = ToSet(g.edges) \cap S
  BY <1>1, SelectedElements
<1>3. \A i, j \in DOMAIN sel : sel[i] = sel[j] => i = j
  BY <1>1, SelectedElements
<1> HIDE DEF sel
<1>4. sel \in Seq(ToSet(sel))
  BY <1>2, OwnElements
<1>5. \A i \in DOMAIN sel : sel[i] \in ToSet(g.edges)
  <2>1. \A i \in DOMAIN sel : sel[i] \in ToSet(sel)
    BY DEF ToSet
  <2> QED BY <1>2, <2>1
<1>6. \A i, j \in DOMAIN sel : sel[i].id = sel[j].id => i = j
  BY <1>3, <1>5, OrderedGraphFacts
<1> QED BY <1>2, <1>4, <1>6 DEF sel

LEMMA VerticesRemoved ==
    ASSUME NEW g, IsOrderedGraph(g), NEW D
    PROVE  LET h == RemoveVertices(g, D)
           IN  /\ IsOrderedGraph(h)
               /\ h = [vertices |-> h.vertices, kind |-> h.kind, edges |-> h.edges]
               /\ ToSet(h.vertices) = ToSet(g.vertices) \ D
               /\ ToSet(h.edges) = {e \in ToSet(g.edges) : e.src \notin D /\ e.dst \notin D}
               /\ \A v \in ToSet(h.vertices) : h.kind[v] = g.kind[v]
<1> DEFINE h == RemoveVertices(g, D)
           S == {e \in ToSet(g.edges) : {e.src, e.dst} \cap D = {}}
<1>1. /\ h.vertices = SelectIn(g.vertices, ToSet(g.vertices) \ D)
      /\ h.kind = [w \in DOMAIN g.kind \ D |-> g.kind[w]]
      /\ h.edges = SelectIn(g.edges, S)
      /\ h = [vertices |-> h.vertices, kind |-> h.kind, edges |-> h.edges]
  BY DEF RemoveVertices
<1> HIDE DEF h
<1>2. h.vertices \in Seq(ToSet(g.vertices)) /\ ToSet(h.vertices) = ToSet(g.vertices) \ D
  <2>1. g.vertices \in Seq(ToSet(g.vertices))
    BY OrderedGraphFacts
  <2>2. ToSet(g.vertices) \cap (ToSet(g.vertices) \ D) = ToSet(g.vertices) \ D
    OBVIOUS
  <2> QED BY <1>1, <2>1, <2>2, SelectedElements
<1>3. h.vertices \in Seq(ToSet(h.vertices))
  BY <1>2, OwnElements
<1>4. /\ h.edges \in Seq(ToSet(h.edges)) /\ ToSet(h.edges) = S
      /\ \A i, j \in DOMAIN h.edges : h.edges[i].id = h.edges[j].id => i = j
  <2>1. ToSet(g.edges) \cap S = S
    OBVIOUS
  <2> HIDE DEF S
  <2> DEFINE sel == SelectIn(g.edges, S)
  <2>2. /\ sel \in Seq(ToSet(sel)) /\ ToSet(sel) = ToSet(g.edges) \cap S
        /\ \A i, j \in DOMAIN sel : sel[i].id = sel[j].id => i = j
    BY SelectedEdges
  <2> QED BY <1>1, <2>1, <2>2
<1>5. S = {e \in ToSet(g.edges) : e.src \notin D /\ e.dst \notin D}
  OBVIOUS
<1>6. DOMAIN h.kind = ToSet(h.vertices) /\ \A v \in ToSet(h.vertices) : h.kind[v] = g.kind[v]
  BY <1>1, <1>2, OrderedGraphFacts
<1>7. \A e \in ToSet(h.edges) : {e.src, e.dst} \subseteq ToSet(h.vertices) /\ IsTeam(h, e.src)
  BY <1>2, <1>4, <1>5, <1>6, OrderedGraphFacts DEF IsTeam
<1>8. IsOrderedGraph(h)
  BY <1>3, <1>4, <1>6, <1>7 DEF IsOrderedGraph
<1> QED BY <1>1, <1>2, <1>4, <1>5, <1>6, <1>8 DEF h

LEMMA EdgesRemoved ==
    ASSUME NEW g, IsOrderedGraph(g), g = [vertices |-> g.vertices, kind |-> g.kind, edges |-> g.edges],
           NEW es
    PROVE  LET h == RemoveEdges(g, es)
           IN  /\ IsOrderedGraph(h) /\ h.vertices = g.vertices /\ h.kind = g.kind
               /\ ToSet(h.edges) = ToSet(g.edges) \ es
<1> DEFINE h == RemoveEdges(g, es)
           S == ToSet(g.edges) \ es
<1>1. h.vertices = g.vertices /\ h.kind = g.kind /\ h.edges = SelectIn(g.edges, S)
  <2> DEFINE a == g.vertices
             b == g.kind
             c == g.edges
             d == SelectIn(g.edges, S)
  <2>1. g = [vertices |-> a, kind |-> b, edges |-> c] /\ h = [g EXCEPT !.edges = d]
    BY DEF RemoveEdges
  <2> HIDE DEF a, b, c, d, h
  <2>2. h.vertices = a /\ h.kind = b /\ h.edges = d
    BY <2>1
  <2> QED BY <2>2 DEF a, b, d
<1> HIDE DEF h
<1>2. /\ h.edges \in Seq(ToSet(h.edges)) /\ ToSet(h.edges) = S
      /\ \A i, j \in DOMAIN h.edges : h.edges[i].id = h.edges[j].id => i = j
  <2>1. ToSet(g.edges) \cap S = S
    OBVIOUS
  <2> HIDE DEF S
  <2> DEFINE sel == SelectIn(g.edges, S)
  <2>2. /\ sel \in Seq(ToSet(sel)) /\ ToSet(sel) = ToSet(g.edges) \cap S
        /\ \A i, j \in DOMAIN sel : sel[i].id = sel[j].id => i = j
    BY SelectedEdges
  <2> QED BY <1>1, <2>1, <2>2
<1>3. IsOrderedGraph(h)
  BY <1>1, <1>2 DEF IsOrderedGraph, IsTeam
<1> QED BY <1>1, <1>2, <1>3 DEF h

(* An execution meets no vertex twice. *)
LEMMA WalkFacts ==
    ASSUME NEW g, Proper(g), NEW trace \in Seq(ToSet(g.vertices)), IsWalk(g, trace)
    PROVE  \A i, j \in 1 .. Len(trace) : trace[i] = trace[j] => i = j
<1> DEFINE n == Len(trace)
<1>1. n \in Nat /\ \A i \in 1 .. n : trace[i] \in ToSet(g.vertices)
  BY LenProperties, ElementOfSeq
<1>2. PICK rank \in [ToSet(g.vertices) -> Nat] : \A e \in ToSet(g.edges) : rank[e.src] < rank[e.dst]
  BY DEF Proper, Ranked
<1> DEFINE r == [i \in 1 .. n |-> rank[trace[i]]]
           Below(k) == \A i \in 1 .. (k - 1) : r[i] < r[k]
           B == {k \in 0 .. n : ~ Below(k)}
<1>3. \A i \in 1 .. n : r[i] \in Nat
  BY <1>1
<1>4. ASSUME NEW i \in 1 .. (n - 1) PROVE r[i] < r[i + 1]
  <2>1. PICK e \in ToSet(g.edges) : e.src = trace[i] /\ e.dst = trace[i + 1]
    BY DEF IsWalk
  <2>2. i \in 1 .. n /\ i + 1 \in 1 .. n
    BY <1>1
  <2> QED BY <1>2, <2>1, <2>2
<1> HIDE DEF r
<1>5. 0 \notin B
  OBVIOUS
<1>6. ASSUME NEW k \in 1 .. n, Below(k - 1) PROVE Below(k)
  <2> SUFFICES ASSUME NEW i \in 1 .. (k - 1) PROVE r[i] < r[k]
    OBVIOUS
  <2>0. i \in 1 .. n /\ k - 1 \in 1 .. n /\ k - 1 \in 1 .. (n - 1) /\ (k - 1) + 1 = k
    BY <1>1
  <2>1. r[k - 1] < r[k]
    BY <1>4, <2>0
  <2>2. CASE i = k - 1
    BY <2>1, <2>2
  <2>3. CASE i \in 1 .. (k - 1) - 1
    <3>1. r[i] < r[k - 1]
      BY <1>6, <2>3
    <3> QED BY <1>3, <2>0, <2>1, <3>1
  <2> QED BY <1>1, <2>2, <2>3
<1>7. B = {}
  <2>1. B \in SUBSET (0 .. n) /\ \A k \in 1 .. n : k \in B => k - 1 \in B
    BY <1>1, <1>6
  <2> HIDE DEF B, n
  <2> QED BY <1>1, <1>5, <2>1, NoFirstFailure
<1>8. \A k \in 1 .. n : \A i \in 1 .. (k - 1) : r[i] < r[k]
  BY <1>1, <1>7
<1>9. ASSUME NEW i \in 1 .. n, NEW j \in 1 .. n, trace[i] = trace[j] PROVE i = j
  <2>1. r[i] = r[j]
    BY <1>9 DEF r
  <2>2. i < j => i \in 1 .. (j - 1)
    BY <1>1
  <2>3. j < i => j \in 1 .. (i - 1)
    BY <1>1
  <2>4. ~ (i < j) /\ ~ (j < i)
    BY <1>3, <1>8, <2>1, <2>2, <2>3
  <2> QED BY <1>1, <2>4
<1> QED BY <1>9

LEMMA Joins ==
    ASSUME NEW S, NEW R, NEW x, IsFiniteSet(S), x \notin S, R = S \cup {x}
    PROVE  Cardinality(R) = Cardinality(S) + 1
BY FS_AddElement

LEMMA Leaves ==
    ASSUME NEW S, NEW R, NEW x, IsFiniteSet(S), x \in S, R = S \ {x}
    PROVE  Cardinality(S) = Cardinality(R) + 1
<1>1. Cardinality(S) \in Nat /\ Cardinality(R) = Cardinality(S) - 1
  BY FS_RemoveElement, FS_CardinalityType
<1> QED BY <1>1

-----------------------------------------------------------------------------
(* The steps of an engine *)

LEMMA FiniteTallies ==
    ASSUME Inv, NEW v \in Vertices
    PROVE  /\ \A S : S \in SUBSET Engine \/ S \in SUBSET DOMAIN since =>
                         IsFiniteSet(S) /\ Cardinality(S) \in Nat
           /\ \A S \in SUBSET Edges : Counts(S, traversals) /\ Total(S, traversals) \in Nat
           /\ visits[v] \in Nat
<1>1. IsFiniteSet(Engine)
  BY InputAssumption
<1>2. IsFiniteSet(DOMAIN since)
  BY FiniteList DEF Inv, CounterType
<1>3. \A S : S \in SUBSET Engine \/ S \in SUBSET DOMAIN since =>
                 IsFiniteSet(S) /\ Cardinality(S) \in Nat
  BY <1>1, <1>2, FS_Subset, FS_CardinalityType
<1>4. ASSUME NEW S \in SUBSET Edges PROVE Counts(S, traversals)
  <2>1. IsFiniteSet(Edges)
    BY GraphFacts DEF Inv, Edges
  <2>2. IsFiniteSet(S)
    BY <2>1, FS_Subset
  <2>3. \A x \in S : x.id \in Ids
    BY DEF Ids
  <2> QED BY <2>2, <2>3 DEF Counts, Inv, CounterType
<1>5. \A S \in SUBSET Edges : Total(S, traversals) \in Nat
  BY <1>4, TotalRec
<1>6. visits[v] \in Nat
  BY DEF Inv, CounterType
<1> QED BY <1>3, <1>4, <1>5, <1>6

LEMMA TalliesAreNat ==
    ASSUME Inv, NEW v \in Vertices
    PROVE  /\ IsFiniteSet(CountedIn(v)) /\ IsFiniteSet(StartedFrom(v))
           /\ IsFiniteSet(Entering(v)) /\ IsFiniteSet(Evaluating(v))
           /\ IsFiniteSet(Ended(v)) /\ IsFiniteSet(Started(v))
           /\ Cardinality(CountedIn(v)) \in Nat /\ Cardinality(StartedFrom(v)) \in Nat
           /\ Cardinality(Entering(v)) \in Nat /\ Cardinality(Evaluating(v)) \in Nat
           /\ Cardinality(Ended(v)) \in Nat /\ Cardinality(Started(v)) \in Nat
           /\ \A j : IsFiniteSet(ToEvaluate(v, j)) /\ Cardinality(ToEvaluate(v, j)) \in Nat
           /\ Counts(Arriving(graph, v), traversals) /\ Counts(Leaving(graph, v), traversals)
           /\ Total(Arriving(graph, v), traversals) \in Nat
           /\ Total(Leaving(graph, v), traversals) \in Nat
           /\ visits[v] \in Nat
<1>1. /\ CountedIn(v) \in SUBSET Engine /\ StartedFrom(v) \in SUBSET Engine
      /\ Entering(v) \in SUBSET Engine /\ Evaluating(v) \in SUBSET Engine
      /\ \A j : ToEvaluate(v, j) \in SUBSET Engine
  BY DEF CountedIn, StartedFrom, Entering, Evaluating, ToEvaluate
<1>2. Ended(v) \in SUBSET DOMAIN since /\ Started(v) \in SUBSET DOMAIN since
  BY DEF Ended, Started
<1>3. Arriving(graph, v) \in SUBSET Edges /\ Leaving(graph, v) \in SUBSET Edges
  BY DEF Arriving, Leaving, Edges
<1> QED BY <1>1, <1>2, <1>3, FiniteTallies

LEMMA EngineFacts ==
    ASSUME Inv, NEW t \in Engine
    PROVE  /\ engine[t] \in EngineType /\ Place(graph, engine[t])
           /\ engine[t].visited \in Seq(Vertices) /\ engine[t].next \in Nat
           /\ Running(t) =>
                 /\ Current(t) \in Vertices
                 /\ Len(engine[t].visited) \in Nat \ {0}
                 /\ Current(t) = engine[t].visited[Len(engine[t].visited)]
                 /\ Head(engine[t].visited) = engine[t].visited[1]
                 /\ \A i \in 1 .. Len(engine[t].visited) : engine[t].visited[i] \in Vertices
                 /\ \A i, j \in 1 .. Len(engine[t].visited) :
                        engine[t].visited[i] = engine[t].visited[j] => i = j
<1>1. engine[t] \in EngineType /\ Place(graph, engine[t])
  BY DEF Inv, EngineInv
<1>2. engine[t].visited \in Seq(Vertices) /\ engine[t].next \in Nat
  BY <1>1 DEF EngineType
<1> DEFINE q == engine[t].visited
<1>3. ASSUME Running(t)
      PROVE  /\ Current(t) \in Vertices
             /\ Len(q) \in Nat \ {0} /\ Current(t) = q[Len(q)] /\ Head(q) = q[1]
             /\ \A i \in 1 .. Len(q) : q[i] \in Vertices
             /\ \A i, j \in 1 .. Len(q) : q[i] = q[j] => i = j
  <2>1. q # <<>> /\ Current(t) = Last(q)
    BY <1>3 DEF Running, Current
  <2>2. Proper(graph) /\ IsWalk(graph, q) /\ q \in Seq(ToSet(graph.vertices))
    BY <1>1, <1>2, <2>1 DEF Place, Inv, Vertices
  <2>3. \A i, j \in 1 .. Len(q) : q[i] = q[j] => i = j
    BY <2>2, WalkFacts
  <2> HIDE DEF q
  <2>4. Len(q) \in Nat \ {0} /\ \A i \in 1 .. Len(q) : q[i] \in Vertices
    BY <2>1, <2>2, LenProperties, ElementOfSeq, EmptySeq DEF Vertices
  <2>5. Current(t) = q[Len(q)] /\ Head(q) = q[1]
    BY <2>1, <2>2 DEF Last
  <2>6. Current(t) \in Vertices
    BY <2>4, <2>5
  <2> QED BY <2>3, <2>4, <2>5, <2>6
<1> QED BY <1>1, <1>2, <1>3 DEF q

(* What a step of engine t leaves alone. *)
StepOf(t) ==
    /\ graph' = graph /\ engine' = [u \in Engine |-> engine'[u]]
    /\ \A u \in Engine \ {t} : engine'[u] = engine[u]

LEMMA EngineStep ==
    ASSUME Inv, NEW t \in Engine, StepOf(t), engine'[t] \in EngineType, Place(graph, engine'[t])
    PROVE  Proper(graph)' /\ EngineInv' /\ Vertices' = Vertices /\ Edges' = Edges /\ Ids' = Ids
<1>1. Proper(graph)'
  BY DEF StepOf, Inv
<1>2. Vertices' = Vertices /\ Edges' = Edges
  BY DEF StepOf, Vertices, Edges
<1>3. Ids' = Ids
  BY <1>2 DEF Ids
<1>4. EngineType' = EngineType
  BY <1>2 DEF EngineType, Idle
<1>5. \A u \in Engine : engine'[u] \in EngineType /\ Place(graph, engine'[u])
  BY EngineFacts DEF StepOf
<1>6. engine' \in [Engine -> EngineType]
  <2>1. engine' = [u \in Engine |-> engine'[u]]
    BY DEF StepOf, Inv, EngineInv
  <2> QED BY <1>5, <2>1
<1>7. EngineInv'
  BY <1>4, <1>5, <1>6 DEF EngineInv, StepOf
<1> QED BY <1>1, <1>2, <1>3, <1>7

LEMMA ExecuteFromRootStep ==
    ASSUME Inv, NEW t \in Engine, NEW root \in ToSet(RootVertices(graph)), NEW d \in Data,
           ExecuteFromRoot(t, root, d)
    PROVE  Inv'
<1> DEFINE new == [data |-> d, visited |-> <<root>>, next |-> 0, best |-> 0]
<1>1. root \in Vertices
  BY ListFacts DEF Inv, Vertices
<1>2. engine[t] = Idle /\ engine[t].visited = <<>> /\ engine[t].next = 0
  <2>1. engine[t].visited = <<>>
    BY DEF ExecuteFromRoot, Running
  <2>2. engine[t] = Idle
    BY <2>1, EngineFacts DEF Place
  <2> QED BY <2>1, <2>2 DEF Idle
<1>3. engine'[t] = new /\ StepOf(t)
  <2>1. engine \in [Engine -> EngineType]
    BY DEF Inv, EngineInv
  <2> QED BY <2>1 DEF ExecuteFromRoot, StepOf
<1>4. /\ new.visited = <<root>> /\ new.next = 0 /\ new.visited # <<>>
      /\ Len(new.visited) = 1 /\ Last(new.visited) = root /\ Head(new.visited) = root
  BY DEF Last
<1>5. new \in EngineType
  BY <1>1 DEF EngineType
<1>6. Place(graph, new)
  BY <1>4 DEF Place, IsWalk
<1> HIDE DEF new
<1>7. Proper(graph)' /\ EngineInv' /\ Vertices' = Vertices /\ Edges' = Edges /\ Ids' = Ids
  BY <1>3, <1>5, <1>6, EngineStep
<1>8. CounterType'
  BY <1>7 DEF Inv, CounterType, ExecuteFromRoot
<1>9. ASSUME NEW v \in Vertices
      PROVE  /\ CountedIn(v)' = CountedIn(v) /\ Evaluating(v)' = Evaluating(v)
             /\ \A j : ToEvaluate(v, j)' = ToEvaluate(v, j)
  <2>1. v \notin Counted(engine[t]) /\ v \notin Counted(new)
    BY <1>2, <1>4 DEF Counted
  <2>2. CountedIn(v)' = CountedIn(v)
    BY <1>3, <2>1 DEF CountedIn, StepOf
  <2>3. Evaluating(v)' = Evaluating(v)
    BY <1>2, <1>3, <1>4 DEF Evaluating, StepOf
  <2>4. ASSUME NEW j PROVE ToEvaluate(v, j)' = ToEvaluate(v, j)
    BY <1>2, <1>3, <1>4 DEF ToEvaluate, StepOf
  <2> QED BY <2>2, <2>3, <2>4
<1>10. ASSUME NEW v \in Vertices
       PROVE  Cardinality(Entering(v)') - Cardinality(Entering(v))
                = Cardinality(StartedFrom(v)') - Cardinality(StartedFrom(v))
  <2>1. At(new, v) <=> v = root
    BY <1>4 DEF At
  <2>2. ~ At(engine[t], v)
    BY <1>2 DEF At
  <2>3. CASE v = root
    <3>1. Entering(v)' = Entering(v) \cup {t} /\ t \notin Entering(v)
      BY <1>3, <1>4, <2>1, <2>2, <2>3 DEF Entering, StepOf
    <3>2. StartedFrom(v)' = StartedFrom(v) \cup {t} /\ t \notin StartedFrom(v)
      BY <1>2, <1>3, <1>4, <2>3 DEF StartedFrom, StepOf
    <3>3. /\ IsFiniteSet(Entering(v)) /\ IsFiniteSet(StartedFrom(v))
          /\ Cardinality(Entering(v)) \in Nat /\ Cardinality(StartedFrom(v)) \in Nat
      BY TalliesAreNat
    <3>4. Cardinality(Entering(v)') = Cardinality(Entering(v)) + 1
      BY <3>1, <3>3, Joins
    <3>5. Cardinality(StartedFrom(v)') = Cardinality(StartedFrom(v)) + 1
      BY <3>2, <3>3, Joins
    <3> QED BY <3>3, <3>4, <3>5
  <2>4. CASE v # root
    <3>1. Entering(v)' = Entering(v)
      BY <1>3, <2>1, <2>2, <2>4 DEF Entering, StepOf
    <3>2. StartedFrom(v)' = StartedFrom(v)
      BY <1>2, <1>3, <1>4, <2>4 DEF StartedFrom, StepOf
    <3>3. Cardinality(Entering(v)) \in Nat /\ Cardinality(StartedFrom(v)) \in Nat
      BY TalliesAreNat
    <3> QED BY <3>1, <3>2, <3>3
  <2> QED BY <2>3, <2>4
<1>11. ASSUME NEW v \in Vertices
       PROVE  /\ visits'[v] = visits[v] /\ Ended(v)' = Ended(v) /\ Started(v)' = Started(v)
              /\ Total(Arriving(graph, v), traversals)' = Total(Arriving(graph, v), traversals)
              /\ Total(Leaving(graph, v), traversals)' = Total(Leaving(graph, v), traversals)
  BY DEF ExecuteFromRoot, Ended, Started
<1>12. ASSUME NEW v \in Vertices PROVE VisitsOf(v)'
  BY <1>9, <1>11 DEF Inv, CounterInv, VisitsOf
<1>13. ASSUME NEW v \in Vertices PROVE EntriesOf(v)'
  <2>1. EntriesOf(v)
    BY DEF Inv, CounterInv
  <2>2. Cardinality(Entering(v)') \in Nat /\ Cardinality(StartedFrom(v)') \in Nat
    <3>1. Entering(v)' \in SUBSET Engine /\ StartedFrom(v)' \in SUBSET Engine
      BY DEF Entering, StartedFrom
    <3> QED BY <3>1, FiniteTallies
  <2> QED BY <1>10, <1>11, <2>1, <2>2, TalliesAreNat DEF EntriesOf
<1>14. ASSUME NEW v \in Vertices, IsTeam(graph, v)' PROVE ExitsOf(v)' /\ EdgesOf(v)'
  <2>1. ExitsOf(v) /\ EdgesOf(v)
    BY <1>14 DEF Inv, CounterInv, ExecuteFromRoot
  <2>2. ExitsOf(v)'
    BY <1>9, <1>11, <2>1 DEF ExitsOf
  <2>3. EdgesOf(v)'
    BY <1>9, <1>11, <2>1 DEF EdgesOf, ExecuteFromRoot
  <2> QED BY <2>2, <2>3
<1>15. CounterInv'
  BY <1>7, <1>12, <1>13, <1>14 DEF CounterInv
<1> QED BY <1>7, <1>8, <1>15 DEF Inv

(* The engine is counted in the team that it entered, and is now evaluating its edges. *)
LEMMA EvaluateTeamStep ==
    ASSUME Inv, NEW t \in Engine, EvaluateTeam(t)
    PROVE  Inv'
<1> DEFINE old == engine[t]
           new == engine'[t]
           c == Current(t)
           n == Len(old.visited)
<1>1. engine \in [Engine -> EngineType] /\ old \in EngineType
  BY DEF Inv, EngineInv
<1>2. /\ old.visited # <<>> /\ old.next = 0 /\ IsTeam(graph, c) /\ c \in Vertices
      /\ n \in Nat \ {0} /\ c = old.visited[n] /\ Last(old.visited) = c
      /\ \A i, j \in 1 .. n : old.visited[i] = old.visited[j] => i = j
  BY EngineFacts DEF EvaluateTeam, InTeam, Running, Current
<1>3. new = [old EXCEPT !.next = 1, !.best = 1] /\ StepOf(t)
  <2>1. new = [old EXCEPT !.next = 1, !.best = 1]
    BY <1>1 DEF EvaluateTeam
  <2> QED BY <1>1, <2>1 DEF EvaluateTeam, StepOf
<1>4. new \in EngineType /\ new.visited = old.visited /\ new.next = 1 /\ new.best = 1
  <2> HIDE DEF new, old
  <2> QED BY <1>1, <1>3 DEF EngineType
<1>5. Place(graph, new)
  <2>1. OutgoingEdges(graph, c) # <<>>
    BY <1>2 DEF Inv, Proper, Vertices
  <2>2. 1 \in DOMAIN OutgoingEdges(graph, c) /\ Len(OutgoingEdges(graph, c)) \in Nat
    <3>1. OutgoingEdges(graph, c) \in Seq(ToSet(graph.edges))
      BY OutFacts DEF Inv
    <3> HIDE DEF c
    <3> QED BY <2>1, <3>1, LenProperties, EmptySeq
  <2>3. IsWalk(graph, old.visited)
    BY <1>2, EngineFacts DEF Place
  <2> HIDE DEF c, old, new
  <2>4. 1 \in 1 .. Len(OutgoingEdges(graph, c)) + 1
    BY <2>2
  <2> QED BY <1>2, <1>4, <2>2, <2>3, <2>4 DEF Place
<1>6. Proper(graph)' /\ EngineInv' /\ Vertices' = Vertices /\ Edges' = Edges /\ Ids' = Ids
  BY <1>3, <1>4, <1>5, EngineStep
<1>7. visits' = [visits EXCEPT ![c] = @ + 1] /\ visits \in [Vertices -> Nat]
  BY DEF EvaluateTeam, Increment, Inv, CounterType
<1>8. UNCHANGED <<graph, edgeVisits, traversals, since>>
  BY DEF EvaluateTeam
<1> HIDE DEF c, old, new, n
<1>9. CounterType'
  <2>1. visits' \in [Vertices -> Nat]
    BY <1>2, <1>7
  <2> QED BY <1>6, <1>8, <2>1 DEF Inv, CounterType
<1>10. ASSUME NEW v \in Vertices
       PROVE  /\ visits'[v] = visits[v] + (IF v = c THEN 1 ELSE 0) /\ visits[v] \in Nat
              /\ Ended(v)' = Ended(v) /\ Started(v)' = Started(v) /\ StartedFrom(v)' = StartedFrom(v)
              /\ Total(Arriving(graph, v), traversals)' = Total(Arriving(graph, v), traversals)
              /\ Total(Leaving(graph, v), traversals)' = Total(Leaving(graph, v), traversals)
  <2>1. StartedFrom(v)' = StartedFrom(v)
    BY <1>3, <1>4 DEF StartedFrom, StepOf, new, old
  <2> QED BY <1>2, <1>7, <1>8, <2>1 DEF Ended, Started
<1>11. Counted(new) = Counted(old) \cup {c} /\ c \notin Counted(old)
  <2>1. Counted(old) = {old.visited[i] : i \in 1 .. (n - 1)}
    BY <1>2 DEF Counted, n
  <2>2. Counted(new) = {old.visited[i] : i \in 1 .. n}
    BY <1>4 DEF Counted, n
  <2>3. 1 .. n = 1 .. (n - 1) \cup {n}
    BY <1>2
  <2>4. \A i \in 1 .. (n - 1) : i \in 1 .. n /\ i # n /\ n \in 1 .. n
    BY <1>2
  <2> QED BY <1>2, <2>1, <2>2, <2>3, <2>4
<1>12. ASSUME NEW v \in Vertices
       PROVE  /\ At(engine[t], v) <=> v = c
              /\ At(engine'[t], v) <=> v = c
              /\ engine[t].next = 0 /\ engine'[t].next = 1 /\ StepOf(t)
  <2>1. (At(old, v) <=> v = c) /\ (At(new, v) <=> v = c)
    BY <1>2, <1>4 DEF At
  <2>2. old.next = 0 /\ new.next = 1 /\ StepOf(t)
    BY <1>2, <1>3, <1>4
  <2> QED BY <2>1, <2>2 DEF old, new
<1>13. ASSUME NEW v \in Vertices PROVE VisitsOf(v)'
  <2>1. VisitsOf(v)
    BY DEF Inv, CounterInv
  <2>2. CASE v = c
    <3>1. CountedIn(v)' = CountedIn(v) \cup {t} /\ t \notin CountedIn(v)
      BY <1>3, <1>11, <2>2 DEF CountedIn, StepOf, new, old
    <3>2. Cardinality(CountedIn(v)') = Cardinality(CountedIn(v)) + 1
      BY <3>1, Joins, TalliesAreNat
    <3> QED BY <1>10, <2>1, <2>2, <3>2, TalliesAreNat DEF VisitsOf
  <2>3. CASE v # c
    <3>1. CountedIn(v)' = CountedIn(v)
      BY <1>3, <1>11, <2>3 DEF CountedIn, StepOf, new, old
    <3> QED BY <1>10, <2>1, <2>3, <3>1 DEF VisitsOf
  <2> QED BY <2>2, <2>3
<1>14. ASSUME NEW v \in Vertices PROVE EntriesOf(v)'
  <2>1. EntriesOf(v)
    BY DEF Inv, CounterInv
  <2>2. CASE v = c
    <3>1. Entering(v)' = Entering(v) \ {t} /\ t \in Entering(v)
      BY <1>12, <2>2 DEF Entering, StepOf
    <3>2. Cardinality(Entering(v)) = Cardinality(Entering(v)') + 1
      BY <3>1, Leaves, TalliesAreNat
    <3>3. Cardinality(Entering(v)') \in Nat
      <4>1. Entering(v)' \in SUBSET Engine
        BY DEF Entering
      <4> QED BY <4>1, FiniteTallies
    <3> QED BY <1>10, <2>1, <2>2, <3>2, <3>3, TalliesAreNat DEF EntriesOf
  <2>3. CASE v # c
    <3>1. Entering(v)' = Entering(v)
      BY <1>12, <2>3 DEF Entering, StepOf
    <3> QED BY <1>10, <2>1, <2>3, <3>1 DEF EntriesOf
  <2> QED BY <2>2, <2>3
<1>15. ASSUME NEW v \in Vertices, IsTeam(graph, v)' PROVE ExitsOf(v)' /\ EdgesOf(v)'
  <2>1. ExitsOf(v) /\ EdgesOf(v)
    BY <1>8, <1>15 DEF Inv, CounterInv
  <2>2. CASE v = c
    <3>1. Evaluating(v)' = Evaluating(v) \cup {t} /\ t \notin Evaluating(v)
      BY <1>12, <2>2 DEF Evaluating, StepOf
    <3>2. Cardinality(Evaluating(v)') = Cardinality(Evaluating(v)) + 1
      BY <3>1, Joins, TalliesAreNat
    <3>3. ExitsOf(v)'
      BY <1>10, <2>1, <2>2, <3>2, TalliesAreNat DEF ExitsOf
    <3>4. ASSUME NEW j \in DOMAIN OutgoingEdges(graph, v)
          PROVE  Cardinality(ToEvaluate(v, j)') = Cardinality(ToEvaluate(v, j)) + 1
      <4>1. 1 \in 1 .. j /\ 0 \notin 1 .. j
        BY OutFacts DEF Inv
      <4>2. ToEvaluate(v, j)' = ToEvaluate(v, j) \cup {t} /\ t \notin ToEvaluate(v, j)
        BY <1>12, <2>2, <4>1 DEF ToEvaluate, StepOf
      <4> QED BY <4>2, Joins, TalliesAreNat
    <3>5. ASSUME NEW j \in DOMAIN OutgoingEdges(graph, v)
          PROVE  visits'[v] = edgeVisits[OutgoingEdges(graph, v)[j].id] + Cardinality(ToEvaluate(v, j)')
      <4>1. visits[v] = edgeVisits[OutgoingEdges(graph, v)[j].id] + Cardinality(ToEvaluate(v, j))
        BY <2>1 DEF EdgesOf
      <4>2. edgeVisits[OutgoingEdges(graph, v)[j].id] \in Nat
        <5>1. OutgoingEdges(graph, v)[j].id \in Ids
          BY OutFacts DEF Inv, Ids, Edges
        <5> QED BY <5>1 DEF Inv, CounterType
      <4> QED BY <1>10, <2>2, <3>4, <4>1, <4>2, TalliesAreNat
    <3>6. EdgesOf(v)'
      BY <1>8, <3>5 DEF EdgesOf
    <3> QED BY <3>3, <3>6
  <2>3. CASE v # c
    <3>1. Evaluating(v)' = Evaluating(v)
      BY <1>12, <2>3 DEF Evaluating, StepOf
    <3>2. \A j : ToEvaluate(v, j)' = ToEvaluate(v, j)
      BY <1>12, <2>3 DEF ToEvaluate, StepOf
    <3> QED BY <1>8, <1>10, <2>1, <2>3, <3>1, <3>2 DEF ExitsOf, EdgesOf
  <2> QED BY <2>2, <2>3
<1>16. CounterInv'
  BY <1>6, <1>13, <1>14, <1>15 DEF CounterInv
<1> QED BY <1>6, <1>9, <1>16 DEF Inv

(* One more edge of the team is evaluated: the visits of the others are as they were, since edges are
   distinct objects. *)
LEMMA EvaluateEdgeStep ==
    ASSUME Inv, NEW t \in Engine, EvaluateEdge(t)
    PROVE  Inv'
<1> DEFINE old == engine[t]
           new == engine'[t]
           c == Current(t)
           out == OutgoingEdges(graph, c)
           i == old.next
<1>1. engine \in [Engine -> EngineType] /\ old \in EngineType
  BY DEF Inv, EngineInv
<1>2. /\ old.visited # <<>> /\ i \in DOMAIN out /\ IsTeam(graph, c) /\ c \in Vertices
      /\ Last(old.visited) = c
  BY EngineFacts DEF EvaluateEdge, InTeam, Running, Current, Out
<1>3. /\ out \in Seq(ToSet(graph.edges)) /\ Len(out) \in Nat /\ DOMAIN out = 1 .. Len(out)
      /\ \A j \in DOMAIN out : out[j] \in ToSet(graph.edges) /\ out[j].src = c
      /\ \A j, k \in DOMAIN out : out[j].id = out[k].id => j = k
  BY OutFacts DEF Inv
<1>4. old.best \in DOMAIN out /\ IsWalk(graph, old.visited) /\ i \in Nat \ {0}
  <2>1. i # 0
    BY <1>2, <1>3
  <2>2. Place(graph, old)
    BY EngineFacts
  <2>3. i \in Nat \ {0}
    BY <1>2, <1>3
  <2> HIDE DEF old
  <2> QED BY <1>2, <2>1, <2>2, <2>3 DEF Place
<1>5. /\ \E b \in {i, old.best} : new = [old EXCEPT !.next = i + 1, !.best = b]
      /\ StepOf(t)
  <2>1. \E b \in {i, old.best} :
            engine' = [engine EXCEPT ![t] = [engine[t] EXCEPT !.next = i + 1, !.best = b]]
    BY DEF EvaluateEdge
  <2>2. PICK b \in {i, old.best} :
            engine' = [engine EXCEPT ![t] = [engine[t] EXCEPT !.next = i + 1, !.best = b]]
    BY <2>1
  <2>3. new = [old EXCEPT !.next = i + 1, !.best = b]
    BY <1>1, <2>2
  <2>4. StepOf(t)
    BY <1>1, <2>2 DEF EvaluateEdge, StepOf
  <2> QED BY <2>3, <2>4
<1>6. /\ new \in EngineType /\ new.visited = old.visited /\ new.next = i + 1
      /\ new.best \in DOMAIN out
  <2>1. PICK b \in {i, old.best} : new = [old EXCEPT !.next = i + 1, !.best = b]
    BY <1>5
  <2>2. b \in Nat /\ b \in DOMAIN out
    BY <1>2, <1>3, <1>4
  <2>3. i + 1 \in Nat
    BY <1>4
  <2> HIDE DEF old, new, i, out
  <2> QED BY <1>1, <2>1, <2>2, <2>3 DEF EngineType
<1>7. Place(graph, new)
  <2>1. i + 1 \in 1 .. Len(out) + 1
    BY <1>2, <1>3
  <2> HIDE DEF old, new, i
  <2> QED BY <1>2, <1>4, <1>6, <2>1 DEF Place
<1>8. Proper(graph)' /\ EngineInv' /\ Vertices' = Vertices /\ Edges' = Edges /\ Ids' = Ids
  BY <1>5, <1>6, <1>7, EngineStep
<1>9. edgeVisits' = [edgeVisits EXCEPT ![out[i].id] = @ + 1] /\ edgeVisits \in [Ids -> Nat]
  BY DEF EvaluateEdge, Increment, Inv, CounterType, Out
<1>10. UNCHANGED <<graph, visits, traversals, since>>
  BY DEF EvaluateEdge
<1>11. out[i].id \in Ids
  BY <1>2, <1>3 DEF Ids, Edges
<1>12. ASSUME NEW v \in Vertices
       PROVE  /\ At(engine[t], v) <=> v = c
              /\ At(engine'[t], v) <=> v = c
              /\ engine[t].next = i /\ engine'[t].next = i + 1 /\ StepOf(t)
              /\ Counted(engine[t]) = Counted(engine'[t])
              /\ engine[t].visited = engine'[t].visited
  <2>1. Counted(old) = Counted(new)
    <3> HIDE DEF old, new, i
    <3>1. old.next # 0 /\ new.next # 0
      BY <1>4, <1>6 DEF i
    <3> QED BY <1>6, <3>1 DEF Counted
  <2> QED BY <1>2, <1>5, <1>6, <2>1 DEF At
<1> HIDE DEF c, old, new, i, out
<1>13. CounterType'
  <2>1. edgeVisits' \in [Ids -> Nat]
    BY <1>9, <1>11
  <2> QED BY <1>8, <1>10, <2>1 DEF Inv, CounterType
<1>14. ASSUME NEW v \in Vertices
       PROVE  /\ visits'[v] = visits[v] /\ Ended(v)' = Ended(v) /\ Started(v)' = Started(v)
              /\ StartedFrom(v)' = StartedFrom(v) /\ CountedIn(v)' = CountedIn(v)
              /\ Entering(v)' = Entering(v) /\ Evaluating(v)' = Evaluating(v)
              /\ Total(Arriving(graph, v), traversals)' = Total(Arriving(graph, v), traversals)
              /\ Total(Leaving(graph, v), traversals)' = Total(Leaving(graph, v), traversals)
  <2>1. StartedFrom(v)' = StartedFrom(v)
    BY <1>12 DEF StartedFrom, StepOf
  <2>2. CountedIn(v)' = CountedIn(v)
    BY <1>12 DEF CountedIn, StepOf
  <2>3. Entering(v)' = Entering(v) /\ Evaluating(v)' = Evaluating(v)
    <3>1. engine[t].next # 0 /\ engine'[t].next # 0
      BY <1>4, <1>12
    <3> QED BY <1>12, <3>1 DEF Entering, Evaluating, StepOf
  <2> QED BY <1>10, <2>1, <2>2, <2>3 DEF Ended, Started
<1>15. ASSUME NEW v \in Vertices PROVE VisitsOf(v)' /\ EntriesOf(v)'
  BY <1>14 DEF Inv, CounterInv, VisitsOf, EntriesOf
<1>16. ASSUME NEW v \in Vertices, IsTeam(graph, v)' PROVE ExitsOf(v)' /\ EdgesOf(v)'
  <2>1. ExitsOf(v) /\ EdgesOf(v)
    BY <1>10, <1>16 DEF Inv, CounterInv
  <2>2. ExitsOf(v)'
    BY <1>14, <2>1 DEF ExitsOf
  <2>3. ASSUME NEW j \in DOMAIN OutgoingEdges(graph, v)
        PROVE  visits[v] = edgeVisits'[OutgoingEdges(graph, v)[j].id] + Cardinality(ToEvaluate(v, j)')
    <3> DEFINE id == OutgoingEdges(graph, v)[j].id
    <3>1. visits[v] = edgeVisits[id] + Cardinality(ToEvaluate(v, j))
      BY <2>1 DEF EdgesOf
    <3>2. id \in Ids /\ OutgoingEdges(graph, v)[j].src = v /\ OutgoingEdges(graph, v)[j] \in Edges /\ j \in Nat
      BY OutFacts DEF Inv, Ids, Edges
    <3>3. edgeVisits[id] \in Nat
      BY <1>9, <3>2
    <3>4. CASE v = c /\ j = i
      <4>1. id = out[i].id
        BY <3>4 DEF out
      <4>2. edgeVisits'[id] = edgeVisits[id] + 1
        BY <1>9, <3>2, <4>1
      <4>3. ToEvaluate(v, j)' = ToEvaluate(v, j) \ {t} /\ t \in ToEvaluate(v, j)
        <5>1. i \in 1 .. j /\ i + 1 \notin 1 .. j
          BY <1>4, <3>4
        <5> QED BY <1>12, <3>4, <5>1 DEF ToEvaluate, StepOf
      <4>4. Cardinality(ToEvaluate(v, j)) = Cardinality(ToEvaluate(v, j)') + 1
        BY <4>3, Leaves, TalliesAreNat
      <4>5. Cardinality(ToEvaluate(v, j)') \in Nat
        <5>1. ToEvaluate(v, j)' \in SUBSET Engine
          BY DEF ToEvaluate
        <5> QED BY <5>1, FiniteTallies
      <4> HIDE DEF id
      <4>6. visits[v] = edgeVisits'[id] + Cardinality(ToEvaluate(v, j)')
        BY <3>1, <3>3, <4>2, <4>4, <4>5
      <4> QED BY <4>6 DEF id
    <3>5. CASE ~ (v = c /\ j = i)
      <4>1. id # out[i].id
        <5>1. CASE v = c
          BY <1>2, <1>3, <3>5, <5>1 DEF out
        <5>2. CASE v # c
          <6>1. out[i] \in Edges /\ out[i].src = c
            BY <1>2, <1>3 DEF Edges
          <6>2. \A e, f \in Edges : e.id = f.id => e = f
            BY GraphFacts DEF Inv, Edges
          <6> QED BY <3>2, <5>2, <6>1, <6>2
        <5> QED BY <5>1, <5>2
      <4>2. edgeVisits'[id] = edgeVisits[id]
        BY <1>9, <3>2, <4>1
      <4>3. ToEvaluate(v, j)' = ToEvaluate(v, j)
        <5>1. v = c => (i \in 1 .. j <=> i + 1 \in 1 .. j)
          BY <1>4, <3>2, <3>5
        <5> QED BY <1>12, <5>1 DEF ToEvaluate, StepOf
      <4> QED BY <3>1, <4>2, <4>3
    <3> QED BY <3>4, <3>5
  <2>4. EdgesOf(v)'
    BY <1>10, <2>3 DEF EdgesOf
  <2> QED BY <2>2, <2>4
<1>17. CounterInv'
  BY <1>8, <1>15, <1>16 DEF CounterInv
<1> QED BY <1>8, <1>13, <1>17 DEF Inv

(* The edge that the engine follows is counted as traversed, and leads to a vertex where the engine
   has not been counted. *)
LEMMA FollowEdgeStep ==
    ASSUME Inv, NEW t \in Engine, FollowEdge(t)
    PROVE  Inv'
<1> DEFINE old == engine[t]
           new == engine'[t]
           c == Current(t)
           out == OutgoingEdges(graph, c)
           e == out[old.best]
           n == Len(old.visited)
<1>1. engine \in [Engine -> EngineType] /\ old \in EngineType
  BY DEF Inv, EngineInv
<1>2. /\ old.visited # <<>> /\ old.next = Len(out) + 1 /\ IsTeam(graph, c) /\ c \in Vertices
      /\ Last(old.visited) = c /\ old.visited \in Seq(Vertices) /\ n \in Nat \ {0}
      /\ c = old.visited[n] /\ Head(old.visited) = old.visited[1]
  BY EngineFacts DEF FollowEdge, InTeam, Running, Current, Out
<1>3. /\ Len(out) \in Nat /\ DOMAIN out = 1 .. Len(out)
      /\ \A j \in DOMAIN out : out[j] \in ToSet(graph.edges) /\ out[j].src = c
  BY OutFacts DEF Inv
<1>4. old.best \in DOMAIN out /\ IsWalk(graph, old.visited) /\ old.next # 0
  <2>1. old.next # 0
    BY <1>2, <1>3
  <2>2. Place(graph, old)
    BY EngineFacts
  <2> HIDE DEF old
  <2> QED BY <1>2, <2>1, <2>2 DEF Place
<1>5. e \in Edges /\ e \in ToSet(graph.edges) /\ e.src = c /\ e.dst \in Vertices /\ e.id \in Ids
  <2>1. e \in ToSet(graph.edges) /\ e.src = c
    BY <1>3, <1>4
  <2> HIDE DEF e
  <2> QED BY <2>1, GraphFacts DEF Inv, Edges, Vertices, Ids
<1>6. new = [old EXCEPT !.next = 0, !.best = 0, !.visited = Append(@, e.dst)] /\ StepOf(t)
  <2>1. engine' = [engine EXCEPT ![t] = [engine[t] EXCEPT !.next = 0, !.best = 0,
                                                          !.visited = Append(@, e.dst)]]
    BY DEF FollowEdge, Out
  <2> HIDE DEF e
  <2>2. new = [old EXCEPT !.next = 0, !.best = 0, !.visited = Append(@, e.dst)]
    BY <1>1, <2>1
  <2>3. StepOf(t)
    BY <1>1, <2>1 DEF FollowEdge, StepOf
  <2> QED BY <2>2, <2>3
<1> DEFINE q == old.visited
           r == Append(q, e.dst)
<1>7. /\ r \in Seq(Vertices) /\ Len(r) = n + 1 /\ r[n + 1] = e.dst /\ Last(r) = e.dst /\ r # <<>>
      /\ Head(r) = Head(q) /\ \A i \in 1 .. n : r[i] = q[i]
  <2> HIDE DEF e, q
  <2>1. q \in Seq(Vertices) /\ n = Len(q) /\ q # <<>>
    BY <1>2 DEF q
  <2>2. r \in Seq(Vertices) /\ Len(r) = n + 1 /\ r[n + 1] = e.dst /\ \A i \in 1 .. n : r[i] = q[i]
    BY <1>5, <2>1, AppendProperties
  <2> HIDE DEF r
  <2>3. r # <<>> /\ Last(r) = r[n + 1] /\ Head(r) = r[1]
    BY <1>2, <2>2, EmptySeq DEF Last
  <2>4. 1 \in 1 .. n /\ Head(q) = q[1]
    BY <1>2 DEF q
  <2> QED BY <2>2, <2>3, <2>4
<1>8. new \in EngineType /\ new.visited = r /\ new.next = 0
  <2> HIDE DEF old, new, e, r
  <2>1. new = [old EXCEPT !.next = 0, !.best = 0, !.visited = r]
    BY <1>6 DEF r, q
  <2> QED BY <1>1, <1>7, <2>1 DEF EngineType
<1>9. Place(graph, new)
  <2>1. IsWalk(graph, r)
    <3> HIDE DEF r, e, q, n
    <3>0. Len(r) - 1 = n
      BY <1>2, <1>7
    <3> SUFFICES ASSUME NEW i \in 1 .. n
                 PROVE  \E f \in ToSet(graph.edges) : f.src = r[i] /\ f.dst = r[i + 1]
      BY <3>0 DEF IsWalk
    <3>1. CASE i = n
      <4>1. r[i] = c /\ r[i + 1] = e.dst
        BY <1>2, <1>7, <3>1 DEF q, n
      <4> QED BY <1>5, <4>1
    <3>2. CASE i # n
      <4>1. i \in 1 .. n - 1 /\ i + 1 \in 1 .. n
        BY <1>2, <3>2
      <4>2. PICK f \in ToSet(graph.edges) : f.src = q[i] /\ f.dst = q[i + 1]
        BY <1>4, <4>1 DEF IsWalk, q, n
      <4>3. r[i] = q[i] /\ r[i + 1] = q[i + 1]
        BY <1>7, <4>1
      <4> QED BY <4>2, <4>3
    <3> QED BY <3>1, <3>2
  <2> HIDE DEF old, new, r, e
  <2> QED BY <1>7, <1>8, <2>1 DEF Place
<1>10. Proper(graph)' /\ EngineInv' /\ Vertices' = Vertices /\ Edges' = Edges /\ Ids' = Ids
  BY <1>6, <1>8, <1>9, EngineStep
<1>11. traversals' = [traversals EXCEPT ![e.id] = @ + 1] /\ traversals \in [Ids -> Nat]
  BY DEF FollowEdge, Traversed, Increment, Inv, CounterType, Out
<1>12. UNCHANGED <<graph, visits, edgeVisits, since>>
  BY DEF FollowEdge
<1>13. Counted(old) = Counted(new)
  <2> HIDE DEF old, new, r, e
  <2>1. Counted(old) = {q[i] : i \in 1 .. n}
    BY <1>4 DEF Counted, q, n
  <2>2. Counted(new) = {r[i] : i \in 1 .. n}
    <3>1. Len(r) - 1 = n
      BY <1>2, <1>7
    <3> QED BY <1>8, <3>1 DEF Counted
  <2> QED BY <1>7, <2>1, <2>2
<1>14. ASSUME NEW v \in Vertices
       PROVE  /\ At(engine[t], v) <=> v = c
              /\ At(engine'[t], v) <=> v = e.dst
              /\ engine[t].next = Len(out) + 1 /\ engine'[t].next = 0 /\ StepOf(t)
              /\ Counted(engine[t]) = Counted(engine'[t])
              /\ engine[t].visited # <<>> /\ engine'[t].visited # <<>>
              /\ Head(engine[t].visited) = Head(engine'[t].visited)
  <2> HIDE DEF e, r
  <2>1. At(old, v) <=> v = c
    BY <1>2 DEF At
  <2>2. At(new, v) <=> v = e.dst
    <3> HIDE DEF new
    <3> QED BY <1>7, <1>8 DEF At
  <2>3. new.visited # <<>> /\ Head(new.visited) = Head(old.visited)
    <3> HIDE DEF new, old
    <3> QED BY <1>7, <1>8 DEF q
  <2> QED BY <1>2, <1>6, <1>8, <1>13, <2>1, <2>2, <2>3
<1> HIDE DEF c, old, new, e, out, n, q, r
<1>15. CounterType'
  <2>1. traversals' \in [Ids -> Nat]
    BY <1>5, <1>11
  <2> QED BY <1>10, <1>12, <2>1 DEF Inv, CounterType
<1>16. ASSUME NEW v \in Vertices
       PROVE  /\ visits'[v] = visits[v] /\ Ended(v)' = Ended(v) /\ Started(v)' = Started(v)
              /\ StartedFrom(v)' = StartedFrom(v) /\ CountedIn(v)' = CountedIn(v)
  <2>1. StartedFrom(v)' = StartedFrom(v)
    BY <1>14 DEF StartedFrom, StepOf
  <2>2. CountedIn(v)' = CountedIn(v)
    BY <1>14 DEF CountedIn, StepOf
  <2> QED BY <1>12, <2>1, <2>2 DEF Ended, Started
<1>17. traversals'[e.id] = traversals[e.id] + 1 /\ \A f \in Edges \ {e} : traversals'[f.id] = traversals[f.id]
  <2>1. ASSUME NEW f \in Edges \ {e} PROVE f.id # e.id /\ f.id \in Ids
    BY <1>5, GraphFacts DEF Inv, Edges, Ids
  <2> QED BY <1>5, <1>11, <2>1
<1>18. ASSUME NEW S \in SUBSET Edges
       PROVE  Total(S, traversals') = Total(S, traversals) + (IF e \in S THEN 1 ELSE 0)
  <2>1. Counts(S, traversals) /\ Total(S, traversals) \in Nat
    BY <1>5, FiniteTallies
  <2>2. CASE e \in S
    <3>1. Total(S, traversals') = Total(S, traversals) + 1
      BY <1>17, <2>1, <2>2, TotalChange
    <3> QED BY <2>2, <3>1
  <2>3. CASE e \notin S
    <3>1. Total(S, traversals') = Total(S, traversals)
      BY <1>17, <2>1, <2>3, TotalSame
    <3> QED BY <2>1, <2>3, <3>1
  <2> QED BY <2>2, <2>3
<1>19. ASSUME NEW v \in Vertices
       PROVE  /\ Total(Arriving(graph, v), traversals')
                   = Total(Arriving(graph, v), traversals) + (IF v = e.dst THEN 1 ELSE 0)
              /\ Total(Leaving(graph, v), traversals')
                   = Total(Leaving(graph, v), traversals) + (IF v = c THEN 1 ELSE 0)
  <2>1. Arriving(graph, v) \in SUBSET Edges /\ (e \in Arriving(graph, v) <=> v = e.dst)
    BY <1>5 DEF Arriving, Edges
  <2>2. Leaving(graph, v) \in SUBSET Edges /\ (e \in Leaving(graph, v) <=> v = c)
    BY <1>5 DEF Leaving, Edges
  <2> QED BY <1>18, <2>1, <2>2
<1>20. ASSUME NEW v \in Vertices PROVE VisitsOf(v)'
  BY <1>16 DEF Inv, CounterInv, VisitsOf
<1>21. ASSUME NEW v \in Vertices PROVE EntriesOf(v)'
  <2>1. EntriesOf(v)
    BY DEF Inv, CounterInv
  <2>2. Len(out) + 1 # 0
    BY <1>3 DEF out
  <2>3. CASE v = e.dst
    <3>1. Entering(v)' = Entering(v) \cup {t} /\ t \notin Entering(v)
      BY <1>14, <2>2, <2>3 DEF Entering, StepOf
    <3>2. Cardinality(Entering(v)') = Cardinality(Entering(v)) + 1
      BY <3>1, Joins, TalliesAreNat
    <3>3. Total(Arriving(graph, v), traversals)' = Total(Arriving(graph, v), traversals) + 1
      BY <1>12, <1>19, <2>3
    <3>4. /\ Cardinality(Entering(v)) \in Nat /\ Total(Arriving(graph, v), traversals) \in Nat
          /\ Cardinality(Started(v)) \in Nat /\ Cardinality(StartedFrom(v)) \in Nat
          /\ visits[v] \in Nat
      BY TalliesAreNat
    <3> QED BY <1>16, <2>1, <3>2, <3>3, <3>4 DEF EntriesOf
  <2>4. CASE v # e.dst
    <3>1. Entering(v)' = Entering(v)
      BY <1>14, <2>2, <2>4 DEF Entering, StepOf
    <3>2. Total(Arriving(graph, v), traversals)' = Total(Arriving(graph, v), traversals)
      BY <1>12, <1>19, <2>4, TalliesAreNat
    <3> QED BY <1>16, <2>1, <3>1, <3>2 DEF EntriesOf
  <2> QED BY <2>3, <2>4
<1>22. ASSUME NEW v \in Vertices, IsTeam(graph, v)' PROVE ExitsOf(v)' /\ EdgesOf(v)'
  <2>1. ExitsOf(v) /\ EdgesOf(v)
    BY <1>12, <1>22 DEF Inv, CounterInv
  <2>2. Len(out) + 1 # 0
    BY <1>3 DEF out
  <2>3. ExitsOf(v)'
    <3>1. CASE v = c
      <4>1. Evaluating(v)' = Evaluating(v) \ {t} /\ t \in Evaluating(v)
        BY <1>14, <2>2, <3>1 DEF Evaluating, StepOf
      <4>2. Cardinality(Evaluating(v)) = Cardinality(Evaluating(v)') + 1
        BY <4>1, Leaves, TalliesAreNat
      <4>3. Cardinality(Evaluating(v)') \in Nat
        <5>1. Evaluating(v)' \in SUBSET Engine
          BY DEF Evaluating
        <5> QED BY <5>1, FiniteTallies
      <4>4. Total(Leaving(graph, v), traversals)' = Total(Leaving(graph, v), traversals) + 1
        BY <1>12, <1>19, <3>1
      <4> QED BY <1>16, <2>1, <4>2, <4>3, <4>4, TalliesAreNat DEF ExitsOf
    <3>2. CASE v # c
      <4>1. Evaluating(v)' = Evaluating(v)
        BY <1>14, <3>2 DEF Evaluating, StepOf
      <4>2. Total(Leaving(graph, v), traversals)' = Total(Leaving(graph, v), traversals)
        BY <1>12, <1>19, <3>2, TalliesAreNat
      <4> QED BY <1>16, <2>1, <4>1, <4>2 DEF ExitsOf
    <3> QED BY <3>1, <3>2
  <2>4. ASSUME NEW j \in DOMAIN OutgoingEdges(graph, v) PROVE ToEvaluate(v, j)' = ToEvaluate(v, j)
    <3>1. v = c => Len(out) + 1 \notin 1 .. j
      BY <1>3 DEF out
    <3>2. 0 \notin 1 .. j
      BY OutFacts DEF Inv
    <3> QED BY <1>14, <3>1, <3>2 DEF ToEvaluate, StepOf
  <2>5. EdgesOf(v)'
    BY <1>12, <1>16, <2>1, <2>4 DEF EdgesOf
  <2> QED BY <2>3, <2>5
<1>23. CounterInv'
  BY <1>10, <1>20, <1>21, <1>22 DEF CounterInv
<1> QED BY <1>10, <1>15, <1>23 DEF Inv

LEMMA IdleFacts ==
    /\ Idle.visited = <<>> /\ Idle.next = 0 /\ Idle \in EngineType /\ Counted(Idle) = {}
    /\ \A g : Place(g, Idle)
    /\ \A v : ~ At(Idle, v)
<1>1. Idle.visited = <<>> /\ Idle.next = 0
  BY DEF Idle
<1>2. Idle \in EngineType
  BY EmptySeq DEF Idle, EngineType
<1>3. Counted(Idle) = {}
  BY <1>1 DEF Counted
<1> QED BY <1>1, <1>2, <1>3 DEF Place, At

(* The execution ends: it is counted in the action, and its trace joins those of the executions that
   ended. *)
LEMMA ReachActionStep ==
    ASSUME Inv, NEW t \in Engine, ReachAction(t)
    PROVE  Inv'
<1> DEFINE old == engine[t]
           c == Current(t)
           q == old.visited
           n == Len(q)
           m == Len(since) + 1
<1>1. engine \in [Engine -> EngineType] /\ old \in EngineType
  BY DEF Inv, EngineInv
<1>2. /\ q # <<>> /\ ~ IsTeam(graph, c) /\ c \in Vertices /\ Last(q) = c /\ q \in Seq(Vertices)
      /\ n \in Nat \ {0} /\ c = q[n]
      /\ \A i, j \in 1 .. n : q[i] = q[j] => i = j
  BY EngineFacts DEF ReachAction, InTeam, Running, Current
<1>3. old.next = 0
  <2>1. Place(graph, old)
    BY EngineFacts
  <2> HIDE DEF old, c
  <2> QED BY <1>2, <2>1 DEF Place, q
<1>4. engine'[t] = Idle /\ StepOf(t)
  BY <1>1 DEF ReachAction, StepOf
<1>5. Proper(graph)' /\ EngineInv' /\ Vertices' = Vertices /\ Edges' = Edges /\ Ids' = Ids
  BY <1>4, IdleFacts, EngineStep
<1>6. visits' = [visits EXCEPT ![c] = @ + 1] /\ visits \in [Vertices -> Nat]
  BY DEF ReachAction, Increment, Inv, CounterType
<1>7. UNCHANGED <<graph, edgeVisits, traversals>>
  BY DEF ReachAction
<1>8. /\ m \in Nat \ {0} /\ DOMAIN since = 1 .. (m - 1) /\ DOMAIN since' = 1 .. m /\ since'[m].trace = q
      /\ \A i \in DOMAIN since : since'[i] = since[i]
      /\ since' \in Seq(ToSet(since'))
  <2> DEFINE rec == [data |-> engine[t].data, trace |-> q]
             T == ToSet(since)
  <2>1. since \in Seq(T) /\ since' = Append(since, rec)
    BY DEF Inv, CounterType, ReachAction
  <2>2. rec.trace = q
    OBVIOUS
  <2>3. since \in Seq(T \cup {rec})
    <3>1. Len(since) \in Nat /\ since \in [1 .. Len(since) -> T]
      BY <2>1, LenProperties
    <3>2. since \in [1 .. Len(since) -> T \cup {rec}]
      BY <3>1
    <3> QED BY <3>1, <3>2
  <2> HIDE DEF rec, T, q
  <2>4. Len(since) \in Nat /\ DOMAIN since = 1 .. Len(since)
    BY <2>1, LenProperties
  <2>5. /\ since' \in Seq(T \cup {rec}) /\ Len(since') = m /\ since'[m] = rec
        /\ \A i \in 1 .. Len(since) : since'[i] = since[i]
    BY <2>1, <2>3, AppendProperties
  <2>6. DOMAIN since' = 1 .. m /\ m \in Nat \ {0} /\ m - 1 = Len(since)
    BY <2>4, <2>5, LenProperties
  <2>7. since' \in Seq(ToSet(since'))
    <3>1. since' = [i \in 1 .. m |-> since'[i]]
      BY <2>5, <2>6, LenProperties
    <3>2. \A i \in 1 .. m : since'[i] \in ToSet(since')
      BY <2>6 DEF ToSet
    <3>3. since' \in [1 .. m -> ToSet(since')]
      BY <3>1, <3>2
    <3> QED BY <2>6, <3>3
  <2> QED BY <2>2, <2>4, <2>5, <2>6, <2>7
<1>9. Counted(old) = {q[i] : i \in 1 .. (n - 1)} /\ c \notin Counted(old) /\ ToSet(q) = Counted(old) \cup {c}
  <2>1. Counted(old) = {q[i] : i \in 1 .. (n - 1)}
    BY <1>3 DEF Counted
  <2>2. ToSet(q) = {q[i] : i \in 1 .. n}
    <3>1. DOMAIN q = 1 .. n
      BY <1>2, LenProperties
    <3> QED BY <3>1 DEF ToSet
  <2>3. 1 .. n = 1 .. (n - 1) \cup {n}
    BY <1>2
  <2>4. \A i \in 1 .. (n - 1) : i \in 1 .. n /\ i # n /\ n \in 1 .. n
    BY <1>2
  <2> HIDE DEF q, n, c, old
  <2> QED BY <1>2, <2>1, <2>2, <2>3, <2>4
<1>10. ASSUME NEW v \in Vertices
       PROVE  /\ At(engine[t], v) <=> v = c
              /\ ~ At(engine'[t], v)
              /\ engine[t].next = 0 /\ engine'[t].next = 0 /\ StepOf(t)
              /\ engine[t].visited # <<>> /\ engine'[t].visited = <<>>
              /\ Counted(engine[t]) = Counted(old) /\ Counted(engine'[t]) = {}
  BY <1>2, <1>3, <1>4, IdleFacts DEF At
<1>11. ASSUME NEW v \in Vertices
       PROVE  /\ visits'[v] = visits[v] + (IF v = c THEN 1 ELSE 0) /\ visits[v] \in Nat
              /\ Total(Arriving(graph, v), traversals)' = Total(Arriving(graph, v), traversals)
              /\ Total(Leaving(graph, v), traversals)' = Total(Leaving(graph, v), traversals)
              /\ Evaluating(v)' = Evaluating(v)
              /\ \A j : ToEvaluate(v, j)' = ToEvaluate(v, j)
  <2>1. visits'[v] = visits[v] + (IF v = c THEN 1 ELSE 0) /\ visits[v] \in Nat
    <3> HIDE DEF c
    <3> QED BY <1>2, <1>6
  <2>2. Evaluating(v)' = Evaluating(v)
    BY <1>10 DEF Evaluating, StepOf
  <2>3. ASSUME NEW j PROVE ToEvaluate(v, j)' = ToEvaluate(v, j)
    <3>1. 0 \notin 1 .. j
      OBVIOUS
    <3> QED BY <1>10, <3>1 DEF ToEvaluate, StepOf
  <2> QED BY <1>7, <2>1, <2>2, <2>3
<1>12. m \notin DOMAIN since /\ DOMAIN since' = DOMAIN since \cup {m}
  <2> HIDE DEF m
  <2> QED BY <1>8
<1> HIDE DEF c, old, q, n, m
<1>13. CounterType'
  <2>1. visits' \in [Vertices -> Nat]
    BY <1>2, <1>6
  <2> QED BY <1>5, <1>7, <1>8, <2>1 DEF Inv, CounterType
<1>14. ASSUME NEW v \in Vertices
       PROVE  Ended(v)' = IF v \in ToSet(q) THEN Ended(v) \cup {m} ELSE Ended(v)
  BY <1>8, <1>12 DEF Ended
<1>15. ASSUME NEW v \in Vertices
       PROVE  Started(v)' = IF v = Head(q) THEN Started(v) \cup {m} ELSE Started(v)
  BY <1>8, <1>12 DEF Started
<1>16. ASSUME NEW v \in Vertices PROVE m \notin Ended(v) /\ m \notin Started(v)
  BY <1>12 DEF Ended, Started
<1>17. ASSUME NEW v \in Vertices PROVE VisitsOf(v)'
  <2>1. VisitsOf(v)
    BY DEF Inv, CounterInv
  <2>2. CASE v = c
    <3>1. Cardinality(Ended(v)') = Cardinality(Ended(v)) + 1
      BY <1>9, <1>14, <1>16, <2>2, Joins, TalliesAreNat
    <3>2. CountedIn(v)' = CountedIn(v)
      BY <1>9, <1>10, <2>2 DEF CountedIn, StepOf
    <3> QED BY <1>11, <2>1, <2>2, <3>1, <3>2, TalliesAreNat DEF VisitsOf
  <2>3. CASE v # c /\ v \in Counted(old)
    <3>1. Cardinality(Ended(v)') = Cardinality(Ended(v)) + 1
      BY <1>9, <1>14, <1>16, <2>3, Joins, TalliesAreNat
    <3>2. CountedIn(v)' = CountedIn(v) \ {t} /\ t \in CountedIn(v)
      BY <1>10, <2>3 DEF CountedIn, StepOf
    <3>3. Cardinality(CountedIn(v)) = Cardinality(CountedIn(v)') + 1
      BY <3>2, Leaves, TalliesAreNat
    <3>4. Cardinality(CountedIn(v)') \in Nat
      <4>1. CountedIn(v)' \in SUBSET Engine
        BY DEF CountedIn
      <4> QED BY <4>1, FiniteTallies
    <3> QED BY <1>11, <2>1, <2>3, <3>1, <3>3, <3>4, TalliesAreNat DEF VisitsOf
  <2>4. CASE v # c /\ v \notin Counted(old)
    <3>1. Ended(v)' = Ended(v)
      BY <1>9, <1>14, <2>4
    <3>2. CountedIn(v)' = CountedIn(v)
      BY <1>10, <2>4 DEF CountedIn, StepOf
    <3> QED BY <1>11, <2>1, <2>4, <3>1, <3>2 DEF VisitsOf
  <2> QED BY <2>2, <2>3, <2>4
<1>18. ASSUME NEW v \in Vertices PROVE EntriesOf(v)'
  <2>1. EntriesOf(v)
    BY DEF Inv, CounterInv
  <2>2. /\ Cardinality(Entering(v)) \in Nat /\ Cardinality(Entering(v)') \in Nat
        /\ visits'[v] + Cardinality(Entering(v)') = visits[v] + Cardinality(Entering(v))
    <3>1. Cardinality(Entering(v)) \in Nat /\ Cardinality(Entering(v)') \in Nat
      <4>1. Entering(v)' \in SUBSET Engine
        BY DEF Entering
      <4> QED BY <4>1, FiniteTallies, TalliesAreNat
    <3>2. CASE v = c
      <4>1. Entering(v)' = Entering(v) \ {t} /\ t \in Entering(v)
        BY <1>10, <3>2 DEF Entering, StepOf
      <4>2. Cardinality(Entering(v)) = Cardinality(Entering(v)') + 1
        BY <4>1, Leaves, TalliesAreNat
      <4> QED BY <1>11, <3>1, <3>2, <4>2
    <3>3. CASE v # c
      <4>1. Entering(v)' = Entering(v)
        BY <1>10, <3>3 DEF Entering, StepOf
      <4> QED BY <1>11, <3>1, <3>3, <4>1
    <3> QED BY <3>2, <3>3
  <2>3. /\ Cardinality(Started(v)) \in Nat /\ Cardinality(Started(v)') \in Nat
        /\ Cardinality(StartedFrom(v)) \in Nat /\ Cardinality(StartedFrom(v)') \in Nat
        /\ Cardinality(Started(v)') + Cardinality(StartedFrom(v)')
             = Cardinality(Started(v)) + Cardinality(StartedFrom(v))
    <3>1. Cardinality(Started(v)) \in Nat /\ Cardinality(StartedFrom(v)) \in Nat
      BY TalliesAreNat
    <3>2. Cardinality(StartedFrom(v)') \in Nat
      <4>1. StartedFrom(v)' \in SUBSET Engine
        BY DEF StartedFrom
      <4> QED BY <4>1, FiniteTallies
    <3>3. CASE v = Head(q)
      <4>1. Cardinality(Started(v)') = Cardinality(Started(v)) + 1
        BY <1>15, <1>16, <3>3, Joins, TalliesAreNat
      <4>2. StartedFrom(v)' = StartedFrom(v) \ {t} /\ t \in StartedFrom(v)
        BY <1>10, <3>3 DEF StartedFrom, StepOf, q, old
      <4>3. Cardinality(StartedFrom(v)) = Cardinality(StartedFrom(v)') + 1
        BY <4>2, Leaves, TalliesAreNat
      <4> QED BY <3>1, <3>2, <4>1, <4>3
    <3>4. CASE v # Head(q)
      <4>1. Started(v)' = Started(v)
        BY <1>15, <3>4
      <4>2. StartedFrom(v)' = StartedFrom(v)
        BY <1>10, <3>4 DEF StartedFrom, StepOf, q, old
      <4> QED BY <3>1, <3>2, <4>1, <4>2
    <3> QED BY <3>3, <3>4
  <2> QED BY <1>11, <2>1, <2>2, <2>3, TalliesAreNat DEF EntriesOf
<1>19. ASSUME NEW v \in Vertices, IsTeam(graph, v)' PROVE ExitsOf(v)' /\ EdgesOf(v)'
  <2>1. ExitsOf(v) /\ EdgesOf(v)
    BY <1>7, <1>19 DEF Inv, CounterInv
  <2>2. v # c
    BY <1>2, <1>7, <1>19
  <2>3. visits'[v] = visits[v]
    BY <1>11, <2>2
  <2> QED BY <1>7, <1>11, <2>1, <2>3 DEF ExitsOf, EdgesOf
<1>20. CounterInv'
  BY <1>5, <1>17, <1>18, <1>19 DEF CounterInv
<1> QED BY <1>5, <1>13, <1>20 DEF Inv

-----------------------------------------------------------------------------
(* What the factory does while no engine runs *)

LEMMA IdleTallies ==
    ASSUME AllIdle
    PROVE  \A v : /\ CountedIn(v) = {} /\ StartedFrom(v) = {} /\ Entering(v) = {}
                  /\ Evaluating(v) = {} /\ \A j : ToEvaluate(v, j) = {}
<1>1. \A t \in Engine : engine[t] = Idle
  BY DEF AllIdle
<1> QED BY <1>1, IdleFacts DEF CountedIn, StartedFrom, Entering, Evaluating, ToEvaluate

(* What the invariant says of the counters when no engine runs. *)
LEMMA IdleCounters ==
    ASSUME Inv, AllIdle, NEW v \in Vertices
    PROVE  /\ visits[v] = Cardinality(Ended(v))
           /\ visits[v] = Cardinality(Started(v)) + Total(Arriving(graph, v), traversals)
           /\ IsTeam(graph, v) =>
                 /\ visits[v] = Total(Leaving(graph, v), traversals)
                 /\ \A e \in Leaving(graph, v) : visits[v] = edgeVisits[e.id]
<1>1. /\ Cardinality(CountedIn(v)) = 0 /\ Cardinality(StartedFrom(v)) = 0
      /\ Cardinality(Entering(v)) = 0 /\ Cardinality(Evaluating(v)) = 0
      /\ \A j : Cardinality(ToEvaluate(v, j)) = 0
  BY IdleTallies, FS_EmptySet
<1>2. /\ Cardinality(Ended(v)) \in Nat /\ Cardinality(Started(v)) \in Nat /\ visits[v] \in Nat
      /\ Total(Arriving(graph, v), traversals) \in Nat /\ Total(Leaving(graph, v), traversals) \in Nat
  BY TalliesAreNat
<1>3. visits[v] = Cardinality(Ended(v))
  <2>1. VisitsOf(v)
    BY DEF Inv, CounterInv
  <2> QED BY <1>1, <1>2, <2>1 DEF VisitsOf
<1>4. visits[v] = Cardinality(Started(v)) + Total(Arriving(graph, v), traversals)
  <2>1. EntriesOf(v)
    BY DEF Inv, CounterInv
  <2> QED BY <1>1, <1>2, <2>1 DEF EntriesOf
<1>5. ASSUME IsTeam(graph, v), NEW e \in Leaving(graph, v) PROVE visits[v] = edgeVisits[e.id]
  <2>1. PICK j \in DOMAIN OutgoingEdges(graph, v) : e = OutgoingEdges(graph, v)[j]
    BY OutFacts DEF Inv
  <2>2. visits[v] = edgeVisits[e.id] + Cardinality(ToEvaluate(v, j))
    BY <1>5, <2>1 DEF Inv, CounterInv, EdgesOf
  <2>3. edgeVisits[e.id] \in Nat
    <3>1. e.id \in Ids
      BY DEF Leaving, Ids, Edges
    <3> QED BY <3>1 DEF Inv, CounterType
  <2> QED BY <1>1, <2>2, <2>3
<1>6. ASSUME IsTeam(graph, v) PROVE visits[v] = Total(Leaving(graph, v), traversals)
  <2>1. ExitsOf(v)
    BY <1>6 DEF Inv, CounterInv
  <2> QED BY <1>1, <1>2, <2>1 DEF ExitsOf
<1> QED BY <1>3, <1>4, <1>5, <1>6

(* Conversely, the invariant is this when no engine runs. *)
IdleInv ==
    /\ AllIdle /\ Proper(graph) /\ CounterType /\ engine = [t \in Engine |-> engine[t]]
    /\ \A v \in Vertices :
          /\ visits[v] = Cardinality(Ended(v))
          /\ visits[v] = Cardinality(Started(v)) + Total(Arriving(graph, v), traversals)
          /\ IsTeam(graph, v) =>
                /\ visits[v] = Total(Leaving(graph, v), traversals)
                /\ \A e \in Leaving(graph, v) : visits[v] = edgeVisits[e.id]

LEMMA InvOfIdle == IdleInv => Inv
<1> SUFFICES ASSUME IdleInv PROVE Inv
  OBVIOUS
<1>0. /\ AllIdle /\ Proper(graph) /\ CounterType
      /\ \A v \in Vertices :
            /\ visits[v] = Cardinality(Ended(v))
            /\ visits[v] = Cardinality(Started(v)) + Total(Arriving(graph, v), traversals)
            /\ IsTeam(graph, v) =>
                  /\ visits[v] = Total(Leaving(graph, v), traversals)
                  /\ \A e \in Leaving(graph, v) : visits[v] = edgeVisits[e.id]
  BY DEF IdleInv
<1>1. ASSUME NEW v
      PROVE  /\ Cardinality(CountedIn(v)) = 0 /\ Cardinality(StartedFrom(v)) = 0
             /\ Cardinality(Entering(v)) = 0 /\ Cardinality(Evaluating(v)) = 0
             /\ \A j : Cardinality(ToEvaluate(v, j)) = 0
  BY <1>0, IdleTallies, FS_EmptySet
<1>3. IsFiniteSet(Edges) /\ IsFiniteSet(DOMAIN since)
  BY <1>0, GraphFacts, FiniteList DEF Edges, CounterType
<1>4. ASSUME NEW v \in Vertices PROVE VisitsOf(v) /\ EntriesOf(v)
  <2>1. Ended(v) \in SUBSET DOMAIN since /\ Started(v) \in SUBSET DOMAIN since
    BY DEF Ended, Started
  <2>2. visits[v] \in Nat /\ Cardinality(Ended(v)) \in Nat /\ Cardinality(Started(v)) \in Nat
    BY <1>0, <1>3, <2>1, FS_Subset, FS_CardinalityType DEF CounterType
  <2>3. Total(Arriving(graph, v), traversals) \in Nat
    <3>1. Counts(Arriving(graph, v), traversals)
      <4>1. Arriving(graph, v) \in SUBSET Edges
        BY DEF Arriving, Edges
      <4>2. \A e \in Edges : traversals[e.id] \in Nat
        BY <1>0 DEF CounterType, Ids
      <4> QED BY <1>3, <4>1, <4>2, FS_Subset DEF Counts
    <3> QED BY <3>1, TotalRec
  <2>4. VisitsOf(v)
    BY <1>0, <1>1, <2>2 DEF VisitsOf
  <2>5. EntriesOf(v)
    BY <1>0, <1>1, <2>2, <2>3 DEF EntriesOf
  <2> QED BY <2>4, <2>5
<1>5. ASSUME NEW v \in Vertices, IsTeam(graph, v) PROVE ExitsOf(v) /\ EdgesOf(v)
  <2>1. visits[v] \in Nat
    BY <1>0 DEF CounterType
  <2>2. ExitsOf(v)
    BY <1>0, <1>1, <1>5, <2>1 DEF ExitsOf
  <2>3. ASSUME NEW j \in DOMAIN OutgoingEdges(graph, v)
        PROVE  visits[v] = edgeVisits[OutgoingEdges(graph, v)[j].id] + Cardinality(ToEvaluate(v, j))
    <3>1. OutgoingEdges(graph, v)[j] \in Leaving(graph, v)
      BY <1>0, OutFacts DEF Leaving
    <3> QED BY <1>0, <1>1, <1>5, <2>1, <3>1
  <2> QED BY <2>2, <2>3 DEF EdgesOf
<1>6. EngineInv
  BY <1>0, IdleFacts DEF IdleInv, AllIdle, EngineInv
<1> QED BY <1>0, <1>4, <1>5, <1>6 DEF Inv, CounterInv

LEMMA InvOfIdleNext == IdleInv' => Inv'
BY InvOfIdle, PTL

LEMMA ProperInputs ==
    ASSUME NEW g \in Inputs
    PROVE  Proper(g)
<1>1. IsOrderedGraph(g) /\ Acyclic(g) /\ \A v \in ToSet(Teams(g)) : OutgoingEdges(g, v) # <<>>
  BY InputAssumption
<1>2. ToSet(Teams(g)) = {v \in ToSet(g.vertices) : IsTeam(g, v)}
  <2> DEFINE S == {v \in ToSet(g.vertices) : IsTeam(g, v)}
  <2>1. g.vertices \in Seq(ToSet(g.vertices))
    BY <1>1, OrderedGraphFacts
  <2>2. ToSet(SelectIn(g.vertices, S)) = ToSet(g.vertices) \cap S
    BY <2>1, SelectedElements
  <2> QED BY <2>2 DEF Teams
<1>3. Ranked(g)
  <2>1. PICK rank \in [ToSet(g.vertices) -> 1 .. Len(g.vertices)] :
            \A e \in ToSet(g.edges) : rank[e.src] < rank[e.dst]
    BY <1>1 DEF Acyclic
  <2>2. rank \in [ToSet(g.vertices) -> Nat]
    <3>1. Len(g.vertices) \in Nat
      BY <1>1, OrderedGraphFacts, LenProperties
    <3>2. 1 .. Len(g.vertices) \subseteq Nat
      BY <3>1
    <3> QED BY <2>1, <3>2
  <2> QED BY <2>1, <2>2 DEF Ranked
<1> QED BY <1>1, <1>2, <1>3 DEF Proper

(* No execution has ended, and all counters are zero. *)
Fresh ==
    /\ AllIdle /\ Proper(graph) /\ engine = [t \in Engine |-> engine[t]]
    /\ visits = Zero(Vertices) /\ edgeVisits = Zero(Ids) /\ traversals = Zero(Ids) /\ since = <<>>

LEMMA FreshInv == Fresh => IdleInv
<1> SUFFICES ASSUME Fresh PROVE IdleInv
  OBVIOUS
<1>1. /\ visits \in [Vertices -> Nat] /\ edgeVisits \in [Ids -> Nat] /\ traversals \in [Ids -> Nat]
      /\ \A v \in Vertices : visits[v] = 0
      /\ \A i \in Ids : edgeVisits[i] = 0 /\ traversals[i] = 0
  BY DEF Fresh, Zero
<1>2. since \in Seq(ToSet(since))
  <2>1. <<>> \in Seq(ToSet(<<>>))
    BY EmptySeq
  <2> QED BY <2>1 DEF Fresh
<1>3. CounterType
  BY <1>1, <1>2 DEF CounterType
<1>4. ASSUME NEW v \in Vertices PROVE Cardinality(Ended(v)) = 0 /\ Cardinality(Started(v)) = 0
  <2>1. DOMAIN since = {}
    BY DEF Fresh
  <2>2. Ended(v) = {} /\ Started(v) = {}
    BY <2>1 DEF Ended, Started
  <2> QED BY <2>2, FS_EmptySet
<1>5. ASSUME NEW S \in SUBSET Edges PROVE Total(S, traversals) = 0
  <2>1. IsFiniteSet(S)
    BY GraphFacts, FS_Subset DEF Fresh, Edges
  <2>2. \A e \in S : e.id \in Ids
    BY DEF Ids
  <2>3. Counts(S, traversals) /\ \A e \in S : traversals[e.id] = 0
    BY <1>1, <2>1, <2>2 DEF Counts
  <2> QED BY <2>3, TotalZero
<1>6. ASSUME NEW v \in Vertices
      PROVE  /\ visits[v] = Cardinality(Ended(v))
             /\ visits[v] = Cardinality(Started(v)) + Total(Arriving(graph, v), traversals)
             /\ visits[v] = Total(Leaving(graph, v), traversals)
             /\ \A e \in Leaving(graph, v) : visits[v] = edgeVisits[e.id]
  <2>1. /\ Arriving(graph, v) \in SUBSET Edges /\ Leaving(graph, v) \in SUBSET Edges
        /\ \A e \in Leaving(graph, v) : e.id \in Ids
    BY DEF Arriving, Leaving, Edges, Ids
  <2> QED BY <1>1, <1>4, <1>5, <2>1
<1> QED BY <1>3, <1>6 DEF IdleInv, Fresh

LEMMA InitInv == Init => Inv
<1> SUFFICES ASSUME Init PROVE Inv
  OBVIOUS
<1>1. Proper(graph)
  BY ProperInputs DEF Init
<1>2. AllIdle /\ engine = [t \in Engine |-> engine[t]]
  BY DEF Init, AllIdle
<1>3. Fresh
  BY <1>1, <1>2 DEF Init, Fresh, Vertices, Ids, Edges
<1> QED BY <1>3, FreshInv, InvOfIdle

LEMMA FreshNext == Fresh' => Inv'
<1>1. Fresh => Inv
  BY FreshInv, InvOfIdle
<1> QED BY <1>1, PTL

LEMMA ResetCountersStep ==
    ASSUME Inv, ResetCounters
    PROVE  Inv'
<1>1. Proper(graph)' /\ Vertices' = Vertices /\ Ids' = Ids
  BY DEF ResetCounters, Inv, Vertices, Ids, Edges
<1>2. AllIdle' /\ (engine = [t \in Engine |-> engine[t]])'
  BY DEF ResetCounters, AllIdle, Inv, EngineInv, Idle
<1>3. DOMAIN visits = Vertices /\ DOMAIN edgeVisits = Ids /\ DOMAIN traversals = Ids
  BY DEF Inv, CounterType
<1>4. Fresh'
  BY <1>1, <1>2, <1>3 DEF ResetCounters, Fresh
<1> QED BY <1>4, FreshNext

(* What is removed was not visited, or not traversed; an edge of a vertex that was not visited was
   not traversed. *)
LEMMA UnvisitedIsNotTraversed ==
    ASSUME Inv, AllIdle, NEW e \in Edges, visits[e.src] = 0 \/ visits[e.dst] = 0
    PROVE  traversals[e.id] = 0
<1>1. e.src \in Vertices /\ e.dst \in Vertices /\ IsTeam(graph, e.src)
  BY GraphFacts DEF Inv, Vertices, Edges
<1>2. CASE visits[e.src] = 0
  <2>1. Total(Leaving(graph, e.src), traversals) = 0
    BY <1>1, <1>2, IdleCounters
  <2>2. Counts(Leaving(graph, e.src), traversals)
    BY <1>1, TalliesAreNat
  <2>3. e \in Leaving(graph, e.src)
    BY DEF Leaving, Edges
  <2> QED BY <2>1, <2>2, <2>3, TotalZero
<1>3. CASE visits[e.dst] = 0
  <2>1. /\ Counts(Arriving(graph, e.dst), traversals) /\ Total(Arriving(graph, e.dst), traversals) \in Nat
        /\ Cardinality(Started(e.dst)) \in Nat
    BY <1>1, TalliesAreNat
  <2>2. Total(Arriving(graph, e.dst), traversals) = 0
    <3>1. visits[e.dst] = Cardinality(Started(e.dst)) + Total(Arriving(graph, e.dst), traversals)
      BY <1>1, IdleCounters
    <3> QED BY <1>3, <2>1, <3>1
  <2>3. e \in Arriving(graph, e.dst)
    BY DEF Arriving, Edges
  <2> QED BY <2>1, <2>2, <2>3, TotalZero
<1> QED BY <1>2, <1>3

LEMMA ClearedGraph ==
    ASSUME Inv, ClearUnused
    PROVE  /\ AllIdle /\ engine' = engine /\ since' = since /\ IsOrderedGraph(graph')
           /\ ToSet(graph'.vertices) = {v \in Vertices : visits[v] # 0}
           /\ ToSet(graph'.edges) = {e \in Edges : traversals[e.id] # 0}
           /\ \A v \in ToSet(graph'.vertices) : IsTeam(graph', v) <=> IsTeam(graph, v)
           /\ visits' = [v \in ToSet(graph'.vertices) |-> visits[v]]
           /\ edgeVisits' = [i \in {e.id : e \in ToSet(graph'.edges)} |-> edgeVisits[i]]
           /\ traversals' = [i \in {e.id : e \in ToSet(graph'.edges)} |-> traversals[i]]
           /\ \A x, y \in ToSet(graph'.edges) : UpTo(graph.edges, x, y) => UpTo(graph'.edges, x, y)
<1> DEFINE D == {v \in Vertices : visits[v] = 0}
           g1 == RemoveVertices(graph, D)
           U == {e \in ToSet(g1.edges) : traversals[e.id] = 0}
           g == RemoveEdges(g1, U)
<1>0. AllIdle
  BY DEF ClearUnused
<1>1. /\ graph' = g /\ visits' = [v \in ToSet(g.vertices) |-> visits[v]]
      /\ edgeVisits' = [i \in {e.id : e \in ToSet(g.edges)} |-> edgeVisits[i]]
      /\ traversals' = [i \in {e.id : e \in ToSet(g.edges)} |-> traversals[i]]
      /\ engine' = engine /\ since' = since
  BY DEF ClearUnused, ClearUnusedVertices, ClearUnusedEdges, Unused, Vertices
<1>2. /\ IsOrderedGraph(g1)
      /\ g1 = [vertices |-> g1.vertices, kind |-> g1.kind, edges |-> g1.edges]
      /\ ToSet(g1.vertices) = Vertices \ D
      /\ ToSet(g1.edges) = {e \in Edges : e.src \notin D /\ e.dst \notin D}
      /\ \A v \in ToSet(g1.vertices) : g1.kind[v] = graph.kind[v]
  BY VerticesRemoved DEF Inv, Proper, Vertices, Edges
<1>a. \A x, y \in ToSet(g1.edges) : UpTo(graph.edges, x, y) => UpTo(g1.edges, x, y)
  <2> DEFINE S == {e \in ToSet(graph.edges) : {e.src, e.dst} \cap D = {}}
  <2>1. g1.edges = SelectIn(graph.edges, S)
    BY DEF RemoveVertices
  <2>2. /\ graph.edges \in Seq(ToSet(graph.edges))
        /\ \A i, j \in DOMAIN graph.edges : graph.edges[i] = graph.edges[j] => i = j
    BY GraphFacts DEF Inv
  <2> HIDE DEF g1, S
  <2> QED BY <2>1, <2>2, SelectUpTo
<1> HIDE DEF g1
<1>3. IsOrderedGraph(g) /\ g.vertices = g1.vertices /\ g.kind = g1.kind /\ ToSet(g.edges) = ToSet(g1.edges) \ U
  BY <1>2, EdgesRemoved
<1>b. \A x, y \in ToSet(g.edges) : UpTo(g1.edges, x, y) => UpTo(g.edges, x, y)
  <2>1. g.edges = SelectIn(g1.edges, ToSet(g1.edges) \ U)
    BY <1>2 DEF RemoveEdges
  <2>2. /\ g1.edges \in Seq(ToSet(g1.edges))
        /\ \A i, j \in DOMAIN g1.edges : g1.edges[i] = g1.edges[j] => i = j
    BY <1>2, OrderedGraphFacts
  <2> HIDE DEF g, U
  <2> QED BY <2>1, <2>2, SelectUpTo
<1> HIDE DEF g
<1>4. ToSet(g.vertices) = {v \in Vertices : visits[v] # 0}
  BY <1>2, <1>3
<1>5. ToSet(g.edges) = {e \in Edges : traversals[e.id] # 0}
  <2>1. \A e \in Edges : e.src \in Vertices /\ e.dst \in Vertices
    BY GraphFacts DEF Inv, Edges, Vertices
  <2>2. \A e \in Edges : e.src \in D \/ e.dst \in D => traversals[e.id] = 0
    BY <1>0, UnvisitedIsNotTraversed
  <2> HIDE DEF D
  <2> QED BY <1>2, <1>3, <2>1, <2>2
<1> HIDE DEF D, U
<1>6. \A v \in ToSet(g.vertices) : v \in Vertices /\ visits[v] # 0 /\ (IsTeam(g, v) <=> IsTeam(graph, v))
  BY <1>2, <1>3, <1>4 DEF IsTeam
<1>7. \A x, y \in ToSet(g.edges) : UpTo(graph.edges, x, y) => UpTo(g.edges, x, y)
  BY <1>3, <1>a, <1>b
<1> QED BY <1>0, <1>1, <1>3, <1>4, <1>5, <1>6, <1>7

(* What is left has the counters that it had. *)
LEMMA ClearUnusedStep ==
    ASSUME Inv, ClearUnused
    PROVE  Inv'
<1>0. PICK g : g = graph'
  OBVIOUS
<1>1. /\ AllIdle /\ engine' = engine /\ since' = since /\ graph' = g
      /\ visits' = [v \in ToSet(g.vertices) |-> visits[v]]
      /\ edgeVisits' = [i \in {e.id : e \in ToSet(g.edges)} |-> edgeVisits[i]]
      /\ traversals' = [i \in {e.id : e \in ToSet(g.edges)} |-> traversals[i]]
  BY <1>0, ClearedGraph
<1>2. IsOrderedGraph(g)
  BY <1>0, ClearedGraph
<1>3. ToSet(g.vertices) = {v \in Vertices : visits[v] # 0}
  BY <1>0, ClearedGraph
<1>4. ToSet(g.edges) = {e \in Edges : traversals[e.id] # 0}
  BY <1>0, ClearedGraph
<1>5. \A v \in ToSet(g.vertices) : v \in Vertices /\ visits[v] # 0 /\ (IsTeam(g, v) <=> IsTeam(graph, v))
  BY <1>0, <1>3, ClearedGraph
<1>6. ASSUME NEW v
      PROVE  /\ Leaving(g, v) = {e \in Leaving(graph, v) : traversals[e.id] # 0}
             /\ Arriving(g, v) = {e \in Arriving(graph, v) : traversals[e.id] # 0}
  BY <1>4 DEF Leaving, Arriving, Edges
<1>7. ASSUME NEW v \in Vertices
      PROVE  /\ Total(Leaving(g, v), traversals) = Total(Leaving(graph, v), traversals)
             /\ Total(Arriving(g, v), traversals) = Total(Arriving(graph, v), traversals)
  <2>1. Counts(Leaving(graph, v), traversals) /\ Counts(Arriving(graph, v), traversals)
    BY TalliesAreNat
  <2> QED BY <1>6, <2>1, TotalRest
<1>8. Proper(g)
  <2>1. Ranked(g)
    <3>1. PICK rank \in [Vertices -> Nat] : \A e \in Edges : rank[e.src] < rank[e.dst]
      BY DEF Inv, Proper, Ranked, Vertices, Edges
    <3> DEFINE r == [v \in ToSet(g.vertices) |-> rank[v]]
    <3>2. r \in [ToSet(g.vertices) -> Nat]
      BY <1>3, <3>1
    <3>3. \A e \in ToSet(g.edges) : e.src \in ToSet(g.vertices) /\ e.dst \in ToSet(g.vertices) /\ e \in Edges
      BY <1>2, <1>4, OrderedGraphFacts
    <3>4. \A e \in ToSet(g.edges) : r[e.src] < r[e.dst]
      BY <3>1, <3>3
    <3> HIDE DEF r
    <3> QED BY <3>2, <3>4 DEF Ranked
  <2>2. ASSUME NEW v \in ToSet(g.vertices), IsTeam(g, v) PROVE OutgoingEdges(g, v) # <<>>
    <3>1. v \in Vertices /\ visits[v] # 0 /\ IsTeam(graph, v)
      BY <1>5, <2>2
    <3>2. Total(Leaving(graph, v), traversals) # 0 /\ Counts(Leaving(graph, v), traversals)
      BY <1>1, <3>1, IdleCounters, TalliesAreNat
    <3>3. PICK e \in Leaving(graph, v) : traversals[e.id] # 0
      BY <3>2, TotalZero
    <3>4. e \in {f \in ToSet(g.edges) : f.src = v}
      BY <1>6, <3>3 DEF Leaving
    <3>5. e \in ToSet(OutgoingEdges(g, v))
      <4> DEFINE S == {f \in ToSet(g.edges) : f.src = v}
      <4>1. g.edges \in Seq(ToSet(g.edges))
        BY <1>2, OrderedGraphFacts
      <4>2. ToSet(SelectIn(g.edges, S)) = ToSet(g.edges) \cap S
        BY <4>1, SelectedElements
      <4> QED BY <3>4, <4>2 DEF OutgoingEdges
    <3>6. ToSet(<<>>) = {}
      BY DEF ToSet
    <3> QED BY <3>5, <3>6
  <2> QED BY <1>2, <2>1, <2>2 DEF Proper
<1>9. Vertices' = ToSet(g.vertices) /\ Edges' = ToSet(g.edges) /\ Ids' = {e.id : e \in ToSet(g.edges)}
  BY <1>1 DEF Vertices, Edges, Ids
<1>10. Ids' \subseteq Ids
  BY <1>4, <1>9 DEF Ids
<1>11. CounterType'
  <2>1. visits' \in [Vertices' -> Nat]
    BY <1>1, <1>3, <1>9 DEF Inv, CounterType
  <2>2. edgeVisits' \in [Ids' -> Nat] /\ traversals' \in [Ids' -> Nat]
    BY <1>1, <1>9, <1>10 DEF Inv, CounterType
  <2>3. since' \in Seq(ToSet(since'))
    BY <1>1 DEF Inv, CounterType
  <2> QED BY <2>1, <2>2, <2>3 DEF CounterType
<1>12. ASSUME NEW S \in SUBSET ToSet(g.edges) PROVE Total(S, traversals') = Total(S, traversals)
  <2>1. Counts(S, traversals)
    <3>1. S \in SUBSET Edges
      BY <1>4
    <3>2. IsFiniteSet(Edges)
      BY GraphFacts DEF Inv, Edges
    <3>3. \A e \in Edges : traversals[e.id] \in Nat
      BY DEF Inv, CounterType, Ids
    <3> QED BY <3>1, <3>2, <3>3, FS_Subset DEF Counts
  <2>2. \A e \in S : traversals'[e.id] = traversals[e.id]
    <3>1. \A e \in S : e.id \in {f.id : f \in ToSet(g.edges)}
      OBVIOUS
    <3> QED BY <1>1, <3>1
  <2> QED BY <2>1, <2>2, TotalSame
<1>13. ASSUME NEW v \in Vertices'
       PROVE  /\ visits'[v] = Cardinality(Ended(v)')
              /\ visits'[v] = Cardinality(Started(v)') + Total(Arriving(graph', v), traversals')
              /\ IsTeam(graph', v) =>
                    /\ visits'[v] = Total(Leaving(graph', v), traversals')
                    /\ \A e \in Leaving(graph', v) : visits'[v] = edgeVisits'[e.id]
  <2>1. v \in Vertices /\ visits'[v] = visits[v]
    BY <1>1, <1>5, <1>9
  <2>2. Ended(v)' = Ended(v) /\ Started(v)' = Started(v)
    BY <1>1 DEF Ended, Started
  <2>3. Total(Arriving(graph', v), traversals') = Total(Arriving(graph, v), traversals)
    <3>1. Arriving(g, v) \in SUBSET ToSet(g.edges)
      BY DEF Arriving
    <3> QED BY <1>1, <1>7, <1>12, <2>1, <3>1
  <2>4. Total(Leaving(graph', v), traversals') = Total(Leaving(graph, v), traversals)
    <3>1. Leaving(g, v) \in SUBSET ToSet(g.edges)
      BY DEF Leaving
    <3> QED BY <1>1, <1>7, <1>12, <2>1, <3>1
  <2>5. \A e \in Leaving(graph', v) : e \in Leaving(graph, v) /\ edgeVisits'[e.id] = edgeVisits[e.id]
    <3>1. \A e \in Leaving(g, v) : e \in Leaving(graph, v) /\ e.id \in {f.id : f \in ToSet(g.edges)}
      BY <1>6 DEF Leaving
    <3> QED BY <1>1, <3>1
  <2>6. IsTeam(graph', v) <=> IsTeam(graph, v)
    BY <1>1, <1>5, <1>9
  <2> QED BY <1>1, <2>1, <2>2, <2>3, <2>4, <2>5, <2>6, IdleCounters
<1>14. AllIdle' /\ (engine = [t \in Engine |-> engine[t]])'
  BY <1>1 DEF AllIdle, Inv, EngineInv, Idle
<1>15. Proper(graph)'
  BY <1>1, <1>8
<1>16. IdleInv'
  BY <1>11, <1>13, <1>14, <1>15 DEF IdleInv
<1> QED BY <1>16, InvOfIdleNext

LEMMA InvStep == Inv /\ [Next]_vars => Inv'
<1> SUFFICES ASSUME Inv, [Next]_vars PROVE Inv'
  OBVIOUS
<1>1. ASSUME NEW t \in Engine, NEW root \in ToSet(RootVertices(graph)), NEW d \in Data,
             ExecuteFromRoot(t, root, d)
      PROVE  Inv'
  BY <1>1, ExecuteFromRootStep
<1>2. ASSUME NEW t \in Engine, EvaluateTeam(t) PROVE Inv'
  BY <1>2, EvaluateTeamStep
<1>3. ASSUME NEW t \in Engine, EvaluateEdge(t) PROVE Inv'
  BY <1>3, EvaluateEdgeStep
<1>4. ASSUME NEW t \in Engine, FollowEdge(t) PROVE Inv'
  BY <1>4, FollowEdgeStep
<1>5. ASSUME NEW t \in Engine, ReachAction(t) PROVE Inv'
  BY <1>5, ReachActionStep
<1>6. CASE ResetCounters
  BY <1>6, ResetCountersStep
<1>7. CASE ClearUnused
  BY <1>7, ClearUnusedStep
<1>8. CASE UNCHANGED vars
  <2>1. UNCHANGED <<graph, visits, edgeVisits, traversals, engine, since>>
    BY <1>8 DEF vars
  <2>2. Proper(graph)' /\ Vertices' = Vertices /\ Edges' = Edges /\ Ids' = Ids
    BY <2>1 DEF Inv, Vertices, Edges, Ids
  <2>3. CounterType'
    BY <2>1, <2>2 DEF Inv, CounterType
  <2>4. EngineInv'
    BY <2>1, <2>2 DEF Inv, EngineInv, EngineType, Idle
  <2>5. ASSUME NEW v
        PROVE  /\ Ended(v)' = Ended(v) /\ Started(v)' = Started(v)
               /\ CountedIn(v)' = CountedIn(v) /\ StartedFrom(v)' = StartedFrom(v)
               /\ Entering(v)' = Entering(v) /\ Evaluating(v)' = Evaluating(v)
               /\ \A j : ToEvaluate(v, j)' = ToEvaluate(v, j)
    BY <2>1 DEF Ended, Started, CountedIn, StartedFrom, Entering, Evaluating, ToEvaluate
  <2>6. CounterInv'
    BY <2>1, <2>2, <2>5 DEF Inv, CounterInv, VisitsOf, EntriesOf, ExitsOf, EdgesOf
  <2> QED BY <2>2, <2>3, <2>4, <2>6 DEF Inv
<1> QED BY <1>1, <1>2, <1>3, <1>4, <1>5, <1>6, <1>7, <1>8 DEF Next

LEMMA CountersMatchOfInv == Inv => CountersMatchTraces
<1> SUFFICES ASSUME Inv, AllIdle PROVE CountersMatchTraces
  BY DEF CountersMatchTraces
<1>1. ASSUME NEW v \in Vertices
      PROVE  /\ visits[v] = NbTraces(LAMBDA trace : v \in ToSet(trace))
             /\ visits[v] = NbTraces(LAMBDA trace : v = Head(trace))
                              + SumOver(ToSet(IncomingEdges(graph, v)), LAMBDA e : traversals[e.id])
  <2>1. NbTraces(LAMBDA trace : v \in ToSet(trace)) = Cardinality(Ended(v))
    BY DEF NbTraces, Ended
  <2>2. NbTraces(LAMBDA trace : v = Head(trace)) = Cardinality(Started(v))
    BY DEF NbTraces, Started
  <2>3. SumOver(ToSet(IncomingEdges(graph, v)), LAMBDA e : traversals[e.id])
          = Total(Arriving(graph, v), traversals)
    BY ListFacts DEF Total, Inv
  <2> QED BY <2>1, <2>2, <2>3, IdleCounters
<1>2. ASSUME NEW v \in ToSet(Teams(graph))
      PROVE  visits[v] = SumOver(ToSet(OutgoingEdges(graph, v)), LAMBDA e : traversals[e.id])
  <2>1. v \in Vertices /\ IsTeam(graph, v)
    BY ListFacts DEF Inv, Vertices
  <2>2. SumOver(ToSet(OutgoingEdges(graph, v)), LAMBDA e : traversals[e.id])
          = Total(Leaving(graph, v), traversals)
    BY ListFacts DEF Total, Inv
  <2> QED BY <2>1, <2>2, IdleCounters
<1>3. ASSUME NEW e \in Edges PROVE edgeVisits[e.id] = visits[e.src]
  <2>1. e.src \in Vertices /\ IsTeam(graph, e.src) /\ e \in Leaving(graph, e.src)
    BY GraphFacts DEF Inv, Vertices, Edges, Leaving
  <2> QED BY <2>1, IdleCounters
<1> QED BY <1>1, <1>2, <1>3 DEF CountersMatchTraces

(* Whatever the graphs, the programs and the data, and however any number of engines interleave, when no
   engine runs the counters say what was executed since they were reset, also after unused elements were
   removed: a vertex was visited by as many executions as have it in their trace, as often as it was
   entered, a team left through its edges as often as it was visited, and evaluated all of them. *)
THEOREM CountersAlwaysMatchTraces == Spec => []CountersMatchTraces
<1>1. Init => Inv
  BY InitInv
<1>2. Inv /\ [Next]_vars => Inv'
  BY InvStep
<1>3. Inv => CountersMatchTraces
  BY CountersMatchOfInv
<1> QED BY <1>1, <1>2, <1>3, PTL DEF Spec

-----------------------------------------------------------------------------
(* The winners.  An edge wins if every edge that leaves the same team yields to it: bids less, or as
   much and comes first. *)

BidOfEdge(e, d) == Filter(Bid[e.prog][d])

Yields(g, x, e, d) ==
    \/ BidOfEdge(x, d) < BidOfEdge(e, d)
    \/ BidOfEdge(x, d) = BidOfEdge(e, d) /\ UpTo(g.edges, x, e)

Wins(g, e, d) == e \in ToSet(g.edges) /\ \A x \in Leaving(g, e.src) : Yields(g, x, e, d)

HasPrograms(g) == \A e \in ToSet(g.edges) : e.prog \in Program

LEMMA BidIsInteger ==
    ASSUME NEW g, HasPrograms(g), NEW e \in ToSet(g.edges), NEW d \in Data
    PROVE  /\ BidOfEdge(e, d) \in Nat \cup {MinusInfinity} /\ BidOfEdge(e, d) \in Int
           /\ BidOfEdge(e, d) # NaN
           /\ BidOfEdge(e, d) = IF Bid[e.prog][d] = NaN THEN MinusInfinity ELSE Bid[e.prog][d]
<1>1. Bid[e.prog][d] \in Nat \cup {MinusInfinity, NaN}
  BY ExecutionAssumption DEF HasPrograms
<1> QED BY <1>1 DEF BidOfEdge, Filter, MinusInfinity, NaN

LEMMA OutOrder ==
    ASSUME NEW g, Proper(g), NEW v, NEW i \in DOMAIN OutgoingEdges(g, v), NEW j \in DOMAIN OutgoingEdges(g, v),
           i <= j
    PROVE  UpTo(g.edges, OutgoingEdges(g, v)[i], OutgoingEdges(g, v)[j])
<1> DEFINE out == OutgoingEdges(g, v)
           S == {e \in ToSet(g.edges) : e.src = v}
<1>1. out = SelectIn(g.edges, S)
  BY DEF OutgoingEdges
<1>2. /\ g.edges \in Seq(ToSet(g.edges)) /\ DOMAIN out = 1 .. Len(out) /\ Len(out) \in Nat
      /\ out[i] \in ToSet(g.edges)
  BY GraphFacts, OutFacts
<1>3. DOMAIN g.edges = 1 .. Len(g.edges) /\ Len(g.edges) \in Nat
  BY <1>2, LenProperties
<1> HIDE DEF out, S
<1>4. CASE i < j
  BY <1>1, <1>2, <1>4, SelectKeepsOrder DEF out
<1>5. CASE i = j
  <2>1. PICK k \in DOMAIN g.edges : g.edges[k] = out[i]
    BY <1>2 DEF ToSet
  <2>2. k <= k
    BY <1>3
  <2> QED BY <1>5, <2>1, <2>2 DEF UpTo, out
<1> QED BY <1>2, <1>4, <1>5 DEF out

(* The winner of the edges of a team is the edge that wins. *)
LEMMA WinnerIs ==
    ASSUME NEW g, Proper(g), HasPrograms(g), NEW d \in Data, NEW e, Wins(g, e, d)
    PROVE  OutgoingEdges(g, e.src)[Winner(OutgoingEdges(g, e.src), d)] = e
<1> DEFINE out == OutgoingEdges(g, e.src)
           bid(i) == IF Bid[out[i].prog][d] = NaN THEN MinusInfinity ELSE Bid[out[i].prog][d]
           Best(i) == \A j \in DOMAIN out : bid(j) < bid(i) \/ (bid(j) = bid(i) /\ j <= i)
<1>1. /\ DOMAIN out = 1 .. Len(out) /\ Len(out) \in Nat
      /\ \A i \in DOMAIN out : out[i] \in ToSet(g.edges) /\ out[i].src = e.src
      /\ \A i, j \in DOMAIN out : out[i].id = out[j].id => i = j
      /\ \A f \in Leaving(g, e.src) : \E i \in DOMAIN out : f = out[i]
  BY OutFacts
<1>2. \A i \in DOMAIN out : bid(i) = BidOfEdge(out[i], d) /\ bid(i) \in Int
  BY <1>1, BidIsInteger
<1>3. e \in Leaving(g, e.src)
  BY DEF Wins, Leaving
<1>4. PICK i \in DOMAIN out : e = out[i]
  BY <1>1, <1>3
<1>5. \A a, b \in DOMAIN out : a <= b => UpTo(g.edges, out[a], out[b])
  BY OutOrder
<1>6. \A a \in DOMAIN out : out[a] \in Leaving(g, e.src)
  BY <1>1 DEF Leaving
<1>7. g.edges \in Seq(ToSet(g.edges)) /\ \A a, b \in DOMAIN g.edges : g.edges[a] = g.edges[b] => a = b
  BY GraphFacts
<1>8. Winner(out, d) = CHOOSE k \in DOMAIN out : Best(k)
  BY DEF Winner
<1> HIDE DEF out, bid
<1>9. Best(i)
  <2> SUFFICES ASSUME NEW j \in DOMAIN out PROVE bid(j) < bid(i) \/ (bid(j) = bid(i) /\ j <= i)
    OBVIOUS
  <2>1. Yields(g, out[j], e, d)
    BY <1>6 DEF Wins
  <2>2. ASSUME UpTo(g.edges, out[j], e) PROVE j <= i
    <3> SUFFICES ASSUME ~ (j <= i) PROVE FALSE
      OBVIOUS
    <3>1. i <= j
      BY <1>1
    <3>2. UpTo(g.edges, e, out[j])
      BY <1>4, <1>5, <3>1
    <3>3. out[j] = out[i]
      BY <1>4, <1>7, <2>2, <3>2, UpToBothWays
    <3> QED BY <1>1, <3>3
  <2> QED BY <1>2, <1>4, <2>1, <2>2 DEF Yields
<1>10. ASSUME NEW k \in DOMAIN out, Best(k) PROVE k = i
  <2>1. bid(i) < bid(k) \/ (bid(i) = bid(k) /\ i <= k)
    BY <1>10
  <2>2. bid(k) < bid(i) \/ (bid(k) = bid(i) /\ k <= i)
    BY <1>9
  <2> QED BY <1>1, <1>2, <2>1, <2>2
<1> HIDE DEF Best
<1>11. Winner(out, d) = i
  BY <1>8, <1>9, <1>10
<1> QED BY <1>4, <1>11 DEF out

(* One wins: the best of the first k edges, for each k. *)
LEMMA OneWins ==
    ASSUME NEW g, Proper(g), HasPrograms(g), NEW d \in Data, NEW v \in ToSet(g.vertices), IsTeam(g, v)
    PROVE  \E e \in Leaving(g, v) : Wins(g, e, d)
<1> DEFINE out == OutgoingEdges(g, v)
           n == Len(out) - 1
           BestOf(k, i) == \A j \in 1 .. k + 1 : Yields(g, out[j], out[i], d)
           B == {k \in 0 .. n : ~ \E i \in 1 .. k + 1 : BestOf(k, i)}
<1>1. /\ DOMAIN out = 1 .. Len(out) /\ Len(out) \in Nat /\ out \in Seq(ToSet(g.edges))
      /\ \A i \in DOMAIN out : out[i] \in ToSet(g.edges) /\ out[i].src = v
      /\ \A f \in Leaving(g, v) : \E i \in DOMAIN out : f = out[i]
  BY OutFacts
<1>2. n \in Nat /\ DOMAIN out = 1 .. n + 1
  <2>1. out # <<>>
    BY DEF Proper
  <2> HIDE DEF out
  <2>2. Len(out) # 0
    BY <1>1, <2>1, EmptySeq
  <2> QED BY <1>1, <2>2
<1>3. \A i \in DOMAIN out : BidOfEdge(out[i], d) \in Int
  BY <1>1, BidIsInteger
<1>4. \A a, b \in DOMAIN out : a <= b => UpTo(g.edges, out[a], out[b])
  BY OutOrder
<1> HIDE DEF out, n
<1>5. 0 \notin B
  <2>1. 1 \in DOMAIN out /\ 1 .. 0 + 1 = {1}
    BY <1>2
  <2>2. UpTo(g.edges, out[1], out[1])
    BY <1>4, <2>1
  <2> QED BY <2>1, <2>2 DEF Yields
<1>6. ASSUME NEW k \in 1 .. n, k \in B PROVE k - 1 \in B
  <2> SUFFICES ASSUME k - 1 \notin B PROVE FALSE
    OBVIOUS
  <2>1. PICK i \in 1 .. k : \A j \in 1 .. k : Yields(g, out[j], out[i], d)
    <3>1. k - 1 \in 0 .. n /\ k - 1 + 1 = k
      BY <1>2
    <3> QED BY <3>1
  <2>2. /\ k + 1 \in DOMAIN out /\ i \in DOMAIN out /\ i <= k + 1
        /\ \A j \in 1 .. k + 1 : j \in 1 .. k \/ j = k + 1
        /\ \A j \in 1 .. k : j \in DOMAIN out /\ j <= k + 1
        /\ i \in 1 .. k + 1 /\ k + 1 \in 1 .. k + 1
    BY <1>2
  <2>3. UpTo(g.edges, out[k + 1], out[k + 1]) /\ \A j \in 1 .. k : UpTo(g.edges, out[j], out[k + 1])
    BY <1>2, <1>4, <2>2
  <2>4. CASE BidOfEdge(out[i], d) <= BidOfEdge(out[k + 1], d)
    <3>1. ASSUME NEW j \in 1 .. k PROVE Yields(g, out[j], out[k + 1], d)
      <4>1. BidOfEdge(out[j], d) \in Int /\ BidOfEdge(out[j], d) <= BidOfEdge(out[i], d)
        BY <1>3, <2>1, <2>2 DEF Yields
      <4> QED BY <1>3, <2>2, <2>3, <2>4, <4>1 DEF Yields
    <3>2. Yields(g, out[k + 1], out[k + 1], d)
      BY <2>3 DEF Yields
    <3>3. BestOf(k, k + 1)
      BY <2>2, <3>1, <3>2
    <3> HIDE DEF BestOf
    <3> QED BY <1>6, <2>2, <3>3
  <2>5. CASE BidOfEdge(out[k + 1], d) < BidOfEdge(out[i], d)
    <3>1. Yields(g, out[k + 1], out[i], d)
      BY <2>5 DEF Yields
    <3>2. BestOf(k, i)
      BY <2>1, <2>2, <3>1
    <3> HIDE DEF BestOf
    <3> QED BY <1>6, <2>2, <3>2
  <2> QED BY <1>3, <2>2, <2>4, <2>5
<1>7. B = {}
  <2>1. B \in SUBSET (0 .. n)
    OBVIOUS
  <2> HIDE DEF B
  <2> QED BY <1>2, <1>5, <1>6, <2>1, NoFirstFailure
<1>8. PICK i \in 1 .. n + 1 : BestOf(n, i)
  <2>1. n \in 0 .. n
    BY <1>2
  <2> HIDE DEF BestOf
  <2> QED BY <1>7, <2>1
<1>9. out[i] \in Leaving(g, v)
  BY <1>1, <1>2, <1>8 DEF Leaving
<1>10. Wins(g, out[i], d)
  BY <1>1, <1>2, <1>8, <1>9 DEF Wins, Leaving
<1> QED BY <1>9, <1>10

-----------------------------------------------------------------------------
(* The path of winners: there is a function that satisfies its equation, built from the actions
   upward. *)

LEMMA RankBound ==
    ASSUME NEW V, IsFiniteSet(V), NEW rank \in [V -> Nat]
    PROVE  \E max \in Nat : \A v \in V : rank[v] <= max
<1> DEFINE Bounded(s) == \E max \in Nat : \A v \in s : rank[v] <= max
           B == {s \in SUBSET V : ~ Bounded(s)}
<1>1. ASSUME NEW s \in B, \A v \in s : s \ {v} \notin B PROVE FALSE
  <2>1. s # {}
    OBVIOUS
  <2>2. PICK v \in s : TRUE
    BY <2>1
  <2>3. PICK max \in Nat : \A u \in s \ {v} : rank[u] <= max
    BY <1>1
  <2>4. rank[v] \in Nat /\ max + rank[v] \in Nat
    OBVIOUS
  <2>5. \A u \in s : rank[u] <= max + rank[v]
    <3>1. \A u \in s : rank[u] \in Nat
      OBVIOUS
    <3> QED BY <2>3, <2>4, <3>1
  <2> QED BY <2>4, <2>5
<1>2. B = {}
  <2>1. B \in SUBSET (SUBSET V)
    OBVIOUS
  <2> HIDE DEF B
  <2> QED BY <1>1, <2>1, SmallestSet
<1> QED BY <1>2

NextOnPath(g, v, d) == OutgoingEdges(g, v)[Winner(OutgoingEdges(g, v), d)].dst

PathFrom(g, f, v, d) == IF IsAction(g, v) THEN <<v>> ELSE <<v>> \o f[NextOnPath(g, v, d)]

LEMMA PathExists ==
    ASSUME NEW g, Proper(g), HasPrograms(g), NEW d \in Data
    PROVE  \E f \in [ToSet(g.vertices) -> Seq(ToSet(g.vertices))] :
               \A v \in ToSet(g.vertices) : f[v] = PathFrom(g, f, v, d)
<1> DEFINE V == ToSet(g.vertices)
<1>1. PICK rank \in [V -> Nat] : \A e \in ToSet(g.edges) : rank[e.src] < rank[e.dst]
  BY DEF Proper, Ranked
<1>2. IsFiniteSet(V)
  BY GraphFacts
<1>3. PICK max \in Nat : \A v \in V : rank[v] <= max
  <2> HIDE DEF V
  <2> QED BY <1>2, RankBound
<1>4. ASSUME NEW v \in V, ~ IsAction(g, v)
      PROVE  NextOnPath(g, v, d) \in V /\ rank[v] < rank[NextOnPath(g, v, d)]
  <2>1. IsTeam(g, v)
    BY <1>4 DEF IsTeam, IsAction
  <2>2. PICK e \in Leaving(g, v) : Wins(g, e, d)
    BY <2>1, OneWins
  <2>3. e \in ToSet(g.edges) /\ e.src = v
    BY DEF Leaving
  <2>4. NextOnPath(g, v, d) = e.dst
    BY <2>2, <2>3, WinnerIs DEF NextOnPath
  <2>5. e.dst \in V
    BY <2>3, GraphFacts
  <2> QED BY <1>1, <2>3, <2>4, <2>5
<1> DEFINE n == max + 1
           Up(f, k) == \A v \in V : rank[v] + k > max => f[v] = PathFrom(g, f, v, d)
           Reached(k) == \E f \in [V -> Seq(V)] : Up(f, k)
           B == {k \in 0 .. n : ~ Reached(k)}
<1>5. n \in Nat
  OBVIOUS
<1>6. 0 \notin B
  <2> DEFINE f == [v \in V |-> <<>>]
  <2>1. f \in [V -> Seq(V)]
    BY EmptySeq
  <2>2. ASSUME NEW v \in V, rank[v] + 0 > max PROVE FALSE
    <3>1. rank[v] \in Nat /\ rank[v] <= max
      BY <1>3
    <3> QED BY <2>2, <3>1
  <2>3. Up(f, 0)
    BY <2>2
  <2> HIDE DEF Up, f
  <2> QED BY <2>1, <2>3
<1> HIDE DEF V
<1>7. ASSUME NEW k \in 1 .. n, Reached(k - 1) PROVE Reached(k)
  <2>1. PICK f \in [V -> Seq(V)] : Up(f, k - 1)
    BY <1>7
  <2> DEFINE h == [v \in V |-> IF rank[v] + k = max + 1 THEN PathFrom(g, f, v, d) ELSE f[v]]
  <2>2. ASSUME NEW v \in V PROVE PathFrom(g, f, v, d) \in Seq(V)
    <3>1. <<v>> \in Seq(V)
      OBVIOUS
    <3>2. CASE IsAction(g, v)
      BY <3>1, <3>2 DEF PathFrom
    <3>3. CASE ~ IsAction(g, v)
      <4>1. f[NextOnPath(g, v, d)] \in Seq(V)
        BY <1>4, <3>3
      <4>2. <<v>> \o f[NextOnPath(g, v, d)] \in Seq(V)
        BY <3>1, <4>1, ConcatProperties
      <4> QED BY <3>3, <4>2 DEF PathFrom
    <3> QED BY <3>2, <3>3
  <2>3. h \in [V -> Seq(V)]
    BY <2>1, <2>2
  <2>4. \A v \in V : h[v] = IF rank[v] + k = max + 1 THEN PathFrom(g, f, v, d) ELSE f[v]
    OBVIOUS
  <2> HIDE DEF h
  <2>5. ASSUME NEW v \in V, rank[v] + k > max PROVE h[v] = PathFrom(g, h, v, d)
    <3>1. h[v] = PathFrom(g, f, v, d)
      <4>1. CASE rank[v] + k = max + 1
        BY <2>4, <4>1
      <4>2. CASE rank[v] + k # max + 1
        <5>1. rank[v] + (k - 1) > max
          <6>1. rank[v] \in Nat /\ k \in Int /\ max \in Nat
            BY <1>5
          <6>2. rank[v] + k > max /\ rank[v] + k # max + 1
            BY <2>5, <4>2
          <6>3. \A a, b, c \in Int : a + b > c /\ a + b # c + 1 => a + (b - 1) > c
            OBVIOUS
          <6>4. rank[v] \in Int /\ max \in Int
            BY <6>1
          <6> QED BY <6>1, <6>2, <6>3, <6>4
        <5> QED BY <2>1, <2>4, <4>2, <5>1
      <4> QED BY <4>1, <4>2
    <3>2. ASSUME ~ IsAction(g, v) PROVE h[NextOnPath(g, v, d)] = f[NextOnPath(g, v, d)]
      <4> DEFINE x == NextOnPath(g, v, d)
      <4>1. x \in V /\ rank[v] < rank[x]
        BY <1>4, <3>2
      <4> HIDE DEF x
      <4>2. rank[x] + k # max + 1
        <5>1. rank[x] \in Nat /\ rank[v] \in Nat
          BY <4>1
        <5> QED BY <2>5, <4>1, <5>1
      <4> QED BY <2>4, <4>1, <4>2 DEF x
    <3> QED BY <3>1, <3>2 DEF PathFrom
  <2> QED BY <2>3, <2>5
<1>8. B = {}
  <2>1. \A k \in 1 .. n : k \in B => k - 1 \in B
    <3>1. \A k \in 1 .. n : k - 1 \in 0 .. n /\ k \in 0 .. n
      BY <1>5
    <3> HIDE DEF Reached
    <3> QED BY <1>7, <3>1
  <2>2. B \in SUBSET (0 .. n)
    OBVIOUS
  <2> HIDE DEF B, n
  <2> QED BY <1>5, <1>6, <2>1, <2>2, NoFirstFailure
<1>9. PICK f \in [V -> Seq(V)] : Up(f, n)
  <2>1. n \in 0 .. n
    BY <1>5
  <2> HIDE DEF Up
  <2> QED BY <1>8, <2>1
<1>10. ASSUME NEW v \in V PROVE f[v] = PathFrom(g, f, v, d)
  <2>1. rank[v] \in Nat
    OBVIOUS
  <2>2. rank[v] + n > max
    BY <2>1
  <2> QED BY <1>9, <2>2
<1> QED BY <1>10 DEF V

LEMMA PathStep ==
    ASSUME NEW g, Proper(g), HasPrograms(g), NEW d \in Data, NEW v \in ToSet(g.vertices)
    PROVE  /\ IsAction(g, v) => Path(g, v, d) = <<v>>
           /\ \A e \in Leaving(g, v) : Wins(g, e, d) => Path(g, v, d) = <<v>> \o Path(g, e.dst, d)
<1> DEFINE V == ToSet(g.vertices)
           Step(f) == [u \in V |-> IF IsAction(g, u) THEN <<u>>
                                   ELSE <<u>> \o f[OutgoingEdges(g, u)[Winner(OutgoingEdges(g, u), d)].dst]]
           path == CHOOSE f : f = Step(f)
<1>1. \A u : Path(g, u, d) = path[u]
  BY DEF Path
<1>2. \E f : f = Step(f)
  <2>1. PICK f \in [V -> Seq(V)] : \A u \in V : f[u] = PathFrom(g, f, u, d)
    BY PathExists
  <2>2. Step(f) = [u \in V |-> PathFrom(g, f, u, d)]
    BY DEF PathFrom, NextOnPath
  <2>3. f = [u \in V |-> f[u]]
    OBVIOUS
  <2> HIDE DEF Step, V
  <2>4. f = Step(f)
    BY <2>1, <2>2, <2>3
  <2> QED BY <2>4
<1>3. path = Step(path)
  <2> HIDE DEF Step
  <2> QED BY <1>2
<1>4. \A u \in V : path[u] = PathFrom(g, path, u, d)
  <2> DEFINE p == path
  <2>1. p = Step(p)
    BY <1>3
  <2> HIDE DEF p, path
  <2>2. \A u \in V : p[u] = PathFrom(g, p, u, d)
    BY <2>1 DEF PathFrom, NextOnPath
  <2> QED BY <2>2 DEF p
<1> HIDE DEF path
<1>5. ASSUME NEW e \in Leaving(g, v), Wins(g, e, d) PROVE Path(g, v, d) = <<v>> \o Path(g, e.dst, d)
  <2>1. e \in ToSet(g.edges) /\ e.src = v
    BY DEF Leaving
  <2>2. ~ IsAction(g, v)
    BY <2>1, GraphFacts DEF IsAction, IsTeam
  <2>3. NextOnPath(g, v, d) = e.dst
    BY <1>5, <2>1, WinnerIs DEF NextOnPath
  <2> QED BY <1>1, <1>4, <2>2, <2>3 DEF PathFrom
<1>6. IsAction(g, v) => Path(g, v, d) = <<v>>
  BY <1>1, <1>4 DEF PathFrom
<1> QED BY <1>5, <1>6

(* A trace that follows the winners to an action is the path from its head. *)
FollowsWinners(g, trace, d) ==
    \A k \in 1 .. Len(trace) - 1 :
        \E e \in ToSet(g.edges) : e.src = trace[k] /\ e.dst = trace[k + 1] /\ Wins(g, e, d)

LEMMA PathOfTrace ==
    ASSUME NEW g, Proper(g), HasPrograms(g), NEW d \in Data,
           NEW trace \in Seq(ToSet(g.vertices)), trace # <<>>, IsAction(g, Last(trace)),
           FollowsWinners(g, trace, d)
    PROVE  trace = Path(g, Head(trace), d)
<1> DEFINE V == ToSet(g.vertices)
           n == Len(trace)
           B == {k \in 0 .. n - 1 : SubSeq(trace, n - k, n) # Path(g, trace[n - k], d)}
<1>1. n \in Nat \ {0} /\ \A i \in 1 .. n : trace[i] \in V
  BY LenProperties, ElementOfSeq, EmptySeq
<1>2. Last(trace) = trace[n] /\ Head(trace) = trace[1]
  BY DEF Last
<1>3. ASSUME NEW m \in 1 .. n PROVE SubSeq(trace, m, n) = <<trace[m]>> \o SubSeq(trace, m + 1, n)
  <2>1. n \in m .. n
    BY <1>1
  <2> QED BY <2>1, SubSeqRecursiveFirst
<1>4. SubSeq(trace, 1, n) = trace
  BY SubSeqFull
<1> HIDE DEF n
<1>5. 0 \notin B
  <2>1. n \in 1 .. n /\ n - 0 = n
    BY <1>1
  <2>2. SubSeq(trace, n, n) = <<trace[n]>>
    <3>1. SubSeq(trace, n + 1, n) = <<>>
      <4>1. n + 1 \in Int /\ n \in Int /\ n < n + 1
        BY <1>1
      <4> QED BY <4>1, SubSeqEmpty
    <3>2. <<trace[n]>> \in Seq(V)
      BY <1>1, <2>1
    <3> QED BY <1>3, <2>1, <3>1, <3>2, ConcatEmptySeq
  <2>3. Path(g, trace[n], d) = <<trace[n]>>
    BY <1>1, <1>2, <2>1, PathStep
  <2> QED BY <2>1, <2>2, <2>3
<1>6. ASSUME NEW k \in 1 .. n - 1, k \in B PROVE k - 1 \in B
  <2> SUFFICES ASSUME k - 1 \notin B PROVE FALSE
    OBVIOUS
  <2> DEFINE m == n - k
  <2>1. m \in 1 .. n - 1 /\ m \in 1 .. n /\ n - (k - 1) = m + 1 /\ k - 1 \in 0 .. n - 1
    BY <1>1
  <2>2. SubSeq(trace, m + 1, n) = Path(g, trace[m + 1], d)
    BY <2>1
  <2>3. PICK e \in ToSet(g.edges) : e.src = trace[m] /\ e.dst = trace[m + 1] /\ Wins(g, e, d)
    BY <2>1 DEF FollowsWinners, n
  <2>4. e \in Leaving(g, trace[m])
    BY <2>3 DEF Leaving
  <2>5. Path(g, trace[m], d) = <<trace[m]>> \o Path(g, e.dst, d)
    BY <1>1, <2>1, <2>3, <2>4, PathStep
  <2>6. SubSeq(trace, m, n) = Path(g, trace[m], d)
    BY <1>3, <2>1, <2>2, <2>3, <2>5
  <2> QED BY <1>6, <2>6
<1>7. B = {}
  <2>1. B \in SUBSET (0 .. n - 1) /\ n - 1 \in Nat
    BY <1>1
  <2> HIDE DEF B
  <2> QED BY <1>5, <1>6, <2>1, NoFirstFailure
<1>8. n - 1 \in 0 .. n - 1 /\ n - (n - 1) = 1
  BY <1>1
<1>9. SubSeq(trace, 1, n) = Path(g, trace[1], d)
  BY <1>7, <1>8
<1> QED BY <1>2, <1>4, <1>9

-----------------------------------------------------------------------------
(* The invariant of PoliciesAreKept: every execution that ended, and every engine so far, followed the
   winners, and what it followed was counted; the best edge is the winner of those evaluated. *)

Followed(g, counters, trace, d) ==
    \A k \in 1 .. Len(trace) - 1 :
        \E e \in ToSet(g.edges) : /\ e.src = trace[k] /\ e.dst = trace[k + 1]
                                  /\ Wins(g, e, d) /\ counters[e.id] # 0

EndedAsWinners(i) ==
    /\ since[i].data \in Data /\ since[i].trace \in Seq(Vertices) /\ since[i].trace # <<>>
    /\ IsAction(graph, Last(since[i].trace))
    /\ Followed(graph, traversals, since[i].trace, since[i].data)

BestSoFar(t) ==
    \A j \in DOMAIN Out(t) : j < engine[t].next =>
        Yields(graph, Out(t)[j], Out(t)[engine[t].best], engine[t].data)

RunsAsWinners(t) ==
    Running(t) => /\ engine[t].data \in Data
                  /\ Followed(graph, traversals, engine[t].visited, engine[t].data)
                  /\ engine[t].next # 0 => BestSoFar(t)

PolicyInv ==
    /\ HasPrograms(graph)
    /\ \A i \in DOMAIN since : EndedAsWinners(i)
    /\ \A t \in Engine : RunsAsWinners(t)

LEMMA InitPolicyInv == Init => PolicyInv
<1> SUFFICES ASSUME Init PROVE PolicyInv
  OBVIOUS
<1>1. HasPrograms(graph)
  BY InputAssumption DEF Init, HasPrograms
<1>2. \A t \in Engine : ~ Running(t)
  BY IdleFacts DEF Init, Running
<1>3. DOMAIN since = {}
  BY DEF Init
<1> QED BY <1>1, <1>2, <1>3 DEF PolicyInv, RunsAsWinners

LEMMA FollowedStays ==
    ASSUME NEW g, NEW old, NEW new, NEW trace, NEW d, Followed(g, old, trace, d),
           \A e \in ToSet(g.edges) : old[e.id] # 0 => new[e.id] # 0
    PROVE  Followed(g, new, trace, d)
BY DEF Followed

(* A step of one engine: the others, and the executions that ended, do not notice. *)
LEMMA EngineKeepsPolicies ==
    ASSUME PolicyInv, NEW t \in Engine, StepOf(t), RunsAsWinners(t)',
           \A e \in ToSet(graph.edges) : traversals[e.id] # 0 => traversals'[e.id] # 0,
           \A i \in DOMAIN since' : (i \in DOMAIN since /\ since'[i] = since[i]) \/ EndedAsWinners(i)'
    PROVE  PolicyInv'
<1>1. graph' = graph /\ Vertices' = Vertices /\ \A u \in Engine \ {t} : engine'[u] = engine[u]
  BY DEF StepOf, Vertices
<1>2. ASSUME NEW trace, NEW d, Followed(graph, traversals, trace, d)
      PROVE  Followed(graph, traversals', trace, d)
  BY <1>2, FollowedStays
<1>3. ASSUME NEW i \in DOMAIN since' PROVE EndedAsWinners(i)'
  <2>1. CASE i \in DOMAIN since /\ since'[i] = since[i]
    <3>1. EndedAsWinners(i)
      BY <2>1 DEF PolicyInv
    <3>2. Followed(graph, traversals', since[i].trace, since[i].data)
      BY <1>2, <3>1 DEF EndedAsWinners
    <3> QED BY <1>1, <2>1, <3>1, <3>2 DEF EndedAsWinners
  <2> QED BY <2>1
<1>4. ASSUME NEW u \in Engine, u # t PROVE RunsAsWinners(u)'
  <2>1. engine'[u] = engine[u] /\ RunsAsWinners(u)
    BY <1>1, <1>4 DEF PolicyInv
  <2>2. (Running(u)' <=> Running(u)) /\ Out(u)' = Out(u)
    BY <1>1, <2>1 DEF Running, Out, Current
  <2>3. BestSoFar(u) => BestSoFar(u)'
    BY <1>1, <2>1, <2>2 DEF BestSoFar
  <2>4. Running(u) => Followed(graph, traversals', engine[u].visited, engine[u].data)
    BY <1>2, <2>1 DEF RunsAsWinners
  <2> QED BY <1>1, <2>1, <2>2, <2>3, <2>4 DEF RunsAsWinners
<1>5. HasPrograms(graph)'
  BY <1>1 DEF PolicyInv, HasPrograms
<1> QED BY <1>3, <1>4, <1>5 DEF PolicyInv

LEMMA ExecuteKeepsPolicies ==
    ASSUME Inv, PolicyInv, NEW t \in Engine, NEW root, NEW d \in Data, ExecuteFromRoot(t, root, d)
    PROVE  PolicyInv'
<1>1. engine \in [Engine -> EngineType]
  BY DEF Inv, EngineInv
<1>2. engine'[t] = [data |-> d, visited |-> <<root>>, next |-> 0, best |-> 0] /\ StepOf(t)
  BY <1>1 DEF ExecuteFromRoot, StepOf
<1>3. Followed(graph', traversals', <<root>>, d)
  <2>1. 1 .. Len(<<root>>) - 1 = {}
    OBVIOUS
  <2> QED BY <2>1 DEF Followed
<1>4. RunsAsWinners(t)'
  BY <1>2, <1>3 DEF RunsAsWinners
<1>5. traversals' = traversals /\ since' = since
  BY DEF ExecuteFromRoot
<1> QED BY <1>2, <1>4, <1>5, EngineKeepsPolicies

LEMMA EvaluateTeamKeepsPolicies ==
    ASSUME Inv, PolicyInv, NEW t \in Engine, EvaluateTeam(t)
    PROVE  PolicyInv'
<1>1. engine \in [Engine -> EngineType]
  BY DEF Inv, EngineInv
<1>2. /\ engine'[t] = [engine[t] EXCEPT !.next = 1, !.best = 1] /\ StepOf(t)
      /\ traversals' = traversals /\ since' = since /\ graph' = graph
  BY <1>1 DEF EvaluateTeam, StepOf
<1>3. engine'[t].data = engine[t].data /\ engine'[t].visited = engine[t].visited /\ engine'[t].next = 1
  BY <1>1, <1>2 DEF EngineType
<1>4. Running(t) /\ RunsAsWinners(t)
  BY DEF EvaluateTeam, InTeam, PolicyInv
<1>5. BestSoFar(t)'
  <2>1. \A j \in DOMAIN Out(t) : j \in Nat /\ j >= 1
    <3>1. DOMAIN Out(t) = 1 .. Len(Out(t)) /\ Len(Out(t)) \in Nat
      BY OutFacts DEF Out, Inv
    <3> QED BY <3>1
  <2>2. Out(t)' = Out(t)
    BY <1>2, <1>3 DEF Out, Current
  <2> QED BY <1>3, <2>1, <2>2 DEF BestSoFar
<1>6. RunsAsWinners(t)'
  BY <1>2, <1>3, <1>4, <1>5 DEF RunsAsWinners
<1> QED BY <1>2, <1>6, EngineKeepsPolicies

LEMMA EvaluateEdgeKeepsPolicies ==
    ASSUME Inv, PolicyInv, NEW t \in Engine, EvaluateEdge(t)
    PROVE  PolicyInv'
<1> DEFINE old == engine[t]
           i == old.next
           b == old.best
           out == Out(t)
           d == old.data
           new == IF Beats(BidOf(t, i), BidOf(t, b)) THEN i ELSE b
<1>1. engine \in [Engine -> EngineType] /\ old \in EngineType
  BY DEF Inv, EngineInv
<1>2. /\ engine'[t] = [old EXCEPT !.next = i + 1, !.best = new] /\ StepOf(t)
      /\ traversals' = traversals /\ since' = since /\ graph' = graph
  BY <1>1 DEF EvaluateEdge, StepOf
<1>3. /\ engine'[t].data = d /\ engine'[t].visited = old.visited /\ engine'[t].next = i + 1
      /\ engine'[t].best = new
  BY <1>1, <1>2 DEF EngineType
<1>4. Running(t) /\ RunsAsWinners(t) /\ i \in DOMAIN out
  BY DEF EvaluateEdge, InTeam, PolicyInv
<1>5. /\ DOMAIN out = 1 .. Len(out) /\ Len(out) \in Nat
      /\ \A j \in DOMAIN out : out[j] \in ToSet(graph.edges)
      /\ \A j, k \in DOMAIN out : j <= k => UpTo(graph.edges, out[j], out[k])
  BY OutFacts, OutOrder DEF Out, Inv
<1>6. b \in DOMAIN out
  BY <1>4, <1>5, EngineFacts DEF Place, Running, Out, Current
<1>7. d \in Data /\ BestSoFar(t)
  BY <1>4, <1>5 DEF RunsAsWinners
<1>8. \A j \in DOMAIN out : /\ BidOf(t, j) = BidOfEdge(out[j], d) /\ BidOfEdge(out[j], d) \in Int
                            /\ BidOfEdge(out[j], d) # NaN
  <2>1. \A j \in DOMAIN out : BidOfEdge(out[j], d) \in Int /\ BidOfEdge(out[j], d) # NaN
    BY <1>5, <1>7, BidIsInteger DEF PolicyInv
  <2> QED BY <2>1 DEF BidOf, BidOfEdge
<1>9. Out(t)' = out
  BY <1>2, <1>3 DEF Out, Current
<1> HIDE DEF old, i, b, out, d, new
<1>10. ASSUME NEW j \in DOMAIN out, j < i + 1 PROVE Yields(graph, out[j], out[new], d)
  <2>1. j < i \/ j = i
    BY <1>4, <1>5, <1>10
  <2>2. j < i => Yields(graph, out[j], out[b], d)
    BY <1>7 DEF BestSoFar, out, i, b, d, old
  <2>3. CASE Beats(BidOf(t, i), BidOf(t, b))
    <3>1. BidOfEdge(out[i], d) >= BidOfEdge(out[b], d)
      BY <1>4, <1>6, <1>8, <2>3 DEF Beats
    <3>2. UpTo(graph.edges, out[j], out[i])
      <4>1. j <= i
        BY <1>4, <1>5, <1>10
      <4> QED BY <1>4, <1>5, <4>1
    <3>3. BidOfEdge(out[j], d) <= BidOfEdge(out[i], d)
      BY <1>4, <1>6, <1>8, <2>1, <2>2, <3>1 DEF Yields
    <3>4. Yields(graph, out[j], out[i], d)
      BY <1>4, <1>8, <3>2, <3>3 DEF Yields
    <3> QED BY <2>3, <3>4 DEF new
  <2>4. CASE ~ Beats(BidOf(t, i), BidOf(t, b))
    <3>1. BidOfEdge(out[i], d) < BidOfEdge(out[b], d)
      BY <1>4, <1>6, <1>8, <2>4 DEF Beats
    <3>2. Yields(graph, out[i], out[b], d)
      BY <3>1 DEF Yields
    <3> QED BY <2>1, <2>2, <2>4, <3>2 DEF new
  <2> QED BY <2>3, <2>4
<1>11. BestSoFar(t)'
  BY <1>2, <1>3, <1>9, <1>10 DEF BestSoFar
<1>12. RunsAsWinners(t)'
  BY <1>2, <1>3, <1>4, <1>11 DEF RunsAsWinners, d, old
<1> QED BY <1>2, <1>12, EngineKeepsPolicies

LEMMA FollowEdgeKeepsPolicies ==
    ASSUME Inv, PolicyInv, NEW t \in Engine, FollowEdge(t)
    PROVE  PolicyInv'
<1> DEFINE old == engine[t]
           out == Out(t)
           d == old.data
           q == old.visited
           n == Len(q)
           e == out[old.best]
<1>1. engine \in [Engine -> EngineType] /\ old \in EngineType
  BY DEF Inv, EngineInv
<1>2. /\ engine'[t] = [old EXCEPT !.next = 0, !.best = 0, !.visited = Append(q, e.dst)] /\ StepOf(t)
      /\ traversals' = [traversals EXCEPT ![e.id] = @ + 1] /\ since' = since /\ graph' = graph
  BY <1>1 DEF FollowEdge, StepOf, Increment, Traversed
<1>3. engine'[t].data = d /\ engine'[t].visited = Append(q, e.dst) /\ engine'[t].next = 0
  BY <1>1, <1>2 DEF EngineType
<1>4. Running(t) /\ RunsAsWinners(t) /\ old.next = Len(out) + 1
  BY DEF FollowEdge, InTeam, PolicyInv
<1>5. /\ DOMAIN out = 1 .. Len(out) /\ Len(out) \in Nat
      /\ \A j \in DOMAIN out : out[j] \in ToSet(graph.edges) /\ out[j].src = Current(t)
      /\ \A x \in Leaving(graph, Current(t)) : \E j \in DOMAIN out : x = out[j]
  BY OutFacts DEF Out, Inv
<1>6. old.best \in DOMAIN out
  BY <1>4, <1>5, EngineFacts DEF Place, Running, Out, Current
<1>7. /\ Current(t) = q[n] /\ n \in Nat \ {0} /\ q \in Seq(Vertices)
  BY <1>4, EngineFacts
<1>8. e \in Edges /\ e.src = q[n] /\ e.dst \in Vertices
  BY <1>5, <1>6, <1>7, GraphFacts DEF Inv, Edges, Vertices
<1>9. Wins(graph, e, d)
  <2>1. \A j \in DOMAIN out : Yields(graph, out[j], e, d)
    <3>1. \A j \in DOMAIN out : j < old.next
      BY <1>4, <1>5
    <3>2. BestSoFar(t)
      BY <1>4, <1>5 DEF RunsAsWinners
    <3> QED BY <3>1, <3>2 DEF BestSoFar
  <2> QED BY <1>5, <1>6, <2>1 DEF Wins
<1>10. Followed(graph, traversals, q, d) /\ d \in Data
  BY <1>4 DEF RunsAsWinners
<1> HIDE DEF old, out, d, q, e
<1>11. /\ traversals \in [Ids -> Nat] /\ e.id \in Ids
  BY <1>8 DEF Inv, CounterType, Ids
<1>12. \A i \in Ids : traversals[i] # 0 => traversals'[i] # 0
  BY <1>2, <1>11
<1>13. traversals'[e.id] # 0
  BY <1>2, <1>11
<1>14. \A x \in ToSet(graph.edges) : traversals[x.id] # 0 => traversals'[x.id] # 0
  BY <1>12 DEF Ids, Edges
<1>15. Followed(graph, traversals', q, d)
  BY <1>10, <1>14, FollowedStays
<1>16. Followed(graph, traversals', Append(q, e.dst), d)
  <2> DEFINE a == Append(q, e.dst)
  <2>1. /\ Len(a) = n + 1 /\ \A k \in 1 .. n : a[k] = q[k]
        /\ a[n + 1] = e.dst
    BY <1>7, <1>8, AppendProperties
  <2> HIDE DEF a, n
  <2> SUFFICES ASSUME NEW k \in 1 .. Len(a) - 1
               PROVE  \E x \in ToSet(graph.edges) : /\ x.src = a[k] /\ x.dst = a[k + 1]
                                                    /\ Wins(graph, x, d) /\ traversals'[x.id] # 0
    BY DEF Followed, a
  <2>2. k \in 1 .. n
    BY <1>7, <2>1
  <2>3. CASE k = n
    BY <1>8, <1>9, <1>13, <2>1, <2>2, <2>3 DEF Edges
  <2>4. CASE k # n
    <3>1. k \in 1 .. n - 1 /\ k + 1 \in 1 .. n
      BY <1>7, <2>2, <2>4
    <3>2. PICK x \in ToSet(graph.edges) : /\ x.src = q[k] /\ x.dst = q[k + 1]
                                          /\ Wins(graph, x, d) /\ traversals'[x.id] # 0
      BY <1>15, <3>1 DEF Followed, n
    <3> QED BY <2>1, <2>2, <3>1, <3>2
  <2> QED BY <2>3, <2>4
<1>17. RunsAsWinners(t)'
  BY <1>2, <1>3, <1>10, <1>16 DEF RunsAsWinners
<1> QED BY <1>2, <1>14, <1>17, EngineKeepsPolicies

LEMMA ReachActionKeepsPolicies ==
    ASSUME Inv, PolicyInv, NEW t \in Engine, ReachAction(t)
    PROVE  PolicyInv'
<1> DEFINE old == engine[t]
           x == [data |-> old.data, trace |-> old.visited]
<1>0. PICK m : m = Len(since)
  OBVIOUS
<1>1. engine \in [Engine -> EngineType]
  BY DEF Inv, EngineInv
<1>2. /\ engine'[t] = Idle /\ StepOf(t)
      /\ traversals' = traversals /\ since' = Append(since, x) /\ graph' = graph
  BY <1>1 DEF ReachAction, StepOf
<1>3. Running(t) /\ ~ IsTeam(graph, Current(t)) /\ RunsAsWinners(t)
  BY DEF ReachAction, InTeam, PolicyInv
<1>4. RunsAsWinners(t)'
  BY <1>2, IdleFacts DEF RunsAsWinners, Running
<1>5. /\ old.data \in Data /\ old.visited \in Seq(Vertices) /\ old.visited # <<>>
      /\ IsAction(graph, Last(old.visited)) /\ Followed(graph, traversals', old.visited, old.data)
  BY <1>2, <1>3, EngineFacts DEF RunsAsWinners, Running, Current, IsAction, IsTeam
<1>6. since \in Seq(ToSet(since))
  BY DEF Inv, CounterType
<1>7. /\ m \in Nat /\ DOMAIN since = 1 .. m /\ DOMAIN since' = 1 .. (m + 1)
      /\ \A i \in 1 .. m : since'[i] = since[i]
      /\ since'[m + 1] = x
  <2> DEFINE T == ToSet(since) \cup {x}
  <2>1. since \in Seq(T) /\ x \in T
    BY <1>6
  <2> QED BY <1>0, <1>2, <2>1, AppendProperties, LenProperties
<1>8. EndedAsWinners(m + 1)'
  <2>1. since'[m + 1].data = old.data /\ since'[m + 1].trace = old.visited /\ Vertices' = Vertices
    BY <1>2, <1>7 DEF Vertices
  <2> HIDE DEF old
  <2> QED BY <1>2, <1>5, <2>1 DEF EndedAsWinners
<1>9. \A i \in DOMAIN since' : (i \in DOMAIN since /\ since'[i] = since[i]) \/ EndedAsWinners(i)'
  <2>1. \A i \in 1 .. (m + 1) : i \in 1 .. m \/ i = m + 1
    BY <1>7
  <2> QED BY <1>7, <1>8, <2>1
<1> QED BY <1>2, <1>4, <1>9, EngineKeepsPolicies

LEMMA ResetKeepsPolicies ==
    ASSUME Inv, PolicyInv, ResetCounters
    PROVE  PolicyInv'
<1>1. graph' = graph /\ engine' = engine /\ AllIdle /\ DOMAIN since' = {}
  BY DEF ResetCounters
<1>2. \A t \in Engine : ~ Running(t)'
  BY <1>1, IdleFacts DEF AllIdle, Running
<1>3. HasPrograms(graph)'
  BY <1>1 DEF PolicyInv, HasPrograms
<1> QED BY <1>1, <1>2, <1>3 DEF PolicyInv, RunsAsWinners

(* What was followed was counted, so that it stays; and what wins among all edges of a team wins among
   those that stay. *)
LEMMA ClearKeepsPolicies ==
    ASSUME Inv, PolicyInv, ClearUnused
    PROVE  PolicyInv'
<1>1. /\ AllIdle /\ engine' = engine /\ since' = since
      /\ ToSet(graph'.vertices) = {v \in Vertices : visits[v] # 0}
      /\ ToSet(graph'.edges) = {e \in Edges : traversals[e.id] # 0}
      /\ \A v \in ToSet(graph'.vertices) : IsTeam(graph', v) <=> IsTeam(graph, v)
      /\ traversals' = [i \in {e.id : e \in ToSet(graph'.edges)} |-> traversals[i]]
      /\ \A x, y \in ToSet(graph'.edges) : UpTo(graph.edges, x, y) => UpTo(graph'.edges, x, y)
  BY ClearedGraph
<1>2. \A t \in Engine : ~ Running(t)'
  BY <1>1, IdleFacts DEF AllIdle, Running
<1>3. HasPrograms(graph')
  BY <1>1 DEF PolicyInv, HasPrograms, Edges
<1>4. ASSUME NEW e \in ToSet(graph'.edges), NEW d, Wins(graph, e, d) PROVE Wins(graph', e, d)
  <2> SUFFICES ASSUME NEW x \in Leaving(graph', e.src) PROVE Yields(graph', x, e, d)
    BY DEF Wins
  <2>1. x \in ToSet(graph'.edges) /\ x \in Leaving(graph, e.src)
    BY <1>1 DEF Leaving, Edges
  <2>2. Yields(graph, x, e, d)
    BY <1>4, <2>1 DEF Wins
  <2> QED BY <1>1, <2>1, <2>2 DEF Yields
<1>5. ASSUME NEW trace, NEW d, Followed(graph, traversals, trace, d)
      PROVE  Followed(graph', traversals', trace, d)
  <2> SUFFICES ASSUME NEW k \in 1 .. Len(trace) - 1
               PROVE  \E e \in ToSet(graph'.edges) : /\ e.src = trace[k] /\ e.dst = trace[k + 1]
                                                     /\ Wins(graph', e, d) /\ traversals'[e.id] # 0
    BY DEF Followed
  <2>1. PICK e \in ToSet(graph.edges) : /\ e.src = trace[k] /\ e.dst = trace[k + 1]
                                        /\ Wins(graph, e, d) /\ traversals[e.id] # 0
    BY <1>5 DEF Followed
  <2>2. e \in ToSet(graph'.edges)
    BY <1>1, <2>1 DEF Edges
  <2>3. traversals'[e.id] = traversals[e.id]
    BY <1>1, <2>2
  <2> QED BY <1>4, <2>1, <2>2, <2>3
<1>6. ASSUME NEW i \in DOMAIN since PROVE EndedAsWinners(i)'
  <2> DEFINE q == since[i].trace
  <2>1. EndedAsWinners(i)
    BY DEF PolicyInv
  <2>2. q \in Seq(Vertices) /\ q # <<>> /\ IsAction(graph, Last(q))
    BY <2>1 DEF EndedAsWinners
  <2>3. /\ Len(q) \in Nat \ {0} /\ DOMAIN q = 1 .. Len(q) /\ q = [k \in 1 .. Len(q) |-> q[k]]
        /\ Last(q) = q[Len(q)] /\ \A k \in 1 .. Len(q) : q[k] \in Vertices
    BY <2>2, LenProperties, ElementOfSeq, EmptySeq DEF Last
  <2>4. \A k \in 1 .. Len(q) : q[k] \in ToSet(graph'.vertices)
    <3> SUFFICES ASSUME NEW k \in 1 .. Len(q) PROVE visits[q[k]] # 0
      BY <1>1, <2>3
    <3>1. q[k] \in Vertices /\ i \in Ended(q[k])
      BY <2>3 DEF Ended, ToSet
    <3>2. visits[q[k]] = Cardinality(Ended(q[k])) /\ IsFiniteSet(Ended(q[k]))
      BY <1>1, <3>1, IdleCounters, TalliesAreNat
    <3>3. Cardinality(Ended(q[k])) # 0
      BY <3>1, <3>2, FS_EmptySet
    <3> QED BY <3>2, <3>3
  <2>5. Vertices' = ToSet(graph'.vertices)
    BY DEF Vertices
  <2>6. q \in Seq(ToSet(graph'.vertices))
    <3> DEFINE V == ToSet(graph'.vertices)
               n == Len(q)
    <3>1. q = [k \in 1 .. n |-> q[k]] /\ n \in Nat /\ \A k \in 1 .. n : q[k] \in V
      BY <2>3, <2>4
    <3> HIDE DEF V, n, q
    <3>2. q \in [1 .. n -> V]
      BY <3>1
    <3>3. q \in Seq(V)
      BY <3>1, <3>2, SeqDef
    <3> QED BY <3>3 DEF V
  <2>7. IsAction(graph', Last(q))
    <3>1. Last(q) \in ToSet(graph'.vertices)
      BY <2>3, <2>4
    <3> QED BY <1>1, <2>2, <3>1 DEF IsAction, IsTeam
  <2>8. Followed(graph', traversals', q, since[i].data) /\ since[i].data \in Data
    BY <1>5, <2>1 DEF EndedAsWinners
  <2> QED BY <1>1, <2>2, <2>5, <2>6, <2>7, <2>8 DEF EndedAsWinners
<1> QED BY <1>1, <1>2, <1>3, <1>6 DEF PolicyInv, RunsAsWinners

LEMMA PolicyStep == Inv /\ PolicyInv /\ [Next]_vars => PolicyInv'
<1> SUFFICES ASSUME Inv, PolicyInv, [Next]_vars PROVE PolicyInv'
  OBVIOUS
<1>1. ASSUME NEW t \in Engine, NEW root \in ToSet(RootVertices(graph)), NEW d \in Data,
             ExecuteFromRoot(t, root, d)
      PROVE  PolicyInv'
  BY <1>1, ExecuteKeepsPolicies
<1>2. ASSUME NEW t \in Engine, EvaluateTeam(t) PROVE PolicyInv'
  BY <1>2, EvaluateTeamKeepsPolicies
<1>3. ASSUME NEW t \in Engine, EvaluateEdge(t) PROVE PolicyInv'
  BY <1>3, EvaluateEdgeKeepsPolicies
<1>4. ASSUME NEW t \in Engine, FollowEdge(t) PROVE PolicyInv'
  BY <1>4, FollowEdgeKeepsPolicies
<1>5. ASSUME NEW t \in Engine, ReachAction(t) PROVE PolicyInv'
  BY <1>5, ReachActionKeepsPolicies
<1>6. CASE ResetCounters
  BY <1>6, ResetKeepsPolicies
<1>7. CASE ClearUnused
  BY <1>7, ClearKeepsPolicies
<1>8. CASE UNCHANGED vars
  <2>1. UNCHANGED <<graph, visits, edgeVisits, traversals, engine, since>>
    BY <1>8 DEF vars
  <2>2. HasPrograms(graph)'
    BY <2>1 DEF PolicyInv, HasPrograms
  <2>3. \A i \in DOMAIN since : EndedAsWinners(i)'
    BY <2>1 DEF PolicyInv, EndedAsWinners, Vertices
  <2>4. \A t \in Engine : RunsAsWinners(t)'
    BY <2>1 DEF PolicyInv, RunsAsWinners, Running, BestSoFar, Out, Current
  <2> QED BY <2>1, <2>2, <2>3, <2>4 DEF PolicyInv
<1> QED BY <1>1, <1>2, <1>3, <1>4, <1>5, <1>6, <1>7, <1>8 DEF Next

LEMMA PoliciesOfInv == Inv /\ PolicyInv => PoliciesAreKept
<1> SUFFICES ASSUME Inv, PolicyInv, NEW i \in DOMAIN since
             PROVE  since[i].trace = Path(graph, Head(since[i].trace), since[i].data)
  BY DEF PoliciesAreKept
<1>1. EndedAsWinners(i) /\ Proper(graph) /\ HasPrograms(graph)
  BY DEF PolicyInv, Inv
<1>2. FollowsWinners(graph, since[i].trace, since[i].data)
  BY <1>1 DEF EndedAsWinners, Followed, FollowsWinners
<1> QED BY <1>1, <1>2, PathOfTrace DEF EndedAsWinners, Vertices

(* Whatever the graphs, the programs and the data, and however any number of engines interleave, every
   execution since the last reset is the one that the graph as it is now gives for its root and data:
   clearUnusedTPGGraphElements changes no execution that has been counted. *)
THEOREM PoliciesAreAlwaysKept == Spec => []PoliciesAreKept
<1>1. Init => Inv /\ PolicyInv
  BY InitInv, InitPolicyInv
<1>2. Inv /\ PolicyInv /\ [Next]_vars => (Inv /\ PolicyInv)'
  BY InvStep, PolicyStep
<1>3. Inv /\ PolicyInv => PoliciesAreKept
  BY PoliciesOfInv
<1> QED BY <1>1, <1>2, <1>3, PTL DEF Spec

-----------------------------------------------------------------------------
(* The generated code.  First, folds over sequences: values are added one after the other. *)

IsSeqFold(v, n, base, H) ==
    \A s \in SUBSET (1 .. n) : v[s] = IF s = {} THEN base ELSE H[Max(s)][v[s \ {Max(s)}]]

LEMMA SeqFoldExists ==
    ASSUME NEW n \in Nat, NEW X, NEW base \in X, NEW H \in [1 .. n -> [X -> X]]
    PROVE  \E v \in [SUBSET (1 .. n) -> X] : IsSeqFold(v, n, base, H)
<1> DEFINE pick == [s \in SUBSET (1 .. n) |-> Max(s)]
<1>1. \A s \in (SUBSET (1 .. n)) \ {{}} : pick[s] \in s
  BY LastOfSubset
<1> HIDE DEF pick
<1>2. PICK v \in [SUBSET (1 .. n) -> X] : IsFold(v, 1 .. n, pick, base, H)
  <2>1. IsFiniteSet(1 .. n)
    BY FS_Interval
  <2> QED BY <1>1, <2>1, FoldExists
<1>3. ASSUME NEW s \in SUBSET (1 .. n)
      PROVE  v[s] = IF s = {} THEN base ELSE H[Max(s)][v[s \ {Max(s)}]]
  BY <1>2 DEF IsFold, FoldValue, pick
<1> QED BY <1>3 DEF IsSeqFold

(* The numbers that are given to the elements of a list, one after the other *)
LEMMA IDsScan ==
    ASSUME NEW T, NEW xs \in Seq(T)
    PROVE  \E c : /\ c[0] = <<>> /\ IDs(xs) = c[Len(xs)]
                  /\ \A i \in 1 .. Len(xs) : c[i] = FindID(c[i - 1], xs[i])
<1> DEFINE n == Len(xs)
           X == UNION {[D -> Nat] : D \in SUBSET ToSet(xs)}
           Step(g) == [s \in SUBSET DOMAIN xs |->
                         IF s = {} THEN <<>> ELSE FindID(g[s \ {Max(s)}], xs[Max(s)])]
           f == CHOOSE g : g = Step(g)
           H == [i \in 1 .. n |-> [ids \in X |-> FindID(ids, xs[i])]]
<1>1. IDs(xs) = f[DOMAIN xs]
  BY DEF IDs, FoldLeft, MapThenFoldSet
<1>2. n \in Nat /\ DOMAIN xs = 1 .. n
  BY LenProperties
<1>3. IsFiniteSet(ToSet(xs)) /\ \A i \in 1 .. n : xs[i] \in ToSet(xs)
  BY <1>2, FiniteList DEF ToSet
<1>4. <<>> \in X
  <2>1. <<>> \in [{} -> Nat]
    OBVIOUS
  <2>2. {} \in SUBSET ToSet(xs)
    OBVIOUS
  <2> QED BY <2>1, <2>2
<1>5. H \in [1 .. n -> [X -> X]]
  <2>1. ASSUME NEW i \in 1 .. n, NEW ids \in X PROVE FindID(ids, xs[i]) \in X
    <3>1. PICK D \in SUBSET ToSet(xs) : ids \in [D -> Nat]
      OBVIOUS
    <3>2. Cardinality(DOMAIN ids) \in Nat
      BY <1>3, <3>1, FS_Subset, FS_CardinalityType
    <3>3. CASE xs[i] \in DOMAIN ids
      BY <3>3 DEF FindID
    <3>4. CASE xs[i] \notin DOMAIN ids
      <4>1. FindID(ids, xs[i]) \in [DOMAIN ids \cup {xs[i]} -> Nat]
        BY <3>1, <3>2, <3>4 DEF FindID
      <4>2. DOMAIN ids \cup {xs[i]} \in SUBSET ToSet(xs)
        BY <1>3, <3>1
      <4> QED BY <4>1, <4>2
    <3> QED BY <3>3, <3>4
  <2> HIDE DEF X
  <2> QED BY <2>1
<1> HIDE DEF X, H
<1>6. PICK v \in [SUBSET (1 .. n) -> X] : IsSeqFold(v, n, <<>>, H)
  <2> HIDE DEF n
  <2> QED BY <1>2, <1>4, <1>5, SeqFoldExists
<1>7. ASSUME NEW s \in SUBSET (1 .. n), s # {} PROVE v[s] = FindID(v[s \ {Max(s)}], xs[Max(s)])
  <2>1. Max(s) \in 1 .. n
    BY <1>2, <1>7, LastOfSubset
  <2>2. v[s \ {Max(s)}] \in X
    OBVIOUS
  <2> QED BY <1>6, <1>7, <2>1, <2>2 DEF H, IsSeqFold
<1>8. v = Step(v)
  <2>1. v[{}] = <<>>
    BY <1>6 DEF IsSeqFold
  <2>2. \A s \in SUBSET (1 .. n) : v[s] = IF s = {} THEN <<>> ELSE FindID(v[s \ {Max(s)}], xs[Max(s)])
    BY <1>7, <2>1
  <2> QED BY <1>2, <2>2
<1>9. f = Step(f)
  BY <1>8
<1> HIDE DEF f
<1>10. ASSUME NEW s \in SUBSET (1 .. n)
       PROVE  f[s] = IF s = {} THEN <<>> ELSE FindID(f[s \ {Max(s)}], xs[Max(s)])
  BY <1>2, <1>9
<1> DEFINE c == [i \in 0 .. n |-> f[1 .. i]]
<1>11. c[0] = <<>>
  <2>1. 1 .. 0 = {} /\ 0 \in 0 .. n
    BY <1>2
  <2>2. f[1 .. 0] = <<>>
    BY <1>10, <2>1
  <2> QED BY <2>1, <2>2
<1>12. ASSUME NEW i \in 1 .. n PROVE c[i] = FindID(c[i - 1], xs[i])
  <2>1. (1 .. i) \in SUBSET (1 .. n) /\ (1 .. i) # {} /\ i \in 0 .. n /\ i - 1 \in 0 .. n
    <3> HIDE DEF n
    <3>1. i \in 1 .. i
      BY <1>2
    <3>2. (1 .. i) \in SUBSET (1 .. n)
      BY <1>2
    <3>3. i \in 0 .. n /\ i - 1 \in 0 .. n
      BY <1>2
    <3> QED BY <3>1, <3>2, <3>3
  <2>2. Max(1 .. i) = i /\ (1 .. i) \ {i} = 1 .. (i - 1)
    BY <1>2, LastOfInterval
  <2> QED BY <1>10, <2>1, <2>2
<1>13. IDs(xs) = c[n]
  BY <1>1, <1>2
<1> HIDE DEF c
<1> QED BY <1>11, <1>12, <1>13

LEMMA IDsFacts ==
    ASSUME NEW T, NEW xs \in Seq(T)
    PROVE  /\ DOMAIN IDs(xs) = ToSet(xs)
           /\ \A x, y \in ToSet(xs) : IDs(xs)[x] = IDs(xs)[y] => x = y
<1> DEFINE n == Len(xs)
           Good(k, id) ==
               /\ IsFiniteSet(DOMAIN id) /\ DOMAIN id = {xs[i] : i \in 1 .. k}
               /\ \A x \in DOMAIN id : id[x] \in Nat /\ id[x] < Cardinality(DOMAIN id)
               /\ \A x, y \in DOMAIN id : id[x] = id[y] => x = y
<1>1. n \in Nat /\ DOMAIN xs = 1 .. n
  BY LenProperties
<1>2. PICK c : /\ c[0] = <<>> /\ IDs(xs) = c[n]
               /\ \A i \in 1 .. n : c[i] = FindID(c[i - 1], xs[i])
  BY IDsScan
<1> DEFINE B == {k \in 0 .. n : ~ Good(k, c[k])}
<1> HIDE DEF n
<1>3. 0 \notin B
  <2>1. {xs[i] : i \in 1 .. 0} = {} /\ DOMAIN c[0] = {}
    BY <1>2
  <2>2. IsFiniteSet(DOMAIN c[0])
    BY <2>1, FS_EmptySet
  <2>3. Good(0, c[0])
    BY <2>1, <2>2
  <2> HIDE DEF Good
  <2> QED BY <2>3
<1>4. ASSUME NEW k \in 1 .. n, Good(k - 1, c[k - 1]) PROVE Good(k, c[k])
  <2> DEFINE id == c[k - 1]
             m == Cardinality(DOMAIN id)
  <2>1. c[k] = FindID(id, xs[k])
    BY <1>2
  <2>2. 1 .. k = 1 .. (k - 1) \cup {k}
    BY <1>1
  <2>3. {xs[i] : i \in 1 .. k} = DOMAIN id \cup {xs[k]}
    BY <1>4, <2>2
  <2>4. /\ IsFiniteSet(DOMAIN id) /\ \A x \in DOMAIN id : id[x] \in Nat /\ id[x] < m
        /\ \A x, y \in DOMAIN id : id[x] = id[y] => x = y
    BY <1>4
  <2>5. m \in Nat
    BY <2>4, FS_CardinalityType
  <2> HIDE DEF id
  <2>6. CASE xs[k] \in DOMAIN id
    BY <2>1, <2>3, <2>4, <2>6 DEF FindID
  <2>7. CASE xs[k] \notin DOMAIN id
    <3> DEFINE new == [y \in DOMAIN id \cup {xs[k]} |-> IF y = xs[k] THEN m ELSE id[y]]
    <3>1. c[k] = new
      BY <2>1, <2>7 DEF FindID
    <3>2. IsFiniteSet(DOMAIN id \cup {xs[k]}) /\ Cardinality(DOMAIN id \cup {xs[k]}) = m + 1
      BY <2>4, <2>7, FS_AddElement
    <3>3. /\ DOMAIN new = DOMAIN id \cup {xs[k]} /\ new[xs[k]] = m
          /\ \A y \in DOMAIN id : new[y] = id[y]
      BY <2>7
    <3> HIDE DEF new, m
    <3>4. ASSUME NEW x \in DOMAIN new PROVE new[x] \in Nat /\ new[x] < m + 1
      BY <2>4, <2>5, <3>3
    <3>5. ASSUME NEW x \in DOMAIN new, NEW y \in DOMAIN new, new[x] = new[y] PROVE x = y
      <4>1. \A z \in DOMAIN id : new[z] # m
        BY <2>4, <2>5, <3>3
      <4> QED BY <2>4, <3>3, <3>5, <4>1
    <3> QED BY <2>3, <3>1, <3>2, <3>3, <3>4, <3>5
  <2> QED BY <2>6, <2>7
<1>5. Good(n, c[n])
  <2>1. B = {}
    <3>1. \A k \in 1 .. n : k \in B => k - 1 \in B
      <4>1. \A k \in 1 .. n : k - 1 \in 0 .. n
        BY <1>1
      <4> HIDE DEF Good
      <4> QED BY <1>4, <4>1
    <3>2. B \in SUBSET (0 .. n)
      OBVIOUS
    <3> HIDE DEF B
    <3> QED BY <1>1, <1>3, <3>1, <3>2, NoFirstFailure
  <2>2. n \in 0 .. n
    BY <1>1
  <2> HIDE DEF Good
  <2> QED BY <2>1, <2>2
<1>6. ToSet(xs) = {xs[i] : i \in 1 .. n}
  BY <1>1 DEF ToSet
<1> QED BY <1>2, <1>5, <1>6

(* The loop over the results of programs keeps the last of the best. *)
IsScan(c, n, results) ==
    /\ c[0] = 1
    /\ \A i \in 1 .. n : c[i] = IF Beats(Filter(results[i]), Filter(results[c[i - 1]])) THEN i ELSE c[i - 1]

LEMMA BestProgramScan ==
    ASSUME NEW n \in Nat \ {0}, NEW results, DOMAIN results = 1 .. n
    PROVE  \E c \in [0 .. n -> 1 .. n] : IsScan(c, n, results) /\ BestProgram(results) = c[n]
<1> DEFINE idx == [i \in DOMAIN results |-> i]
           X == 1 .. n
           Kept(best, i) == IF Beats(Filter(results[i]), Filter(results[best])) THEN i ELSE best
           Step(g) == [s \in SUBSET DOMAIN idx |-> IF s = {} THEN 1 ELSE Kept(g[s \ {Max(s)}], idx[Max(s)])]
           f == CHOOSE g : g = Step(g)
           H == [i \in 1 .. n |-> [best \in X |-> Kept(best, i)]]
<1>1. BestProgram(results) = f[DOMAIN idx]
  BY DEF BestProgram, FoldLeftDomain, FoldLeft, MapThenFoldSet
<1>2. DOMAIN idx = 1 .. n /\ \A i \in 1 .. n : idx[i] = i
  OBVIOUS
<1>3. n \in Nat /\ 1 \in X
  OBVIOUS
<1>4. H \in [1 .. n -> [X -> X]]
  OBVIOUS
<1> HIDE DEF idx
<1>5. PICK v \in [SUBSET (1 .. n) -> X] : IsSeqFold(v, n, 1, H)
  <2> HIDE DEF X, H
  <2> QED BY <1>3, <1>4, SeqFoldExists
<1>6. ASSUME NEW s \in SUBSET (1 .. n), s # {}
      PROVE  /\ Max(s) \in 1 .. n /\ idx[Max(s)] = Max(s)
             /\ v[s] = Kept(v[s \ {Max(s)}], Max(s))
  <2>1. Max(s) \in 1 .. n
    BY <1>3, <1>6, LastOfSubset
  <2>2. v[s \ {Max(s)}] \in X
    OBVIOUS
  <2> HIDE DEF X, Kept
  <2> QED BY <1>2, <1>5, <1>6, <2>1, <2>2 DEF IsSeqFold
<1>7. v = Step(v)
  <2> HIDE DEF Kept
  <2>1. v[{}] = 1
    BY <1>5 DEF IsSeqFold
  <2>2. \A s \in SUBSET (1 .. n) : v[s] = IF s = {} THEN 1 ELSE Kept(v[s \ {Max(s)}], idx[Max(s)])
    BY <1>6, <2>1
  <2> QED BY <1>2, <2>2
<1>8. f = Step(f)
  <2> HIDE DEF Step
  <2> QED BY <1>7
<1> HIDE DEF f, Kept
<1>9. ASSUME NEW s \in SUBSET (1 .. n)
      PROVE  f[s] = IF s = {} THEN 1 ELSE Kept(f[s \ {Max(s)}], Max(s))
  <2>1. f[s] = IF s = {} THEN 1 ELSE Kept(f[s \ {Max(s)}], idx[Max(s)])
    BY <1>2, <1>8
  <2> QED BY <1>6, <2>1
<1> DEFINE c == [i \in 0 .. n |-> f[1 .. i]]
<1>10. c[0] = 1
  <2>1. 1 .. 0 = {} /\ 0 \in 0 .. n
    OBVIOUS
  <2>2. f[1 .. 0] = 1
    BY <1>9, <2>1
  <2> QED BY <2>1, <2>2
<1>11. ASSUME NEW i \in 1 .. n PROVE c[i] = Kept(c[i - 1], i)
  <2>1. (1 .. i) \in SUBSET (1 .. n) /\ (1 .. i) # {} /\ i \in 0 .. n /\ i - 1 \in 0 .. n
    OBVIOUS
  <2>2. Max(1 .. i) = i /\ (1 .. i) \ {i} = 1 .. (i - 1)
    BY LastOfInterval
  <2> QED BY <1>9, <2>1, <2>2
<1>12. BestProgram(results) = c[n]
  BY <1>1, <1>2
<1>13. c \in [0 .. n -> X]
  <2> DEFINE B == {i \in 0 .. n : c[i] \notin X}
  <2>1. 0 \notin B
    BY <1>3, <1>10
  <2>2. ASSUME NEW i \in 1 .. n, c[i - 1] \in X PROVE c[i] \in X
    <3> HIDE DEF c
    <3> QED BY <1>11, <2>2 DEF Kept
  <2>3. \A i \in 1 .. n : i \in B => i - 1 \in B
    <3>1. \A i \in 1 .. n : i - 1 \in 0 .. n
      OBVIOUS
    <3> HIDE DEF c, X
    <3> QED BY <2>2, <3>1
  <2>4. B \in SUBSET (0 .. n)
    OBVIOUS
  <2>5. B = {}
    <3> HIDE DEF B
    <3> QED BY <2>1, <2>3, <2>4, NoFirstFailure
  <2>6. \A i \in 0 .. n : c[i] \in X
    <3> HIDE DEF c, X
    <3> QED BY <2>5
  <2> HIDE DEF X
  <2> QED BY <2>6
<1> HIDE DEF c
<1> QED BY <1>10, <1>11, <1>12, <1>13 DEF Kept, IsScan

(* The bids x of j, y of k and z of the best so far, b, among which the last of the highest is kept *)
Latest(x, j, y, k, z, b) ==
    IF y >= z THEN x < y \/ (x = y /\ j <= k) ELSE x < z \/ (x = z /\ j <= b)

LEMMA LatestOfThree ==
    ASSUME NEW x \in Int, NEW y \in Int, NEW z \in Int, NEW j \in Int, NEW k \in Int, NEW b \in Int,
           j <= k, j # k => x < z \/ (x = z /\ j <= b), j = k => x = y
    PROVE  Latest(x, j, y, k, z, b)
BY DEF Latest

LEMMA BestProgramIs ==
    ASSUME NEW n \in Nat \ {0}, NEW results, DOMAIN results = 1 .. n,
           \A i \in 1 .. n : results[i] \in Nat \cup {MinusInfinity, NaN}
    PROVE  /\ BestProgram(results) \in 1 .. n
           /\ \A j \in 1 .. n :
                  \/ Filter(results[j]) < Filter(results[BestProgram(results)])
                  \/ /\ Filter(results[j]) = Filter(results[BestProgram(results)])
                     /\ j <= BestProgram(results)
<1>1. PICK c \in [0 .. n -> 1 .. n] : IsScan(c, n, results) /\ BestProgram(results) = c[n]
  BY BestProgramScan
<1> DEFINE F == [i \in 1 .. n |-> Filter(results[i])]
           Up(j, b) == F[j] < F[b] \/ (F[j] = F[b] /\ j <= b)
           B == {k \in 0 .. n : ~ \A j \in 1 .. k : Up(j, c[k])}
<1>2. \A i \in 1 .. n : F[i] \in Int /\ F[i] # NaN
  BY DEF Filter, MinusInfinity, NaN
<1>3. \A i, j \in 1 .. n : Beats(Filter(results[i]), Filter(results[j])) <=> F[i] >= F[j]
  BY <1>2 DEF Beats
<1>4. \A i \in 0 .. n : c[i] \in 1 .. n
  OBVIOUS
<1>5. 0 \notin B
  OBVIOUS
<1>6. ASSUME NEW k \in 1 .. n, \A j \in 1 .. k - 1 : Up(j, c[k - 1]) PROVE \A j \in 1 .. k : Up(j, c[k])
  <2> DEFINE b == c[k - 1]
  <2>1. b \in 1 .. n
    BY <1>4
  <2>2. c[k] = IF F[k] >= F[b] THEN k ELSE b
    BY <1>1, <1>3, <2>1 DEF IsScan
  <2>3. \A j \in 1 .. k - 1 : Up(j, b)
    BY <1>6
  <2> HIDE DEF F, b
  <2> SUFFICES ASSUME NEW j \in 1 .. k PROVE Up(j, c[k])
    OBVIOUS
  <2>4. j \in 1 .. k - 1 \/ j = k
    OBVIOUS
  <2>5. /\ j \in 1 .. n /\ j <= k /\ F[j] \in Int /\ F[k] \in Int /\ F[b] \in Int
    <3>1. j \in 1 .. n /\ j <= k
      OBVIOUS
    <3> QED BY <1>2, <2>1, <3>1
  <2>6. j # k => F[j] < F[b] \/ (F[j] = F[b] /\ j <= b)
    BY <2>3, <2>4
  <2>7. Latest(F[j], j, F[k], k, F[b], b)
    <3>1. j \in Int /\ k \in Int /\ b \in Int /\ j <= k
      BY <2>1
    <3>2. F[j] \in Int /\ F[k] \in Int /\ F[b] \in Int
      BY <2>5
    <3>3. j = k => F[j] = F[k]
      OBVIOUS
    <3> QED BY <2>6, <3>1, <3>2, <3>3, LatestOfThree
  <2> QED BY <2>2, <2>7 DEF Latest
<1>7. B = {}
  <2>1. \A k \in 1 .. n : k \in B => k - 1 \in B
    <3>1. \A k \in 1 .. n : k - 1 \in 0 .. n
      OBVIOUS
    <3> HIDE DEF Up
    <3> QED BY <1>6, <3>1
  <2>2. B \in SUBSET (0 .. n)
    OBVIOUS
  <2> HIDE DEF B
  <2> QED BY <1>5, <2>1, <2>2, NoFirstFailure
<1>8. \A j \in 1 .. n : Up(j, c[n])
  <2>1. n \in 0 .. n
    OBVIOUS
  <2> HIDE DEF Up
  <2> QED BY <1>7, <2>1
<1>9. c[n] \in 1 .. n
  BY <1>4
<1> QED BY <1>1, <1>8, <1>9

-----------------------------------------------------------------------------
(* The functions P: the lists of edges, one after another, hold every edge, and the number of a program
   leads back to it. *)

LEMMA ConcatElements ==
    ASSUME NEW E, NEW s \in Seq(E), NEW t \in Seq(E)
    PROVE  ToSet(s \o t) = ToSet(s) \cup ToSet(t)
<1>1. /\ Len(s) \in Nat /\ Len(t) \in Nat /\ DOMAIN s = 1 .. Len(s) /\ DOMAIN t = 1 .. Len(t)
      /\ DOMAIN (s \o t) = 1 .. Len(s) + Len(t)
      /\ \A i \in 1 .. Len(s) + Len(t) : (s \o t)[i] = IF i <= Len(s) THEN s[i] ELSE t[i - Len(s)]
  BY ConcatProperties, LenProperties
<1> DEFINE u == s \o t
           m == Len(s)
           n == Len(t)
<1> HIDE DEF u, m, n
<1>2. ASSUME NEW i \in DOMAIN u PROVE u[i] \in ToSet(s) \cup ToSet(t)
  <2>1. i \in 1 .. m + n /\ m \in Nat /\ n \in Nat
    BY <1>1 DEF u, m, n
  <2>2. CASE i <= m
    <3>1. i \in DOMAIN s
      BY <1>1, <2>1, <2>2 DEF m
    <3> QED BY <1>1, <2>1, <2>2, <3>1 DEF ToSet, u, m, n
  <2>3. CASE ~ (i <= m)
    <3>1. i - m \in 1 .. n
      BY <2>1, <2>3
    <3>2. i - m \in DOMAIN t /\ u[i] = t[i - m]
      BY <1>1, <2>1, <2>3, <3>1 DEF u, m, n
    <3> QED BY <3>2 DEF ToSet
  <2> QED BY <2>2, <2>3
<1>3. ASSUME NEW i \in DOMAIN s PROVE s[i] \in ToSet(u)
  <2>1. i \in 1 .. m /\ m \in Nat /\ n \in Nat
    BY <1>1 DEF m, n
  <2>2. i \in 1 .. m + n /\ i <= m
    BY <2>1
  <2>3. i \in DOMAIN u /\ u[i] = s[i]
    BY <1>1, <2>2 DEF u, m, n
  <2> QED BY <2>3 DEF ToSet
<1>4. ASSUME NEW i \in DOMAIN t PROVE t[i] \in ToSet(u)
  <2>1. i \in 1 .. n /\ m \in Nat /\ n \in Nat
    BY <1>1 DEF m, n
  <2>2. i + m \in 1 .. m + n /\ ~ (i + m <= m) /\ (i + m) - m = i
    BY <2>1
  <2>3. i + m \in DOMAIN u /\ u[i + m] = t[i]
    BY <1>1, <2>2 DEF u, m, n
  <2> QED BY <2>3 DEF ToSet
<1>5. ToSet(u) = ToSet(s) \cup ToSet(t)
  BY <1>2, <1>3, <1>4 DEF ToSet
<1> QED BY <1>5 DEF u

FlattenStep(seqs, f, i) == IF i = 1 THEN seqs[i] ELSE f[i - 1] \o seqs[i]

LEMMA FlattenExists ==
    ASSUME NEW E, NEW n \in Nat \ {0}, NEW seqs \in [1 .. n -> Seq(E)]
    PROVE  \E f : f = [i \in 1 .. n |-> FlattenStep(seqs, f, i)]
<1> DEFINE X == Seq(E)
           H == [i \in 1 .. n |-> [x \in X |-> IF i = 1 THEN seqs[i] ELSE x \o seqs[i]]]
<1>1. H \in [1 .. n -> [X -> X]]
  <2>1. \A i \in 1 .. n, x \in X : x \o seqs[i] \in X
    BY ConcatProperties
  <2>2. \A i \in 1 .. n : seqs[i] \in X
    OBVIOUS
  <2> HIDE DEF X
  <2> QED BY <2>1, <2>2
<1>2. <<>> \in X /\ n \in Nat
  BY EmptySeq
<1> HIDE DEF X, H
<1>3. PICK v \in [SUBSET (1 .. n) -> X] : IsSeqFold(v, n, <<>>, H)
  BY <1>1, <1>2, SeqFoldExists
<1> DEFINE f == [i \in 1 .. n |-> v[1 .. i]]
<1>4. ASSUME NEW i \in 1 .. n PROVE f[i] = FlattenStep(seqs, f, i)
  <2>1. (1 .. i) \in SUBSET (1 .. n) /\ (1 .. i) # {}
    <3>1. i \in 1 .. i
      OBVIOUS
    <3>2. (1 .. i) \in SUBSET (1 .. n)
      OBVIOUS
    <3> QED BY <3>1, <3>2
  <2>2. Max(1 .. i) = i /\ (1 .. i) \ {i} = 1 .. (i - 1)
    BY LastOfInterval
  <2>3. 1 .. (i - 1) \in SUBSET (1 .. n)
    OBVIOUS
  <2>4. v[1 .. i] = H[i][v[1 .. (i - 1)]]
    BY <1>3, <2>1, <2>2 DEF IsSeqFold
  <2>5. v[1 .. (i - 1)] \in X
    BY <2>3
  <2>6. f[i] = IF i = 1 THEN seqs[i] ELSE v[1 .. (i - 1)] \o seqs[i]
    BY <2>4, <2>5 DEF H
  <2>7. i # 1 => i - 1 \in 1 .. n
    OBVIOUS
  <2>8. i # 1 => f[i - 1] = v[1 .. (i - 1)]
    BY <2>7
  <2> HIDE DEF f
  <2> QED BY <2>6, <2>8 DEF FlattenStep
<1>5. f = [i \in 1 .. n |-> FlattenStep(seqs, f, i)]
  BY <1>4
<1> QED BY <1>5

IsFlattening(f, n, seqs) ==
    /\ FlattenSeq(seqs) = f[n]
    /\ \A i \in 1 .. n : f[i] = IF i = 1 THEN seqs[i] ELSE f[i - 1] \o seqs[i]

LEMMA FlattenScan ==
    ASSUME NEW E, NEW n \in Nat \ {0}, NEW seqs \in [1 .. n -> Seq(E)]
    PROVE  \E f : IsFlattening(f, n, seqs)
<1> DEFINE f == CHOOSE h : h = [i \in 1 .. n |-> IF i = 1 THEN seqs[i] ELSE h[i - 1] \o seqs[i]]
<1>1. Len(seqs) = n
  BY LenProperties, SeqDef
<1>2. FlattenSeq(seqs) = f[n]
  BY <1>1 DEF FlattenSeq
<1>3. f = [i \in 1 .. n |-> IF i = 1 THEN seqs[i] ELSE f[i - 1] \o seqs[i]]
  <2>1. PICK h : h = [i \in 1 .. n |-> FlattenStep(seqs, h, i)]
    BY FlattenExists
  <2>2. h = [i \in 1 .. n |-> IF i = 1 THEN seqs[i] ELSE h[i - 1] \o seqs[i]]
    BY <2>1 DEF FlattenStep
  <2> QED BY <2>2
<1> HIDE DEF f
<1>4. \A i \in 1 .. n : f[i] = IF i = 1 THEN seqs[i] ELSE f[i - 1] \o seqs[i]
  BY <1>3
<1> QED BY <1>2, <1>4 DEF IsFlattening

LEMMA FlattenElements ==
    ASSUME NEW E, NEW n \in Nat \ {0}, NEW seqs \in [1 .. n -> Seq(E)]
    PROVE  /\ FlattenSeq(seqs) \in Seq(E)
           /\ \A i \in 1 .. n : ToSet(seqs[i]) \subseteq ToSet(FlattenSeq(seqs))
<1>1. PICK f : IsFlattening(f, n, seqs)
  BY FlattenScan
<1>2. FlattenSeq(seqs) = f[n]
  BY <1>1 DEF IsFlattening
<1>4. \A i \in 1 .. n : f[i] = IF i = 1 THEN seqs[i] ELSE f[i - 1] \o seqs[i]
  BY <1>1 DEF IsFlattening
<1> DEFINE Good(k) == f[k + 1] \in Seq(E) /\ \A i \in 1 .. k + 1 : ToSet(seqs[i]) \subseteq ToSet(f[k + 1])
           m == n - 1
           B == {k \in 0 .. m : ~ Good(k)}
<1>5. m \in Nat /\ m + 1 = n /\ \A k \in 0 .. m : k + 1 \in 1 .. n
  OBVIOUS
<1>6. 0 \notin B
  <2>1. f[1] = seqs[1] /\ seqs[1] \in Seq(E)
    BY <1>4
  <2>2. \A i \in 1 .. 1 : i = 1
    OBVIOUS
  <2>3. f[0 + 1] = f[1] /\ 0 + 1 = 1
    OBVIOUS
  <2> QED BY <2>1, <2>2, <2>3
<1>7. ASSUME NEW k \in 1 .. m, Good(k - 1) PROVE Good(k)
  <2>1. k + 1 \in 1 .. n /\ k + 1 # 1 /\ (k + 1) - 1 = k /\ (k - 1) + 1 = k
    OBVIOUS
  <2>2. f[k + 1] = f[k] \o seqs[k + 1] /\ seqs[k + 1] \in Seq(E)
    BY <1>4, <2>1
  <2>3. f[k] \in Seq(E) /\ \A i \in 1 .. k : ToSet(seqs[i]) \subseteq ToSet(f[k])
    BY <1>7, <2>1
  <2>4. f[k + 1] \in Seq(E) /\ ToSet(f[k + 1]) = ToSet(f[k]) \cup ToSet(seqs[k + 1])
    BY <2>2, <2>3, ConcatElements, ConcatProperties
  <2>5. \A i \in 1 .. k + 1 : i \in 1 .. k \/ i = k + 1
    OBVIOUS
  <2> QED BY <2>3, <2>4, <2>5
<1>8. B = {}
  <2>1. \A k \in 1 .. m : k \in B => k - 1 \in B
    <3>1. \A k \in 1 .. m : k - 1 \in 0 .. m
      OBVIOUS
    <3> HIDE DEF Good, m
    <3> QED BY <1>7, <3>1
  <2>2. B \in SUBSET (0 .. m)
    OBVIOUS
  <2> HIDE DEF B, m
  <2> QED BY <1>5, <1>6, <2>1, <2>2, NoFirstFailure
<1>9. Good(m)
  <2> HIDE DEF Good
  <2>1. m \in 0 .. m
    BY <1>5
  <2> QED BY <1>8, <2>1
<1> QED BY <1>2, <1>5, <1>9

LEMMA ProgramsFound ==
    ASSUME NEW g, Proper(g), NEW e \in ToSet(g.edges)
    PROVE  Bodies(g)[ProgramIDs(g)[e.prog]] = e.prog
<1> DEFINE V == ToSet(g.vertices)
           E == ToSet(g.edges)
           n == Len(g.vertices)
           seqs == [i \in DOMAIN g.vertices |-> OutgoingEdges(g, g.vertices[i])]
           es == EdgesInOrder(g)
           ps == [i \in DOMAIN es |-> es[i].prog]
           id == ProgramIDs(g)
<1>1. g.vertices \in Seq(V) /\ e.src \in V
  BY GraphFacts
<1>2. n \in Nat /\ DOMAIN g.vertices = 1 .. n
  BY <1>1, LenProperties
<1>3. PICK k \in 1 .. n : g.vertices[k] = e.src
  BY <1>1, <1>2 DEF ToSet
<1>4. n \in Nat \ {0}
  BY <1>2, <1>3
<1>5. seqs \in [1 .. n -> Seq(E)]
  <2>1. \A i \in 1 .. n : OutgoingEdges(g, g.vertices[i]) \in Seq(E)
    BY OutFacts
  <2> QED BY <1>2, <2>1
<1>6. es = FlattenSeq(seqs)
  BY DEF EdgesInOrder
<1>7. e \in ToSet(seqs[k])
  BY <1>2, <1>3, ListFacts DEF Leaving
<1> HIDE DEF seqs, n
<1>8. es \in Seq(E) /\ e \in ToSet(es)
  BY <1>3, <1>4, <1>5, <1>6, <1>7, FlattenElements
<1> HIDE DEF es
<1>9. ps \in Seq({x.prog : x \in E}) /\ e.prog \in ToSet(ps)
  <2> DEFINE m == Len(es)
             P == {x.prog : x \in E}
  <2>1. m \in Nat /\ DOMAIN es = 1 .. m /\ \A i \in 1 .. m : es[i] \in E
    BY <1>8, LenProperties, ElementOfSeq
  <2>2. ps \in [1 .. m -> P]
    BY <2>1
  <2>3. ps \in Seq(P)
    <3> HIDE DEF ps, P, m
    <3> QED BY <2>1, <2>2, SeqDef
  <2>4. PICK i \in DOMAIN es : es[i] = e
    BY <1>8 DEF ToSet
  <2>5. i \in DOMAIN ps /\ ps[i] = e.prog
    BY <2>4
  <2> QED BY <2>3, <2>5 DEF ToSet
<1>10. id = IDs(ps)
  BY DEF ProgramIDs, es
<1> HIDE DEF ps
<1>11. DOMAIN id = ToSet(ps) /\ \A x, y \in ToSet(ps) : id[x] = id[y] => x = y
  BY <1>9, <1>10, IDsFacts
<1> HIDE DEF id
<1>12. e.prog \in DOMAIN id /\ \A x \in DOMAIN id : id[x] = id[e.prog] => x = e.prog
  BY <1>9, <1>11
<1>13. Bodies(g) = [num \in {id[p] : p \in DOMAIN id} |-> CHOOSE p \in DOMAIN id : id[p] = num]
  BY DEF Bodies, id
<1>14. Bodies(g)[id[e.prog]] = CHOOSE p \in DOMAIN id : id[p] = id[e.prog]
  BY <1>12, <1>13
<1> QED BY <1>12, <1>14 DEF id

-----------------------------------------------------------------------------
(* What both kinds of code do at a team: the scores of its programs make the winner the best. *)

LEMMA TakesWinner ==
    ASSUME NEW g, Proper(g), HasPrograms(g), NEW d \in Data, NEW v \in ToSet(g.vertices), IsTeam(g, v),
           NEW results,
           results = [i \in DOMAIN OutgoingEdges(g, v) |->
                         Bid[Bodies(g)[ProgramIDs(g)[OutgoingEdges(g, v)[i].prog]]][d]]
    PROVE  /\ BestProgram(results) \in DOMAIN OutgoingEdges(g, v)
           /\ BestProgram(results) = Winner(OutgoingEdges(g, v), d)
<1> DEFINE out == OutgoingEdges(g, v)
           n == Len(out)
           bid(i) == IF Bid[out[i].prog][d] = NaN THEN MinusInfinity ELSE Bid[out[i].prog][d]
           Best(i) == \A j \in DOMAIN out : bid(j) < bid(i) \/ (bid(j) = bid(i) /\ j <= i)
           b == BestProgram(results)
<1>1. /\ out \in Seq(ToSet(g.edges)) /\ n \in Nat /\ DOMAIN out = 1 .. n
      /\ \A i \in 1 .. n : out[i] \in ToSet(g.edges)
  BY OutFacts
<1>2. n # 0
  <2>1. out # <<>>
    BY DEF Proper
  <2> QED BY <1>1, <2>1, EmptySeq
<1>3. \A i \in 1 .. n : results[i] = Bid[out[i].prog][d]
  BY <1>1, ProgramsFound
<1>4. \A i \in 1 .. n : Bid[out[i].prog][d] \in Nat \cup {MinusInfinity, NaN}
  BY <1>1, ExecutionAssumption DEF HasPrograms
<1>5. DOMAIN results = 1 .. n
  BY <1>1
<1>6. Winner(out, d) = CHOOSE k \in DOMAIN out : Best(k)
  BY DEF Winner
<1>7. \A i \in 1 .. n : bid(i) = Filter(results[i])
  BY <1>3 DEF Filter
<1> HIDE DEF out, n
<1>8. /\ b \in 1 .. n
      /\ \A j \in 1 .. n : \/ Filter(results[j]) < Filter(results[b])
                           \/ Filter(results[j]) = Filter(results[b]) /\ j <= b
  <2>1. \A i \in 1 .. n : results[i] \in Nat \cup {MinusInfinity, NaN}
    BY <1>3, <1>4
  <2>2. n \in Nat \ {0}
    BY <1>1, <1>2
  <2> QED BY <1>5, <2>1, <2>2, BestProgramIs
<1> HIDE DEF b
<1>9. Best(b)
  <2> HIDE DEF bid
  <2> QED BY <1>1, <1>7, <1>8
<1>10. ASSUME NEW k \in DOMAIN out, Best(k) PROVE k = b
  <2>1. bid(b) < bid(k) \/ (bid(b) = bid(k) /\ b <= k)
    BY <1>1, <1>8, <1>10
  <2>2. bid(k) < bid(b) \/ (bid(k) = bid(b) /\ k <= b)
    BY <1>9
  <2>3. bid(k) \in Int /\ bid(b) \in Int
    BY <1>1, <1>4, <1>8 DEF MinusInfinity, NaN
  <2>4. k \in Int /\ b \in Int
    BY <1>1, <1>8
  <2> HIDE DEF bid
  <2> QED BY <2>1, <2>2, <2>3, <2>4
<1> HIDE DEF Best
<1>11. Winner(out, d) = b
  BY <1>1, <1>6, <1>8, <1>9, <1>10
<1> QED BY <1>1, <1>8, <1>11 DEF out, b

-----------------------------------------------------------------------------
(* Acyclic: no set of vertices is left by an edge from each of its members, or entered at each. *)
LEMMA NoEndlessWalk ==
    ASSUME NEW g, Proper(g), NEW B \in SUBSET ToSet(g.vertices),
           \/ \A v \in B : \E e \in ToSet(g.edges) : e.src = v /\ e.dst \in B
           \/ \A v \in B : \E e \in ToSet(g.edges) : e.dst = v /\ e.src \in B
    PROVE  B = {}
<1> DEFINE V == ToSet(g.vertices)
<1> SUFFICES ASSUME B # {} PROVE FALSE
  OBVIOUS
<1>1. PICK rank \in [V -> Nat] : \A e \in ToSet(g.edges) : rank[e.src] < rank[e.dst]
  BY DEF Proper, Ranked
<1>2. PICK max \in Nat : \A v \in V : rank[v] <= max
  <2>1. IsFiniteSet(V)
    BY GraphFacts
  <2> HIDE DEF V
  <2> QED BY <2>1, RankBound
<1>3. \A v \in B : rank[v] \in Nat /\ max - rank[v] \in Nat
  BY <1>2
<1>4. CASE \A v \in B : \E e \in ToSet(g.edges) : e.src = v /\ e.dst \in B
  <2> DEFINE T == {max - rank[v] : v \in B}
  <2>1. T \in SUBSET Nat /\ T # {}
    BY <1>3
  <2>2. PICK x \in T : \A y \in T : x <= y
    BY <2>1, LeastNatural
  <2>3. PICK v \in B : x = max - rank[v]
    OBVIOUS
  <2>4. PICK e \in ToSet(g.edges) : e.src = v /\ e.dst \in B
    BY <1>4
  <2>5. max - rank[v] <= max - rank[e.dst] /\ rank[v] < rank[e.dst]
    BY <1>1, <2>2, <2>3, <2>4
  <2>6. rank[v] \in Nat /\ rank[e.dst] \in Nat
    BY <1>3, <2>4
  <2> QED BY <2>5, <2>6
<1>5. CASE \A v \in B : \E e \in ToSet(g.edges) : e.dst = v /\ e.src \in B
  <2> DEFINE T == {rank[v] : v \in B}
  <2>1. T \in SUBSET Nat /\ T # {}
    BY <1>3
  <2>2. PICK x \in T : \A y \in T : x <= y
    BY <2>1, LeastNatural
  <2>3. PICK v \in B : x = rank[v]
    OBVIOUS
  <2>4. PICK e \in ToSet(g.edges) : e.dst = v /\ e.src \in B
    BY <1>5
  <2>5. rank[v] <= rank[e.src] /\ rank[e.src] < rank[v]
    BY <1>1, <2>2, <2>3, <2>4
  <2>6. rank[v] \in Nat /\ rank[e.src] \in Nat
    BY <1>3, <2>4
  <2> QED BY <2>5, <2>6
<1> QED BY <1>4, <1>5

(* The first root, that generated code starts from *)
LEMMA HasRoot ==
    ASSUME NEW g, Proper(g), ToSet(g.vertices) # {}
    PROVE  RootVertices(g)[1] \in ToSet(g.vertices)
<1> DEFINE V == ToSet(g.vertices)
           S == {v \in V : IncomingEdges(g, v) = <<>>}
           roots == RootVertices(g)
<1>1. \E v \in V : Arriving(g, v) = {}
  <2> SUFFICES ASSUME \A v \in V : Arriving(g, v) # {} PROVE FALSE
    OBVIOUS
  <2>1. \A v \in V : \E e \in ToSet(g.edges) : e.dst = v /\ e.src \in V
    BY GraphFacts DEF Arriving
  <2> QED BY <2>1, NoEndlessWalk
<1>2. PICK v \in V : Arriving(g, v) = {}
  BY <1>1
<1>3. g.vertices \in Seq(V) /\ g.edges \in Seq(ToSet(g.edges))
  BY GraphFacts
<1>4. IncomingEdges(g, v) = <<>>
  <2>1. ToSet(IncomingEdges(g, v)) = {}
    BY <1>2, ListFacts
  <2>2. IncomingEdges(g, v) \in Seq(ToSet(g.edges))
    BY <1>3, SelectedElements DEF IncomingEdges
  <2> DEFINE in == IncomingEdges(g, v)
  <2>3. in \in Seq(ToSet(g.edges)) /\ ToSet(in) = {}
    BY <2>1, <2>2
  <2> HIDE DEF in
  <2>4. Len(in) \in Nat /\ DOMAIN in = 1 .. Len(in)
    BY <2>3, LenProperties
  <2>5. DOMAIN in = {}
    BY <2>3 DEF ToSet
  <2>6. Len(in) = 0
    BY <2>4, <2>5
  <2>7. in = <<>>
    BY <2>3, <2>6, EmptySeq
  <2> QED BY <2>7 DEF in
<1>5. roots \in Seq(V) /\ v \in ToSet(roots)
  <2>1. roots = SelectIn(g.vertices, S)
    BY DEF RootVertices
  <2>2. v \in S
    BY <1>4
  <2> HIDE DEF S, roots
  <2> QED BY <1>3, <2>1, <2>2, SelectedElements
<1> HIDE DEF roots
<1>6. Len(roots) \in Nat /\ DOMAIN roots = 1 .. Len(roots) /\ \E i \in DOMAIN roots : TRUE
  BY <1>5, LenProperties DEF ToSet
<1>7. 1 \in 1 .. Len(roots)
  BY <1>6
<1>8. roots[1] \in V
  BY <1>5, <1>7, ElementOfSeq
<1> QED BY <1>8 DEF roots

(* Where a path ends: an action, the same for a team and the vertex that its winner leads to. *)
KindAtEnd(g, v, d) == g.kind[Last(Path(g, v, d))]

LEMMA WinningEdge ==
    ASSUME NEW g, Proper(g), HasPrograms(g), NEW d \in Data, NEW v \in ToSet(g.vertices), ~ IsAction(g, v)
    PROVE  \E e \in Leaving(g, v) :
               /\ Wins(g, e, d) /\ e \in ToSet(g.edges) /\ e.src = v
               /\ e.dst = NextOnPath(g, v, d) /\ e.dst \in ToSet(g.vertices)
<1>1. IsTeam(g, v)
  BY DEF IsTeam, IsAction
<1>2. PICK e \in Leaving(g, v) : Wins(g, e, d)
  BY <1>1, OneWins
<1>3. e \in ToSet(g.edges) /\ e.src = v
  BY DEF Leaving
<1>4. NextOnPath(g, v, d) = e.dst
  BY <1>2, <1>3, WinnerIs DEF NextOnPath
<1> QED BY <1>2, <1>3, <1>4, GraphFacts

LEMMA PathIsSeq ==
    ASSUME NEW g, Proper(g), HasPrograms(g), NEW d \in Data, NEW v \in ToSet(g.vertices)
    PROVE  Path(g, v, d) \in Seq(ToSet(g.vertices)) /\ Len(Path(g, v, d)) \in Nat \ {0}
<1> DEFINE V == ToSet(g.vertices)
           Good(u) == Path(g, u, d) \in Seq(V) /\ Len(Path(g, u, d)) \in Nat \ {0}
           B == {u \in V : ~ Good(u)}
<1>1. ASSUME NEW u \in B PROVE \E e \in ToSet(g.edges) : e.src = u /\ e.dst \in B
  <2>1. <<u>> \in Seq(V) /\ Len(<<u>>) = 1
    OBVIOUS
  <2>2. ~ IsAction(g, u)
    <3> SUFFICES ASSUME IsAction(g, u) PROVE FALSE
      OBVIOUS
    <3>1. Path(g, u, d) = <<u>>
      BY PathStep
    <3>2. 1 \in Nat \ {0}
      OBVIOUS
    <3>3. Good(u)
      BY <2>1, <3>1, <3>2
    <3> HIDE DEF Good
    <3> QED BY <3>3
  <2>3. PICK e \in Leaving(g, u) : /\ Wins(g, e, d) /\ e \in ToSet(g.edges) /\ e.src = u /\ e.dst \in V
    BY <2>2, WinningEdge
  <2>4. Path(g, u, d) = <<u>> \o Path(g, e.dst, d)
    BY <2>3, PathStep
  <2>5. ASSUME Good(e.dst) PROVE FALSE
    <3> DEFINE p == Path(g, e.dst, d)
    <3>1. p \in Seq(V) /\ Len(p) \in Nat
      BY <2>5
    <3> HIDE DEF p
    <3>2. <<u>> \o p \in Seq(V) /\ Len(<<u>> \o p) = 1 + Len(p)
      BY <2>1, <3>1, ConcatProperties
    <3>3. 1 + Len(p) \in Nat \ {0}
      BY <3>1
    <3> QED BY <2>4, <3>2, <3>3 DEF p
  <2> HIDE DEF Good
  <2> QED BY <2>3, <2>5
<1>2. B = {}
  <2>1. B \in SUBSET V
    OBVIOUS
  <2> HIDE DEF B
  <2> QED BY <1>1, <2>1, NoEndlessWalk
<1> QED BY <1>2

LEMMA KindOnPath ==
    ASSUME NEW g, Proper(g), HasPrograms(g), NEW d \in Data, NEW v \in ToSet(g.vertices)
    PROVE  /\ IsAction(g, v) => KindAtEnd(g, v, d) = g.kind[v]
           /\ ~ IsAction(g, v) => KindAtEnd(g, v, d) = KindAtEnd(g, NextOnPath(g, v, d), d)
<1> DEFINE V == ToSet(g.vertices)
<1>1. ASSUME IsAction(g, v) PROVE KindAtEnd(g, v, d) = g.kind[v]
  <2>1. Path(g, v, d) = <<v>>
    BY <1>1, PathStep
  <2>2. Last(<<v>>) = v
    BY DEF Last
  <2> QED BY <2>1, <2>2 DEF KindAtEnd
<1>2. ASSUME ~ IsAction(g, v) PROVE KindAtEnd(g, v, d) = KindAtEnd(g, NextOnPath(g, v, d), d)
  <2>1. PICK e \in Leaving(g, v) : Wins(g, e, d) /\ e.dst = NextOnPath(g, v, d) /\ e.dst \in V
    BY <1>2, WinningEdge
  <2> DEFINE p == Path(g, e.dst, d)
  <2>2. Path(g, v, d) = <<v>> \o p
    BY <2>1, PathStep
  <2>3. p \in Seq(V) /\ Len(p) \in Nat \ {0} /\ <<v>> \in Seq(V) /\ Len(<<v>>) = 1
    BY <2>1, PathIsSeq
  <2> HIDE DEF p
  <2>4. /\ Len(<<v>> \o p) = 1 + Len(p)
        /\ \A i \in 1 .. 1 + Len(p) : (<<v>> \o p)[i] = IF i <= 1 THEN <<v>>[i] ELSE p[i - 1]
    BY <2>3, ConcatProperties
  <2>5. 1 + Len(p) \in 1 .. 1 + Len(p) /\ ~ (1 + Len(p) <= 1) /\ (1 + Len(p)) - 1 = Len(p)
    BY <2>3
  <2>6. Last(<<v>> \o p) = Last(p)
    BY <2>4, <2>5 DEF Last
  <2> QED BY <2>1, <2>2, <2>6 DEF KindAtEnd, p
<1> QED BY <1>1, <1>2

(* Recursive code over names: a name of an action is in the domain of ret, and next gives the name that
   a team goes on to.  Such a function exists, and there is no other than the ends of paths. *)
IsRun(f, D, ret, next) == f = [n \in D |-> IF n \in DOMAIN ret THEN ret[n] ELSE f[next[n]]]

NamesPaths(g, d, name, ret, next) ==
    /\ \A u, w \in ToSet(g.vertices) : name[u] = name[w] => u = w
    /\ \A u \in ToSet(g.vertices) :
          /\ IsAction(g, u) => name[u] \in DOMAIN ret /\ ret[name[u]] = g.kind[u]
          /\ ~ IsAction(g, u) => name[u] \notin DOMAIN ret /\ next[name[u]] = name[NextOnPath(g, u, d)]

RunsEndLikePaths(g, d, name, ret, next, D) ==
    /\ \E f : IsRun(f, D, ret, next)
    /\ \A f : IsRun(f, D, ret, next) => \A u \in ToSet(g.vertices) : f[name[u]] = KindAtEnd(g, u, d)

LEMMA RunFollowsPath ==
    ASSUME NEW g, Proper(g), HasPrograms(g), NEW d \in Data, NEW name, NEW ret, NEW next,
           NamesPaths(g, d, name, ret, next), NEW D, D = {name[u] : u \in ToSet(g.vertices)}
    PROVE  RunsEndLikePaths(g, d, name, ret, next, D)
<1> DEFINE V == ToSet(g.vertices)
<1>1. ASSUME NEW u \in V
      PROVE  /\ name[u] \in D
             /\ IsAction(g, u) => /\ name[u] \in DOMAIN ret /\ ret[name[u]] = g.kind[u]
                                  /\ KindAtEnd(g, u, d) = g.kind[u]
             /\ ~ IsAction(g, u) =>
                   /\ name[u] \notin DOMAIN ret /\ next[name[u]] = name[NextOnPath(g, u, d)]
                   /\ NextOnPath(g, u, d) \in V
                   /\ KindAtEnd(g, u, d) = KindAtEnd(g, NextOnPath(g, u, d), d)
                   /\ \E e \in ToSet(g.edges) : e.src = u /\ e.dst = NextOnPath(g, u, d)
  BY KindOnPath, WinningEdge DEF NamesPaths
<1>2. \E f : IsRun(f, D, ret, next)
  <2> DEFINE vertex(n) == CHOOSE u \in V : name[u] = n
             f == [n \in D |-> KindAtEnd(g, vertex(n), d)]
  <2>1. \A u \in V : vertex(name[u]) = u
    BY DEF NamesPaths
  <2>2. \A u \in V : f[name[u]] = KindAtEnd(g, u, d)
    BY <1>1, <2>1
  <2> HIDE DEF f, V
  <2>3. ASSUME NEW n \in D PROVE f[n] = IF n \in DOMAIN ret THEN ret[n] ELSE f[next[n]]
    <3>1. PICK u \in V : n = name[u]
      BY DEF V
    <3>2. CASE IsAction(g, u)
      BY <1>1, <2>2, <3>1, <3>2
    <3>3. CASE ~ IsAction(g, u)
      <4>1. f[next[n]] = KindAtEnd(g, NextOnPath(g, u, d), d)
        BY <1>1, <2>2, <3>1, <3>3
      <4> QED BY <1>1, <2>2, <3>1, <3>3, <4>1
    <3> QED BY <3>2, <3>3
  <2>4. f = [n \in D |-> f[n]]
    BY DEF f
  <2>5. f = [n \in D |-> IF n \in DOMAIN ret THEN ret[n] ELSE f[next[n]]]
    BY <2>3, <2>4
  <2> QED BY <2>5 DEF IsRun
<1>3. ASSUME NEW f, IsRun(f, D, ret, next), NEW v \in V PROVE f[name[v]] = KindAtEnd(g, v, d)
  <2>1. \A n \in D : f[n] = IF n \in DOMAIN ret THEN ret[n] ELSE f[next[n]]
    BY <1>3 DEF IsRun
  <2> DEFINE B == {u \in V : f[name[u]] # KindAtEnd(g, u, d)}
  <2>2. ASSUME NEW u \in B PROVE \E e \in ToSet(g.edges) : e.src = u /\ e.dst \in B
    <3>1. f[name[u]] = IF name[u] \in DOMAIN ret THEN ret[name[u]] ELSE f[next[name[u]]]
      BY <1>1, <2>1
    <3>2. ~ IsAction(g, u)
      BY <1>1, <3>1
    <3>3. NextOnPath(g, u, d) \in B
      BY <1>1, <3>1, <3>2
    <3> QED BY <1>1, <3>2, <3>3
  <2>3. B \in SUBSET ToSet(g.vertices)
    OBVIOUS
  <2> HIDE DEF B
  <2>4. B = {}
    BY <2>2, <2>3, NoEndlessWalk
  <2> QED BY <2>4 DEF B
<1> QED BY <1>2, <1>3 DEF RunsEndLikePaths

-----------------------------------------------------------------------------
(* The code with a switch. *)
LEMMA SwitchFollowsPath ==
    ASSUME NEW g, Proper(g), HasPrograms(g), NEW d \in Data, RootVertices(g)[1] \in ToSet(g.vertices)
    PROVE  RunSwitch(SwitchCode(g), d) = KindAtEnd(g, RootVertices(g)[1], d)
<1> DEFINE V == ToSet(g.vertices)
           root == RootVertices(g)[1]
           code == SwitchCode(g)
           name == [v \in V |-> SwitchName(g, v)]
           D == {name[u] : u \in V}
           ret == code.returns
           Best(n) == BestProgram([i \in DOMAIN code.teams[n].scores |->
                                      Bid[code.programs[code.teams[n].scores[i]]][d]])
           next == [n \in DOMAIN code.teams |-> code.teams[n].next[Best(n)]]
           vertex(n) == CHOOSE v \in V : SwitchName(g, v) = n
<1>1. \A u, w \in V : SwitchName(g, u) = SwitchName(g, w) => u = w
  <2>1. g.vertices \in Seq(V)
    BY GraphFacts
  <2>2. \A x, y \in V : IDs(g.vertices)[x] = IDs(g.vertices)[y] => x = y
    BY <2>1, IDsFacts
  <2> QED BY <2>2 DEF SwitchName
<1>2. \A u \in V : vertex(SwitchName(g, u)) = u
  BY <1>1
<1>3. /\ code.start = SwitchName(g, root)
      /\ code.teams = [n \in {m \in D : m[1] = "T"} |-> GenerateTeam(g, vertex(n))]
      /\ ret = [n \in {m \in D : m[1] = "A"} |-> g.kind[vertex(n)]]
      /\ code.programs = Bodies(g)
  <2>1. D = {SwitchName(g, v) : v \in V}
    OBVIOUS
  <2> HIDE DEF D
  <2> QED BY <2>1 DEF SwitchCode
<1>4. \A u \in V : SwitchName(g, u)[1] = (IF IsTeam(g, u) THEN "T" ELSE "A") /\ SwitchName(g, u) \in D
  BY DEF SwitchName
<1>5. D = DOMAIN code.teams \cup DOMAIN ret
  <2>1. \A n \in D : n[1] = "T" \/ n[1] = "A"
    BY <1>4
  <2> HIDE DEF D, ret, code
  <2> QED BY <1>3, <2>1
<1>6. \A u \in V : name[u] = SwitchName(g, u)
  OBVIOUS
<1> HIDE DEF D, code, ret, vertex, name
<1>7. ASSUME NEW u \in V, ~ IsAction(g, u)
      PROVE  /\ SwitchName(g, u) \notin DOMAIN ret /\ SwitchName(g, u) \in DOMAIN code.teams
             /\ next[SwitchName(g, u)] = SwitchName(g, NextOnPath(g, u, d))
  <2> DEFINE n == SwitchName(g, u)
             out == OutgoingEdges(g, u)
             results == [i \in DOMAIN out |-> Bid[Bodies(g)[ProgramIDs(g)[out[i].prog]]][d]]
  <2>1. IsTeam(g, u)
    BY <1>7 DEF IsTeam, IsAction
  <2>2. n \in D /\ n[1] = "T"
    BY <1>4, <2>1
  <2>3. n \in DOMAIN code.teams /\ n \notin DOMAIN ret
    BY <1>3, <2>2
  <2>4. code.teams[n] = GenerateTeam(g, u)
    BY <1>2, <1>3, <2>2
  <2>5. /\ code.teams[n].next = [i \in DOMAIN out |-> SwitchName(g, out[i].dst)]
        /\ code.teams[n].scores = [i \in DOMAIN out |-> ProgramIDs(g)[out[i].prog]]
    BY <2>4 DEF GenerateTeam
  <2>6. Best(n) = BestProgram(results)
    BY <1>3, <2>5
  <2>7. Best(n) \in DOMAIN out /\ Best(n) = Winner(out, d)
    <3>1. BestProgram(results) \in DOMAIN out /\ BestProgram(results) = Winner(out, d)
      BY <2>1, TakesWinner
    <3> QED BY <2>6, <3>1
  <2>8. next[n] = code.teams[n].next[Best(n)]
    BY <2>3
  <2> HIDE DEF Best, next, n, out
  <2>9. next[n] = SwitchName(g, out[Winner(out, d)].dst)
    BY <2>5, <2>7, <2>8
  <2> QED BY <2>3, <2>9 DEF NextOnPath, out, n
<1>8. ASSUME NEW u \in V, IsAction(g, u)
      PROVE  SwitchName(g, u) \in DOMAIN ret /\ ret[SwitchName(g, u)] = g.kind[u]
  <2>1. SwitchName(g, u)[1] = "A" /\ SwitchName(g, u) \in D
    BY <1>4, <1>8 DEF IsTeam, IsAction
  <2> QED BY <1>2, <1>3, <2>1
<1> HIDE DEF next
<1>9. NamesPaths(g, d, name, ret, next)
  <2>1. \A u \in V : ~ IsAction(g, u) => NextOnPath(g, u, d) \in V
    BY WinningEdge
  <2> QED BY <1>1, <1>6, <1>7, <1>8, <2>1 DEF NamesPaths
<1>10. /\ \E f : IsRun(f, D, ret, next)
       /\ \A f : IsRun(f, D, ret, next) => \A u \in V : f[name[u]] = KindAtEnd(g, u, d)
  <2>1. D = {name[u] : u \in V}
    BY DEF D
  <2>2. RunsEndLikePaths(g, d, name, ret, next, D)
    BY <1>9, <2>1, RunFollowsPath
  <2> QED BY <2>2 DEF RunsEndLikePaths
<1> DEFINE Body(f) ==
               [n \in DOMAIN code.teams \cup DOMAIN code.returns |->
                   IF n \in DOMAIN code.returns THEN code.returns[n]
                   ELSE f[code.teams[n].next[BestProgram(
                            [i \in DOMAIN code.teams[n].scores |->
                                Bid[code.programs[code.teams[n].scores[i]]][d]])]]]
           run == CHOOSE f : f = Body(f)
<1>11. ASSUME NEW f PROVE f = Body(f) <=> IsRun(f, D, ret, next)
  <2>1. \A n \in DOMAIN code.teams : next[n] = code.teams[n].next[Best(n)]
    BY DEF next
  <2>2. Body(f) = [n \in D |-> IF n \in DOMAIN ret THEN ret[n] ELSE f[code.teams[n].next[Best(n)]]]
    BY <1>5 DEF ret
  <2>3. \A n \in D : n \notin DOMAIN ret => n \in DOMAIN code.teams
    BY <1>5
  <2> HIDE DEF Body, Best
  <2>4. Body(f) = [n \in D |-> IF n \in DOMAIN ret THEN ret[n] ELSE f[next[n]]]
    BY <2>1, <2>2, <2>3
  <2> QED BY <2>4 DEF IsRun
<1>12. RunSwitch(code, d) = run[code.start]
  BY DEF RunSwitch
<1> HIDE DEF Body
<1>13. run = Body(run)
  <2>1. \E f : f = Body(f)
    BY <1>10, <1>11
  <2> QED BY <2>1
<1>14. IsRun(run, D, ret, next)
  BY <1>11, <1>13
<1> HIDE DEF run
<1>15. run[name[root]] = KindAtEnd(g, root, d)
  BY <1>10, <1>14
<1> QED BY <1>3, <1>6, <1>12, <1>15 DEF code

-----------------------------------------------------------------------------
(* The code with a stack. *)
LEMMA StackFollowsPath ==
    ASSUME NEW g, Proper(g), HasPrograms(g), NEW d \in Data, RootVertices(g)[1] \in ToSet(g.vertices),
           Compiles(g)
    PROVE  RunStack(StackCode(g), d) = KindAtEnd(g, RootVertices(g)[1], d)
<1> DEFINE V == ToSet(g.vertices)
           ts == ToSet(Teams(g))
           root == RootVertices(g)[1]
           code == StackCode(g)
           name == [v \in V |-> StackName(g, v)]
           D == {name[u] : u \in V}
           ret == [n \in code.actions |-> n[2]]
           Best(n) == BestProgram([i \in DOMAIN code.teams[n] |->
                                      Bid[code.programs[code.teams[n][i].prog]][d]])
           next == [n \in DOMAIN code.teams |-> code.teams[n][Best(n)].vertex]
           vertex(n) == CHOOSE v \in ts : StackName(g, v) = n
<1>1. \A u, w \in V : StackName(g, u) = StackName(g, w) => u = w
  <2>1. Teams(g) \in Seq(V)
    <3>1. g.vertices \in Seq(V)
      BY GraphFacts
    <3> QED BY <3>1, SelectedElements DEF Teams
  <2>2. \A x, y \in ts : IDs(Teams(g))[x] = IDs(Teams(g))[y] => x = y
    BY <2>1, IDsFacts
  <2>3. \A u \in V : IsTeam(g, u) => u \in ts
    BY ListFacts
  <2>4. \A v, w \in V : IsAction(g, v) /\ g.kind[v] = g.kind[w] => v = w
    BY DEF Compiles
  <2> HIDE DEF V, ts
  <2>5. ASSUME NEW u \in V, NEW w \in V, StackName(g, u) = StackName(g, w) PROVE u = w
    <3>1. IsTeam(g, u) <=> IsTeam(g, w)
      BY <2>5 DEF StackName
    <3>2. CASE IsTeam(g, u)
      <4>1. IDs(Teams(g))[u] = IDs(Teams(g))[w]
        BY <2>5, <3>1, <3>2 DEF StackName
      <4> QED BY <2>2, <2>3, <3>1, <3>2, <4>1
    <3>3. CASE ~ IsTeam(g, u)
      <4>1. g.kind[u] = g.kind[w]
        BY <2>5, <3>1, <3>3 DEF StackName
      <4> QED BY <2>4, <3>3, <4>1 DEF IsTeam, IsAction
    <3> QED BY <3>2, <3>3
  <2> QED BY <2>5
<1>2. /\ \A u \in V : u \in ts <=> IsTeam(g, u)
      /\ ts \subseteq V
  BY ListFacts
<1>3. \A u \in ts : vertex(StackName(g, u)) = u
  BY <1>1, <1>2
<1>4. /\ code.root = StackName(g, root)
      /\ code.teams = [n \in {StackName(g, v) : v \in ts} |-> EdgeArray(g, vertex(n))]
      /\ code.actions = {StackName(g, v) : v \in V \ ts}
      /\ code.programs = Bodies(g)
  BY DEF StackCode, StackName, Compiles
<1>5. D = DOMAIN code.teams \cup code.actions
  <2>1. D = {StackName(g, v) : v \in V}
    OBVIOUS
  <2> HIDE DEF D, code
  <2> QED BY <1>2, <1>4, <2>1
<1>6. \A u \in V : name[u] = StackName(g, u)
  OBVIOUS
<1>7. DOMAIN ret = code.actions /\ \A n \in code.actions : ret[n] = n[2]
  OBVIOUS
<1> HIDE DEF D, code, ret, vertex, name, ts
<1>8. ASSUME NEW u \in V, ~ IsAction(g, u)
      PROVE  /\ StackName(g, u) \notin DOMAIN ret /\ StackName(g, u) \in DOMAIN code.teams
             /\ next[StackName(g, u)] = StackName(g, NextOnPath(g, u, d))
  <2> DEFINE n == StackName(g, u)
             out == OutgoingEdges(g, u)
             results == [i \in DOMAIN out |-> Bid[Bodies(g)[ProgramIDs(g)[out[i].prog]]][d]]
  <2>1. IsTeam(g, u) /\ u \in ts
    BY <1>2, <1>8 DEF IsTeam, IsAction
  <2>2. n \in DOMAIN code.teams
    BY <1>4, <2>1
  <2>3. n \notin DOMAIN ret
    <3>1. \A v \in V \ ts : StackName(g, v) # StackName(g, u)
      BY <1>1, <2>1
    <3> QED BY <1>4, <1>7, <3>1
  <2>4. code.teams[n] = EdgeArray(g, u)
    BY <1>3, <1>4, <2>1
  <2>5. code.teams[n] = [i \in DOMAIN out |-> [prog |-> ProgramIDs(g)[out[i].prog],
                                               vertex |-> StackName(g, out[i].dst)]]
    BY <2>4 DEF EdgeArray
  <2>6. Best(n) = BestProgram(results)
    <3>1. /\ DOMAIN code.teams[n] = DOMAIN out
          /\ \A i \in DOMAIN out : code.teams[n][i].prog = ProgramIDs(g)[out[i].prog]
      BY <2>5
    <3> HIDE DEF n
    <3> QED BY <1>4, <3>1
  <2>7. Best(n) \in DOMAIN out /\ Best(n) = Winner(out, d)
    <3>1. BestProgram(results) \in DOMAIN out /\ BestProgram(results) = Winner(out, d)
      BY <2>1, TakesWinner
    <3> QED BY <2>6, <3>1
  <2>8. next[n] = code.teams[n][Best(n)].vertex
    BY <2>2
  <2> HIDE DEF Best, next, n, out
  <2>9. next[n] = StackName(g, out[Winner(out, d)].dst)
    BY <2>5, <2>7, <2>8
  <2> QED BY <2>2, <2>3, <2>9 DEF NextOnPath, out, n
<1>9. ASSUME NEW u \in V, IsAction(g, u)
      PROVE  StackName(g, u) \in DOMAIN ret /\ ret[StackName(g, u)] = g.kind[u]
  <2>1. ~ IsTeam(g, u) /\ u \in V \ ts
    BY <1>2, <1>9 DEF IsTeam, IsAction
  <2>2. StackName(g, u) \in code.actions
    BY <1>4, <2>1
  <2>3. StackName(g, u) = <<"A", g.kind[u]>>
    BY <2>1 DEF StackName
  <2> QED BY <1>7, <2>2, <2>3
<1> HIDE DEF next
<1>10. NamesPaths(g, d, name, ret, next)
  <2>1. \A u \in V : ~ IsAction(g, u) => NextOnPath(g, u, d) \in V
    BY WinningEdge
  <2> QED BY <1>1, <1>6, <1>8, <1>9, <2>1 DEF NamesPaths
<1>11. /\ \E f : IsRun(f, D, ret, next)
       /\ \A f : IsRun(f, D, ret, next) => \A u \in V : f[name[u]] = KindAtEnd(g, u, d)
  <2>1. D = {name[u] : u \in V}
    BY DEF D
  <2>2. RunsEndLikePaths(g, d, name, ret, next, D)
    BY <1>10, <2>1, RunFollowsPath
  <2> QED BY <2>2 DEF RunsEndLikePaths
<1> DEFINE Body(f) ==
               [n \in DOMAIN code.teams \cup code.actions |->
                   IF n \in code.actions THEN n[2]
                   ELSE f[code.teams[n][BestProgram(
                            [i \in DOMAIN code.teams[n] |->
                                Bid[code.programs[code.teams[n][i].prog]][d]])].vertex]]
           run == CHOOSE f : f = Body(f)
<1>12. ASSUME NEW f PROVE f = Body(f) <=> IsRun(f, D, ret, next)
  <2>1. \A n \in DOMAIN code.teams : next[n] = code.teams[n][Best(n)].vertex
    BY DEF next
  <2>2. Body(f) = [n \in D |-> IF n \in code.actions THEN n[2] ELSE f[code.teams[n][Best(n)].vertex]]
    BY <1>5
  <2>3. \A n \in D : n \notin DOMAIN ret => n \in DOMAIN code.teams
    BY <1>5, <1>7
  <2> HIDE DEF Body, Best
  <2>4. Body(f) = [n \in D |-> IF n \in DOMAIN ret THEN ret[n] ELSE f[next[n]]]
    BY <1>7, <2>1, <2>2, <2>3
  <2> QED BY <2>4 DEF IsRun
<1>13. RunStack(code, d) = run[code.root]
  BY DEF RunStack
<1> HIDE DEF Body
<1>14. run = Body(run)
  <2>1. \E f : f = Body(f)
    BY <1>11, <1>12
  <2> QED BY <2>1
<1>15. IsRun(run, D, ret, next)
  BY <1>12, <1>14
<1> HIDE DEF run
<1>16. run[name[root]] = KindAtEnd(g, root, d)
  BY <1>11, <1>15
<1> QED BY <1>4, <1>6, <1>13, <1>16 DEF code

LEMMA CodeOfInv == Inv /\ PolicyInv => GeneratedCodeAgrees
<1> SUFFICES ASSUME Inv, PolicyInv, Compiles(graph), NEW d \in Data
             PROVE  LET action == graph.kind[Last(Path(graph, RootVertices(graph)[1], d))]
                    IN  RunSwitch(SwitchCode(graph), d) = action /\ RunStack(StackCode(graph), d) = action
  BY DEF GeneratedCodeAgrees
<1>1. Proper(graph) /\ HasPrograms(graph)
  BY DEF Inv, PolicyInv
<1>2. ToSet(graph.vertices) # {}
  <2>1. graph.vertices \in Seq(ToSet(graph.vertices))
    BY <1>1, GraphFacts
  <2>2. Teams(graph) \in Seq(ToSet(graph.vertices))
    BY <2>1, SelectedElements DEF Teams
  <2> DEFINE q == Teams(graph)
  <2>3. q \in Seq(ToSet(graph.vertices)) /\ Len(q) > 0
    BY <2>2 DEF Compiles
  <2> HIDE DEF q
  <2>4. 1 \in 1 .. Len(q)
    BY <2>3, LenProperties
  <2> QED BY <2>3, <2>4, ElementOfSeq
<1>3. RootVertices(graph)[1] \in ToSet(graph.vertices)
  BY <1>1, <1>2, HasRoot
<1> QED BY <1>1, <1>3, SwitchFollowsPath, StackFollowsPath DEF KindAtEnd

(* Whatever the graph, the programs, which bids they return and what was removed from the graph as
   unused, the code that either generation engine prints takes, for the first root, the action that
   the execution engine takes: none of the ways to number vertices and programs mixes two of them
   up. *)
THEOREM GeneratedCodeAlwaysAgrees == Spec => []GeneratedCodeAgrees
<1>1. Init => Inv /\ PolicyInv
  BY InitInv, InitPolicyInv
<1>2. Inv /\ PolicyInv /\ [Next]_vars => (Inv /\ PolicyInv)'
  BY InvStep, PolicyStep
<1>3. Inv /\ PolicyInv => GeneratedCodeAgrees
  BY CodeOfInv
<1> QED BY <1>1, <1>2, <1>3, PTL DEF Spec

-----------------------------------------------------------------------------
(* Executions start at roots, and a vertex that is one stays one: edges are only removed. *)
IsEntered(v) == Arriving(graph, v) # {}

RootInv ==
    /\ \A i \in DOMAIN since : ~ IsEntered(Head(since[i].trace))
    /\ \A t \in Engine : Running(t) => ~ IsEntered(Head(engine[t].visited))

LEMMA RootFacts ==
    ASSUME NEW g, Proper(g)
    PROVE  ToSet(RootVertices(g)) = {v \in ToSet(g.vertices) : Arriving(g, v) = {}}
<1>1. ASSUME NEW v PROVE IncomingEdges(g, v) = <<>> <=> Arriving(g, v) = {}
  <2>1. IncomingEdges(g, v) \in Seq(ToSet(g.edges))
    BY GraphFacts, SelectedElements DEF IncomingEdges
  <2>2. ToSet(IncomingEdges(g, v)) = Arriving(g, v)
    BY ListFacts
  <2> DEFINE in == IncomingEdges(g, v)
  <2>3. Len(in) \in Nat /\ DOMAIN in = 1 .. Len(in) /\ (in = <<>> <=> Len(in) = 0)
    BY <2>1, LenProperties, EmptySeq
  <2>4. ToSet(in) = {} <=> Len(in) = 0
    <3> HIDE DEF in
    <3>1. Len(in) = 0 <=> 1 .. Len(in) = {}
      BY <2>3
    <3> QED BY <2>3, <3>1 DEF ToSet
  <2> QED BY <2>2, <2>3, <2>4
<1> DEFINE S == {v \in ToSet(g.vertices) : IncomingEdges(g, v) = <<>>}
<1>2. ToSet(RootVertices(g)) = ToSet(g.vertices) \cap S
  <2>1. g.vertices \in Seq(ToSet(g.vertices))
    BY GraphFacts
  <2> QED BY <2>1, SelectedElements DEF RootVertices
<1> QED BY <1>1, <1>2

(* A step of engine t: where its execution started, and what has ended. *)
LEMMA EngineKeepsRoots ==
    ASSUME RootInv, NEW t \in Engine, StepOf(t),
           Running(t)' => ~ IsEntered(Head(engine'[t].visited)),
           \A i \in DOMAIN since' : \/ i \in DOMAIN since /\ since'[i] = since[i]
                                    \/ ~ IsEntered(Head(since'[i].trace))
    PROVE  RootInv'
<1>1. \A v : IsEntered(v)' <=> IsEntered(v)
  BY DEF StepOf, IsEntered
<1>2. \A u \in Engine : (Running(u) => ~ IsEntered(Head(engine[u].visited)))'
  <2>1. ASSUME NEW u \in Engine, u # t, Running(u)' PROVE ~ IsEntered(Head(engine'[u].visited))
    <3>1. engine'[u] = engine[u]
      BY <2>1 DEF StepOf
    <3> QED BY <2>1, <3>1 DEF RootInv, Running
  <2> QED BY <1>1, <2>1
<1>3. \A i \in DOMAIN since' : (~ IsEntered(Head(since[i].trace)))'
  BY <1>1 DEF RootInv
<1> QED BY <1>2, <1>3 DEF RootInv

LEMMA RootStep == Inv /\ RootInv /\ [Next]_vars => RootInv'
<1> SUFFICES ASSUME Inv, RootInv, [Next]_vars PROVE RootInv'
  OBVIOUS
<1>0. engine \in [Engine -> EngineType] /\ Proper(graph)
  BY DEF Inv, EngineInv
<1>1. ASSUME NEW t \in Engine, NEW root \in ToSet(RootVertices(graph)), NEW d \in Data,
             ExecuteFromRoot(t, root, d)
      PROVE  RootInv'
  <2>1. engine'[t].visited = <<root>> /\ StepOf(t) /\ since' = since
    BY <1>0, <1>1 DEF ExecuteFromRoot, StepOf
  <2>2. ~ IsEntered(root)
    BY <1>0, RootFacts DEF IsEntered
  <2>3. Head(<<root>>) = root
    OBVIOUS
  <2> QED BY <2>1, <2>2, <2>3, EngineKeepsRoots
<1>2. ASSUME NEW t \in Engine, EvaluateTeam(t) PROVE RootInv'
  <2>1. engine'[t] = [engine[t] EXCEPT !.next = 1, !.best = 1] /\ StepOf(t) /\ since' = since /\ Running(t)
    BY <1>0, <1>2 DEF EvaluateTeam, StepOf, InTeam
  <2>2. engine'[t].visited = engine[t].visited
    BY <1>0, <2>1 DEF EngineType
  <2> QED BY <2>1, <2>2, EngineKeepsRoots DEF RootInv
<1>3. ASSUME NEW t \in Engine, EvaluateEdge(t) PROVE RootInv'
  <2>1. StepOf(t) /\ since' = since /\ Running(t)
    BY <1>0, <1>3 DEF EvaluateEdge, StepOf, InTeam
  <2>2. engine'[t].visited = engine[t].visited
    BY <1>0, <1>3 DEF EvaluateEdge, EngineType
  <2> QED BY <2>1, <2>2, EngineKeepsRoots DEF RootInv
<1>4. ASSUME NEW t \in Engine, FollowEdge(t) PROVE RootInv'
  <2> DEFINE q == engine[t].visited
             x == Out(t)[engine[t].best].dst
  <2>1. StepOf(t) /\ since' = since /\ Running(t)
    BY <1>0, <1>4 DEF FollowEdge, StepOf, InTeam
  <2>2. engine'[t].visited = Append(q, x)
    BY <1>0, <1>4 DEF FollowEdge, EngineType
  <2>3. q \in Seq(Vertices) /\ Len(q) \in Nat \ {0} /\ Head(q) = q[1] /\ q # <<>>
    BY <2>1, EngineFacts DEF Running
  <2> HIDE DEF q, x
  <2>4. Head(Append(q, x)) = q[1]
    <3> DEFINE T == Vertices \cup {x}
    <3>1. q \in Seq(T) /\ x \in T
      <4>1. q \in [1 .. Len(q) -> Vertices]
        BY <2>3, LenProperties
      <4>2. q \in [1 .. Len(q) -> T] /\ Len(q) \in Nat
        BY <2>3, <4>1
      <4> QED BY <4>2
    <3> HIDE DEF T
    <3>2. Append(q, x) \in Seq(T) /\ \A i \in 1 .. Len(q) : Append(q, x)[i] = q[i]
      BY <3>1, AppendProperties
    <3>3. Append(q, x) # <<>>
      BY <3>1, AppendProperties
    <3>4. 1 \in 1 .. Len(q)
      BY <2>3
    <3> QED BY <3>2, <3>3, <3>4
  <2>5. ~ IsEntered(Head(q))
    BY <2>1 DEF RootInv, q
  <2> QED BY <2>1, <2>2, <2>3, <2>4, <2>5, EngineKeepsRoots
<1>5. ASSUME NEW t \in Engine, ReachAction(t) PROVE RootInv'
  <2> DEFINE x == [data |-> engine[t].data, trace |-> engine[t].visited]
             m == Len(since)
             T == ToSet(since) \cup {x}
  <2>1. StepOf(t) /\ engine'[t] = Idle /\ since' = Append(since, x) /\ Running(t)
    BY <1>0, <1>5 DEF ReachAction, StepOf
  <2>2. ~ Running(t)'
    BY <2>1, IdleFacts DEF Running
  <2>3. since \in Seq(T) /\ x \in T
    <3>1. since \in Seq(ToSet(since))
      BY DEF Inv, CounterType
    <3> HIDE DEF x
    <3>2. since \in [1 .. m -> ToSet(since)] /\ m \in Nat
      BY <3>1, LenProperties
    <3>3. since \in [1 .. m -> T]
      BY <3>2
    <3> QED BY <3>2, <3>3
  <2>4. x.trace = engine[t].visited
    OBVIOUS
  <2> HIDE DEF x, T
  <2>5. /\ m \in Nat /\ DOMAIN since = 1 .. m /\ DOMAIN since' = 1 .. (m + 1)
        /\ \A i \in 1 .. m : since'[i] = since[i]
        /\ since'[m + 1] = x
    BY <2>1, <2>3, AppendProperties, LenProperties
  <2>6. \A i \in 1 .. (m + 1) : i \in 1 .. m \/ i = m + 1
    BY <2>5
  <2>7. ~ IsEntered(Head(x.trace))
    BY <2>1, <2>4 DEF RootInv
  <2> HIDE DEF m
  <2> QED BY <2>1, <2>2, <2>5, <2>6, <2>7, EngineKeepsRoots
<1>6. CASE ResetCounters
  <2>1. graph' = graph /\ engine' = engine /\ AllIdle /\ DOMAIN since' = {}
    BY <1>6 DEF ResetCounters
  <2> QED BY <2>1, IdleFacts DEF AllIdle, Running, RootInv
<1>7. CASE ClearUnused
  <2>1. AllIdle /\ engine' = engine /\ since' = since /\ ToSet(graph'.edges) \subseteq ToSet(graph.edges)
    BY <1>7, ClearedGraph DEF Edges
  <2>2. \A v : IsEntered(v)' => IsEntered(v)
    BY <2>1 DEF IsEntered, Arriving
  <2> QED BY <2>1, <2>2, IdleFacts DEF AllIdle, Running, RootInv
<1>8. CASE UNCHANGED vars
  <2>1. UNCHANGED <<graph, visits, edgeVisits, traversals, engine, since>>
    BY <1>8 DEF vars
  <2> QED BY <2>1 DEF RootInv, IsEntered, Running
<1> QED BY <1>1, <1>2, <1>3, <1>4, <1>5, <1>6, <1>7, <1>8 DEF Next

LEMMA InitRootInv == Init => RootInv
<1> SUFFICES ASSUME Init PROVE RootInv
  OBVIOUS
<1>1. \A t \in Engine : ~ Running(t)
  BY IdleFacts DEF Init, Running
<1>2. DOMAIN since = {}
  BY DEF Init
<1> QED BY <1>1, <1>2 DEF RootInv

Distinct(q) == \A i, j \in DOMAIN q : q[i] = q[j] => i = j

LEMMA ConcatDistinct ==
    ASSUME NEW E, NEW s \in Seq(E), NEW t \in Seq(E), Distinct(s), Distinct(t), ToSet(s) \cap ToSet(t) = {}
    PROVE  Distinct(s \o t)
<1> DEFINE u == s \o t
           m == Len(s)
           n == Len(t)
<1>1. /\ m \in Nat /\ n \in Nat /\ DOMAIN s = 1 .. m /\ DOMAIN t = 1 .. n /\ DOMAIN u = 1 .. m + n
      /\ \A i \in 1 .. m + n : u[i] = IF i <= m THEN s[i] ELSE t[i - m]
  BY ConcatProperties, LenProperties
<1> HIDE DEF u, m, n
<1>2. ASSUME NEW i \in 1 .. m + n
      PROVE  \/ i \in 1 .. m /\ u[i] = s[i] /\ u[i] \in ToSet(s)
             \/ ~ (i <= m) /\ i - m \in 1 .. n /\ u[i] = t[i - m] /\ u[i] \in ToSet(t)
  <2>1. CASE i <= m
    <3>1. i \in 1 .. m
      BY <1>1, <2>1
    <3> QED BY <1>1, <2>1, <3>1 DEF ToSet
  <2>2. CASE ~ (i <= m)
    <3>1. i - m \in 1 .. n
      BY <1>1, <2>2
    <3> QED BY <1>1, <2>2, <3>1 DEF ToSet
  <2> QED BY <2>1, <2>2
<1>3. ASSUME NEW i \in 1 .. m + n, NEW j \in 1 .. m + n, u[i] = u[j] PROVE i = j
  <2>1. CASE i \in 1 .. m /\ u[i] = s[i] /\ u[i] \in ToSet(s)
    <3>1. j \in 1 .. m /\ u[j] = s[j]
      BY <1>2, <1>3, <2>1
    <3> QED BY <1>1, <1>3, <2>1, <3>1 DEF Distinct
  <2>2. CASE ~ (i <= m) /\ i - m \in 1 .. n /\ u[i] = t[i - m] /\ u[i] \in ToSet(t)
    <3>1. j - m \in 1 .. n /\ u[j] = t[j - m]
      BY <1>2, <1>3, <2>2
    <3>2. i - m = j - m
      BY <1>1, <1>3, <2>2, <3>1 DEF Distinct
    <3> QED BY <1>1, <3>2
  <2> QED BY <1>2, <2>1, <2>2
<1> QED BY <1>1, <1>3 DEF Distinct, u

ElementsOf(seqs, n) == UNION {ToSet(seqs[i]) : i \in 1 .. n}

(* Sequences with distinct elements, none in two of them *)
Apart(seqs, n) ==
    /\ \A i \in 1 .. n : Distinct(seqs[i])
    /\ \A i, j \in 1 .. n : i # j => ToSet(seqs[i]) \cap ToSet(seqs[j]) = {}

(* The elements of a flattened sequence: each is there once if it is in one sequence, and once in
   that one. *)
LEMMA FlattenDistinct ==
    ASSUME NEW E, NEW n \in Nat \ {0}, NEW seqs \in [1 .. n -> Seq(E)], Apart(seqs, n)
    PROVE  /\ FlattenSeq(seqs) \in Seq(E) /\ Distinct(FlattenSeq(seqs))
           /\ ToSet(FlattenSeq(seqs)) = ElementsOf(seqs, n)
<1>0. PICK f : IsFlattening(f, n, seqs)
  BY FlattenScan
<1>1. FlattenSeq(seqs) = f[n] /\ \A i \in 1 .. n : f[i] = IF i = 1 THEN seqs[i] ELSE f[i - 1] \o seqs[i]
  BY <1>0 DEF IsFlattening
<1> DEFINE Upto(k) == UNION {ToSet(seqs[i]) : i \in 1 .. k}
           Good(k) == f[k + 1] \in Seq(E) /\ Distinct(f[k + 1]) /\ ToSet(f[k + 1]) = Upto(k + 1)
           m == n - 1
           B == {k \in 0 .. m : ~ Good(k)}
<1>2. m \in Nat /\ m + 1 = n /\ \A k \in 0 .. m : k + 1 \in 1 .. n
  OBVIOUS
<1>3. 0 \notin B
  <2>1. f[1] = seqs[1] /\ 0 + 1 = 1
    BY <1>1
  <2>2. Upto(1) = ToSet(seqs[1])
    <3>1. 1 .. 1 = {1}
      OBVIOUS
    <3> QED BY <3>1
  <2>3. seqs[1] \in Seq(E) /\ Distinct(seqs[1])
    BY DEF Apart
  <2> HIDE DEF Upto
  <2> QED BY <2>1, <2>2, <2>3
<1>4. ASSUME NEW k \in 1 .. m, Good(k - 1) PROVE Good(k)
  <2>1. k + 1 \in 1 .. n /\ k + 1 # 1 /\ (k + 1) - 1 = k /\ (k - 1) + 1 = k
    OBVIOUS
  <2>2. f[k + 1] = f[k] \o seqs[k + 1] /\ seqs[k + 1] \in Seq(E) /\ Distinct(seqs[k + 1])
    BY <1>1, <2>1 DEF Apart
  <2>3. f[k] \in Seq(E) /\ Distinct(f[k]) /\ ToSet(f[k]) = Upto(k)
    BY <1>4, <2>1
  <2>4. Upto(k) \cap ToSet(seqs[k + 1]) = {}
    <3>1. \A i \in 1 .. k : i \in 1 .. n /\ i # k + 1
      OBVIOUS
    <3> QED BY <2>1, <3>1 DEF Apart
  <2>5. Upto(k + 1) = Upto(k) \cup ToSet(seqs[k + 1])
    <3>1. 1 .. k + 1 = 1 .. k \cup {k + 1}
      OBVIOUS
    <3> QED BY <3>1
  <2> HIDE DEF Upto
  <2>6. f[k + 1] \in Seq(E) /\ ToSet(f[k + 1]) = ToSet(f[k]) \cup ToSet(seqs[k + 1])
    BY <2>2, <2>3, ConcatElements, ConcatProperties
  <2>7. Distinct(f[k + 1])
    BY <2>2, <2>3, <2>4, ConcatDistinct
  <2> QED BY <2>3, <2>5, <2>6, <2>7
<1>5. B = {}
  <2>1. \A k \in 1 .. m : k \in B => k - 1 \in B
    <3>1. \A k \in 1 .. m : k - 1 \in 0 .. m
      OBVIOUS
    <3> HIDE DEF Good, m
    <3> QED BY <1>4, <3>1
  <2>2. B \in SUBSET (0 .. m)
    OBVIOUS
  <2> HIDE DEF B, m
  <2> QED BY <1>2, <1>3, <2>1, <2>2, NoFirstFailure
<1>6. Good(m)
  <2> HIDE DEF Good
  <2>1. m \in 0 .. m
    BY <1>2
  <2> QED BY <1>5, <2>1
<1> HIDE DEF m
<1> QED BY <1>1, <1>2, <1>6 DEF ElementsOf

-----------------------------------------------------------------------------
(* The totals of ExecutionStats *)

(* The trace of an execution goes through distinct vertices, teams up to the action at its end. *)
LEMMA TraceFacts ==
    ASSUME Inv, PolicyInv, NEW i \in DOMAIN since, NEW q, q = since[i].trace
    PROVE  /\ q \in Seq(ToSet(graph.vertices)) /\ Len(q) \in Nat \ {0} /\ DOMAIN q = 1 .. Len(q)
           /\ Head(q) = q[1]
           /\ \A k, l \in 1 .. Len(q) : q[k] = q[l] => k = l
           /\ \A k \in 1 .. Len(q) : q[k] \in Vertices /\ (IsTeam(graph, q[k]) <=> k # Len(q))
           /\ IsWalk(graph, q)
<1> DEFINE n == Len(q)
<1>1. /\ q \in Seq(Vertices) /\ q # <<>> /\ IsAction(graph, Last(q))
      /\ Followed(graph, traversals, q, since[i].data) /\ Proper(graph)
  BY DEF PolicyInv, EndedAsWinners, Inv
<1>2. n \in Nat \ {0} /\ DOMAIN q = 1 .. n /\ Head(q) = q[1] /\ Last(q) = q[n]
  BY <1>1, LenProperties, EmptySeq DEF Last
<1>3. \A k \in 1 .. n : q[k] \in Vertices
  BY <1>1, <1>2, ElementOfSeq
<1>4. IsWalk(graph, q)
  BY <1>1 DEF Followed, IsWalk
<1>5. q \in Seq(ToSet(graph.vertices))
  BY <1>1 DEF Vertices
<1>6. \A k, l \in 1 .. n : q[k] = q[l] => k = l
  BY <1>1, <1>4, <1>5, WalkFacts
<1>7. ASSUME NEW k \in 1 .. n PROVE IsTeam(graph, q[k]) <=> k # n
  <2>1. CASE k = n
    BY <1>1, <1>2, <2>1 DEF IsAction, IsTeam
  <2>2. CASE k # n
    <3>1. k \in 1 .. n - 1
      BY <1>2, <2>2
    <3>2. PICK e \in ToSet(graph.edges) : e.src = q[k]
      BY <1>4, <3>1 DEF IsWalk
    <3> QED BY <1>1, <2>2, <3>2, GraphFacts
  <2> QED BY <2>1, <2>2
<1> QED BY <1>1, <1>2, <1>3, <1>4, <1>5, <1>6, <1>7

(* The edges that are evaluated along a trace are the outgoing edges of its teams: none leads back. *)
LEMMA EvaluatedAre ==
    ASSUME NEW g, Proper(g), NEW q \in Seq(ToSet(g.vertices)), IsWalk(g, q), NEW n, n = Len(q) - 1,
           n \in Nat \ {0}, \A k, l \in 1 .. n + 1 : q[k] = q[l] => k = l, ~ IsTeam(g, q[n + 1])
    PROVE  /\ EvaluatedEdges(g, q) \in Seq(ToSet(g.edges)) /\ Distinct(EvaluatedEdges(g, q))
           /\ ToSet(EvaluatedEdges(g, q)) = {e \in ToSet(g.edges) : e.src \in ToSet(q)}
<1> DEFINE E == ToSet(g.edges)
           ahead(i) == {e \in E : e.dst \notin {q[j] : j \in 1 .. i}}
           seqs == [i \in 1 .. n |-> SelectIn(OutgoingEdges(g, q[i]), ahead(i))]
<1>1. Len(q) = n + 1 /\ DOMAIN q = 1 .. n + 1 /\ \A k \in 1 .. n + 1 : q[k] \in ToSet(g.vertices)
  BY LenProperties, ElementOfSeq
<1>2. PICK rank \in [ToSet(g.vertices) -> Nat] : \A e \in E : rank[e.src] < rank[e.dst]
  BY DEF Proper, Ranked
<1>3. \A i \in 1 .. n : rank[q[i]] < rank[q[i + 1]]
  BY <1>1, <1>2 DEF IsWalk
<1>4. ASSUME NEW i \in 1 .. n, NEW j \in 1 .. i PROVE rank[q[j]] <= rank[q[i]]
  <2> DEFINE B == {k \in 0 .. i - j : ~ (rank[q[j]] <= rank[q[j + k]])}
  <2>1. B = {}
    <3>1. B \in SUBSET (0 .. i - j) /\ i - j \in Nat
      OBVIOUS
    <3>2. 0 \notin B
      <4>1. q[j + 0] = q[j] /\ rank[q[j]] \in Nat
        BY <1>1
      <4> QED BY <4>1
    <3>3. ASSUME NEW k \in 1 .. i - j, k \in B PROVE k - 1 \in B
      <4>1. k - 1 \in 0 .. i - j /\ j + (k - 1) \in 1 .. n /\ (j + (k - 1)) + 1 = j + k
        OBVIOUS
      <4>2. rank[q[j + (k - 1)]] < rank[q[j + k]]
        BY <1>3, <4>1
      <4>3. /\ rank[q[j]] \in Nat /\ rank[q[j + k]] \in Nat /\ rank[q[j + (k - 1)]] \in Nat
        BY <1>1, <4>1
      <4>4. ~ (rank[q[j]] <= rank[q[j + (k - 1)]])
        BY <3>3, <4>2, <4>3
      <4> QED BY <4>1, <4>4
    <3> HIDE DEF B
    <3> QED BY <3>1, <3>2, <3>3, NoFirstFailure
  <2>2. i - j \in 0 .. i - j /\ j + (i - j) = i
    OBVIOUS
  <2> QED BY <2>1, <2>2
<1>5. ASSUME NEW i \in 1 .. n
      PROVE  /\ seqs[i] \in Seq(E) /\ Distinct(seqs[i]) /\ ToSet(seqs[i]) = Leaving(g, q[i])
  <2> DEFINE out == OutgoingEdges(g, q[i])
  <2>1. /\ out \in Seq(E) /\ ToSet(out) = Leaving(g, q[i]) /\ \A k, l \in DOMAIN out : out[k] = out[l] => k = l
    BY OutFacts, ListFacts
  <2> HIDE DEF out, E, ahead
  <2>2. /\ SelectIn(out, ahead(i)) \in Seq(E) /\ Distinct(SelectIn(out, ahead(i)))
        /\ ToSet(SelectIn(out, ahead(i))) = Leaving(g, q[i]) \cap ahead(i)
    <3>1. /\ SelectIn(out, ahead(i)) \in Seq(E) /\ ToSet(SelectIn(out, ahead(i))) = ToSet(out) \cap ahead(i)
          /\ \A k, l \in DOMAIN SelectIn(out, ahead(i)) :
                 SelectIn(out, ahead(i))[k] = SelectIn(out, ahead(i))[l] => k = l
      BY <2>1, SelectedElements
    <3> QED BY <2>1, <3>1 DEF Distinct
  <2>3. seqs[i] = SelectIn(out, ahead(i))
    BY DEF out
  <2>4. Leaving(g, q[i]) \subseteq ahead(i)
    <3> SUFFICES ASSUME NEW e \in Leaving(g, q[i]), NEW j \in 1 .. i PROVE e.dst # q[j]
      BY DEF Leaving, E, ahead
    <3>1. rank[q[i]] < rank[e.dst] /\ e.dst \in ToSet(g.vertices)
      BY <1>2, GraphFacts DEF Leaving, E
    <3>2. rank[q[j]] <= rank[q[i]] /\ j \in 1 .. n + 1 /\ i \in 1 .. n + 1
      BY <1>4
    <3>3. rank[q[j]] \in Nat /\ rank[q[i]] \in Nat /\ rank[e.dst] \in Nat
      BY <1>1, <3>1, <3>2
    <3> QED BY <3>1, <3>2, <3>3
  <2> QED BY <2>2, <2>3, <2>4
<1>6. EvaluatedEdges(g, q) = FlattenSeq(seqs)
  BY DEF EvaluatedEdges
<1>7. seqs \in [1 .. n -> Seq(E)]
  BY <1>5
<1>8. ASSUME NEW i \in 1 .. n, NEW j \in 1 .. n, i # j PROVE ToSet(seqs[i]) \cap ToSet(seqs[j]) = {}
  <2>1. i \in 1 .. n + 1 /\ j \in 1 .. n + 1
    OBVIOUS
  <2>2. q[i] # q[j]
    BY <1>8, <2>1
  <2> HIDE DEF seqs
  <2>3. ToSet(seqs[i]) = Leaving(g, q[i]) /\ ToSet(seqs[j]) = Leaving(g, q[j])
    BY <1>5
  <2> QED BY <2>2, <2>3 DEF Leaving
<1> HIDE DEF seqs, E
<1>9. FlattenSeq(seqs) \in Seq(E) /\ Distinct(FlattenSeq(seqs))
      /\ ToSet(FlattenSeq(seqs)) = ElementsOf(seqs, n)
  <2>1. \A i \in 1 .. n : Distinct(seqs[i])
    BY <1>5
  <2>2. \A i, j \in 1 .. n : i # j => ToSet(seqs[i]) \cap ToSet(seqs[j]) = {}
    BY <1>8
  <2>3. Apart(seqs, n)
    BY <2>1, <2>2 DEF Apart
  <2> QED BY <1>7, <2>3, FlattenDistinct
<1>10. ElementsOf(seqs, n) = {e \in E : e.src \in ToSet(q)}
  <2>1. ASSUME NEW e \in E, e.src \in ToSet(q) PROVE \E i \in 1 .. n : e \in ToSet(seqs[i])
    <3>1. PICK i \in 1 .. n + 1 : e.src = q[i]
      BY <1>1, <2>1 DEF ToSet
    <3>2. IsTeam(g, e.src)
      BY GraphFacts DEF E
    <3>3. i \in 1 .. n
      BY <3>1, <3>2
    <3> QED BY <1>5, <3>1, <3>3 DEF Leaving, E
  <2>2. ASSUME NEW i \in 1 .. n, NEW e \in ToSet(seqs[i]) PROVE e \in E /\ e.src \in ToSet(q)
    <3>1. e \in E /\ e.src = q[i]
      BY <1>5, <2>2 DEF Leaving, E
    <3>2. i \in DOMAIN q
      BY <1>1
    <3> QED BY <3>1, <3>2 DEF ToSet
  <2> QED BY <2>1, <2>2 DEF ElementsOf
<1> QED BY <1>6, <1>9, <1>10 DEF E

LEMMA DistinctLength ==
    ASSUME NEW E, NEW s \in Seq(E), Distinct(s)
    PROVE  Cardinality(ToSet(s)) = Len(s) /\ Len(s) \in Nat
<1>1. Len(s) \in Nat /\ DOMAIN s = 1 .. Len(s) /\ s \in [1 .. Len(s) -> E]
  BY LenProperties
<1>2. s \in Bijection(1 .. Len(s), ToSet(s))
  <2>1. s \in [1 .. Len(s) -> ToSet(s)] /\ \A t \in ToSet(s) : \E i \in 1 .. Len(s) : s[i] = t
    BY <1>1 DEF ToSet
  <2>2. \A i, j \in 1 .. Len(s) : s[i] = s[j] => i = j
    BY <1>1 DEF Distinct
  <2> QED BY <2>1, <2>2 DEF Bijection, Injection, Surjection, IsInjective
<1>3. IsFiniteSet(1 .. Len(s)) /\ Cardinality(1 .. Len(s)) = Len(s)
  BY <1>1, FS_Interval
<1> QED BY <1>1, <1>2, <1>3, FS_Bijection DEF ExistsBijection

(* The sums of the model, as sums of functions *)
LEMMA LinesOfEdges ==
    ASSUME NEW es
    PROVE  SumOver(DOMAIN es, LAMBDA j : NbLines[es[j].prog])
               = SumFunctionOnSet([j \in DOMAIN es |-> NbLines[es[j].prog]], DOMAIN es)
<1> DEFINE S == DOMAIN es
           h == [j \in S |-> NbLines[es[j].prog]]
           A(g) == [s \in SUBSET S |-> IF s = {} THEN 0
                        ELSE NbLines[es[CHOOSE x \in s : TRUE].prog] + g[s \ {CHOOSE x \in s : TRUE}]]
           B(g) == [s \in SUBSET S |-> IF s = {} THEN 0
                        ELSE h[CHOOSE x \in s : TRUE] + g[s \ {CHOOSE x \in s : TRUE}]]
           a == CHOOSE g : g = A(g)
           b == CHOOSE g : g = B(g)
<1>1. ASSUME NEW g PROVE A(g) = B(g)
  <2>1. \A s \in SUBSET S : s # {} => h[CHOOSE x \in s : TRUE] = NbLines[es[CHOOSE x \in s : TRUE].prog]
    OBVIOUS
  <2> HIDE DEF h
  <2> QED BY <2>1
<1>2. SumOver(S, LAMBDA j : NbLines[es[j].prog]) = a[S]
  BY DEF SumOver, MapThenSumSet, MapThenFoldSet
<1>3. SumFunctionOnSet(h, S) = b[S]
  BY DEF SumFunctionOnSet, FoldFunctionOnSet, MapThenFoldSet
<1>4. a = b
  <2> HIDE DEF A, B
  <2> QED BY <1>1
<1> QED BY <1>2, <1>3, <1>4

LEMMA LinesOfCounters ==
    ASSUME NEW S, NEW U, S \subseteq U, NEW counters
    PROVE  SumOver(S, LAMBDA e : counters[e.id] * NbLines[e.prog])
               = SumFunctionOnSet([e \in U |-> counters[e.id] * NbLines[e.prog]], S)
<1> DEFINE h == [e \in U |-> counters[e.id] * NbLines[e.prog]]
           A(g) == [s \in SUBSET S |-> IF s = {} THEN 0
                        ELSE counters[(CHOOSE x \in s : TRUE).id] * NbLines[(CHOOSE x \in s : TRUE).prog]
                                 + g[s \ {CHOOSE x \in s : TRUE}]]
           B(g) == [s \in SUBSET S |-> IF s = {} THEN 0
                        ELSE h[CHOOSE x \in s : TRUE] + g[s \ {CHOOSE x \in s : TRUE}]]
           a == CHOOSE g : g = A(g)
           b == CHOOSE g : g = B(g)
<1>1. ASSUME NEW g PROVE A(g) = B(g)
  <2>1. \A s \in SUBSET S : s # {} =>
            h[CHOOSE x \in s : TRUE]
                = counters[(CHOOSE x \in s : TRUE).id] * NbLines[(CHOOSE x \in s : TRUE).prog]
    OBVIOUS
  <2> HIDE DEF h
  <2> QED BY <2>1
<1>2. SumOver(S, LAMBDA e : counters[e.id] * NbLines[e.prog]) = a[S]
  BY DEF SumOver, MapThenSumSet, MapThenFoldSet
<1>3. SumFunctionOnSet(h, S) = b[S]
  BY DEF SumFunctionOnSet, FoldFunctionOnSet, MapThenFoldSet
<1>4. a = b
  <2> HIDE DEF A, B
  <2> QED BY <1>1
<1> QED BY <1>2, <1>3, <1>4

(* The statistics of the traces of the executions that ended *)
StatsOf(i) == TraceStats(graph, since[i].trace)

LEMMA StatsAreSums ==
    /\ SumOver(DOMAIN since, LAMBDA i : TraceStats(graph, since[i].trace).teams)
           = SumFunctionOnSet([i \in DOMAIN since |-> StatsOf(i).teams], DOMAIN since)
    /\ SumOver(DOMAIN since, LAMBDA i : TraceStats(graph, since[i].trace).programs)
           = SumFunctionOnSet([i \in DOMAIN since |-> StatsOf(i).programs], DOMAIN since)
    /\ SumOver(DOMAIN since, LAMBDA i : TraceStats(graph, since[i].trace).lines)
           = SumFunctionOnSet([i \in DOMAIN since |-> StatsOf(i).lines], DOMAIN since)
<1> DEFINE S == DOMAIN since
           A(x, g) == [s \in SUBSET S |-> IF s = {} THEN 0 ELSE x[CHOOSE y \in s : TRUE] + g[s \ {CHOOSE y \in s : TRUE}]]
           T(g) == [s \in SUBSET S |-> IF s = {} THEN 0
                        ELSE StatsOf(CHOOSE y \in s : TRUE).teams + g[s \ {CHOOSE y \in s : TRUE}]]
           P(g) == [s \in SUBSET S |-> IF s = {} THEN 0
                        ELSE StatsOf(CHOOSE y \in s : TRUE).programs + g[s \ {CHOOSE y \in s : TRUE}]]
           L(g) == [s \in SUBSET S |-> IF s = {} THEN 0
                        ELSE StatsOf(CHOOSE y \in s : TRUE).lines + g[s \ {CHOOSE y \in s : TRUE}]]
           teams == [i \in S |-> StatsOf(i).teams]
           programs == [i \in S |-> StatsOf(i).programs]
           lines == [i \in S |-> StatsOf(i).lines]
<1>1. ASSUME NEW x PROVE SumFunctionOnSet(x, S) = (CHOOSE g : g = A(x, g))[S]
  BY DEF SumFunctionOnSet, FoldFunctionOnSet, MapThenFoldSet
<1>2. /\ SumOver(S, LAMBDA i : TraceStats(graph, since[i].trace).teams) = (CHOOSE g : g = T(g))[S]
      /\ SumOver(S, LAMBDA i : TraceStats(graph, since[i].trace).programs) = (CHOOSE g : g = P(g))[S]
      /\ SumOver(S, LAMBDA i : TraceStats(graph, since[i].trace).lines) = (CHOOSE g : g = L(g))[S]
  BY DEF SumOver, MapThenSumSet, MapThenFoldSet, StatsOf
<1>3. \A s \in SUBSET S : s # {} =>
          /\ teams[CHOOSE y \in s : TRUE] = StatsOf(CHOOSE y \in s : TRUE).teams
          /\ programs[CHOOSE y \in s : TRUE] = StatsOf(CHOOSE y \in s : TRUE).programs
          /\ lines[CHOOSE y \in s : TRUE] = StatsOf(CHOOSE y \in s : TRUE).lines
  OBVIOUS
<1> HIDE DEF teams, programs, lines
<1>4. \A g : A(teams, g) = T(g) /\ A(programs, g) = P(g) /\ A(lines, g) = L(g)
  BY <1>3
<1> HIDE DEF A, T, P, L
<1>5. /\ (CHOOSE g : g = A(teams, g)) = (CHOOSE g : g = T(g))
      /\ (CHOOSE g : g = A(programs, g)) = (CHOOSE g : g = P(g))
      /\ (CHOOSE g : g = A(lines, g)) = (CHOOSE g : g = L(g))
  BY <1>4
<1> HIDE DEF S
<1>6. /\ SumOver(S, LAMBDA i : TraceStats(graph, since[i].trace).teams) = SumFunctionOnSet(teams, S)
      /\ SumOver(S, LAMBDA i : TraceStats(graph, since[i].trace).programs) = SumFunctionOnSet(programs, S)
      /\ SumOver(S, LAMBDA i : TraceStats(graph, since[i].trace).lines) = SumFunctionOnSet(lines, S)
  BY <1>1, <1>2, <1>5
<1> QED BY <1>6 DEF S, teams, programs, lines

(* Where the sum over the edges of a use of each visit of their source goes. *)
UsedBy(i) == {e \in Edges : e.src \in ToSet(since[i].trace)}

LEMMA EndedIsFinite ==
    ASSUME Inv
    PROVE  /\ IsFiniteSet(DOMAIN since) /\ IsFiniteSet(Edges) /\ IsFiniteSet(Vertices)
           /\ Cardinality(DOMAIN since) = Len(since)
<1>1. since \in Seq(ToSet(since)) /\ Proper(graph)
  BY DEF Inv, CounterType
<1> DEFINE m == Len(since)
<1>2. DOMAIN since = 1 .. m /\ m \in Nat
  BY <1>1, LenProperties
<1> HIDE DEF m
<1>3. IsFiniteSet(1 .. m) /\ Cardinality(1 .. m) = m
  BY <1>2, FS_Interval
<1> QED BY <1>1, <1>2, <1>3, GraphFacts DEF Edges, Vertices, m

LEMMA UsesOfEdges ==
    ASSUME Inv, AllIdle, NEW w, NatOn(Edges, w), NEW f, \A e \in Edges : f[e] = w[e] * visits[e.src],
           NEW g, \A i \in DOMAIN since : g[i] = SumFunctionOnSet(w, UsedBy(i))
    PROVE  SumFunctionOnSet(f, Edges) = SumFunctionOnSet(g, DOMAIN since)
<1> DEFINE D == DOMAIN since
           a == [i \in D |-> UsedBy(i)]
<1>1. a \in [D -> SUBSET Edges] /\ IsFiniteSet(D)
  BY EndedIsFinite DEF UsedBy
<1>2. ASSUME NEW e \in Edges PROVE f[e] = w[e] * Times(D, a, e)
  <2>1. e.src \in Vertices
    BY GraphFacts DEF Inv, Edges, Vertices
  <2>2. {i \in D : e \in a[i]} = Ended(e.src)
    BY DEF UsedBy, Ended
  <2>3. Times(D, a, e) = visits[e.src]
    <3> HIDE DEF a, D
    <3> QED BY <2>1, <2>2, IdleCounters DEF Times
  <2> QED BY <2>3
<1>3. \A i \in D : g[i] = SumFunctionOnSet(w, a[i])
  OBVIOUS
<1> HIDE DEF a
<1> QED BY <1>1, <1>2, <1>3, DoubleCount

(* The statistics of one trace: its teams, and the edges that leave them. *)
LEMMA StatsOfTrace ==
    ASSUME Inv, PolicyInv, RootInv, CanBeAnalyzed(graph), NEW i \in DOMAIN since,
           NEW one, \A x \in Vertices \cup Edges : one[x] = 1,
           NEW lines, \A e \in Edges : lines[e] = NbLines[e.prog] /\ NbLines[e.prog] \in Nat
    PROVE  /\ StatsOf(i).teams
                = SumFunctionOnSet(one, {v \in Vertices : IsTeam(graph, v) /\ v \in ToSet(since[i].trace)})
           /\ StatsOf(i).programs = SumFunctionOnSet(one, UsedBy(i))
           /\ StatsOf(i).lines = SumFunctionOnSet(lines, UsedBy(i))
           /\ Head(since[i].trace) \in ToSet(RootVertices(graph))
<1>0. PICK q : q = since[i].trace
  OBVIOUS
<1>a. PICK m : m = Len(q)
  OBVIOUS
<1>1. /\ q \in Seq(ToSet(graph.vertices)) /\ m \in Nat \ {0} /\ DOMAIN q = 1 .. m
      /\ Head(q) = q[1] /\ IsWalk(graph, q)
      /\ \A k, l \in 1 .. m : q[k] = q[l] => k = l
      /\ \A k \in 1 .. m : q[k] \in Vertices /\ (IsTeam(graph, q[k]) <=> k # m)
  BY <1>0, <1>a, TraceFacts
<1>2. Proper(graph)
  BY DEF Inv
<1> DEFINE n == m - 1
<1>3. Head(q) \in ToSet(RootVertices(graph)) /\ IsTeam(graph, q[1])
  <2>1. 1 \in 1 .. m
    BY <1>1
  <2>2. q[1] \in ToSet(graph.vertices) /\ Arriving(graph, q[1]) = {}
    BY <1>0, <1>1, <2>1 DEF Vertices, RootInv, IsEntered
  <2> QED BY <1>1, <1>2, <2>2, RootFacts DEF CanBeAnalyzed
<1>4. n \in Nat \ {0} /\ n + 1 = m
  <2>1. 1 # m
    BY <1>1, <1>3
  <2> QED BY <1>1, <2>1
<1> DEFINE es == EvaluatedEdges(graph, q)
<1>5. /\ es \in Seq(ToSet(graph.edges)) /\ Distinct(es)
      /\ ToSet(es) = {e \in ToSet(graph.edges) : e.src \in ToSet(q)}
  <2>1. n + 1 \in 1 .. m
    BY <1>4
  <2>2. ~ IsTeam(graph, q[n + 1])
    BY <1>1, <1>4, <2>1
  <2>3. \A k, j \in 1 .. n + 1 : q[k] = q[j] => k = j
    BY <1>1, <1>4
  <2> HIDE DEF es
  <2>4. PICK l : l = n /\ l = Len(q) - 1
    BY <1>a
  <2>5. l \in Nat \ {0} /\ ~ IsTeam(graph, q[l + 1]) /\ \A j, k \in 1 .. l + 1 : q[j] = q[k] => j = k
    BY <1>4, <2>2, <2>3, <2>4
  <2> HIDE DEF n
  <2> QED BY <1>1, <1>2, <2>4, <2>5, EvaluatedAre DEF es
<1>6. StatsOf(i) = [teams |-> n, programs |-> Len(es), lines |-> SumOver(DOMAIN es, LAMBDA j : NbLines[es[j].prog])]
  BY <1>0, <1>a DEF StatsOf, TraceStats
<1>7. ToSet(es) = UsedBy(i) /\ UsedBy(i) \in SUBSET Edges
  BY <1>0, <1>5 DEF UsedBy, Edges
<1>8. IsFiniteSet(Edges) /\ IsFiniteSet(Vertices) /\ IsFiniteSet(UsedBy(i))
  BY <1>7, EndedIsFinite, FS_Subset
<1> HIDE DEF es, n
<1>9. Len(es) = SumFunctionOnSet(one, UsedBy(i))
  <2>1. Cardinality(ToSet(es)) = Len(es)
    BY <1>5, DistinctLength
  <2>2. SumFunctionOnSet(one, UsedBy(i)) = Cardinality(UsedBy(i))
    <3>1. \A x \in UsedBy(i) : one[x] = 1
      BY <1>7
    <3> QED BY <1>8, <3>1, SumOfOnes
  <2> QED BY <1>7, <2>1, <2>2
<1>10. SumOver(DOMAIN es, LAMBDA j : NbLines[es[j].prog]) = SumFunctionOnSet(lines, UsedBy(i))
  <2> DEFINE h == [j \in DOMAIN es |-> NbLines[es[j].prog]]
  <2>1. SumOver(DOMAIN es, LAMBDA j : NbLines[es[j].prog]) = SumFunctionOnSet(h, DOMAIN es)
    BY LinesOfEdges
  <2>2. \A j \in DOMAIN es : es[j] \in Edges
    BY <1>7 DEF ToSet
  <2>3. NatOn(DOMAIN es, h) /\ \A j \in DOMAIN es : h[j] = lines[es[j]]
    <3>1. IsFiniteSet(DOMAIN es)
      BY <1>5, FiniteList
    <3> QED BY <2>2, <3>1 DEF NatOn
  <2> HIDE DEF h
  <2>4. SumFunctionOnSet(h, DOMAIN es) = SumFunctionOnSet(lines, {es[j] : j \in DOMAIN es})
    <3>1. \A j, k \in DOMAIN es : es[j] = es[k] => j = k
      BY <1>5 DEF Distinct
    <3> QED BY <2>3, <3>1, SumElsewhere
  <2> QED BY <1>7, <2>1, <2>4 DEF ToSet
<1>11. n = SumFunctionOnSet(one, {v \in Vertices : IsTeam(graph, v) /\ v \in ToSet(q)})
  <2> DEFINE T == {v \in Vertices : IsTeam(graph, v) /\ v \in ToSet(q)}
             f == [k \in 1 .. n |-> 1]
  <2>1. \A k \in 1 .. n : k \in 1 .. m /\ k # m
    BY <1>1, <1>4
  <2>2. T = {q[k] : k \in 1 .. n}
    <3>1. ASSUME NEW v \in T PROVE \E k \in 1 .. n : v = q[k]
      <4>1. PICK k \in 1 .. m : v = q[k]
        BY <1>1 DEF ToSet
      <4>2. k \in 1 .. n
        BY <1>1, <1>4, <4>1
      <4> QED BY <4>1, <4>2
    <3>2. ASSUME NEW k \in 1 .. n PROVE q[k] \in T
      BY <1>1, <2>1 DEF ToSet
    <3> HIDE DEF T
    <3> QED BY <3>1, <3>2
  <2>3. IsFiniteSet(1 .. n) /\ Cardinality(1 .. n) = n
    BY <1>4, FS_Interval
  <2>4. SumFunctionOnSet(f, 1 .. n) = n
    <3>1. \A k \in 1 .. n : f[k] = 1
      OBVIOUS
    <3> HIDE DEF f
    <3> QED BY <2>3, <3>1, SumOfOnes
  <2>5. SumFunctionOnSet(f, 1 .. n) = SumFunctionOnSet(one, {q[k] : k \in 1 .. n})
    <3>1. NatOn(1 .. n, f) /\ \A k \in 1 .. n : f[k] = one[q[k]]
      BY <1>1, <2>1, <2>3 DEF NatOn
    <3>2. \A k, l \in 1 .. n : q[k] = q[l] => k = l
      BY <1>1, <2>1
    <3> DEFINE S == 1 .. n
    <3>3. NatOn(S, f) /\ (\A k \in S : f[k] = one[q[k]]) /\ \A k, l \in S : q[k] = q[l] => k = l
      BY <3>1, <3>2
    <3> HIDE DEF f, S
    <3>4. SumFunctionOnSet(f, S) = SumFunctionOnSet(one, {q[k] : k \in S})
      BY <3>3, SumElsewhere
    <3> QED BY <3>4 DEF S
  <2> QED BY <2>2, <2>4, <2>5
<1> QED BY <1>0, <1>3, <1>6, <1>9, <1>10, <1>11

LEMMA StatsOfInv == Inv /\ PolicyInv /\ RootInv => StatsMatch
<1> SUFFICES ASSUME Inv, PolicyInv, RootInv, AllIdle, CanBeAnalyzed(graph) PROVE StatsMatch
  BY DEF StatsMatch
<1> DEFINE D == DOMAIN since
           R == ToSet(RootVertices(graph))
           T == {v \in Vertices : IsTeam(graph, v)}
           one == [x \in Vertices \cup Edges |-> 1]
           lines == [e \in Edges |-> NbLines[e.prog]]
           teamsOf == [i \in D |-> StatsOf(i).teams]
           programsOf == [i \in D |-> StatsOf(i).programs]
           linesOf == [i \in D |-> StatsOf(i).lines]
           es == {e \in Edges : edgeVisits[e.id] > 0}
           used == [e \in Edges |-> edgeVisits[e.id]]
           executed == [e \in Edges |-> edgeVisits[e.id] * NbLines[e.prog]]
<1>1. /\ IsFiniteSet(D) /\ IsFiniteSet(Edges) /\ IsFiniteSet(Vertices) /\ Cardinality(D) = Len(since)
      /\ IsFiniteSet(R) /\ IsFiniteSet(T) /\ R \subseteq Vertices /\ ToSet(Teams(graph)) = T
      /\ Proper(graph)
  <2>1. /\ IsFiniteSet(D) /\ IsFiniteSet(Edges) /\ IsFiniteSet(Vertices) /\ Cardinality(D) = Len(since)
    BY EndedIsFinite
  <2>2. Proper(graph)
    BY DEF Inv
  <2>3. R \subseteq Vertices /\ ToSet(Teams(graph)) = T
    BY <2>2, ListFacts DEF Vertices
  <2>4. T \subseteq Vertices
    OBVIOUS
  <2> HIDE DEF D, R, T
  <2> QED BY <2>1, <2>2, <2>3, <2>4, FS_Subset
<1>2. ASSUME NEW v \in Vertices PROVE visits[v] = Cardinality(Ended(v)) /\ visits[v] \in Nat
  BY <1>2, IdleCounters, TalliesAreNat
<1>3. ASSUME NEW e \in Edges
      PROVE  /\ e.src \in Vertices /\ edgeVisits[e.id] = visits[e.src]
             /\ edgeVisits[e.id] \in Nat /\ NbLines[e.prog] \in Nat
  <2>1. e.src \in Vertices /\ IsTeam(graph, e.src)
    BY <1>1, GraphFacts DEF Edges, Vertices
  <2>2. edgeVisits[e.id] = visits[e.src]
    BY <2>1, IdleCounters DEF Leaving, Edges
  <2>3. NbLines[e.prog] \in Nat
    BY ExecutionAssumption DEF PolicyInv, HasPrograms, Edges
  <2> QED BY <1>2, <2>1, <2>2, <2>3
<1>4. ASSUME NEW i \in D
      PROVE  /\ teamsOf[i] = SumFunctionOnSet(one, {v \in T : v \in ToSet(since[i].trace)})
             /\ programsOf[i] = SumFunctionOnSet(one, UsedBy(i))
             /\ linesOf[i] = SumFunctionOnSet(lines, UsedBy(i))
             /\ Head(since[i].trace) \in R
  <2>1. \A x \in Vertices \cup Edges : one[x] = 1
    OBVIOUS
  <2>2. \A e \in Edges : lines[e] = NbLines[e.prog] /\ NbLines[e.prog] \in Nat
    BY <1>3
  <2>3. {v \in T : v \in ToSet(since[i].trace)}
            = {v \in Vertices : IsTeam(graph, v) /\ v \in ToSet(since[i].trace)}
    OBVIOUS
  <2>4. teamsOf[i] = StatsOf(i).teams /\ programsOf[i] = StatsOf(i).programs /\ linesOf[i] = StatsOf(i).lines
    OBVIOUS
  <2> HIDE DEF one, lines, T, teamsOf, programsOf, linesOf
  <2> QED BY <2>1, <2>2, <2>3, <2>4, StatsOfTrace
<1>5. /\ \A x \in Vertices \cup Edges : one[x] = 1
      /\ \A e \in Edges : lines[e] = NbLines[e.prog] /\ executed[e] = edgeVisits[e.id] * NbLines[e.prog]
                            /\ used[e] = edgeVisits[e.id]
  OBVIOUS
<1>6. es \subseteq Edges /\ \A e \in Edges \ es : edgeVisits[e.id] = 0
  BY <1>3
<1>7. SumOver(es, LAMBDA e : edgeVisits[e.id] * NbLines[e.prog]) = SumFunctionOnSet(executed, es)
  <2> HIDE DEF es
  <2> QED BY <1>6, LinesOfCounters
<1>8. SumOver(es, LAMBDA e : edgeVisits[e.id]) = SumFunctionOnSet(used, es)
  <2> HIDE DEF es
  <2> QED BY <1>6, TotalIsSum DEF Total
<1>9. T \subseteq Vertices /\ es \subseteq Edges
  OBVIOUS
<1> HIDE DEF one, lines, teamsOf, programsOf, linesOf, used, executed
(* Executions: each starts at one root. *)
<1>10. SumOver(R, LAMBDA v : visits[v]) = Len(since)
  <2> DEFINE a == [i \in D |-> {Head(since[i].trace)}]
             g == [i \in D |-> 1]
  <2>1. SumOver(R, LAMBDA v : visits[v]) = SumFunctionOnSet(visits, R)
    BY DEF SumOver, MapThenSumSet, SumFunctionOnSet, FoldFunctionOnSet
  <2>2. a \in [D -> SUBSET R]
    BY <1>4
  <2>3. ASSUME NEW v \in R PROVE visits[v] = one[v] * Times(D, a, v)
    <3>1. v \in Vertices /\ Arriving(graph, v) = {}
      BY <1>1, RootFacts
    <3>2. visits[v] = Cardinality(Started(v)) + Total({}, traversals)
      BY <3>1, IdleCounters
    <3>3. Counts({}, traversals)
      BY FS_EmptySet DEF Counts
    <3>4. Total({}, traversals) = 0 /\ Cardinality(Started(v)) \in Nat
      BY <3>1, <3>3, TotalRec, TalliesAreNat
    <3>5. {i \in D : v \in a[i]} = Started(v)
      BY DEF Started
    <3> HIDE DEF a
    <3>6. Times(D, a, v) = Cardinality(Started(v))
      BY <3>5 DEF Times
    <3>7. one[v] = 1
      BY <1>5, <3>1
    <3> QED BY <3>2, <3>4, <3>6, <3>7
  <2>4. ASSUME NEW i \in D PROVE g[i] = SumFunctionOnSet(one, a[i])
    <3> DEFINE h == Head(since[i].trace)
    <3>1. h \in R /\ one[h] = 1
      BY <1>1, <1>4, <1>5
    <3> HIDE DEF h
    <3>2. IsFiniteSet({h}) /\ Cardinality({h}) = 1 /\ \A x \in {h} : one[x] = 1
      BY <3>1, FS_Singleton
    <3>3. SumFunctionOnSet(one, {h}) = 1
      BY <3>2, SumOfOnes
    <3> QED BY <3>3 DEF h
  <2>5. NatOn(R, one) /\ \A i \in D : g[i] = 1
    BY <1>1, <1>5 DEF NatOn
  <2> HIDE DEF a, g, D, R
  <2>6. SumFunctionOnSet(visits, R) = SumFunctionOnSet(g, D)
    BY <1>1, <2>2, <2>3, <2>4, <2>5, DoubleCount
  <2>7. SumFunctionOnSet(g, D) = Cardinality(D)
    BY <1>1, <2>5, SumOfOnes
  <2> QED BY <1>1, <2>1, <2>6, <2>7
(* Teams: each is visited by the executions whose trace it is in. *)
<1>11. SumOver(T, LAMBDA v : visits[v]) = SumFunctionOnSet(teamsOf, D)
  <2> DEFINE a == [i \in D |-> {v \in T : v \in ToSet(since[i].trace)}]
  <2>1. SumOver(T, LAMBDA v : visits[v]) = SumFunctionOnSet(visits, T)
    BY DEF SumOver, MapThenSumSet, SumFunctionOnSet, FoldFunctionOnSet
  <2>2. a \in [D -> SUBSET T]
    OBVIOUS
  <2>3. ASSUME NEW v \in T PROVE visits[v] = one[v] * Times(D, a, v)
    <3>1. {i \in D : v \in a[i]} = Ended(v)
      BY DEF Ended
    <3> HIDE DEF a, D
    <3>2. Times(D, a, v) = visits[v] /\ visits[v] \in Nat
      BY <1>2, <1>9, <3>1 DEF Times
    <3>3. one[v] = 1
      BY <1>5, <1>9
    <3> QED BY <3>2, <3>3
  <2>4. \A i \in D : teamsOf[i] = SumFunctionOnSet(one, a[i])
    BY <1>4
  <2>5. NatOn(T, one)
    BY <1>1, <1>5, <1>9 DEF NatOn
  <2> HIDE DEF a, T, D
  <2>6. SumFunctionOnSet(visits, T) = SumFunctionOnSet(teamsOf, D)
    BY <1>1, <2>2, <2>3, <2>4, <2>5, DoubleCount
  <2> QED BY <2>1, <2>6
(* Programs and their lines: each edge is evaluated whenever its source is visited. *)
<1>12. SumOver(es, LAMBDA e : edgeVisits[e.id]) = SumFunctionOnSet(programsOf, D)
  <2>1. NatOn(Edges, used) /\ NatOn(Edges, one) /\ \A e \in Edges \ es : used[e] = 0
    BY <1>1, <1>3, <1>5, <1>6 DEF NatOn
  <2>2. \A e \in Edges : used[e] = one[e] * visits[e.src]
    <3>1. ASSUME NEW e \in Edges PROVE used[e] = one[e] * visits[e.src]
      <4>1. one[e] = 1 /\ used[e] = visits[e.src] /\ visits[e.src] \in Nat
        BY <1>2, <1>3, <1>5
      <4> QED BY <4>1
    <3> QED BY <3>1
  <2> HIDE DEF es
  <2>3. SumFunctionOnSet(used, Edges) = SumFunctionOnSet(used, es)
    BY <1>9, <2>1, SumRest
  <2>4. SumFunctionOnSet(used, Edges) = SumFunctionOnSet(programsOf, D)
    BY <1>4, <2>1, <2>2, UsesOfEdges
  <2> QED BY <1>8, <2>3, <2>4
<1>13. SumOver(es, LAMBDA e : edgeVisits[e.id] * NbLines[e.prog]) = SumFunctionOnSet(linesOf, D)
  <2>1. ASSUME NEW e \in Edges
        PROVE  /\ executed[e] \in Nat /\ lines[e] \in Nat
               /\ executed[e] = lines[e] * visits[e.src] /\ (e \notin es => executed[e] = 0)
    <3> DEFINE x == visits[e.src]
               y == NbLines[e.prog]
    <3>1. x \in Nat /\ y \in Nat /\ lines[e] = y /\ executed[e] = x * y
      BY <1>2, <1>3, <1>5
    <3>2. e \notin es => x = 0
      BY <1>3, <1>6
    <3> HIDE DEF x, es
    <3>3. executed[e] = lines[e] * x /\ x * y \in Nat
      BY <3>1, TimesOneMore
    <3> QED BY <3>1, <3>2, <3>3 DEF x
  <2>2. NatOn(Edges, executed) /\ NatOn(Edges, lines) /\ \A e \in Edges \ es : executed[e] = 0
    BY <1>1, <2>1 DEF NatOn
  <2> HIDE DEF es
  <2>3. SumFunctionOnSet(executed, Edges) = SumFunctionOnSet(executed, es)
    BY <1>9, <2>2, SumRest
  <2>4. SumFunctionOnSet(executed, Edges) = SumFunctionOnSet(linesOf, D)
    BY <1>4, <2>1, <2>2, UsesOfEdges
  <2> QED BY <1>7, <2>3, <2>4
<1>14. StatsMatch
  <2>1. GraphStats(graph, visits, edgeVisits) =
            [inferences |-> SumOver(R, LAMBDA v : visits[v]), teams |-> SumOver(T, LAMBDA v : visits[v]),
             programs |-> SumOver(es, LAMBDA e : edgeVisits[e.id]),
             lines |-> SumOver(es, LAMBDA e : edgeVisits[e.id] * NbLines[e.prog])]
    BY <1>1 DEF GraphStats, Edges
  <2>2. GraphStats(graph, visits, edgeVisits) =
            [inferences |-> Len(since), teams |-> SumFunctionOnSet(teamsOf, D),
             programs |-> SumFunctionOnSet(programsOf, D), lines |-> SumFunctionOnSet(linesOf, D)]
    BY <1>10, <1>11, <1>12, <1>13, <2>1
  <2>3. /\ SumFunctionOnSet(teamsOf, D) = SumOver(D, LAMBDA i : TraceStats(graph, since[i].trace).teams)
        /\ SumFunctionOnSet(programsOf, D) = SumOver(D, LAMBDA i : TraceStats(graph, since[i].trace).programs)
        /\ SumFunctionOnSet(linesOf, D) = SumOver(D, LAMBDA i : TraceStats(graph, since[i].trace).lines)
    BY StatsAreSums DEF teamsOf, programsOf, linesOf
  <2> HIDE DEF R, T, es
  <2> QED BY <2>2, <2>3 DEF StatsMatch
<1> QED BY <1>14

(* Whatever the graphs, the programs and the data, and however any number of engines interleave, the
   totals that ExecutionStats computes from the counters of the graph are those that it computes from
   the traces of the executions since the last reset, also after unused elements were removed. *)
THEOREM StatsAlwaysMatch == Spec => []StatsMatch
<1>1. Init => Inv /\ PolicyInv /\ RootInv
  BY InitInv, InitPolicyInv, InitRootInv
<1>2. Inv /\ PolicyInv /\ RootInv /\ [Next]_vars => (Inv /\ PolicyInv /\ RootInv)'
  BY InvStep, PolicyStep, RootStep
<1>3. Inv /\ PolicyInv /\ RootInv => StatsMatch
  BY StatsOfInv
<1> QED BY <1>1, <1>2, <1>3, PTL DEF Spec
-----------------------------------------------------------------------------
(* The statistics of a policy.  First, counters: a key is there when it was counted. *)

CountersOf(K) == UNION {[D -> Nat \ {0}] : D \in SUBSET K}

ValueOf(counts, k) == IF k \in DOMAIN counts THEN counts[k] ELSE 0

Same(x, y) == IF x = y THEN 1 ELSE 0

LEMMA CountersFacts ==
    ASSUME NEW K, NEW c \in CountersOf(K)
    PROVE  /\ DOMAIN c \subseteq K /\ c \in [DOMAIN c -> Nat \ {0}]
           /\ \A k : ValueOf(c, k) \in Nat /\ (ValueOf(c, k) > 0 <=> k \in DOMAIN c)
<1>1. PICK D \in SUBSET K : c \in [D -> Nat \ {0}]
  BY DEF CountersOf
<1>2. DOMAIN c = D /\ \A k \in D : c[k] \in Nat \ {0}
  BY <1>1
<1>3. ASSUME NEW k PROVE ValueOf(c, k) \in Nat /\ (ValueOf(c, k) > 0 <=> k \in DOMAIN c)
  BY <1>2 DEF ValueOf
<1> QED BY <1>1, <1>2, <1>3

LEMMA CountFacts ==
    ASSUME NEW K, NEW c \in CountersOf(K), NEW k \in K, NEW n, n = Count(c, k)
    PROVE  /\ n \in CountersOf(K)
           /\ DOMAIN n = DOMAIN c \cup {k}
<1>1. DOMAIN c \subseteq K /\ c \in [DOMAIN c -> Nat \ {0}]
  BY CountersFacts
<1>2. /\ DOMAIN n = DOMAIN c \cup {k} /\ n \in [DOMAIN c \cup {k} -> Nat \ {0}]
      /\ n[k] = ValueOf(c, k) + 1 /\ \A x \in DOMAIN c \ {k} : n[x] = c[x]
  <2>1. CASE k \in DOMAIN c
    <3>1. n = [c EXCEPT ![k] = c[k] + 1]
      BY <2>1 DEF Count
    <3>2. c[k] \in Nat \ {0}
      BY <1>1, <2>1
    <3>3. c[k] + 1 \in Nat \ {0}
      BY <3>2
    <3>4. DOMAIN n = DOMAIN c /\ n[k] = c[k] + 1 /\ \A x \in DOMAIN c \ {k} : n[x] = c[x]
      BY <1>1, <2>1, <3>1
    <3>5. n = [x \in DOMAIN c |-> n[x]]
      BY <1>1, <3>1
    <3>6. n \in [DOMAIN c -> Nat \ {0}] /\ DOMAIN c \cup {k} = DOMAIN c
      BY <1>1, <2>1, <3>3, <3>4, <3>5
    <3> QED BY <2>1, <3>4, <3>6 DEF ValueOf
  <2>2. CASE k \notin DOMAIN c
    <3>1. n = [x \in DOMAIN c \cup {k} |-> IF x = k THEN 1 ELSE c[x]]
      BY <2>2 DEF Count
    <3> QED BY <1>1, <2>2, <3>1 DEF ValueOf
  <2> QED BY <2>1, <2>2
<1>3. n \in CountersOf(K)
  <2>1. DOMAIN c \cup {k} \in SUBSET K
    BY <1>1
  <2> QED BY <1>2, <2>1 DEF CountersOf
<1> QED BY <1>2, <1>3

LEMMA CountedOnce ==
    ASSUME NEW K, NEW c \in CountersOf(K), NEW k \in K, NEW n, n = Count(c, k), NEW x
    PROVE  ValueOf(n, x) = ValueOf(c, x) + Same(x, k)
<1>1. DOMAIN n = DOMAIN c \cup {k}
  BY CountFacts
<1>2. n[k] = ValueOf(c, k) + 1 /\ \A y \in DOMAIN c \ {k} : n[y] = c[y]
  BY CountersFacts DEF Count, ValueOf
<1>3. ValueOf(c, x) \in Nat
  BY CountersFacts
<1>4. CASE x = k
  BY <1>1, <1>2, <1>4 DEF ValueOf, Same
<1>5. CASE x # k
  <2>1. x \in DOMAIN n <=> x \in DOMAIN c
    BY <1>1, <1>5
  <2>2. x \in DOMAIN c => n[x] = c[x]
    BY <1>2, <1>5
  <2>3. ValueOf(n, x) = ValueOf(c, x)
    BY <2>1, <2>2 DEF ValueOf
  <2> QED BY <1>3, <1>5, <2>3 DEF Same
<1> QED BY <1>4, <1>5

(* The indexes up to k, or after it, at which a sequence has x *)
PlacesUpTo(q, x, k) == {i \in 1 .. k : q[i] = x}
PlacesAfter(q, x, k) == {i \in (k + 1) .. Len(q) : q[i] = x}
Occurrences(q, x) == Cardinality({i \in DOMAIN q : q[i] = x})

LEMMA OnePlaceMore ==
    ASSUME NEW q, NEW x, NEW n \in Nat, NEW k \in 1 .. n
    PROVE  /\ Cardinality(PlacesUpTo(q, x, k)) \in Nat /\ Cardinality(PlacesUpTo(q, x, k - 1)) \in Nat
           /\ Cardinality(PlacesUpTo(q, x, k)) = Cardinality(PlacesUpTo(q, x, k - 1)) + Same(x, q[k])
<1> DEFINE A == PlacesUpTo(q, x, k - 1)
<1>1. IsFiniteSet(A) /\ k \notin A
  <2>1. IsFiniteSet(1 .. (k - 1)) /\ A \subseteq 1 .. (k - 1)
    BY FS_Interval DEF PlacesUpTo
  <2> QED BY <2>1, FS_Subset
<1>2. 1 .. k = 1 .. (k - 1) \cup {k}
  OBVIOUS
<1>3. CASE x = q[k]
  <2>1. PlacesUpTo(q, x, k) = A \cup {k}
    BY <1>2, <1>3 DEF PlacesUpTo
  <2> QED BY <1>1, <1>3, <2>1, FS_AddElement, FS_CardinalityType DEF Same
<1>4. CASE x # q[k]
  <2>1. PlacesUpTo(q, x, k) = A
    BY <1>2, <1>4 DEF PlacesUpTo
  <2> QED BY <1>1, <1>4, <2>1, FS_CardinalityType DEF Same
<1> QED BY <1>3, <1>4

LEMMA OnePlaceLess ==
    ASSUME NEW T, NEW q \in Seq(T), NEW x, NEW k \in 1 .. Len(q)
    PROVE  /\ Cardinality(PlacesAfter(q, x, k)) \in Nat /\ Cardinality(PlacesAfter(q, x, k - 1)) \in Nat
           /\ Cardinality(PlacesAfter(q, x, k - 1)) = Cardinality(PlacesAfter(q, x, k)) + Same(x, q[k])
<1>0. PICK n \in Nat : n = Len(q)
  BY LenProperties
<1> DEFINE A == PlacesAfter(q, x, k)
<1>1. IsFiniteSet(A) /\ k \notin A
  <2>1. IsFiniteSet((k + 1) .. n) /\ A \subseteq (k + 1) .. n
    BY <1>0, FS_Interval DEF PlacesAfter
  <2>2. k \notin (k + 1) .. n
    BY <1>0
  <2> QED BY <2>1, <2>2, FS_Subset
<1>2. ((k - 1) + 1) .. n = (k + 1) .. n \cup {k}
  BY <1>0
<1>3. CASE x = q[k]
  <2>1. PlacesAfter(q, x, k - 1) = A \cup {k}
    BY <1>0, <1>2, <1>3 DEF PlacesAfter
  <2> QED BY <1>1, <1>3, <2>1, FS_AddElement, FS_CardinalityType DEF Same
<1>4. CASE x # q[k]
  <2>1. PlacesAfter(q, x, k - 1) = A
    BY <1>0, <1>2, <1>4 DEF PlacesAfter
  <2> QED BY <1>1, <1>4, <2>1, FS_CardinalityType DEF Same
<1> QED BY <1>3, <1>4

LEMMA OccurrenceFacts ==
    ASSUME NEW T, NEW q \in Seq(T), NEW x
    PROVE  /\ Occurrences(q, x) \in Nat
           /\ Occurrences(q, x) > 0 <=> x \in ToSet(q)
           /\ Occurrences(q, x) = Cardinality(PlacesAfter(q, x, 0))
           /\ Cardinality(PlacesAfter(q, x, Len(q))) = 0
<1>0. PICK n \in Nat : n = Len(q) /\ DOMAIN q = 1 .. n
  BY LenProperties
<1> DEFINE A == {i \in DOMAIN q : q[i] = x}
<1>1. IsFiniteSet(A)
  <2>1. IsFiniteSet(1 .. n) /\ A \subseteq 1 .. n
    BY <1>0, FS_Interval
  <2> QED BY <2>1, FS_Subset
<1>2. A = {} <=> x \notin ToSet(q)
  BY DEF ToSet
<1>3. A = PlacesAfter(q, x, 0)
  <2>1. 0 + 1 = 1
    OBVIOUS
  <2> QED BY <1>0, <2>1 DEF PlacesAfter
<1>4. PlacesAfter(q, x, Len(q)) = {}
  <2>1. (n + 1) .. n = {}
    BY <1>0
  <2> QED BY <1>0, <2>1 DEF PlacesAfter
<1>5. Cardinality(A) \in Nat /\ (Cardinality(A) = 0 <=> A = {}) /\ Cardinality({}) = 0
  BY <1>1, FS_CardinalityType, FS_EmptySet
<1>6. Occurrences(q, x) = Cardinality(A)
  BY DEF Occurrences
<1> HIDE DEF A
<1> QED BY <1>2, <1>3, <1>4, <1>5, <1>6

LEMMA OccurrencesInBoth ==
    ASSUME NEW T, NEW s \in Seq(T), NEW t \in Seq(T), NEW x
    PROVE  Occurrences(s \o t, x) = Occurrences(s, x) + Occurrences(t, x)
<1> DEFINE u == s \o t
           m == Len(s)
           n == Len(t)
           A == {i \in DOMAIN s : s[i] = x}
           B == {i \in DOMAIN t : t[i] = x}
           C == {i \in (m + 1) .. (m + n) : u[i] = x}
<1>1. /\ m \in Nat /\ n \in Nat /\ DOMAIN s = 1 .. m /\ DOMAIN t = 1 .. n /\ DOMAIN u = 1 .. m + n
      /\ \A i \in 1 .. m + n : u[i] = IF i <= m THEN s[i] ELSE t[i - m]
  BY ConcatProperties, LenProperties
<1> HIDE DEF u, m, n
<1>2. IsFiniteSet(A) /\ IsFiniteSet(B) /\ IsFiniteSet(C)
  <2>1. IsFiniteSet(1 .. m) /\ IsFiniteSet(1 .. n) /\ IsFiniteSet((m + 1) .. (m + n))
    BY <1>1, FS_Interval
  <2>2. A \subseteq 1 .. m /\ B \subseteq 1 .. n /\ C \subseteq (m + 1) .. (m + n)
    BY <1>1
  <2> QED BY <2>1, <2>2, FS_Subset
<1>3. {i \in DOMAIN u : u[i] = x} = A \cup C /\ A \cap C = {}
  <2>1. 1 .. m + n = 1 .. m \cup (m + 1) .. (m + n) /\ (1 .. m) \cap ((m + 1) .. (m + n)) = {}
    BY <1>1
  <2>2. \A i \in 1 .. m : i \in 1 .. m + n /\ i <= m
    BY <1>1
  <2> QED BY <1>1, <2>1, <2>2
<1>4. Cardinality(B) = Cardinality(C)
  <2> DEFINE f == [i \in B |-> i + m]
  <2>1. ASSUME NEW i \in B PROVE i + m \in C
    <3>1. i \in 1 .. n /\ t[i] = x
      BY <1>1
    <3>2. i + m \in (m + 1) .. (m + n) /\ i + m \in 1 .. m + n /\ ~ (i + m <= m) /\ (i + m) - m = i
      BY <1>1, <3>1
    <3> QED BY <1>1, <3>1, <3>2
  <2>2. ASSUME NEW k \in C PROVE k - m \in B /\ (k - m) + m = k
    <3>1. k \in 1 .. m + n /\ ~ (k <= m) /\ k - m \in 1 .. n /\ (k - m) + m = k
      BY <1>1
    <3> QED BY <1>1, <3>1
  <2>3. f \in [B -> C] /\ \A k \in C : \E i \in B : f[i] = k
    BY <2>1, <2>2
  <2>4. \A i, j \in B : f[i] = f[j] => i = j
    BY <1>1
  <2>5. f \in Bijection(B, C)
    BY <2>3, <2>4 DEF Bijection, Injection, Surjection, IsInjective
  <2> QED BY <1>2, <2>5, FS_Bijection DEF ExistsBijection
<1>5. Cardinality(A \cup C) = Cardinality(A) + Cardinality(C)
  <2>1. Cardinality(A) \in Nat /\ Cardinality(C) \in Nat /\ Cardinality({}) = 0
    BY <1>2, FS_CardinalityType, FS_EmptySet
  <2>2. Cardinality(A \cup C) = Cardinality(A) + Cardinality(C) - Cardinality(A \cap C)
    BY <1>2, FS_Union
  <2>3. A \cap C = {}
    BY <1>3
  <2>4. Cardinality(A \cap C) = 0
    BY <2>1, <2>3
  <2> HIDE DEF A, C
  <2> QED BY <2>1, <2>2, <2>4
<1> HIDE DEF A, B, C
<1> QED BY <1>3, <1>4, <1>5 DEF Occurrences, u, A, B

LEMMA StepsOfInterval ==
    ASSUME NEW n \in Nat
    PROVE  /\ 1 .. 0 = {} /\ 0 \in 0 .. n /\ n \in 0 .. n /\ (1 .. n) \in SUBSET (1 .. n)
           /\ \A i \in 1 .. n : /\ (1 .. i) \in SUBSET (1 .. n) /\ 1 .. i # {}
                                /\ Max(1 .. i) = i /\ (1 .. i) \ {i} = 1 .. (i - 1)
                                /\ i \in 0 .. n /\ i - 1 \in 0 .. n
<1>1. ASSUME NEW i \in 1 .. n
      PROVE  /\ (1 .. i) \in SUBSET (1 .. n) /\ 1 .. i # {}
             /\ Max(1 .. i) = i /\ (1 .. i) \ {i} = 1 .. (i - 1)
             /\ i \in 0 .. n /\ i - 1 \in 0 .. n
  <2>1. i \in 1 .. i /\ i \in Nat \ {0}
    OBVIOUS
  <2>2. (1 .. i) \in SUBSET (1 .. n)
    OBVIOUS
  <2>3. i \in 0 .. n /\ i - 1 \in 0 .. n
    OBVIOUS
  <2> QED BY <2>1, <2>2, <2>3, LastOfInterval
<1> QED BY <1>1

(* A chain of values, each computed from the one before *)
TypedSteps(c, n, base, H, X) == c[0] = base /\ \A i \in 1 .. n : c[i - 1] \in X => c[i] = H[i][c[i - 1]]

LEMMA TypedChain ==
    ASSUME NEW n \in Nat, NEW X, NEW base \in X, NEW H \in [1 .. n -> [X -> X]],
           NEW c, TypedSteps(c, n, base, H, X)
    PROVE  \A i \in 0 .. n : c[i] \in X
<1> DEFINE B == {i \in 0 .. n : c[i] \notin X}
<1>1. 0 \notin B
  BY DEF TypedSteps
<1>2. ASSUME NEW i \in 1 .. n, i \in B PROVE i - 1 \in B
  <2> SUFFICES ASSUME c[i - 1] \in X PROVE FALSE
    BY StepsOfInterval
  <2>1. c[i] = H[i][c[i - 1]] /\ H[i] \in [X -> X]
    BY DEF TypedSteps
  <2>2. c[i] \in X
    BY <2>1
  <2> QED BY <1>2, <2>2
<1>3. B = {}
  <2>1. B \in SUBSET (0 .. n)
    OBVIOUS
  <2> HIDE DEF B
  <2> QED BY <1>1, <1>2, <2>1, NoFirstFailure
<1> QED BY <1>3

(* The programs of a list of edges are counted one after the other. *)
LEMMA ProgramsChain ==
    ASSUME NEW E, \A e \in E : e.prog \in Program, NEW q \in Seq(E),
           NEW base \in CountersOf(Program)
    PROVE  \E c : /\ \A i \in 0 .. Len(q) : c[i] \in CountersOf(Program)
                  /\ c[0] = base /\ \A i \in 1 .. Len(q) : c[i] = Count(c[i - 1], q[i].prog)
                  /\ FoldLeft(LAMBDA counts, e : Count(counts, e.prog), base, q) = c[Len(q)]
<1> DEFINE n == Len(q)
           X == CountersOf(Program)
           Step(g0) == [s \in SUBSET DOMAIN q |->
                         IF s = {} THEN base ELSE Count(g0[s \ {Max(s)}], q[Max(s)].prog)]
           f == CHOOSE g0 : g0 = Step(g0)
           H == [i \in 1 .. n |-> [x \in X |-> Count(x, q[i].prog)]]
<1>1. FoldLeft(LAMBDA counts, e : Count(counts, e.prog), base, q) = f[DOMAIN q]
  BY DEF FoldLeft, MapThenFoldSet
<1>2. n \in Nat /\ DOMAIN q = 1 .. n /\ base \in X /\ \A i \in 1 .. n : q[i].prog \in Program
  BY LenProperties, ElementOfSeq
<1>3. H \in [1 .. n -> [X -> X]]
  <2> HIDE DEF X, n
  <2>1. \A i \in 1 .. n : \A x \in X : Count(x, q[i].prog) \in X
    BY <1>2, CountFacts DEF X
  <2> QED BY <2>1
<1> HIDE DEF X, H, n
<1>4. PICK v \in [SUBSET (1 .. n) -> X] : IsSeqFold(v, n, base, H)
  BY <1>2, <1>3, SeqFoldExists
<1>5. v = Step(v)
  <2>1. ASSUME NEW s \in SUBSET (1 .. n), s # {} PROVE v[s] = Count(v[s \ {Max(s)}], q[Max(s)].prog)
    <3>1. Max(s) \in 1 .. n /\ v[s \ {Max(s)}] \in X
      BY <1>2, <2>1, LastOfSubset
    <3> QED BY <1>4, <2>1, <3>1 DEF H, IsSeqFold
  <2>2. v[{}] = base
    BY <1>4 DEF IsSeqFold
  <2>3. \A s \in SUBSET (1 .. n) : v[s] = IF s = {} THEN base ELSE Count(v[s \ {Max(s)}], q[Max(s)].prog)
    BY <2>1, <2>2
  <2> QED BY <1>2, <2>3
<1>6. f = Step(f)
  BY <1>5
<1> HIDE DEF f
<1>7. ASSUME NEW s \in SUBSET (1 .. n) PROVE f[s] = IF s = {} THEN base ELSE Count(f[s \ {Max(s)}], q[Max(s)].prog)
  BY <1>2, <1>6
<1> DEFINE c == [i \in 0 .. n |-> f[1 .. i]]
<1>8. c[0] = base /\ FoldLeft(LAMBDA counts, e : Count(counts, e.prog), base, q) = c[n] /\ n \in 0 .. n
  BY <1>1, <1>2, <1>7, StepsOfInterval
<1>9. ASSUME NEW i \in 1 .. n PROVE c[i] = Count(c[i - 1], q[i].prog)
  <2>1. /\ (1 .. i) \in SUBSET (1 .. n) /\ 1 .. i # {} /\ i \in 0 .. n /\ i - 1 \in 0 .. n
        /\ Max(1 .. i) = i /\ (1 .. i) \ {i} = 1 .. (i - 1)
    BY <1>2, StepsOfInterval
  <2> QED BY <1>7, <2>1
<1> HIDE DEF c
<1>10. TypedSteps(c, n, base, H, X)
  BY <1>8, <1>9 DEF H, TypedSteps
<1>11. \A i \in 0 .. n : c[i] \in X
  BY <1>2, <1>3, <1>8, <1>10, TypedChain
<1> QED BY <1>8, <1>9, <1>11 DEF n, X

CountPrograms(base, q) == FoldLeft(LAMBDA counts, e : Count(counts, e.prog), base, q)

PlacesWithProgram(q, p) == {i \in DOMAIN q : q[i].prog = p}

LEMMA ProgramsCounted ==
    ASSUME NEW E, \A e \in E : e.prog \in Program, NEW q \in Seq(E),
           NEW base \in CountersOf(Program)
    PROVE  /\ CountPrograms(base, q) \in CountersOf(Program)
           /\ \A p : ValueOf(CountPrograms(base, q), p)
                        = ValueOf(base, p) + Cardinality(PlacesWithProgram(q, p))
<1> DEFINE r == CountPrograms(base, q)
           n == Len(q)
           a == [i \in 1 .. n |-> q[i].prog]
<1>1. PICK c : /\ \A i \in 0 .. n : c[i] \in CountersOf(Program)
               /\ c[0] = base /\ \A i \in 1 .. n : c[i] = Count(c[i - 1], q[i].prog)
               /\ r = c[n]
  BY ProgramsChain DEF CountPrograms
<1>2. n \in Nat /\ DOMAIN q = 1 .. n /\ \A i \in 1 .. n : q[i].prog \in Program
  BY LenProperties, ElementOfSeq
<1> HIDE DEF r, n
<1>3. ASSUME NEW p PROVE ValueOf(r, p) = ValueOf(base, p) + Cardinality(PlacesWithProgram(q, p))
  <2> DEFINE k(i) == Cardinality(PlacesUpTo(a, p, i))
             B == {i \in 0 .. n : ValueOf(c[i], p) # ValueOf(base, p) + k(i)}
  <2>1. 0 \notin B
    <3>1. PlacesUpTo(a, p, 0) = {}
      BY StepsOfInterval DEF PlacesUpTo
    <3>2. k(0) = 0
      BY <3>1, FS_EmptySet
    <3>3. ValueOf(base, p) \in Nat
      BY CountersFacts
    <3> QED BY <1>1, <3>2, <3>3
  <2>2. ASSUME NEW i \in 1 .. n, i \in B PROVE i - 1 \in B
    <3>1. k(i) \in Nat /\ k(i - 1) \in Nat /\ k(i) = k(i - 1) + Same(p, a[i])
      <4> HIDE DEF a
      <4> QED BY <1>2, OnePlaceMore
    <3>2. i - 1 \in 0 .. n /\ a[i] = q[i].prog
      BY <1>2
    <3>3. ValueOf(c[i], p) = ValueOf(c[i - 1], p) + Same(p, a[i])
      <4>1. c[i] = Count(c[i - 1], q[i].prog) /\ c[i - 1] \in CountersOf(Program) /\ q[i].prog \in Program
        BY <1>1, <1>2, <3>2
      <4>2. ValueOf(c[i], p) = ValueOf(c[i - 1], p) + Same(p, q[i].prog)
        BY <4>1, CountedOnce
      <4> QED BY <3>2, <4>2
    <3>4. ValueOf(c[i - 1], p) \in Nat /\ ValueOf(base, p) \in Nat
      BY <1>1, <3>2, CountersFacts
    <3>5. Same(p, a[i]) \in Nat
      BY DEF Same
    <3> HIDE DEF k, a
    <3> QED BY <2>2, <3>1, <3>2, <3>3, <3>4, <3>5
  <2>3. B = {}
    <3>1. B \in SUBSET (0 .. n)
      OBVIOUS
    <3> HIDE DEF B
    <3> QED BY <1>2, <2>1, <2>2, <3>1, NoFirstFailure
  <2>4. PlacesUpTo(a, p, n) = PlacesWithProgram(q, p)
    BY <1>2 DEF PlacesUpTo, PlacesWithProgram
  <2>5. n \in 0 .. n
    BY <1>2
  <2>6. ValueOf(c[n], p) = ValueOf(base, p) + k(n)
    BY <2>3, <2>5
  <2> QED BY <1>1, <2>4, <2>6
<1>4. r \in CountersOf(Program)
  BY <1>1, <1>2
<1> QED BY <1>3, <1>4 DEF r

-----------------------------------------------------------------------------
(* What the analysis of a vertex does to the statistics *)

TeamsIn(g) == {v \in ToSet(g.vertices) : IsTeam(g, v)}
ActionsIn(g) == {v \in ToSet(g.vertices) : IsAction(g, v)}

StatsType(g) ==
    [stage : Seq(ToSet(g.vertices)), next : Seq(ToSet(g.vertices)), levels : Seq(Nat), edges : Seq(Nat),
     teams : CountersOf(TeamsIn(g)), actions : CountersOf(ActionsIn(g)),
     actionIDs : CountersOf({g.kind[v] : v \in ToSet(g.vertices)}), programs : CountersOf(Program)]

Destinations(g, v) == [i \in DOMAIN OutgoingEdges(g, v) |-> OutgoingEdges(g, v)[i].dst]

PlacesIn(q, S) == {i \in DOMAIN q : q[i] \in S}

LEMMA LeavingTwice ==
    ASSUME NEW g, Proper(g), NEW v, NEW S
    PROVE  Cardinality(PlacesIn(OutgoingEdges(g, v), S)) = Cardinality(Leaving(g, v) \cap S)
<1> DEFINE out == OutgoingEdges(g, v)
           A == PlacesIn(out, S)
           B == Leaving(g, v) \cap S
           f == [i \in A |-> out[i]]
<1>1. /\ Len(out) \in Nat /\ DOMAIN out = 1 .. Len(out)
      /\ \A i \in DOMAIN out : out[i] \in ToSet(g.edges) /\ out[i].src = v
      /\ \A i, j \in DOMAIN out : out[i].id = out[j].id => i = j
      /\ \A e \in Leaving(g, v) : \E i \in DOMAIN out : e = out[i]
  BY OutFacts
<1> HIDE DEF out
<1>2. f \in [A -> B] /\ \A e \in B : \E i \in A : f[i] = e
  BY <1>1 DEF Leaving, PlacesIn
<1>3. \A i, j \in A : f[i] = f[j] => i = j
  BY <1>1 DEF PlacesIn
<1>4. f \in Bijection(A, B)
  BY <1>2, <1>3 DEF Bijection, Injection, Surjection, IsInjective
<1>5. IsFiniteSet(A)
  <2>1. IsFiniteSet(1 .. Len(out)) /\ A \subseteq 1 .. Len(out)
    BY <1>1, FS_Interval DEF PlacesIn
  <2> QED BY <2>1, FS_Subset
<1>6. Cardinality(A) = Cardinality(B)
  <2> HIDE DEF A, B, f
  <2> QED BY <1>4, <1>5, FS_Bijection DEF ExistsBijection
<1> QED BY <1>6 DEF out

EdgesTo(g, D, x) == {e \in ToSet(g.edges) : e.src \in D /\ e.dst = x}
EdgesWith(g, D, p) == {e \in ToSet(g.edges) : e.src \in D /\ e.prog = p}

LEMMA DestinationFacts ==
    ASSUME NEW g, Proper(g), NEW v
    PROVE  /\ Destinations(g, v) \in Seq(ToSet(g.vertices))
           /\ ToSet(Destinations(g, v)) = {e.dst : e \in Leaving(g, v)}
           /\ \A w : Occurrences(Destinations(g, v), w) = Cardinality(EdgesTo(g, {v}, w))
<1> DEFINE out == OutgoingEdges(g, v)
           d == Destinations(g, v)
<1>1. /\ Len(out) \in Nat /\ DOMAIN out = 1 .. Len(out)
      /\ \A i \in DOMAIN out : out[i] \in ToSet(g.edges) /\ out[i].src = v
      /\ \A e \in Leaving(g, v) : \E i \in DOMAIN out : e = out[i]
  BY OutFacts
<1>2. d = [i \in 1 .. Len(out) |-> out[i].dst]
  BY <1>1 DEF Destinations
<1> HIDE DEF out, d
<1>3. \A i \in DOMAIN out : out[i].dst \in ToSet(g.vertices)
  BY <1>1, GraphFacts
<1>4. d \in Seq(ToSet(g.vertices))
  BY <1>1, <1>2, <1>3
<1>5. ToSet(d) = {e.dst : e \in Leaving(g, v)}
  BY <1>1, <1>2 DEF ToSet, Leaving
<1>6. ASSUME NEW w
      PROVE  Occurrences(d, w) = Cardinality(EdgesTo(g, {v}, w))
  <2> DEFINE S == {e \in ToSet(g.edges) : e.dst = w}
  <2>1. {i \in DOMAIN d : d[i] = w} = PlacesIn(out, S)
    BY <1>1, <1>2 DEF PlacesIn
  <2>2. EdgesTo(g, {v}, w) = Leaving(g, v) \cap S
    BY DEF Leaving, EdgesTo
  <2> HIDE DEF S
  <2>3. Cardinality(PlacesIn(out, S)) = Cardinality(Leaving(g, v) \cap S)
    BY LeavingTwice DEF out
  <2> QED BY <2>1, <2>2, <2>3 DEF Occurrences
<1> QED BY <1>4, <1>5, <1>6 DEF d

LEMMA ActionAnalyzed ==
    ASSUME NEW g, Proper(g), NEW s \in StatsType(g), NEW v \in ActionsIn(g),
           NEW t, t = AnalyzeVertex(g, s, v)
    PROVE  /\ t \in StatsType(g)
           /\ t.stage = s.stage /\ t.next = s.next /\ t.levels = s.levels
           /\ t.teams = s.teams /\ t.actions = Count(s.actions, v) /\ t.programs = s.programs
<1>1. t = [s EXCEPT !.actions = Count(s.actions, v), !.actionIDs = Count(s.actionIDs, g.kind[v])]
  BY DEF AnalyzeVertex, ActionsIn
<1>2. /\ s.actions \in CountersOf(ActionsIn(g))
      /\ s.actionIDs \in CountersOf({g.kind[w] : w \in ToSet(g.vertices)})
      /\ g.kind[v] \in {g.kind[w] : w \in ToSet(g.vertices)}
  BY DEF StatsType, ActionsIn
<1>3. /\ Count(s.actions, v) \in CountersOf(ActionsIn(g))
      /\ Count(s.actionIDs, g.kind[v]) \in CountersOf({g.kind[w] : w \in ToSet(g.vertices)})
  <2>1. Count(s.actions, v) \in CountersOf(ActionsIn(g))
    BY <1>2, CountFacts
  <2> DEFINE K == {g.kind[w] : w \in ToSet(g.vertices)}
             k == g.kind[v]
  <2>2. s.actionIDs \in CountersOf(K) /\ k \in K
    BY <1>2
  <2> HIDE DEF K, k
  <2>3. Count(s.actionIDs, k) \in CountersOf(K)
    BY <2>2, CountFacts
  <2> QED BY <2>1, <2>3 DEF K, k
<1>4. t \in StatsType(g)
  BY <1>1, <1>3 DEF StatsType
<1>5. DOMAIN s = {"stage", "next", "levels", "edges", "teams", "actions", "actionIDs", "programs"}
  BY DEF StatsType
<1> QED BY <1>1, <1>4, <1>5

ProgramsAdded(g, s, t, v) ==
    \A p : ValueOf(t.programs, p) = ValueOf(s.programs, p) + Cardinality(EdgesWith(g, {v}, p))

LEMMA TeamAnalyzed ==
    ASSUME NEW g, Proper(g), HasPrograms(g), NEW s \in StatsType(g), NEW v \in TeamsIn(g),
           NEW t, t = AnalyzeVertex(g, s, v)
    PROVE  /\ t \in StatsType(g)
           /\ t.stage = s.stage /\ t.levels = s.levels
           /\ t.teams = Count(s.teams, v) /\ t.actions = s.actions
           /\ v \in DOMAIN s.teams => t.next = s.next /\ t.programs = s.programs
           /\ v \notin DOMAIN s.teams => t.next = s.next \o Destinations(g, v) /\ ProgramsAdded(g, s, t, v)
<1> DEFINE out == OutgoingEdges(g, v)
           counted == [s EXCEPT !.teams = Count(s.teams, v)]
           programs == CountPrograms(s.programs, out)
           levels == Append(s.edges, Len(out))
           next == s.next \o Destinations(g, v)
<1>1. /\ s.teams \in CountersOf(TeamsIn(g)) /\ s.programs \in CountersOf(Program)
      /\ s.next \in Seq(ToSet(g.vertices)) /\ s.edges \in Seq(Nat)
      /\ DOMAIN s = {"stage", "next", "levels", "edges", "teams", "actions", "actionIDs", "programs"}
  BY DEF StatsType
<1>2. /\ Count(s.teams, v) \in CountersOf(TeamsIn(g))
      /\ DOMAIN Count(s.teams, v) = DOMAIN s.teams \cup {v}
  <2>1. Count(s.teams, v) \in CountersOf(TeamsIn(g))
    BY <1>1, CountFacts
  <2>2. DOMAIN Count(s.teams, v) = DOMAIN s.teams \cup {v}
    BY DEF Count
  <2> QED BY <2>1, <2>2
<1>3. /\ counted \in StatsType(g) /\ counted.teams = Count(s.teams, v) /\ DOMAIN counted = DOMAIN s
      /\ counted.stage = s.stage /\ counted.levels = s.levels /\ counted.actions = s.actions
      /\ counted.next = s.next /\ counted.programs = s.programs /\ counted.edges = s.edges
  BY <1>1, <1>2 DEF StatsType
<1>4. ~ IsAction(g, v) /\ v \in ToSet(g.vertices)
  BY DEF TeamsIn, IsAction, IsTeam
<1>5. FirstUse(counted, v) <=> v \notin DOMAIN s.teams
  <2>1. Count(s.teams, v)[v] = (IF v \in DOMAIN s.teams THEN s.teams[v] + 1 ELSE 1)
    BY DEF Count
  <2>2. v \in DOMAIN s.teams => s.teams[v] \in Nat \ {0}
    BY <1>1, CountersFacts
  <2> QED BY <1>3, <2>1, <2>2 DEF FirstUse
<1>6. /\ out \in Seq(ToSet(g.edges)) /\ Len(out) \in Nat
      /\ \A e \in ToSet(g.edges) : e.prog \in Program
  BY OutFacts DEF HasPrograms
<1>7. /\ programs \in CountersOf(Program)
      /\ \A p : ValueOf(programs, p) = ValueOf(s.programs, p) + Cardinality(PlacesWithProgram(out, p))
  <2> HIDE DEF out
  <2> QED BY <1>1, <1>6, ProgramsCounted
<1>8. t = IF v \in DOMAIN s.teams THEN counted
          ELSE [counted EXCEPT !.edges = levels, !.programs = programs, !.next = next]
  <2>1. t = IF ~ FirstUse(counted, v) THEN counted
            ELSE [counted EXCEPT !.edges = Append(counted.edges, Len(out)),
                                 !.programs = CountPrograms(counted.programs, out),
                                 !.next = counted.next \o [i \in DOMAIN out |-> out[i].dst]]
    <3> HIDE DEF FirstUse
    <3> QED BY <1>4 DEF AnalyzeVertex, CountPrograms
  <2>2. [i \in DOMAIN out |-> out[i].dst] = Destinations(g, v)
    BY DEF Destinations
  <2> HIDE DEF counted, out
  <2> QED BY <1>3, <1>5, <2>1, <2>2
<1>9. levels \in Seq(Nat) /\ next \in Seq(ToSet(g.vertices))
  BY <1>1, <1>6, DestinationFacts, AppendProperties, ConcatProperties
<1> HIDE DEF counted, programs, levels
<1>10. CASE v \in DOMAIN s.teams
  BY <1>3, <1>8, <1>10
<1>11. CASE v \notin DOMAIN s.teams
  <2>1. t = [counted EXCEPT !.edges = levels, !.programs = programs, !.next = next]
    BY <1>8, <1>11
  <2> HIDE DEF next
  <2>2. t \in StatsType(g)
    BY <1>3, <1>7, <1>9, <2>1 DEF StatsType
  <2>3. /\ t.stage = s.stage /\ t.levels = s.levels /\ t.teams = Count(s.teams, v) /\ t.actions = s.actions
        /\ t.next = next /\ t.programs = programs
    BY <1>1, <1>3, <2>1
  <2>4. ASSUME NEW p
        PROVE  Cardinality(PlacesWithProgram(out, p))
                  = Cardinality(EdgesWith(g, {v}, p))
    <3> DEFINE S == {e \in ToSet(g.edges) : e.prog = p}
    <3>1. \A i \in DOMAIN out : out[i] \in ToSet(g.edges)
      BY OutFacts
    <3>2. PlacesWithProgram(out, p) = PlacesIn(out, S)
      BY <3>1 DEF PlacesIn, PlacesWithProgram
    <3>3. EdgesWith(g, {v}, p) = Leaving(g, v) \cap S
      BY DEF Leaving, EdgesWith
    <3> HIDE DEF S
    <3>4. Cardinality(PlacesIn(out, S)) = Cardinality(Leaving(g, v) \cap S)
      BY LeavingTwice
    <3> HIDE DEF out
    <3> QED BY <3>2, <3>3, <3>4
  <2>5. ProgramsAdded(g, s, t, v)
    BY <1>7, <2>3, <2>4 DEF ProgramsAdded
  <2> QED BY <1>11, <2>2, <2>3, <2>5 DEF next
<1> QED BY <1>10, <1>11

-----------------------------------------------------------------------------
(* What is counted: how often a vertex was used, and the edges of the teams met so far *)

UsedIn(s) == DOMAIN s.teams \cup DOMAIN s.actions

Uses(g, s, x) == IF IsTeam(g, x) THEN ValueOf(s.teams, x) ELSE ValueOf(s.actions, x)

(* A vertex is used, or to be used, once for each edge to it and once more for the root. *)
VertexCounted(g, root, s, q, k, x) ==
    Uses(g, s, x) + Cardinality(PlacesAfter(q, x, k)) + Occurrences(s.next, x)
       = Same(x, root) + Cardinality(EdgesTo(g, DOMAIN s.teams, x))

ProgramCounted(g, s, p) == ValueOf(s.programs, p) = Cardinality(EdgesWith(g, DOMAIN s.teams, p))

StageInv(g, root, s, q, k) ==
    /\ \A x \in ToSet(g.vertices) : VertexCounted(g, root, s, q, k, x)
    /\ \A p : ProgramCounted(g, s, p)

LEMMA VertexTyped ==
    ASSUME NEW g, Proper(g), HasPrograms(g), NEW s \in StatsType(g), NEW v \in ToSet(g.vertices)
    PROVE  AnalyzeVertex(g, s, v) \in StatsType(g)
<1>1. CASE IsTeam(g, v)
  <2>1. v \in TeamsIn(g)
    BY <1>1 DEF TeamsIn
  <2> QED BY <2>1, TeamAnalyzed
<1>2. CASE ~ IsTeam(g, v)
  <2>1. v \in ActionsIn(g)
    BY <1>2 DEF ActionsIn, IsAction, IsTeam
  <2> QED BY <2>1, ActionAnalyzed
<1> QED BY <1>1, <1>2

LEMMA DisjointSum ==
    ASSUME NEW A, NEW B, NEW C, IsFiniteSet(A), IsFiniteSet(B), A \cap B = {}, C = A \cup B
    PROVE  /\ Cardinality(A) \in Nat /\ Cardinality(B) \in Nat
           /\ Cardinality(C) = Cardinality(A) + Cardinality(B)
<1>1. Cardinality(A) \in Nat /\ Cardinality(B) \in Nat
  BY FS_CardinalityType
<1>2. Cardinality(A \cap B) = 0
  BY FS_EmptySet
<1>3. Cardinality(A \cup B) = Cardinality(A) + Cardinality(B) - Cardinality(A \cap B)
  BY FS_Union
<1> QED BY <1>1, <1>2, <1>3

OneMore(C, D, v) == v \notin D /\ C = D \cup {v}

LEMMA OneTeamMore ==
    ASSUME NEW g, Proper(g), NEW D, NEW v, NEW x, NEW C, OneMore(C, D, v)
    PROVE  /\ Cardinality(EdgesTo(g, D, x)) \in Nat /\ Cardinality(EdgesTo(g, {v}, x)) \in Nat
           /\ Cardinality(EdgesTo(g, C, x))
                 = Cardinality(EdgesTo(g, D, x)) + Cardinality(EdgesTo(g, {v}, x))
<1>1. IsFiniteSet(ToSet(g.edges))
  BY GraphFacts
<1>2. EdgesTo(g, D, x) \subseteq ToSet(g.edges) /\ EdgesTo(g, {v}, x) \subseteq ToSet(g.edges)
  BY DEF EdgesTo
<1>3. /\ EdgesTo(g, D, x) \cap EdgesTo(g, {v}, x) = {}
      /\ EdgesTo(g, C, x) = EdgesTo(g, D, x) \cup EdgesTo(g, {v}, x)
  BY DEF EdgesTo, OneMore
<1>4. IsFiniteSet(EdgesTo(g, D, x)) /\ IsFiniteSet(EdgesTo(g, {v}, x))
  BY <1>1, <1>2, FS_Subset
<1> QED BY <1>3, <1>4, DisjointSum

LEMMA OneTeamsPrograms ==
    ASSUME NEW g, Proper(g), NEW D, NEW v, NEW p, NEW C, OneMore(C, D, v)
    PROVE  Cardinality(EdgesWith(g, C, p))
              = Cardinality(EdgesWith(g, D, p)) + Cardinality(EdgesWith(g, {v}, p))
<1>1. IsFiniteSet(ToSet(g.edges))
  BY GraphFacts
<1>2. EdgesWith(g, D, p) \subseteq ToSet(g.edges) /\ EdgesWith(g, {v}, p) \subseteq ToSet(g.edges)
  BY DEF EdgesWith
<1>3. /\ EdgesWith(g, D, p) \cap EdgesWith(g, {v}, p) = {}
      /\ EdgesWith(g, C, p) = EdgesWith(g, D, p) \cup EdgesWith(g, {v}, p)
  BY DEF EdgesWith, OneMore
<1>4. IsFiniteSet(EdgesWith(g, D, p)) /\ IsFiniteSet(EdgesWith(g, {v}, p))
  BY <1>1, <1>2, FS_Subset
<1> QED BY <1>3, <1>4, DisjointSum

(* t is s after the k-th vertex of the stage q. *)
AnalyzedNext(g, root, s, q, k, t) ==
    /\ s \in StatsType(g) /\ q \in Seq(ToSet(g.vertices)) /\ k \in 1 .. Len(q)
    /\ StageInv(g, root, s, q, k - 1) /\ t = AnalyzeVertex(g, s, q[k])

LEMMA ActionCounted ==
    ASSUME NEW g, Proper(g), NEW root, NEW s, NEW q, NEW k, NEW t, AnalyzedNext(g, root, s, q, k, t),
           IsAction(g, q[k])
    PROVE  /\ StageInv(g, root, t, q, k) /\ UsedIn(t) = UsedIn(s) \cup {q[k]}
           /\ t.teams = s.teams /\ t.next = s.next /\ t.stage = s.stage /\ t.levels = s.levels
<1> DEFINE v == q[k]
<1>0. /\ s \in StatsType(g) /\ q \in Seq(ToSet(g.vertices)) /\ k \in 1 .. Len(q)
      /\ StageInv(g, root, s, q, k - 1) /\ t = AnalyzeVertex(g, s, q[k])
  BY DEF AnalyzedNext
<1>1. v \in ToSet(g.vertices) /\ v \in ActionsIn(g) /\ ~ IsTeam(g, v)
  BY <1>0, ElementOfSeq DEF ActionsIn, IsAction, IsTeam
<1>2. /\ t \in StatsType(g)
      /\ t.stage = s.stage /\ t.next = s.next /\ t.levels = s.levels
      /\ t.teams = s.teams /\ t.actions = Count(s.actions, v) /\ t.programs = s.programs
  BY <1>0, <1>1, ActionAnalyzed
<1>3. s.actions \in CountersOf(ActionsIn(g)) /\ s.next \in Seq(ToSet(g.vertices))
      /\ s.teams \in CountersOf(TeamsIn(g))
  BY <1>0 DEF StatsType
<1>4. DOMAIN t.actions = DOMAIN s.actions \cup {v}
  BY <1>2 DEF Count
<1>5. ASSUME NEW x \in ToSet(g.vertices) PROVE VertexCounted(g, root, t, q, k, x)
  <2>1. VertexCounted(g, root, s, q, k - 1, x)
    BY <1>0 DEF StageInv
  <2>2. /\ Cardinality(PlacesAfter(q, x, k)) \in Nat
        /\ Cardinality(PlacesAfter(q, x, k - 1)) = Cardinality(PlacesAfter(q, x, k)) + Same(x, v)
    BY <1>0, OnePlaceLess
  <2>3. ValueOf(t.actions, x) = ValueOf(s.actions, x) + Same(x, v)
    BY <1>1, <1>2, <1>3, CountedOnce
  <2>4. Occurrences(s.next, x) \in Nat /\ ValueOf(s.actions, x) \in Nat /\ ValueOf(s.teams, x) \in Nat
    BY <1>3, OccurrenceFacts, CountersFacts
  <2>5. Same(x, v) \in Nat /\ (IsTeam(g, x) => Same(x, v) = 0)
    BY <1>1 DEF Same
  <2>6. Uses(g, t, x) = Uses(g, s, x) + Same(x, v) /\ Uses(g, s, x) \in Nat
    BY <1>2, <2>3, <2>4, <2>5 DEF Uses
  <2> HIDE DEF v
  <2>7. Uses(g, t, x) + Cardinality(PlacesAfter(q, x, k)) + Occurrences(t.next, x)
           = Uses(g, s, x) + Cardinality(PlacesAfter(q, x, k - 1)) + Occurrences(s.next, x)
    BY <1>2, <2>2, <2>4, <2>5, <2>6
  <2> QED BY <1>2, <2>1, <2>7 DEF VertexCounted
<1>6. ASSUME NEW p PROVE ProgramCounted(g, t, p)
  BY <1>0, <1>2 DEF StageInv, ProgramCounted
<1> QED BY <1>2, <1>4, <1>5, <1>6 DEF StageInv, UsedIn

LEMMA TeamCounted ==
    ASSUME NEW g, Proper(g), HasPrograms(g), NEW root, NEW s, NEW q, NEW k, NEW t,
           AnalyzedNext(g, root, s, q, k, t), IsTeam(g, q[k])
    PROVE  /\ StageInv(g, root, t, q, k) /\ UsedIn(t) = UsedIn(s) \cup {q[k]}
           /\ DOMAIN t.teams = DOMAIN s.teams \cup {q[k]}
           /\ q[k] \in DOMAIN s.teams => t.next = s.next
           /\ t.stage = s.stage /\ t.levels = s.levels
<1> DEFINE v == q[k]
<1>0. /\ s \in StatsType(g) /\ q \in Seq(ToSet(g.vertices)) /\ k \in 1 .. Len(q)
      /\ StageInv(g, root, s, q, k - 1) /\ t = AnalyzeVertex(g, s, q[k])
  BY DEF AnalyzedNext
<1>1. v \in ToSet(g.vertices) /\ v \in TeamsIn(g)
  BY <1>0, ElementOfSeq DEF TeamsIn
<1>2. /\ t \in StatsType(g)
      /\ t.stage = s.stage /\ t.levels = s.levels
      /\ t.teams = Count(s.teams, v) /\ t.actions = s.actions
      /\ v \in DOMAIN s.teams => t.next = s.next /\ t.programs = s.programs
      /\ v \notin DOMAIN s.teams => t.next = s.next \o Destinations(g, v) /\ ProgramsAdded(g, s, t, v)
  <2>1. t = AnalyzeVertex(g, s, v) /\ s \in StatsType(g)
    BY <1>0
  <2> HIDE DEF v
  <2> QED BY <1>1, <2>1, TeamAnalyzed
<1>3. /\ s.actions \in CountersOf(ActionsIn(g)) /\ s.next \in Seq(ToSet(g.vertices))
      /\ s.teams \in CountersOf(TeamsIn(g)) /\ s.programs \in CountersOf(Program)
  BY <1>0 DEF StatsType
<1>4. DOMAIN t.teams = DOMAIN s.teams \cup {v}
  BY <1>2 DEF Count
<1> DEFINE D == DOMAIN s.teams
<1>5. ASSUME NEW x \in ToSet(g.vertices) PROVE VertexCounted(g, root, t, q, k, x)
  <2>1. VertexCounted(g, root, s, q, k - 1, x)
    BY <1>0 DEF StageInv
  <2>2. /\ Cardinality(PlacesAfter(q, x, k)) \in Nat
        /\ Cardinality(PlacesAfter(q, x, k - 1)) = Cardinality(PlacesAfter(q, x, k)) + Same(x, v)
    BY <1>0, OnePlaceLess
  <2>3. ValueOf(t.teams, x) = ValueOf(s.teams, x) + Same(x, v)
    BY <1>1, <1>2, <1>3, CountedOnce
  <2>4. Occurrences(s.next, x) \in Nat /\ ValueOf(s.actions, x) \in Nat /\ ValueOf(s.teams, x) \in Nat
    BY <1>3, OccurrenceFacts, CountersFacts
  <2>5. Same(x, v) \in Nat /\ (~ IsTeam(g, x) => Same(x, v) = 0) /\ Same(x, root) \in Nat
    BY <1>1 DEF Same, TeamsIn
  <2>6. Uses(g, t, x) = Uses(g, s, x) + Same(x, v) /\ Uses(g, s, x) \in Nat
    BY <1>2, <2>3, <2>4, <2>5 DEF Uses
  <2>7. CASE v \in D
    <3>1. DOMAIN t.teams = DOMAIN s.teams /\ t.next = s.next
      BY <1>2, <1>4, <2>7
    <3> HIDE DEF v
    <3>2. Uses(g, t, x) + Cardinality(PlacesAfter(q, x, k)) + Occurrences(t.next, x)
             = Uses(g, s, x) + Cardinality(PlacesAfter(q, x, k - 1)) + Occurrences(s.next, x)
      BY <2>2, <2>4, <2>5, <2>6, <3>1
    <3> QED BY <2>1, <3>1, <3>2 DEF VertexCounted
  <2>8. CASE v \notin D
    <3>1. t.next = s.next \o Destinations(g, v)
      BY <1>2, <2>8
    <3>2. Destinations(g, v) \in Seq(ToSet(g.vertices))
      BY DestinationFacts
    <3>3. Occurrences(t.next, x) = Occurrences(s.next, x) + Occurrences(Destinations(g, v), x)
      BY <1>3, <3>1, <3>2, OccurrencesInBoth
    <3>4. Occurrences(Destinations(g, v), x) = Cardinality(EdgesTo(g, {v}, x))
      BY DestinationFacts
    <3>5. /\ Cardinality(EdgesTo(g, D, x)) \in Nat /\ Cardinality(EdgesTo(g, {v}, x)) \in Nat
          /\ Cardinality(EdgesTo(g, DOMAIN t.teams, x))
                = Cardinality(EdgesTo(g, D, x)) + Cardinality(EdgesTo(g, {v}, x))
      <4>1. OneMore(DOMAIN t.teams, D, v)
        BY <1>4, <2>8 DEF OneMore
      <4> HIDE DEF v, D
      <4> QED BY <4>1, OneTeamMore
    <3>6. Uses(g, s, x) + Cardinality(PlacesAfter(q, x, k - 1)) + Occurrences(s.next, x)
             = Same(x, root) + Cardinality(EdgesTo(g, D, x))
      BY <2>1 DEF VertexCounted
    <3> HIDE DEF v, D
    <3>7. Uses(g, t, x) + Cardinality(PlacesAfter(q, x, k))
             = Uses(g, s, x) + Cardinality(PlacesAfter(q, x, k - 1))
      BY <2>2, <2>5, <2>6
    <3>8. Occurrences(t.next, x) = Occurrences(s.next, x) + Cardinality(EdgesTo(g, {v}, x))
      BY <3>3, <3>4
    <3>9. Uses(g, s, x) + Cardinality(PlacesAfter(q, x, k - 1)) \in Nat
      BY <2>2, <2>5, <2>6
    <3>10. Uses(g, t, x) + Cardinality(PlacesAfter(q, x, k)) + Occurrences(t.next, x)
              = Same(x, root) + Cardinality(EdgesTo(g, DOMAIN t.teams, x))
      <4> DEFINE a == Uses(g, s, x) + Cardinality(PlacesAfter(q, x, k - 1))
                 b == Occurrences(s.next, x)
                 c == Same(x, root)
                 d == Cardinality(EdgesTo(g, D, x))
                 m == Cardinality(EdgesTo(g, {v}, x))
      <4>1. a \in Nat /\ b \in Nat /\ c \in Nat /\ d \in Nat /\ m \in Nat /\ a + b = c + d
        BY <2>4, <2>5, <3>5, <3>6, <3>9
      <4>2. /\ Uses(g, t, x) + Cardinality(PlacesAfter(q, x, k)) = a /\ Occurrences(t.next, x) = b + m
            /\ Cardinality(EdgesTo(g, DOMAIN t.teams, x)) = d + m
        BY <3>5, <3>7, <3>8
      <4> HIDE DEF a, b, c, d, m
      <4>3. a + (b + m) = c + (d + m)
        BY <4>1
      <4> QED BY <4>2, <4>3 DEF c
    <3> QED BY <3>10 DEF VertexCounted
  <2> QED BY <2>7, <2>8
<1>6. ASSUME NEW p PROVE ProgramCounted(g, t, p)
  <2>1. ValueOf(s.programs, p) = Cardinality(EdgesWith(g, D, p))
    BY <1>0 DEF StageInv, ProgramCounted
  <2>2. CASE v \in D
    <3>1. DOMAIN t.teams = D /\ t.programs = s.programs
      BY <1>2, <1>4, <2>2
    <3> QED BY <2>1, <3>1 DEF ProgramCounted
  <2>3. CASE v \notin D
    <3>1. ValueOf(t.programs, p) = ValueOf(s.programs, p) + Cardinality(EdgesWith(g, {v}, p))
      BY <1>2, <2>3 DEF ProgramsAdded
    <3>2. Cardinality(EdgesWith(g, DOMAIN t.teams, p))
             = Cardinality(EdgesWith(g, D, p)) + Cardinality(EdgesWith(g, {v}, p))
      <4>1. OneMore(DOMAIN t.teams, D, v)
        BY <1>4, <2>3 DEF OneMore
      <4> HIDE DEF v, D
      <4> QED BY <4>1, OneTeamsPrograms
    <3> QED BY <2>1, <3>1, <3>2 DEF ProgramCounted
  <2> QED BY <2>2, <2>3
<1> QED BY <1>2, <1>4, <1>5, <1>6 DEF StageInv, UsedIn

ScanOf(g, base, q) == FoldLeft(LAMBDA stats, vertex : AnalyzeVertex(g, stats, vertex), base, q)

LEMMA StageChain ==
    ASSUME NEW g, Proper(g), HasPrograms(g), NEW q \in Seq(ToSet(g.vertices)),
           NEW base \in StatsType(g)
    PROVE  \E c : /\ \A i \in 0 .. Len(q) : c[i] \in StatsType(g)
                  /\ c[0] = base /\ \A i \in 1 .. Len(q) : c[i] = AnalyzeVertex(g, c[i - 1], q[i])
                  /\ ScanOf(g, base, q) = c[Len(q)]
<1> DEFINE n == Len(q)
           X == StatsType(g)
           Step(g0) == [s \in SUBSET DOMAIN q |->
                         IF s = {} THEN base ELSE AnalyzeVertex(g, g0[s \ {Max(s)}], q[Max(s)])]
           f == CHOOSE g0 : g0 = Step(g0)
           H == [i \in 1 .. n |-> [x \in X |-> AnalyzeVertex(g, x, q[i])]]
<1>1. ScanOf(g, base, q) = f[DOMAIN q]
  BY DEF FoldLeft, MapThenFoldSet, ScanOf
<1>2. n \in Nat /\ DOMAIN q = 1 .. n /\ base \in X /\ \A i \in 1 .. n : q[i] \in ToSet(g.vertices)
  BY LenProperties, ElementOfSeq
<1>3. H \in [1 .. n -> [X -> X]]
  <2> HIDE DEF X, n
  <2>1. \A i \in 1 .. n : \A x \in X : AnalyzeVertex(g, x, q[i]) \in X
    BY <1>2, VertexTyped DEF X
  <2> QED BY <2>1
<1> HIDE DEF X, H, n
<1>4. PICK v \in [SUBSET (1 .. n) -> X] : IsSeqFold(v, n, base, H)
  BY <1>2, <1>3, SeqFoldExists
<1>5. v = Step(v)
  <2>1. ASSUME NEW s \in SUBSET (1 .. n), s # {} PROVE v[s] = AnalyzeVertex(g, v[s \ {Max(s)}], q[Max(s)])
    <3>1. Max(s) \in 1 .. n /\ v[s \ {Max(s)}] \in X
      BY <1>2, <2>1, LastOfSubset
    <3> QED BY <1>4, <2>1, <3>1 DEF H, IsSeqFold
  <2>2. v[{}] = base
    BY <1>4 DEF IsSeqFold
  <2>3. \A s \in SUBSET (1 .. n) : v[s] = IF s = {} THEN base ELSE AnalyzeVertex(g, v[s \ {Max(s)}], q[Max(s)])
    BY <2>1, <2>2
  <2> QED BY <1>2, <2>3
<1>6. f = Step(f)
  BY <1>5
<1> HIDE DEF f
<1>7. ASSUME NEW s \in SUBSET (1 .. n) PROVE f[s] = IF s = {} THEN base ELSE AnalyzeVertex(g, f[s \ {Max(s)}], q[Max(s)])
  BY <1>2, <1>6
<1> DEFINE c == [i \in 0 .. n |-> f[1 .. i]]
<1>8. c[0] = base /\ ScanOf(g, base, q) = c[n] /\ n \in 0 .. n
  BY <1>1, <1>2, <1>7, StepsOfInterval
<1>9. ASSUME NEW i \in 1 .. n PROVE c[i] = AnalyzeVertex(g, c[i - 1], q[i])
  <2>1. /\ (1 .. i) \in SUBSET (1 .. n) /\ 1 .. i # {} /\ i \in 0 .. n /\ i - 1 \in 0 .. n
        /\ Max(1 .. i) = i /\ (1 .. i) \ {i} = 1 .. (i - 1)
    BY <1>2, StepsOfInterval
  <2> QED BY <1>7, <2>1
<1> HIDE DEF c
<1>10. TypedSteps(c, n, base, H, X)
  BY <1>8, <1>9 DEF H, TypedSteps
<1>11. \A i \in 0 .. n : c[i] \in X
  BY <1>2, <1>3, <1>8, <1>10, TypedChain
<1> QED BY <1>8, <1>9, <1>11 DEF n, X

(* What holds after the first k vertices of a stage *)
ScanInv(g, root, base, s, q, k) ==
    /\ StageInv(g, root, s, q, k)
    /\ UsedIn(s) = UsedIn(base) \cup {q[i] : i \in 1 .. k}
    /\ s.stage = base.stage /\ s.levels = base.levels
    /\ DOMAIN base.teams \subseteq DOMAIN s.teams
    /\ s.next # <<>> => DOMAIN s.teams # DOMAIN base.teams

LEMMA ScanStep ==
    ASSUME NEW g, Proper(g), HasPrograms(g), NEW root, NEW base, NEW s \in StatsType(g),
           NEW q \in Seq(ToSet(g.vertices)),
           NEW k \in 1 .. Len(q), ScanInv(g, root, base, s, q, k - 1),
           NEW t, t = AnalyzeVertex(g, s, q[k])
    PROVE  ScanInv(g, root, base, t, q, k)
<1>1. AnalyzedNext(g, root, s, q, k, t)
  BY DEF ScanInv, AnalyzedNext
<1>2. {q[i] : i \in 1 .. k} = {q[i] : i \in 1 .. (k - 1)} \cup {q[k]}
  <2>1. 1 .. k = 1 .. (k - 1) \cup {k}
    BY LenProperties
  <2> QED BY <2>1
<1>3. CASE IsAction(g, q[k])
  <2>1. /\ StageInv(g, root, t, q, k) /\ UsedIn(t) = UsedIn(s) \cup {q[k]}
        /\ t.teams = s.teams /\ t.next = s.next /\ t.stage = s.stage /\ t.levels = s.levels
    BY <1>1, <1>3, ActionCounted
  <2> QED BY <1>2, <2>1 DEF ScanInv
<1>4. CASE IsTeam(g, q[k])
  <2>1. /\ StageInv(g, root, t, q, k) /\ UsedIn(t) = UsedIn(s) \cup {q[k]}
        /\ DOMAIN t.teams = DOMAIN s.teams \cup {q[k]}
        /\ q[k] \in DOMAIN s.teams => t.next = s.next
        /\ t.stage = s.stage /\ t.levels = s.levels
    BY <1>1, <1>4, TeamCounted
  <2>2. t.next # <<>> => DOMAIN t.teams # DOMAIN base.teams
    <3>1. CASE q[k] \in DOMAIN s.teams
      <4>1. DOMAIN t.teams = DOMAIN s.teams /\ t.next = s.next
        BY <2>1, <3>1
      <4> QED BY <4>1 DEF ScanInv
    <3>2. CASE q[k] \notin DOMAIN s.teams
      BY <2>1, <3>2 DEF ScanInv
    <3> QED BY <3>1, <3>2
  <2> QED BY <1>2, <2>1, <2>2 DEF ScanInv
<1> QED BY <1>3, <1>4 DEF IsAction, IsTeam

LEMMA StageScanned ==
    ASSUME NEW g, Proper(g), HasPrograms(g), NEW root, NEW base \in StatsType(g), base.next = <<>>,
           NEW q \in Seq(ToSet(g.vertices)), StageInv(g, root, base, q, 0)
    PROVE  ScanOf(g, base, q) \in StatsType(g) /\ ScanInv(g, root, base, ScanOf(g, base, q), q, Len(q))
<1>1. PICK c : /\ \A i \in 0 .. Len(q) : c[i] \in StatsType(g)
               /\ c[0] = base /\ \A i \in 1 .. Len(q) : c[i] = AnalyzeVertex(g, c[i - 1], q[i])
               /\ ScanOf(g, base, q) = c[Len(q)]
  BY StageChain
<1>2. PICK n \in Nat : n = Len(q)
  BY LenProperties
<1> DEFINE B == {k \in 0 .. n : ~ ScanInv(g, root, base, c[k], q, k)}
<1>3. 0 \notin B
  <2>1. {q[i] : i \in 1 .. 0} = {}
    BY StepsOfInterval
  <2>2. ScanInv(g, root, base, c[0], q, 0)
    BY <1>1, <2>1 DEF ScanInv
  <2> QED BY <2>2
<1>4. ASSUME NEW k \in 1 .. n, k \in B PROVE k - 1 \in B
  <2> SUFFICES ASSUME ScanInv(g, root, base, c[k - 1], q, k - 1) PROVE FALSE
    BY <1>2
  <2>1. c[k - 1] \in StatsType(g) /\ c[k] = AnalyzeVertex(g, c[k - 1], q[k]) /\ k \in 1 .. Len(q)
    BY <1>1, <1>2
  <2>2. ScanInv(g, root, base, c[k], q, k)
    BY <2>1, ScanStep
  <2> QED BY <1>4, <2>2
<1>5. B = {}
  <2>1. B \in SUBSET (0 .. n)
    OBVIOUS
  <2> HIDE DEF B
  <2> QED BY <1>3, <1>4, <2>1, NoFirstFailure
<1> QED BY <1>1, <1>2, <1>5

(* What holds between two stages *)
BetweenStages(g, root, s) ==
    /\ \A x \in ToSet(g.vertices) :
          Uses(g, s, x) + Occurrences(s.stage, x) = Same(x, root) + Cardinality(EdgesTo(g, DOMAIN s.teams, x))
    /\ \A p : ProgramCounted(g, s, p)

StageDone(g, s, t) ==
    /\ UsedIn(t) = UsedIn(s) \cup ToSet(s.stage)
    /\ DOMAIN s.teams \subseteq DOMAIN t.teams
    /\ t.stage # <<>> => DOMAIN t.teams # DOMAIN s.teams
    /\ t.levels = Append(s.levels, Len(s.stage))

LEMMA UsesAreNat ==
    ASSUME NEW g, NEW s \in StatsType(g), NEW x
    PROVE  Uses(g, s, x) \in Nat
<1>1. s.teams \in CountersOf(TeamsIn(g)) /\ s.actions \in CountersOf(ActionsIn(g))
  BY DEF StatsType
<1> QED BY <1>1, CountersFacts DEF Uses

LEMMA StageAnalyzed ==
    ASSUME NEW g, Proper(g), HasPrograms(g), NEW root, NEW s \in StatsType(g), s.stage # <<>>,
           BetweenStages(g, root, s), NEW t, t = AnalyzeStage(g, s)
    PROVE  t \in StatsType(g) /\ BetweenStages(g, root, t) /\ StageDone(g, s, t)
<1> DEFINE q == s.stage
           base == [s EXCEPT !.next = <<>>]
           u == ScanOf(g, base, q)
<1>1. /\ q \in Seq(ToSet(g.vertices)) /\ Len(q) \in Nat /\ s.levels \in Seq(Nat)
      /\ DOMAIN s = {"stage", "next", "levels", "edges", "teams", "actions", "actionIDs", "programs"}
  BY LenProperties DEF StatsType
<1>2. /\ base \in StatsType(g) /\ base.next = <<>> /\ base.stage = q /\ base.levels = s.levels
      /\ base.teams = s.teams /\ base.actions = s.actions /\ base.programs = s.programs
  BY <1>1, EmptySeq DEF StatsType
<1>3. t = [u EXCEPT !.levels = Append(u.levels, Len(q)), !.stage = u.next]
  BY DEF AnalyzeStage, ScanOf
<1> HIDE DEF base, q
<1>4. StageInv(g, root, base, q, 0)
  <2>1. ASSUME NEW x \in ToSet(g.vertices) PROVE VertexCounted(g, root, base, q, 0, x)
    <3>1. Uses(g, s, x) + Occurrences(q, x) = Same(x, root) + Cardinality(EdgesTo(g, DOMAIN s.teams, x))
      BY DEF BetweenStages, q
    <3>2. Occurrences(q, x) \in Nat /\ Occurrences(q, x) = Cardinality(PlacesAfter(q, x, 0))
      BY <1>1, OccurrenceFacts
    <3>3. Occurrences(<<>>, x) = 0
      <4>1. {i \in DOMAIN <<>> : <<>>[i] = x} = {}
        OBVIOUS
      <4> QED BY <4>1, FS_EmptySet DEF Occurrences
    <3>4. Uses(g, base, x) = Uses(g, s, x) /\ Uses(g, s, x) \in Nat
      BY <1>2, UsesAreNat DEF Uses
    <3>5. Uses(g, base, x) + Cardinality(PlacesAfter(q, x, 0)) + Occurrences(base.next, x)
             = Same(x, root) + Cardinality(EdgesTo(g, DOMAIN base.teams, x))
      BY <1>2, <3>1, <3>2, <3>3, <3>4
    <3> QED BY <3>5 DEF VertexCounted
  <2>2. \A p : ProgramCounted(g, base, p)
    BY <1>2 DEF BetweenStages, ProgramCounted
  <2> QED BY <2>1, <2>2 DEF StageInv
<1>5. u \in StatsType(g) /\ ScanInv(g, root, base, u, q, Len(q))
  BY <1>1, <1>2, <1>4, StageScanned
<1> HIDE DEF u
<1>6. /\ u.next \in Seq(ToSet(g.vertices)) /\ u.levels = s.levels
      /\ DOMAIN u = {"stage", "next", "levels", "edges", "teams", "actions", "actionIDs", "programs"}
  BY <1>2, <1>5 DEF StatsType, ScanInv
<1>7. Append(u.levels, Len(q)) \in Seq(Nat)
  BY <1>1, <1>6, AppendProperties
<1>8. /\ t.stage = u.next /\ t.teams = u.teams /\ t.actions = u.actions /\ t.programs = u.programs
      /\ t.levels = Append(s.levels, Len(q))
  BY <1>3, <1>6
<1>9. t \in StatsType(g)
  BY <1>3, <1>5, <1>6, <1>7 DEF StatsType
<1>10. BetweenStages(g, root, t)
  <2>1. ASSUME NEW x \in ToSet(g.vertices)
        PROVE  Uses(g, t, x) + Occurrences(t.stage, x)
                  = Same(x, root) + Cardinality(EdgesTo(g, DOMAIN t.teams, x))
    <3>1. Uses(g, u, x) + Cardinality(PlacesAfter(q, x, Len(q))) + Occurrences(u.next, x)
             = Same(x, root) + Cardinality(EdgesTo(g, DOMAIN u.teams, x))
      BY <1>5 DEF ScanInv, StageInv, VertexCounted
    <3>2. Cardinality(PlacesAfter(q, x, Len(q))) = 0
      BY <1>1, OccurrenceFacts
    <3>3. Uses(g, t, x) = Uses(g, u, x) /\ Uses(g, u, x) \in Nat
      BY <1>5, <1>8, UsesAreNat DEF Uses
    <3>4. Uses(g, u, x) + Cardinality(PlacesAfter(q, x, Len(q))) = Uses(g, t, x)
      BY <3>2, <3>3
    <3> QED BY <1>8, <3>1, <3>4
  <2>2. \A p : ProgramCounted(g, t, p)
    BY <1>5, <1>8 DEF ScanInv, StageInv, ProgramCounted
  <2> QED BY <2>1, <2>2 DEF BetweenStages
<1>11. StageDone(g, s, t)
  <2>1. ToSet(q) = {q[i] : i \in 1 .. Len(q)}
    BY <1>1, LenProperties DEF ToSet
  <2>2. UsedIn(u) = UsedIn(base) \cup ToSet(q) /\ UsedIn(t) = UsedIn(u) /\ UsedIn(base) = UsedIn(s)
    BY <1>2, <1>5, <1>8, <2>1 DEF ScanInv, UsedIn
  <2>3. /\ DOMAIN base.teams \subseteq DOMAIN u.teams
        /\ u.next # <<>> => DOMAIN u.teams # DOMAIN base.teams
    BY <1>5 DEF ScanInv
  <2> QED BY <1>2, <1>8, <2>2, <2>3 DEF StageDone, q
<1> QED BY <1>9, <1>10, <1>11

-----------------------------------------------------------------------------
(* The vertices within n edges of others, one edge after the other *)

ReachNext(g, S) == S \cup {e.dst : e \in {x \in ToSet(g.edges) : x.src \in S}}

IsReach(c, g, vs, N) ==
    /\ c[0] = vs /\ \A i \in 1 .. N : c[i] = ReachNext(g, c[i - 1])
    /\ \A n \in 0 .. N : Within(g, vs, n) = c[n]

LEMMA WithinChain ==
    ASSUME NEW g, NEW vs, NEW N \in Nat
    PROVE  \E c : IsReach(c, g, vs, N)
<1> DEFINE U == vs \cup {e.dst : e \in ToSet(g.edges)}
           X == SUBSET U
           H == [i \in 1 .. N |-> [S \in X |-> ReachNext(g, S)]]
<1>1. vs \in X /\ H \in [1 .. N -> [X -> X]]
  BY DEF ReachNext
<1> HIDE DEF X, H
<1>2. PICK v \in [SUBSET (1 .. N) -> X] : IsSeqFold(v, N, vs, H)
  BY <1>1, SeqFoldExists
<1> DEFINE c == [i \in 0 .. N |-> v[1 .. i]]
<1>3. c[0] = vs
  <2>1. 1 .. 0 = {} /\ 0 \in 0 .. N
    BY StepsOfInterval
  <2> QED BY <1>2, <2>1 DEF IsSeqFold
<1>4. ASSUME NEW i \in 1 .. N PROVE c[i] = ReachNext(g, c[i - 1])
  <2>1. /\ (1 .. i) \in SUBSET (1 .. N) /\ 1 .. i # {} /\ i \in 0 .. N /\ i - 1 \in 0 .. N
        /\ Max(1 .. i) = i /\ (1 .. i) \ {i} = 1 .. (i - 1)
    BY StepsOfInterval
  <2>2. v[1 .. i] = H[i][v[1 .. (i - 1)]]
    BY <1>2, <2>1 DEF IsSeqFold
  <2>3. v[1 .. (i - 1)] \in X
    BY <2>1
  <2> QED BY <2>1, <2>2, <2>3 DEF H
<1>5. ASSUME NEW n \in 0 .. N PROVE Within(g, vs, n) = c[n]
  <2> DEFINE Step(f) == [m \in 0 .. n |->
                           IF m = 0 THEN vs
                           ELSE f[m - 1] \cup {e.dst : e \in {x \in ToSet(g.edges) : x.src \in f[m - 1]}}]
             r == CHOOSE f : f = Step(f)
             d == [m \in 0 .. n |-> c[m]]
  <2>1. Within(g, vs, n) = r[n]
    BY DEF Within
  <2> HIDE DEF c
  <2>2. d = Step(d)
    <3>1. ASSUME NEW m \in 0 .. n, m # 0
          PROVE  d[m] = d[m - 1] \cup {e.dst : e \in {x \in ToSet(g.edges) : x.src \in d[m - 1]}}
      <4>1. m \in 1 .. N /\ m - 1 \in 0 .. n
        BY <3>1
      <4>2. c[m] = ReachNext(g, c[m - 1])
        BY <1>4, <4>1
      <4> QED BY <4>1, <4>2 DEF ReachNext
    <3>2. 0 \in 0 .. n
      OBVIOUS
    <3> QED BY <1>3, <3>1, <3>2
  <2>3. r = Step(r)
    BY <2>2
  <2> HIDE DEF r
  <2>4. r[0] = vs /\ \A m \in 1 .. n : r[m] = ReachNext(g, r[m - 1])
    <3>1. r = [m \in 0 .. n |->
                 IF m = 0 THEN vs
                 ELSE r[m - 1] \cup {e.dst : e \in {x \in ToSet(g.edges) : x.src \in r[m - 1]}}]
      BY <2>3
    <3>2. 0 \in 0 .. n /\ \A m \in 1 .. n : m \in 0 .. n /\ m # 0
      OBVIOUS
    <3> HIDE DEF Step
    <3>3. r[0] = vs
      BY <3>1, <3>2
    <3>4. ASSUME NEW m \in 1 .. n PROVE r[m] = ReachNext(g, r[m - 1])
      BY <3>1, <3>2 DEF ReachNext
    <3> QED BY <3>3, <3>4
  <2> DEFINE B == {m \in 0 .. n : r[m] # c[m]}
  <2>5. 0 \notin B
    BY <1>3, <2>4
  <2>6. ASSUME NEW m \in 1 .. n, m \in B PROVE m - 1 \in B
    <3>1. m \in 1 .. N /\ m - 1 \in 0 .. n
      OBVIOUS
    <3>2. c[m] = ReachNext(g, c[m - 1]) /\ r[m] = ReachNext(g, r[m - 1])
      BY <1>4, <2>4, <3>1
    <3> QED BY <2>6, <3>1, <3>2
  <2>7. B = {}
    <3>1. B \in SUBSET (0 .. n) /\ n \in Nat
      OBVIOUS
    <3> HIDE DEF B
    <3> QED BY <2>5, <2>6, <3>1, NoFirstFailure
  <2>8. n \in 0 .. n
    OBVIOUS
  <2> QED BY <2>1, <2>7, <2>8
<1> HIDE DEF c
<1> QED BY <1>3, <1>4, <1>5 DEF IsReach

LEMMA WithinFacts ==
    ASSUME NEW g, NEW vs, NEW n \in Nat
    PROVE  /\ Within(g, vs, 0) = vs
           /\ Within(g, vs, n + 1) = ReachNext(g, Within(g, vs, n))
           /\ vs \subseteq Within(g, vs, n)
<1>0. PICK c : IsReach(c, g, vs, n + 1)
  BY WithinChain
<1>1. /\ c[0] = vs /\ \A i \in 1 .. n + 1 : c[i] = ReachNext(g, c[i - 1])
      /\ \A m \in 0 .. n + 1 : Within(g, vs, m) = c[m]
  BY <1>0 DEF IsReach
<1>2. /\ 0 \in 0 .. n + 1 /\ n \in 0 .. n + 1 /\ n + 1 \in 1 .. n + 1 /\ n + 1 \in 0 .. n + 1
      /\ (n + 1) - 1 = n
  OBVIOUS
<1>3. Within(g, vs, 0) = vs /\ Within(g, vs, n + 1) = ReachNext(g, Within(g, vs, n))
  BY <1>1, <1>2
<1>4. vs \subseteq c[n]
  <2> DEFINE B == {m \in 0 .. n : ~ (vs \subseteq c[m])}
  <2>1. 0 \notin B
    BY <1>1
  <2>2. ASSUME NEW m \in 1 .. n, m \in B PROVE m - 1 \in B
    <3>1. m \in 1 .. n + 1 /\ m - 1 \in 0 .. n
      OBVIOUS
    <3>2. c[m] = ReachNext(g, c[m - 1])
      BY <1>1, <3>1
    <3> QED BY <2>2, <3>1, <3>2 DEF ReachNext
  <2>3. B = {}
    <3>1. B \in SUBSET (0 .. n)
      OBVIOUS
    <3> HIDE DEF B
    <3> QED BY <2>1, <2>2, <3>1, NoFirstFailure
  <2>4. n \in 0 .. n
    OBVIOUS
  <2> QED BY <2>3, <2>4
<1> QED BY <1>1, <1>2, <1>3, <1>4

(* What one more edge does not extend is not extended by any number of edges. *)
LEMMA WithinStays ==
    ASSUME NEW g, NEW vs, NEW n \in Nat, NEW N \in Nat, n <= N, Within(g, vs, n + 1) = Within(g, vs, n)
    PROVE  Within(g, vs, N) = Within(g, vs, n)
<1> DEFINE d == N - n
           B == {m \in 0 .. d : Within(g, vs, n + m) # Within(g, vs, n)}
<1>1. d \in Nat /\ n + d = N /\ n + 0 = n
  OBVIOUS
<1> HIDE DEF d
<1>2. 0 \notin B
  BY <1>1
<1>3. ASSUME NEW m \in 1 .. d, m \in B PROVE m - 1 \in B
  <2> SUFFICES ASSUME Within(g, vs, n + (m - 1)) = Within(g, vs, n) PROVE FALSE
    BY <1>1
  <2>1. n + (m - 1) \in Nat /\ (n + (m - 1)) + 1 = n + m
    BY <1>1
  <2>2. Within(g, vs, n + m) = ReachNext(g, Within(g, vs, n + (m - 1)))
    <3> DEFINE j == n + (m - 1)
    <3>1. j \in Nat /\ j + 1 = n + m
      BY <2>1
    <3> HIDE DEF j
    <3>2. Within(g, vs, j + 1) = ReachNext(g, Within(g, vs, j))
      BY <3>1, WithinFacts
    <3> QED BY <3>1, <3>2 DEF j
  <2>3. Within(g, vs, n + 1) = ReachNext(g, Within(g, vs, n))
    BY WithinFacts
  <2> QED BY <1>3, <2>2, <2>3
<1>4. B = {}
  <2>1. B \in SUBSET (0 .. d)
    OBVIOUS
  <2> HIDE DEF B
  <2> QED BY <1>1, <1>2, <1>3, <2>1, NoFirstFailure
<1>5. d \in 0 .. d
  BY <1>1
<1> QED BY <1>1, <1>4, <1>5

-----------------------------------------------------------------------------
(* The stages of a policy *)

StagesType(g, root) == {s \in StatsType(g) : BetweenStages(g, root, s)}

FirstStage(root) == [stage |-> <<root>>, next |-> <<>>, levels |-> <<>>, edges |-> <<>>,
                     teams |-> <<>>, actions |-> <<>>, actionIDs |-> <<>>, programs |-> <<>>]

LEMMA NextStageTyped ==
    ASSUME NEW g, Proper(g), HasPrograms(g), NEW root, NEW s \in StagesType(g, root)
    PROVE  AnalyzeStage(g, s) \in StagesType(g, root)
<1>1. s \in StatsType(g) /\ BetweenStages(g, root, s)
  BY DEF StagesType
<1>2. CASE s.stage = <<>>
  BY <1>2 DEF AnalyzeStage
<1>3. CASE s.stage # <<>>
  <2>1. PICK t : t = AnalyzeStage(g, s)
    OBVIOUS
  <2>2. t \in StatsType(g) /\ BetweenStages(g, root, t)
    BY <1>1, <1>3, <2>1, StageAnalyzed
  <2> QED BY <2>1, <2>2 DEF StagesType
<1> QED BY <1>2, <1>3

LEMMA FirstStageTyped ==
    ASSUME NEW g, Proper(g), NEW root \in ToSet(g.vertices)
    PROVE  FirstStage(root) \in StagesType(g, root)
<1> DEFINE s == FirstStage(root)
<1>1. ASSUME NEW K PROVE <<>> \in CountersOf(K)
  <2>1. <<>> \in [{} -> Nat \ {0}] /\ {} \in SUBSET K
    OBVIOUS
  <2> QED BY <2>1 DEF CountersOf
<1>2. <<root>> \in Seq(ToSet(g.vertices)) /\ <<>> \in Seq(ToSet(g.vertices)) /\ <<>> \in Seq(Nat)
  BY EmptySeq
<1>3. s \in StatsType(g)
  BY <1>1, <1>2 DEF StatsType, FirstStage
<1>4. ASSUME NEW x \in ToSet(g.vertices)
      PROVE  Uses(g, s, x) + Occurrences(s.stage, x) = Same(x, root) + Cardinality(EdgesTo(g, DOMAIN s.teams, x))
  <2>1. Uses(g, s, x) = 0
    BY DEF Uses, ValueOf, FirstStage
  <2>2. Cardinality(EdgesTo(g, DOMAIN s.teams, x)) = 0
    <3>1. EdgesTo(g, DOMAIN s.teams, x) = {}
      BY DEF EdgesTo, FirstStage
    <3> QED BY <3>1, FS_EmptySet
  <2>3. Occurrences(<<root>>, x) = Same(x, root)
    <3>1. {i \in DOMAIN <<root>> : <<root>>[i] = x} = IF x = root THEN {1} ELSE {}
      OBVIOUS
    <3> QED BY <3>1, FS_EmptySet, FS_Singleton DEF Occurrences, Same
  <2>4. s.stage = <<root>> /\ Same(x, root) \in Nat
    BY DEF FirstStage, Same
  <2> HIDE DEF s
  <2> QED BY <2>1, <2>2, <2>3, <2>4
<1>5. ASSUME NEW p PROVE ProgramCounted(g, s, p)
  <2>1. EdgesWith(g, DOMAIN s.teams, p) = {}
    BY DEF EdgesWith, FirstStage
  <2>2. ValueOf(s.programs, p) = 0
    BY DEF ValueOf, FirstStage
  <2> QED BY <2>1, <2>2, FS_EmptySet DEF ProgramCounted
<1> QED BY <1>3, <1>4, <1>5 DEF StagesType, BetweenStages

LEMMA StagesChain ==
    ASSUME NEW g, Proper(g), HasPrograms(g), NEW root \in ToSet(g.vertices)
    PROVE  \E c : /\ \A i \in 0 .. (Len(g.vertices) + 1) : c[i] \in StagesType(g, root)
                  /\ c[0] = FirstStage(root) /\ \A i \in 1 .. (Len(g.vertices) + 1) : c[i] = AnalyzeStage(g, c[i - 1])
                  /\ AnalyzePolicy(g, root) = c[(Len(g.vertices) + 1)]
<1> DEFINE n == (Len(g.vertices) + 1)
           X == StagesType(g, root)
           Step(g0) == [s \in SUBSET DOMAIN [i \in 1 .. Len(g.vertices) + 1 |-> i] |->
                         IF s = {} THEN FirstStage(root) ELSE AnalyzeStage(g, g0[s \ {Max(s)}])]
           f == CHOOSE g0 : g0 = Step(g0)
           H == [i \in 1 .. n |-> [x \in X |-> AnalyzeStage(g, x)]]
<1>1. AnalyzePolicy(g, root) = f[DOMAIN [i \in 1 .. Len(g.vertices) + 1 |-> i]]
  BY DEF FoldLeft, MapThenFoldSet, AnalyzePolicy, FirstStage
<1>2. n \in Nat /\ DOMAIN [i \in 1 .. Len(g.vertices) + 1 |-> i] = 1 .. n /\ FirstStage(root) \in X
  BY GraphFacts, LenProperties, FirstStageTyped
<1>3. H \in [1 .. n -> [X -> X]]
  <2> HIDE DEF X, n
  <2>1. \A x \in X : AnalyzeStage(g, x) \in X
    BY NextStageTyped DEF X
  <2> QED BY <2>1
<1> HIDE DEF X, H, n
<1>4. PICK v \in [SUBSET (1 .. n) -> X] : IsSeqFold(v, n, FirstStage(root), H)
  BY <1>2, <1>3, SeqFoldExists
<1>5. v = Step(v)
  <2>1. ASSUME NEW s \in SUBSET (1 .. n), s # {} PROVE v[s] = AnalyzeStage(g, v[s \ {Max(s)}])
    <3>1. Max(s) \in 1 .. n /\ v[s \ {Max(s)}] \in X
      BY <1>2, <2>1, LastOfSubset
    <3> QED BY <1>4, <2>1, <3>1 DEF H, IsSeqFold
  <2>2. v[{}] = FirstStage(root)
    BY <1>4 DEF IsSeqFold
  <2>3. \A s \in SUBSET (1 .. n) : v[s] = IF s = {} THEN FirstStage(root) ELSE AnalyzeStage(g, v[s \ {Max(s)}])
    BY <2>1, <2>2
  <2> QED BY <1>2, <2>3
<1>6. f = Step(f)
  BY <1>5
<1> HIDE DEF f
<1>7. ASSUME NEW s \in SUBSET (1 .. n) PROVE f[s] = IF s = {} THEN FirstStage(root) ELSE AnalyzeStage(g, f[s \ {Max(s)}])
  BY <1>2, <1>6
<1> DEFINE c == [i \in 0 .. n |-> f[1 .. i]]
<1>8. c[0] = FirstStage(root) /\ AnalyzePolicy(g, root) = c[n] /\ n \in 0 .. n
  BY <1>1, <1>2, <1>7, StepsOfInterval
<1>9. ASSUME NEW i \in 1 .. n PROVE c[i] = AnalyzeStage(g, c[i - 1])
  <2>1. /\ (1 .. i) \in SUBSET (1 .. n) /\ 1 .. i # {} /\ i \in 0 .. n /\ i - 1 \in 0 .. n
        /\ Max(1 .. i) = i /\ (1 .. i) \ {i} = 1 .. (i - 1)
    BY <1>2, StepsOfInterval
  <2> QED BY <1>7, <2>1
<1> HIDE DEF c
<1>10. TypedSteps(c, n, FirstStage(root), H, X)
  BY <1>8, <1>9 DEF H, TypedSteps
<1>11. \A i \in 0 .. n : c[i] \in X
  BY <1>2, <1>3, <1>8, <1>10, TypedChain
<1> QED BY <1>8, <1>9, <1>11 DEF n, X

LEMMA UsedOrStaged ==
    ASSUME NEW g, Proper(g), NEW root, NEW s \in StagesType(g, root), NEW x \in ToSet(g.vertices)
    PROVE  /\ Uses(g, s, x) > 0 <=> x \in UsedIn(s)
           /\ x \in UsedIn(s) \cup ToSet(s.stage) <=> x = root \/ EdgesTo(g, DOMAIN s.teams, x) # {}
<1>1. /\ s.teams \in CountersOf(TeamsIn(g)) /\ s.actions \in CountersOf(ActionsIn(g))
      /\ s.stage \in Seq(ToSet(g.vertices)) /\ s \in StatsType(g)
  BY DEF StagesType, StatsType
<1>2. /\ DOMAIN s.teams \subseteq TeamsIn(g) /\ DOMAIN s.actions \subseteq ActionsIn(g)
      /\ ValueOf(s.teams, x) > 0 <=> x \in DOMAIN s.teams
      /\ ValueOf(s.actions, x) > 0 <=> x \in DOMAIN s.actions
  BY <1>1, CountersFacts
<1>3. Uses(g, s, x) > 0 <=> x \in UsedIn(s)
  <2>1. CASE IsTeam(g, x)
    <3>1. x \notin ActionsIn(g)
      BY <2>1 DEF ActionsIn, IsAction, IsTeam
    <3> QED BY <1>2, <2>1, <3>1 DEF Uses, UsedIn
  <2>2. CASE ~ IsTeam(g, x)
    <3>1. x \notin TeamsIn(g)
      BY <2>2 DEF TeamsIn
    <3> QED BY <1>2, <2>2, <3>1 DEF Uses, UsedIn
  <2> QED BY <2>1, <2>2
<1> DEFINE u == Uses(g, s, x)
           o == Occurrences(s.stage, x)
           r == Same(x, root)
           E == EdgesTo(g, DOMAIN s.teams, x)
           n == Cardinality(E)
<1>4. u + o = r + n
  BY DEF StagesType, BetweenStages
<1>5. u \in Nat /\ o \in Nat /\ (o > 0 <=> x \in ToSet(s.stage))
  BY <1>1, UsesAreNat, OccurrenceFacts
<1>6. r \in Nat /\ (r > 0 <=> x = root)
  BY DEF Same
<1>7. n \in Nat /\ (n > 0 <=> E # {})
  <2>1. IsFiniteSet(ToSet(g.edges)) /\ E \subseteq ToSet(g.edges)
    BY GraphFacts DEF EdgesTo
  <2>2. IsFiniteSet(E)
    BY <2>1, FS_Subset
  <2> HIDE DEF E
  <2>3. n \in Nat /\ (n = 0 <=> E = {})
    BY <2>2, FS_CardinalityType, FS_EmptySet
  <2> HIDE DEF n
  <2> QED BY <2>3
<1> HIDE DEF u, o, r, E, n
<1>8. (u > 0 \/ o > 0) <=> (r > 0 \/ n > 0)
  BY <1>4, <1>5, <1>6, <1>7
<1>9. u > 0 <=> x \in UsedIn(s)
  BY <1>3 DEF u
<1> QED BY <1>3, <1>5, <1>6, <1>7, <1>8, <1>9 DEF E

(* The next stage is what one more edge leads to. *)
LEMMA NextReached ==
    ASSUME NEW g, Proper(g), NEW root, NEW s \in StagesType(g, root), root \in UsedIn(s)
    PROVE  UsedIn(s) \cup ToSet(s.stage) = ReachNext(g, UsedIn(s))
<1>1. /\ s.teams \in CountersOf(TeamsIn(g)) /\ s.actions \in CountersOf(ActionsIn(g))
      /\ s.stage \in Seq(ToSet(g.vertices))
  BY DEF StagesType, StatsType
<1>2. DOMAIN s.teams \subseteq TeamsIn(g) /\ DOMAIN s.actions \subseteq ActionsIn(g)
  BY <1>1, CountersFacts
<1>3. UsedIn(s) \subseteq ToSet(g.vertices)
  BY <1>2 DEF UsedIn, TeamsIn, ActionsIn
<1>4. ToSet(s.stage) \subseteq ToSet(g.vertices)
  BY <1>1 DEF ToSet
<1>5. ASSUME NEW e \in ToSet(g.edges) PROVE e.src \in UsedIn(s) <=> e.src \in DOMAIN s.teams
  <2>1. IsTeam(g, e.src)
    BY GraphFacts
  <2> QED BY <1>2, <2>1 DEF UsedIn, ActionsIn, IsAction, IsTeam
<1>6. ASSUME NEW x \in ToSet(g.vertices)
      PROVE  x \in UsedIn(s) \cup ToSet(s.stage) <=> x \in ReachNext(g, UsedIn(s))
  <2>1. x \in UsedIn(s) \cup ToSet(s.stage) <=> x = root \/ EdgesTo(g, DOMAIN s.teams, x) # {}
    BY UsedOrStaged
  <2>2. EdgesTo(g, DOMAIN s.teams, x) # {} <=> x \in {e.dst : e \in {y \in ToSet(g.edges) : y.src \in UsedIn(s)}}
    BY <1>5 DEF EdgesTo
  <2> QED BY <2>1, <2>2 DEF ReachNext
<1>7. ReachNext(g, UsedIn(s)) \subseteq ToSet(g.vertices)
  <2>1. \A e \in ToSet(g.edges) : e.dst \in ToSet(g.vertices)
    BY GraphFacts
  <2> QED BY <1>3, <2>1 DEF ReachNext
<1> QED BY <1>3, <1>4, <1>6, <1>7

(* After k stages: those that had vertices to analyze, *)
NewTeam(g, root, s, n) == \E v \in DOMAIN s.teams : v \notin Within(g, {root}, n)

Scanning(g, root, s, k) ==
    /\ s.stage # <<>> /\ Len(s.levels) = k
    /\ k = 0 => UsedIn(s) = {}
    /\ k > 0 => UsedIn(s) = Within(g, {root}, k - 1)
    /\ UsedIn(s) \cup ToSet(s.stage) = Within(g, {root}, k)
    /\ Cardinality(DOMAIN s.teams) >= k
    /\ k > 1 => NewTeam(g, root, s, k - 2)

(* and those after which nothing was left. *)
Scanned(g, root, s) ==
    /\ s.stage = <<>> /\ Len(s.levels) \in Nat \ {0}
    /\ UsedIn(s) = Within(g, {root}, Len(s.levels) - 1)
    /\ Within(g, {root}, Len(s.levels)) = Within(g, {root}, Len(s.levels) - 1)
    /\ Len(s.levels) > 2 => NewTeam(g, root, s, Len(s.levels) - 3)

LEMMA LastStage ==
    ASSUME NEW g, Proper(g), HasPrograms(g), NEW root \in ToSet(g.vertices), NEW k \in Nat,
           NEW s \in StagesType(g, root), Scanning(g, root, s, k), NEW t, t = AnalyzeStage(g, s)
    PROVE  Scanning(g, root, t, k + 1) \/ (Scanned(g, root, t) /\ Len(t.levels) = k + 1)
<1>1. s \in StatsType(g) /\ BetweenStages(g, root, s) /\ s.stage # <<>>
  BY DEF StagesType, Scanning
<1>2. t \in StagesType(g, root) /\ t \in StatsType(g) /\ StageDone(g, s, t)
  <2>1. t \in StatsType(g) /\ BetweenStages(g, root, t) /\ StageDone(g, s, t)
    BY <1>1, StageAnalyzed
  <2> QED BY <2>1 DEF StagesType
<1>3. UsedIn(t) = Within(g, {root}, k)
  BY <1>2 DEF StageDone, Scanning
<1>4. root \in UsedIn(t)
  <2>1. {root} \subseteq Within(g, {root}, k)
    BY WithinFacts
  <2> QED BY <1>3, <2>1
<1>5. UsedIn(t) \cup ToSet(t.stage) = Within(g, {root}, k + 1)
  <2>1. UsedIn(t) \cup ToSet(t.stage) = ReachNext(g, UsedIn(t))
    BY <1>2, <1>4, NextReached
  <2>2. Within(g, {root}, k + 1) = ReachNext(g, Within(g, {root}, k))
    BY WithinFacts
  <2> QED BY <1>3, <2>1, <2>2
<1>6. Len(t.levels) = k + 1
  <2>1. s.levels \in Seq(Nat) /\ Len(s.levels) = k /\ t.levels = Append(s.levels, Len(s.stage))
    BY <1>1, <1>2 DEF StatsType, StageDone, Scanning
  <2>2. Len(s.stage) \in Nat
    BY <1>1, LenProperties DEF StatsType
  <2> QED BY <2>1, <2>2, AppendProperties
<1>7. CASE t.stage = <<>>
  <2>1. ToSet(t.stage) = {}
    BY <1>7 DEF ToSet
  <2>2. Within(g, {root}, k + 1) = Within(g, {root}, k)
    BY <1>3, <1>5, <2>1
  <2>3. k > 1 => NewTeam(g, root, t, k - 2)
    BY <1>2 DEF Scanning, NewTeam, StageDone
  <2>4. (k + 1) - 1 = k /\ (k + 1) - 3 = k - 2 /\ k + 1 \in Nat \ {0} /\ (k + 1 > 2 => k > 1)
    OBVIOUS
  <2> QED BY <1>3, <1>6, <1>7, <2>2, <2>3, <2>4 DEF Scanned
<1>8. CASE t.stage # <<>>
  <2>1. DOMAIN s.teams \subseteq DOMAIN t.teams /\ DOMAIN t.teams # DOMAIN s.teams
    BY <1>2, <1>8 DEF StageDone
  <2>2. DOMAIN t.teams \subseteq TeamsIn(g) /\ DOMAIN s.actions \subseteq ActionsIn(g)
    <3>1. t.teams \in CountersOf(TeamsIn(g)) /\ s.actions \in CountersOf(ActionsIn(g))
      BY <1>1, <1>2 DEF StatsType
    <3> QED BY <3>1, CountersFacts
  <2>3. Cardinality(DOMAIN t.teams) >= k + 1
    <3> DEFINE D == DOMAIN s.teams
               C == DOMAIN t.teams
    <3>1. IsFiniteSet(ToSet(g.vertices)) /\ C \subseteq ToSet(g.vertices)
      BY <2>2, GraphFacts DEF TeamsIn
    <3>2. IsFiniteSet(C) /\ D \subseteq C /\ D # C /\ Cardinality(D) >= k
      BY <2>1, <3>1, FS_Subset DEF Scanning
    <3> HIDE DEF C, D
    <3>3. Cardinality(D) <= Cardinality(C) /\ Cardinality(D) # Cardinality(C) /\ IsFiniteSet(D)
      BY <3>2, FS_Subset
    <3>4. Cardinality(D) \in Nat /\ Cardinality(C) \in Nat
      BY <3>2, <3>3, FS_CardinalityType
    <3>5. Cardinality(C) >= k + 1
      BY <3>2, <3>3, <3>4
    <3> QED BY <3>5 DEF C
  <2>4. k > 0 => NewTeam(g, root, t, k - 1)
    <3> SUFFICES ASSUME k > 0 PROVE NewTeam(g, root, t, k - 1)
      OBVIOUS
    <3>1. PICK v \in DOMAIN t.teams : v \notin DOMAIN s.teams
      BY <2>1
    <3>2. v \notin ActionsIn(g)
      BY <2>2, <3>1 DEF TeamsIn, ActionsIn, IsAction, IsTeam
    <3>3. v \notin UsedIn(s)
      BY <2>2, <3>1, <3>2 DEF UsedIn
    <3> QED BY <3>1, <3>3 DEF Scanning, NewTeam
  <2>5. /\ (k + 1) - 1 = k /\ (k + 1) - 2 = k - 1 /\ k + 1 # 0 /\ (k + 1 > 1 => k > 0)
    OBVIOUS
  <2>6. Scanning(g, root, t, k + 1)
    BY <1>3, <1>5, <1>6, <1>8, <2>3, <2>4, <2>5 DEF Scanning
  <2> QED BY <2>6
<1> QED BY <1>7, <1>8

LEMMA FirstStageScanning ==
    ASSUME NEW g, NEW root
    PROVE  Scanning(g, root, FirstStage(root), 0)
<1> DEFINE s == FirstStage(root)
<1>1. s.stage = <<root>> /\ s.levels = <<>> /\ s.teams = <<>> /\ s.actions = <<>>
  BY DEF FirstStage
<1> HIDE DEF s
<1>2. s.stage # <<>> /\ Len(s.levels) = 0
  BY <1>1
<1>3. UsedIn(s) = {} /\ ToSet(s.stage) = {root}
  BY <1>1 DEF UsedIn, ToSet
<1>4. Within(g, {root}, 0) = {root}
  BY WithinFacts
<1>5. Cardinality(DOMAIN s.teams) = 0
  <2>1. DOMAIN s.teams = {}
    BY <1>1
  <2> QED BY <2>1, FS_EmptySet
<1> QED BY <1>2, <1>3, <1>4, <1>5 DEF Scanning, s

LEMMA CardinalityOfElements ==
    ASSUME NEW S, NEW q \in Seq(S)
    PROVE  IsFiniteSet(ToSet(q)) /\ Cardinality(ToSet(q)) <= Len(q)
<1>1. Len(q) \in Nat /\ DOMAIN q = 1 .. Len(q)
  BY LenProperties
<1>2. IsFiniteSet(1 .. Len(q)) /\ Cardinality(1 .. Len(q)) = Len(q)
  BY <1>1, FS_Interval
<1> DEFINE f == [i \in 1 .. Len(q) |-> q[i]]
<1>3. f \in Surjection(1 .. Len(q), ToSet(q))
  BY <1>1 DEF Surjection, ToSet
<1> HIDE DEF f
<1> QED BY <1>2, <1>3, FS_Surjection

PolicyAnalyzed(g, root, s) ==
    /\ s \in StagesType(g, root) /\ s.stage = <<>>
    /\ UsedIn(s) = Policy(g, root)
    /\ UsedIn(s) = Within(g, {root}, MaxPolicyDepth(s))
    /\ MaxPolicyDepth(s) > 1 => NewTeam(g, root, s, MaxPolicyDepth(s) - 2)

LEMMA WholePolicyAnalyzed ==
    ASSUME NEW g, Proper(g), HasPrograms(g), NEW root \in ToSet(g.vertices)
    PROVE  PolicyAnalyzed(g, root, AnalyzePolicy(g, root))
<1> DEFINE n == Len(g.vertices) + 1
<1>0. Len(g.vertices) \in Nat /\ n \in Nat /\ n > 0
  BY GraphFacts, LenProperties
<1>1. PICK c : /\ \A i \in 0 .. n : c[i] \in StagesType(g, root)
               /\ c[0] = FirstStage(root) /\ \A i \in 1 .. n : c[i] = AnalyzeStage(g, c[i - 1])
               /\ AnalyzePolicy(g, root) = c[n]
  BY StagesChain
<1> HIDE DEF n
<1> DEFINE Good(k) == \/ Scanning(g, root, c[k], k)
                      \/ Scanned(g, root, c[k]) /\ Len(c[k].levels) <= k
           B == {k \in 0 .. n : ~ Good(k)}
<1>2. 0 \notin B
  BY <1>1, FirstStageScanning
<1>3. ASSUME NEW k \in 1 .. n, k \in B PROVE k - 1 \in B
  <2>0. k - 1 \in 0 .. n /\ k - 1 \in Nat /\ (k - 1) + 1 = k /\ k \in 0 .. n
    BY <1>0
  <2> SUFFICES ASSUME Good(k - 1) PROVE Good(k)
    BY <1>3, <2>0
  <2>1. c[k - 1] \in StagesType(g, root) /\ c[k] = AnalyzeStage(g, c[k - 1])
    BY <1>1, <2>0
  <2>2. CASE Scanning(g, root, c[k - 1], k - 1)
    <3> DEFINE j == k - 1
    <3>1. j \in Nat /\ j + 1 = k /\ c[j] \in StagesType(g, root) /\ Scanning(g, root, c[j], j)
      BY <2>0, <2>1, <2>2
    <3> HIDE DEF j
    <3>2. PICK t : t = AnalyzeStage(g, c[j])
      OBVIOUS
    <3>3. Scanning(g, root, t, j + 1) \/ (Scanned(g, root, t) /\ Len(t.levels) = j + 1)
      BY <3>1, <3>2, LastStage
    <3>4. t = c[k]
      BY <2>1, <3>2 DEF j
    <3> QED BY <1>0, <3>1, <3>3, <3>4
  <2>3. CASE Scanned(g, root, c[k - 1]) /\ Len(c[k - 1].levels) <= k - 1
    <3>1. c[k] = c[k - 1]
      BY <2>1, <2>3 DEF Scanned, AnalyzeStage
    <3>2. Len(c[k - 1].levels) <= k
      BY <2>3 DEF Scanned
    <3> QED BY <2>3, <3>1, <3>2
  <2> QED BY <2>2, <2>3
<1>4. B = {}
  <2>1. B \in SUBSET (0 .. n)
    OBVIOUS
  <2> HIDE DEF B
  <2> QED BY <1>0, <1>2, <1>3, <2>1, NoFirstFailure
<1> DEFINE s == c[n]
<1>5. s \in StagesType(g, root) /\ AnalyzePolicy(g, root) = s
  BY <1>0, <1>1
<1>6. Scanning(g, root, s, n) \/ (Scanned(g, root, s) /\ Len(s.levels) <= n)
  BY <1>0, <1>4
<1> HIDE DEF s, B, Good
<1>7. ~ Scanning(g, root, s, n)
  <2> SUFFICES ASSUME Cardinality(DOMAIN s.teams) >= n PROVE FALSE
    BY DEF Scanning
  <2>1. IsFiniteSet(ToSet(g.vertices)) /\ Cardinality(ToSet(g.vertices)) <= Len(g.vertices)
    BY GraphFacts, CardinalityOfElements
  <2>2. DOMAIN s.teams \in SUBSET ToSet(g.vertices)
    <3>1. s.teams \in CountersOf(TeamsIn(g))
      BY <1>5 DEF StagesType, StatsType
    <3>2. DOMAIN s.teams \subseteq TeamsIn(g)
      BY <3>1, CountersFacts
    <3> QED BY <3>2 DEF TeamsIn
  <2> DEFINE D == DOMAIN s.teams
             V == ToSet(g.vertices)
  <2> HIDE DEF D, V
  <2>3. Cardinality(D) <= Cardinality(V) /\ IsFiniteSet(D) /\ IsFiniteSet(V)
    BY <2>1, <2>2, FS_Subset DEF D, V
  <2>4. Cardinality(D) \in Nat /\ Cardinality(V) \in Nat
    BY <2>3, FS_CardinalityType
  <2>5. Cardinality(V) <= Len(g.vertices) /\ Cardinality(D) >= n
    BY <2>1 DEF D, V
  <2> QED BY <1>0, <2>3, <2>4, <2>5 DEF n
<1> DEFINE m == Len(s.levels) - 1
<1>8. /\ Len(s.levels) \in Nat \ {0} /\ Len(s.levels) <= n
      /\ Scanned(g, root, s)
  BY <1>6, <1>7 DEF Scanned
<1>9. /\ m \in Nat /\ m + 1 = Len(s.levels) /\ m <= Len(g.vertices)
      /\ (m > 1 => Len(s.levels) > 2) /\ Len(s.levels) - 3 = m - 2
  BY <1>0, <1>8 DEF n
<1>10. UsedIn(s) = Within(g, {root}, m) /\ Within(g, {root}, m + 1) = Within(g, {root}, m)
  BY <1>8, <1>9 DEF Scanned
<1>11. MaxPolicyDepth(s) = m
  BY DEF MaxPolicyDepth
<1>12. m > 1 => NewTeam(g, root, s, m - 2)
  BY <1>8, <1>9 DEF Scanned
<1> HIDE DEF m
<1>13. Within(g, {root}, Len(g.vertices)) = Within(g, {root}, m)
  BY <1>0, <1>9, <1>10, WithinStays
<1>14. PolicyAnalyzed(g, root, s)
  BY <1>5, <1>8, <1>10, <1>11, <1>12, <1>13 DEF PolicyAnalyzed, Policy, Scanned
<1> QED BY <1>5, <1>14

LEMMA PolicyOfInv == Inv /\ PolicyInv => PolicyStatsCountPolicy
<1> SUFFICES ASSUME Inv, PolicyInv, NEW root \in ToSet(RootVertices(graph))
             PROVE  LET stats == AnalyzePolicy(graph, root)
                        policy == Policy(graph, root)
                        es == {e \in Edges : e.src \in policy}
                        used(v) == IF v \in DOMAIN stats.teams THEN stats.teams[v] ELSE stats.actions[v]
                    IN  /\ stats.stage = <<>>
                        /\ DOMAIN stats.teams = policy \cap ToSet(Teams(graph))
                        /\ DOMAIN stats.teams \cup DOMAIN stats.actions = policy
                        /\ \A v \in policy : used(v) = (IF v = root THEN 1 ELSE 0)
                                                         + Cardinality({e \in es : e.dst = v})
                        /\ \A p \in Program : Cardinality({e \in es : e.prog = p})
                                                = (IF p \in DOMAIN stats.programs THEN stats.programs[p] ELSE 0)
                        /\ policy = Within(graph, {root}, MaxPolicyDepth(stats))
                        /\ MaxPolicyDepth(stats) > 1 =>
                              ~ DOMAIN stats.teams \subseteq Within(graph, {root}, MaxPolicyDepth(stats) - 2)
  BY DEF PolicyStatsCountPolicy
<1> DEFINE s == AnalyzePolicy(graph, root)
           policy == Policy(graph, root)
           es == {e \in Edges : e.src \in policy}
           used(v) == IF v \in DOMAIN s.teams THEN s.teams[v] ELSE s.actions[v]
<1>1. Proper(graph) /\ HasPrograms(graph)
  BY DEF Inv, PolicyInv
<1>2. root \in ToSet(graph.vertices) /\ ToSet(Teams(graph)) = TeamsIn(graph)
  BY <1>1, ListFacts DEF TeamsIn
<1>3. PolicyAnalyzed(graph, root, s)
  BY <1>1, <1>2, WholePolicyAnalyzed
<1> HIDE DEF s, policy
<1>4. /\ s \in StagesType(graph, root) /\ s.stage = <<>> /\ UsedIn(s) = policy
      /\ policy = Within(graph, {root}, MaxPolicyDepth(s))
      /\ MaxPolicyDepth(s) > 1 => NewTeam(graph, root, s, MaxPolicyDepth(s) - 2)
  BY <1>3 DEF PolicyAnalyzed, policy
<1>5. /\ s \in StatsType(graph) /\ BetweenStages(graph, root, s)
      /\ s.teams \in CountersOf(TeamsIn(graph)) /\ s.actions \in CountersOf(ActionsIn(graph))
  BY <1>4 DEF StagesType, StatsType
<1>6. DOMAIN s.teams \subseteq TeamsIn(graph) /\ DOMAIN s.actions \subseteq ActionsIn(graph)
  BY <1>5, CountersFacts
<1>7. TeamsIn(graph) \cap ActionsIn(graph) = {}
  BY DEF TeamsIn, ActionsIn, IsTeam, IsAction
<1>8. DOMAIN s.teams = policy \cap ToSet(Teams(graph)) /\ DOMAIN s.teams \cup DOMAIN s.actions = policy
  BY <1>2, <1>4, <1>6, <1>7 DEF UsedIn
<1>9. ASSUME NEW e \in Edges PROVE e \in es <=> e.src \in DOMAIN s.teams
  <2>1. e.src \in TeamsIn(graph)
    BY <1>1, GraphFacts DEF Edges, TeamsIn
  <2> QED BY <1>2, <1>8, <2>1
<1>10. ASSUME NEW v \in policy
       PROVE  used(v) = (IF v = root THEN 1 ELSE 0) + Cardinality({e \in es : e.dst = v})
  <2>1. v \in ToSet(graph.vertices)
    BY <1>6, <1>8 DEF TeamsIn, ActionsIn
  <2>2. {e \in es : e.dst = v} = EdgesTo(graph, DOMAIN s.teams, v)
    BY <1>9 DEF EdgesTo, Edges
  <2>3. Uses(graph, s, v) + Occurrences(s.stage, v)
           = Same(v, root) + Cardinality(EdgesTo(graph, DOMAIN s.teams, v))
    BY <1>5, <2>1 DEF BetweenStages
  <2>4. Occurrences(s.stage, v) = 0
    <3>1. {i \in DOMAIN s.stage : s.stage[i] = v} = {}
      BY <1>4
    <3> QED BY <3>1, FS_EmptySet DEF Occurrences
  <2>5. Uses(graph, s, v) = used(v)
    <3>1. CASE v \in DOMAIN s.teams
      BY <1>6, <3>1 DEF Uses, ValueOf, TeamsIn
    <3>2. CASE v \notin DOMAIN s.teams
      <4>1. v \in DOMAIN s.actions /\ v \notin TeamsIn(graph)
        BY <1>6, <1>7, <1>8, <3>2
      <4> QED BY <2>1, <3>2, <4>1 DEF Uses, ValueOf, TeamsIn
    <3> QED BY <3>1, <3>2
  <2>6. Uses(graph, s, v) \in Nat
    BY <1>5, UsesAreNat
  <2>7. Uses(graph, s, v) = Same(v, root) + Cardinality(EdgesTo(graph, DOMAIN s.teams, v))
    BY <2>3, <2>4, <2>6
  <2>8. Same(v, root) = IF v = root THEN 1 ELSE 0
    BY DEF Same
  <2> QED BY <2>2, <2>5, <2>7, <2>8
<1>11. ASSUME NEW p \in Program
       PROVE  Cardinality({e \in es : e.prog = p}) = (IF p \in DOMAIN s.programs THEN s.programs[p] ELSE 0)
  <2>1. {e \in es : e.prog = p} = EdgesWith(graph, DOMAIN s.teams, p)
    BY <1>9 DEF EdgesWith, Edges
  <2>2. ValueOf(s.programs, p) = Cardinality(EdgesWith(graph, DOMAIN s.teams, p))
    BY <1>5 DEF BetweenStages, ProgramCounted
  <2> QED BY <2>1, <2>2 DEF ValueOf
<1>12. MaxPolicyDepth(s) > 1 => ~ DOMAIN s.teams \subseteq Within(graph, {root}, MaxPolicyDepth(s) - 2)
  BY <1>4 DEF NewTeam
<1> QED BY <1>4, <1>8, <1>10, <1>11, <1>12 DEF s, policy

(* Whatever the graphs, the programs and the data, and at any time between executions: the stages of the
   scan of PolicyStats end, after having counted what the root leads to and nothing else, each vertex
   once for each edge of the policy to it and once more for the root, each program once for each edge of
   the policy it is of; and the depth it reports is enough to reach the whole policy, and at most one
   more than the distance from the root to some team. *)
THEOREM PolicyStatsAlwaysCountPolicy == Spec => []PolicyStatsCountPolicy
<1>1. Init => Inv /\ PolicyInv
  BY InitInv, InitPolicyInv
<1>2. Inv /\ PolicyInv /\ [Next]_vars => (Inv /\ PolicyInv)'
  BY InvStep, PolicyStep
<1>3. Inv /\ PolicyInv => PolicyStatsCountPolicy
  BY PolicyOfInv
<1> QED BY <1>1, <1>2, <1>3, PTL DEF Spec
=============================================================================

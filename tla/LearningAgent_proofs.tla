------------------------ MODULE LearningAgent_proofs ------------------------
(***************************************************************************)
(* What a training guarantees, for any number of roots, of evaluations, of *)
(* addresses, of agents in a game and of iterations, and any ratio of      *)
(* roots removed; and what the decimation of a classification agent and    *)
(* the evaluations of an adversarial one add to it.                        *)
(***************************************************************************)
EXTENDS AdversarialAgent, ClassificationAgent, FiniteSetTheorems, WellFoundedInduction, SequenceTheorems, TLAPS

-----------------------------------------------------------------------------
(* The graph: teams have edges, which end in the graph, ... *)
Formed(p) ==
    /\ p \in PopulationType
    /\ p.teams \cap p.actions = {}
    /\ IsFiniteSet(p.actions) /\ Cardinality(p.actions) <= NbActions
    /\ \A t \in p.teams : p.kids[t] # {} /\ p.kids[t] \subseteq Alive(p)

(* ... and each lower than the team it leaves. *)
Layers(p, rank, bound) ==
    /\ rank \in [Vertex -> Nat] /\ bound \in Nat
    /\ \A v \in Vertex : rank[v] <= bound
    /\ \A t \in p.teams : \A k \in p.kids[t] : rank[t] < rank[k]

Layered(p) == \E rank \in [Vertex -> Nat], bound \in Nat : Layers(p, rank, bound)

PopInv == Formed(pop) /\ Layered(pop)

(* The records. *)
IsRecord(f) == \A v \in DOMAIN f : v \in Vertex /\ f[v] \in Result

Limited(f) == \A v \in DOMAIN f : f[v].n = NbIter \/ f[v].n < MaxNbEval + NbIter

Owned(f) == \A v \in DOMAIN f : f[v].own \/ v \in stale

TypeInv ==
    /\ pc \in {"idle", "populate", "evaluate", "decimate", "update", "trained", "kept"}
    /\ IsRecord(results) /\ IsRecord(resultsPerRoot)
    /\ bestRoot \in [root : Vertex \cup {NoVertex}, result : Result]
    /\ bestScoreLastGen \in Result
    /\ Limited(results) /\ Limited(resultsPerRoot)

(* What is stored and not own is stale, and the record of the best root is the one stored. *)
OwnInv ==
    /\ Owned(results) /\ Owned(resultsPerRoot)
    /\ bestRoot.root \in DOMAIN resultsPerRoot => bestRoot.result = resultsPerRoot[bestRoot.root]
    /\ \/ bestRoot = NoBest
       \/ bestRoot.root \in DOMAIN resultsPerRoot
       \/ pc = "update" /\ bestRoot.root \notin Alive(pop)

(* What each place of trainOneGeneration knows. *)
PlaceInv ==
    /\ pc \in {"idle", "kept", "populate", "evaluate"} => DOMAIN results = {}
    /\ pc \in {"populate", "evaluate", "decimate"} => pop.teams # {}
    /\ pc \in {"evaluate", "decimate"} => Cardinality(RootsOf(pop)) >= NbRoots
    /\ pc = "decimate" => \E v \in Best(results) : bestScoreLastGen = results[v]
    /\ pc \in {"update", "trained"} => DOMAIN results \subseteq Alive(pop)
    /\ pc \in {"decimate", "update"} =>
          \A v \in DOMAIN results : IsRootEvalSkipped(v) => results[v] = resultsPerRoot[v]

AgentInv == TypeInv /\ OwnInv /\ PlaceInv /\ BestRootIsBest

-----------------------------------------------------------------------------
(* Least elements.  They stand for induction: among the numbers at which something fails there
   would be a least one. *)

LEMMA LeastNatural ==
    ASSUME NEW T \in SUBSET Nat, T # {}
    PROVE  \E x \in T : \A y \in T : x <= y
<1> DEFINE R == OpToRel(<, Nat)
<1>1. IsWellFoundedOn(R, Nat)
  BY NatLessThanWellFounded
<1>2. \A x, y \in Nat : y < x => <<y, x>> \in R
  BY DEF OpToRel
<1> HIDE DEF R
<1>3. PICK x \in T : \A y \in T : ~ (<<y, x>> \in R)
  BY <1>1, WFMin
<1>4. ASSUME NEW y \in T PROVE x <= y
  <2>1. x \in Nat /\ y \in Nat /\ ~ (y < x)
    BY <1>2, <1>3
  <2> QED BY <2>1
<1> QED BY <1>4

(* Products and quotients of naturals. *)
LEMMA ProductOrder ==
    ASSUME NEW a \in Nat, NEW b \in Nat, NEW c \in Nat \ {0}, a * c <= b * c
    PROVE  a <= b
<1> SUFFICES ASSUME b < a PROVE FALSE
  OBVIOUS
<1>1. b + 1 <= a
  OBVIOUS
<1>2. PICK d \in Nat : a = b + 1 + d
  <2>1. a - b - 1 \in Nat /\ a = b + 1 + (a - b - 1)
    BY <1>1
  <2> QED BY <2>1
<1>3. a * c = b * c + c + d * c
  BY <1>2
<1>4. d * c \in Nat /\ b * c \in Nat
  OBVIOUS
<1> QED BY <1>3, <1>4

LEMMA ProductGrows ==
    ASSUME NEW a \in Nat, NEW b \in Nat, NEW c \in Nat, a <= b
    PROVE  a * c <= b * c
<1>1. PICK d \in Nat : b = a + d
  <2>1. b - a \in Nat /\ b = a + (b - a)
    OBVIOUS
  <2> QED BY <2>1
<1>2. b * c = a * c + d * c
  BY <1>1
<1>3. a * c \in Nat /\ d * c \in Nat
  OBVIOUS
<1> QED BY <1>2, <1>3

LEMMA Quotient ==
    ASSUME NEW a \in Nat, NEW b \in Nat \ {0}
    PROVE  /\ a \div b \in Nat
           /\ (a \div b) * b <= a
           /\ a < (a \div b) * b + b
<1>1. a \div b \in Int /\ a % b \in 0 .. (b - 1) /\ a = b * (a \div b) + (a % b)
  OBVIOUS
<1> DEFINE q == a \div b
           r == a % b
<1> HIDE DEF q, r
<1>2. q \in Int /\ r \in Int /\ 0 <= r /\ r <= b - 1 /\ a = b * q + r
  BY <1>1 DEF q, r
<1>3. q \in Nat
  <2> SUFFICES ASSUME q <= -1 PROVE FALSE
    BY <1>2
  <2>1. PICK d \in Nat : q = -1 - d
    <3>1. -1 - q \in Nat /\ q = -1 - (-1 - q)
      BY <1>2
    <3> QED BY <3>1
  <2>2. b * q = - b - b * d /\ b * d \in Nat
    BY <2>1
  <2> QED BY <1>2, <2>2
<1>4. q * b = b * q /\ b * q \in Nat
  BY <1>3
<1>5. q * b <= a /\ a < q * b + b
  BY <1>2, <1>4
<1> QED BY <1>3, <1>5 DEF q

(* A share of the roots is at most all of them. *)
LEMMA ShareOf ==
    ASSUME NEW k \in Nat, NEW d \in Nat \ {0}, k <= d, NEW total \in Nat
    PROVE  (k * total) \div d \in 0 .. total
<1> DEFINE m == (k * total) \div d
<1>1. k * total \in Nat
  OBVIOUS
<1>2. m \in Nat /\ m * d <= k * total
  BY <1>1, Quotient
<1> HIDE DEF m
<1>3. k * total <= d * total
  BY ProductGrows
<1>4. d * total = total * d /\ total * d \in Nat /\ m * d \in Nat
  BY <1>2
<1>5. m * d <= total * d
  BY <1>1, <1>2, <1>3, <1>4
<1>6. m <= total
  BY <1>2, <1>5, ProductOrder
<1> QED BY <1>2, <1>6 DEF m

LEMMA NbDeletedType == NbDeleted \in 0 .. NbRoots
BY ShareOf, AgentAssumption, PopulationAssumption DEF NbDeleted

(* A set of vertices, its ranks given, has a first and a last element. *)
LEMMA FirstAndLast ==
    ASSUME NEW S \in SUBSET Vertex, S # {}, NEW rank \in [Vertex -> Nat], NEW bound \in Nat,
           \A v \in Vertex : rank[v] <= bound
    PROVE  /\ \E first \in S : \A v \in S : rank[first] <= rank[v]
           /\ \E last \in S : \A v \in S : rank[v] <= rank[last]
<1>1. \E first \in S : \A v \in S : rank[first] <= rank[v]
  <2> DEFINE T == {rank[v] : v \in S}
  <2>1. T \in SUBSET Nat /\ T # {}
    OBVIOUS
  <2>2. \E x \in T : \A y \in T : x <= y
    <3> HIDE DEF T
    <3> QED BY <2>1, LeastNatural
  <2> QED BY <2>2
<1>2. \E last \in S : \A v \in S : rank[v] <= rank[last]
  <2> DEFINE T == {bound - rank[v] : v \in S}
  <2>1. T \in SUBSET Nat /\ T # {}
    OBVIOUS
  <2>2. PICK x \in T : \A y \in T : x <= y
    <3> HIDE DEF T
    <3> QED BY <2>1, LeastNatural
  <2>3. PICK last \in S : x = bound - rank[last]
    OBVIOUS
  <2>4. ASSUME NEW v \in S PROVE rank[v] <= rank[last]
    <3>1. bound - rank[v] \in T
      OBVIOUS
    <3>2. bound - rank[last] <= bound - rank[v]
      BY <2>2, <2>3, <3>1
    <3>3. rank[v] \in Nat /\ rank[last] \in Nat
      OBVIOUS
    <3> QED BY <3>2, <3>3
  <2> QED BY <2>4
<1> QED BY <1>1, <1>2

-----------------------------------------------------------------------------
(* What the shape of the graph implies. *)

LEMMA FormedFacts ==
    ASSUME NEW p, Formed(p)
    PROVE  /\ p.teams \in SUBSET Vertex /\ p.actions \in SUBSET Vertex
           /\ p.kids \in [Vertex -> SUBSET Vertex]
           /\ Alive(p) = p.teams \cup p.actions /\ Alive(p) \in SUBSET Vertex
           /\ p.teams \cap p.actions = {}
           /\ RootsOf(p) \in SUBSET Alive(p)
           /\ RootTeamsOf(p) = RootsOf(p) \cap p.teams
           /\ \A t \in p.teams : p.kids[t] # {} /\ p.kids[t] \subseteq Alive(p)
           /\ \A t \in p.teams : p.kids[t] \cap RootsOf(p) = {}
           /\ IsFiniteSet(p.actions) /\ IsFiniteSet(RootsOf(p)) /\ IsFiniteSet(Alive(p))
<1>1. p.teams \in SUBSET Vertex /\ p.actions \in SUBSET Vertex /\ p.kids \in [Vertex -> SUBSET Vertex]
  BY DEF Formed, PopulationType
<1>2. /\ Alive(p) = p.teams \cup p.actions /\ Alive(p) \in SUBSET Vertex
      /\ RootsOf(p) \in SUBSET Alive(p)
      /\ \A t \in p.teams : p.kids[t] \cap RootsOf(p) = {}
  BY <1>1 DEF Alive, RootsOf
<1>3. IsFiniteSet(Alive(p))
  BY <1>2, FS_Subset, PopulationAssumption
<1>4. IsFiniteSet(RootsOf(p))
  BY <1>2, <1>3, FS_Subset
<1> QED BY <1>1, <1>2, <1>3, <1>4 DEF Formed, RootTeamsOf

(* A graph that is not empty has a root; if it has teams, it has a root team, and an action
   that a team leads to. *)
LEMMA HasRoots ==
    ASSUME NEW p, Formed(p), Layered(p), Alive(p) # {}
    PROVE  /\ RootsOf(p) # {}
           /\ p.teams # {} => RootTeamsOf(p) # {}
           /\ p.teams # {} => \E t \in p.teams : p.kids[t] \cap p.actions # {}
<1>1. PICK rank \in [Vertex -> Nat], bound \in Nat : Layers(p, rank, bound)
  BY DEF Layered
<1>2. \A v \in Vertex : rank[v] <= bound
  BY <1>1 DEF Layers
<1>3. \A t \in p.teams : \A k \in p.kids[t] : rank[t] < rank[k]
  BY <1>1 DEF Layers
<1> USE FormedFacts
<1>4. RootsOf(p) # {}
  <2>1. PICK first \in Alive(p) : \A v \in Alive(p) : rank[first] <= rank[v]
    BY <1>2, FirstAndLast
  <2>2. \A t \in p.teams : first \notin p.kids[t]
    BY <1>3, <2>1
  <2> QED BY <2>1, <2>2 DEF RootsOf
<1>5. ASSUME p.teams # {} PROVE RootTeamsOf(p) # {}
  <2>1. PICK first \in p.teams : \A v \in p.teams : rank[first] <= rank[v]
    BY <1>2, <1>5, FirstAndLast
  <2>2. \A t \in p.teams : first \notin p.kids[t]
    BY <1>3, <2>1
  <2> QED BY <2>1, <2>2 DEF RootsOf, RootTeamsOf
<1>6. ASSUME p.teams # {} PROVE \E t \in p.teams : p.kids[t] \cap p.actions # {}
  <2>1. PICK last \in p.teams : \A v \in p.teams : rank[v] <= rank[last]
    BY <1>2, <1>6, FirstAndLast
  <2>2. PICK k : k \in p.kids[last]
    BY <2>1
  <2>3. k \notin p.teams
    BY <1>3, <2>1, <2>2
  <2> QED BY <2>1, <2>2, <2>3
<1> QED BY <1>4, <1>5, <1>6

(* removeVertex of some roots takes no edge from another team. *)
LEMMA RemoveRootsEffect ==
    ASSUME NEW p, Formed(p), Layered(p), NEW D \in SUBSET RootsOf(p)
    PROVE  LET q == RemoveAll(p, D)
           IN  /\ Formed(q) /\ Layered(q)
               /\ q.teams = p.teams \ D /\ q.actions = p.actions \ D
               /\ Alive(q) = Alive(p) \ D
               /\ RootsOf(p) \ D \subseteq RootsOf(q)
<1> DEFINE q == RemoveAll(p, D)
<1>1. /\ q.teams = p.teams \ D /\ q.actions = p.actions \ D
      /\ q.kids = [v \in Vertex |-> IF v \in D THEN {} ELSE p.kids[v] \ D]
      /\ q = [teams |-> q.teams, actions |-> q.actions, kids |-> q.kids]
  BY DEF RemoveAll
<1> HIDE DEF q
<1>2. Alive(q) = Alive(p) \ D
  BY <1>1 DEF Alive
<1>3. ASSUME NEW t \in q.teams PROVE t \in p.teams /\ q.kids[t] = p.kids[t]
  <2>1. t \in p.teams /\ t \in Vertex /\ t \notin D
    BY <1>1, FormedFacts
  <2>2. q.kids[t] = p.kids[t] \ D
    BY <1>1, <2>1
  <2>3. p.kids[t] \cap D = {}
    BY <2>1, FormedFacts
  <2> QED BY <2>1, <2>2, <2>3
<1>4. q.kids \in [Vertex -> SUBSET Vertex]
  BY <1>1, FormedFacts
<1>5. q \in PopulationType
  BY <1>1, <1>4, FormedFacts DEF PopulationType
<1>6. \A t \in q.teams : q.kids[t] # {} /\ q.kids[t] \subseteq Alive(q)
  <2> SUFFICES ASSUME NEW t \in q.teams PROVE q.kids[t] # {} /\ q.kids[t] \subseteq Alive(q)
    OBVIOUS
  <2>1. t \in p.teams /\ q.kids[t] = p.kids[t]
    BY <1>3
  <2>2. p.kids[t] # {} /\ p.kids[t] \subseteq Alive(p) /\ p.kids[t] \cap D = {}
    BY <2>1, FormedFacts
  <2> QED BY <1>2, <2>1, <2>2
<1>7. IsFiniteSet(q.actions) /\ Cardinality(q.actions) <= NbActions
  <2>1. IsFiniteSet(p.actions) /\ Cardinality(p.actions) <= NbActions
    BY DEF Formed
  <2>2. /\ IsFiniteSet(p.actions \ D) /\ Cardinality(p.actions \ D) <= Cardinality(p.actions)
        /\ Cardinality(p.actions) \in Nat /\ Cardinality(p.actions \ D) \in Nat
    <3>1. p.actions \ D \in SUBSET p.actions
      OBVIOUS
    <3> QED BY <2>1, <3>1, FS_Subset, FS_CardinalityType
  <2> QED BY <1>1, <2>1, <2>2, PopulationAssumption
<1>8. Formed(q)
  BY <1>1, <1>5, <1>6, <1>7, FormedFacts DEF Formed
<1>9. Layered(q)
  <2>1. PICK rank \in [Vertex -> Nat], bound \in Nat : Layers(p, rank, bound)
    BY DEF Layered
  <2>2. Layers(q, rank, bound)
    BY <1>3, <2>1 DEF Layers
  <2> QED BY <2>2 DEF Layered
<1>10. RootsOf(p) \ D \subseteq RootsOf(q)
  BY <1>2, <1>3 DEF RootsOf
<1> QED BY <1>1, <1>2, <1>8, <1>9, <1>10 DEF q

(* A new team only leads to what there is. *)
LEMMA AddTeamEffect ==
    ASSUME NEW p, Formed(p), Layered(p), NEW v \in Vertex \ Alive(p),
           NEW ks \in (SUBSET Alive(p)) \ {{}}
    PROVE  LET q == AddTeam(p, v, ks)
           IN  /\ Formed(q) /\ Layered(q)
               /\ Alive(q) = Alive(p) \cup {v}
               /\ q.teams = p.teams \cup {v}
<1> DEFINE q == AddTeam(p, v, ks)
<1>1. /\ q.teams = p.teams \cup {v} /\ q.actions = p.actions
      /\ q.kids = [p.kids EXCEPT ![v] = ks]
      /\ q = [teams |-> q.teams, actions |-> q.actions, kids |-> q.kids]
  <2>1. p = [teams |-> p.teams, actions |-> p.actions, kids |-> p.kids]
    BY DEF Formed, PopulationType
  <2> DEFINE T == p.teams
             A == p.actions
             K == p.kids
  <2>2. q = [[teams |-> T, actions |-> A, kids |-> K] EXCEPT !.teams = @ \cup {v}, !.kids[v] = ks]
    BY <2>1 DEF AddTeam
  <2> HIDE DEF T, A, K, q
  <2>3. q = [teams |-> T \cup {v}, actions |-> A, kids |-> [K EXCEPT ![v] = ks]]
    BY <2>2
  <2> QED BY <2>3 DEF T, A, K
<1> HIDE DEF q
<1>2. Alive(q) = Alive(p) \cup {v}
  BY <1>1 DEF Alive
<1>3. q.kids \in [Vertex -> SUBSET Vertex] /\ q.kids[v] = ks
  BY <1>1, FormedFacts
<1>4. ASSUME NEW t \in p.teams PROVE q.kids[t] = p.kids[t] /\ t # v
  <2>1. t \in Vertex /\ t # v
    BY FormedFacts
  <2> QED BY <1>1, <2>1, FormedFacts
<1>5. q \in PopulationType
  BY <1>1, <1>3, FormedFacts DEF PopulationType
<1>6. \A t \in q.teams : q.kids[t] # {} /\ q.kids[t] \subseteq Alive(q)
  <2> SUFFICES ASSUME NEW t \in q.teams PROVE q.kids[t] # {} /\ q.kids[t] \subseteq Alive(q)
    OBVIOUS
  <2>1. CASE t = v
    BY <1>2, <1>3, <2>1
  <2>2. CASE t \in p.teams
    BY <1>2, <1>4, <2>2, FormedFacts
  <2> QED BY <1>1, <2>1, <2>2
<1>7. Formed(q)
  BY <1>1, <1>5, <1>6, FormedFacts DEF Formed
<1>8. Layered(q)
  <2>1. PICK rank \in [Vertex -> Nat], bound \in Nat : Layers(p, rank, bound)
    BY DEF Layered
  <2> DEFINE rank2 == [w \in Vertex |-> IF w = v THEN 0 ELSE rank[w] + 1]
  <2>2. rank2 \in [Vertex -> Nat] /\ bound + 1 \in Nat
    OBVIOUS
  <2>3. \A w \in Vertex : rank2[w] <= bound + 1
    BY <2>1 DEF Layers
  <2>4. ASSUME NEW t \in q.teams, NEW k \in q.kids[t] PROVE rank2[t] < rank2[k]
    <3>1. k \in Alive(p) /\ k # v /\ k \in Vertex
      BY <1>1, <1>3, <1>4, FormedFacts
    <3>2. rank2[k] = rank[k] + 1 /\ rank[k] \in Nat
      BY <3>1
    <3>3. CASE t = v
      BY <3>2, <3>3
    <3>4. CASE t \in p.teams
      <4>1. rank[t] < rank[k] /\ t \in Vertex /\ t # v
        BY <1>4, <2>1, <3>4, FormedFacts DEF Layers
      <4>2. rank2[t] = rank[t] + 1 /\ rank[t] \in Nat
        BY <4>1
      <4> QED BY <3>2, <4>1, <4>2
    <3> QED BY <1>1, <3>3, <3>4
  <2>5. Layers(q, rank2, bound + 1)
    <3> HIDE DEF rank2
    <3> QED BY <2>2, <2>3, <2>4 DEF Layers
  <2> QED
    <3> HIDE DEF rank2
    <3> QED BY <2>2, <2>5 DEF Layered
<1> QED BY <1>1, <1>2, <1>7, <1>8 DEF q

(* initRandomTPG *)
LEMMA InitialEffect ==
    ASSUME NEW p \in InitialPopulations
    PROVE  /\ Formed(p) /\ Layered(p)
           /\ p.teams # {}
<1>1. PICK ts \in {S \in SUBSET Vertex : Cardinality(S) = InitNbRoots},
           as \in {S \in SUBSET Vertex : Cardinality(S) = NbActions} : p \in InitialOver(ts, as)
  BY DEF InitialPopulations
<1>2. /\ ts \in SUBSET Vertex /\ Cardinality(ts) = InitNbRoots
      /\ as \in SUBSET Vertex /\ Cardinality(as) = NbActions
  BY <1>1
<1>3. PICK k \in [ts -> (SUBSET as) \ {{}}] :
         /\ ts \cap as = {}
         /\ p = [teams |-> ts, actions |-> as,
                 kids |-> [v \in Vertex |-> IF v \in ts THEN k[v] ELSE {}]]
  BY <1>1 DEF InitialOver
<1>4. /\ p.teams = ts /\ p.actions = as
      /\ p.kids = [v \in Vertex |-> IF v \in ts THEN k[v] ELSE {}]
  BY <1>3
<1>5. p.kids \in [Vertex -> SUBSET Vertex]
  BY <1>2, <1>4
<1>6. \A t \in ts : p.kids[t] # {} /\ p.kids[t] \subseteq as
  BY <1>2, <1>3, <1>4
<1>7. p \in PopulationType
  BY <1>2, <1>3, <1>5, <1>4 DEF PopulationType
<1>8. IsFiniteSet(as)
  BY <1>2, FS_Subset, PopulationAssumption
<1>9. Formed(p)
  <2>1. IsFiniteSet(p.actions) /\ Cardinality(p.actions) <= NbActions
    BY <1>2, <1>4, <1>8, PopulationAssumption
  <2>2. p.teams \cap p.actions = {}
    BY <1>3, <1>4
  <2>3. \A t \in p.teams : p.kids[t] # {} /\ p.kids[t] \subseteq Alive(p)
    BY <1>4, <1>6 DEF Alive
  <2> QED BY <1>7, <2>1, <2>2, <2>3 DEF Formed
<1>10. Layered(p)
  <2> DEFINE rank == [v \in Vertex |-> IF v \in ts THEN 0 ELSE 1]
  <2>1. rank \in [Vertex -> Nat] /\ \A v \in Vertex : rank[v] <= 1
    OBVIOUS
  <2>2. ASSUME NEW t \in p.teams, NEW a \in p.kids[t] PROVE rank[t] < rank[a]
    <3>1. t \in ts /\ a \in as /\ a \notin ts /\ t \in Vertex /\ a \in Vertex
      <4>1. t \in ts
        BY <1>4
      <4>2. p.kids[t] \subseteq as
        BY <1>6, <4>1
      <4> QED BY <1>2, <1>3, <4>1, <4>2
    <3>2. rank[t] = 0 /\ rank[a] = 1
      BY <3>1
    <3> QED BY <3>2
  <2>3. Layers(p, rank, 1)
    <3> HIDE DEF rank
    <3> QED BY <2>1, <2>2 DEF Layers
  <2> QED
    <3> HIDE DEF rank
    <3> QED BY <2>1, <2>3 DEF Layered
<1>11. ts # {}
  BY <1>2, FS_EmptySet, PopulationAssumption
<1> QED BY <1>4, <1>9, <1>10, <1>11

-----------------------------------------------------------------------------
(* keepBestPolicy.  The passes of its loop: *)
NextPass(p) == IF Cardinality(RootsOf(p)) = 1 THEN p ELSE KeepPass(p)

Passes(f, n) == f = [i \in 0 .. n |-> IF i = 0 THEN pop ELSE NextPass(f[i - 1])]

(* there are as many of them as one asks for, *)
LEMMA PassesExist == \A n \in Nat : \E f : Passes(f, n)
<1> DEFINE Failing == {n \in Nat : ~ \E f : Passes(f, n)}
<1> SUFFICES ASSUME Failing # {} PROVE FALSE
  OBVIOUS
<1>1. PICK n \in Failing : \A m \in Failing : n <= m
  <2>1. Failing \in SUBSET Nat
    OBVIOUS
  <2> HIDE DEF Failing
  <2> QED BY <2>1, LeastNatural
<1>2. n \in Nat /\ ~ \E f : Passes(f, n)
  OBVIOUS
<1>3. CASE n = 0
  <2> DEFINE f == [i \in 0 .. 0 |-> pop]
  <2>1. Passes(f, 0)
    BY DEF Passes
  <2> QED BY <1>2, <1>3, <2>1
<1>4. CASE n # 0
  <2>1. n - 1 \in Nat /\ n - 1 \notin Failing
    <3>1. n - 1 \in Nat /\ ~ (n <= n - 1)
      BY <1>2, <1>4
    <3> QED BY <1>1, <3>1
  <2>2. PICK f : Passes(f, n - 1)
    BY <2>1
  <2> DEFINE g == [i \in 0 .. n |-> IF i = n THEN NextPass(f[n - 1]) ELSE f[i]]
  <2>3. ASSUME NEW i \in 0 .. n PROVE g[i] = IF i = 0 THEN pop ELSE NextPass(g[i - 1])
    <3>1. CASE i = n
      <4>1. n - 1 \in 0 .. n /\ n - 1 # n /\ n \in 0 .. n
        BY <1>2, <1>4
      <4>2. g[n] = NextPass(f[n - 1]) /\ g[n - 1] = f[n - 1]
        BY <4>1
      <4> QED BY <1>4, <3>1, <4>2
    <3>2. CASE i # n
      <4>1. i \in 0 .. (n - 1) /\ g[i] = f[i]
        BY <1>2, <3>2
      <4>2. f[i] = IF i = 0 THEN pop ELSE NextPass(f[i - 1])
        BY <2>2, <4>1 DEF Passes
      <4>3. i # 0 => i - 1 \in 0 .. n /\ i - 1 # n
        BY <1>2, <4>1
      <4>4. i # 0 => g[i - 1] = f[i - 1]
        BY <4>3
      <4> QED BY <4>1, <4>2, <4>4
    <3> QED BY <3>1, <3>2
  <2>4. g = [i \in 0 .. n |-> g[i]]
    OBVIOUS
  <2>5. Passes(g, n)
    <3> HIDE DEF g
    <3> QED BY <2>3, <2>4 DEF Passes
  <2> QED BY <1>2, <2>5
<1> QED BY <1>3, <1>4

(* each that removes something leaves a smaller graph with the best root in it, *)
LEMMA KeepPassEffect ==
    ASSUME NEW p, Formed(p), Layered(p), bestRoot.root \in Alive(p)
    PROVE  LET q == NextPass(p)
           IN  /\ Formed(q) /\ Layered(q)
               /\ bestRoot.root \in Alive(q) /\ Alive(q) \subseteq Alive(p)
               /\ (q = p /\ Cardinality(RootsOf(p)) = 1) \/ Cardinality(Alive(q)) < Cardinality(Alive(p))
<1>1. CASE Cardinality(RootsOf(p)) = 1
  <2>1. NextPass(p) = p
    BY <1>1 DEF NextPass
  <2> QED BY <1>1, <2>1
<1>2. CASE Cardinality(RootsOf(p)) # 1
  <2> DEFINE D == RootsOf(p) \ {bestRoot.root}
             q == RemoveAll(p, D)
  <2>1. NextPass(p) = q
    BY <1>2 DEF NextPass, KeepPass
  <2>2. D \in SUBSET RootsOf(p)
    OBVIOUS
  <2>3. D # {}
    <3> SUFFICES ASSUME D = {} PROVE FALSE
      OBVIOUS
    <3>1. RootsOf(p) # {}
      BY HasRoots
    <3>2. RootsOf(p) = {bestRoot.root}
      BY <3>1
    <3> QED BY <1>2, <3>2, FS_Singleton
  <2> HIDE DEF D
  <2>4. Formed(q) /\ Layered(q) /\ Alive(q) = Alive(p) \ D
    BY <2>2, RemoveRootsEffect
  <2>5. Alive(q) \in SUBSET Alive(p) /\ Alive(q) # Alive(p)
    BY <2>2, <2>3, <2>4, FormedFacts
  <2>6. bestRoot.root \in Alive(q)
    BY <2>4 DEF D
  <2>7. Cardinality(Alive(q)) < Cardinality(Alive(p))
    <3> HIDE DEF q
    <3>1. IsFiniteSet(Alive(p))
      BY FormedFacts
    <3>2. /\ Cardinality(Alive(q)) <= Cardinality(Alive(p))
          /\ Cardinality(Alive(q)) # Cardinality(Alive(p))
          /\ Cardinality(Alive(q)) \in Nat /\ Cardinality(Alive(p)) \in Nat
      BY <2>5, <3>1, FS_Subset, FS_CardinalityType
    <3> QED BY <3>2
  <2> QED BY <2>1, <2>4, <2>5, <2>6, <2>7
<1> QED BY <1>1, <1>2

(* so that one root is left in the end. *)
LEMMA KeepBestPolicyEffect ==
    ASSUME PopInv, KeepBestPolicy
    PROVE  /\ Formed(pop') /\ Layered(pop')
           /\ bestRoot.root \in Alive(pop')
           /\ Cardinality(RootsOf(pop')) = 1
<1> DEFINE N == Cardinality(Vertex)
<1>1. N \in Nat
  BY PopulationAssumption, FS_CardinalityType
<1>2. PICK f : Passes(f, N) /\ pop' = f[N]
  <2> DEFINE f == CHOOSE g : Passes(g, N)
  <2>1. Passes(f, N)
    BY <1>1, PassesExist
  <2>2. pop' = f[N]
    BY DEF KeepBestPolicy, Passes, NextPass
  <2> QED BY <2>1, <2>2
<1> DEFINE Good(n) ==
             /\ Formed(f[n]) /\ Layered(f[n]) /\ bestRoot.root \in Alive(f[n])
             /\ Cardinality(RootsOf(f[n])) = 1 \/ Cardinality(Alive(f[n])) + n <= N
           Failing == {n \in 0 .. N : ~ Good(n)}
<1>3. \A i \in 0 .. N : f[i] = IF i = 0 THEN pop ELSE NextPass(f[i - 1])
  BY <1>2 DEF Passes
<1>4. Failing = {}
  <2> SUFFICES ASSUME Failing # {} PROVE FALSE
    OBVIOUS
  <2>1. PICK n \in Failing : \A m \in Failing : n <= m
    <3>1. Failing \in SUBSET Nat
      BY <1>1
    <3> HIDE DEF Failing
    <3> QED BY <3>1, LeastNatural
  <2>2. n \in 0 .. N /\ ~ Good(n)
    BY <2>1
  <2>3. CASE n = 0
    <3>1. f[n] = pop
      BY <1>3, <2>2, <2>3
    <3>2. Formed(pop) /\ Layered(pop) /\ bestRoot.root \in Alive(pop)
      BY DEF PopInv, KeepBestPolicy
    <3>3. Cardinality(Alive(pop)) <= N /\ Cardinality(Alive(pop)) \in Nat
      <4>1. Alive(pop) \in SUBSET Vertex
        BY <3>2, FormedFacts
      <4> QED BY <4>1, FS_Subset, FS_CardinalityType, PopulationAssumption
    <3> QED BY <1>1, <2>2, <2>3, <3>1, <3>2, <3>3
  <2>4. CASE n # 0
    <3>1. n - 1 \in 0 .. N /\ ~ (n <= n - 1)
      BY <1>1, <2>2, <2>4
    <3>2. Good(n - 1)
      BY <2>1, <3>1
    <3> DEFINE p == f[n - 1]
    <3>3. f[n] = NextPass(p)
      BY <1>3, <2>2, <2>4
    <3>4. Formed(p) /\ Layered(p) /\ bestRoot.root \in Alive(p)
      BY <3>2
    <3>5. Cardinality(RootsOf(p)) = 1 \/ Cardinality(Alive(p)) + (n - 1) <= N
      BY <3>2
    <3> HIDE DEF p, Good
    <3> DEFINE q == NextPass(p)
    <3>6. /\ Formed(q) /\ Layered(q) /\ bestRoot.root \in Alive(q)
          /\ (q = p /\ Cardinality(RootsOf(p)) = 1) \/ Cardinality(Alive(q)) < Cardinality(Alive(p))
      BY <3>4, KeepPassEffect
    <3> HIDE DEF q
    <3>7. Cardinality(RootsOf(q)) = 1 \/ Cardinality(Alive(q)) + n <= N
      <4>1. Cardinality(Alive(p)) \in Nat /\ Cardinality(Alive(q)) \in Nat
        BY <3>4, <3>6, FormedFacts, FS_CardinalityType
      <4>2. CASE q = p /\ Cardinality(RootsOf(p)) = 1
        BY <4>2
      <4>3. CASE Cardinality(RootsOf(p)) = 1
        BY <3>3, <4>3 DEF NextPass, q
      <4>4. CASE Cardinality(RootsOf(p)) # 1
        BY <1>1, <2>2, <3>5, <3>6, <4>1, <4>4
      <4> QED BY <4>3, <4>4
    <3> QED BY <2>2, <3>3, <3>6, <3>7 DEF Good, q
  <2> QED BY <2>3, <2>4
<1>5. Good(N)
  BY <1>1, <1>4
<1>6. Cardinality(Alive(f[N])) # 0
  <2>1. IsFiniteSet(Alive(f[N])) /\ Alive(f[N]) # {}
    BY <1>5, FormedFacts
  <2> QED BY <2>1, FS_EmptySet
<1>7. Cardinality(Alive(f[N])) \in Nat
  BY <1>5, FormedFacts, FS_CardinalityType
<1> QED BY <1>1, <1>2, <1>5, <1>6, <1>7

-----------------------------------------------------------------------------
(* The graph, in every step. *)

GraphInv == PopInv /\ (pc = "populate" => preExisting \subseteq Alive(pop))

LEMMA DecimateEffect ==
    ASSUME DecimateWorstRoots
    PROVE  \E D \in SUBSET (DOMAIN results \cap pop.teams) :
              /\ Cardinality(D) = NbToRemove(DOMAIN results \cap pop.teams)
              /\ \A d \in D, v \in (DOMAIN results \cap pop.teams) \ D : ~ Worse(results[v], results[d])
              /\ pop' = RemoveAll(pop, D)
              /\ results' = WithoutRoots(results, D)
              /\ resultsPerRoot' = Disown(Forget(resultsPerRoot, D), D)
              /\ bestRoot' = DisownBest(bestRoot, D)
              /\ stale' = stale \ D
<1>1. PICK D \in WorstRoots(DOMAIN results \cap pop.teams) :
              /\ pop' = RemoveAll(pop, D)
              /\ results' = WithoutRoots(results, D)
              /\ resultsPerRoot' = Disown(Forget(resultsPerRoot, D), D)
              /\ bestRoot' = DisownBest(bestRoot, D)
              /\ stale' = stale \ D
  BY DEF DecimateWorstRoots
<1>2. /\ D \in SUBSET (DOMAIN results \cap pop.teams)
      /\ Cardinality(D) = NbToRemove(DOMAIN results \cap pop.teams)
      /\ \A d \in D, v \in (DOMAIN results \cap pop.teams) \ D : ~ Worse(results[v], results[d])
  BY <1>1 DEF WorstRoots
<1> QED BY <1>1, <1>2

LEMMA GraphInvStep ==
    ASSUME GraphInv, pc = "decimate" => DOMAIN results = RootsOf(pop), [Training]_vars
    PROVE  GraphInv'
<1> USE DEF GraphInv
<1>1. CASE pop' = pop /\ pc' # "populate"
  BY <1>1 DEF PopInv
<1>2. CASE pop' \in InitialPopulations /\ (pc' = "populate" => preExisting' = Alive(pop'))
  <2>1. Formed(pop') /\ Layered(pop')
    BY <1>2, InitialEffect
  <2> QED BY <1>2, <2>1 DEF PopInv
<1>3. CASE StartGeneration
  <2>1. CASE pop' = pop
    BY <1>3, <2>1 DEF StartGeneration, PopInv
  <2>2. CASE pop' \in InitialPopulations
    BY <1>2, <1>3, <2>2 DEF StartGeneration
  <2> QED BY <1>3, <2>1, <2>2 DEF StartGeneration
<1>4. CASE AddNewTeam
  <2>1. PICK v \in Vertex \ Alive(pop), ks \in (SUBSET preExisting) \ {{}} : pop' = AddTeam(pop, v, ks)
    BY <1>4 DEF AddNewTeam
  <2>2. ks \in (SUBSET Alive(pop)) \ {{}}
    BY <1>4, <2>1 DEF AddNewTeam
  <2>3. Formed(pop') /\ Layered(pop') /\ Alive(pop') = Alive(pop) \cup {v}
    BY <2>1, <2>2, AddTeamEffect DEF PopInv
  <2> QED BY <1>4, <2>3 DEF PopInv, AddNewTeam
<1>5. CASE DecimateWorstRoots
  <2>1. PICK D \in SUBSET (DOMAIN results \cap pop.teams) : pop' = RemoveAll(pop, D)
    BY <1>5, DecimateEffect
  <2>2. D \in SUBSET RootsOf(pop)
    BY <1>5, <2>1 DEF DecimateWorstRoots
  <2>3. Formed(pop') /\ Layered(pop')
    BY <2>1, <2>2, RemoveRootsEffect DEF PopInv
  <2> QED BY <1>5, <2>3 DEF PopInv, DecimateWorstRoots
<1>6. CASE KeepBestPolicy
  BY <1>6, KeepBestPolicyEffect DEF PopInv, KeepBestPolicy
<1>7. CASE UNCHANGED vars
  BY <1>7 DEF vars, PopInv
<1>8. CASE InitAgent
  BY <1>2, <1>8 DEF InitAgent
<1>9. CASE EndPopulate \/ EvaluateAllRoots \/ UpdateEvaluationRecords \/ EndGeneration
  BY <1>1, <1>9 DEF EndPopulate, EvaluateAllRoots, UpdateEvaluationRecords, UpdateRecords, EndGeneration
<1>10. CASE ForgetPreviousResults
  BY <1>1, <1>10 DEF ForgetPreviousResults
<1> QED BY <1>3, <1>4, <1>5, <1>6, <1>7, <1>8, <1>9, <1>10 DEF Training, Generation

LEMMA EmptyGraphInv ==
    /\ Formed(EmptyPopulation) /\ Layered(EmptyPopulation)
    /\ Alive(EmptyPopulation) = {} /\ RootTeamsOf(EmptyPopulation) = {}
<1> DEFINE p == EmptyPopulation
<1>1. p.teams = {} /\ p.actions = {} /\ p.kids \in [Vertex -> SUBSET Vertex] /\ p \in PopulationType
  BY DEF EmptyPopulation, PopulationType
<1> HIDE DEF p
<1>2. Alive(p) = {}
  BY <1>1 DEF Alive
<1>3. RootTeamsOf(p) = {}
  BY <1>1 DEF RootTeamsOf
<1>4. IsFiniteSet(p.actions) /\ Cardinality(p.actions) <= NbActions
  BY <1>1, FS_EmptySet, PopulationAssumption
<1>5. Formed(p)
  BY <1>1, <1>4 DEF Formed
<1>6. Layered(p)
  <2>1. [v \in Vertex |-> 0] \in [Vertex -> Nat] /\ \A v \in Vertex : [w \in Vertex |-> 0][v] <= 0
    OBVIOUS
  <2>2. Layers(p, [v \in Vertex |-> 0], 0)
    BY <1>1, <2>1 DEF Layers
  <2> QED BY <2>1, <2>2 DEF Layered
<1> QED BY <1>2, <1>3, <1>5, <1>6 DEF p

(* What decimation reads. *)
RootsInv ==
    pc = "decimate" => DOMAIN results = RootsOf(pop)

LEMMA RootsInvStep ==
    ASSUME RootsInv, [Training]_vars PROVE RootsInv'
<1> USE DEF RootsInv
<1>1. CASE pc' # "decimate"
  BY <1>1
<1>2. CASE EvaluateAllRoots
  BY <1>2 DEF EvaluateAllRoots
<1>3. CASE UNCHANGED vars
  BY <1>3 DEF vars
<1> QED BY <1>1, <1>2, <1>3 DEF Training, Generation, StartGeneration, AddNewTeam, EndPopulate,
        DecimateWorstRoots, UpdateEvaluationRecords, UpdateRecords, EndGeneration, InitAgent,
        ForgetPreviousResults, KeepBestPolicy

LEMMA GraphInvAlways == TrainingSpec => [](GraphInv /\ RootsInv)
<1>1. Init => GraphInv /\ RootsInv
  BY EmptyGraphInv DEF Init, GraphInv, RootsInv, PopInv
<1>2. GraphInv /\ RootsInv /\ [Training]_vars => GraphInv' /\ RootsInv'
  BY GraphInvStep, RootsInvStep DEF RootsInv
<1> QED BY <1>1, <1>2, PTL DEF TrainingSpec

LEMMA BestPolicySurvivesStep ==
    ASSUME GraphInv, BestPolicySurvives, [Training]_vars PROVE BestPolicySurvives'
<1>1. CASE pc' # "kept"
  BY <1>1 DEF BestPolicySurvives
<1>2. CASE KeepBestPolicy
  <2>1. /\ Formed(pop') /\ bestRoot.root \in Alive(pop') /\ Cardinality(RootsOf(pop')) = 1
        /\ bestRoot' = bestRoot
    BY <1>2, KeepBestPolicyEffect DEF GraphInv, KeepBestPolicy
  <2> QED BY <2>1 DEF BestPolicySurvives, Formed
<1>3. CASE UNCHANGED vars
  BY <1>3 DEF vars, BestPolicySurvives
<1> QED BY <1>1, <1>2, <1>3 DEF Training, Generation, StartGeneration, AddNewTeam, EndPopulate,
        EvaluateAllRoots, DecimateWorstRoots, UpdateEvaluationRecords, UpdateRecords, EndGeneration,
        InitAgent, ForgetPreviousResults

(* BestPolicySurvives of LearningAgent, for every graph: keepBestPolicy ends with one root and the
   complete policy of the best one, whatever was trained before and however results compare. *)
THEOREM BestPolicyAlwaysSurvives == TrainingSpec => []BestPolicySurvives
<1>1. Init => BestPolicySurvives
  BY DEF Init, BestPolicySurvives
<1>2. GraphInv /\ BestPolicySurvives /\ [Training]_vars => BestPolicySurvives'
  BY BestPolicySurvivesStep
<1> QED BY <1>1, <1>2, GraphInvAlways, PTL DEF TrainingSpec

-----------------------------------------------------------------------------
(* Results. *)

(* Results are compared by their averages. *)
LEMMA Averages ==
    ASSUME NEW x \in Result, NEW y \in Result, NEW z \in Result
    PROVE  /\ ~ Worse(x, x)
           /\ ~ Worse(x, y) /\ ~ Worse(y, z) => ~ Worse(x, z)
           /\ ~ Worse(x, y) /\ ~ Worse(y, x) => x.sum * y.n = y.sum * x.n
<1> DEFINE a == x.sum
           b == y.sum
           c == z.sum
           k == x.n
           l == y.n
           m == z.n
<1>1. a \in Nat /\ b \in Nat /\ c \in Nat /\ k \in Nat \ {0} /\ l \in Nat \ {0} /\ m \in Nat \ {0}
  BY DEF Result
<1>2. ASSUME ~ Worse(x, y), ~ Worse(y, z) PROVE ~ Worse(x, z)
  <2>1. b * k <= a * l /\ c * l <= b * m
    <3>1. ~ (a * l < b * k) /\ ~ (b * m < c * l)
      BY <1>2 DEF Worse
    <3>2. a * l \in Nat /\ b * k \in Nat /\ b * m \in Nat /\ c * l \in Nat
      BY <1>1
    <3> QED BY <3>1, <3>2
  <2> HIDE DEF a, b, c, k, l, m
  <2>2. (c * l) * k <= (b * m) * k
    BY <1>1, <2>1
  <2>3. (b * k) * m <= (a * l) * m
    BY <1>1, <2>1
  <2>4. (c * k) * l <= (a * m) * l
    <3>1. (c * k) * l = (c * l) * k /\ (b * m) * k = (b * k) * m /\ (a * l) * m = (a * m) * l
      BY <1>1
    <3>2. (c * l) * k \in Nat /\ (b * m) * k \in Nat /\ (a * l) * m \in Nat
      BY <1>1
    <3> QED BY <2>2, <2>3, <3>1, <3>2
  <2>5. c * k \in Nat /\ a * m \in Nat
    BY <1>1
  <2>6. c * k <= a * m
    BY <1>1, <2>4, <2>5, ProductOrder
  <2>7. ~ (a * m < c * k)
    BY <2>5, <2>6
  <2> QED BY <2>7 DEF Worse, a, c, k, m
<1>3. ~ Worse(x, x)
  BY <1>1 DEF Worse
<1>4. ASSUME ~ Worse(x, y), ~ Worse(y, x) PROVE a * l = b * k
  <2>1. ~ (a * l < b * k) /\ ~ (b * k < a * l)
    BY <1>4 DEF Worse
  <2>2. a * l \in Nat /\ b * k \in Nat
    BY <1>1
  <2> QED BY <2>1, <2>2
<1> QED BY <1>2, <1>3, <1>4

LEMMA NoResultType == NoResult \in Result /\ NoBest \in [root : Vertex \cup {NoVertex}, result : Result]
BY DEF NoResult, NoBest, Result

LEMMA NothingStored == /\ DOMAIN <<>> = {}
                       /\ IsRecord(<<>>) /\ Limited(<<>>)
<1>1. DOMAIN <<>> = {}
  OBVIOUS
<1> QED BY <1>1 DEF IsRecord, Limited

LEMMA EvaluationFacts ==
    ASSUME TypeInv, NEW v \in Vertex, NEW sum \in Nat
    PROVE  LET r == EvaluationOf(v, sum)
           IN  /\ r \in Result
               /\ r.n = NbIter \/ r.n < MaxNbEval + NbIter
               /\ (v \in DOMAIN resultsPerRoot => resultsPerRoot[v].own) => r.own
               /\ IsRootEvalSkipped(v) => r = resultsPerRoot[v]
<1> DEFINE new == [sum |-> sum, n |-> NbIter, own |-> TRUE]
<1>1. new \in Result /\ new.n = NbIter /\ new.own
  BY AgentAssumption DEF Result
<1>2. CASE v \notin DOMAIN resultsPerRoot
  <2>1. EvaluationOf(v, sum) = new /\ ~ IsRootEvalSkipped(v)
    BY <1>2 DEF EvaluationOf, IsRootEvalSkipped
  <2> QED BY <1>1, <2>1
<1>3. CASE v \in DOMAIN resultsPerRoot
  <2> DEFINE old == resultsPerRoot[v]
  <2>1. /\ old \in Result
        /\ old.n = NbIter \/ old.n < MaxNbEval + NbIter
    BY <1>3 DEF TypeInv, IsRecord, Limited
  <2>2. CASE IsRootEvalSkipped(v)
    <3>1. EvaluationOf(v, sum) = old
      BY <2>2 DEF EvaluationOf
    <3> QED BY <1>3, <2>1, <3>1
  <2>3. CASE ~ IsRootEvalSkipped(v)
    <3>1. EvaluationOf(v, sum) = Combine(new, old)
      BY <1>3, <2>3 DEF EvaluationOf
    <3>2. ~ (old.n >= MaxNbEval)
      BY <1>3, <2>3 DEF IsRootEvalSkipped
    <3> HIDE DEF new, old
    <3>3. Combine(new, old) = [sum |-> new.sum + old.sum, n |-> new.n + old.n, own |-> new.own /\ old.own]
      BY DEF Combine
    <3>4. new.sum + old.sum \in Nat /\ new.n + old.n \in Nat \ {0}
      BY <1>1, <2>1 DEF Result
    <3>5. new.own \in BOOLEAN /\ old.own \in BOOLEAN
      BY <1>1, <2>1 DEF Result
    <3>6. Combine(new, old) \in Result
      BY <3>3, <3>4, <3>5 DEF Result
    <3>7. Combine(new, old).n < MaxNbEval + NbIter
      <4>1. old.n \in Nat /\ Combine(new, old).n = NbIter + old.n
        BY <1>1, <2>1, <3>3 DEF Result
      <4> QED BY <3>2, <4>1, AgentAssumption
    <3>8. ASSUME old.own PROVE Combine(new, old).own
      <4>1. new.own = TRUE /\ old.own = TRUE
        BY <1>1, <2>1, <3>5, <3>8
      <4> DEFINE both == new.own /\ old.own
      <4>2. Combine(new, old).own = both
        BY <3>3
      <4>3. both
        BY <4>1
      <4> HIDE DEF both
      <4> QED BY <4>2, <4>3
    <3>9. old.own => Combine(new, old).own
      BY <3>8
    <3> QED BY <1>3, <2>3, <3>1, <3>6, <3>7, <3>9 DEF old
  <2> QED BY <2>2, <2>3
<1> QED BY <1>2, <1>3

LEMMA DisownFacts ==
    ASSUME NEW f, IsRecord(f), NEW D
    PROVE  /\ DOMAIN Disown(f, D) = DOMAIN f
           /\ IsRecord(Disown(f, D))
           /\ Limited(f) => Limited(Disown(f, D))
           /\ \A v \in DOMAIN f :
                 Disown(f, D)[v] = IF v \in D THEN [f[v] EXCEPT !.own = FALSE] ELSE f[v]
<1>1. DOMAIN Disown(f, D) = DOMAIN f
  BY DEF Disown
<1>2. ASSUME NEW v \in DOMAIN f
      PROVE  /\ Disown(f, D)[v] \in Result /\ Disown(f, D)[v].n = f[v].n
             /\ Disown(f, D)[v] = IF v \in D THEN [f[v] EXCEPT !.own = FALSE] ELSE f[v]
  <2>1. f[v] \in Result
    BY DEF IsRecord
  <2>2. Disown(f, D)[v] = IF v \in D THEN [f[v] EXCEPT !.own = FALSE] ELSE f[v]
    BY DEF Disown
  <2>3. [f[v] EXCEPT !.own = FALSE] \in Result /\ [f[v] EXCEPT !.own = FALSE].n = f[v].n
    BY <2>1 DEF Result
  <2> QED BY <2>1, <2>2, <2>3
<1> QED BY <1>1, <1>2 DEF IsRecord, Limited

LEMMA WithoutFacts ==
    ASSUME NEW f, IsRecord(f), NEW D
    PROVE  /\ DOMAIN WithoutRoots(f, D) = DOMAIN f \ D
           /\ \A v \in DOMAIN f \ D : WithoutRoots(f, D)[v] = f[v]
           /\ IsRecord(WithoutRoots(f, D))
           /\ Limited(f) => Limited(WithoutRoots(f, D))
BY DEF WithoutRoots, IsRecord, Limited

LEMMA DisownBestFacts ==
    ASSUME NEW best \in [root : Vertex \cup {NoVertex}, result : Result], NEW D
    PROVE  /\ DisownBest(best, D) \in [root : Vertex \cup {NoVertex}, result : Result]
           /\ DisownBest(best, D).root = best.root
           /\ best.root \notin D => DisownBest(best, D) = best
           /\ best.root \in D => DisownBest(best, D).result = [best.result EXCEPT !.own = FALSE]
<1>1. [best EXCEPT !.result.own = FALSE] = [root |-> best.root, result |-> [best.result EXCEPT !.own = FALSE]]
  <2> DEFINE r == best.root
             t == best.result
  <2>1. best = [root |-> r, result |-> t]
    OBVIOUS
  <2> HIDE DEF r, t
  <2> DEFINE q == [[root |-> r, result |-> t] EXCEPT !.result.own = FALSE]
  <2>2. q.root = r
    OBVIOUS
  <2>3. q.result = [t EXCEPT !.own = FALSE]
    OBVIOUS
  <2>4. DOMAIN q = {"root", "result"} /\ q = [i \in {"root", "result"} |-> q[i]]
    OBVIOUS
  <2> HIDE DEF q
  <2>5. q = [root |-> r, result |-> [t EXCEPT !.own = FALSE]]
    BY <2>2, <2>3, <2>4
  <2> QED BY <2>1, <2>5 DEF r, t, q
<1>2. [best.result EXCEPT !.own = FALSE] \in Result
  BY DEF Result
<1> QED BY <1>1, <1>2 DEF DisownBest

-----------------------------------------------------------------------------
(* The records, in every step. *)

(* The vertices D are destroyed, the results at their addresses stay. *)
LEMMA LeaveBehindFacts ==
    ASSUME TypeInv, Owned(results), Owned(resultsPerRoot), NEW D, LeaveBehind(D), results' = results
    PROVE  /\ IsRecord(resultsPerRoot') /\ Limited(resultsPerRoot')
           /\ DOMAIN resultsPerRoot' = DOMAIN resultsPerRoot
           /\ Owned(results)' /\ Owned(resultsPerRoot)'
           /\ \A v \in DOMAIN resultsPerRoot :
                 resultsPerRoot'[v] = IF v \in D THEN [resultsPerRoot[v] EXCEPT !.own = FALSE]
                                      ELSE resultsPerRoot[v]
<1>1. /\ resultsPerRoot' = Disown(resultsPerRoot, D)
      /\ stale' = stale \cup (D \cap DOMAIN resultsPerRoot)
  BY DEF LeaveBehind
<1>2. /\ IsRecord(resultsPerRoot') /\ Limited(resultsPerRoot')
      /\ DOMAIN resultsPerRoot' = DOMAIN resultsPerRoot
      /\ \A v \in DOMAIN resultsPerRoot :
            resultsPerRoot'[v] = IF v \in D THEN [resultsPerRoot[v] EXCEPT !.own = FALSE]
                                 ELSE resultsPerRoot[v]
  BY <1>1, DisownFacts DEF TypeInv
<1>3. Owned(results)' /\ Owned(resultsPerRoot)'
  BY <1>1, <1>2 DEF Owned
<1> QED BY <1>2, <1>3

LEMMA NoBestFacts ==
    ASSUME TypeInv
    PROVE  NoBest.root \notin DOMAIN resultsPerRoot /\ NoBest.root \notin DOMAIN results
BY AgentAssumption DEF TypeInv, IsRecord, NoBest

LEMMA AgentInvStartGeneration ==
    ASSUME AgentInv, PopInv, StartGeneration PROVE AgentInv'
<1> USE DEF AgentInv
<1>1. /\ pc \in {"idle", "kept"} /\ pc' = "populate" /\ results' = results
      /\ bestScoreLastGen' = bestScoreLastGen
  BY DEF StartGeneration, Idle
<1>2. CASE RootTeamsOf(pop) # {} /\ UNCHANGED <<pop, resultsPerRoot, bestRoot, stale>>
  <2>1. TypeInv'
    BY <1>1, <1>2 DEF TypeInv, IsRecord, Limited
  <2>2. OwnInv'
    BY <1>1, <1>2 DEF OwnInv, Owned
  <2>3. PlaceInv'
    BY <1>1, <1>2 DEF PlaceInv, RootTeamsOf
  <2> QED BY <1>1, <2>1, <2>2, <2>3 DEF BestRootIsBest
<1>3. CASE /\ pop' \in InitialPopulations /\ LeaveBehind(Alive(pop))
           /\ bestRoot' = DisownBest(bestRoot, Alive(pop))
  <2>1. /\ IsRecord(resultsPerRoot') /\ Limited(resultsPerRoot')
        /\ DOMAIN resultsPerRoot' = DOMAIN resultsPerRoot
        /\ Owned(results)' /\ Owned(resultsPerRoot)'
        /\ \A v \in DOMAIN resultsPerRoot :
              resultsPerRoot'[v] = IF v \in Alive(pop) THEN [resultsPerRoot[v] EXCEPT !.own = FALSE]
                                   ELSE resultsPerRoot[v]
    BY <1>1, <1>3, LeaveBehindFacts DEF OwnInv
  <2>2. /\ bestRoot' \in [root : Vertex \cup {NoVertex}, result : Result]
        /\ bestRoot'.root = bestRoot.root
        /\ bestRoot.root \notin Alive(pop) => bestRoot' = bestRoot
        /\ bestRoot.root \in Alive(pop) => bestRoot'.result = [bestRoot.result EXCEPT !.own = FALSE]
    BY <1>3, DisownBestFacts DEF TypeInv
  <2>3. TypeInv'
    BY <1>1, <2>1, <2>2 DEF TypeInv, IsRecord, Limited
  <2>4. bestRoot'.root \in DOMAIN resultsPerRoot' => bestRoot'.result = resultsPerRoot'[bestRoot'.root]
    BY <2>1, <2>2 DEF OwnInv
  <2>5. bestRoot' = NoBest \/ bestRoot'.root \in DOMAIN resultsPerRoot'
    <3>1. CASE bestRoot = NoBest
      <4>1. NoBest.root \notin Alive(pop)
        BY FormedFacts, AgentAssumption DEF PopInv, NoBest
      <4> QED BY <2>2, <3>1, <4>1
    <3>2. CASE bestRoot.root \in DOMAIN resultsPerRoot
      BY <2>1, <2>2, <3>2
    <3> QED BY <1>1, <3>1, <3>2 DEF OwnInv
  <2>6. OwnInv'
    BY <2>1, <2>4, <2>5 DEF OwnInv
  <2>7. PlaceInv'
    BY <1>1, <1>3, InitialEffect DEF PlaceInv
  <2> QED BY <1>1, <2>3, <2>6, <2>7 DEF BestRootIsBest
<1> QED BY <1>2, <1>3 DEF StartGeneration

LEMMA AgentInvAddNewTeam ==
    ASSUME AgentInv, GraphInv, AddNewTeam PROVE AgentInv'
<1> USE DEF AgentInv
<1>1. /\ pc = "populate" /\ pc' = "populate" /\ results' = results /\ resultsPerRoot' = resultsPerRoot
      /\ bestRoot' = bestRoot /\ bestScoreLastGen' = bestScoreLastGen /\ stale' = stale
  BY DEF AddNewTeam, records
<1>2. PICK v \in Vertex \ Alive(pop), ks \in (SUBSET preExisting) \ {{}} : pop' = AddTeam(pop, v, ks)
  BY DEF AddNewTeam
<1>3. ks \in (SUBSET Alive(pop)) \ {{}}
  BY <1>1, <1>2 DEF GraphInv
<1>4. pop'.teams = pop.teams \cup {v}
  BY <1>2, <1>3, AddTeamEffect DEF GraphInv, PopInv
<1>5. TypeInv'
  BY <1>1 DEF TypeInv, IsRecord, Limited
<1>6. OwnInv'
  BY <1>1 DEF OwnInv, Owned
<1>7. PlaceInv'
  BY <1>1, <1>4 DEF PlaceInv
<1> QED BY <1>1, <1>5, <1>6, <1>7 DEF BestRootIsBest

LEMMA AgentInvEndPopulate ==
    ASSUME AgentInv, EndPopulate PROVE AgentInv'
<1> USE DEF AgentInv
<1>1. /\ pc = "populate" /\ pc' = "evaluate" /\ results' = results /\ resultsPerRoot' = resultsPerRoot
      /\ bestRoot' = bestRoot /\ bestScoreLastGen' = bestScoreLastGen /\ pop' = pop /\ stale' = stale
      /\ Cardinality(RootsOf(pop)) >= NbRoots
  BY DEF EndPopulate, records
<1>2. TypeInv'
  BY <1>1 DEF TypeInv, IsRecord, Limited
<1>3. OwnInv'
  BY <1>1 DEF OwnInv, Owned
<1>4. PlaceInv'
  BY <1>1 DEF PlaceInv
<1> QED BY <1>1, <1>2, <1>3, <1>4 DEF BestRootIsBest

LEMMA AgentInvEvaluateAllRoots ==
    ASSUME AgentInv, GraphInv, EvaluateAllRoots PROVE AgentInv'
<1> USE DEF AgentInv
<1>1. /\ pc = "evaluate" /\ pc' = "decimate" /\ resultsPerRoot' = resultsPerRoot
      /\ bestRoot' = bestRoot /\ pop' = pop /\ stale' = stale
  BY DEF EvaluateAllRoots
<1>2. PICK sums \in [RootsOf(pop) -> {s * NbIter : s \in Score}] :
         results' = [v \in RootsOf(pop) |-> EvaluationOf(v, sums[v])]
  BY DEF EvaluateAllRoots
<1>3. DOMAIN results' = RootsOf(pop)
  BY <1>2
<1>4. ASSUME NEW v \in RootsOf(pop)
      PROVE  /\ v \in Vertex /\ results'[v] \in Result /\ (results'[v].own \/ v \in stale)
             /\ results'[v].n = NbIter \/ results'[v].n < MaxNbEval + NbIter
             /\ IsRootEvalSkipped(v) => results'[v] = resultsPerRoot[v]
  <2>1. v \in Vertex
    BY FormedFacts DEF GraphInv, PopInv
  <2>2. sums[v] \in Nat
    <3>1. sums[v] \in {s * NbIter : s \in Score}
      BY <1>2
    <3>2. PICK s \in Score : sums[v] = s * NbIter
      BY <3>1
    <3>3. s \in Nat /\ NbIter \in Nat
      BY AgentAssumption
    <3> QED BY <3>2, <3>3
  <2>3. results'[v] = EvaluationOf(v, sums[v])
    BY <1>2
  <2>4. v \in DOMAIN resultsPerRoot => resultsPerRoot[v].own \/ v \in stale
    BY DEF OwnInv, Owned
  <2> QED BY <2>1, <2>2, <2>3, <2>4, EvaluationFacts
<1>5. IsRecord(results') /\ Limited(results') /\ Owned(results)'
  BY <1>1, <1>3, <1>4 DEF IsRecord, Limited, Owned
<1>6. PICK best \in Best(results') : bestScoreLastGen' = results'[best]
  BY DEF EvaluateAllRoots
<1>7. bestScoreLastGen' \in Result
  BY <1>5, <1>6 DEF IsRecord, Best
<1>8. TypeInv'
  BY <1>1, <1>5, <1>7 DEF TypeInv, IsRecord, Limited
<1>9. OwnInv'
  BY <1>1, <1>5 DEF OwnInv, Owned
<1>10. PlaceInv'
  <2>1. \A v \in DOMAIN results' : IsRootEvalSkipped(v)' => results'[v] = resultsPerRoot'[v]
    BY <1>1, <1>3, <1>4 DEF IsRootEvalSkipped
  <2> QED BY <1>1, <1>6, <2>1 DEF PlaceInv, Best
<1> QED BY <1>1, <1>8, <1>9, <1>10 DEF BestRootIsBest

LEMMA AgentInvDecimate ==
    ASSUME AgentInv, GraphInv, RootsInv, DecimateWorstRoots PROVE AgentInv'
<1> USE DEF AgentInv
<1>1. pc = "decimate" /\ pc' = "update" /\ bestScoreLastGen' = bestScoreLastGen
  BY DEF DecimateWorstRoots
<1>2. PICK D \in SUBSET (DOMAIN results \cap pop.teams) :
              /\ pop' = RemoveAll(pop, D)
              /\ results' = WithoutRoots(results, D)
              /\ resultsPerRoot' = Disown(Forget(resultsPerRoot, D), D)
              /\ bestRoot' = DisownBest(bestRoot, D)
              /\ stale' = stale \ D
  BY DecimateEffect
<1>3. DOMAIN results = RootsOf(pop) /\ D \in SUBSET RootsOf(pop) /\ D \in SUBSET Vertex
  BY <1>1, <1>2 DEF RootsInv, TypeInv, IsRecord
<1>4. Alive(pop') = Alive(pop) \ D
  BY <1>2, <1>3, RemoveRootsEffect DEF GraphInv, PopInv
<1>5. /\ DOMAIN results' = DOMAIN results \ D
      /\ \A v \in DOMAIN results \ D : results'[v] = results[v]
      /\ IsRecord(results') /\ Limited(results')
  BY <1>2, WithoutFacts DEF TypeInv
<1>6. /\ IsRecord(resultsPerRoot') /\ Limited(resultsPerRoot')
      /\ DOMAIN resultsPerRoot' = DOMAIN resultsPerRoot \ D
      /\ \A v \in DOMAIN resultsPerRoot \ D : resultsPerRoot'[v] = resultsPerRoot[v]
  <2> DEFINE f == WithoutRoots(resultsPerRoot, D)
  <2>1. /\ DOMAIN f = DOMAIN resultsPerRoot \ D
        /\ \A v \in DOMAIN resultsPerRoot \ D : f[v] = resultsPerRoot[v]
        /\ IsRecord(f) /\ Limited(f)
    BY WithoutFacts DEF TypeInv
  <2>2. resultsPerRoot' = Disown(f, D)
    BY <1>2 DEF Forget
  <2> HIDE DEF f
  <2> QED BY <2>1, <2>2, DisownFacts
<1>7. Owned(results)' /\ Owned(resultsPerRoot)'
  BY <1>2, <1>5, <1>6 DEF OwnInv, Owned
<1>8. /\ bestRoot' \in [root : Vertex \cup {NoVertex}, result : Result]
      /\ bestRoot'.root = bestRoot.root
      /\ bestRoot.root \notin D => bestRoot' = bestRoot
  BY <1>2, DisownBestFacts DEF TypeInv
<1>9. TypeInv'
  BY <1>1, <1>5, <1>6, <1>8 DEF TypeInv, IsRecord, Limited
<1>10. OwnInv'
  <2>1. bestRoot'.root \in DOMAIN resultsPerRoot' => bestRoot'.result = resultsPerRoot'[bestRoot'.root]
    BY <1>6, <1>8 DEF OwnInv
  <2>2. CASE bestRoot.root \in D
    <3>1. bestRoot'.root \notin Alive(pop')
      BY <1>4, <1>8, <2>2
    <3> QED BY <1>1, <1>7, <2>1, <3>1 DEF OwnInv
  <2>3. CASE bestRoot.root \notin D
    <3>1. bestRoot' = NoBest \/ bestRoot'.root \in DOMAIN resultsPerRoot'
      BY <1>1, <1>6, <1>8, <2>3 DEF OwnInv
    <3> QED BY <1>7, <2>1, <3>1 DEF OwnInv
  <2> QED BY <2>2, <2>3
<1>11. PlaceInv'
  <2>1. DOMAIN results' \subseteq Alive(pop')
    BY <1>3, <1>4, <1>5, FormedFacts DEF GraphInv, PopInv
  <2>2. \A v \in DOMAIN results' : IsRootEvalSkipped(v)' => results'[v] = resultsPerRoot'[v]
    BY <1>1, <1>5, <1>6 DEF PlaceInv, IsRootEvalSkipped
  <2> QED BY <1>1, <2>1, <2>2 DEF PlaceInv
<1> QED BY <1>1, <1>9, <1>10, <1>11 DEF BestRootIsBest

(* A result that is not stored again is the one that is stored. *)
LEMMA AgentInvUpdateRecords ==
    ASSUME AgentInv, NEW reused, UpdateRecords(reused),
           \A v \in reused : v \in DOMAIN results /\ results[v] = resultsPerRoot[v]
    PROVE  AgentInv'
<1> USE DEF AgentInv
<1>1. /\ pc = "update" /\ pc' = "trained" /\ pop' = pop /\ results' = results
      /\ bestScoreLastGen' = bestScoreLastGen /\ stale' = stale
      /\ resultsPerRoot' = [v \in DOMAIN resultsPerRoot \cup DOMAIN results |->
                              IF v \in DOMAIN results THEN results[v] ELSE resultsPerRoot[v]]
  BY DEF UpdateRecords
<1>2. DOMAIN results \subseteq Alive(pop)
  BY <1>1 DEF PlaceInv
<1>3. /\ DOMAIN resultsPerRoot' = DOMAIN resultsPerRoot \cup DOMAIN results
      /\ \A v \in DOMAIN resultsPerRoot' :
            resultsPerRoot'[v] = IF v \in DOMAIN results THEN results[v] ELSE resultsPerRoot[v]
  BY <1>1
<1>4. /\ IsRecord(resultsPerRoot') /\ Limited(resultsPerRoot')
      /\ Owned(results)' /\ Owned(resultsPerRoot)'
  <2>1. Owned(resultsPerRoot) /\ Owned(results)
    BY DEF OwnInv
  <2>2. IsRecord(resultsPerRoot) /\ Limited(resultsPerRoot) /\ IsRecord(results) /\ Limited(results)
    BY DEF TypeInv
  <2> QED BY <1>1, <1>3, <2>1, <2>2 DEF IsRecord, Limited, Owned
<1> DEFINE stored == StoredBest(reused)
<1>5. PICK best \in Best(results) :
         bestRoot' = IF MustReplace(stored, best)
                     THEN [root |-> best, result |-> results[best]] ELSE stored
  BY DEF UpdateRecords
<1>6. /\ best \in DOMAIN results /\ best \in Vertex /\ best \in Alive(pop)
      /\ results[best] \in Result
      /\ \A w \in DOMAIN results : ~ Worse(results[best], results[w])
  BY <1>2, <1>5 DEF Best, TypeInv, IsRecord
<1>7. /\ stored \in [root : Vertex \cup {NoVertex}, result : Result]
      /\ stored.root = bestRoot.root
      /\ stored.root \in DOMAIN resultsPerRoot => stored.result = resultsPerRoot'[stored.root]
  <2>1. CASE bestRoot.root \in (DOMAIN results \cap DOMAIN resultsPerRoot) \ reused
    <3>1. stored = [bestRoot EXCEPT !.result = results[bestRoot.root]]
      BY <2>1 DEF StoredBest
    <3>2. results[bestRoot.root] \in Result
      BY <2>1 DEF TypeInv, IsRecord
    <3>3. bestRoot \in [root : Vertex \cup {NoVertex}, result : Result]
      BY DEF TypeInv
    <3> HIDE DEF stored
    <3>4. stored.root = bestRoot.root /\ stored.result = results[bestRoot.root]
      BY <3>1, <3>3
    <3> QED BY <1>3, <2>1, <3>1, <3>2, <3>3, <3>4
  <2>2. CASE ~ (bestRoot.root \in (DOMAIN results \cap DOMAIN resultsPerRoot) \ reused)
    <3>1. stored = bestRoot
      BY <2>2 DEF StoredBest
    <3>2. bestRoot \in [root : Vertex \cup {NoVertex}, result : Result]
      BY DEF TypeInv
    <3> HIDE DEF stored
    <3>3. ASSUME bestRoot.root \in DOMAIN resultsPerRoot
          PROVE  bestRoot.result = resultsPerRoot'[bestRoot.root]
      <4>1. bestRoot.result = resultsPerRoot[bestRoot.root]
        BY <3>3 DEF OwnInv
      <4>2. bestRoot.root \in DOMAIN results => results[bestRoot.root] = resultsPerRoot[bestRoot.root]
        BY <2>2, <3>3
      <4> QED BY <1>3, <3>3, <4>1, <4>2
    <3> QED BY <3>1, <3>2, <3>3
  <2> QED BY <2>1, <2>2
<1> HIDE DEF stored
<1>8. /\ bestRoot' \in [root : Vertex \cup {NoVertex}, result : Result]
      /\ bestRoot'.root \in Alive(pop) /\ bestRoot'.root \in DOMAIN resultsPerRoot'
      /\ bestRoot'.result = resultsPerRoot'[bestRoot'.root]
      /\ \A w \in DOMAIN results : ~ Worse(bestRoot'.result, results[w])
  <2>1. CASE MustReplace(stored, best)
    BY <1>3, <1>5, <1>6, <2>1
  <2>2. CASE ~ MustReplace(stored, best)
    <3>1. /\ bestRoot' = stored /\ ~ Worse(stored.result, results[best]) /\ stored.root \in Alive(pop)
          /\ stored.root # NoVertex
      BY <1>5, <2>2 DEF MustReplace
    <3>2. ASSUME NEW w \in DOMAIN results PROVE ~ Worse(stored.result, results[w])
      <4>1. results[w] \in Result /\ stored.result \in Result
        BY <1>7 DEF TypeInv, IsRecord
      <4>2. ~ Worse(results[best], results[w])
        BY <1>6
      <4> QED BY <1>6, <3>1, <4>1, <4>2, Averages
    <3>3. stored.root \in DOMAIN resultsPerRoot
      <4>1. bestRoot # NoBest
        BY <1>7, <3>1 DEF NoBest
      <4> QED BY <1>7, <3>1, <4>1 DEF OwnInv
    <3> QED BY <1>3, <1>7, <3>1, <3>2, <3>3
  <2> QED BY <2>1, <2>2
<1>9. TypeInv'
  BY <1>1, <1>4, <1>8 DEF TypeInv, IsRecord, Limited
<1>10. OwnInv'
  BY <1>4, <1>8 DEF OwnInv
<1>11. PlaceInv'
  BY <1>1 DEF PlaceInv
<1>12. BestRootIsBest'
  <2>1. bestRoot'.result.own \/ bestRoot'.root \in stale'
    BY <1>4, <1>8 DEF Owned
  <2>2. bestRoot'.root \in DOMAIN results' => bestRoot'.result = results'[bestRoot'.root]
    BY <1>1, <1>3, <1>8
  <2> QED BY <1>1, <1>8, <2>1, <2>2 DEF BestRootIsBest
<1> QED BY <1>9, <1>10, <1>11, <1>12

LEMMA AgentInvUpdateEvaluationRecords ==
    ASSUME AgentInv, UpdateEvaluationRecords PROVE AgentInv'
<1> DEFINE reused == {v \in DOMAIN results : IsRootEvalSkipped(v)}
<1>1. UpdateRecords(reused) /\ pc = "update"
  BY DEF UpdateEvaluationRecords, UpdateRecords
<1>2. \A v \in reused : v \in DOMAIN results /\ results[v] = resultsPerRoot[v]
  BY <1>1 DEF AgentInv, PlaceInv
<1> HIDE DEF reused
<1> QED BY <1>1, <1>2, AgentInvUpdateRecords

LEMMA AgentInvEndGeneration == ASSUME AgentInv, EndGeneration PROVE AgentInv'
<1> USE DEF AgentInv
<1>1. /\ pc = "trained" /\ pc' = "idle" /\ results' = <<>> /\ resultsPerRoot' = resultsPerRoot
      /\ bestRoot' = bestRoot /\ bestScoreLastGen' = bestScoreLastGen /\ pop' = pop /\ stale' = stale
  BY DEF EndGeneration
<1>2. TypeInv'
  BY <1>1, NothingStored DEF TypeInv, IsRecord, Limited
<1>3. OwnInv'
  BY <1>1, NothingStored DEF OwnInv, Owned
<1>4. PlaceInv'
  BY <1>1, NothingStored DEF PlaceInv
<1> QED BY <1>1, <1>2, <1>3, <1>4 DEF BestRootIsBest

LEMMA AgentInvKeepBestPolicy == ASSUME AgentInv, GraphInv, KeepBestPolicy PROVE AgentInv'
<1> USE DEF AgentInv
<1> DEFINE D == Alive(pop) \ Alive(pop')
<1>1. /\ pc \in {"idle", "kept"} /\ pc' = "kept" /\ results' = results /\ bestRoot' = bestRoot
      /\ bestScoreLastGen' = bestScoreLastGen /\ LeaveBehind(D)
  BY DEF KeepBestPolicy, Idle
<1>2. bestRoot.root \in Alive(pop')
  BY KeepBestPolicyEffect DEF GraphInv
<1>3. bestRoot.root \notin D
  BY <1>2
<1> HIDE DEF D
<1>4. /\ IsRecord(resultsPerRoot') /\ Limited(resultsPerRoot')
      /\ DOMAIN resultsPerRoot' = DOMAIN resultsPerRoot
      /\ Owned(results)' /\ Owned(resultsPerRoot)'
      /\ \A v \in DOMAIN resultsPerRoot : v \notin D => resultsPerRoot'[v] = resultsPerRoot[v]
  BY <1>1, LeaveBehindFacts DEF OwnInv
<1>5. TypeInv'
  BY <1>1, <1>4 DEF TypeInv, IsRecord, Limited
<1>6. OwnInv'
  BY <1>1, <1>3, <1>4 DEF OwnInv
<1>7. PlaceInv'
  BY <1>1 DEF PlaceInv
<1> QED BY <1>1, <1>5, <1>6, <1>7 DEF BestRootIsBest

LEMMA AgentInvForget == ASSUME AgentInv, ForgetPreviousResults PROVE AgentInv'
<1> USE DEF AgentInv
<1>1. /\ pc \in {"idle", "kept"} /\ pc' = "idle" /\ results' = results /\ resultsPerRoot' = <<>>
      /\ bestRoot' = NoBest /\ bestScoreLastGen' = bestScoreLastGen /\ pop' = pop
  BY DEF ForgetPreviousResults, Idle
<1>2. DOMAIN results' = {} /\ DOMAIN resultsPerRoot' = {}
  BY <1>1, NothingStored DEF PlaceInv
<1>3. TypeInv'
  BY <1>1, NothingStored, NoResultType DEF TypeInv
<1>4. OwnInv'
  BY <1>1, <1>2 DEF OwnInv, Owned
<1>5. PlaceInv'
  BY <1>1, <1>2 DEF PlaceInv
<1> QED BY <1>1, <1>3, <1>4, <1>5 DEF BestRootIsBest

LEMMA AgentInvInitAgent == ASSUME AgentInv, InitAgent PROVE AgentInv'
<1> USE DEF AgentInv
<1>1. /\ pc \in {"idle", "kept"} /\ pc' = "idle" /\ results' = results /\ bestRoot' = NoBest
      /\ bestScoreLastGen' = bestScoreLastGen /\ LeaveBehind(Alive(pop))
  BY DEF InitAgent, Idle
<1>2. /\ IsRecord(resultsPerRoot') /\ Limited(resultsPerRoot')
      /\ DOMAIN resultsPerRoot' = DOMAIN resultsPerRoot
      /\ Owned(results)' /\ Owned(resultsPerRoot)'
  BY <1>1, LeaveBehindFacts DEF OwnInv
<1>3. TypeInv'
  BY <1>1, <1>2, NoResultType DEF TypeInv, IsRecord, Limited
<1>4. OwnInv'
  BY <1>1, <1>2, NoBestFacts DEF OwnInv
<1>5. PlaceInv'
  BY <1>1 DEF PlaceInv
<1> QED BY <1>1, <1>3, <1>4, <1>5 DEF BestRootIsBest

LEMMA AgentInvStep ==
    ASSUME AgentInv, GraphInv, RootsInv, [Training]_vars PROVE AgentInv'
<1>1. PopInv
  BY DEF GraphInv
<1>2. CASE UNCHANGED vars
  <2>1. /\ pc' = pc /\ results' = results /\ resultsPerRoot' = resultsPerRoot /\ pop' = pop
        /\ bestRoot' = bestRoot /\ bestScoreLastGen' = bestScoreLastGen /\ stale' = stale
    BY <1>2 DEF vars
  <2>2. TypeInv' /\ OwnInv'
    BY <2>1 DEF AgentInv, TypeInv, OwnInv, IsRecord, Limited, Owned
  <2>3. PlaceInv'
    BY <2>1 DEF AgentInv, PlaceInv, IsRootEvalSkipped
  <2> QED BY <2>1, <2>2, <2>3 DEF AgentInv, BestRootIsBest
<1> QED BY <1>1, <1>2, AgentInvStartGeneration, AgentInvAddNewTeam, AgentInvEndPopulate,
           AgentInvEvaluateAllRoots, AgentInvDecimate, AgentInvUpdateEvaluationRecords,
           AgentInvEndGeneration, AgentInvKeepBestPolicy, AgentInvForget, AgentInvInitAgent
        DEF Training, Generation

LEMMA AgentInvInit == Init => AgentInv
<1> SUFFICES ASSUME Init PROVE AgentInv
  OBVIOUS
<1>1. /\ pop = EmptyPopulation /\ pc = "idle" /\ results = <<>> /\ resultsPerRoot = <<>>
      /\ bestRoot = NoBest /\ bestScoreLastGen = NoResult
  BY DEF Init
<1>2. TypeInv
  BY <1>1, NothingStored, NoResultType DEF TypeInv
<1>3. OwnInv
  BY <1>1, NothingStored DEF OwnInv, Owned
<1>4. PlaceInv
  BY <1>1, NothingStored DEF PlaceInv
<1> QED BY <1>1, <1>2, <1>3, <1>4 DEF AgentInv, BestRootIsBest

LEMMA AgentInvAlways == TrainingSpec => []AgentInv
<1>1. AgentInv /\ GraphInv /\ RootsInv /\ [Training]_vars => AgentInv'
  BY AgentInvStep
<1> QED BY <1>1, AgentInvInit, GraphInvAlways, PTL DEF TrainingSpec

(* ResultsAreOwn of LearningAgent: whatever is called between generations and whichever addresses
   new roots get, what ranks a root, is combined with or skipped for, is its own, but for a result
   that init, keepBestPolicy or populateTPG left at an address. *)
THEOREM ResultsAreAlwaysOwn == TrainingSpec => []ResultsAreOwn
<1>1. AgentInv => ResultsAreOwn
  BY DEF AgentInv, ResultsAreOwn, TypeInv, OwnInv, Limited, Owned
<1> QED BY <1>1, AgentInvAlways, PTL

(* BestRootIsBest of LearningAgent: at the end of every generation the best root is in the graph,
   and its record is the one stored for it, which no root of the generation beats. *)
THEOREM BestRootIsAlwaysBest == TrainingSpec => []BestRootIsBest
<1>1. AgentInv => BestRootIsBest
  BY DEF AgentInv
<1> QED BY <1>1, AgentInvAlways, PTL

-----------------------------------------------------------------------------
(* What a decimation leaves. *)

(* The step that BestScoreSurvives is about. *)
ScoreStep ==
    pc = "decimate" =>
      LET teams == DOMAIN results \cap pop.teams
      IN  IF NbDeleted < Cardinality(teams)
          THEN /\ \E v \in DOMAIN results' :
                     results[v].sum * bestScoreLastGen.n = bestScoreLastGen.sum * results[v].n
               /\ RootTeamsOf(pop') # {}
          ELSE DOMAIN results' = DOMAIN results \ teams

LEMMA DecimationStep ==
    ASSUME AgentInv, GraphInv, RootsInv, DecimateWorstRoots PROVE ScoreStep
<1> DEFINE T == DOMAIN results \cap pop.teams
<1>1. pc = "decimate"
  BY DEF DecimateWorstRoots
<1>2. PICK D \in SUBSET T :
              /\ Cardinality(D) = NbToRemove(T)
              /\ \A d \in D, v \in T \ D : ~ Worse(results[v], results[d])
              /\ pop' = RemoveAll(pop, D)
              /\ results' = WithoutRoots(results, D)
  BY DecimateEffect
<1>3. DOMAIN results = RootsOf(pop) /\ T = RootTeamsOf(pop) /\ T \in SUBSET RootsOf(pop)
  BY <1>1 DEF RootsInv, RootTeamsOf
<1>4. /\ pop'.teams = pop.teams \ D /\ RootsOf(pop) \ D \subseteq RootsOf(pop')
      /\ DOMAIN results' = DOMAIN results \ D
  BY <1>2, <1>3, RemoveRootsEffect DEF GraphInv, PopInv, WithoutRoots
<1>5. IsFiniteSet(T) /\ Cardinality(T) \in Nat /\ NbDeleted \in Nat
  <2>1. IsFiniteSet(RootsOf(pop))
    BY FormedFacts DEF GraphInv, PopInv
  <2> HIDE DEF T
  <2> QED BY <1>3, <2>1, FS_Subset, FS_CardinalityType, NbDeletedType
<1>6. ASSUME NbDeleted < Cardinality(T)
      PROVE  /\ \E v \in DOMAIN results' :
                   results[v].sum * bestScoreLastGen.n = bestScoreLastGen.sum * results[v].n
             /\ RootTeamsOf(pop') # {}
  <2>1. PICK t \in T : t \notin D
    <3> HIDE DEF T
    <3>1. Cardinality(D) = NbDeleted
      BY <1>2, <1>5, <1>6 DEF NbToRemove
    <3>2. D # T
      BY <1>5, <1>6, <3>1
    <3> QED BY <1>2, <3>2
  <2>2. t \in RootTeamsOf(pop') /\ t \in DOMAIN results'
    BY <1>3, <1>4, <2>1 DEF RootTeamsOf
  <2>3. PICK b \in Best(results) : bestScoreLastGen = results[b]
    BY <1>1 DEF AgentInv, PlaceInv
  <2>4. b \in DOMAIN results /\ \A w \in DOMAIN results : ~ Worse(results[b], results[w])
    BY <2>3 DEF Best
  <2>5. results[t] \in Result /\ results[b] \in Result
    BY <2>1, <2>4 DEF AgentInv, TypeInv, IsRecord
  <2>6. CASE b \notin D
    <3>1. results[b].sum * results[b].n = results[b].sum * results[b].n
      OBVIOUS
    <3> QED BY <1>4, <2>2, <2>3, <2>4, <2>6, <3>1
  <2>7. CASE b \in D
    <3>1. ~ Worse(results[t], results[b]) /\ ~ Worse(results[b], results[t])
      BY <1>2, <2>1, <2>4, <2>7
    <3>2. results[t].sum * results[b].n = results[b].sum * results[t].n
      BY <2>5, <3>1, Averages
    <3> QED BY <2>2, <2>3, <3>2
  <2> QED BY <2>6, <2>7
<1>7. ASSUME ~ (NbDeleted < Cardinality(T)) PROVE DOMAIN results' = DOMAIN results \ T
  <2> HIDE DEF T
  <2>1. Cardinality(D) = Cardinality(T)
    BY <1>2, <1>5, <1>7 DEF NbToRemove
  <2>2. D = T
    BY <1>2, <1>5, <2>1, FS_Subset
  <2> QED BY <1>4, <2>2
<1> QED BY <1>6, <1>7 DEF ScoreStep

LEMMA ScoreStepAlways == ASSUME AgentInv, GraphInv, RootsInv, Training PROVE ScoreStep
<1>1. CASE pc # "decimate"
  BY <1>1 DEF ScoreStep
<1>2. CASE pc = "decimate"
  <2>1. DecimateWorstRoots
    BY <1>2 DEF Training, Generation, InitAgent, ForgetPreviousResults, KeepBestPolicy, Idle, StartGeneration,
       AddNewTeam, EndPopulate, EvaluateAllRoots, UpdateEvaluationRecords, UpdateRecords, EndGeneration
  <2> QED BY <2>1, DecimationStep
<1> QED BY <1>1, <1>2

(* BestScoreSurvives of LearningAgent: a decimation that is given fewer roots to remove than there
   are root teams leaves a best score and a root team; otherwise it removes all root teams. *)
THEOREM BestScoreAlwaysSurvives == TrainingSpec => BestScoreSurvives
<1>1. AgentInv /\ GraphInv /\ RootsInv /\ [Training]_vars => [ScoreStep]_vars
  BY ScoreStepAlways
<1> QED BY <1>1, AgentInvAlways, GraphInvAlways, PTL DEF TrainingSpec, BestScoreSurvives, ScoreStep

(* The roots to remove are few enough for that as long as nbRoots leaves room for all actions. *)
THEOREM RootTeamsSuffice ==
    NbActions + NbDeleted <= NbRoots /\ TrainingSpec =>
        [](pc = "decimate" => NbDeleted < Cardinality(DOMAIN results \cap pop.teams))
<1> SUFFICES ASSUME NbActions + NbDeleted <= NbRoots
             PROVE  TrainingSpec => [](pc = "decimate" => NbDeleted < Cardinality(DOMAIN results \cap pop.teams))
  OBVIOUS
<1>1. ASSUME AgentInv, GraphInv, RootsInv, pc = "decimate"
      PROVE  NbDeleted < Cardinality(DOMAIN results \cap pop.teams)
  <2> DEFINE R == RootsOf(pop)
             T == DOMAIN results \cap pop.teams
             A == RootsOf(pop) \cap pop.actions
  <2>1. PopInv /\ pop.teams # {} /\ Cardinality(R) >= NbRoots /\ T = RootTeamsOf(pop)
    BY <1>1 DEF GraphInv, AgentInv, PlaceInv, RootsInv, RootTeamsOf
  <2>2. R = T \cup A /\ T \cap A = {} /\ IsFiniteSet(R) /\ A \in SUBSET pop.actions
    BY <2>1, FormedFacts DEF PopInv
  <2>3. IsFiniteSet(T) /\ IsFiniteSet(A)
    BY <2>2, FS_Subset
  <2>4. Cardinality(R) = Cardinality(T) + Cardinality(A)
    <3> HIDE DEF R, T, A
    <3>1. Cardinality(T \cup A) = Cardinality(T) + Cardinality(A) - Cardinality(T \cap A)
      BY <2>3, FS_Union
    <3>2. Cardinality(T \cap A) = 0
      BY <2>2, FS_EmptySet
    <3>3. Cardinality(T) \in Nat /\ Cardinality(A) \in Nat
      BY <2>3, FS_CardinalityType
    <3> QED BY <2>2, <3>1, <3>2, <3>3
  <2>5. A # pop.actions
    <3>1. Alive(pop) # {} /\ Formed(pop) /\ Layered(pop)
      BY <2>1, FormedFacts DEF PopInv
    <3>2. PICK t \in pop.teams : pop.kids[t] \cap pop.actions # {}
      BY <2>1, <3>1, HasRoots
    <3> QED BY <2>1, <3>2, FormedFacts DEF PopInv
  <2>6. Cardinality(A) < NbActions
    <3>1. IsFiniteSet(pop.actions) /\ Cardinality(pop.actions) <= NbActions
      BY <2>1 DEF PopInv, Formed
    <3> HIDE DEF A
    <3>2. /\ Cardinality(A) <= Cardinality(pop.actions) /\ Cardinality(A) # Cardinality(pop.actions)
          /\ Cardinality(A) \in Nat /\ Cardinality(pop.actions) \in Nat
      BY <2>2, <2>3, <2>5, <3>1, FS_Subset, FS_CardinalityType
    <3> QED BY <3>1, <3>2, PopulationAssumption
  <2>7. Cardinality(T) \in Nat /\ Cardinality(A) \in Nat
    BY <2>3, FS_CardinalityType
  <2>8. NbDeleted \in Nat /\ NbActions \in Nat /\ NbRoots \in Nat
    BY NbDeletedType, PopulationAssumption
  <2> HIDE DEF R, T, A
  <2>9. NbDeleted < Cardinality(T)
    BY <2>1, <2>4, <2>6, <2>7, <2>8
  <2> QED BY <2>9 DEF T
<1> QED BY <1>1, AgentInvAlways, GraphInvAlways, PTL

-----------------------------------------------------------------------------
(* The decimation of a ClassificationLearningAgent. *)

(* A division by NbActions, and one by 2. *)
LEMMA KeptPerClassFacts ==
    ASSUME NEW n \in Nat, NbRootsToKeep = n
    PROVE  NbKeptPerClass \in Nat /\ NbActions * NbKeptPerClass <= n
<1> DEFINE q == n \div NbActions
           h == q \div 2
<1>1. NbActions \in Nat \ {0}
  BY PopulationAssumption
<1>2. q \in Nat /\ q * NbActions <= n
  BY <1>1, Quotient
<1> HIDE DEF q
<1>3. h \in Nat /\ h <= q
  BY <1>2
<1> HIDE DEF h
<1>4. h * NbActions <= q * NbActions
  BY <1>1, <1>2, <1>3, ProductGrows
<1>5. NbActions * h = h * NbActions /\ h * NbActions \in Nat /\ q * NbActions \in Nat
  BY <1>1, <1>2, <1>3
<1>6. NbActions * h <= n
  BY <1>2, <1>4, <1>5
<1> QED BY <1>3, <1>6 DEF NbKeptPerClass, q, h

(* The ratio removes a share of the roots. *)
LEMMA RootsToKeepFacts ==
    ASSUME NEW total \in Nat, Cardinality(RootsOf(pop)) = total
    PROVE  NbRootsToKeep \in 0 .. total
<1> DEFINE m == (DeletedRatio[1] * total) \div DeletedRatio[2]
<1>1. m \in 0 .. total
  BY ShareOf, AgentAssumption
<1>2. NbRootsToKeep = total - m
  BY DEF NbRootsToKeep
<1> HIDE DEF m
<1> QED BY <1>1, <1>2

(* Each class has q roots kept: together they are no more than NbActions times q. *)
LEMMA MarkedRoots ==
    ASSUME NEW q \in Nat, NEW kept, \A c \in Class : IsFiniteSet(kept[c]) /\ Cardinality(kept[c]) = q
    PROVE  LET marked == UNION {kept[c] : c \in Class}
           IN  IsFiniteSet(marked) /\ Cardinality(marked) <= NbActions * q
<1> DEFINE U(n) == UNION {kept[c] : c \in 1 .. n}
           Good(n) == IsFiniteSet(U(n)) /\ Cardinality(U(n)) <= n * q
           Bad == {n \in Nat : n <= NbActions /\ ~ Good(n)}
<1>1. NbActions \in Nat
  BY PopulationAssumption
<1>2. Bad = {}
  <2> SUFFICES ASSUME Bad # {} PROVE FALSE
    OBVIOUS
  <2>1. PICK n \in Bad : \A m \in Bad : n <= m
    BY LeastNatural
  <2>2. n # 0
    <3> SUFFICES Good(0)
      BY <2>1
    <3>1. U(0) = {}
      OBVIOUS
    <3>2. IsFiniteSet(U(0)) /\ Cardinality(U(0)) = 0
      BY <3>1, FS_EmptySet
    <3> QED BY <3>2
  <2>3. PICK m \in Nat : n = m + 1
    <3>1. n - 1 \in Nat /\ n = (n - 1) + 1
      BY <2>1, <2>2
    <3> QED BY <3>1
  <2>4. Good(m)
    <3>1. m \notin Bad
      BY <2>1, <2>3
    <3> QED BY <1>1, <2>1, <2>3, <3>1
  <2>5. n \in Class /\ IsFiniteSet(kept[n]) /\ Cardinality(kept[n]) = q
    BY <1>1, <2>1, <2>2, <2>3 DEF Class
  <2>6. U(n) = U(m) \cup kept[n]
    <3>1. 1 .. n = (1 .. m) \cup {n}
      BY <2>3
    <3> QED BY <3>1
  <2>7. /\ IsFiniteSet(U(n))
        /\ Cardinality(U(n)) = Cardinality(U(m)) + Cardinality(kept[n]) - Cardinality(U(m) \cap kept[n])
    BY <2>4, <2>5, <2>6, FS_Union
  <2>8. Cardinality(U(m)) \in Nat /\ Cardinality(U(m) \cap kept[n]) \in Nat
    BY <2>4, FS_CardinalityType, FS_Intersection
  <2>9. n * q = m * q + q /\ m * q \in Nat
    BY <2>3
  <2>10. Good(n)
    <3> DEFINE x == Cardinality(U(n))
               y == Cardinality(U(m))
               z == Cardinality(U(m) \cap kept[n])
    <3>1. x = y + q - z /\ y \in Nat /\ z \in Nat /\ y <= m * q
      BY <2>4, <2>5, <2>7, <2>8
    <3> HIDE DEF x, y, z
    <3>2. x <= n * q
      BY <2>9, <3>1
    <3> QED BY <2>7, <3>2 DEF x
  <2> QED BY <2>1, <2>10
<1>3. NbActions \notin Bad
  <2> HIDE DEF Bad
  <2> QED BY <1>2
<1>4. Good(NbActions)
  <2> HIDE DEF Good
  <2> QED BY <1>1, <1>3
<1> QED BY <1>4 DEF Class

(* What is kept: the roots marked for the classes, and others that are good in general. *)
KeepsBest(K, kept, G) ==
    /\ K = (UNION {kept[c] : c \in Class}) \cup G
    /\ \A c \in Class : /\ kept[c] \in SUBSET (DOMAIN results)
                        /\ Cardinality(kept[c]) = NbKeptPerClass
                        /\ \A k \in kept[c], v \in DOMAIN results \ kept[c] :
                              ~ WorseFor(c, results[k], results[v])
    /\ G \in SUBSET (DOMAIN results \ UNION {kept[c] : c \in Class})
    /\ Cardinality(G) = NbRootsToKeep - Cardinality(UNION {kept[c] : c \in Class})
    /\ \A k \in G, v \in (DOMAIN results \ UNION {kept[c] : c \in Class}) \ G :
          ~ Worse(results[k], results[v])

(* kSubset, from which the kept roots are chosen *)
LEMMA SubsetsOfSize ==
    ASSUME NEW S, NEW n, NEW K \in FSE!kSubset(n, S)
    PROVE  K \in SUBSET S /\ Cardinality(K) = n
<1>1. FSE!Cardinality(K) = Cardinality(K)
  BY DEF FSE!Cardinality, Cardinality
<1> QED BY <1>1 DEF FSE!kSubset

(* The roots marked for a class, and the whole choice. *)
LEMMA KeptForClassFacts ==
    ASSUME NEW c \in Class, NEW S \in KeptForClass(c)
    PROVE  /\ S \in SUBSET (DOMAIN results)
           /\ Cardinality(S) = NbKeptPerClass
           /\ \A k \in S, v \in DOMAIN results \ S : ~ WorseFor(c, results[k], results[v])
<1>1. S \in FSE!kSubset(NbKeptPerClass, DOMAIN results)
  BY DEF KeptForClass, BestOf
<1>2. \A k \in S, v \in DOMAIN results \ S : ~ WorseFor(c, results[k], results[v])
  BY DEF KeptForClass, BestOf
<1> QED BY <1>1, <1>2, SubsetsOfSize

LEMMA KeptRoots ==
    ASSUME NEW K \in RootsToKeep PROVE \E kept, G : KeepsBest(K, kept, G)
<1> DEFINE Marked(kept) == UNION {kept[c] : c \in Class}
           Rest(kept) == BestOf(DOMAIN results \ Marked(kept),
                                FillUpTo(NbRootsToKeep) - Cardinality(Marked(kept)),
                                LAMBDA v, w : Worse(results[w], results[v]))
           Choices == {f \in [Class -> UNION {KeptForClass(c) : c \in Class}] :
                            \A c \in Class : f[c] \in KeptForClass(c)}
<1>1. RootsToKeep = UNION {{Marked(kept) \cup G : G \in Rest(kept)} : kept \in Choices}
  BY DEF RootsToKeep
<1>2. PICK kept \in Choices : K \in {Marked(kept) \cup G : G \in Rest(kept)}
  BY <1>1
<1>3. PICK G \in Rest(kept) : K = Marked(kept) \cup G
  BY <1>2
<1>4. /\ G \in SUBSET (DOMAIN results \ Marked(kept))
      /\ Cardinality(G) = NbRootsToKeep - Cardinality(Marked(kept))
      /\ \A k \in G, v \in (DOMAIN results \ Marked(kept)) \ G : ~ Worse(results[k], results[v])
  BY <1>3, SubsetsOfSize DEF BestOf, FillUpTo
<1>5. \A c \in Class : kept[c] \in KeptForClass(c)
  BY <1>2
<1>6. KeepsBest(K, kept, G)
  BY <1>3, <1>4, <1>5, KeptForClassFacts DEF KeepsBest
<1> QED BY <1>6

(* The graph, as for any LearningAgent. *)
LEMMA ClassGraphInvStep ==
    ASSUME GraphInv, RootsInv, [ClassTraining]_vars PROVE GraphInv' /\ RootsInv'
<1>1. CASE [Training]_vars
  BY <1>1, GraphInvStep, RootsInvStep DEF RootsInv
<1>2. CASE ClassEvaluateAllRoots
  BY <1>2 DEF ClassEvaluateAllRoots, GraphInv, RootsInv, PopInv
<1>3. CASE ClassDecimateWorstRoots
  <2>1. PICK K : pop' = RemoveAll(pop, RootTeamsOf(pop) \ K)
    BY <1>3 DEF ClassDecimateWorstRoots
  <2>2. RootTeamsOf(pop) \ K \in SUBSET RootsOf(pop)
    BY DEF RootTeamsOf
  <2>3. Formed(pop') /\ Layered(pop')
    BY <2>1, <2>2, RemoveRootsEffect DEF GraphInv, PopInv
  <2> QED BY <1>3, <2>3 DEF ClassDecimateWorstRoots, GraphInv, RootsInv, PopInv
<1> QED BY <1>1, <1>2, <1>3 DEF ClassTraining, ClassGeneration, Training, Generation

LEMMA ClassGraphInvAlways == ClassSpec => [](GraphInv /\ RootsInv)
<1>1. Init => GraphInv /\ RootsInv
  BY EmptyGraphInv DEF Init, GraphInv, RootsInv, PopInv
<1> QED BY <1>1, ClassGraphInvStep, PTL DEF ClassSpec

(* As many are kept as NbRootsToKeep says, the classes leaving room for the others. *)
LEMMA KeptRootsCount ==
    ASSUME GraphInv, DOMAIN results = RootsOf(pop), NEW K, NEW kept, NEW G, KeepsBest(K, kept, G)
    PROVE  /\ K \in SUBSET RootsOf(pop) /\ IsFiniteSet(RootsOf(pop))
           /\ NbRootsToKeep \in Nat /\ NbKeptPerClass \in Nat
           /\ Cardinality(K) = NbRootsToKeep
           /\ Cardinality(G) >= NbKeptGeneral
<1> DEFINE marked == UNION {kept[c] : c \in Class}
           q == NbKeptPerClass
           n == NbRootsToKeep
           a == NbActions * q
<1>1. IsFiniteSet(RootsOf(pop)) /\ Cardinality(RootsOf(pop)) \in Nat
  BY FormedFacts, FS_CardinalityType DEF GraphInv, PopInv
<1>2. n \in Nat
  BY <1>1, RootsToKeepFacts
<1>3. q \in Nat /\ a <= n
  BY <1>2, KeptPerClassFacts
<1>4. /\ K = marked \cup G
      /\ \A c \in Class : kept[c] \in SUBSET RootsOf(pop) /\ Cardinality(kept[c]) = q
      /\ G \in SUBSET (RootsOf(pop) \ marked) /\ Cardinality(G) = n - Cardinality(marked)
  BY DEF KeepsBest
<1>5. \A c \in Class : IsFiniteSet(kept[c])
  BY <1>1, <1>4, FS_Subset
<1>6. IsFiniteSet(marked) /\ Cardinality(marked) <= a
  <2>1. \A c \in Class : IsFiniteSet(kept[c]) /\ Cardinality(kept[c]) = q
    BY <1>4, <1>5
  <2> HIDE DEF q
  <2> QED BY <1>3, <2>1, MarkedRoots
<1>7. IsFiniteSet(G) /\ Cardinality(G) \in Nat /\ Cardinality(marked) \in Nat
  <2>1. G \in SUBSET RootsOf(pop)
    BY <1>4
  <2> QED BY <1>1, <1>6, <2>1, FS_Subset, FS_CardinalityType
<1>8. Cardinality(K) = n
  <2>1. marked \cap G = {}
    BY <1>4
  <2>2. /\ Cardinality(marked \cup G) =
              Cardinality(marked) + Cardinality(G) - Cardinality(marked \cap G)
        /\ Cardinality(marked \cap G) = 0
    BY <1>6, <1>7, <2>1, FS_Union, FS_EmptySet
  <2> HIDE DEF marked, n
  <2> QED BY <1>2, <1>4, <1>7, <2>2
<1>9. Cardinality(G) >= n - a
  <2>1. a \in Nat
    BY <1>3, PopulationAssumption
  <2> HIDE DEF marked, n, a
  <2> QED BY <1>2, <1>4, <1>6, <1>7, <2>1
<1>10. K \in SUBSET RootsOf(pop)
  BY <1>4
<1> QED BY <1>1, <1>2, <1>3, <1>8, <1>9, <1>10 DEF NbKeptGeneral

RatioStep ==
    pc = "decimate" =>
        /\ Cardinality(DOMAIN results') >= NbRootsToKeep
        /\ Cardinality(DOMAIN results' \cap pop.teams) <= NbRootsToKeep

BeatenStep ==
    pc = "decimate" =>
        \A d \in DOMAIN results \ DOMAIN results' :
            /\ \A c \in Class : AtLeast(NbKeptPerClass, DOMAIN results',
                                        LAMBDA v : ~ WorseFor(c, results[v], results[d]))
            /\ AtLeast(NbKeptGeneral, DOMAIN results', LAMBDA v : ~ Worse(results[v], results[d]))

LEMMA ClassDecimationStep ==
    ASSUME GraphInv, RootsInv, pc = "decimate", ClassDecimateWorstRoots
    PROVE  RatioStep /\ BeatenStep
<1>1. PICK K \in RootsToKeep : results' = WithoutRoots(results, RootTeamsOf(pop) \ K)
  BY DEF ClassDecimateWorstRoots
<1>2. PICK kept, G : KeepsBest(K, kept, G)
  BY <1>1, KeptRoots
<1>3. DOMAIN results = RootsOf(pop)
  BY DEF RootsInv
<1> DEFINE stay == DOMAIN results'
<1>4. stay = RootsOf(pop) \ (RootTeamsOf(pop) \ K)
  BY <1>1, <1>3 DEF WithoutRoots
<1>5. /\ K \in SUBSET RootsOf(pop) /\ IsFiniteSet(RootsOf(pop))
      /\ NbRootsToKeep \in Nat /\ NbKeptPerClass \in Nat
      /\ Cardinality(K) = NbRootsToKeep
      /\ Cardinality(G) >= NbKeptGeneral
  BY <1>2, <1>3, KeptRootsCount
<1> HIDE DEF stay
<1>6. K \in SUBSET stay /\ IsFiniteSet(stay) /\ stay \cap pop.teams \in SUBSET K
  <2>1. stay \in SUBSET RootsOf(pop)
    BY <1>4
  <2> QED BY <1>4, <1>5, <2>1, FS_Subset DEF RootTeamsOf
<1>7. ASSUME NEW A \in SUBSET stay, NEW B \in SUBSET A
      PROVE  Cardinality(B) <= Cardinality(A) /\ Cardinality(A) \in Nat /\ Cardinality(B) \in Nat
  BY <1>6, FS_Subset, FS_CardinalityType
<1>8. Cardinality(stay) >= NbRootsToKeep /\ Cardinality(stay \cap pop.teams) <= NbRootsToKeep
  <2>1. Cardinality(K) <= Cardinality(stay) /\ Cardinality(stay) \in Nat
    BY <1>6, <1>7
  <2>2. Cardinality(stay \cap pop.teams) <= Cardinality(K)
    BY <1>6, <1>7
  <2> QED BY <1>5, <2>1, <2>2
<1>9. ASSUME NEW d \in DOMAIN results \ stay, NEW c \in Class
      PROVE  Cardinality({v \in stay : ~ WorseFor(c, results[v], results[d])}) >= NbKeptPerClass
  <2> DEFINE good == {v \in stay : ~ WorseFor(c, results[v], results[d])}
  <2>1. /\ kept[c] \in SUBSET K /\ Cardinality(kept[c]) = NbKeptPerClass
        /\ \A k \in kept[c], v \in DOMAIN results \ kept[c] : ~ WorseFor(c, results[k], results[v])
    BY <1>2 DEF KeepsBest
  <2>2. d \in DOMAIN results \ kept[c]
    BY <1>6, <1>9, <2>1
  <2>3. kept[c] \in SUBSET good
    BY <1>6, <2>1, <2>2
  <2>4. Cardinality(kept[c]) <= Cardinality(good) /\ Cardinality(good) \in Nat
    <3>1. good \in SUBSET stay
      OBVIOUS
    <3> HIDE DEF good
    <3> QED BY <1>7, <2>3, <3>1
  <2> QED BY <1>5, <2>1, <2>4
<1>10. ASSUME NEW d \in DOMAIN results \ stay
       PROVE  Cardinality({v \in stay : ~ Worse(results[v], results[d])}) >= NbKeptGeneral
  <2> DEFINE good == {v \in stay : ~ Worse(results[v], results[d])}
             marked == UNION {kept[c] : c \in Class}
  <2>1. /\ G \in SUBSET K /\ marked \in SUBSET K
        /\ \A k \in G, v \in (DOMAIN results \ marked) \ G : ~ Worse(results[k], results[v])
    BY <1>2 DEF KeepsBest
  <2>2. d \in (DOMAIN results \ marked) \ G
    <3> HIDE DEF marked
    <3> QED BY <1>6, <1>10, <2>1
  <2>3. G \in SUBSET good
    BY <1>6, <2>1, <2>2
  <2>4. Cardinality(G) <= Cardinality(good)
    <3>1. good \in SUBSET stay
      OBVIOUS
    <3> HIDE DEF good
    <3> QED BY <1>7, <2>3, <3>1
  <2>5. NbKeptGeneral \in Int /\ Cardinality(G) \in Nat /\ Cardinality(good) \in Nat
    <3>1. NbKeptGeneral \in Int
      BY <1>5, PopulationAssumption DEF NbKeptGeneral
    <3>2. good \in SUBSET stay
      OBVIOUS
    <3> HIDE DEF good
    <3> QED BY <1>7, <2>3, <3>1, <3>2
  <2> HIDE DEF good
  <2>6. Cardinality(good) >= NbKeptGeneral
    BY <1>5, <2>4, <2>5
  <2> QED BY <2>6 DEF good
<1>11. RatioStep
  BY <1>8 DEF RatioStep, stay
<1>12. BeatenStep
  BY <1>9, <1>10 DEF BeatenStep, AtLeast, stay
<1> QED BY <1>11, <1>12

(* The decimation is the only step that removes results of a generation. *)
LEMMA ClassStep ==
    ASSUME GraphInv, RootsInv, ClassTraining PROVE RatioStep /\ BeatenStep
<1>1. CASE pc # "decimate"
  BY <1>1 DEF RatioStep, BeatenStep
<1>2. CASE pc = "decimate"
  <2>1. ClassDecimateWorstRoots
    BY <1>2 DEF ClassTraining, ClassGeneration, InitAgent, ForgetPreviousResults, KeepBestPolicy, Idle,
       StartGeneration, AddNewTeam, EndPopulate, ClassEvaluateAllRoots, UpdateEvaluationRecords,
       UpdateRecords, EndGeneration
  <2> QED BY <1>2, <2>1, ClassDecimationStep
<1> QED BY <1>1, <1>2

(* RatioIsKept of ClassificationAgent, for any number of classes and of roots and any ratio:
   the decimation keeps as many roots as the ratio says, and no more root teams, however
   many classes a root is kept for. *)
THEOREM RatioIsAlwaysKept == ClassSpec => RatioIsKept
<1>1. GraphInv /\ RootsInv /\ [ClassTraining]_vars => [RatioStep]_vars
  BY ClassStep
<1> QED BY <1>1, ClassGraphInvAlways, PTL DEF ClassSpec, RatioIsKept, RatioStep

(* RemovedAreBeaten of ClassificationAgent, likewise: for each class enough of the roots that
   stay are at least as good as a root that is removed, and enough are in general. *)
THEOREM RemovedAreAlwaysBeaten == ClassSpec => RemovedAreBeaten
<1>1. GraphInv /\ RootsInv /\ [ClassTraining]_vars => [BeatenStep]_vars
  BY ClassStep
<1> QED BY <1>1, ClassGraphInvAlways, PTL DEF ClassSpec, RemovedAreBeaten, BeatenStep

-----------------------------------------------------------------------------
(* Adversarial evaluations. *)

(* There are just enough teams of champions. *)
LEMMA EnoughTeams ==
    /\ NbChampionsTeams \in Nat
    /\ NbIter <= NbIterPerJob * (NbChampionsTeams * NbAgents)
    /\ NbIterPerJob * (NbChampionsTeams * NbAgents) < NbIter + NbAgents * NbIterPerJob
<1> DEFINE b == NbAgents * NbIterPerJob
           a == NbIter + b - 1
<1>1. NbAgents \in Nat \ {0} /\ NbIterPerJob \in Nat \ {0} /\ NbIter \in Nat \ {0}
  BY AdversarialAssumption, AgentAssumption
<1>2. b \in Nat \ {0}
  BY <1>1
<1>3. NbChampionsTeams = a \div b
  BY DEF NbChampionsTeams
<1> HIDE DEF b
<1>4. a \in Nat
  BY <1>1, <1>2
<1> DEFINE m == a \div b
<1>5. m \in Nat /\ m * b <= a /\ a < m * b + b
  BY <1>2, <1>4, Quotient
<1> HIDE DEF m
<1>6. NbIterPerJob * (m * NbAgents) = m * b
  BY <1>1, <1>5 DEF b
<1>7. m * b \in Nat
  BY <1>2, <1>5
<1>8. NbIter <= m * b /\ m * b < NbIter + b
  BY <1>1, <1>2, <1>5, <1>7
<1> QED BY <1>3, <1>5, <1>6, <1>8 DEF m, b

-----------------------------------------------------------------------------
(* Games. *)

(* What an evaluation of the roots is made of. *)
LEMMA EvaluationParts ==
    ASSUME NEW e \in Evaluations
    PROVE  \E C \in Champions(RootsOf(pop)) :
             \E sk \in [RootsOf(pop) \cup C -> Skill],
                teams \in [1 .. NbChampionsTeams -> [1 .. NbAgents - 1 -> C]] :
                /\ e.results = CompileResults(MakeJobs(RootsOf(pop), teams), sk, RootsOf(pop))
                /\ e.skill = sk
                /\ e.champions \in BestKept(e.results)
<1> DEFINE roots == RootsOf(pop)
           Parts(C) == [skill : [roots \cup C -> Skill],
                        teams : [1 .. NbChampionsTeams -> [1 .. NbAgents - 1 -> C]]]
           Rs(f) == CompileResults(MakeJobs(roots, f.teams), f.skill, roots)
           Es(f) == {[results |-> Rs(f), skill |-> f.skill, champions |-> K] : K \in BestKept(Rs(f))}
<1>1. Evaluations = UNION {Es(f) : f \in UNION {Parts(C) : C \in Champions(roots)}}
  BY DEF Evaluations
<1> HIDE DEF roots, Rs
<1>2. PICK f \in UNION {Parts(C) : C \in Champions(roots)} : e \in Es(f)
  BY <1>1
<1>6. PICK C \in Champions(roots) : f \in Parts(C)
  BY <1>2
<1>3. PICK K \in BestKept(Rs(f)) : e = [results |-> Rs(f), skill |-> f.skill, champions |-> K]
  BY <1>2
<1>4. e.results = Rs(f) /\ e.skill = f.skill /\ e.champions = K
  BY <1>3
<1>5. /\ f.skill \in [roots \cup C -> Skill]
      /\ f.teams \in [1 .. NbChampionsTeams -> [1 .. NbAgents - 1 -> C]]
  BY <1>6
<1> QED BY <1>3, <1>4, <1>5 DEF Rs, roots

(* The games a root is studied in: one for each team and seat. *)
Places == (1 .. NbChampionsTeams) \X Seat

GameAt(teams, v, p) == <<Job(teams, v, p[1], p[2]), p[2]>>

GamesOf(teams, v) == {GameAt(teams, v, p) : p \in Places}

WonBy(teams, sk, v) == {g \in GamesOf(teams, v) : Play(g[1], sk, g[2]) = 1}

(* The root at the seat s of the game. *)
RootAt(teams, r, t, i, s) == IF s < i THEN teams[t][s] ELSE IF s = i THEN r ELSE teams[t][s - 1]

Teams(C) == [1 .. NbChampionsTeams -> [1 .. NbAgents - 1 -> C]]

Skills(S) == [S -> Skill]

LEMMA JobFacts ==
    ASSUME NEW teams, NEW r, NEW t, NEW i \in Seat
    PROVE  LET j == Job(teams, r, t, i)
           IN  /\ j.team = t /\ j.seat = i /\ j.root = r /\ j.roots[i] = r
               /\ \A s \in Seat : j.roots[s] = RootAt(teams, r, t, i, s)
<1>1. \A s \in Seat : s \in Nat
  BY AdversarialAssumption DEF Seat
<1> QED BY <1>1 DEF Job, RootAt

LEMMA StudiedGames ==
    ASSUME NEW roots, NEW v \in roots, NEW teams, DOMAIN teams = 1 .. NbChampionsTeams
    PROVE  {g \in MakeJobs(roots, teams) \X Seat : g[2] \in CountedSeats(g[1]) /\ g[1].roots[g[2]] = v}
             = GamesOf(teams, v)
<1> DEFINE jobs == MakeJobs(roots, teams)
           games == {g \in jobs \X Seat : g[2] \in CountedSeats(g[1]) /\ g[1].roots[g[2]] = v}
<1>1. ASSUME NEW g \in games PROVE g \in GamesOf(teams, v)
  <2>1. PICK r \in roots, t \in 1 .. NbChampionsTeams, i \in Seat : g[1] = Job(teams, r, t, i)
    BY DEF MakeJobs
  <2>2. g[1].seat = i /\ g[1].roots[i] = r
    BY <2>1, JobFacts
  <2>3. g[2] = i /\ r = v
    BY <2>2 DEF CountedSeats
  <2>4. g = <<g[1], g[2]>>
    OBVIOUS
  <2>5. <<t, i>> \in Places /\ g = GameAt(teams, v, <<t, i>>)
    BY <2>1, <2>3, <2>4 DEF Places, GameAt
  <2> QED BY <2>5 DEF GamesOf
<1>2. ASSUME NEW p \in Places PROVE GameAt(teams, v, p) \in games
  <2> DEFINE j == Job(teams, v, p[1], p[2])
  <2>1. p[1] \in DOMAIN teams /\ p[2] \in Seat
    BY DEF Places
  <2>2. j \in jobs
    <3>1. <<v, p[1], p[2]>> \in roots \X (DOMAIN teams) \X Seat
      BY <2>1
    <3> QED BY <3>1 DEF MakeJobs
  <2>3. j.seat = p[2] /\ j.roots[p[2]] = v
    BY <2>1, JobFacts
  <2> HIDE DEF j
  <2>4. <<j, p[2]>> \in games
    BY <2>1, <2>2, <2>3 DEF CountedSeats
  <2> QED BY <2>4 DEF GameAt, j
<1> HIDE DEF games
<1>3. games = GamesOf(teams, v)
  BY <1>1, <1>2 DEF GamesOf
<1> QED BY <1>3 DEF games

LEMMA CountedGames ==
    ASSUME NEW teams, NEW v
    PROVE  IsFiniteSet(GamesOf(teams, v)) /\ Cardinality(GamesOf(teams, v)) = NbChampionsTeams * NbAgents
<1>1. NbChampionsTeams \in Nat /\ NbAgents \in Nat
  BY EnoughTeams, AdversarialAssumption
<1>2. IsFiniteSet(1 .. NbChampionsTeams) /\ Cardinality(1 .. NbChampionsTeams) = NbChampionsTeams
  BY <1>1, FS_Interval
<1>3. IsFiniteSet(Seat) /\ Cardinality(Seat) = NbAgents
  BY <1>1, FS_Interval DEF Seat
<1>4. IsFiniteSet(Places) /\ Cardinality(Places) = NbChampionsTeams * NbAgents
  BY <1>2, <1>3, FS_Product DEF Places
<1> DEFINE f == [p \in Places |-> GameAt(teams, v, p)]
           G == GamesOf(teams, v)
<1>5. ASSUME NEW p \in Places, NEW q \in Places, GameAt(teams, v, p) = GameAt(teams, v, q) PROVE p = q
  <2>1. p[2] \in Seat /\ q[2] \in Seat /\ p = <<p[1], p[2]>> /\ q = <<q[1], q[2]>>
    BY DEF Places
  <2>2. Job(teams, v, p[1], p[2]) = Job(teams, v, q[1], q[2]) /\ p[2] = q[2]
    BY <1>5 DEF GameAt
  <2>3. Job(teams, v, p[1], p[2]).team = p[1] /\ Job(teams, v, q[1], q[2]).team = q[1]
    BY <2>1, JobFacts
  <2> QED BY <2>1, <2>2, <2>3
<1>6. f \in Bijection(Places, G)
  <2>1. f \in [Places -> G] /\ \A g \in G : \E p \in Places : f[p] = g
    BY DEF GamesOf
  <2>2. \A p, q \in Places : f[p] = f[q] => p = q
    BY <1>5
  <2> HIDE DEF f, G
  <2> QED BY <2>1, <2>2 DEF Bijection, Injection, Surjection, IsInjective
<1>7. ExistsBijection(Places, G)
  BY <1>6 DEF ExistsBijection
<1> HIDE DEF G
<1>8. IsFiniteSet(G) /\ Cardinality(G) = Cardinality(Places)
  BY <1>4, <1>7, FS_Bijection
<1> QED BY <1>4, <1>8 DEF G
LEMMA CompiledResults ==
    ASSUME NEW roots, NEW sk, NEW teams, DOMAIN teams = 1 .. NbChampionsTeams, NEW v \in roots
    PROVE  LET rs == CompileResults(MakeJobs(roots, teams), sk, roots)
           IN  /\ DOMAIN rs = roots
               /\ rs[v].sum = NbIterPerJob * Cardinality(WonBy(teams, sk, v))
               /\ rs[v].n = NbIterPerJob * (NbChampionsTeams * NbAgents)
<1> DEFINE jobs == MakeJobs(roots, teams)
           games == {g \in jobs \X Seat : g[2] \in CountedSeats(g[1]) /\ g[1].roots[g[2]] = v}
<1>1. games = GamesOf(teams, v)
  BY StudiedGames
<1>2. GameScores(jobs, sk, v) =
         [sum |-> NbIterPerJob * Cardinality({g \in games : Play(g[1], sk, g[2]) = 1}),
          n |-> NbIterPerJob * Cardinality(games),
          own |-> TRUE]
  BY DEF GameScores
<1> HIDE DEF games, jobs
<1>3. GameScores(jobs, sk, v) =
         [sum |-> NbIterPerJob * Cardinality(WonBy(teams, sk, v)),
          n |-> NbIterPerJob * (NbChampionsTeams * NbAgents),
          own |-> TRUE]
  BY <1>1, <1>2, CountedGames DEF WonBy
<1> QED BY <1>3 DEF CompileResults, jobs

(* In the place of a root, one of more or equal skill wins too. *)
LEMMA SkilledWins ==
    ASSUME NEW C, NEW roots, NEW v \in roots, NEW w \in roots, NEW sk \in Skills(roots \cup C),
           NEW teams \in Teams(C), NEW p \in Places,
           sk[v] >= sk[w], Play(Job(teams, w, p[1], p[2]), sk, p[2]) = 1
    PROVE  Play(Job(teams, v, p[1], p[2]), sk, p[2]) = 1
<1> DEFINE t == p[1]
           i == p[2]
           x == Job(teams, v, t, i)
           y == Job(teams, w, t, i)
<1>1. t \in 1 .. NbChampionsTeams /\ i \in Seat /\ NbAgents \in Nat /\ Skill \subseteq Nat
  BY AdversarialAssumption DEF Places
<1>6. Play(y, sk, i) = 1
  OBVIOUS
<1> HIDE DEF t, i
<1>2. /\ x.roots[i] = v /\ y.roots[i] = w
      /\ \A s \in Seat : x.roots[s] = RootAt(teams, v, t, i, s)
      /\ \A s \in Seat : y.roots[s] = RootAt(teams, w, t, i, s)
  <2>1. /\ x.roots[i] = v
        /\ \A s \in Seat : x.roots[s] = RootAt(teams, v, t, i, s)
    BY <1>1, JobFacts
  <2>2. /\ y.roots[i] = w
        /\ \A s \in Seat : y.roots[s] = RootAt(teams, w, t, i, s)
    BY <1>1, JobFacts
  <2> QED BY <2>1, <2>2
<1>3. sk[v] \in Nat /\ sk[w] \in Nat
  BY <1>1 DEF Skills
<1> HIDE DEF x, y
<1>4. \A s \in Seat : sk[y.roots[s]] <= sk[w]
  BY <1>2, <1>6 DEF Play
<1>5. ASSUME NEW s \in Seat PROVE sk[x.roots[s]] <= sk[v]
  <2>1. CASE s = i
    BY <1>2, <1>3, <2>1
  <2>2. CASE s # i
    <3>1. x.roots[s] = y.roots[s]
      BY <1>2, <2>2 DEF RootAt
    <3>2. x.roots[s] \in C
      <4>1. s \in Nat /\ i \in Nat /\ s <= NbAgents /\ i <= NbAgents /\ 1 <= s /\ 1 <= i
        BY <1>1 DEF Seat
      <4>2. CASE s < i
        <5>1. s \in 1 .. NbAgents - 1
          BY <1>1, <4>1, <4>2
        <5> QED BY <1>1, <1>2, <4>2, <5>1 DEF Teams, RootAt
      <4>3. CASE i < s
        <5>1. s - 1 \in 1 .. NbAgents - 1 /\ ~ (s < i)
          BY <1>1, <4>1, <4>3
        <5> QED BY <1>1, <1>2, <2>2, <5>1 DEF Teams, RootAt
      <4> QED BY <2>2, <4>1, <4>2, <4>3
    <3>3. sk[x.roots[s]] \in Nat
      BY <1>1, <3>2 DEF Skills
    <3> QED BY <1>3, <1>4, <3>1, <3>3
  <2> QED BY <2>1, <2>2
<1>7. Play(x, sk, i) = 1
  BY <1>2, <1>5 DEF Play
<1> QED BY <1>7 DEF x, i, t

LEMMA SkilledWinMore ==
    ASSUME NEW C, NEW roots, NEW v \in roots, NEW w \in roots, NEW sk \in Skills(roots \cup C),
           NEW teams \in Teams(C), sk[v] >= sk[w]
    PROVE  /\ Cardinality(WonBy(teams, sk, v)) \in Nat /\ Cardinality(WonBy(teams, sk, w)) \in Nat
           /\ Cardinality(WonBy(teams, sk, w)) <= Cardinality(WonBy(teams, sk, v))
<1> DEFINE X == WonBy(teams, sk, w)
           Y == WonBy(teams, sk, v)
           f == [g \in X |-> <<Job(teams, v, g[1].team, g[2]), g[2]>>]
<1>1. ASSUME NEW g \in X
      PROVE  \E p \in Places : /\ g = GameAt(teams, w, p) /\ f[g] = GameAt(teams, v, p)
                               /\ f[g] \in Y /\ p = <<g[1].team, g[2]>>
  <2>1. PICK p \in Places : g = GameAt(teams, w, p)
    BY DEF WonBy, GamesOf
  <2>2. p[2] \in Seat /\ p = <<p[1], p[2]>>
    BY DEF Places
  <2>3. g[1] = Job(teams, w, p[1], p[2]) /\ g[2] = p[2]
    BY <2>1 DEF GameAt
  <2>4. g[1].team = p[1]
    BY <2>2, <2>3, JobFacts
  <2>5. f[g] = GameAt(teams, v, p)
    BY <2>3, <2>4 DEF GameAt
  <2>6. Play(Job(teams, w, p[1], p[2]), sk, p[2]) = 1
    BY <2>3 DEF WonBy
  <2>7. Play(Job(teams, v, p[1], p[2]), sk, p[2]) = 1
    BY <2>6, SkilledWins, Zenon
  <2> DEFINE j == Job(teams, v, p[1], p[2])
             h == <<j, p[2]>>
  <2>8. f[g] = h /\ h \in GamesOf(teams, v)
    BY <2>5 DEF GameAt, GamesOf
  <2>9. h \in Y
    <3>1. h[1] = j /\ h[2] = p[2] /\ Play(j, sk, p[2]) = 1
      BY <2>7
    <3> HIDE DEF h, j
    <3> QED BY <2>8, <3>1 DEF WonBy
  <2> QED BY <2>1, <2>2, <2>3, <2>4, <2>5, <2>8, <2>9
<1> HIDE DEF f
<1>2. \A g, h \in X : f[g] = f[h] => g = h
  <2> SUFFICES ASSUME NEW g \in X, NEW h \in X, f[g] = f[h] PROVE g = h
    OBVIOUS
  <2>1. PICK p \in Places : g = GameAt(teams, w, p) /\ f[g] = GameAt(teams, v, p)
    BY <1>1
  <2>2. PICK q \in Places : h = GameAt(teams, w, q) /\ f[h] = GameAt(teams, v, q)
    BY <1>1
  <2>3. /\ p = <<p[1], p[2]>> /\ q = <<q[1], q[2]>> /\ p[2] \in Seat /\ q[2] \in Seat
    BY DEF Places
  <2>4. Job(teams, v, p[1], p[2]) = Job(teams, v, q[1], q[2]) /\ p[2] = q[2]
    BY <2>1, <2>2 DEF GameAt
  <2>5. Job(teams, v, p[1], p[2]).team = p[1] /\ Job(teams, v, q[1], q[2]).team = q[1]
    BY <2>3, JobFacts
  <2>6. p = q
    BY <2>3, <2>4, <2>5
  <2> QED BY <2>1, <2>2, <2>6
<1>3. f \in [X -> Y]
  BY <1>1 DEF f
<1>4. IsFiniteSet(X) /\ IsFiniteSet(Y)
  BY CountedGames, FS_Subset DEF WonBy
<1> HIDE DEF X, Y
<1>5. f \in Injection(X, Y)
  BY <1>2, <1>3 DEF Injection, IsInjective
<1>6. Cardinality(X) <= Cardinality(Y) /\ Cardinality(X) \in Nat /\ Cardinality(Y) \in Nat
  BY <1>4, <1>5, FS_Injection, FS_CardinalityType
<1> QED BY <1>6 DEF X, Y

(* One evaluation of the roots. *)
LEMMA EvaluationIsFair ==
    ASSUME NEW e \in Evaluations
    PROVE  /\ DOMAIN e.results = RootsOf(pop)
           /\ e.champions \in BestKept(e.results)
           /\ \A v \in DOMAIN e.results :
                 /\ e.results[v].n >= NbIter
                 /\ e.results[v].n < NbIter + NbAgents * NbIterPerJob
                 /\ \A w \in DOMAIN e.results :
                       /\ e.results[v].n = e.results[w].n
                       /\ e.skill[v] >= e.skill[w] => ~ Worse(e.results[v], e.results[w])
<1> DEFINE roots == RootsOf(pop)
           n == NbIterPerJob * (NbChampionsTeams * NbAgents)
<1>1. PICK C \in Champions(roots) : \E sk \in [roots \cup C -> Skill],
                teams \in [1 .. NbChampionsTeams -> [1 .. NbAgents - 1 -> C]] :
                /\ e.results = CompileResults(MakeJobs(roots, teams), sk, roots)
                /\ e.skill = sk
                /\ e.champions \in BestKept(e.results)
  BY EvaluationParts
<1>2. PICK sk \in [roots \cup C -> Skill],
           teams \in [1 .. NbChampionsTeams -> [1 .. NbAgents - 1 -> C]] :
                /\ e.results = CompileResults(MakeJobs(roots, teams), sk, roots)
                /\ e.skill = sk
                /\ e.champions \in BestKept(e.results)
  BY <1>1
<1>3. DOMAIN teams = 1 .. NbChampionsTeams
  OBVIOUS
<1> HIDE DEF roots
<1>4. DOMAIN e.results = roots
  BY <1>2 DEF CompileResults
<1>5. ASSUME NEW v \in roots
      PROVE  e.results[v].sum = NbIterPerJob * Cardinality(WonBy(teams, sk, v)) /\ e.results[v].n = n
  BY <1>2, <1>3, CompiledResults
<1>6. n \in Nat /\ n >= NbIter /\ n < NbIter + NbAgents * NbIterPerJob
  <2>1. NbIterPerJob \in Nat /\ NbAgents \in Nat /\ NbIter \in Nat
    BY AdversarialAssumption, AgentAssumption
  <2> QED BY <2>1, EnoughTeams
<1> HIDE DEF n
<1>7. ASSUME NEW v \in roots, NEW w \in roots, sk[v] >= sk[w] PROVE ~ Worse(e.results[v], e.results[w])
  <2> DEFINE x == Cardinality(WonBy(teams, sk, w))
             y == Cardinality(WonBy(teams, sk, v))
  <2>1. x \in Nat /\ y \in Nat /\ x <= y
    BY <1>7, SkilledWinMore DEF Skills, Teams
  <2> HIDE DEF x, y
  <2>2. NbIterPerJob \in Nat
    BY AdversarialAssumption
  <2>3. NbIterPerJob * x \in Nat /\ NbIterPerJob * y \in Nat /\ NbIterPerJob * x <= NbIterPerJob * y
    <3>1. x * NbIterPerJob <= y * NbIterPerJob
      BY <2>1, <2>2, ProductGrows
    <3> QED BY <2>1, <2>2, <3>1
  <2>4. (NbIterPerJob * x) * n <= (NbIterPerJob * y) * n
    BY <1>6, <2>3, ProductGrows
  <2>5. (NbIterPerJob * x) * n \in Nat /\ (NbIterPerJob * y) * n \in Nat
    BY <1>6, <2>3
  <2>6. e.results[v].sum = NbIterPerJob * y /\ e.results[w].sum = NbIterPerJob * x
    BY <1>5 DEF x, y
  <2>7. e.results[v].n = n /\ e.results[w].n = n
    BY <1>5
  <2> QED BY <2>4, <2>5, <2>6, <2>7 DEF Worse
<1> QED BY <1>2, <1>4, <1>5, <1>6, <1>7 DEF roots
-----------------------------------------------------------------------------
(* Champions. *)

(* The champions of nb roots and the roots a decimation removes are no more than the roots. *)
LEMMA KeptAndDeleted ==
    ASSUME NEW nb \in Nat, nb >= NbRoots
    PROVE  NbKept(nb) \in Nat /\ NbDeleted \in Nat /\ NbKept(nb) + NbDeleted <= nb
<1> DEFINE c == DeletedRatio[1]
           d == DeletedRatio[2]
           k == d - c
           x == NbKept(nb)
           y == NbDeleted
<1>1. c \in Nat /\ d \in Nat \ {0} /\ c <= d /\ NbRoots \in Nat
  BY AgentAssumption, PopulationAssumption
<1>2. x = (k * nb) \div d /\ y = (c * NbRoots) \div d
  BY DEF NbKept, NbDeleted
<1> HIDE DEF c, d, x, y
<1>3. k \in Nat /\ k + c = d
  BY <1>1
<1> HIDE DEF k
<1>4. k * nb \in Nat /\ c * NbRoots \in Nat
  BY <1>1, <1>3
<1>5. x \in Nat /\ x * d <= k * nb
  <2> DEFINE a == k * nb
  <2>1. a \in Nat
    BY <1>4
  <2> HIDE DEF a
  <2>2. a \div d \in Nat /\ (a \div d) * d <= a
    BY <1>1, <2>1, Quotient
  <2> QED BY <1>2, <2>2 DEF a
<1>6. y \in Nat /\ y * d <= c * NbRoots
  <2> DEFINE a == c * NbRoots
  <2>1. a \in Nat
    BY <1>4
  <2> HIDE DEF a
  <2>2. a \div d \in Nat /\ (a \div d) * d <= a
    BY <1>1, <2>1, Quotient
  <2> QED BY <1>2, <2>2 DEF a
<1>7. c * NbRoots <= c * nb
  <2>1. NbRoots * c <= nb * c
    BY <1>1, <1>3, ProductGrows
  <2> QED BY <1>1, <1>3, <2>1
<1>8. (x + y) * d <= nb * d
  <2>1. (x + y) * d = x * d + y * d /\ nb * d = k * nb + c * nb
    BY <1>1, <1>3, <1>5, <1>6
  <2>2. x * d \in Nat /\ y * d \in Nat /\ c * nb \in Nat
    BY <1>1, <1>3, <1>5, <1>6
  <2> QED BY <1>4, <1>5, <1>6, <1>7, <2>1, <2>2
<1>9. x + y \in Nat /\ x + y <= nb
  <2>1. x + y \in Nat
    BY <1>5, <1>6
  <2> QED BY <1>1, <1>8, <2>1, ProductOrder
<1> QED BY <1>5, <1>6, <1>9 DEF x, y

LEMMA NoChampionRemoved ==
    ASSUME NEW R, IsFiniteSet(R), Cardinality(R) >= NbRoots,
           NEW C \in SUBSET R, Cardinality(C) = NbKept(Cardinality(R)),
           NEW D \in SUBSET R, Cardinality(D) <= NbDeleted,
           D \cap C # {} => R \ C \subseteq D
    PROVE  C \subseteq R \ D
<1> SUFFICES ASSUME NEW x \in D \cap C PROVE FALSE
  OBVIOUS
<1> DEFINE E == R \ C
<1>1. Cardinality(R) \in Nat
  BY FS_CardinalityType
<1>2. /\ NbKept(Cardinality(R)) \in Nat /\ NbDeleted \in Nat
      /\ NbKept(Cardinality(R)) + NbDeleted <= Cardinality(R)
  BY <1>1, KeptAndDeleted
<1>3. IsFiniteSet(D) /\ Cardinality(D) \in Nat
  BY FS_Subset, FS_CardinalityType
<1>4. IsFiniteSet(E) /\ Cardinality(E) = Cardinality(R) - Cardinality(C)
  <2>1. R \cap C = C
    OBVIOUS
  <2> QED BY <2>1, FS_Difference
<1>5. E \in SUBSET D /\ x \notin E
  OBVIOUS
<1> HIDE DEF E
<1>6. Cardinality(E) <= Cardinality(D) - 1
  <2>1. E \in SUBSET (D \ {x})
    BY <1>5
  <2>2. IsFiniteSet(D \ {x}) /\ Cardinality(D \ {x}) = Cardinality(D) - 1
    BY <1>3, FS_RemoveElement
  <2> QED BY <2>1, <2>2, FS_Subset
<1>7. Cardinality(E) \in Nat
  BY <1>4, FS_CardinalityType
<1> QED BY <1>1, <1>2, <1>3, <1>4, <1>6, <1>7

(* The invariant: what each place of a generation knows of roots and champions. *)
ChampionInv ==
    /\ pc \in {"evaluate", "decimate"} => Cardinality(RootsOf(pop)) >= NbRoots
    /\ pc = "decimate" => /\ DOMAIN results = RootsOf(pop)
                          /\ champions \in SUBSET RootsOf(pop)
                          /\ Cardinality(champions) = NbKept(Cardinality(RootsOf(pop)))

AdvInv == GraphInv /\ ChampionInv /\ RootsEvaluatedAlike /\ SkillDecides /\ ChampionsAreKept

LEMMA AdvInvInit == AdvInit => AdvInv
BY EmptyGraphInv DEF AdvInit, Init, AdvInv, GraphInv, PopInv, ChampionInv, RootsEvaluatedAlike,
                     SkillDecides, ChampionsAreKept

LEMMA AdvInvEvaluate == ASSUME AdvInv, AdvEvaluateAllRoots PROVE AdvInv'
<1>1. PICK e \in Evaluations : results' = e.results /\ skill' = e.skill /\ champions' = e.champions
  BY DEF AdvEvaluateAllRoots
<1>2. /\ DOMAIN results' = RootsOf(pop)
      /\ champions' \in BestKept(results')
      /\ \A v \in DOMAIN results' :
            /\ results'[v].n >= NbIter
            /\ results'[v].n < NbIter + NbAgents * NbIterPerJob
            /\ \A w \in DOMAIN results' :
                  /\ results'[v].n = results'[w].n
                  /\ skill'[v] >= skill'[w] => ~ Worse(results'[v], results'[w])
  BY <1>1, EvaluationIsFair
<1>3. pc' = "decimate" /\ pop' = pop /\ preExisting' = preExisting /\ pc = "evaluate"
  BY DEF AdvEvaluateAllRoots
<1>4. GraphInv'
  BY <1>3 DEF AdvInv, GraphInv, PopInv
<1>5. /\ champions' \in SUBSET RootsOf(pop)
      /\ Cardinality(champions') = NbKept(Cardinality(RootsOf(pop)))
  BY <1>2 DEF BestKept
<1>6. ChampionInv'
  BY <1>2, <1>3, <1>5 DEF AdvInv, ChampionInv
<1>7. RootsEvaluatedAlike' /\ SkillDecides' /\ ChampionsAreKept'
  BY <1>2, <1>3 DEF RootsEvaluatedAlike, SkillDecides, ChampionsAreKept
<1> QED BY <1>4, <1>6, <1>7 DEF AdvInv

LEMMA AdvInvDecimate == ASSUME AdvInv, AdvDecimateWorstRoots PROVE AdvInv'
<1> DEFINE R == RootsOf(pop)
           T == DOMAIN results \cap pop.teams
<1>1. DecimateWorstRoots /\ pc = "decimate" /\ pc' = "update" /\ champions' = champions
  BY DEF AdvDecimateWorstRoots, DecimateWorstRoots
<1>2. /\ GraphInv /\ DOMAIN results = R /\ Cardinality(R) >= NbRoots
      /\ champions \in SUBSET R /\ Cardinality(champions) = NbKept(Cardinality(R))
  BY <1>1 DEF AdvInv, ChampionInv
<1>3. GraphInv'
  BY <1>1, <1>2, GraphInvStep DEF Training, Generation
<1>4. PICK D \in SUBSET T : /\ Cardinality(D) = NbToRemove(T)
                            /\ pop' = RemoveAll(pop, D)
                            /\ results' = WithoutRoots(results, D)
  BY <1>1, DecimateEffect
<1>5. DOMAIN results' = R \ D /\ pop'.teams = pop.teams \ D /\ pop'.actions = pop.actions \ D
  BY <1>2, <1>4 DEF WithoutRoots, RemoveAll
<1>6. R \subseteq Alive(pop) /\ IsFiniteSet(R)
  <2>1. R \subseteq Alive(pop) /\ pop \in PopulationType
    BY <1>2 DEF RootsOf, GraphInv, PopInv, Formed
  <2>2. R \in SUBSET Vertex
    BY <2>1 DEF Alive, PopulationType
  <2> QED BY <2>1, <2>2, PopulationAssumption, FS_Subset
<1>7. ASSUME DOMAIN results' \cap pop'.actions = {} PROVE champions' \subseteq DOMAIN results'
  <2>1. R \subseteq pop.teams /\ T = R
    BY <1>2, <1>5, <1>6, <1>7 DEF Alive
  <2>2. Cardinality(D) <= NbDeleted
    <3>1. Cardinality(R) \in Nat
      BY <1>6, FS_CardinalityType
    <3>2. NbDeleted \in Nat
      BY <1>2, <3>1, KeptAndDeleted
    <3>3. Cardinality(D) = NbToRemove(R)
      BY <1>4, <2>1
    <3> HIDE DEF R
    <3> QED BY <3>1, <3>2, <3>3 DEF NbToRemove
  <2>3. pop.teams \ pop'.teams = D
    BY <1>4, <1>5
  <2>4. D \cap champions # {} => R \ champions \subseteq D
    BY <2>1, <2>3 DEF AdvDecimateWorstRoots
  <2>5. champions \subseteq R \ D
    BY <1>2, <1>4, <1>6, <2>1, <2>2, <2>4, NoChampionRemoved
  <2> QED BY <1>1, <1>5, <2>5
<1>8. ChampionsAreKept'
  BY <1>7 DEF ChampionsAreKept
<1>9. ChampionInv' /\ RootsEvaluatedAlike' /\ SkillDecides'
  BY <1>1 DEF ChampionInv, RootsEvaluatedAlike, SkillDecides
<1> QED BY <1>3, <1>8, <1>9 DEF AdvInv

LEMMA AdvInvStep == AdvInv /\ [AdvTraining]_advVars => AdvInv'
<1> SUFFICES ASSUME AdvInv, [AdvTraining]_advVars PROVE AdvInv'
  OBVIOUS
<1>1. CASE AdvEvaluateAllRoots
  BY <1>1, AdvInvEvaluate
<1>2. CASE AdvDecimateWorstRoots
  BY <1>2, AdvInvDecimate
<1>3. CASE vars' = vars /\ pc = "trained"
  BY <1>3 DEF vars, AdvInv, GraphInv, PopInv, ChampionInv, RootsEvaluatedAlike, SkillDecides, ChampionsAreKept
<1>4. CASE UNCHANGED advVars
  BY <1>4 DEF advVars, vars, AdvInv, GraphInv, PopInv, ChampionInv, RootsEvaluatedAlike, SkillDecides,
              ChampionsAreKept
<1>5. CASE AdvUpdateEvaluationRecords
  <2>1. pc' = "trained" /\ pop' = pop /\ preExisting' = preExisting
    BY <1>5 DEF AdvUpdateEvaluationRecords, UpdateRecords
  <2> QED BY <2>1 DEF AdvInv, GraphInv, PopInv, ChampionInv, RootsEvaluatedAlike, SkillDecides, ChampionsAreKept
<1>6. ASSUME StartGeneration \/ AddNewTeam \/ EndPopulate \/ EndGeneration \/ InitAgent
               \/ ForgetPreviousResults \/ KeepBestPolicy,
             Training
      PROVE  AdvInv'
  <2>1. GraphInv'
    <3>1. pc # "decimate"
      BY <1>6 DEF StartGeneration, AddNewTeam, EndPopulate, EndGeneration, InitAgent, ForgetPreviousResults,
                  KeepBestPolicy, Idle
    <3> QED BY <1>6, <3>1, GraphInvStep DEF AdvInv
  <2>2. pc' \notin {"decimate", "update"} /\ (pc' = "evaluate" => EndPopulate)
    BY <1>6 DEF StartGeneration, AddNewTeam, EndPopulate, EndGeneration, InitAgent, ForgetPreviousResults,
                KeepBestPolicy, Idle
  <2>3. ChampionInv'
    BY <2>2 DEF ChampionInv, EndPopulate
  <2> QED BY <2>1, <2>2, <2>3 DEF AdvInv, RootsEvaluatedAlike, SkillDecides, ChampionsAreKept
<1> QED BY <1>1, <1>2, <1>3, <1>4, <1>5, <1>6 DEF AdvTraining, AdvGeneration, Validate, Training, Generation

LEMMA AdvInvAlways == AdvSpec => []AdvInv
BY AdvInvInit, AdvInvStep, PTL DEF AdvSpec

(* Decimation removes no champion that the next generation will play against, as long as no action has become a
   root: the two floors, one over the roots there are and the other over params.nbRoots, add up to no more than
   the roots, whatever the ratio. *)
THEOREM ChampionsAreAlwaysKept == AdvSpec => []ChampionsAreKept
<1>1. AdvInv => ChampionsAreKept
  BY DEF AdvInv
<1> QED BY <1>1, AdvInvAlways, PTL

(* The games of makeJobs give each root as many evaluations, at least as many as asked and less than one team
   of champions too many. *)
THEOREM RootsAreAlwaysEvaluatedAlike == AdvSpec => []RootsEvaluatedAlike
<1>1. AdvInv => RootsEvaluatedAlike
  BY DEF AdvInv
<1> QED BY <1>1, AdvInvAlways, PTL

(* Whatever champions are drawn, the rank of the roots is that of their skills: each game a root wins is won by
   a more skilled one at the same seat, the same champions around it. *)
THEOREM SkillAlwaysDecides == AdvSpec => []SkillDecides
<1>1. AdvInv => SkillDecides
  BY DEF AdvInv
<1> QED BY <1>1, AdvInvAlways, PTL
=============================================================================

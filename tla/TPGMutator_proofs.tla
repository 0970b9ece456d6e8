-------------------------- MODULE TPGMutator_proofs --------------------------
(***************************************************************************)
(* What initRandomTPG and populateTPG guarantee, for any number of         *)
(* actions, of roots and of addresses, and however the addresses are       *)
(* allocated.                                                              *)
(***************************************************************************)
EXTENDS TPGMutator, TPGGraph_proofs

(* A team is under construction. *)
Building == pc \in {"copy", "removeFirst", "remove", "addFirst", "add", "mutate"}

(* populateTPG has copied what existed. *)
Populating == Building \/ pc \in {"loop", "behave"}

-----------------------------------------------------------------------------
(* The types, and what each place of the code knows about its variables. *)

GraphInv ==
    /\ WellFormed(graph)
    /\ IsFiniteSet(Vertices(graph))
    /\ IsFiniteSet(Edges(graph))

MadeType ==
    [actions : Seq(Vertex), teams : Seq(Vertex), programs : Seq(Program),
     edges : Nat, current : Nat, extra : Nat]

(* initRandomTPG fills one vector after the other. *)
MadeLengths ==
    /\ pc = "actions" => Len(made.actions) < NbActions /\ made.teams = <<>>
    /\ pc \in {"teams", "programs", "edges", "extra"} => Len(made.actions) = NbActions
    /\ pc = "teams" => Len(made.teams) < InitNbRoots
    /\ pc \in {"programs", "edges", "extra"} => Len(made.teams) = InitNbRoots
    /\ pc \in {"actions", "teams"} => made.programs = <<>>
    /\ pc = "programs" => Len(made.programs) < 2 * InitNbRoots
    /\ pc \in {"edges", "extra"} => Len(made.programs) = 2 * InitNbRoots
    /\ pc \in {"actions", "teams", "programs"} => made.edges = 0
    /\ pc = "edges" => made.edges < 2 * InitNbRoots
    /\ pc # "extra" => made.current = 1 /\ made.extra = 0
    /\ pc = "extra" => /\ made.current \in 1 .. InitNbRoots
                       /\ made.extra \in 0 .. MaxInitOutgoingEdges - 2

MadeInv ==
    /\ made \in MadeType
    /\ resume \in {"idle", "populate"}
    /\ ~ Initialising => made = NothingMade /\ resume = "idle"
    /\ \A i \in DOMAIN made.actions : IsAction(graph, made.actions[i])
    /\ \A i \in DOMAIN made.teams : IsTeam(graph, made.teams[i])
    /\ MadeLengths

PreType ==
    [teams : SUBSET Vertex, actions : SUBSET Vertex, edges : SUBSET Edge,
     roots : SUBSET Vertex, nbRoots : Nat]

(* What existed before the mutations still exists, and is not the team under mutation. *)
PreInv ==
    /\ pre \in PreType
    /\ newPrograms \in SUBSET Program
    /\ ~ Populating => pre = NothingBefore /\ newPrograms = {}
    /\ \A v \in pre.teams : IsTeam(graph, v)
    /\ \A v \in pre.actions : IsAction(graph, v)
    /\ pre.edges \subseteq Edges(graph)
    /\ \A e \in pre.edges :
          graph.src[e] \in pre.teams /\ graph.dst[e] \in pre.teams \cup pre.actions
    /\ pre.roots \subseteq pre.teams
    /\ \A r \in pre.roots : graph.out[r] \subseteq pre.edges

TeamInv ==
    /\ todo \in SUBSET Edges(graph)
    /\ anyMutationDone \in BOOLEAN
    /\ IF Building THEN IsTeam(graph, team) /\ team \in Vertex \ pre.teams
                   ELSE team = NoVertex /\ todo = {}
    /\ pc = "copy" => todo \subseteq pre.edges
    /\ pc \in {"removeFirst", "remove", "addFirst", "add"} => todo = {}
    /\ pc = "mutate" => todo \subseteq graph.out[team]

TypeInv ==
    /\ pc \in {"idle", "actions", "teams", "programs", "edges", "extra", "populate", "loop",
               "copy", "removeFirst", "remove", "addFirst", "add", "mutate", "behave"}
    /\ before \in [Vertex -> SUBSET Vertex]
    /\ GraphInv
    /\ MadeInv
    /\ PreInv
    /\ TeamInv

-----------------------------------------------------------------------------
(* The list of vertices is an order of the graph, that edges go down. *)

(* What precedes a vertex precedes those that come after it. *)
BeforeIsOrder ==
    \A v \in Vertices(graph) :
        /\ before[v] \subseteq Vertices(graph) \ {v}
        /\ \A w \in before[v] : before[w] \subseteq before[v]

(* Any vertices have a first one. *)
BeforeHasFirst ==
    \A S \in (SUBSET Vertices(graph)) \ {{}} : \E v \in S : before[v] \cap S = {}

(* The actions are created before the teams, the team under mutation last. *)
LateTeams ==
    /\ \A i \in DOMAIN made.teams, j \in DOMAIN made.actions :
          made.actions[j] \in before[made.teams[i]]
    /\ Building => before[team] = Vertices(graph) \ {team}

OrderInv == BeforeIsOrder /\ BeforeHasFirst /\ LateTeams /\ EdgesLeadToOlder

-----------------------------------------------------------------------------
(* The numbers of edges. *)

CompleteTeam(n) == n >= 2 /\ (n <= MaxOutgoingEdges \/ n <= MaxInitOutgoingEdges)

(* What the k-th team has of the first m edges, two for each team *)
FirstEdges(m, k) == IF m >= 2 * k THEN 2 ELSE IF m = 2 * k - 1 THEN 1 ELSE 0

(* The two edges of the teams come one by one, then the extra ones team by team. *)
EdgesOfMade(k) ==
    IF pc = "extra"
    THEN IF k < made.current THEN 2 .. MaxInitOutgoingEdges
         ELSE IF k = made.current THEN 2 .. MaxInitOutgoingEdges - made.extra ELSE {2}
    ELSE {FirstEdges(made.edges, k)}

CountInv ==
    /\ TeamsKeepTwoEdges
    /\ Initialising =>
          /\ \A v \in Vertices(graph) :
                IsTeam(graph, v) => \E k \in DOMAIN made.teams : made.teams[k] = v
          /\ \A k, l \in DOMAIN made.teams : made.teams[k] = made.teams[l] => k = l
          /\ \A k \in DOMAIN made.teams : NbEdges(made.teams[k]) \in EdgesOfMade(k)
    /\ pc = "copy" => CompleteTeam(NbEdges(team) + Cardinality(todo))
    /\ Building /\ pc # "copy" => CompleteTeam(NbEdges(team))

-----------------------------------------------------------------------------
(* The team under mutation has a root to be a clone of, and roots have edges. *)
PickInv ==
    /\ Populating /\ pre.roots # {} => pre.edges # {}
    /\ Building => pre.roots # {}

-----------------------------------------------------------------------------
(* A program is listed for mutation once its edge was visited. *)
ProgramInv ==
    /\ NewProgramsArePrivate
    /\ \A e \in pre.edges : graph.prog[e] \notin newPrograms
    /\ Building /\ pc # "mutate" => \A e \in graph.out[team] : graph.prog[e] \notin newPrograms
    /\ pc = "mutate" => \A e \in todo : graph.prog[e] \notin newPrograms
    /\ pc = "mutate" /\ ~ anyMutationDone =>
          \A e \in graph.out[team] : graph.prog[e] \notin newPrograms

-----------------------------------------------------------------------------
(* Only a new team changes the number of roots while populateTPG loops: an edge of the team
   that is removed or moved leaves a vertex that another edge leads to. *)
Shadowed(e) == \E f \in pre.edges : graph.dst[f] = graph.dst[e]

NbRootVertices == Cardinality(RootVertices(graph))

TargetInv ==
    /\ PopulateReachesTarget
    /\ pc = "loop" => IF pre.nbRoots >= NbRoots THEN NbRootVertices = pre.nbRoots
                                                ELSE NbRootVertices <= NbRoots
    /\ Building => pre.nbRoots < NbRoots /\ NbRootVertices <= NbRoots
    /\ Building /\ pc # "mutate" => \A e \in graph.out[team] : Shadowed(e)
    /\ pc = "mutate" => \A e \in todo : Shadowed(e)
    /\ pc = "mutate" /\ ~ anyMutationDone => \A e \in graph.out[team] : Shadowed(e)

-----------------------------------------------------------------------------
(* The first teams lead to two actions each, and to all of them. *)
LeadsTo(t, a) == \E e \in graph.out[t] : graph.dst[e] = a

SeenInv ==
    /\ \A i, j \in DOMAIN made.actions : made.actions[i] = made.actions[j] => i = j
    /\ Initialising => \A v \in Vertices(graph) :
          IsAction(graph, v) => \E k \in DOMAIN made.actions : made.actions[k] = v
    /\ Initialising => \A e \in Edges(graph) : IsAction(graph, graph.dst[e])
    /\ \A i \in 0 .. 2 * NbActions - 1 :
          pc = "extra" \/ (pc = "edges" /\ i < made.edges) =>
             LeadsTo(made.teams[(i \div 2) + 1],
                     made.actions[((((i \div 2) + (i % 2)) % NbActions)) + 1])
    /\ Building => Cardinality(Promise!RootsOf(SeenPopulation)) < NbRoots

-----------------------------------------------------------------------------
(* What the steps of mutateTPGTeam do to the graph: they change edges of the new team. *)

(* All but the edges of the team is as before. *)
OnlyTeamChanges ==
    /\ WellFormed(graph')
    /\ IsFiniteSet(Edges(graph'))
    /\ graph'.kind = graph.kind
    /\ Vertices(graph') = Vertices(graph)
    /\ \A e \in Edges(graph) :
          graph.src[e] # team => /\ e \in Edges(graph')
                                 /\ graph'.src[e] = graph.src[e]
                                 /\ graph'.dst[e] = graph.dst[e]
                                 /\ graph'.prog[e] = graph.prog[e]
    /\ \A e \in Edges(graph') : graph'.src[e] # team => e \in Edges(graph) /\ graph.src[e] # team
    /\ \A v \in Vertex \ {team} : graph'.out[v] = graph.out[v]

(* The team gets the edge new, like the pre-existing edge e. *)
GetsEdge(e, new) ==
    /\ e \in pre.edges
    /\ new \in Edge \ Edges(graph)
    /\ OnlyTeamChanges
    /\ Edges(graph') = Edges(graph) \cup {new}
    /\ graph'.src[new] = team
    /\ graph'.dst[new] = graph.dst[e]
    /\ graph'.prog[new] = graph.prog[e]
    /\ graph'.out[team] = graph.out[team] \cup {new}
    /\ \A f \in Edges(graph) : /\ graph'.src[f] = graph.src[f] /\ graph'.dst[f] = graph.dst[f]
                               /\ graph'.prog[f] = graph.prog[f]
    /\ graph'.in[graph.dst[e]] = graph.in[graph.dst[e]] \cup {new}
    /\ \A v \in Vertex \ {graph.dst[e]} : graph'.in[v] = graph.in[v]

LosesEdge(e) ==
    /\ e \in graph.out[team]
    /\ OnlyTeamChanges
    /\ Edges(graph') = Edges(graph) \ {e}
    /\ graph'.out[team] = graph.out[team] \ {e}
    /\ \A f \in Edges(graph') : /\ graph'.src[f] = graph.src[f] /\ graph'.dst[f] = graph.dst[f]
                                /\ graph'.prog[f] = graph.prog[f]
    /\ graph'.in[graph.dst[e]] = graph.in[graph.dst[e]] \ {e}
    /\ \A v \in Vertex \ {graph.dst[e]} : graph'.in[v] = graph.in[v]

ChangesEdge(e, p, d) ==
    /\ e \in graph.out[team]
    /\ d \in {graph.dst[e]} \cup pre.teams \cup pre.actions
    /\ p \in FreeProgram
    /\ OnlyTeamChanges
    /\ Edges(graph') = Edges(graph)
    /\ graph'.src = graph.src
    /\ graph'.out = graph.out
    /\ graph'.dst[e] = d
    /\ graph'.prog[e] = p
    /\ \A f \in Edges(graph) \ {e} : graph'.dst[f] = graph.dst[f] /\ graph'.prog[f] = graph.prog[f]
    /\ e \in graph'.in[d]
    /\ \A v \in Vertex : graph'.in[v] \ {e} = graph.in[v] \ {e}

LEMMA NextOfIsMember == ASSUME NEW S, S # {} PROVE NextOf(S) \in S
BY DEF NextOf

(* The team and the ends of the pre-existing edges are in the graph. *)
LEMMA TeamFacts ==
    ASSUME TypeInv, Building
    PROVE  /\ team \in Vertices(graph) /\ IsTeam(graph, team)
           /\ team \notin pre.teams \cup pre.actions
           /\ \A e \in pre.edges : /\ e \in Edges(graph)
                                  /\ graph.src[e] \in Vertex \ {team}
                                  /\ graph.dst[e] \in Vertices(graph) \ {team}
           /\ \A e \in graph.out[team] : e \in Edges(graph) /\ graph.src[e] = team
           /\ pre.teams \cup pre.actions \subseteq Vertices(graph)
<1>1. WellFormed(graph) /\ IsTeam(graph, team) /\ team \in Vertex \ pre.teams
  BY DEF TypeInv, GraphInv, TeamInv
<1>2. /\ pre.teams \subseteq Vertex /\ pre.actions \subseteq Vertex
      /\ \A v \in pre.teams : IsTeam(graph, v)
      /\ \A v \in pre.actions : IsAction(graph, v)
      /\ pre.edges \subseteq Edges(graph)
      /\ \A e \in pre.edges :
            graph.src[e] \in pre.teams /\ graph.dst[e] \in pre.teams \cup pre.actions
  BY DEF TypeInv, PreInv, PreType
<1>3. team \in Vertices(graph) /\ pre.teams \cup pre.actions \subseteq Vertices(graph)
  BY <1>1, <1>2, WellFormedFacts
<1>4. team \notin pre.actions
  BY <1>1, <1>2, WellFormedFacts
<1>5. \A e \in graph.out[team] : e \in Edges(graph) /\ graph.src[e] = team
  BY <1>1, SMTT(30) DEF WellFormed, EdgeListsAgree
<1> QED BY <1>1, <1>2, <1>3, <1>4, <1>5

LEMMA NewEdgeOfTeam ==
    ASSUME TypeInv, Building, NEW e \in pre.edges, NEW new \in Edge \ Edges(graph),
           graph' = AddNewEdge(graph, new, team, graph.dst[e], graph.prog[e])
    PROVE  GetsEdge(e, new)
<1>1. /\ WellFormed(graph) /\ IsFiniteSet(Edges(graph))
      /\ team \in Vertices(graph) /\ IsTeam(graph, team)
      /\ graph.dst[e] \in Vertices(graph)
  BY TeamFacts DEF TypeInv, GraphInv
<1>2. graph.prog[e] \in Program
  BY <1>1, TeamFacts, WellFormedFacts
<1>3. IsFiniteSet(Edges(graph) \cup {new})
  BY <1>1, FS_AddElement
<1>4. /\ WellFormed(graph')
      /\ graph'.kind = graph.kind
      /\ Vertices(graph') = Vertices(graph)
      /\ Edges(graph') = Edges(graph) \cup {new}
      /\ graph'.src[new] = team
      /\ graph'.dst[new] = graph.dst[e]
      /\ graph'.prog[new] = graph.prog[e]
      /\ \A f \in Edges(graph) : /\ graph'.src[f] = graph.src[f] /\ graph'.dst[f] = graph.dst[f]
                                 /\ graph'.prog[f] = graph.prog[f]
      /\ graph'.out[team] = graph.out[team] \cup {new}
      /\ graph'.in[graph.dst[e]] = graph.in[graph.dst[e]] \cup {new}
      /\ \A v \in Vertex \ {team} : graph'.out[v] = graph.out[v]
      /\ \A v \in Vertex \ {graph.dst[e]} : graph'.in[v] = graph.in[v]
  BY <1>1, <1>2, AddNewEdgeEffect, SMTT(30)
<1>5. OnlyTeamChanges
  BY <1>3, <1>4 DEF OnlyTeamChanges
<1> QED BY <1>4, <1>5 DEF GetsEdge

LEMMA CopyEdgeEffect ==
    ASSUME TypeInv, CopyEdge
    PROVE  \E e \in todo, new \in Edge : GetsEdge(e, new) /\ todo' = todo \ {e}
<1> DEFINE e == NextOf(todo)
<1>1. e \in todo /\ Building /\ e \in pre.edges
  BY NextOfIsMember DEF CopyEdge, Building, TypeInv, TeamInv
<1>2. PICK new \in Allocate(FreeEdge) :
         graph' = AddNewEdge(graph, new, team, graph.dst[e], graph.prog[e])
  BY DEF CopyEdge
<1>3. new \in Edge \ Edges(graph)
  <2>1. FreeEdge \in SUBSET Edge
    BY DEF FreeEdge
  <2> QED BY <2>1, <1>2, MutatorAssumption, Zenon DEF FreeEdge
<1>4. todo' = todo \ {e}
  BY DEF CopyEdge
<1> HIDE DEF e
<1> QED BY <1>1, <1>2, <1>3, <1>4, NewEdgeOfTeam

LEMMA AddRandomEdgeEffect ==
    ASSUME TypeInv, AddRandomEdge
    PROVE  \E e \in pre.edges, new \in Edge : GetsEdge(e, new)
<1>1. Building
  BY DEF AddRandomEdge, Building
<1>2. PICK e \in PickableEdges, new \in Allocate(FreeEdge) : graph' = GiveCopy(e, new)
  BY DEF AddRandomEdge
<1>3. new \in Edge \ Edges(graph)
  <2>1. FreeEdge \in SUBSET Edge
    BY DEF FreeEdge
  <2> QED BY <2>1, <1>2, MutatorAssumption, Zenon DEF FreeEdge
<1>4. e \in pre.edges /\ graph.src[e] # team
  BY <1>2 DEF PickableEdges
<1>5. e \in Edges(graph) /\ team \in Vertices(graph) /\ WellFormed(graph)
  BY <1>1, <1>4, TeamFacts DEF TypeInv, GraphInv
<1>6. graph' = AddNewEdge(graph, new, team, graph.dst[e], graph.prog[e])
  BY <1>2, <1>3, <1>4, <1>5, CloneThenMoveIsNewEdge DEF GiveCopy
<1> QED BY <1>1, <1>3, <1>4, <1>6, NewEdgeOfTeam

LEMMA RemoveRandomEdgeEffect ==
    ASSUME TypeInv, RemoveRandomEdge
    PROVE  \E e \in graph.out[team] : LosesEdge(e)
<1>1. Building
  BY DEF RemoveRandomEdge, Building
<1>2. PICK e \in graph.out[team] : graph' = RemoveEdge(graph, e)
  BY DEF RemoveRandomEdge
<1>3. /\ WellFormed(graph) /\ IsFiniteSet(Edges(graph))
      /\ e \in Edges(graph) /\ graph.src[e] = team /\ team \in Vertex
  BY <1>1, <1>2, TeamFacts, WellFormedFacts DEF TypeInv, GraphInv
<1>4. IsFiniteSet(Edges(graph) \ {e})
  BY <1>3, FS_RemoveElement
<1>5. LosesEdge(e)
  BY <1>2, <1>3, <1>4, RemoveEdgeEffect DEF LosesEdge, OnlyTeamChanges
<1> QED BY <1>5

LEMMA MutateOutgoingEdgeEffect ==
    ASSUME TypeInv, MutateOutgoingEdge
    PROVE  \E e \in todo, p \in Program, d \in Vertex :
              /\ ChangesEdge(e, p, d)
              /\ todo' = todo \ {e}
              /\ newPrograms' = newPrograms \cup {p}
<1> DEFINE e == NextOf(todo)
<1>1. e \in todo /\ Building /\ e \in graph.out[team]
  BY NextOfIsMember DEF MutateOutgoingEdge, Building, TypeInv, TeamInv
<1>2. PICK p \in Allocate(FreeProgram), d \in Destinations(e) :
         /\ graph' = SetEdgeDestination([graph EXCEPT !.prog[e] = p], e, d)
         /\ newPrograms' = newPrograms \cup {p}
  BY DEF MutateOutgoingEdge, ProgramCopies
<1>3. todo' = todo \ {e}
  BY DEF MutateOutgoingEdge
<1> HIDE DEF e
<1>4. p \in FreeProgram /\ p \in Program
  <2>1. FreeProgram \in SUBSET Program
    BY DEF FreeProgram
  <2> QED BY <2>1, <1>2, MutatorAssumption, Zenon
<1>5. /\ WellFormed(graph) /\ IsFiniteSet(Edges(graph))
      /\ e \in Edges(graph) /\ graph.src[e] = team /\ team \in Vertex
  BY <1>1, TeamFacts, WellFormedFacts DEF TypeInv, GraphInv
<1>6. d \in Vertices(graph) /\ d \in Vertex
  BY <1>1, <1>2, <1>5, TeamFacts, WellFormedFacts DEF Destinations
<1>7. ChangesEdge(e, p, d)
  BY <1>1, <1>2, <1>4, <1>5, <1>6, RetargetEffect, SMTT(30)
  DEF ChangesEdge, OnlyTeamChanges, Destinations
<1> QED BY <1>1, <1>2, <1>3, <1>4, <1>6, <1>7
-----------------------------------------------------------------------------
(* Types. *)

LEMMA NothingMadeInv ==
    ASSUME made' = NothingMade, resume' = "idle", ~ Initialising'
    PROVE  MadeInv'
BY DEF MadeInv, MadeType, MadeLengths, NothingMade, Initialising

(* Outside of the loop of populateTPG there are no copies and no team. *)
LEMMA NothingBeforeInv ==
    ASSUME ~ Populating', pre' = NothingBefore, newPrograms' = {}, team' = NoVertex,
           todo' = {}, anyMutationDone' \in BOOLEAN
    PROVE  PreInv' /\ TeamInv'
BY DEF PreInv, TeamInv, PreType, NothingBefore, Populating, Building

LEMMA QuietFacts ==
    ASSUME TypeInv, ~ Building
    PROVE  /\ team = NoVertex /\ todo = {} /\ anyMutationDone \in BOOLEAN
           /\ ~ Populating => pre = NothingBefore /\ newPrograms = {}
           /\ ~ Initialising => made = NothingMade /\ resume = "idle"
BY DEF TypeInv, TeamInv, PreInv, MadeInv

(* An action that leaves the graph alone and stays outside of populateTPG's loop, or the
   reverse, has only its own variables to look after. *)
LEMMA TypeInvInit == Init => TypeInv
<1> SUFFICES ASSUME Init PROVE TypeInv
  OBVIOUS
<1>1. GraphInv
  BY EmptyWellFormed, EmptyEffect, FS_EmptySet DEF Init, GraphInv
<1>2. MadeInv
  BY DEF Init, MadeInv, MadeType, MadeLengths, NothingMade, Initialising
<1>3. PreInv /\ TeamInv
  BY DEF Init, PreInv, TeamInv, PreType, NothingBefore, Populating, Building
<1> QED BY <1>1, <1>2, <1>3 DEF Init, TypeInv

LEMMA TypeInvStartInit ==
    ASSUME TypeInv, ~ Building, ~ Populating, NEW then \in {"idle", "populate"}, StartInit(then)
    PROVE  TypeInv'
<1>1. GraphInv'
  BY EmptyWellFormed, EmptyEffect, FS_EmptySet DEF StartInit, GraphInv
<1>2. MadeInv'
  BY MutatorAssumption DEF StartInit, MadeInv, MadeType, MadeLengths, NothingMade, Initialising
<1>3. PreInv' /\ TeamInv'
  <2>1. ~ Populating'
    BY DEF StartInit, Populating, Building
  <2> QED BY <2>1, QuietFacts, NothingBeforeInv DEF StartInit, populateVars
<1>4. before' \in [Vertex -> SUBSET Vertex]
  BY DEF StartInit
<1> QED BY <1>1, <1>2, <1>3, <1>4 DEF StartInit, TypeInv

(* vertices.push_back *)
LEMMA PushVertexEffect ==
    ASSUME TypeInv, NEW v \in Allocate(FreeVertex), NEW k \in Kind, PushVertex(v, k)
    PROVE  /\ v \in Vertex /\ v \notin Vertices(graph)
           /\ GraphInv'
           /\ graph'.src = graph.src /\ graph'.dst = graph.dst /\ graph'.prog = graph.prog
           /\ graph'.in = graph.in /\ graph'.out = graph.out
           /\ Edges(graph') = Edges(graph)
           /\ Vertices(graph') = Vertices(graph) \cup {v}
           /\ graph'.kind[v] = k
           /\ \A w \in Vertex \ {v} : graph'.kind[w] = graph.kind[w]
           /\ before' \in [Vertex -> SUBSET Vertex]
           /\ before'[v] = Vertices(graph)
           /\ \A w \in Vertex \ {v} : before'[w] = before[w]
           /\ graph.out[v] = {} /\ graph.in[v] = {}
<1>1. v \in Vertex /\ v \notin Vertices(graph)
  <2>1. FreeVertex \in SUBSET Vertex
    BY DEF FreeVertex
  <2> QED BY <2>1, MutatorAssumption, Zenon DEF FreeVertex
<1>2. WellFormed(graph) /\ graph' = AddVertex(graph, v, k)
  BY DEF TypeInv, GraphInv, PushVertex
<1>3. /\ WellFormed(graph')
      /\ graph'.src = graph.src /\ graph'.dst = graph.dst /\ graph'.prog = graph.prog
      /\ graph'.in = graph.in /\ graph'.out = graph.out
      /\ Edges(graph') = Edges(graph)
      /\ Vertices(graph') = Vertices(graph) \cup {v}
      /\ graph'.kind[v] = k
      /\ \A w \in Vertex \ {v} : graph'.kind[w] = graph.kind[w]
  BY <1>1, <1>2, AddVertexEffect
<1>4. IsFiniteSet(Vertices(graph) \cup {v}) /\ IsFiniteSet(Edges(graph))
  BY FS_AddElement DEF TypeInv, GraphInv
<1>5. GraphInv'
  BY <1>3, <1>4 DEF GraphInv
<1>6. /\ before' \in [Vertex -> SUBSET Vertex]
      /\ before'[v] = Vertices(graph)
      /\ \A w \in Vertex \ {v} : before'[w] = before[w]
  <2>1. Vertices(graph) \in SUBSET Vertex
    BY DEF Vertices
  <2> QED BY <1>1, <2>1 DEF TypeInv, PushVertex
<1>7. graph.out[v] = {} /\ graph.in[v] = {}
  BY <1>1, <1>2 DEF WellFormed, EdgeListsAgree, EndsInGraph
<1> QED BY <1>1, <1>3, <1>5, <1>6, <1>7

LEMMA AppendFacts ==
    ASSUME NEW S, NEW s \in Seq(S), NEW x \in S
    PROVE  /\ Append(s, x) \in Seq(S)
           /\ Len(Append(s, x)) = Len(s) + 1
           /\ Len(s) \in Nat
           /\ DOMAIN Append(s, x) = DOMAIN s \cup {Len(s) + 1}
           /\ DOMAIN s = 1 .. Len(s)
           /\ \A i \in DOMAIN s : Append(s, x)[i] = s[i] /\ s[i] \in S
           /\ Append(s, x)[Len(s) + 1] = x
BY AppendProperties, LenProperties

(* The vertices made so far keep their kind when another one is added. *)
LEMMA MadeVerticesStay ==
    ASSUME TypeInv, NEW v \in Vertex, v \notin Vertices(graph),
           \A w \in Vertex \ {v} : graph'.kind[w] = graph.kind[w]
    PROVE  /\ \A i \in DOMAIN made.actions : /\ made.actions[i] \in Vertices(graph)
                                            /\ IsAction(graph', made.actions[i])
           /\ \A i \in DOMAIN made.teams : /\ made.teams[i] \in Vertices(graph)
                                          /\ IsTeam(graph', made.teams[i])
<1>1. /\ \A i \in DOMAIN made.actions : made.actions[i] \in Vertex
      /\ \A i \in DOMAIN made.teams : made.teams[i] \in Vertex
  BY ElementOfSeq, LenProperties DEF TypeInv, MadeInv, MadeType
<1>2. /\ \A i \in DOMAIN made.actions : IsAction(graph, made.actions[i])
      /\ \A i \in DOMAIN made.teams : IsTeam(graph, made.teams[i])
      /\ WellFormed(graph)
  BY DEF TypeInv, GraphInv, MadeInv
<1>3. \A w \in Vertices(graph) : graph'.kind[w] = graph.kind[w] /\ w \in Vertex
  BY <1>2, WellFormedFacts
<1>4. /\ \A i \in DOMAIN made.actions : made.actions[i] \in Vertices(graph)
      /\ \A i \in DOMAIN made.teams : made.teams[i] \in Vertices(graph)
  BY <1>1, <1>2, WellFormedFacts
<1> QED BY <1>2, <1>3, <1>4 DEF IsAction, IsTeam

LEMMA TypeInvMakeAction == ASSUME TypeInv, MakeAction PROVE TypeInv'
<1>1. pc = "actions" /\ made \in MadeType /\ NbActions \in Nat
  BY MutatorAssumption DEF MakeAction, TypeInv, MadeInv
<1> DEFINE k == Actions[Len(made.actions) + 1]
<1>2. k \in ActionID
  BY <1>1, MutatorAssumption, ElementOfSeq
  DEF TypeInv, MadeInv, MadeType, MadeLengths, NbActions
<1>3. PICK v \in Allocate(FreeVertex) :
         PushVertex(v, k) /\ made' = [made EXCEPT !.actions = Append(@, v)]
  BY DEF MakeAction
<1> HIDE DEF k
<1>4. /\ v \in Vertex /\ v \notin Vertices(graph)
      /\ GraphInv'
      /\ graph'.kind[v] = k
      /\ \A w \in Vertex \ {v} : graph'.kind[w] = graph.kind[w]
      /\ before' \in [Vertex -> SUBSET Vertex]
  BY <1>2, <1>3, PushVertexEffect DEF Kind
<1>5. /\ made'.actions = Append(made.actions, v)
      /\ made' = [made EXCEPT !.actions = made'.actions]
      /\ Len(made'.actions) = Len(made.actions) + 1
      /\ Len(made.actions) \in Nat
      /\ made'.actions \in Seq(Vertex)
      /\ \A i \in DOMAIN made'.actions :
            \/ i \in DOMAIN made.actions /\ made'.actions[i] = made.actions[i]
            \/ made'.actions[i] = v
  BY <1>1, <1>3, <1>4, AppendFacts DEF MadeType
<1>6. MadeLengths'
  <2>1. /\ made'.teams = <<>> /\ made'.programs = <<>> /\ made'.edges = 0
        /\ made'.current = 1 /\ made'.extra = 0
        /\ Len(made.actions) < NbActions
    BY <1>1, <1>5 DEF TypeInv, MadeInv, MadeType, MadeLengths
  <2>2. InitNbRoots \in Nat /\ InitNbRoots >= 2
    BY MutatorAssumption
  <2>3. pc' = IF Len(made.actions) + 1 < NbActions THEN "actions" ELSE "teams"
    BY DEF MakeAction
  <2> QED BY <1>1, <1>5, <2>1, <2>2, <2>3 DEF MadeLengths
<1>7. made' \in MadeType
  BY <1>1, <1>5 DEF MadeType
<1>8. \A i \in DOMAIN made'.actions : IsAction(graph', made'.actions[i])
  BY <1>2, <1>4, <1>5, MadeVerticesStay DEF IsAction
<1>9. \A i \in DOMAIN made'.teams : IsTeam(graph', made'.teams[i])
  BY <1>1, <1>4, <1>5, MadeVerticesStay DEF MadeType
<1>10. MadeInv'
  BY <1>1, <1>6, <1>7, <1>8, <1>9 DEF MakeAction, TypeInv, MadeInv, Initialising
<1>11. PreInv' /\ TeamInv'
  <2>1. ~ Populating'
    BY <1>1 DEF MakeAction, Populating, Building
  <2> QED BY <2>1, <1>1, QuietFacts, NothingBeforeInv
          DEF MakeAction, populateVars, Populating, Building
<1> QED BY <1>1, <1>4, <1>10, <1>11 DEF MakeAction, TypeInv

LEMMA TypeInvMakeTeam == ASSUME TypeInv, MakeTeam PROVE TypeInv'
<1>1. pc = "teams" /\ made \in MadeType /\ NbActions \in Nat
  BY MutatorAssumption DEF MakeTeam, TypeInv, MadeInv
<1>2. PICK v \in Allocate(FreeVertex) :
         PushVertex(v, "team") /\ made' = [made EXCEPT !.teams = Append(@, v)]
  BY DEF MakeTeam
<1>3. /\ v \in Vertex /\ v \notin Vertices(graph)
      /\ GraphInv'
      /\ graph'.kind[v] = "team"
      /\ \A w \in Vertex \ {v} : graph'.kind[w] = graph.kind[w]
      /\ before' \in [Vertex -> SUBSET Vertex]
  BY <1>2, PushVertexEffect DEF Kind
<1>4. /\ made'.teams = Append(made.teams, v)
      /\ made' = [made EXCEPT !.teams = made'.teams]
      /\ Len(made'.teams) = Len(made.teams) + 1
      /\ Len(made.teams) \in Nat
      /\ made'.teams \in Seq(Vertex)
      /\ \A i \in DOMAIN made'.teams :
            \/ i \in DOMAIN made.teams /\ made'.teams[i] = made.teams[i]
            \/ made'.teams[i] = v
  BY <1>1, <1>2, <1>3, AppendFacts DEF MadeType
<1>5. MadeLengths'
  <2>1. /\ made'.actions = made.actions /\ made'.programs = <<>> /\ made'.edges = 0
        /\ made'.current = 1 /\ made'.extra = 0
        /\ Len(made.actions) = NbActions
        /\ Len(made.teams) < InitNbRoots
    BY <1>1, <1>4 DEF TypeInv, MadeInv, MadeType, MadeLengths
  <2>2. InitNbRoots \in Nat /\ InitNbRoots >= 2
    BY MutatorAssumption
  <2>3. pc' = IF Len(made.teams) + 1 < InitNbRoots THEN "teams" ELSE "programs"
    BY DEF MakeTeam
  <2> QED BY <1>1, <1>4, <2>1, <2>2, <2>3 DEF MadeLengths
<1>6. made' \in MadeType
  BY <1>1, <1>4 DEF MadeType
<1>7. \A i \in DOMAIN made'.teams : IsTeam(graph', made'.teams[i])
  BY <1>3, <1>4, MadeVerticesStay DEF IsTeam
<1>8. \A i \in DOMAIN made'.actions : IsAction(graph', made'.actions[i])
  BY <1>1, <1>3, <1>4, MadeVerticesStay DEF MadeType
<1>9. MadeInv'
  BY <1>1, <1>5, <1>6, <1>7, <1>8 DEF MakeTeam, TypeInv, MadeInv, Initialising
<1>10. PreInv' /\ TeamInv'
  <2>1. ~ Populating'
    BY <1>1 DEF MakeTeam, Populating, Building
  <2> QED BY <2>1, <1>1, QuietFacts, NothingBeforeInv
          DEF MakeTeam, populateVars, Populating, Building
<1> QED BY <1>1, <1>3, <1>9, <1>10 DEF MakeTeam, TypeInv

LEMMA TypeInvMakeProgram == ASSUME TypeInv, MakeProgram PROVE TypeInv'
<1>1. pc = "programs" /\ made \in MadeType
  BY DEF MakeProgram, TypeInv, MadeInv
<1>2. PICK p \in Allocate(FreeProgram) : made' = [made EXCEPT !.programs = Append(@, p)]
  BY DEF MakeProgram
<1>3. p \in Program
  <2>1. FreeProgram \in SUBSET Program
    BY DEF FreeProgram
  <2> QED BY <2>1, <1>2, MutatorAssumption, Zenon
<1>4. /\ made' = [made EXCEPT !.programs = made'.programs]
      /\ Len(made'.programs) = Len(made.programs) + 1
      /\ Len(made.programs) \in Nat
      /\ made'.programs \in Seq(Program)
  BY <1>1, <1>2, <1>3, AppendFacts DEF MadeType
<1>5. MadeLengths'
  <2>1. /\ made'.actions = made.actions /\ made'.teams = made.teams /\ made'.edges = 0
        /\ made'.current = 1 /\ made'.extra = 0
        /\ Len(made.actions) = NbActions /\ Len(made.teams) = InitNbRoots
        /\ Len(made.programs) < 2 * InitNbRoots
    BY <1>1, <1>4 DEF TypeInv, MadeInv, MadeType, MadeLengths
  <2>2. InitNbRoots \in Nat /\ InitNbRoots >= 2
    BY MutatorAssumption
  <2>3. pc' = IF Len(made.programs) + 1 < 2 * InitNbRoots THEN "programs" ELSE "edges"
    BY DEF MakeProgram
  <2> QED BY <1>1, <1>4, <2>1, <2>2, <2>3 DEF MadeLengths
<1>6. made' \in MadeType /\ made'.actions = made.actions /\ made'.teams = made.teams
  BY <1>1, <1>4 DEF MadeType
<1>7. MadeInv'
  BY <1>1, <1>5, <1>6 DEF MakeProgram, TypeInv, MadeInv, Initialising
<1>8. PreInv' /\ TeamInv'
  <2>1. ~ Populating'
    BY <1>1 DEF MakeProgram, Populating, Building
  <2> QED BY <2>1, <1>1, QuietFacts, NothingBeforeInv
          DEF MakeProgram, populateVars, Populating, Building
<1> QED BY <1>1, <1>7, <1>8 DEF MakeProgram, TypeInv, GraphInv

(* addNewEdge of initRandomTPG, from the team t to the action a *)
AddsEdge(e, t, a, p) ==
    /\ e \in Edge \ Edges(graph)
    /\ t \in Vertices(graph) /\ IsTeam(graph, t)
    /\ a \in Vertices(graph) /\ IsAction(graph, a)
    /\ p \in Program
    /\ WellFormed(graph')
    /\ IsFiniteSet(Edges(graph'))
    /\ graph'.kind = graph.kind
    /\ Vertices(graph') = Vertices(graph)
    /\ Edges(graph') = Edges(graph) \cup {e}
    /\ graph'.src[e] = t /\ graph'.dst[e] = a /\ graph'.prog[e] = p
    /\ \A f \in Edges(graph) : graph'.src[f] = graph.src[f] /\ graph'.dst[f] = graph.dst[f]
    /\ graph'.out[t] = graph.out[t] \cup {e}
    /\ e \notin graph.out[t]
    /\ \A v \in Vertex \ {t} : graph'.out[v] = graph.out[v]

LEMMA NewEdgeInInit ==
    ASSUME TypeInv, NEW i \in DOMAIN made.teams, NEW j \in DOMAIN made.actions,
           NEW p \in Program, NEW e \in Edge \ Edges(graph),
           graph' = AddNewEdge(graph, e, made.teams[i], made.actions[j], p)
    PROVE  AddsEdge(e, made.teams[i], made.actions[j], p)
<1> DEFINE t == made.teams[i]
           a == made.actions[j]
<1>1. t \in Vertex /\ a \in Vertex
  BY ElementOfSeq, LenProperties DEF TypeInv, MadeInv, MadeType
<1>2. /\ WellFormed(graph) /\ IsFiniteSet(Edges(graph))
      /\ IsTeam(graph, t) /\ IsAction(graph, a)
  BY DEF TypeInv, GraphInv, MadeInv
<1> HIDE DEF t, a
<1>3. t \in Vertices(graph) /\ a \in Vertices(graph)
  BY <1>1, <1>2, WellFormedFacts
<1>4. IsFiniteSet(Edges(graph) \cup {e})
  BY <1>2, FS_AddElement
<1>5. /\ WellFormed(graph')
      /\ graph'.kind = graph.kind
      /\ Vertices(graph') = Vertices(graph)
      /\ Edges(graph') = Edges(graph) \cup {e}
      /\ graph'.src[e] = t /\ graph'.dst[e] = a /\ graph'.prog[e] = p
      /\ \A f \in Edges(graph) : graph'.src[f] = graph.src[f] /\ graph'.dst[f] = graph.dst[f]
      /\ graph'.out[t] = graph.out[t] \cup {e}
      /\ \A v \in Vertex \ {t} : graph'.out[v] = graph.out[v]
  BY <1>2, <1>3, AddNewEdgeEffect DEF t, a
<1>6. e \notin graph.out[t]
  BY <1>1, <1>2 DEF WellFormed, EdgeListsAgree
<1>7. AddsEdge(e, t, a, p)
  BY <1>2, <1>3, <1>4, <1>5, <1>6 DEF AddsEdge
<1> QED BY <1>7 DEF t, a

(* An index of a program has the index of an action. *)
LEMMA IndicesInRange ==
    ASSUME NEW i \in Nat
    PROVE  /\ i < 2 * InitNbRoots => (i \div 2) + 1 \in 1 .. InitNbRoots
           /\ i \div 2 \in Nat /\ i % 2 \in {0, 1}
           /\ i = 2 * (i \div 2) + (i % 2)
           /\ (((i \div 2) + (i % 2)) % NbActions) + 1 \in 1 .. NbActions
<1>1. NbActions \in Nat \ {0} /\ InitNbRoots \in Nat
  BY MutatorAssumption
<1>2. i \div 2 \in Nat /\ i % 2 \in {0, 1} /\ i = 2 * (i \div 2) + (i % 2)
  OBVIOUS
<1>3. \A m \in Nat, n \in Nat \ {0} : (m % n) \in 0 .. n - 1
  OBVIOUS
<1> QED BY <1>1, <1>2, <1>3
LEMMA MakeEdgeEffect ==
    ASSUME TypeInv, MakeEdge
    PROVE  /\ (made.edges \div 2) + 1 \in DOMAIN made.teams
           /\ \E e \in Edge, j \in DOMAIN made.actions, p \in Program :
                 /\ AddsEdge(e, made.teams[(made.edges \div 2) + 1], made.actions[j], p)
                 /\ made.edges < 2 * NbActions =>
                       j = (((made.edges \div 2) + (made.edges % 2)) % NbActions) + 1
<1> DEFINE i == made.edges
<1>1. /\ i \in Nat /\ i < 2 * InitNbRoots
      /\ Len(made.actions) = NbActions /\ Len(made.teams) = InitNbRoots
      /\ Len(made.programs) = 2 * InitNbRoots
      /\ made \in MadeType
  BY DEF MakeEdge, TypeInv, MadeInv, MadeType, MadeLengths
<1>2. /\ DOMAIN made.actions = 1 .. NbActions /\ DOMAIN made.teams = 1 .. InitNbRoots
      /\ DOMAIN made.programs = 1 .. 2 * InitNbRoots
  BY <1>1, LenProperties DEF MadeType
<1>3. PICK e \in Allocate(FreeEdge), a \in InitActionIndices(i) :
         graph' = AddNewEdge(graph, e, made.teams[(i \div 2) + 1], made.actions[a + 1],
                             made.programs[i + 1])
  BY DEF MakeEdge
<1>4. e \in Edge \ Edges(graph)
  <2>1. FreeEdge \in SUBSET Edge
    BY DEF FreeEdge
  <2> QED BY <2>1, <1>3, MutatorAssumption, Zenon DEF FreeEdge
<1>5. (i \div 2) + 1 \in DOMAIN made.teams
  BY <1>1, <1>2, IndicesInRange
<1>6. /\ a + 1 \in DOMAIN made.actions
      /\ i < 2 * NbActions => a + 1 = (((i \div 2) + (i % 2)) % NbActions) + 1
  <2>1. NbActions \in Nat /\ (((i \div 2) + (i % 2)) % NbActions) + 1 \in 1 .. NbActions
    BY <1>1, IndicesInRange, MutatorAssumption
  <2>2. CASE i < 2 * NbActions
    BY <2>1, <2>2, <1>2, <1>3 DEF InitActionIndices
  <2>3. CASE ~ (i < 2 * NbActions)
    BY <2>1, <2>3, <1>2, <1>3 DEF InitActionIndices
  <2> QED BY <2>2, <2>3
<1>7. made.programs[i + 1] \in Program
  <2>1. i + 1 \in 1 .. Len(made.programs)
    BY <1>1, MutatorAssumption
  <2> QED BY <2>1, <1>1, ElementOfSeq DEF MadeType
<1> HIDE DEF i
<1>8. AddsEdge(e, made.teams[(i \div 2) + 1], made.actions[a + 1], made.programs[i + 1])
  BY <1>3, <1>4, <1>5, <1>6, <1>7, NewEdgeInInit
<1>9. e \in Edge
  BY <1>4
<1> QED BY <1>5, <1>6, <1>7, <1>8, <1>9 DEF i

LEMMA ExtraEdgeEffect ==
    ASSUME TypeInv, ExtraEdge
    PROVE  /\ made.current \in DOMAIN made.teams
           /\ \E e \in Edge, j \in DOMAIN made.actions, p \in Program :
                 AddsEdge(e, made.teams[made.current], made.actions[j], p)
<1>1. /\ Len(made.actions) = NbActions /\ Len(made.teams) = InitNbRoots
      /\ made \in MadeType /\ made.current \in 1 .. InitNbRoots
  BY DEF ExtraEdge, TypeInv, MadeInv, MadeType, MadeLengths
<1>2. /\ DOMAIN made.actions = 1 .. NbActions /\ DOMAIN made.teams = 1 .. InitNbRoots
      /\ DOMAIN made.programs \subseteq Nat \ {0}
  BY <1>1, LenProperties DEF MadeType
<1>3. PICK e \in Allocate(FreeEdge), i \in SelectablePrograms(made.teams[made.current]) :
         graph' = AddNewEdge(graph, e, made.teams[made.current],
                     made.actions[((((i - 1) \div 2) + ((i - 1) % 2)) % NbActions) + 1],
                     made.programs[i])
  BY DEF ExtraEdge
<1>4. e \in Edge \ Edges(graph)
  <2>1. FreeEdge \in SUBSET Edge
    BY DEF FreeEdge
  <2> QED BY <2>1, <1>3, MutatorAssumption, Zenon DEF FreeEdge
<1>5. i \in DOMAIN made.programs /\ i - 1 \in Nat
  BY <1>2, <1>3 DEF SelectablePrograms, AvailablePrograms
<1> DEFINE j == ((((i - 1) \div 2) + ((i - 1) % 2)) % NbActions) + 1
<1>6. j \in DOMAIN made.actions
  BY <1>2, <1>5, IndicesInRange
<1>7. made.programs[i] \in Program
  BY <1>1, <1>5, ElementOfSeq, LenProperties DEF MadeType
<1> HIDE DEF j
<1>8. AddsEdge(e, made.teams[made.current], made.actions[j], made.programs[i])
  BY <1>1, <1>2, <1>3, <1>4, <1>6, <1>7, NewEdgeInInit DEF j
<1>9. e \in Edge
  BY <1>4
<1> QED BY <1>1, <1>2, <1>6, <1>7, <1>8, <1>9

(* An assignment to some of the counters keeps the others. *)
LEMMA SameCounter ==
    ASSUME NEW m \in MadeType, NEW i, NEW c, NEW x
    PROVE  /\ [m EXCEPT !.edges = i, !.extra = x]
                = [m EXCEPT !.edges = i, !.current = m.current, !.extra = x]
           /\ [m EXCEPT !.current = c, !.extra = x]
                = [m EXCEPT !.edges = m.edges, !.current = c, !.extra = x]
           /\ [m EXCEPT !.extra = x]
                = [m EXCEPT !.edges = m.edges, !.current = m.current, !.extra = x]
BY DEF MadeType

(* While initRandomTPG adds edges, only its counters have to be looked after. *)
LEMMA TypeInvAddsEdge ==
    ASSUME TypeInv, pc \in {"edges", "extra"}, pc' \in {"edges", "extra"},
           NEW e, NEW t, NEW a, NEW p, AddsEdge(e, t, a, p),
           made' \in MadeType, MadeLengths', UNCHANGED <<before, resume, populateVars>>,
           made'.actions = made.actions, made'.teams = made.teams
    PROVE  TypeInv'
<1>1. GraphInv' /\ graph'.kind = graph.kind
  BY DEF AddsEdge, TypeInv, GraphInv
<1>2. MadeInv'
  BY <1>1 DEF TypeInv, MadeInv, Initialising, IsAction, IsTeam
<1>3. PreInv' /\ TeamInv'
  <2>1. ~ Populating' /\ ~ Populating /\ ~ Building
    BY DEF Populating, Building
  <2> QED BY <2>1, QuietFacts, NothingBeforeInv DEF populateVars
<1> QED BY <1>1, <1>2, <1>3 DEF TypeInv

LEMMA TypeInvMakeEdge == ASSUME TypeInv, MakeEdge PROVE TypeInv'
<1>1. PICK e \in Edge, j \in DOMAIN made.actions, p \in Program :
         AddsEdge(e, made.teams[(made.edges \div 2) + 1], made.actions[j], p)
  BY MakeEdgeEffect
<1>2. PICK n \in 0 .. MaxInitOutgoingEdges - 2 :
         made' = [made EXCEPT !.edges = made.edges + 1, !.extra = IF pc' = "extra" THEN n ELSE 0]
  BY Zenon DEF MakeEdge
<1>3. /\ MaxInitOutgoingEdges \in Nat /\ InitNbRoots \in Nat /\ InitNbRoots >= 1
      /\ made \in MadeType /\ pc = "edges"
      /\ pc' = IF made.edges + 1 < 2 * InitNbRoots THEN "edges" ELSE "extra"
      /\ UNCHANGED <<before, resume, populateVars>>
  BY MutatorAssumption DEF TypeInv, MadeInv, MakeEdge
<1>4. /\ made' \in MadeType
      /\ made'.actions = made.actions /\ made'.teams = made.teams
      /\ made'.programs = made.programs /\ made'.current = made.current
      /\ made'.edges = made.edges + 1
      /\ made'.extra = IF pc' = "extra" THEN n ELSE 0
  <2> DEFINE x == IF pc' = "extra" THEN n ELSE 0
             i == made.edges + 1
  <2>1. i \in Nat /\ x \in Nat /\ made.current \in Nat
    BY <1>3 DEF MadeType
  <2>2. made' = [made EXCEPT !.edges = i, !.extra = x]
    BY <1>2, Zenon
  <2> HIDE DEF x, i
  <2>3. made' = [made EXCEPT !.edges = i, !.current = made.current, !.extra = x]
    BY <1>3, <2>2, SameCounter, Zenon
  <2>4. /\ made' \in MadeType
        /\ made'.actions = made.actions /\ made'.teams = made.teams
        /\ made'.programs = made.programs /\ made'.current = made.current
        /\ made'.edges = i /\ made'.extra = x
    BY <1>3, <2>1, <2>3 DEF MadeType
  <2> QED BY <2>4 DEF x, i
<1>5. MadeLengths'
  BY <1>2, <1>3, <1>4 DEF TypeInv, MadeInv, MadeLengths, MadeType
<1> QED BY <1>1, <1>3, <1>4, <1>5, TypeInvAddsEdge

LEMMA TypeInvExtraEdge == ASSUME TypeInv, ExtraEdge PROVE TypeInv'
<1>1. PICK e \in Edge, j \in DOMAIN made.actions, p \in Program :
         AddsEdge(e, made.teams[made.current], made.actions[j], p)
  BY ExtraEdgeEffect
<1>2. /\ made' = [made EXCEPT !.extra = made.extra - 1]
      /\ made.extra > 0 /\ made \in MadeType /\ pc = "extra" /\ pc' = "extra"
      /\ MaxInitOutgoingEdges \in Nat
      /\ UNCHANGED <<before, resume, populateVars>>
  BY MutatorAssumption DEF ExtraEdge, TypeInv, MadeInv
<1>3. /\ made' \in MadeType
      /\ made'.actions = made.actions /\ made'.teams = made.teams
      /\ made'.programs = made.programs /\ made'.current = made.current
      /\ made'.edges = made.edges
      /\ made'.extra = made.extra - 1
  <2> DEFINE x == made.extra - 1
  <2>1. made.edges \in Nat /\ x \in Nat /\ made.current \in Nat
    BY <1>2 DEF MadeType
  <2>2. made' = [made EXCEPT !.extra = x]
    BY <1>2
  <2> HIDE DEF x
  <2>3. made' = [made EXCEPT !.edges = made.edges, !.current = made.current, !.extra = x]
    BY <1>2, <2>2, SameCounter, Zenon
  <2>4. /\ made' \in MadeType
        /\ made'.actions = made.actions /\ made'.teams = made.teams
        /\ made'.programs = made.programs /\ made'.current = made.current
        /\ made'.edges = made.edges /\ made'.extra = x
    BY <1>2, <2>1, <2>3 DEF MadeType
  <2> QED BY <2>4 DEF x
<1>4. MadeLengths'
  <2>1. /\ Len(made.actions) = NbActions /\ Len(made.teams) = InitNbRoots
        /\ Len(made.programs) = 2 * InitNbRoots /\ made.current \in 1 .. InitNbRoots
        /\ made.extra \in 0 .. MaxInitOutgoingEdges - 2
    BY <1>2 DEF TypeInv, MadeInv, MadeLengths
  <2>2. made'.extra \in 0 .. MaxInitOutgoingEdges - 2
    BY <1>2, <1>3, <2>1
  <2> QED BY <1>2, <1>3, <2>1, <2>2 DEF MadeLengths
<1> QED BY <1>1, <1>2, <1>3, <1>4, TypeInvAddsEdge

(* The vectors do not change when the next team gets its number of extra edges. *)
LEMMA NextTeamEffect ==
    ASSUME TypeInv, NextTeam
    PROVE  /\ pc = "extra" /\ UNCHANGED <<graph, before, populateVars>>
           /\ \/ /\ made.current < InitNbRoots
                 /\ pc' = pc /\ resume' = resume
                 /\ made' \in MadeType
                 /\ made'.actions = made.actions /\ made'.teams = made.teams
                 /\ made'.programs = made.programs /\ made'.edges = made.edges
                 /\ made'.current = made.current + 1
                 /\ made'.extra \in 0 .. MaxInitOutgoingEdges - 2
              \/ /\ made.current = InitNbRoots
                 /\ made' = NothingMade /\ pc' = resume /\ resume' = "idle"
<1>1. pc = "extra" /\ UNCHANGED <<graph, before, populateVars>>
  BY Zenon DEF NextTeam
<1>2. made \in MadeType /\ MaxInitOutgoingEdges \in Nat
  BY MutatorAssumption DEF TypeInv, MadeInv
<1>3. ASSUME made.current < InitNbRoots, pc' = pc, resume' = resume,
             NEW n \in 0 .. MaxInitOutgoingEdges - 2,
             made' = [made EXCEPT !.current = @ + 1, !.extra = n]
      PROVE  /\ made' \in MadeType
             /\ made'.actions = made.actions /\ made'.teams = made.teams
             /\ made'.programs = made.programs /\ made'.edges = made.edges
             /\ made'.current = made.current + 1
             /\ made'.extra = n
  <2> DEFINE c == made.current + 1
  <2>1. made.edges \in Nat /\ c \in Nat /\ n \in Nat
    BY <1>2 DEF MadeType
  <2>2. made' = [made EXCEPT !.current = c, !.extra = n]
    BY <1>3, Zenon
  <2> HIDE DEF c
  <2>3. made' = [made EXCEPT !.edges = made.edges, !.current = c, !.extra = n]
    BY <1>2, <2>2, SameCounter, Zenon
  <2>4. /\ made' \in MadeType
        /\ made'.actions = made.actions /\ made'.teams = made.teams
        /\ made'.programs = made.programs /\ made'.current = c
        /\ made'.edges = made.edges /\ made'.extra = n
    BY <1>2, <2>1, <2>3 DEF MadeType
  <2> QED BY <2>4 DEF c
<1>4. \/ /\ made.current < InitNbRoots /\ pc' = pc /\ resume' = resume
         /\ \E n \in 0 .. MaxInitOutgoingEdges - 2 :
               made' = [made EXCEPT !.current = @ + 1, !.extra = n]
      \/ /\ made.current = InitNbRoots
         /\ made' = NothingMade /\ pc' = resume /\ resume' = "idle"
  BY Zenon DEF NextTeam
<1> QED BY <1>1, <1>3, <1>4

LEMMA TypeInvNextTeam == ASSUME TypeInv, NextTeam PROVE TypeInv'
<1>1. /\ pc = "extra" /\ UNCHANGED <<graph, before, populateVars>>
      /\ made \in MadeType /\ MaxInitOutgoingEdges \in Nat /\ InitNbRoots \in Nat
  BY MutatorAssumption, NextTeamEffect DEF TypeInv, MadeInv
<1>2. ~ Building /\ ~ Populating
  BY <1>1 DEF Building, Populating
<1>3. ASSUME made.current < InitNbRoots, pc' = pc, resume' = resume,
             made' \in MadeType,
             made'.actions = made.actions, made'.teams = made.teams,
             made'.programs = made.programs, made'.current = made.current + 1,
             made'.extra \in 0 .. MaxInitOutgoingEdges - 2
      PROVE  TypeInv'
  <2>1. MadeLengths'
    BY <1>1, <1>3 DEF TypeInv, MadeInv, MadeLengths, MadeType
  <2>2. MadeInv'
    BY <1>1, <1>3, <2>1 DEF TypeInv, MadeInv, Initialising
  <2>3. PreInv' /\ TeamInv'
    BY <1>1, <1>2, <1>3, QuietFacts, NothingBeforeInv DEF Populating, Building, populateVars
  <2> QED BY <1>1, <1>3, <2>2, <2>3 DEF TypeInv, GraphInv
<1>4. ASSUME made' = NothingMade, pc' = resume, resume' = "idle" PROVE TypeInv'
  <2>1. resume \in {"idle", "populate"}
    BY DEF TypeInv, MadeInv
  <2>2. MadeInv'
    BY <1>4, <2>1, NothingMadeInv DEF Initialising
  <2>3. PreInv' /\ TeamInv'
    BY <1>1, <1>2, <1>4, <2>1, QuietFacts, NothingBeforeInv DEF Populating, Building, populateVars
  <2> QED BY <1>1, <1>4, <2>1, <2>2, <2>3 DEF TypeInv, GraphInv
<1> QED BY <1>3, <1>4, NextTeamEffect
LEMMA TypeInvPopulateTPG == ASSUME TypeInv, PopulateTPG PROVE TypeInv'
<1>1. ~ Building /\ ~ Populating
  BY DEF PopulateTPG, Building, Populating
<1>2. CASE StartInit("populate")
  BY <1>1, <1>2, TypeInvStartInit
<1>3. CASE pc' = "populate" /\ UNCHANGED <<graph, before, initVars, populateVars>>
  <2>1. MadeInv'
    BY <1>3, QuietFacts, <1>1, NothingMadeInv DEF PopulateTPG, Initialising, initVars
  <2>2. PreInv' /\ TeamInv'
    BY <1>1, <1>3, QuietFacts, NothingBeforeInv DEF Populating, Building, populateVars
  <2> QED BY <1>3, <2>1, <2>2 DEF TypeInv, GraphInv
<1> QED BY <1>2, <1>3 DEF PopulateTPG

LEMMA TypeInvCopyPreExisting == ASSUME TypeInv, CopyPreExisting PROVE TypeInv'
<1>1. /\ pc = "populate" /\ pc' = "loop" /\ ~ Building /\ ~ Building' /\ ~ Initialising
      /\ graph' = graph /\ before' = before /\ newPrograms' = {}
      /\ UNCHANGED <<initVars, teamVars>>
  BY DEF CopyPreExisting, Building, Initialising
<1>2. MadeInv'
  BY <1>1, QuietFacts, NothingMadeInv DEF Initialising, initVars
<1>3. GraphInv
  BY DEF TypeInv
<1>4. /\ pre'.teams = {v \in Vertices(graph) : IsTeam(graph, v)}
      /\ pre'.actions = {v \in Vertices(graph) : IsAction(graph, v)}
      /\ pre'.edges = Edges(graph)
      /\ pre'.roots = RootTeams(graph)
      /\ pre'.nbRoots = Cardinality(RootVertices(graph))
      /\ pre' = [teams |-> pre'.teams, actions |-> pre'.actions, edges |-> pre'.edges,
                 roots |-> pre'.roots, nbRoots |-> pre'.nbRoots]
  BY DEF CopyPreExisting
<1>5. pre'.nbRoots \in Nat
  <2>1. RootVertices(graph) \in SUBSET Vertices(graph)
    BY DEF RootVertices
  <2> QED BY <1>3, <1>4, <2>1, FS_Subset, FS_CardinalityType DEF GraphInv
<1>6. /\ Vertices(graph) \subseteq Vertex /\ Edges(graph) \subseteq Edge
      /\ RootTeams(graph) \subseteq {v \in Vertices(graph) : IsTeam(graph, v)}
  BY DEF Vertices, Edges, RootTeams, RootVertices
<1>7. pre' \in PreType
  BY <1>4, <1>5, <1>6 DEF PreType
<1>8. \A e \in Edges(graph) :
         graph.src[e] \in pre'.teams /\ graph.dst[e] \in pre'.teams \cup pre'.actions
  BY <1>3, <1>4, WellFormedFacts DEF GraphInv
<1>9. \A v \in Vertex : graph.out[v] \subseteq Edges(graph)
  BY <1>3 DEF GraphInv, WellFormed, EdgeListsAgree
<1>10. PreInv'
  BY <1>1, <1>4, <1>6, <1>7, <1>8, <1>9 DEF PreInv, Populating
<1>11. TeamInv'
  BY <1>1, QuietFacts DEF TeamInv, teamVars
<1> QED BY <1>1, <1>2, <1>3, <1>10, <1>11 DEF TypeInv, GraphInv

LEMMA CloneRootEffect ==
    ASSUME TypeInv, CloneRoot
    PROVE  /\ pc = "loop" /\ pc' = "copy"
           /\ TooFewRoots(Cardinality(RootVertices(graph)))
           /\ \E r \in pre.roots : todo' = graph.out[r]
           /\ team' \in Allocate(FreeVertex)
           /\ PushVertex(team', "team")
           /\ UNCHANGED <<initVars, pre, anyMutationDone, newPrograms>>
BY DEF CloneRoot

LEMMA TypeInvCloneRoot == ASSUME TypeInv, CloneRoot PROVE TypeInv'
<1>1. PICK r \in pre.roots : todo' = graph.out[r]
  BY CloneRootEffect
<1>2. /\ team' \in Vertex /\ team' \notin Vertices(graph)
      /\ GraphInv'
      /\ graph'.src = graph.src /\ graph'.dst = graph.dst /\ graph'.out = graph.out
      /\ Edges(graph') = Edges(graph)
      /\ Vertices(graph') = Vertices(graph) \cup {team'}
      /\ graph'.kind[team'] = "team"
      /\ \A w \in Vertex \ {team'} : graph'.kind[w] = graph.kind[w]
      /\ before' \in [Vertex -> SUBSET Vertex]
  BY CloneRootEffect, PushVertexEffect DEF Kind
<1>3. /\ pc = "loop" /\ pc' = "copy" /\ ~ Building /\ ~ Initialising /\ ~ Initialising' /\ Building'
      /\ made' = made /\ resume' = resume /\ pre' = pre /\ newPrograms' = newPrograms
      /\ anyMutationDone' = anyMutationDone
  BY CloneRootEffect DEF Building, Initialising, initVars
<1>4. MadeInv'
  BY <1>3, QuietFacts, NothingMadeInv
<1>5. /\ pre \in PreType /\ newPrograms \in SUBSET Program
      /\ pre.edges \subseteq Edges(graph)
      /\ \A e \in pre.edges :
            graph.src[e] \in pre.teams /\ graph.dst[e] \in pre.teams \cup pre.actions
      /\ pre.roots \subseteq pre.teams
      /\ \A v \in pre.roots : graph.out[v] \subseteq pre.edges
      /\ \A v \in pre.teams : IsTeam(graph, v)
      /\ \A v \in pre.actions : IsAction(graph, v)
      /\ pre.teams \subseteq Vertex /\ pre.actions \subseteq Vertex
  BY DEF TypeInv, PreInv, PreType
<1>6. pre.teams \subseteq Vertices(graph) /\ pre.actions \subseteq Vertices(graph)
  BY <1>5, WellFormedFacts DEF TypeInv, GraphInv
<1>7. /\ \A v \in pre.teams : IsTeam(graph', v)
      /\ \A v \in pre.actions : IsAction(graph', v)
  BY <1>2, <1>5, <1>6 DEF IsTeam, IsAction
<1>8. PreInv'
  BY <1>2, <1>3, <1>5, <1>7 DEF PreInv, Populating
<1>9. TeamInv'
  <2>1. anyMutationDone \in BOOLEAN
    BY <1>3, QuietFacts
  <2>2. IsTeam(graph', team') /\ team' \in Vertex \ pre.teams
    BY <1>2, <1>6 DEF IsTeam
  <2>3. todo' \subseteq pre.edges
    BY <1>1, <1>5
  <2> QED BY <1>2, <1>3, <1>5, <2>1, <2>2, <2>3 DEF TeamInv
<1> QED BY <1>2, <1>3, <1>4, <1>8, <1>9 DEF TypeInv

(* A step of mutateTPGTeam: only the variables of its loops are left to look after. *)
LEMMA TypeInvBuilding ==
    ASSUME TypeInv, Building, Building', OnlyTeamChanges,
           UNCHANGED <<before, initVars, pre, team>>,
           newPrograms' \in SUBSET Program, anyMutationDone' \in BOOLEAN,
           todo' \in SUBSET Edges(graph'),
           pc' = "copy" => todo' \subseteq pre.edges,
           pc' \in {"removeFirst", "remove", "addFirst", "add"} => todo' = {},
           pc' = "mutate" => todo' \subseteq graph'.out[team]
    PROVE  TypeInv'
<1>1. /\ team \in Vertices(graph) /\ IsTeam(graph, team) /\ team \in Vertex \ pre.teams
      /\ team \notin pre.teams /\ team \notin pre.actions
      /\ pre.teams \subseteq Vertices(graph)
      /\ GraphInv /\ PreInv
      /\ Vertices(graph) \subseteq Vertex
  BY TeamFacts DEF TypeInv, TeamInv, Vertices
<1>2. /\ graph'.kind = graph.kind /\ team' = team /\ pre' = pre /\ made' = made
      /\ resume' = resume /\ before' = before
  BY DEF OnlyTeamChanges, initVars
<1>3. GraphInv'
  BY <1>1 DEF OnlyTeamChanges, GraphInv
<1>4. ~ Initialising /\ ~ Initialising' /\ Populating'
  BY DEF Building, Initialising, Populating
<1>5. MadeInv'
  <2>1. made' = NothingMade /\ resume' = "idle"
    BY <1>2, <1>4 DEF TypeInv, MadeInv
  <2> QED BY <1>4, <2>1, NothingMadeInv
<1>6. \A e \in pre.edges : /\ e \in Edges(graph') /\ graph'.src[e] = graph.src[e]
                           /\ graph'.dst[e] = graph.dst[e]
  BY <1>1 DEF PreInv, OnlyTeamChanges
<1>7. \A r \in pre.roots : graph'.out[r] = graph.out[r]
  BY <1>1 DEF PreInv, OnlyTeamChanges
<1>8. PreInv'
  BY <1>1, <1>2, <1>4, <1>6, <1>7 DEF PreInv, IsTeam, IsAction
<1>9. TeamInv'
  BY <1>1, <1>2 DEF TeamInv, IsTeam
<1> QED BY <1>2, <1>3, <1>5, <1>8, <1>9 DEF TypeInv, Building

LEMMA UnchangedGraph ==
    ASSUME TypeInv, graph' = graph PROVE OnlyTeamChanges
BY DEF TypeInv, GraphInv, OnlyTeamChanges

LEMMA TypeInvCopyEdge == ASSUME TypeInv, CopyEdge PROVE TypeInv'
<1>1. PICK e \in todo, new \in Edge : GetsEdge(e, new) /\ todo' = todo \ {e}
  BY CopyEdgeEffect
<1>2. /\ Building /\ Building' /\ pc = "copy"
      /\ pc' = IF todo' = {} THEN "removeFirst" ELSE "copy"
      /\ UNCHANGED <<before, initVars, pre, team, anyMutationDone, newPrograms>>
  BY DEF CopyEdge, Building
<1>3. /\ todo \subseteq pre.edges /\ todo \subseteq Edges(graph)
      /\ newPrograms \in SUBSET Program /\ anyMutationDone \in BOOLEAN
  BY <1>2 DEF TypeInv, TeamInv, PreInv
<1>4. OnlyTeamChanges /\ Edges(graph) \subseteq Edges(graph')
  BY <1>1 DEF GetsEdge
<1> QED BY <1>1, <1>2, <1>3, <1>4, TypeInvBuilding

LEMMA TypeInvRemoveRandomEdge == ASSUME TypeInv, RemoveRandomEdge PROVE TypeInv'
<1>1. PICK e \in graph.out[team] : LosesEdge(e)
  BY RemoveRandomEdgeEffect
<1>2. /\ Building /\ Building' /\ pc \in {"removeFirst", "remove"} /\ pc' = "remove"
      /\ UNCHANGED <<before, initVars, populateVars>>
  BY DEF RemoveRandomEdge, Building
<1>3. /\ todo = {}
      /\ newPrograms \in SUBSET Program /\ anyMutationDone \in BOOLEAN
  BY <1>2 DEF TypeInv, TeamInv, PreInv
<1>4. OnlyTeamChanges
  BY <1>1 DEF LosesEdge
<1> QED BY <1>2, <1>3, <1>4, TypeInvBuilding DEF populateVars

LEMMA TypeInvAddRandomEdge == ASSUME TypeInv, AddRandomEdge PROVE TypeInv'
<1>1. PICK e \in pre.edges, new \in Edge : GetsEdge(e, new)
  BY AddRandomEdgeEffect
<1>2. /\ Building /\ Building' /\ pc \in {"addFirst", "add"} /\ pc' = "add"
      /\ UNCHANGED <<before, initVars, populateVars>>
  BY DEF AddRandomEdge, Building
<1>3. /\ todo = {}
      /\ newPrograms \in SUBSET Program /\ anyMutationDone \in BOOLEAN
  BY <1>2 DEF TypeInv, TeamInv, PreInv
<1>4. OnlyTeamChanges
  BY <1>1 DEF GetsEdge
<1> QED BY <1>2, <1>3, <1>4, TypeInvBuilding DEF populateVars

LEMMA TypeInvStop == ASSUME TypeInv, StopRemoving \/ StopAdding PROVE TypeInv'
<1>1. OnlyTeamChanges
  BY UnchangedGraph DEF StopRemoving, StopAdding
<1>2. /\ Building /\ Building' /\ pc \in {"removeFirst", "remove", "addFirst", "add"}
      /\ graph' = graph
      /\ UNCHANGED <<before, initVars, pre, team, newPrograms>>
  BY DEF StopRemoving, StopAdding, Building, populateVars
<1>3. /\ todo = {}
      /\ newPrograms \in SUBSET Program /\ anyMutationDone \in BOOLEAN
  BY <1>2 DEF TypeInv, TeamInv, PreInv
<1>4. \/ pc' = "addFirst" /\ todo' = todo /\ anyMutationDone' = anyMutationDone
      \/ pc' = "mutate" /\ todo' = graph.out[team] /\ anyMutationDone' = FALSE
  BY DEF StopRemoving, StopAdding, populateVars
<1>5. graph.out[team] \subseteq Edges(graph)
  BY <1>2, TeamFacts
<1> QED BY <1>1, <1>2, <1>3, <1>4, <1>5, TypeInvBuilding

LEMMA TypeInvMutateOutgoingEdge == ASSUME TypeInv, MutateOutgoingEdge PROVE TypeInv'
<1>1. PICK e \in todo, p \in Program, d \in Vertex :
         ChangesEdge(e, p, d) /\ todo' = todo \ {e} /\ newPrograms' = newPrograms \cup {p}
  BY MutateOutgoingEdgeEffect
<1>2. /\ Building /\ Building' /\ pc = "mutate" /\ pc' = "mutate" /\ anyMutationDone' = TRUE
      /\ UNCHANGED <<before, initVars, pre, team>>
  BY DEF MutateOutgoingEdge, Building
<1>3. /\ todo \subseteq graph.out[team] /\ todo \subseteq Edges(graph)
      /\ newPrograms \in SUBSET Program
  BY <1>2 DEF TypeInv, TeamInv, PreInv
<1>4. OnlyTeamChanges /\ Edges(graph') = Edges(graph) /\ graph'.out = graph.out
  BY <1>1 DEF ChangesEdge
<1> QED BY <1>1, <1>2, <1>3, <1>4, TypeInvBuilding

LEMMA TypeInvKeepOutgoingEdge == ASSUME TypeInv, KeepOutgoingEdge PROVE TypeInv'
<1>1. OnlyTeamChanges
  BY UnchangedGraph DEF KeepOutgoingEdge
<1>2. /\ Building /\ Building' /\ pc = "mutate" /\ pc' = "mutate" /\ graph' = graph
      /\ todo' = todo \ {NextOf(todo)}
      /\ UNCHANGED <<before, initVars, pre, team, anyMutationDone, newPrograms>>
  BY DEF KeepOutgoingEdge, Building
<1>3. /\ todo \subseteq graph.out[team] /\ todo \subseteq Edges(graph)
      /\ newPrograms \in SUBSET Program /\ anyMutationDone \in BOOLEAN
  BY <1>2 DEF TypeInv, TeamInv, PreInv
<1> QED BY <1>1, <1>2, <1>3, TypeInvBuilding

LEMMA TypeInvEndPass == ASSUME TypeInv, EndPass PROVE TypeInv'
<1>1. /\ pc = "mutate" /\ todo = {} /\ Building
      /\ UNCHANGED <<graph, before, initVars, pre, newPrograms>>
  BY DEF EndPass, Building
<1>2. CASE /\ pc' = "loop" /\ team' = NoVertex /\ anyMutationDone' = FALSE /\ todo' = todo
  <2>1. ~ Building' /\ Populating' /\ Populating /\ ~ Initialising /\ ~ Initialising'
    BY <1>1, <1>2 DEF Building, Populating, Initialising
  <2>2. made' = NothingMade /\ resume' = "idle"
    BY <1>1, <2>1 DEF TypeInv, MadeInv, initVars
  <2>3. MadeInv'
    BY <2>1, <2>2, NothingMadeInv
  <2>4. PreInv'
    BY <1>1, <2>1 DEF TypeInv, PreInv
  <2>5. TeamInv'
    BY <1>1, <1>2, <2>1 DEF TeamInv
  <2> QED BY <1>1, <1>2, <2>3, <2>4, <2>5 DEF TypeInv, GraphInv
<1>3. CASE /\ todo' = graph.out[team]
           /\ UNCHANGED <<pc, team, anyMutationDone>>
  <2>1. OnlyTeamChanges
    BY <1>1, UnchangedGraph
  <2>2. /\ Building' /\ pc' = "mutate" /\ graph' = graph
        /\ newPrograms' \in SUBSET Program /\ anyMutationDone' \in BOOLEAN
        /\ graph.out[team] \subseteq Edges(graph)
    BY <1>1, <1>3, TeamFacts DEF TypeInv, TeamInv, PreInv, Building
  <2> QED BY <1>1, <1>3, <2>1, <2>2, TypeInvBuilding
<1> QED BY <1>2, <1>3 DEF EndPass

LEMMA TypeInvEndLoop == ASSUME TypeInv, EndLoop \/ MutateNewProgramBehaviors PROVE TypeInv'
<1>1. /\ pc \in {"loop", "behave"} /\ ~ Building /\ ~ Building' /\ ~ Initialising
      /\ ~ Initialising' /\ pc' \in {"behave", "idle"}
      /\ UNCHANGED <<graph, before, initVars, teamVars>>
  BY DEF EndLoop, MutateNewProgramBehaviors, Building, Initialising, populateVars, teamVars
<1>2. MadeInv'
  BY <1>1, QuietFacts, NothingMadeInv DEF initVars
<1>3. TeamInv'
  BY <1>1, QuietFacts DEF TeamInv, teamVars
<1>4. PreInv'
  <2>1. CASE EndLoop
    BY <1>1, <2>1 DEF TypeInv, PreInv, EndLoop, populateVars, Populating
  <2>2. CASE MutateNewProgramBehaviors
    BY <1>1, <2>2, QuietFacts, NothingBeforeInv
    DEF MutateNewProgramBehaviors, Populating, teamVars, Building
  <2> QED BY <2>1, <2>2
<1> QED BY <1>1, <1>2, <1>3, <1>4 DEF TypeInv, GraphInv

(* removeVertex of a root *)
LEMMA RemoveRootStep ==
    ASSUME TypeInv, NEW v \in Vertex, RemoveRoot(v)
    PROVE  /\ v \in Vertices(graph) /\ v \in RootVertices(graph)
           /\ WellFormed(graph') /\ GraphInv'
           /\ Vertices(graph') = Vertices(graph) \ {v}
           /\ \A w \in Vertex \ {v} : graph'.kind[w] = graph.kind[w]
           /\ Edges(graph') = Edges(graph) \ graph.out[v]
           /\ \A f \in Edges(graph') : /\ graph'.src[f] = graph.src[f]
                                       /\ graph'.dst[f] = graph.dst[f]
           /\ \A w \in Vertex \ {v} : graph'.out[w] = graph.out[w]
           /\ \A f \in Edges(graph) : graph.dst[f] # v
           /\ before' \in [Vertex -> SUBSET Vertex]
           /\ \A w \in Vertex \ {v} : before'[w] = before[w] \ {v}
           /\ pc = "idle" /\ UNCHANGED <<pc, initVars, populateVars>>
<1>1. /\ v \in RootVertices(graph) /\ graph' = RemoveVertex(graph, v) /\ GraphInv
      /\ before' = [w \in Vertex |-> IF w = v THEN {} ELSE before[w] \ {v}]
      /\ pc = "idle" /\ UNCHANGED <<pc, initVars, populateVars>>
      /\ before \in [Vertex -> SUBSET Vertex]
  BY DEF RemoveRoot, TypeInv
<1>2. WellFormed(graph)
  BY <1>1 DEF GraphInv
<1>3. /\ WellFormed(graph')
      /\ Vertices(graph') = Vertices(graph) \ {v}
      /\ \A w \in Vertex \ {v} : graph'.kind[w] = graph.kind[w]
      /\ Edges(graph') = Edges(graph) \ graph.out[v]
      /\ \A f \in Edges(graph') : graph'.src[f] = graph.src[f] /\ graph'.dst[f] = graph.dst[f]
      /\ \A w \in Vertex \ {v} : graph'.out[w] = graph.out[w]
      /\ \A f \in Edges(graph) : graph.dst[f] # v
  BY <1>1, <1>2, RemoveRootEffect
<1>4. IsFiniteSet(Vertices(graph) \ {v}) /\ IsFiniteSet(Edges(graph) \ graph.out[v])
  BY <1>1, FS_Difference DEF GraphInv
<1>5. GraphInv' /\ v \in Vertices(graph)
  BY <1>1, <1>3, <1>4 DEF GraphInv, RootVertices
<1>6. before' \in [Vertex -> SUBSET Vertex] /\ \A w \in Vertex \ {v} : before'[w] = before[w] \ {v}
  BY <1>1
<1> QED BY <1>1, <1>3, <1>5, <1>6

LEMMA TypeInvRemoveRoot == ASSUME TypeInv, NEW v \in Vertex, RemoveRoot(v) PROVE TypeInv'
<1>1. /\ GraphInv' /\ pc = "idle" /\ UNCHANGED <<pc, initVars, populateVars>>
      /\ before' \in [Vertex -> SUBSET Vertex]
  BY RemoveRootStep
<1>2. ~ Building /\ ~ Initialising /\ ~ Populating /\ ~ Initialising' /\ ~ Populating'
  BY <1>1 DEF Building, Initialising, Populating
<1>3. MadeInv'
  BY <1>1, <1>2, QuietFacts, NothingMadeInv DEF initVars
<1>4. PreInv' /\ TeamInv'
  BY <1>1, <1>2, QuietFacts, NothingBeforeInv DEF populateVars
<1> QED BY <1>1, <1>3, <1>4 DEF TypeInv

LEMMA TypeInvStep == ASSUME TypeInv, [Next]_vars PROVE TypeInv'
<1>1. CASE InitRandomTPG
  <2>1. ~ Building /\ ~ Populating /\ StartInit("idle")
    BY <1>1 DEF InitRandomTPG, Building, Populating
  <2> QED BY <2>1, TypeInvStartInit
<1>2. CASE UNCHANGED vars
  BY <1>2 DEF vars, TypeInv, GraphInv, MadeInv, MadeLengths, PreInv, TeamInv, Initialising,
     Populating, Building
<1> QED
  BY <1>1, <1>2, TypeInvMakeAction, TypeInvMakeTeam, TypeInvMakeProgram, TypeInvMakeEdge,
     TypeInvExtraEdge, TypeInvNextTeam, TypeInvPopulateTPG, TypeInvCopyPreExisting,
     TypeInvCloneRoot, TypeInvCopyEdge, TypeInvRemoveRandomEdge, TypeInvStop,
     TypeInvAddRandomEdge, TypeInvMutateOutgoingEdge, TypeInvKeepOutgoingEdge,
     TypeInvEndPass, TypeInvEndLoop, TypeInvRemoveRoot DEF Next
-----------------------------------------------------------------------------
(* The order of the vertices. *)

LEMMA OrderInvPushVertex ==
    ASSUME TypeInv, OrderInv, NEW v \in Allocate(FreeVertex), NEW k \in Kind, PushVertex(v, k)
    PROVE  BeforeIsOrder' /\ BeforeHasFirst' /\ EdgesLeadToOlder'
<1>1. /\ v \in Vertex /\ v \notin Vertices(graph)
      /\ graph'.src = graph.src /\ graph'.dst = graph.dst
      /\ Edges(graph') = Edges(graph)
      /\ Vertices(graph') = Vertices(graph) \cup {v}
      /\ before'[v] = Vertices(graph)
      /\ \A w \in Vertex \ {v} : before'[w] = before[w]
      /\ Vertices(graph) \subseteq Vertex
  BY PushVertexEffect DEF Vertices
<1>2. BeforeIsOrder /\ BeforeHasFirst /\ EdgesLeadToOlder
  BY DEF OrderInv
<1>3. \A w \in Vertices(graph) : /\ before'[w] = before[w]
                                 /\ before[w] \subseteq Vertices(graph) \ {w}
  BY <1>1, <1>2 DEF BeforeIsOrder
<1>4. BeforeIsOrder'
  BY <1>1, <1>2, <1>3 DEF BeforeIsOrder
<1>5. BeforeHasFirst'
  <2> SUFFICES ASSUME NEW S \in SUBSET (Vertices(graph) \cup {v}), S # {}
               PROVE  \E w \in S : before'[w] \cap S = {}
    BY <1>1 DEF BeforeHasFirst
  <2>1. CASE S \ {v} = {}
    BY <1>1, <2>1
  <2>2. CASE S \ {v} # {}
    <3>1. S \ {v} \in (SUBSET Vertices(graph)) \ {{}}
      BY <2>2
    <3>2. PICK w \in S \ {v} : before[w] \cap (S \ {v}) = {}
      BY <1>2, <3>1 DEF BeforeHasFirst
    <3>3. w \in Vertices(graph)
      BY <3>1
    <3> QED BY <1>1, <1>3, <3>2, <3>3
  <2> QED BY <2>1, <2>2
<1>6. EdgesLeadToOlder'
  <2>1. \A e \in Edges(graph) : graph.src[e] \in Vertices(graph)
    BY WellFormedFacts DEF TypeInv, GraphInv
  <2> QED BY <1>1, <1>2, <1>3, <2>1 DEF EdgesLeadToOlder
<1> QED BY <1>4, <1>5, <1>6

LEMMA OrderInvMakeAction == ASSUME TypeInv, OrderInv, MakeAction PROVE OrderInv'
<1>1. pc = "actions" /\ made.teams = <<>> /\ made \in MadeType
  BY DEF MakeAction, TypeInv, MadeInv, MadeLengths
<1> DEFINE k == Actions[Len(made.actions) + 1]
<1>2. k \in ActionID
  BY <1>1, MutatorAssumption, ElementOfSeq
  DEF TypeInv, MadeInv, MadeType, MadeLengths, NbActions
<1>3. PICK v \in Allocate(FreeVertex) :
         PushVertex(v, k) /\ made' = [made EXCEPT !.actions = Append(@, v)]
  BY DEF MakeAction
<1> HIDE DEF k
<1>4. BeforeIsOrder' /\ BeforeHasFirst' /\ EdgesLeadToOlder'
  BY <1>2, <1>3, OrderInvPushVertex DEF Kind
<1>5. made'.teams = <<>>
  BY <1>1, <1>3 DEF MadeType
<1>6. ~ Building'
  BY <1>1 DEF MakeAction, Building
<1> QED BY <1>4, <1>5, <1>6 DEF OrderInv, LateTeams

LEMMA OrderInvMakeTeam == ASSUME TypeInv, OrderInv, MakeTeam PROVE OrderInv'
<1>1. pc = "teams" /\ made \in MadeType
  BY DEF MakeTeam, TypeInv, MadeInv
<1>2. PICK v \in Allocate(FreeVertex) :
         PushVertex(v, "team") /\ made' = [made EXCEPT !.teams = Append(@, v)]
  BY DEF MakeTeam
<1>3. BeforeIsOrder' /\ BeforeHasFirst' /\ EdgesLeadToOlder'
  BY <1>2, OrderInvPushVertex DEF Kind
<1>4. /\ v \in Vertex /\ v \notin Vertices(graph)
      /\ before'[v] = Vertices(graph)
      /\ \A w \in Vertex \ {v} : before'[w] = before[w]
      /\ \A w \in Vertex \ {v} : graph'.kind[w] = graph.kind[w]
      /\ Vertices(graph) \subseteq Vertex
  BY <1>2, PushVertexEffect DEF Kind, Vertices
<1>5. /\ made'.actions = made.actions
      /\ \A i \in DOMAIN made'.teams :
            \/ i \in DOMAIN made.teams /\ made'.teams[i] = made.teams[i]
            \/ made'.teams[i] = v
  BY <1>1, <1>2, <1>4, AppendFacts DEF MadeType
<1>6. /\ \A j \in DOMAIN made.actions : made.actions[j] \in Vertices(graph)
      /\ \A i \in DOMAIN made.teams : made.teams[i] \in Vertices(graph)
  BY <1>4, MadeVerticesStay
<1>7. ~ Building'
  BY <1>1 DEF MakeTeam, Building
<1>8. LateTeams'
  BY <1>4, <1>5, <1>6, <1>7 DEF OrderInv, LateTeams
<1> QED BY <1>3, <1>8 DEF OrderInv

(* The order is that of the graph as long as no vertex comes or goes. *)
LEMMA OrderInvAddsEdge ==
    ASSUME TypeInv, OrderInv, NEW e, NEW i \in DOMAIN made.teams, NEW j \in DOMAIN made.actions,
           NEW p, AddsEdge(e, made.teams[i], made.actions[j], p),
           before' = before, made'.actions = made.actions, made'.teams = made.teams,
           ~ Building'
    PROVE  OrderInv'
<1>1. /\ Vertices(graph') = Vertices(graph)
      /\ Edges(graph') = Edges(graph) \cup {e}
      /\ graph'.src[e] = made.teams[i] /\ graph'.dst[e] = made.actions[j]
      /\ \A f \in Edges(graph) : graph'.src[f] = graph.src[f] /\ graph'.dst[f] = graph.dst[f]
  BY DEF AddsEdge
<1> QED BY <1>1 DEF OrderInv, BeforeIsOrder, BeforeHasFirst, LateTeams, EdgesLeadToOlder

(* Edges of the team under mutation lead to what came before it, which is everything else. *)
LEMMA OrderInvBuilding ==
    ASSUME TypeInv, OrderInv, Building, OnlyTeamChanges,
           UNCHANGED <<before, initVars, team>>,
           \A e \in graph'.out[team] : graph'.dst[e] # team
    PROVE  OrderInv'
<1>1. /\ WellFormed(graph') /\ Vertices(graph') = Vertices(graph)
      /\ team \in Vertices(graph) /\ Vertices(graph) \subseteq Vertex
      /\ before[team] = Vertices(graph) \ {team}
  BY TeamFacts DEF OnlyTeamChanges, OrderInv, LateTeams, Vertices
<1>2. EdgesLeadToOlder'
  <2> SUFFICES ASSUME NEW e \in Edges(graph') PROVE graph'.dst[e] \in before[graph'.src[e]]
    BY DEF EdgesLeadToOlder
  <2>1. CASE graph'.src[e] = team
    <3>1. e \in graph'.out[team] /\ graph'.dst[e] \in Vertices(graph')
      BY <1>1, <2>1 DEF WellFormed, EdgeListsAgree, EndsInGraph
    <3> QED BY <1>1, <2>1, <3>1
  <2>2. CASE graph'.src[e] # team
    BY <2>2 DEF OnlyTeamChanges, OrderInv, EdgesLeadToOlder
  <2> QED BY <2>1, <2>2
<1>3. BeforeIsOrder' /\ BeforeHasFirst'
  BY <1>1 DEF OrderInv, BeforeIsOrder, BeforeHasFirst
<1>4. LateTeams'
  BY <1>1 DEF OrderInv, LateTeams, initVars
<1> QED BY <1>2, <1>3, <1>4 DEF OrderInv

LEMMA NoEdgeToTeam ==
    ASSUME TypeInv, OrderInv, Building
    PROVE  \A e \in Edges(graph) : graph.dst[e] # team
<1> SUFFICES ASSUME NEW e \in Edges(graph), graph.dst[e] = team PROVE FALSE
  OBVIOUS
<1>1. graph.src[e] \in Vertices(graph)
  BY WellFormedFacts DEF TypeInv, GraphInv
<1>2. team \in before[graph.src[e]]
  BY DEF OrderInv, EdgesLeadToOlder
<1>3. before[team] = Vertices(graph) \ {team} /\ team \in Vertices(graph)
  BY TeamFacts DEF OrderInv, LateTeams
<1>4. before[graph.src[e]] \subseteq Vertices(graph) \ {graph.src[e]}
  BY <1>1 DEF OrderInv, BeforeIsOrder
<1>5. before[team] \subseteq before[graph.src[e]]
  BY <1>1, <1>2 DEF OrderInv, BeforeIsOrder
<1> QED BY <1>1, <1>2, <1>3, <1>4, <1>5

LEMMA OrderInvCloneRoot == ASSUME TypeInv, OrderInv, CloneRoot PROVE OrderInv'
<1>1. BeforeIsOrder' /\ BeforeHasFirst' /\ EdgesLeadToOlder'
  BY CloneRootEffect, OrderInvPushVertex DEF Kind
<1>2. /\ team' \notin Vertices(graph)
      /\ before'[team'] = Vertices(graph)
      /\ Vertices(graph') = Vertices(graph) \cup {team'}
  BY CloneRootEffect, PushVertexEffect DEF Kind
<1>3. made' = made /\ made = NothingMade
  BY CloneRootEffect DEF initVars, TypeInv, MadeInv, Initialising
<1>4. LateTeams'
  BY <1>2, <1>3 DEF LateTeams, NothingMade
<1> QED BY <1>1, <1>4 DEF OrderInv

LEMMA OrderInvMutates ==
    ASSUME TypeInv, OrderInv,
           CopyEdge \/ RemoveRandomEdge \/ AddRandomEdge \/ MutateOutgoingEdge
    PROVE  OrderInv'
<1>1. Building /\ UNCHANGED <<before, initVars, team>>
  BY DEF CopyEdge, RemoveRandomEdge, AddRandomEdge, MutateOutgoingEdge, Building, populateVars
<1>2. \A e \in graph.out[team] : e \in Edges(graph) /\ graph.dst[e] # team
  BY <1>1, NoEdgeToTeam, TeamFacts
<1>3. ASSUME NEW e, NEW new, GetsEdge(e, new) PROVE OrderInv'
  <2>1. /\ OnlyTeamChanges /\ e \in pre.edges
        /\ graph'.out[team] = graph.out[team] \cup {new} /\ graph'.dst[new] = graph.dst[e]
        /\ \A f \in Edges(graph) : graph'.dst[f] = graph.dst[f]
    BY <1>3 DEF GetsEdge
  <2>2. \A f \in graph'.out[team] : graph'.dst[f] # team
    BY <1>1, <1>2, <2>1, TeamFacts
  <2> QED BY <1>1, <2>1, <2>2, OrderInvBuilding
<1>4. ASSUME NEW e, LosesEdge(e) PROVE OrderInv'
  <2>1. /\ OnlyTeamChanges /\ Edges(graph') = Edges(graph) \ {e}
        /\ graph'.out[team] = graph.out[team] \ {e}
        /\ \A f \in Edges(graph') : graph'.dst[f] = graph.dst[f]
    BY <1>4 DEF LosesEdge
  <2>2. \A f \in graph'.out[team] : graph'.dst[f] # team
    BY <1>2, <2>1
  <2> QED BY <1>1, <2>1, <2>2, OrderInvBuilding
<1>5. ASSUME NEW e, NEW p, NEW d, ChangesEdge(e, p, d) PROVE OrderInv'
  <2>1. /\ OnlyTeamChanges /\ e \in graph.out[team] /\ graph'.out = graph.out
        /\ d \in {graph.dst[e]} \cup pre.teams \cup pre.actions
        /\ graph'.dst[e] = d
        /\ \A f \in Edges(graph) \ {e} : graph'.dst[f] = graph.dst[f]
    BY <1>5 DEF ChangesEdge
  <2>2. \A f \in graph'.out[team] : graph'.dst[f] # team
    BY <1>1, <1>2, <2>1, TeamFacts
  <2> QED BY <1>1, <2>1, <2>2, OrderInvBuilding
<1> QED BY <1>3, <1>4, <1>5, CopyEdgeEffect, RemoveRandomEdgeEffect, AddRandomEdgeEffect,
        MutateOutgoingEdgeEffect

LEMMA OrderInvRemoveRoot ==
    ASSUME TypeInv, OrderInv, NEW v \in Vertex, RemoveRoot(v) PROVE OrderInv'
<1>1. /\ WellFormed(graph) /\ v \in Vertices(graph)
      /\ Vertices(graph') = Vertices(graph) \ {v}
      /\ Edges(graph') = Edges(graph) \ graph.out[v]
      /\ \A f \in Edges(graph') : graph'.src[f] = graph.src[f] /\ graph'.dst[f] = graph.dst[f]
      /\ \A f \in Edges(graph) : graph.dst[f] # v
      /\ \A w \in Vertex \ {v} : before'[w] = before[w] \ {v}
      /\ pc = "idle" /\ UNCHANGED <<pc, initVars, populateVars>>
      /\ Vertices(graph) \subseteq Vertex
  BY RemoveRootStep DEF TypeInv, GraphInv, Vertices
<1>2. \A w \in Vertices(graph') : before'[w] = before[w] \ {v} /\ w \in Vertices(graph)
  BY <1>1
<1>3. BeforeIsOrder'
  BY <1>1, <1>2 DEF OrderInv, BeforeIsOrder
<1>4. BeforeHasFirst'
  <2> SUFFICES ASSUME NEW S \in (SUBSET Vertices(graph')) \ {{}}
               PROVE  \E w \in S : before'[w] \cap S = {}
    BY DEF BeforeHasFirst
  <2>1. S \in (SUBSET Vertices(graph)) \ {{}}
    BY <1>1
  <2>2. PICK w \in S : before[w] \cap S = {}
    BY <2>1 DEF OrderInv, BeforeHasFirst
  <2> QED BY <1>2, <2>2
<1>5. EdgesLeadToOlder'
  <2>1. \A f \in Edges(graph') : graph.src[f] # v /\ graph.src[f] \in Vertex
    BY <1>1, WellFormedFacts DEF WellFormed, EdgeListsAgree
  <2> QED BY <1>1, <2>1 DEF OrderInv, EdgesLeadToOlder
<1>6. LateTeams'
  <2>1. made' = NothingMade /\ ~ Building'
    BY <1>1 DEF TypeInv, MadeInv, Initialising, Building, initVars
  <2> QED BY <2>1 DEF LateTeams, NothingMade
<1> QED BY <1>3, <1>4, <1>5, <1>6 DEF OrderInv

LEMMA OrderInvClears == ASSUME NEW then, StartInit(then) PROVE OrderInv'
<1>1. Vertices(graph') = {} /\ Edges(graph') = {} /\ made' = NothingMade /\ pc' = "actions"
  BY EmptyEffect DEF StartInit
<1> QED BY <1>1 DEF OrderInv, BeforeIsOrder, BeforeHasFirst, LateTeams, EdgesLeadToOlder,
           NothingMade, Building

(* What does not touch the graph *)
LEMMA OrderInvQuiet ==
    ASSUME TypeInv, OrderInv, UNCHANGED <<graph, before>>,
           \/ made' = NothingMade
           \/ made'.teams = made.teams /\ made'.actions = made.actions,
           Building' => Building /\ team' = team
    PROVE  OrderInv'
BY DEF OrderInv, BeforeIsOrder, BeforeHasFirst, LateTeams, EdgesLeadToOlder, NothingMade

LEMMA OrderInvStep == ASSUME TypeInv, OrderInv, [Next]_vars PROVE OrderInv'
<1>1. CASE InitRandomTPG
  BY <1>1, OrderInvClears DEF InitRandomTPG
<1>2. CASE MakeProgram
  <2>1. /\ made'.teams = made.teams /\ made'.actions = made.actions
        /\ UNCHANGED <<graph, before>> /\ ~ Building'
    BY <1>2 DEF MakeProgram, TypeInv, MadeInv, MadeType, Building
  <2> QED BY <2>1, OrderInvQuiet
<1>3. CASE MakeEdge
  <2>1. PICK e \in Edge, j \in DOMAIN made.actions, p \in Program :
           AddsEdge(e, made.teams[(made.edges \div 2) + 1], made.actions[j], p)
    BY <1>3, MakeEdgeEffect
  <2>2. (made.edges \div 2) + 1 \in DOMAIN made.teams
    BY <1>3, MakeEdgeEffect
  <2>3. made'.teams = made.teams /\ made'.actions = made.actions /\ before' = before
    BY <1>3 DEF MakeEdge, TypeInv, MadeInv, MadeType
  <2>4. ~ Building'
    BY <1>3 DEF MakeEdge, Building
  <2> QED BY <2>1, <2>2, <2>3, <2>4, OrderInvAddsEdge
<1>4. CASE ExtraEdge
  <2>1. PICK e \in Edge, j \in DOMAIN made.actions, p \in Program :
           AddsEdge(e, made.teams[made.current], made.actions[j], p)
    BY <1>4, ExtraEdgeEffect
  <2>2. made.current \in DOMAIN made.teams
    BY <1>4, ExtraEdgeEffect
  <2>3. made'.teams = made.teams /\ made'.actions = made.actions /\ before' = before
    BY <1>4 DEF ExtraEdge, TypeInv, MadeInv, MadeType
  <2>4. ~ Building'
    BY <1>4 DEF ExtraEdge, Building
  <2> QED BY <2>1, <2>2, <2>3, <2>4, OrderInvAddsEdge
<1>5. CASE NextTeam
  <2>1. resume \in {"idle", "populate"}
    BY DEF TypeInv, MadeInv
  <2>2. UNCHANGED <<graph, before>> /\ ~ Building'
    BY <1>5, <2>1, NextTeamEffect DEF Building
  <2> QED BY <1>5, <2>2, NextTeamEffect, OrderInvQuiet
<1>6. CASE PopulateTPG
  <2>1. CASE StartInit("populate")
    BY <2>1, OrderInvClears
  <2>2. CASE pc' = "populate" /\ UNCHANGED <<graph, before, initVars, populateVars>>
    BY <2>2, OrderInvQuiet DEF Building, initVars
  <2> QED BY <1>6, <2>1, <2>2 DEF PopulateTPG
<1>7. CASE CopyPreExisting \/ EndLoop \/ MutateNewProgramBehaviors
  BY <1>7, OrderInvQuiet
  DEF CopyPreExisting, EndLoop, MutateNewProgramBehaviors, Building, initVars
<1>8. CASE StopRemoving \/ StopAdding \/ KeepOutgoingEdge
  BY <1>8, OrderInvQuiet
  DEF StopRemoving, StopAdding, KeepOutgoingEdge, Building, initVars, populateVars
<1>9. CASE EndPass
  BY <1>9, OrderInvQuiet DEF EndPass, Building, initVars
<1>10. CASE UNCHANGED vars
  BY <1>10, OrderInvQuiet DEF vars, Building
<1> QED
  BY <1>1, <1>2, <1>3, <1>4, <1>5, <1>6, <1>7, <1>8, <1>9, <1>10, OrderInvMakeAction,
     OrderInvMakeTeam, OrderInvCloneRoot, OrderInvMutates, OrderInvRemoveRoot DEF Next

LEMMA OrderInvInit == Init => OrderInv
<1> SUFFICES ASSUME Init PROVE OrderInv
  OBVIOUS
<1>1. Vertices(graph) = {} /\ Edges(graph) = {} /\ made = NothingMade /\ pc = "idle"
  BY EmptyEffect DEF Init
<1> QED BY <1>1 DEF OrderInv, BeforeIsOrder, BeforeHasFirst, LateTeams, EdgesLeadToOlder,
           NothingMade, Building

(* An edge leads to a vertex that was in the list of vertices before its source: a new edge
   comes from a team, in initRandomTPG to an action and in populateTPG from the newest team. *)
THEOREM EdgesAlwaysLeadToOlder == Spec => []EdgesLeadToOlder
<1>1. TypeInv /\ OrderInv => EdgesLeadToOlder
  BY DEF OrderInv
<1>2. Init => TypeInv /\ OrderInv
  BY TypeInvInit, OrderInvInit
<1>3. TypeInv /\ OrderInv /\ [Next]_vars => (TypeInv /\ OrderInv)'
  BY TypeInvStep, OrderInvStep
<1> QED BY <1>1, <1>2, <1>3, PTL DEF Spec

(* executeFromRoot never excludes an edge it has followed, and needs not: whatever vertices it
   could run around, one of them only has edges that leave them, the first in the list. *)
THEOREM CyclesNeverEverAppear == Spec => []CyclesNeverAppear
<1>1. ASSUME TypeInv, OrderInv PROVE CyclesNeverAppear
  <2> SUFFICES ASSUME NEW S \in (SUBSET Vertices(graph)) \ {{}}
               PROVE  \E v \in S : \A e \in graph.out[v] : graph.dst[e] \notin S
    BY DEF CyclesNeverAppear
  <2>1. PICK v \in S : before[v] \cap S = {}
    BY <1>1 DEF OrderInv, BeforeHasFirst
  <2>2. v \in Vertex
    BY DEF Vertices
  <2>3. \A e \in graph.out[v] : e \in Edges(graph) /\ graph.src[e] = v
    BY <1>1, <2>2 DEF TypeInv, GraphInv, WellFormed, EdgeListsAgree
  <2>4. \A e \in graph.out[v] : graph.dst[e] \in before[v]
    BY <1>1, <2>3 DEF OrderInv, EdgesLeadToOlder
  <2> QED BY <2>1, <2>4
<1>2. Init => TypeInv /\ OrderInv
  BY TypeInvInit, OrderInvInit
<1>3. TypeInv /\ OrderInv /\ [Next]_vars => (TypeInv /\ OrderInv)'
  BY TypeInvStep, OrderInvStep
<1> QED BY <1>1, <1>2, <1>3, PTL DEF Spec
-----------------------------------------------------------------------------
(* The numbers of edges. *)

LEMMA OutIsFinite ==
    ASSUME NEW g, WellFormed(g), IsFiniteSet(Edges(g)), NEW v \in Vertex
    PROVE  /\ IsFiniteSet(g.out[v])
           /\ Cardinality(g.out[v]) \in Nat
           /\ g.out[v] = {} => Cardinality(g.out[v]) = 0
           /\ Cardinality(g.out[v]) >= 1 => g.out[v] # {}
           /\ \A e : e \notin g.out[v] =>
                 Cardinality(g.out[v] \cup {e}) = Cardinality(g.out[v]) + 1
           /\ \A e \in g.out[v] : Cardinality(g.out[v] \ {e}) = Cardinality(g.out[v]) - 1
<1>1. g.out[v] \in SUBSET Edges(g)
  BY DEF WellFormed, EdgeListsAgree
<1>2. IsFiniteSet(g.out[v])
  BY <1>1, FS_Subset
<1>3. Cardinality(g.out[v]) \in Nat
  BY <1>2, FS_CardinalityType
<1>4. g.out[v] = {} => Cardinality(g.out[v]) = 0
  BY <1>2, FS_EmptySet
<1>5. \A e : e \notin g.out[v] => Cardinality(g.out[v] \cup {e}) = Cardinality(g.out[v]) + 1
  BY <1>2, FS_AddElement
<1>6. \A e \in g.out[v] : Cardinality(g.out[v] \ {e}) = Cardinality(g.out[v]) - 1
  BY <1>2, FS_RemoveElement
<1>7. Cardinality(g.out[v]) >= 1 => g.out[v] # {}
  BY <1>4
<1> QED BY <1>2, <1>3, <1>4, <1>5, <1>6, <1>7, Zenon

LEMMA NbEdgesFacts ==
    ASSUME TypeInv, NEW v \in Vertex
    PROVE  /\ NbEdges(v) \in Nat
           /\ graph.out[v] = {} => NbEdges(v) = 0
           /\ NbEdges(v) >= 1 => graph.out[v] # {}
BY OutIsFinite DEF TypeInv, GraphInv, NbEdges

LEMMA CountInvMakeAction == ASSUME TypeInv, CountInv, MakeAction PROVE CountInv'
<1>1. /\ pc = "actions" /\ made.teams = <<>> /\ made \in MadeType
      /\ pc' \in {"actions", "teams"}
  BY DEF MakeAction, TypeInv, MadeInv, MadeLengths
<1> DEFINE k == Actions[Len(made.actions) + 1]
<1>2. k \in ActionID
  BY <1>1, MutatorAssumption, ElementOfSeq
  DEF TypeInv, MadeInv, MadeType, MadeLengths, NbActions
<1>3. PICK v \in Allocate(FreeVertex) :
         PushVertex(v, k) /\ made' = [made EXCEPT !.actions = Append(@, v)]
  BY DEF MakeAction
<1> HIDE DEF k
<1>4. /\ Vertices(graph') = Vertices(graph) \cup {v}
      /\ graph'.kind[v] = k /\ v \in Vertex
      /\ \A w \in Vertex \ {v} : graph'.kind[w] = graph.kind[w]
  BY <1>2, <1>3, PushVertexEffect DEF Kind
<1>5. made'.teams = <<>> /\ DOMAIN made.teams = {} /\ DOMAIN made'.teams = {}
  BY <1>1, <1>3 DEF MadeType
<1>6. \A w \in Vertices(graph) : ~ IsTeam(graph, w)
  BY <1>1, <1>5 DEF CountInv, Initialising
<1>7. \A w \in Vertices(graph') : ~ IsTeam(graph', w)
  BY <1>2, <1>4, <1>6, GraphAssumption DEF IsTeam, Vertices
<1>8. Initialising' /\ ~ Building'
  BY <1>1 DEF Initialising, Building
<1>9. pc' # "copy"
  BY <1>1
<1> QED BY <1>5, <1>7, <1>8, <1>9 DEF CountInv, TeamsKeepTwoEdges

LEMMA CountInvMakeTeam == ASSUME TypeInv, CountInv, MakeTeam PROVE CountInv'
<1>1. /\ pc = "teams" /\ made \in MadeType /\ pc' \in {"teams", "programs"}
      /\ made.edges = 0
      /\ Initialising /\ Initialising' /\ ~ Building'
  BY DEF MakeTeam, TypeInv, MadeInv, MadeLengths, Initialising, Building
<1>2. PICK v \in Allocate(FreeVertex) :
         PushVertex(v, "team") /\ made' = [made EXCEPT !.teams = Append(@, v)]
  BY DEF MakeTeam
<1>3. /\ Vertices(graph') = Vertices(graph) \cup {v}
      /\ v \in Vertex /\ v \notin Vertices(graph)
      /\ graph'.out = graph.out /\ graph.out[v] = {}
      /\ \A w \in Vertex \ {v} : graph'.kind[w] = graph.kind[w]
  BY <1>2, PushVertexEffect DEF Kind
<1> DEFINE n == Len(made.teams) + 1
<1>4. /\ made'.edges = made.edges
      /\ Len(made.teams) \in Nat
      /\ DOMAIN made'.teams = DOMAIN made.teams \cup {n}
      /\ DOMAIN made.teams = 1 .. Len(made.teams)
      /\ \A i \in DOMAIN made.teams : made'.teams[i] = made.teams[i]
      /\ made'.teams[n] = v
  BY <1>1, <1>2, <1>3, AppendFacts DEF MadeType
<1>5. \A i \in DOMAIN made.teams : made.teams[i] \in Vertices(graph)
  BY <1>3, MadeVerticesStay
<1>6. n \notin DOMAIN made.teams /\ n \in Nat /\ n >= 1
  BY <1>4
<1> HIDE DEF n
<1>7. ASSUME NEW w \in Vertices(graph'), IsTeam(graph', w)
      PROVE  \E l \in DOMAIN made'.teams : made'.teams[l] = w
  <2>1. CASE w = v
    BY <2>1, <1>4
  <2>2. CASE w # v
    <3>1. w \in Vertices(graph) /\ IsTeam(graph, w)
      BY <1>3, <1>7, <2>2 DEF IsTeam, Vertices
    <3> QED BY <3>1, <1>1, <1>4 DEF CountInv
  <2> QED BY <2>1, <2>2
<1>8. \A i, j \in DOMAIN made'.teams : made'.teams[i] = made'.teams[j] => i = j
  BY <1>1, <1>3, <1>4, <1>5 DEF CountInv
<1>9. ASSUME NEW i \in DOMAIN made'.teams
      PROVE  Cardinality(graph'.out[made'.teams[i]]) \in EdgesOfMade(i)'
  <2>1. i \in Nat /\ i >= 1
    BY <1>4, <1>6
  <2>2. EdgesOfMade(i)' = {0} /\ EdgesOfMade(i) = {0}
    BY <1>1, <1>4, <2>1 DEF EdgesOfMade, FirstEdges
  <2>3. CASE i = n
    <3>1. Cardinality(graph'.out[made'.teams[i]]) = 0
      BY <1>3, <1>4, <2>3, FS_EmptySet DEF NbEdges
    <3> QED BY <2>2, <3>1
  <2>4. CASE i \in DOMAIN made.teams
    <3>1. NbEdges(made.teams[i]) \in EdgesOfMade(i)
      BY <1>1, <2>4 DEF CountInv
    <3>2. Cardinality(graph'.out[made'.teams[i]]) = NbEdges(made.teams[i])
      BY <1>3, <1>4, <2>4 DEF NbEdges
    <3> QED BY <2>2, <3>1, <3>2
  <2> QED BY <1>4, <2>3, <2>4
<1>10. pc' # "copy"
  BY <1>1
<1> QED BY <1>1, <1>7, <1>8, <1>9, <1>10 DEF CountInv, TeamsKeepTwoEdges, NbEdges

(* An edge is added to one of the teams of initRandomTPG. *)
LEMMA CountAddsEdge ==
    ASSUME TypeInv, CountInv, NEW i \in DOMAIN made.teams, NEW e, NEW a, NEW p,
           AddsEdge(e, made.teams[i], a, p)
    PROVE  /\ Cardinality(graph'.out[made.teams[i]]) = NbEdges(made.teams[i]) + 1
           /\ \A j \in DOMAIN made.teams \ {i} : Initialising =>
                 Cardinality(graph'.out[made.teams[j]]) = NbEdges(made.teams[j])
<1>1. \A j \in DOMAIN made.teams : made.teams[j] \in Vertex
  BY ElementOfSeq, LenProperties DEF TypeInv, MadeInv, MadeType
<1>2. /\ graph'.out[made.teams[i]] = graph.out[made.teams[i]] \cup {e}
      /\ e \notin graph.out[made.teams[i]]
      /\ \A v \in Vertex \ {made.teams[i]} : graph'.out[v] = graph.out[v]
  BY DEF AddsEdge
<1>3. Cardinality(graph.out[made.teams[i]] \cup {e}) = Cardinality(graph.out[made.teams[i]]) + 1
  <2>1. WellFormed(graph) /\ IsFiniteSet(Edges(graph)) /\ made.teams[i] \in Vertex
    BY <1>1 DEF TypeInv, GraphInv
  <2> QED BY <1>2, <2>1, OutIsFinite
<1>4. Initialising => \A j \in DOMAIN made.teams \ {i} : made.teams[j] # made.teams[i]
  BY DEF CountInv
<1> QED BY <1>1, <1>2, <1>3, <1>4 DEF NbEdges

LEMMA CountInvMakeProgram == ASSUME TypeInv, CountInv, MakeProgram PROVE CountInv'
<1>1. /\ pc = "programs" /\ pc' \in {"programs", "edges"} /\ graph' = graph
      /\ made'.teams = made.teams /\ made'.edges = made.edges
      /\ Initialising /\ Initialising' /\ ~ Building'
  BY DEF MakeProgram, TypeInv, MadeInv, MadeType, Initialising, Building
<1>2. \A k : EdgesOfMade(k)' = EdgesOfMade(k)
  BY <1>1 DEF EdgesOfMade
<1>3. pc' # "copy"
  BY <1>1
<1> QED BY <1>1, <1>2, <1>3 DEF CountInv, TeamsKeepTwoEdges, NbEdges

LEMMA FirstEdgesStep ==
    ASSUME NEW i \in Nat, NEW k \in Nat, k >= 1
    PROVE  FirstEdges(i + 1, k) =
              IF k = (i \div 2) + 1 THEN FirstEdges(i, k) + 1 ELSE FirstEdges(i, k)
<1> DEFINE h == i \div 2
           r == i % 2
<1>1. h \in Nat /\ r \in {0, 1} /\ i = 2 * h + r
  BY IndicesInRange
<1> HIDE DEF h, r
<1>2. CASE r = 0
  BY <1>1, <1>2 DEF FirstEdges, h
<1>3. CASE r = 1
  BY <1>1, <1>3 DEF FirstEdges, h
<1> QED BY <1>1, <1>2, <1>3

(* The teams of initRandomTPG are in place: only the numbers of their edges change. *)
LEMMA CountInvInit ==
    ASSUME CountInv, Initialising, Initialising', ~ Building',
           Vertices(graph') = Vertices(graph), graph'.kind = graph.kind,
           made'.teams = made.teams,
           \A k \in DOMAIN made.teams :
              Cardinality(graph'.out[made.teams[k]]) \in EdgesOfMade(k)'
    PROVE  CountInv'
<1>1. pc' # "copy"
  BY DEF Initialising
<1> QED BY <1>1 DEF CountInv, TeamsKeepTwoEdges, NbEdges, IsTeam

LEMMA CountInvMakeEdge == ASSUME TypeInv, CountInv, MakeEdge PROVE CountInv'
<1> DEFINE i == made.edges
           h == (i \div 2) + 1
<1>1. /\ pc = "edges" /\ Initialising /\ Initialising' /\ ~ Building'
      /\ pc' = IF i + 1 < 2 * InitNbRoots THEN "edges" ELSE "extra"
  BY DEF MakeEdge, Initialising, Building
<1>2. /\ i \in Nat /\ InitNbRoots \in Nat /\ MaxInitOutgoingEdges \in Nat
      /\ made.current = 1 /\ DOMAIN made.teams = 1 .. InitNbRoots
  BY <1>1, MutatorAssumption, LenProperties DEF TypeInv, MadeInv, MadeType, MadeLengths
<1>3. /\ made'.teams = made.teams /\ made'.edges = i + 1 /\ made'.current = made.current
      /\ made'.extra \in Nat /\ made'.extra <= MaxInitOutgoingEdges - 2
  <2>1. MadeInv' /\ made \in MadeType
    BY TypeInvMakeEdge DEF TypeInv, MadeInv
  <2>2. /\ made'.teams = made.teams /\ made'.edges = i + 1 /\ made'.current = made.current
        /\ \E n \in 0 .. MaxInitOutgoingEdges - 2 : made'.extra = IF pc' = "extra" THEN n ELSE 0
    BY <2>1 DEF MakeEdge, MadeType
  <2> QED BY <1>2, <2>2, MutatorAssumption
<1>4. h \in DOMAIN made.teams
  BY MakeEdgeEffect
<1>5. PICK e \in Edge, j \in DOMAIN made.actions, p \in Program :
         AddsEdge(e, made.teams[h], made.actions[j], p)
  BY MakeEdgeEffect, SMTT(30)
<1>6. Vertices(graph') = Vertices(graph) /\ graph'.kind = graph.kind
  BY <1>5 DEF AddsEdge
<1>7. \A k \in DOMAIN made.teams : NbEdges(made.teams[k]) = FirstEdges(i, k)
  BY <1>1 DEF CountInv, EdgesOfMade
<1>8. /\ Cardinality(graph'.out[made.teams[h]]) = NbEdges(made.teams[h]) + 1
      /\ \A k \in DOMAIN made.teams \ {h} :
            Cardinality(graph'.out[made.teams[k]]) = NbEdges(made.teams[k])
  <2> HIDE DEF h
  <2> QED BY <1>1, <1>4, <1>5, CountAddsEdge
<1>9. ASSUME NEW k \in DOMAIN made.teams
      PROVE  Cardinality(graph'.out[made.teams[k]]) \in EdgesOfMade(k)'
  <2>1. k \in Nat /\ k >= 1 /\ k <= InitNbRoots
    BY <1>2
  <2>2. Cardinality(graph'.out[made.teams[k]]) = FirstEdges(i + 1, k)
    <3> HIDE DEF i
    <3> QED BY <1>2, <1>7, <1>8, <2>1, FirstEdgesStep
  <2>3. CASE pc' = "edges"
    BY <1>3, <2>2, <2>3 DEF EdgesOfMade
  <2>4. CASE pc' = "extra"
    <3>1. FirstEdges(i + 1, k) = 2
      BY <1>1, <1>2, <2>1, <2>4 DEF FirstEdges
    <3> QED BY <1>2, <1>3, <2>1, <2>2, <2>4, <3>1 DEF EdgesOfMade
  <2> QED BY <1>1, <2>3, <2>4
<1> QED BY <1>1, <1>3, <1>6, <1>9, CountInvInit

LEMMA CountInvExtraEdge == ASSUME TypeInv, CountInv, ExtraEdge PROVE CountInv'
<1>1. /\ pc = "extra" /\ pc' = pc /\ made.extra > 0
      /\ Initialising /\ Initialising' /\ ~ Building'
  BY DEF ExtraEdge, Initialising, Building
<1>2. /\ InitNbRoots \in Nat /\ MaxInitOutgoingEdges \in Nat
      /\ made.current \in 1 .. InitNbRoots /\ made.extra \in Nat
      /\ DOMAIN made.teams = 1 .. InitNbRoots
  BY <1>1, MutatorAssumption, LenProperties DEF TypeInv, MadeInv, MadeType, MadeLengths
<1>3. made'.teams = made.teams /\ made'.current = made.current /\ made'.extra = made.extra - 1
  BY DEF ExtraEdge, TypeInv, MadeInv, MadeType
<1>4. PICK e \in Edge, j \in DOMAIN made.actions, p \in Program :
         AddsEdge(e, made.teams[made.current], made.actions[j], p)
  BY ExtraEdgeEffect
<1>5. Vertices(graph') = Vertices(graph) /\ graph'.kind = graph.kind
  BY <1>4 DEF AddsEdge
<1>6. \A k \in DOMAIN made.teams : NbEdges(made.teams[k]) \in EdgesOfMade(k)
  BY <1>1 DEF CountInv
<1>7. /\ Cardinality(graph'.out[made.teams[made.current]]) = NbEdges(made.teams[made.current]) + 1
      /\ \A k \in DOMAIN made.teams \ {made.current} :
            Cardinality(graph'.out[made.teams[k]]) = NbEdges(made.teams[k])
  BY <1>1, <1>2, <1>4, CountAddsEdge
<1>8. ASSUME NEW k \in DOMAIN made.teams
      PROVE  Cardinality(graph'.out[made.teams[k]]) \in EdgesOfMade(k)'
  <2>1. CASE k = made.current
    <3>1. NbEdges(made.teams[k]) \in 2 .. MaxInitOutgoingEdges - made.extra
      BY <1>1, <1>2, <1>6, <2>1, SMTT(30) DEF EdgesOfMade
    <3>2. EdgesOfMade(k)' = 2 .. MaxInitOutgoingEdges - (made.extra - 1)
      BY <1>1, <1>2, <1>3, <2>1 DEF EdgesOfMade
    <3>3. Cardinality(graph'.out[made.teams[k]]) = NbEdges(made.teams[k]) + 1
      BY <1>7, <2>1
    <3>4. \A n, m, x \in Int : n \in 2 .. m - x => n + 1 \in 2 .. m - (x - 1)
      OBVIOUS
    <3>5. NbEdges(made.teams[k]) \in Int
      BY <1>2, <3>1
    <3> QED BY <1>2, <3>1, <3>2, <3>3, <3>4, <3>5
  <2>2. CASE k # made.current
    BY <1>1, <1>3, <1>6, <1>7, <2>2 DEF EdgesOfMade
  <2> QED BY <2>1, <2>2
<1> QED BY <1>1, <1>3, <1>5, <1>8, CountInvInit

LEMMA CountInvNextTeam == ASSUME TypeInv, CountInv, NextTeam PROVE CountInv'
<1>1. /\ pc = "extra" /\ made.extra = 0 /\ Initialising
      /\ graph' = graph /\ team' = team /\ team = NoVertex
  <2>1. made.extra = 0
    BY Zenon DEF NextTeam
  <2>2. pc = "extra" /\ graph' = graph /\ team' = team
    BY NextTeamEffect DEF populateVars
  <2> QED BY <2>1, <2>2, QuietFacts DEF Building, Initialising
<1>2. /\ InitNbRoots \in Nat /\ MaxInitOutgoingEdges \in Nat /\ MaxInitOutgoingEdges >= 2
      /\ made.current \in 1 .. InitNbRoots
      /\ DOMAIN made.teams = 1 .. InitNbRoots
  BY <1>1, MutatorAssumption, LenProperties DEF TypeInv, MadeInv, MadeType, MadeLengths
<1>3. \A k \in DOMAIN made.teams : NbEdges(made.teams[k]) \in EdgesOfMade(k)
  BY <1>1 DEF CountInv
<1>4. CASE /\ made.current < InitNbRoots
           /\ pc' = pc
           /\ made'.teams = made.teams
           /\ made'.current = made.current + 1
           /\ made'.extra \in 0 .. MaxInitOutgoingEdges - 2
  <2>1. Initialising' /\ ~ Building'
    BY <1>1, <1>4 DEF Initialising, Building
  <2>2. ASSUME NEW k \in DOMAIN made.teams
        PROVE  Cardinality(graph'.out[made.teams[k]]) \in EdgesOfMade(k)'
    <3>1. Cardinality(graph'.out[made.teams[k]]) = NbEdges(made.teams[k])
      BY <1>1 DEF NbEdges
    <3>2. k \in Nat
      BY <1>2
    <3>3. CASE k <= made.current
      BY <1>1, <1>2, <1>3, <1>4, <3>1, <3>2, <3>3 DEF EdgesOfMade
    <3>4. CASE k = made.current + 1
      <4>1. ~ (k < made.current) /\ k # made.current /\ k = made'.current /\ ~ (k < made'.current)
        BY <1>2, <1>4, <3>2, <3>4
      <4>2. NbEdges(made.teams[k]) = 2
        BY <1>1, <1>3, <4>1 DEF EdgesOfMade
      <4>3. EdgesOfMade(k)' = 2 .. MaxInitOutgoingEdges - made'.extra
        BY <1>1, <1>4, <4>1 DEF EdgesOfMade
      <4> QED BY <1>2, <1>4, <3>1, <4>2, <4>3
    <3>5. CASE k > made.current + 1
      BY <1>1, <1>2, <1>3, <1>4, <3>1, <3>2, <3>5, SMTT(30) DEF EdgesOfMade
    <3> QED BY <1>2, <3>2, <3>3, <3>4, <3>5
  <2> QED BY <1>1, <1>4, <2>1, <2>2, CountInvInit
<1>5. CASE made.current = InitNbRoots /\ pc' = resume
  <2>1. ~ Initialising' /\ ~ Building' /\ pc' # "copy"
    BY <1>5 DEF TypeInv, MadeInv, Initialising, Building
  <2>2. ASSUME NEW v \in Vertices(graph), IsTeam(graph, v)
        PROVE  NbEdges(v) >= 2 /\ NbEdges(v) <= MaxInitOutgoingEdges
    <3>1. PICK k \in DOMAIN made.teams : made.teams[k] = v
      BY <1>1, <2>2 DEF CountInv
    <3>2. k \in Nat /\ k <= InitNbRoots
      BY <1>2
    <3>3. EdgesOfMade(k) = 2 .. MaxInitOutgoingEdges
      BY <1>1, <1>2, <1>5, <3>2 DEF EdgesOfMade
    <3> QED BY <1>2, <1>3, <3>1, <3>3
  <2>3. TeamsKeepTwoEdges'
    BY <1>1, <2>2 DEF TeamsKeepTwoEdges, NbEdges
  <2> QED BY <2>1, <2>3 DEF CountInv
<1> QED BY <1>4, <1>5, NextTeamEffect

LEMMA CountInvClears == ASSUME NEW then, StartInit(then) PROVE CountInv'
<1>1. Vertices(graph') = {} /\ made'.teams = <<>> /\ pc' = "actions"
  BY EmptyEffect DEF StartInit, NothingMade
<1>2. Initialising' /\ ~ Building' /\ pc' # "copy"
  BY <1>1 DEF Initialising, Building
<1> QED BY <1>1, <1>2 DEF CountInv, TeamsKeepTwoEdges

(* A step that changes nothing but the edges of the team under mutation *)
LEMMA CountInvBuilding ==
    ASSUME TypeInv, CountInv, Building, Building', OnlyTeamChanges, team' = team,
           pc' = "copy" =>
              CompleteTeam(Cardinality(graph'.out[team]) + Cardinality(todo')),
           pc' # "copy" => CompleteTeam(Cardinality(graph'.out[team]))
    PROVE  CountInv'
<1>1. ~ Initialising /\ ~ Initialising'
  BY DEF Building, Initialising
<1>2. /\ Vertices(graph') = Vertices(graph) /\ graph'.kind = graph.kind
      /\ \A v \in Vertices(graph) \ {team} : graph'.out[v] = graph.out[v]
  BY DEF OnlyTeamChanges, Vertices
<1>3. TeamsKeepTwoEdges'
  BY <1>1, <1>2 DEF CountInv, TeamsKeepTwoEdges, NbEdges, IsTeam
<1> QED BY <1>1, <1>3 DEF CountInv, NbEdges

LEMMA CountGetsEdge ==
    ASSUME TypeInv, Building, NEW e, NEW new, GetsEdge(e, new)
    PROVE  /\ OnlyTeamChanges
           /\ Cardinality(graph'.out[team]) = NbEdges(team) + 1 /\ NbEdges(team) \in Nat
<1>1. /\ WellFormed(graph) /\ IsFiniteSet(Edges(graph)) /\ team \in Vertex
      /\ new \notin graph.out[team]
  BY TeamFacts DEF TypeInv, GraphInv, Vertices, GetsEdge
<1>2. graph'.out[team] = graph.out[team] \cup {new} /\ OnlyTeamChanges
  BY DEF GetsEdge
<1> QED BY <1>1, <1>2, OutIsFinite DEF NbEdges

LEMMA CountInvCopyEdge == ASSUME TypeInv, CountInv, CopyEdge PROVE CountInv'
<1>1. PICK e \in todo, new \in Edge : GetsEdge(e, new) /\ todo' = todo \ {e}
  BY CopyEdgeEffect
<1>2. /\ Building /\ Building' /\ pc = "copy" /\ team' = team
      /\ pc' = IF todo' = {} THEN "removeFirst" ELSE "copy"
  BY DEF CopyEdge, Building
<1>3. /\ OnlyTeamChanges
      /\ Cardinality(graph'.out[team]) = NbEdges(team) + 1 /\ NbEdges(team) \in Nat
  BY <1>1, <1>2, CountGetsEdge
<1>4. IsFiniteSet(todo)
  <2>1. todo \in SUBSET Edges(graph) /\ IsFiniteSet(Edges(graph))
    BY DEF TypeInv, TeamInv, GraphInv
  <2> QED BY <2>1, FS_Subset
<1>5. Cardinality(todo') = Cardinality(todo) - 1 /\ Cardinality(todo) \in Nat
  BY <1>1, <1>4, FS_RemoveElement, FS_CardinalityType
<1>6. todo' = {} => Cardinality(todo') = 0
  BY FS_EmptySet
<1>7. CompleteTeam(NbEdges(team) + Cardinality(todo))
  BY <1>2 DEF CountInv
<1>8. NbEdges(team) + Cardinality(todo) = Cardinality(graph'.out[team]) + Cardinality(todo')
  BY <1>3, <1>5
<1>9. todo' = {} => NbEdges(team) + Cardinality(todo) = Cardinality(graph'.out[team])
  BY <1>3, <1>5, <1>6
<1> QED BY <1>2, <1>3, <1>7, <1>8, <1>9, CountInvBuilding

LEMMA CountInvRemoveRandomEdge == ASSUME TypeInv, CountInv, RemoveRandomEdge PROVE CountInv'
<1>1. PICK e \in graph.out[team] : LosesEdge(e)
  BY RemoveRandomEdgeEffect
<1>2. /\ Building /\ Building' /\ pc \in {"removeFirst", "remove"} /\ pc' = "remove"
      /\ team' = team /\ NbEdges(team) > 2
  BY DEF RemoveRandomEdge, MayRemove, Building, populateVars
<1>3. WellFormed(graph) /\ IsFiniteSet(Edges(graph)) /\ team \in Vertex
  BY <1>2, TeamFacts DEF TypeInv, GraphInv, Vertices
<1>4. OnlyTeamChanges /\ graph'.out[team] = graph.out[team] \ {e}
  BY <1>1 DEF LosesEdge
<1>5. Cardinality(graph'.out[team]) = NbEdges(team) - 1 /\ NbEdges(team) \in Nat
  BY <1>1, <1>3, <1>4, OutIsFinite DEF NbEdges
<1>6. CompleteTeam(NbEdges(team))
  BY <1>2 DEF CountInv
<1>7. CompleteTeam(Cardinality(graph'.out[team]))
  BY <1>2, <1>5, <1>6, MutatorAssumption DEF CompleteTeam
<1> QED BY <1>2, <1>4, <1>7, CountInvBuilding

LEMMA CountInvAddRandomEdge == ASSUME TypeInv, CountInv, AddRandomEdge PROVE CountInv'
<1>1. PICK e \in pre.edges, new \in Edge : GetsEdge(e, new)
  BY AddRandomEdgeEffect
<1>2. /\ Building /\ Building' /\ pc \in {"addFirst", "add"} /\ pc' = "add"
      /\ team' = team /\ NbEdges(team) < MaxOutgoingEdges
  BY DEF AddRandomEdge, MayAdd, Building, populateVars
<1>3. /\ OnlyTeamChanges
      /\ Cardinality(graph'.out[team]) = NbEdges(team) + 1 /\ NbEdges(team) \in Nat
  BY <1>1, <1>2, CountGetsEdge
<1>4. CompleteTeam(NbEdges(team))
  BY <1>2 DEF CountInv
<1>5. CompleteTeam(Cardinality(graph'.out[team]))
  BY <1>2, <1>3, <1>4, MutatorAssumption DEF CompleteTeam
<1> QED BY <1>2, <1>3, <1>5, CountInvBuilding

(* The steps that do not change how many edges the team has *)
LEMMA CountInvSame ==
    ASSUME TypeInv, CountInv, Building, Building', OnlyTeamChanges, team' = team,
           graph'.out[team] = graph.out[team], pc # "copy", pc' # "copy"
    PROVE  CountInv'
<1>1. CompleteTeam(Cardinality(graph'.out[team]))
  BY DEF CountInv, NbEdges
<1> QED BY <1>1, CountInvBuilding

LEMMA CountInvMutate ==
    ASSUME TypeInv, CountInv,
           StopRemoving \/ StopAdding \/ MutateOutgoingEdge \/ KeepOutgoingEdge
    PROVE  CountInv'
<1>1. Building /\ Building' /\ team' = team /\ pc # "copy" /\ pc' # "copy"
  BY DEF StopRemoving, StopAdding, MutateOutgoingEdge, KeepOutgoingEdge, Building, populateVars
<1>2. CASE MutateOutgoingEdge
  <2>1. PICK e \in todo, p \in Program, d \in Vertex : ChangesEdge(e, p, d)
    BY <1>2, MutateOutgoingEdgeEffect
  <2>2. OnlyTeamChanges /\ graph'.out = graph.out
    BY <2>1 DEF ChangesEdge
  <2> QED BY <1>1, <2>2, CountInvSame
<1>3. CASE StopRemoving \/ StopAdding \/ KeepOutgoingEdge
  <2>1. graph' = graph
    BY <1>3 DEF StopRemoving, StopAdding, KeepOutgoingEdge
  <2> QED BY <1>1, <2>1, UnchangedGraph, CountInvSame
<1> QED BY <1>2, <1>3

LEMMA CountInvCloneRoot == ASSUME TypeInv, CountInv, CloneRoot PROVE CountInv'
<1>1. PICK r \in pre.roots : todo' = graph.out[r]
  BY CloneRootEffect
<1>2. /\ team' \in Vertex /\ team' \notin Vertices(graph)
      /\ graph'.out = graph.out /\ graph.out[team'] = {}
      /\ Vertices(graph') = Vertices(graph) \cup {team'}
      /\ \A w \in Vertex \ {team'} : graph'.kind[w] = graph.kind[w]
  BY CloneRootEffect, PushVertexEffect DEF Kind
<1>3. pc' = "copy" /\ ~ Building /\ ~ Initialising /\ ~ Initialising' /\ Building'
  BY CloneRootEffect DEF Building, Initialising
<1>4. team = NoVertex
  BY <1>3, QuietFacts
<1>5. r \in Vertices(graph) /\ IsTeam(graph, r) /\ Vertices(graph) \subseteq Vertex
  BY WellFormedFacts DEF TypeInv, GraphInv, PreInv, PreType
<1>6. \A v \in Vertices(graph) : IsTeam(graph, v) => CompleteTeam(NbEdges(v))
  BY <1>3, <1>4, GraphAssumption DEF CountInv, TeamsKeepTwoEdges, CompleteTeam, Vertices
<1>7. TeamsKeepTwoEdges'
  BY <1>2, <1>5, <1>6 DEF TeamsKeepTwoEdges, CompleteTeam, NbEdges, IsTeam
<1>8. CompleteTeam(NbEdges(team) + Cardinality(todo))'
  <2>1. Cardinality(graph'.out[team']) = 0
    BY <1>2, FS_EmptySet
  <2>2. CompleteTeam(Cardinality(graph.out[r])) /\ Cardinality(graph.out[r]) \in Nat
    BY <1>5, <1>6, OutIsFinite DEF TypeInv, GraphInv, NbEdges
  <2>3. 0 + Cardinality(graph.out[r]) = Cardinality(graph.out[r])
    BY <2>2
  <2> QED BY <1>1, <2>1, <2>2, <2>3 DEF NbEdges, CompleteTeam
<1> QED BY <1>3, <1>7, <1>8 DEF CountInv

LEMMA CountInvRemoveRoot ==
    ASSUME TypeInv, CountInv, NEW v \in Vertex, RemoveRoot(v) PROVE CountInv'
<1>1. /\ Vertices(graph') = Vertices(graph) \ {v}
      /\ \A w \in Vertex \ {v} : graph'.kind[w] = graph.kind[w]
      /\ \A w \in Vertex \ {v} : graph'.out[w] = graph.out[w]
      /\ pc = "idle" /\ pc' = pc /\ team' = team
      /\ Vertices(graph) \subseteq Vertex
  BY RemoveRootStep DEF Vertices, populateVars
<1>2. ~ Initialising /\ ~ Initialising' /\ ~ Building' /\ pc' # "copy"
  BY <1>1 DEF Initialising, Building
<1>3. TeamsKeepTwoEdges'
  BY <1>1, <1>2 DEF CountInv, TeamsKeepTwoEdges, NbEdges, IsTeam
<1> QED BY <1>2, <1>3 DEF CountInv

(* The steps of populateTPG that leave the graph alone *)
LEMMA CountInvQuiet ==
    ASSUME CountInv, ~ Initialising, ~ Initialising', graph' = graph, ~ Building',
           \/ team' = team
           \/ Building /\ pc # "copy"
    PROVE  CountInv'
<1>1. TeamsKeepTwoEdges'
  BY DEF CountInv, CompleteTeam, TeamsKeepTwoEdges, NbEdges
<1>2. pc' # "copy"
  BY DEF Building
<1> QED BY <1>1, <1>2 DEF CountInv

LEMMA CountInvStep == ASSUME TypeInv, CountInv, [Next]_vars PROVE CountInv'
<1>1. CASE InitRandomTPG
  BY <1>1, CountInvClears DEF InitRandomTPG
<1>2. CASE PopulateTPG
  <2>1. CASE StartInit("populate")
    BY <2>1, CountInvClears
  <2>2. CASE pc' = "populate" /\ UNCHANGED <<graph, before, initVars, populateVars>>
    BY <1>2, <2>2, CountInvQuiet DEF PopulateTPG, Building, Initialising, populateVars
  <2> QED BY <1>2, <2>1, <2>2 DEF PopulateTPG
<1>3. CASE CopyPreExisting \/ EndLoop \/ MutateNewProgramBehaviors
  <2>1. graph' = graph /\ team' = team /\ ~ Building' /\ ~ Initialising /\ ~ Initialising'
    BY <1>3 DEF CopyPreExisting, EndLoop, MutateNewProgramBehaviors, Building, Initialising,
       teamVars, populateVars
  <2> QED BY <2>1, CountInvQuiet
<1>4. CASE EndPass
  <2>1. /\ graph' = graph /\ pc = "mutate"
        /\ \/ pc' = "loop"
           \/ pc' = pc /\ team' = team
    BY <1>4 DEF EndPass
  <2>2. CASE pc' = "loop"
    BY <2>1, <2>2, CountInvQuiet DEF Building, Initialising
  <2>3. CASE pc' = pc /\ team' = team
    BY <2>1, <2>3, UnchangedGraph, CountInvSame DEF Building
  <2> QED BY <2>1, <2>2, <2>3
<1>5. CASE UNCHANGED vars
  BY <1>5 DEF vars, CountInv, TeamsKeepTwoEdges, NbEdges, EdgesOfMade, Initialising, Building
<1> QED
  BY <1>1, <1>2, <1>3, <1>4, <1>5, CountInvMakeAction, CountInvMakeTeam, CountInvMakeProgram,
     CountInvMakeEdge, CountInvExtraEdge, CountInvNextTeam, CountInvCloneRoot, CountInvCopyEdge,
     CountInvRemoveRandomEdge, CountInvAddRandomEdge, CountInvMutate, CountInvRemoveRoot DEF Next

LEMMA CountInvInitially == Init => CountInv
<1> SUFFICES ASSUME Init PROVE CountInv
  OBVIOUS
<1>1. Vertices(graph) = {} /\ pc = "idle" /\ ~ Initialising /\ ~ Building
  BY EmptyEffect DEF Init, Initialising, Building
<1> QED BY <1>1 DEF CountInv, TeamsKeepTwoEdges

(* Every complete team has at least two edges, and as many at most as the parameters say:
   evaluateTeam never meets a team without edges. *)
THEOREM TeamsAlwaysKeepTwoEdges == Spec => []TeamsKeepTwoEdges
<1>1. CountInv => TeamsKeepTwoEdges
  BY DEF CountInv
<1>2. Init => TypeInv /\ CountInv
  BY TypeInvInit, CountInvInitially
<1>3. TypeInv /\ CountInv /\ [Next]_vars => (TypeInv /\ CountInv)'
  BY TypeInvStep, CountInvStep
<1> QED BY <1>1, <1>2, <1>3, PTL DEF Spec
-----------------------------------------------------------------------------
(* The edges to pick from. *)

(* The steps outside of populateTPG's copies and loop *)
OutsideOfLoop ==
    \/ InitRandomTPG \/ MakeAction \/ MakeTeam \/ MakeProgram \/ MakeEdge \/ ExtraEdge \/ NextTeam
    \/ PopulateTPG \/ \E v \in Vertex : RemoveRoot(v)

LEMMA OutsideOfLoopFacts ==
    ASSUME TypeInv, OutsideOfLoop
    PROVE  ~ Populating /\ ~ Populating' /\ UNCHANGED populateVars
<1>1. CASE InitRandomTPG
  BY <1>1 DEF InitRandomTPG, StartInit, Populating, Building
<1>2. CASE MakeAction
  BY <1>2 DEF MakeAction, Populating, Building
<1>3. CASE MakeTeam
  BY <1>3 DEF MakeTeam, Populating, Building
<1>4. CASE MakeProgram
  BY <1>4 DEF MakeProgram, Populating, Building
<1>5. CASE MakeEdge
  BY <1>5 DEF MakeEdge, Populating, Building
<1>6. CASE ExtraEdge
  <2>1. pc = "extra" /\ pc' = pc /\ UNCHANGED populateVars
    BY <1>6, Zenon DEF ExtraEdge
  <2> QED BY <2>1 DEF Populating, Building
<1>7. CASE NextTeam
  <2>1. /\ pc = "extra" /\ UNCHANGED populateVars
        /\ pc' = pc \/ pc' = resume
    BY <1>7, NextTeamEffect
  <2> QED BY <2>1 DEF TypeInv, MadeInv, Populating, Building
<1>8. CASE PopulateTPG
  BY <1>8 DEF PopulateTPG, StartInit, Populating, Building
<1>9. CASE \E v \in Vertex : RemoveRoot(v)
  BY <1>9 DEF RemoveRoot, Populating, Building
<1> QED BY <1>1, <1>2, <1>3, <1>4, <1>5, <1>6, <1>7, <1>8, <1>9 DEF OutsideOfLoop

LEMMA PickInvCopyPreExisting ==
    ASSUME TypeInv, CountInv, PickInv, CopyPreExisting PROVE PickInv'
<1>1. /\ ~ Building /\ ~ Building' /\ ~ Initialising
      /\ pre'.edges = Edges(graph) /\ pre'.roots = RootTeams(graph)
  BY DEF CopyPreExisting, Building, Initialising
<1>2. ASSUME NEW r \in RootTeams(graph) PROVE Edges(graph) # {}
  <2>1. r \in Vertices(graph) /\ r \in Vertex /\ IsTeam(graph, r)
    BY DEF RootTeams, RootVertices, Vertices
  <2>2. r # team
    BY <1>1, <2>1, QuietFacts, GraphAssumption
  <2>3. NbEdges(r) >= 2 /\ NbEdges(r) \in Nat
    BY <1>1, <2>1, <2>2, NbEdgesFacts DEF CountInv, TeamsKeepTwoEdges
  <2>4. graph.out[r] # {}
    BY <2>1, <2>3, NbEdgesFacts
  <2>5. graph.out[r] \subseteq Edges(graph)
    BY <2>1, WellFormedFacts DEF TypeInv, GraphInv
  <2> QED BY <2>4, <2>5
<1> QED BY <1>1, <1>2 DEF PickInv

LEMMA PickInvStep == ASSUME TypeInv, CountInv, PickInv, [Next]_vars PROVE PickInv'
<1>1. CASE CopyPreExisting
  BY <1>1, PickInvCopyPreExisting
<1>2. CASE CloneRoot
  <2>1. Populating /\ pre' = pre /\ pre.roots # {}
    BY <1>2 DEF CloneRoot, Populating
  <2> QED BY <2>1 DEF PickInv
<1>3. CASE ~ Populating'
  BY <1>3 DEF PickInv, Populating
<1>4. CASE Populating /\ pre' = pre /\ (Building' => Building)
  BY <1>4 DEF PickInv
<1>5. \/ CopyPreExisting \/ CloneRoot \/ ~ Populating'
      \/ Populating /\ pre' = pre /\ (Building' => Building)
  <2>1. CASE OutsideOfLoop
    BY <2>1, OutsideOfLoopFacts
  <2>2. CASE MutateNewProgramBehaviors
    BY <2>2 DEF MutateNewProgramBehaviors, Populating, Building
  <2>3. CASE \/ CopyEdge \/ RemoveRandomEdge \/ StopRemoving \/ AddRandomEdge \/ StopAdding
             \/ MutateOutgoingEdge \/ KeepOutgoingEdge \/ EndPass \/ EndLoop
    BY <2>3 DEF CopyEdge, RemoveRandomEdge, StopRemoving, AddRandomEdge, StopAdding,
       MutateOutgoingEdge, KeepOutgoingEdge, EndPass, EndLoop, Populating, Building, populateVars
  <2>4. CASE UNCHANGED vars
    BY <2>4 DEF vars, Populating, Building
  <2> QED BY <2>1, <2>2, <2>3, <2>4 DEF Next, OutsideOfLoop
<1> QED BY <1>1, <1>2, <1>3, <1>4, <1>5

(* "This code assumes that the set of pickable edge is never empty" (addRandomEdge): it is not,
   for the edges of a root that existed before neither leave the new team nor lead to it. *)
THEOREM PickableEdgesAreNeverEmpty == Spec => []PickableEdgesNeverEmpty
<1>1. ASSUME TypeInv, PickInv PROVE PickableEdgesNeverEmpty
  <2> SUFFICES ASSUME pc \in {"addFirst", "add"} PROVE PickableEdges # {}
    BY DEF PickableEdgesNeverEmpty
  <2>1. Building /\ Populating
    BY DEF Building, Populating
  <2>2. pre.edges # {}
    BY <1>1, <2>1 DEF PickInv
  <2>3. \A e \in pre.edges : graph.src[e] # team /\ graph.dst[e] # team
    BY <1>1, <2>1, TeamFacts
  <2> QED BY <2>2, <2>3 DEF PickableEdges
<1>2. Init => TypeInv /\ CountInv /\ PickInv
  <2>1. Init => PickInv
    BY DEF Init, PickInv, Populating, Building
  <2> QED BY <2>1, TypeInvInit, CountInvInitially
<1>3. TypeInv /\ CountInv /\ PickInv /\ [Next]_vars => (TypeInv /\ CountInv /\ PickInv)'
  BY TypeInvStep, CountInvStep, PickInvStep
<1> QED BY <1>1, <1>2, <1>3, PTL DEF Spec

-----------------------------------------------------------------------------
(* The programs listed for mutation. *)

LEMMA ProgramInvNone == ASSUME newPrograms' = {} PROVE ProgramInv'
BY DEF ProgramInv, NewProgramsArePrivate

LEMMA ProgramInvCloneRoot == ASSUME TypeInv, ProgramInv, CloneRoot PROVE ProgramInv'
<1>1. /\ graph'.prog = graph.prog /\ graph'.out = graph.out /\ Edges(graph') = Edges(graph)
      /\ graph.out[team'] = {}
  BY CloneRootEffect, PushVertexEffect DEF Kind
<1>2. newPrograms' = newPrograms /\ pre' = pre /\ pc' = "copy"
  BY CloneRootEffect
<1> QED BY <1>1, <1>2 DEF ProgramInv, NewProgramsArePrivate

LEMMA ProgramInvGetsEdge ==
    ASSUME TypeInv, ProgramInv, Building, pc # "mutate", pc' # "mutate",
           UNCHANGED <<pre, team, newPrograms>>,
           NEW e, NEW new, GetsEdge(e, new)
    PROVE  ProgramInv'
<1>1. /\ e \in pre.edges /\ new \in Edge \ Edges(graph)
      /\ Edges(graph') = Edges(graph) \cup {new}
      /\ graph'.out[team] = graph.out[team] \cup {new}
      /\ graph'.prog[new] = graph.prog[e]
      /\ \A f \in Edges(graph) : graph'.prog[f] = graph.prog[f]
  BY DEF GetsEdge
<1>2. pre.edges \subseteq Edges(graph) /\ graph.out[team] \subseteq Edges(graph)
  BY TeamFacts
<1>3. graph.prog[e] \notin newPrograms
  BY <1>1 DEF ProgramInv
<1>4. NewProgramsArePrivate'
  BY <1>1, <1>2, <1>3 DEF ProgramInv, NewProgramsArePrivate
<1>5. \A f \in pre.edges : graph'.prog[f] \notin newPrograms
  BY <1>1, <1>2 DEF ProgramInv
<1>6. \A f \in graph'.out[team] : graph'.prog[f] \notin newPrograms
  BY <1>1, <1>2, <1>3 DEF ProgramInv
<1> QED BY <1>4, <1>5, <1>6 DEF ProgramInv

LEMMA ProgramInvLosesEdge ==
    ASSUME TypeInv, ProgramInv, Building, pc # "mutate", pc' # "mutate",
           UNCHANGED <<pre, team, newPrograms>>,
           NEW e, LosesEdge(e)
    PROVE  ProgramInv'
<1>1. /\ e \in graph.out[team] /\ Edges(graph') = Edges(graph) \ {e}
      /\ graph'.out[team] = graph.out[team] \ {e}
      /\ \A f \in Edges(graph') : graph'.prog[f] = graph.prog[f]
  BY DEF LosesEdge
<1>2. /\ pre.edges \subseteq Edges(graph) /\ graph.out[team] \subseteq Edges(graph)
      /\ e \notin pre.edges
  BY <1>1, TeamFacts
<1>3. graph.prog[e] \notin newPrograms
  BY <1>1 DEF ProgramInv
<1>4. NewProgramsArePrivate'
  <2> SUFFICES ASSUME NEW p \in newPrograms
               PROVE  \E f \in Edges(graph') \ pre.edges :
                         /\ graph'.prog[f] = p
                         /\ \A h \in Edges(graph') : graph'.prog[h] = p => h = f
    BY DEF NewProgramsArePrivate
  <2>1. PICK f \in Edges(graph) \ pre.edges :
           /\ graph.prog[f] = p
           /\ \A h \in Edges(graph) : graph.prog[h] = p => h = f
    BY DEF ProgramInv, NewProgramsArePrivate
  <2>2. f # e
    BY <1>3, <2>1
  <2> QED BY <1>1, <2>1, <2>2
<1>5. \A f \in pre.edges : graph'.prog[f] \notin newPrograms
  BY <1>1, <1>2 DEF ProgramInv
<1>6. \A f \in graph'.out[team] : graph'.prog[f] \notin newPrograms
  BY <1>1, <1>2 DEF ProgramInv
<1> QED BY <1>4, <1>5, <1>6 DEF ProgramInv

LEMMA ProgramInvMutateOutgoingEdge ==
    ASSUME TypeInv, ProgramInv, MutateOutgoingEdge PROVE ProgramInv'
<1>1. PICK e \in todo, p \in Program, d \in Vertex :
         ChangesEdge(e, p, d) /\ todo' = todo \ {e} /\ newPrograms' = newPrograms \cup {p}
  BY MutateOutgoingEdgeEffect
<1>2. /\ pc = "mutate" /\ pc' = "mutate" /\ anyMutationDone' = TRUE /\ Building
      /\ pre' = pre /\ team' = team
  BY DEF MutateOutgoingEdge, Building
<1>3. /\ p \in FreeProgram /\ Edges(graph') = Edges(graph) /\ graph'.prog[e] = p
      /\ \A f \in Edges(graph) \ {e} : graph'.prog[f] = graph.prog[f]
      /\ e \in graph.out[team]
  BY <1>1 DEF ChangesEdge
<1>4. p \notin newPrograms /\ \A f \in Edges(graph) : graph.prog[f] # p
  BY <1>3 DEF FreeProgram
<1>5. e \in Edges(graph) \ pre.edges /\ pre.edges \subseteq Edges(graph) /\ todo \subseteq Edges(graph)
  BY <1>2, <1>3, TeamFacts DEF TypeInv, TeamInv
<1>6. graph.prog[e] \notin newPrograms
  BY <1>1, <1>2 DEF ProgramInv
<1>7. NewProgramsArePrivate'
  <2> SUFFICES ASSUME NEW q \in newPrograms \cup {p}
               PROVE  \E f \in Edges(graph') \ pre.edges :
                         /\ graph'.prog[f] = q
                         /\ \A h \in Edges(graph') : graph'.prog[h] = q => h = f
    BY <1>1, <1>2 DEF NewProgramsArePrivate
  <2>1. CASE q = p
    BY <1>3, <1>4, <1>5, <2>1
  <2>2. CASE q \in newPrograms
    <3>1. PICK f \in Edges(graph) \ pre.edges :
             /\ graph.prog[f] = q
             /\ \A h \in Edges(graph) : graph.prog[h] = q => h = f
      BY <2>2 DEF ProgramInv, NewProgramsArePrivate
    <3>2. f # e /\ q # p
      BY <1>4, <1>6, <2>2, <3>1
    <3> QED BY <1>3, <3>1, <3>2
  <2> QED BY <2>1, <2>2
<1>8. \A f \in pre.edges \cup todo' :
         graph'.prog[f] = graph.prog[f] /\ graph'.prog[f] \notin newPrograms'
  BY <1>1, <1>2, <1>3, <1>4, <1>5 DEF ProgramInv
<1> QED BY <1>2, <1>7, <1>8 DEF ProgramInv

(* The steps of mutateTPGTeam that leave the graph alone *)
LEMMA ProgramInvSame ==
    ASSUME ProgramInv, UNCHANGED <<graph, pre, newPrograms>>,
           \/ pc' = "loop" \/ pc' = "behave"
           \/ Building /\ pc # "mutate" /\ pc' # "mutate" /\ team' = team
           \/ Building /\ pc # "mutate" /\ pc' = "mutate" /\ team' = team /\ todo' = graph.out[team]
           \/ /\ pc = "mutate" /\ pc' = "mutate" /\ team' = team
              /\ anyMutationDone' = anyMutationDone
              /\ \/ todo' \subseteq todo
                 \/ ~ anyMutationDone /\ todo' = graph.out[team]
    PROVE  ProgramInv'
BY DEF ProgramInv, NewProgramsArePrivate, Building

LEMMA ProgramInvStep == ASSUME TypeInv, ProgramInv, [Next]_vars PROVE ProgramInv'
<1>1. CASE newPrograms' = {}
  BY <1>1, ProgramInvNone
<1>2. CASE CopyEdge
  <2>1. PICK e \in todo, new \in Edge : GetsEdge(e, new)
    BY <1>2, CopyEdgeEffect
  <2>2. Building /\ pc # "mutate" /\ pc' # "mutate" /\ UNCHANGED <<pre, team, newPrograms>>
    BY <1>2 DEF CopyEdge, Building
  <2> QED BY <2>1, <2>2, ProgramInvGetsEdge
<1>3. CASE AddRandomEdge
  <2>1. PICK e \in pre.edges, new \in Edge : GetsEdge(e, new)
    BY <1>3, AddRandomEdgeEffect
  <2>2. Building /\ pc # "mutate" /\ pc' # "mutate" /\ UNCHANGED <<pre, team, newPrograms>>
    BY <1>3 DEF AddRandomEdge, Building, populateVars
  <2> QED BY <2>1, <2>2, ProgramInvGetsEdge
<1>4. CASE RemoveRandomEdge
  <2>1. PICK e \in graph.out[team] : LosesEdge(e)
    BY <1>4, RemoveRandomEdgeEffect
  <2>2. Building /\ pc # "mutate" /\ pc' # "mutate" /\ UNCHANGED <<pre, team, newPrograms>>
    BY <1>4 DEF RemoveRandomEdge, Building, populateVars
  <2> QED BY <2>1, <2>2, ProgramInvLosesEdge
<1>5. CASE StopRemoving \/ EndLoop
  BY <1>5, ProgramInvSame DEF StopRemoving, EndLoop, Building, populateVars
<1>6. CASE StopAdding \/ KeepOutgoingEdge
  <2>1. CASE StopAdding
    BY <2>1, ProgramInvSame DEF StopAdding, Building
  <2>2. CASE KeepOutgoingEdge
    <3>1. /\ pc = "mutate" /\ pc' = "mutate" /\ todo' = todo \ {NextOf(todo)}
          /\ UNCHANGED <<graph, pre, team, newPrograms, anyMutationDone>>
      BY <2>2 DEF KeepOutgoingEdge
    <3>2. todo' \subseteq todo
      BY <3>1
    <3> QED BY <3>1, <3>2, ProgramInvSame
  <2> QED BY <1>6, <2>1, <2>2
<1>7. CASE EndPass
  BY <1>7, ProgramInvSame DEF EndPass
<1>8. CASE OutsideOfLoop
  <2>1. newPrograms' = {}
    BY <1>8, OutsideOfLoopFacts DEF TypeInv, PreInv, populateVars
  <2> QED BY <2>1, ProgramInvNone
<1>9. CASE MutateNewProgramBehaviors \/ CopyPreExisting
  BY <1>9, ProgramInvNone DEF MutateNewProgramBehaviors, CopyPreExisting
<1>10. CASE UNCHANGED vars
  BY <1>10 DEF vars, ProgramInv, NewProgramsArePrivate, Building
<1> QED BY <1>2, <1>3, <1>4, <1>5, <1>6, <1>7, <1>8, <1>9, <1>10, ProgramInvCloneRoot,
        ProgramInvMutateOutgoingEdge DEF Next, OutsideOfLoop

(* mutateNewProgramBehaviors mutates the listed programs in place, in parallel: each belongs to
   one edge, of a team that was not evaluated yet. *)
THEOREM NewProgramsAreAlwaysPrivate == Spec => []NewProgramsArePrivate
<1>1. ProgramInv => NewProgramsArePrivate
  BY DEF ProgramInv
<1>2. Init => TypeInv /\ ProgramInv
  BY TypeInvInit DEF Init, ProgramInv, NewProgramsArePrivate
<1>3. TypeInv /\ ProgramInv /\ [Next]_vars => (TypeInv /\ ProgramInv)'
  BY TypeInvStep, ProgramInvStep
<1> QED BY <1>1, <1>2, <1>3, PTL DEF Spec
-----------------------------------------------------------------------------
(* The number of roots. *)

LEMMA RootsAreFinite ==
    ASSUME NEW g, IsFiniteSet(Vertices(g))
    PROVE  IsFiniteSet(RootVertices(g)) /\ Cardinality(RootVertices(g)) \in Nat
<1>1. RootVertices(g) \in SUBSET Vertices(g)
  BY DEF RootVertices
<1> QED BY <1>1, FS_Subset, FS_CardinalityType

LEMMA TargetInvCloneRoot == ASSUME TypeInv, TargetInv, CloneRoot PROVE TargetInv'
<1>1. /\ team' \in Vertex /\ team' \notin Vertices(graph)
      /\ graph'.out = graph.out /\ graph'.in = graph.in
      /\ graph.out[team'] = {} /\ graph.in[team'] = {}
      /\ Vertices(graph') = Vertices(graph) \cup {team'}
  BY CloneRootEffect, PushVertexEffect DEF Kind
<1>2. /\ pc = "loop" /\ pc' = "copy" /\ pre' = pre /\ Building'
      /\ NbRoots > NbRootVertices
  BY CloneRootEffect DEF Building, TooFewRoots, NbRootVertices
<1>3. IsFiniteSet(RootVertices(graph)) /\ NbRootVertices \in Nat
  BY RootsAreFinite DEF TypeInv, GraphInv, NbRootVertices
<1>4. pre.nbRoots \in Nat /\ NbRoots \in Nat
  BY MutatorAssumption DEF TypeInv, PreInv, PreType
<1>5. RootVertices(graph') = RootVertices(graph) \cup {team'} /\ team' \notin RootVertices(graph)
  BY <1>1 DEF RootVertices
<1>6. Cardinality(RootVertices(graph')) = NbRootVertices + 1
  BY <1>3, <1>5, FS_AddElement DEF NbRootVertices
<1>7. pre.nbRoots < NbRoots
  BY <1>2, <1>3, <1>4 DEF TargetInv
<1>8. pre.nbRoots < NbRoots /\ Cardinality(RootVertices(graph')) <= NbRoots
  BY <1>2, <1>3, <1>4, <1>6, <1>7
<1>9. PopulateReachesTarget'
  BY <1>2 DEF PopulateReachesTarget
<1> QED BY <1>1, <1>2, <1>8, <1>9 DEF TargetInv, NbRootVertices

(* A step of mutateTPGTeam makes no root. *)
LEMMA TargetInvBuilding ==
    ASSUME TypeInv, TypeInv', TargetInv, Building, Building', UNCHANGED <<pre, team>>,
           RootVertices(graph') \subseteq RootVertices(graph),
           pc' # "mutate" => \A e \in graph'.out[team] : Shadowed(e)',
           pc' = "mutate" => \A e \in todo' : Shadowed(e)',
           pc' = "mutate" /\ ~ anyMutationDone' => \A e \in graph'.out[team] : Shadowed(e)'
    PROVE  TargetInv'
<1>1. /\ IsFiniteSet(RootVertices(graph)) /\ NbRootVertices \in Nat
      /\ Cardinality(RootVertices(graph')) \in Nat
  BY RootsAreFinite DEF TypeInv, GraphInv, NbRootVertices
<1>2. Cardinality(RootVertices(graph')) <= NbRootVertices
  BY <1>1, FS_Subset DEF NbRootVertices
<1>3. pre.nbRoots < NbRoots /\ NbRootVertices <= NbRoots /\ NbRoots \in Nat
  BY MutatorAssumption DEF TargetInv
<1>4. Cardinality(RootVertices(graph')) <= NbRoots
  BY <1>1, <1>2, <1>3
<1>5. PopulateReachesTarget' /\ pc' # "loop"
  BY DEF PopulateReachesTarget, Building
<1> QED BY <1>3, <1>4, <1>5 DEF TargetInv, NbRootVertices

LEMMA TargetInvGetsEdge ==
    ASSUME TypeInv, TypeInv', TargetInv, Building, Building', pc # "mutate", pc' # "mutate",
           UNCHANGED <<pre, team>>, NEW e, NEW new, GetsEdge(e, new)
    PROVE  TargetInv'
<1>1. /\ e \in pre.edges /\ new \in Edge \ Edges(graph)
      /\ Vertices(graph') = Vertices(graph)
      /\ graph'.out[team] = graph.out[team] \cup {new}
      /\ graph'.dst[new] = graph.dst[e]
      /\ \A f \in Edges(graph) : graph'.dst[f] = graph.dst[f]
      /\ graph'.in[graph.dst[e]] = graph.in[graph.dst[e]] \cup {new}
      /\ \A v \in Vertex \ {graph.dst[e]} : graph'.in[v] = graph.in[v]
  BY DEF GetsEdge, OnlyTeamChanges
<1>2. pre.edges \subseteq Edges(graph) /\ graph.out[team] \subseteq Edges(graph)
  BY TeamFacts
<1>3. RootVertices(graph') \subseteq RootVertices(graph)
  BY <1>1 DEF RootVertices, Vertices
<1>4. \A f \in graph'.out[team] : Shadowed(f)'
  BY <1>1, <1>2 DEF TargetInv, Shadowed
<1> QED BY <1>3, <1>4, TargetInvBuilding

LEMMA TargetInvLosesEdge ==
    ASSUME TypeInv, TypeInv', TargetInv, Building, Building', pc # "mutate", pc' # "mutate",
           UNCHANGED <<pre, team>>, NEW e, LosesEdge(e)
    PROVE  TargetInv'
<1>1. /\ e \in graph.out[team]
      /\ Vertices(graph') = Vertices(graph) /\ Edges(graph') = Edges(graph) \ {e}
      /\ graph'.out[team] = graph.out[team] \ {e}
      /\ \A f \in Edges(graph') : graph'.dst[f] = graph.dst[f]
      /\ graph'.in[graph.dst[e]] = graph.in[graph.dst[e]] \ {e}
      /\ \A v \in Vertex \ {graph.dst[e]} : graph'.in[v] = graph.in[v]
  BY DEF LosesEdge, OnlyTeamChanges
<1>2. /\ pre.edges \subseteq Edges(graph) \ {e} /\ graph.out[team] \subseteq Edges(graph)
      /\ graph.dst[e] \in Vertices(graph)
  BY <1>1, TeamFacts, WellFormedFacts DEF TypeInv, GraphInv
<1>3. PICK f \in pre.edges : graph.dst[f] = graph.dst[e]
  BY <1>1 DEF TargetInv, Shadowed
<1>4. f \in graph'.in[graph.dst[e]]
  <2>1. f \in graph.in[graph.dst[e]]
    BY <1>2, <1>3, WellFormedFacts DEF TypeInv, GraphInv
  <2> QED BY <1>1, <1>2, <2>1
<1>5. RootVertices(graph') \subseteq RootVertices(graph)
  BY <1>1, <1>4 DEF RootVertices, Vertices
<1>6. \A h \in graph'.out[team] : Shadowed(h)'
  BY <1>1, <1>2 DEF TargetInv, Shadowed
<1> QED BY <1>5, <1>6, TargetInvBuilding

LEMMA TargetInvMutateOutgoingEdge ==
    ASSUME TypeInv, TypeInv', TargetInv, MutateOutgoingEdge PROVE TargetInv'
<1>1. PICK e \in todo, p \in Program, d \in Vertex : ChangesEdge(e, p, d) /\ todo' = todo \ {e}
  BY MutateOutgoingEdgeEffect
<1>2. /\ pc = "mutate" /\ pc' = "mutate" /\ anyMutationDone' = TRUE /\ Building /\ Building'
      /\ UNCHANGED <<pre, team>>
  BY DEF MutateOutgoingEdge, Building
<1>3. /\ e \in graph.out[team]
      /\ Vertices(graph') = Vertices(graph)
      /\ \A f \in Edges(graph) \ {e} : graph'.dst[f] = graph.dst[f]
      /\ \A v \in Vertex : graph'.in[v] \ {e} = graph.in[v] \ {e}
  BY <1>1 DEF ChangesEdge, OnlyTeamChanges
<1>4. pre.edges \subseteq Edges(graph) \ {e} /\ todo \subseteq Edges(graph) /\ e \in Edges(graph)
  BY <1>2, <1>3, TeamFacts DEF TypeInv, TeamInv
<1>5. PICK f \in pre.edges : graph.dst[f] = graph.dst[e]
  BY <1>1, <1>2 DEF TargetInv, Shadowed
<1>6. ASSUME NEW v \in RootVertices(graph') PROVE v \in RootVertices(graph)
  <2>1. v \in Vertices(graph) /\ v \in Vertex /\ graph'.in[v] = {} /\ graph.in[v] \ {e} = {}
    BY <1>3 DEF RootVertices, Vertices
  <2>2. e \in graph.in[v] => f \in graph.in[v]
    <3>1. WellFormed(graph) /\ v \in Vertex /\ e \in Edges(graph) /\ f \in Edges(graph)
      BY <1>4, <2>1 DEF TypeInv, GraphInv
    <3>2. /\ e \in graph.in[v] <=> graph.dst[e] = v
          /\ f \in graph.in[v] <=> graph.dst[f] = v
      BY <3>1 DEF WellFormed, EdgeListsAgree
    <3> QED BY <1>5, <3>2
  <2>3. graph.in[v] = {}
    BY <1>4, <2>1, <2>2
  <2> QED BY <2>1, <2>3 DEF RootVertices
<1>7. \A h \in todo' : Shadowed(h)'
  BY <1>1, <1>2, <1>3, <1>4 DEF TargetInv, Shadowed
<1> QED BY <1>2, <1>6, <1>7, TargetInvBuilding

(* The steps that leave the graph alone *)
LEMMA TargetInvSame ==
    ASSUME TypeInv, TypeInv', TargetInv, UNCHANGED <<graph, pre, team>>, Building, Building',
           \/ pc # "mutate" /\ pc' # "mutate"
           \/ pc # "mutate" /\ pc' = "mutate" /\ todo' = graph.out[team]
           \/ /\ pc = "mutate" /\ pc' = "mutate" /\ anyMutationDone' = anyMutationDone
              /\ \/ todo' \subseteq todo
                 \/ ~ anyMutationDone /\ todo' = graph.out[team]
    PROVE  TargetInv'
<1>1. /\ pc' # "mutate" => \A e \in graph'.out[team] : Shadowed(e)'
      /\ pc' = "mutate" => \A e \in todo' : Shadowed(e)'
      /\ pc' = "mutate" /\ ~ anyMutationDone' => \A e \in graph'.out[team] : Shadowed(e)'
  BY DEF TargetInv, Shadowed
<1> QED BY <1>1, TargetInvBuilding

LEMMA TargetInvStep == ASSUME TypeInv, TypeInv', TargetInv, [Next]_vars PROVE TargetInv'
<1>1. CASE OutsideOfLoop \/ MutateNewProgramBehaviors
  <2>1. ~ Populating'
    BY <1>1, OutsideOfLoopFacts DEF MutateNewProgramBehaviors, Populating, Building
  <2> QED BY <2>1 DEF TargetInv, PopulateReachesTarget, Populating, Building
<1>2. CASE CopyPreExisting
  <2>1. pc' = "loop" /\ ~ Building' /\ graph' = graph /\ pre'.nbRoots = NbRootVertices
    BY <1>2 DEF CopyPreExisting, Building, NbRootVertices
  <2>2. NbRootVertices \in Nat /\ NbRoots \in Nat
    BY RootsAreFinite, MutatorAssumption DEF TypeInv, GraphInv, NbRootVertices
  <2>3. pre'.nbRoots >= NbRoots \/ NbRootVertices <= NbRoots
    BY <2>1, <2>2
  <2> QED BY <2>1, <2>3 DEF TargetInv, PopulateReachesTarget, NbRootVertices
<1>3. CASE CopyEdge
  <2>1. PICK e \in todo, new \in Edge : GetsEdge(e, new)
    BY <1>3, CopyEdgeEffect
  <2>2. Building /\ Building' /\ pc # "mutate" /\ pc' # "mutate" /\ UNCHANGED <<pre, team>>
    BY <1>3 DEF CopyEdge, Building
  <2> QED BY <2>1, <2>2, TargetInvGetsEdge
<1>4. CASE AddRandomEdge
  <2>1. PICK e \in pre.edges, new \in Edge : GetsEdge(e, new)
    BY <1>4, AddRandomEdgeEffect
  <2>2. Building /\ Building' /\ pc # "mutate" /\ pc' # "mutate" /\ UNCHANGED <<pre, team>>
    BY <1>4 DEF AddRandomEdge, Building, populateVars
  <2> QED BY <2>1, <2>2, TargetInvGetsEdge
<1>5. CASE RemoveRandomEdge
  <2>1. PICK e \in graph.out[team] : LosesEdge(e)
    BY <1>5, RemoveRandomEdgeEffect
  <2>2. Building /\ Building' /\ pc # "mutate" /\ pc' # "mutate" /\ UNCHANGED <<pre, team>>
    BY <1>5 DEF RemoveRandomEdge, Building, populateVars
  <2> QED BY <2>1, <2>2, TargetInvLosesEdge
<1>6. CASE StopRemoving
  BY <1>6, TargetInvSame DEF StopRemoving, Building, populateVars
<1>7. CASE StopAdding
  BY <1>7, TargetInvSame DEF StopAdding, Building
<1>8. CASE KeepOutgoingEdge
  <2>1. /\ pc = "mutate" /\ pc' = "mutate" /\ todo' = todo \ {NextOf(todo)} /\ Building /\ Building'
        /\ UNCHANGED <<graph, pre, team, anyMutationDone>>
    BY <1>8 DEF KeepOutgoingEdge, Building
  <2>2. todo' \subseteq todo
    BY <2>1
  <2> QED BY <2>1, <2>2, TargetInvSame
<1>9. CASE EndPass
  <2>1. graph' = graph /\ pre' = pre /\ pc = "mutate" /\ Building
    BY <1>9 DEF EndPass, Building
  <2>2. CASE pc' = "loop"
    <3>1. NbRoots \in Nat /\ pre.nbRoots \in Nat /\ pre.nbRoots < NbRoots /\ NbRootVertices <= NbRoots
      BY <2>1, MutatorAssumption DEF TargetInv, TypeInv, PreInv, PreType
    <3>2. ~ (pre.nbRoots >= NbRoots)
      BY <3>1
    <3> QED BY <2>1, <2>2, <3>1, <3>2
            DEF TargetInv, PopulateReachesTarget, NbRootVertices, Building
  <2>3. CASE ~ anyMutationDone /\ todo' = graph.out[team] /\ UNCHANGED <<pc, team, anyMutationDone>>
    BY <2>1, <2>3, TargetInvSame DEF Building
  <2> QED BY <1>9, <2>2, <2>3 DEF EndPass
<1>10. CASE EndLoop
  <2>1. /\ pc = "loop" /\ pc' = "behave" /\ graph' = graph /\ pre' = pre /\ ~ Building'
        /\ ~ (NbRoots > NbRootVertices)
    BY <1>10 DEF EndLoop, TooFewRoots, NbRootVertices, Building, populateVars
  <2>2. NbRootVertices \in Nat /\ NbRoots \in Nat /\ pre.nbRoots \in Nat
    BY RootsAreFinite, MutatorAssumption
    DEF TypeInv, GraphInv, PreInv, PreType, NbRootVertices
  <2>3. IF pre.nbRoots >= NbRoots THEN NbRootVertices = pre.nbRoots ELSE NbRootVertices <= NbRoots
    BY <2>1 DEF TargetInv
  <2>4. NbRootVertices = IF pre.nbRoots > NbRoots THEN pre.nbRoots ELSE NbRoots
    BY <2>1, <2>2, <2>3
  <2> QED BY <2>1, <2>4 DEF TargetInv, PopulateReachesTarget, NbRootVertices
<1>11. CASE UNCHANGED vars
  BY <1>11 DEF vars, TargetInv, PopulateReachesTarget, NbRootVertices, Shadowed, Building
<1> QED BY <1>1, <1>2, <1>3, <1>4, <1>5, <1>6, <1>7, <1>8, <1>9, <1>10, <1>11, TargetInvCloneRoot,
        TargetInvMutateOutgoingEdge DEF Next, OutsideOfLoop

(* populateTPG ends with the number of roots asked for, or with those it found when they were
   more: a mutation of the new team never gives the graph another root, because what an edge
   of the team leaves is a vertex that a pre-existing edge leads to. *)
THEOREM PopulateAlwaysReachesTarget == Spec => []PopulateReachesTarget
<1>1. TargetInv => PopulateReachesTarget
  BY DEF TargetInv
<1>2. Init => TypeInv /\ TargetInv
  BY TypeInvInit DEF Init, TargetInv, PopulateReachesTarget, Building
<1>3. TypeInv /\ TargetInv /\ [Next]_vars => (TypeInv /\ TargetInv)'
  BY TypeInvStep, TargetInvStep
<1> QED BY <1>1, <1>2, <1>3, PTL DEF Spec
-----------------------------------------------------------------------------
(* What initRandomTPG builds. *)

LEMMA SeenInvMakeAction == ASSUME TypeInv, SeenInv, MakeAction PROVE SeenInv'
<1>1. /\ pc = "actions" /\ made \in MadeType /\ pc' \in {"actions", "teams"} /\ ~ Building'
      /\ Initialising
  BY DEF MakeAction, TypeInv, MadeInv, Building, Initialising
<1> DEFINE k == Actions[Len(made.actions) + 1]
<1>2. k \in ActionID
  BY <1>1, MutatorAssumption, ElementOfSeq
  DEF TypeInv, MadeInv, MadeType, MadeLengths, NbActions
<1>3. PICK v \in Allocate(FreeVertex) :
         PushVertex(v, k) /\ made' = [made EXCEPT !.actions = Append(@, v)]
  BY DEF MakeAction
<1> HIDE DEF k
<1>4. /\ Vertices(graph') = Vertices(graph) \cup {v} /\ Edges(graph') = Edges(graph)
      /\ graph'.dst = graph.dst
      /\ v \in Vertex /\ v \notin Vertices(graph)
      /\ \A w \in Vertex \ {v} : graph'.kind[w] = graph.kind[w]
      /\ Vertices(graph) \subseteq Vertex
  BY <1>2, <1>3, PushVertexEffect DEF Kind, Vertices
<1> DEFINE n == Len(made.actions) + 1
<1>5. /\ DOMAIN made'.actions = DOMAIN made.actions \cup {n}
      /\ \A i \in DOMAIN made.actions : made'.actions[i] = made.actions[i]
      /\ made'.actions[n] = v
  BY <1>1, <1>3, <1>4, AppendFacts DEF MadeType
<1> HIDE DEF n
<1>6. \A i \in DOMAIN made.actions : made.actions[i] \in Vertices(graph)
  BY <1>4, MadeVerticesStay
<1>7. \A i, j \in DOMAIN made'.actions : made'.actions[i] = made'.actions[j] => i = j
  BY <1>4, <1>5, <1>6 DEF SeenInv
<1>8. ASSUME NEW w \in Vertices(graph'), IsAction(graph', w)
      PROVE  \E l \in DOMAIN made'.actions : made'.actions[l] = w
  <2>1. CASE w = v
    BY <1>5, <2>1
  <2>2. CASE w # v
    <3>1. w \in Vertices(graph) /\ IsAction(graph, w)
      BY <1>4, <1>8, <2>2 DEF IsAction
    <3> QED BY <1>1, <1>5, <3>1 DEF SeenInv
  <2> QED BY <2>1, <2>2
<1>9. \A e \in Edges(graph') : IsAction(graph', graph'.dst[e])
  <2>1. \A e \in Edges(graph) : IsAction(graph, graph.dst[e]) /\ graph.dst[e] \in Vertices(graph)
    BY <1>1, WellFormedFacts DEF SeenInv, TypeInv, GraphInv
  <2> QED BY <1>4, <2>1 DEF IsAction
<1>10. pc' # "extra" /\ pc' # "edges"
  BY <1>1
<1> QED BY <1>1, <1>7, <1>8, <1>9, <1>10 DEF SeenInv

LEMMA SeenInvMakeTeam == ASSUME TypeInv, SeenInv, MakeTeam PROVE SeenInv'
<1>1. /\ pc = "teams" /\ made \in MadeType /\ pc' \in {"teams", "programs"} /\ ~ Building'
      /\ Initialising
  BY DEF MakeTeam, TypeInv, MadeInv, Building, Initialising
<1>2. PICK v \in Allocate(FreeVertex) :
         PushVertex(v, "team") /\ made' = [made EXCEPT !.teams = Append(@, v)]
  BY DEF MakeTeam
<1>3. /\ Vertices(graph') = Vertices(graph) \cup {v} /\ Edges(graph') = Edges(graph)
      /\ graph'.dst = graph.dst
      /\ v \in Vertex /\ v \notin Vertices(graph) /\ graph'.kind[v] = "team"
      /\ \A w \in Vertex \ {v} : graph'.kind[w] = graph.kind[w]
      /\ Vertices(graph) \subseteq Vertex
  BY <1>2, PushVertexEffect DEF Kind, Vertices
<1>4. made'.actions = made.actions
  BY <1>1, <1>2 DEF MadeType
<1>5. \A w \in Vertices(graph') :
         IsAction(graph', w) => w \in Vertices(graph) /\ IsAction(graph, w)
  BY <1>3, GraphAssumption DEF IsAction
<1>6. \A e \in Edges(graph') : IsAction(graph', graph'.dst[e])
  <2>1. \A e \in Edges(graph) : IsAction(graph, graph.dst[e]) /\ graph.dst[e] \in Vertices(graph)
    BY <1>1, WellFormedFacts DEF SeenInv, TypeInv, GraphInv
  <2> QED BY <1>3, <2>1 DEF IsAction
<1>7. pc' # "extra" /\ pc' # "edges"
  BY <1>1
<1> QED BY <1>1, <1>4, <1>5, <1>6, <1>7 DEF SeenInv

LEMMA SeenInvMakeProgram == ASSUME TypeInv, SeenInv, MakeProgram PROVE SeenInv'
<1>1. /\ pc = "programs" /\ pc' \in {"programs", "edges"} /\ graph' = graph
      /\ made'.actions = made.actions /\ made'.edges = 0
      /\ Initialising /\ ~ Building'
  BY DEF MakeProgram, TypeInv, MadeInv, MadeType, MadeLengths, Initialising, Building
<1>2. \A i \in 0 .. 2 * NbActions - 1 : ~ (i < made'.edges)
  BY <1>1
<1>3. pc' # "extra"
  BY <1>1
<1> QED BY <1>1, <1>2, <1>3 DEF SeenInv

(* An edge to an action is one more edge to an action. *)
LEMMA SeenInvAddsEdge ==
    ASSUME TypeInv, SeenInv, Initialising, ~ Building',
           NEW i \in DOMAIN made.teams, NEW j \in DOMAIN made.actions, NEW e, NEW p,
           AddsEdge(e, made.teams[i], made.actions[j], p),
           made'.teams = made.teams, made'.actions = made.actions,
           \A k \in 0 .. 2 * NbActions - 1 :
              pc' = "extra" \/ (pc' = "edges" /\ k < made'.edges) =>
                 \/ pc = "extra" \/ (pc = "edges" /\ k < made.edges)
                 \/ /\ i = (k \div 2) + 1
                    /\ j = ((((k \div 2) + (k % 2)) % NbActions)) + 1
    PROVE  SeenInv'
<1>1. /\ graph'.kind = graph.kind /\ Vertices(graph') = Vertices(graph)
      /\ Edges(graph') = Edges(graph) \cup {e} /\ e \notin Edges(graph)
      /\ graph'.dst[e] = made.actions[j] /\ IsAction(graph, made.actions[j])
      /\ \A f \in Edges(graph) : graph'.dst[f] = graph.dst[f]
      /\ graph'.out[made.teams[i]] = graph.out[made.teams[i]] \cup {e}
      /\ \A v \in Vertex \ {made.teams[i]} : graph'.out[v] = graph.out[v]
  BY DEF AddsEdge
<1>2. \A v \in Vertex : graph.out[v] \subseteq Edges(graph)
  BY WellFormedFacts DEF TypeInv, GraphInv
<1>3. \A e2 \in Edges(graph') : IsAction(graph', graph'.dst[e2])
  BY <1>1 DEF SeenInv, IsAction
<1>4. ASSUME NEW t, NEW a, t \in Vertex, LeadsTo(t, a)
      PROVE  \E f \in graph'.out[t] : graph'.dst[f] = a
  BY <1>1, <1>2, <1>4 DEF LeadsTo
<1>5. \E f \in graph'.out[made.teams[i]] : graph'.dst[f] = made.actions[j]
  BY <1>1
<1>6. \A k \in 0 .. 2 * NbActions - 1 :
         pc \in {"edges", "extra"} => made.teams[(k \div 2) + 1] \in Vertex
  <2>1. NbActions \in Nat /\ InitNbRoots \in Nat /\ InitNbRoots >= NbActions
    BY MutatorAssumption
  <2>2. SUFFICES ASSUME NEW k \in 0 .. 2 * NbActions - 1, pc \in {"edges", "extra"}
                 PROVE  made.teams[(k \div 2) + 1] \in Vertex
    OBVIOUS
  <2>3. k \in Nat /\ k < 2 * InitNbRoots
    BY <2>1
  <2>4. (k \div 2) + 1 \in 1 .. InitNbRoots
    BY <2>3, IndicesInRange
  <2>5. made.teams \in Seq(Vertex) /\ Len(made.teams) = InitNbRoots
    BY <2>2 DEF TypeInv, MadeInv, MadeType, MadeLengths
  <2> QED BY <2>4, <2>5, ElementOfSeq
<1>7. ASSUME NEW k \in 0 .. 2 * NbActions - 1,
             pc' = "extra" \/ (pc' = "edges" /\ k < made'.edges)
      PROVE  LeadsTo(made.teams[(k \div 2) + 1],
                     made.actions[((((k \div 2) + (k % 2)) % NbActions)) + 1])'
  <2>1. CASE pc = "extra" \/ (pc = "edges" /\ k < made.edges)
    <3>1. LeadsTo(made.teams[(k \div 2) + 1],
                  made.actions[((((k \div 2) + (k % 2)) % NbActions)) + 1])
      BY <2>1 DEF SeenInv
    <3>2. made.teams[(k \div 2) + 1] \in Vertex
      BY <1>6, <2>1
    <3> QED BY <1>4, <3>1, <3>2 DEF LeadsTo
  <2>2. CASE /\ i = (k \div 2) + 1
             /\ j = ((((k \div 2) + (k % 2)) % NbActions)) + 1
    BY <1>5, <2>2 DEF LeadsTo
  <2> QED BY <1>7, <2>1, <2>2
<1>8. \A v \in Vertices(graph') : IsAction(graph', v) => IsAction(graph, v) /\ v \in Vertices(graph)
  BY <1>1 DEF IsAction
<1> QED BY <1>3, <1>7, <1>8 DEF SeenInv

LEMMA SeenInvMakeEdge == ASSUME TypeInv, SeenInv, MakeEdge PROVE SeenInv'
<1> DEFINE h == made.edges
<1>1. /\ pc = "edges" /\ Initialising /\ ~ Building' /\ h \in Nat
      /\ pc' = IF h + 1 < 2 * InitNbRoots THEN "edges" ELSE "extra"
  BY DEF MakeEdge, Initialising, Building, TypeInv, MadeInv, MadeType
<1>2. made'.teams = made.teams /\ made'.actions = made.actions /\ made'.edges = h + 1
  BY DEF MakeEdge, TypeInv, MadeInv, MadeType
<1>3. (h \div 2) + 1 \in DOMAIN made.teams
  BY MakeEdgeEffect
<1>4. PICK e \in Edge, j \in DOMAIN made.actions, p \in Program :
         /\ AddsEdge(e, made.teams[(h \div 2) + 1], made.actions[j], p)
         /\ h < 2 * NbActions => j = (((h \div 2) + (h % 2)) % NbActions) + 1
  BY MakeEdgeEffect
<1>5. NbActions \in Nat /\ InitNbRoots \in Nat /\ InitNbRoots >= NbActions
  BY MutatorAssumption
<1> HIDE DEF h
<1>6. \A k \in 0 .. 2 * NbActions - 1 :
         pc' = "extra" \/ (pc' = "edges" /\ k < made'.edges) => k < h \/ k = h
  BY <1>1, <1>2, <1>5
<1>7. \A k \in 0 .. 2 * NbActions - 1 :
         pc' = "extra" \/ (pc' = "edges" /\ k < made'.edges) =>
            \/ pc = "extra" \/ (pc = "edges" /\ k < made.edges)
            \/ /\ (h \div 2) + 1 = (k \div 2) + 1
               /\ j = ((((k \div 2) + (k % 2)) % NbActions)) + 1
  <2> SUFFICES ASSUME NEW k \in 0 .. 2 * NbActions - 1,
                      pc' = "extra" \/ (pc' = "edges" /\ k < made'.edges), ~ (k < h)
               PROVE  /\ (h \div 2) + 1 = (k \div 2) + 1
                      /\ j = ((((k \div 2) + (k % 2)) % NbActions)) + 1
    BY <1>1 DEF h
  <2>1. k = h /\ h < 2 * NbActions
    BY <1>1, <1>5, <1>6
  <2> QED BY <1>4, <2>1
<1> QED BY <1>1, <1>2, <1>3, <1>4, <1>7, SeenInvAddsEdge

LEMMA SeenInvExtraEdge == ASSUME TypeInv, SeenInv, ExtraEdge PROVE SeenInv'
<1>1. pc = "extra" /\ Initialising /\ ~ Building'
  BY DEF ExtraEdge, Initialising, Building
<1>2. made'.teams = made.teams /\ made'.actions = made.actions
  BY DEF ExtraEdge, TypeInv, MadeInv, MadeType
<1>3. made.current \in DOMAIN made.teams
  BY ExtraEdgeEffect
<1>4. PICK e \in Edge, j \in DOMAIN made.actions, p \in Program :
         AddsEdge(e, made.teams[made.current], made.actions[j], p)
  BY ExtraEdgeEffect
<1> QED BY <1>1, <1>2, <1>3, <1>4, SeenInvAddsEdge

(* Without a graph being initialised or a team being built, nothing is left to say. *)
LEMMA SeenInvNone ==
    ASSUME made' = NothingMade, ~ Initialising', ~ Building'
    PROVE  SeenInv'
BY DEF SeenInv, NothingMade, Initialising

LEMMA SeenInvNextTeam == ASSUME TypeInv, SeenInv, NextTeam PROVE SeenInv'
<1>1. pc = "extra" /\ graph' = graph /\ resume \in {"idle", "populate"}
  BY NextTeamEffect DEF TypeInv, MadeInv
<1>2. CASE pc' = pc /\ made'.actions = made.actions /\ made'.teams = made.teams
  BY <1>1, <1>2 DEF SeenInv, LeadsTo, Initialising, Building
<1>3. CASE made' = NothingMade /\ pc' = resume
  BY <1>1, <1>3, SeenInvNone DEF Initialising, Building
<1> QED BY <1>2, <1>3, NextTeamEffect

LEMMA SeenInvClears == ASSUME NEW then, StartInit(then) PROVE SeenInv'
<1>1. Vertices(graph') = {} /\ Edges(graph') = {} /\ made'.actions = <<>> /\ pc' = "actions"
  BY EmptyEffect DEF StartInit, NothingMade
<1> QED BY <1>1 DEF SeenInv, Building

-----------------------------------------------------------------------------
(* The steps of the mutator, seen by the LearningAgent. *)

(* The vertices of C, as Population sees them in the graph g *)
View(C, g) ==
    [teams |-> {v \in C : IsTeam(g, v)},
     actions |-> {v \in C : IsAction(g, v)},
     kids |-> [v \in Vertex |-> IF v \in C THEN {g.dst[e] : e \in g.out[v]} ELSE {}]]

LEMMA SeenIsView == SeenPopulation = View(Complete, graph)
BY DEF SeenPopulation, View

LEMMA SeenIsViewNext == SeenPopulation' = View(Complete', graph')
BY DEF SeenPopulation, View, Complete, Initialising

LEMMA ViewSame ==
    ASSUME NEW C, NEW g, NEW h,
           \A v \in C : /\ g.kind[v] = h.kind[v]
                        /\ g.out[v] = h.out[v]
                        /\ \A e \in g.out[v] : g.dst[e] = h.dst[e]
    PROVE  View(C, g) = View(C, h)
<1>1. /\ \A v \in C : IsTeam(g, v) <=> IsTeam(h, v)
      /\ \A v \in C : IsAction(g, v) <=> IsAction(h, v)
  BY DEF IsTeam, IsAction
<1>2. \A v \in C : {g.dst[e] : e \in g.out[v]} = {h.dst[e] : e \in h.out[v]}
  OBVIOUS
<1> QED BY <1>1, <1>2 DEF View

LEMMA ViewOfNothing == ASSUME NEW g PROVE View({}, g) = Promise!EmptyPopulation
BY DEF View, Promise!EmptyPopulation

LEMMA NothingSeen ==
    /\ Initialising => SeenPopulation = Promise!EmptyPopulation
    /\ Initialising' => SeenPopulation' = Promise!EmptyPopulation
<1>1. Initialising => Complete = {}
  BY DEF Complete
<1>2. Initialising' => Complete' = {}
  BY DEF Complete
<1> QED BY <1>1, <1>2, SeenIsView, SeenIsViewNext, ViewOfNothing

(* The roots that are seen are those of the graph. *)
LEMMA RootsSeen ==
    ASSUME WellFormed(graph), ~ Initialising, team \notin Vertices(graph)
    PROVE  Promise!RootsOf(SeenPopulation) = RootVertices(graph)
<1>1. Complete = Vertices(graph) /\ Vertices(graph) \subseteq Vertex
  BY DEF Complete, Vertices
<1> DEFINE p == View(Vertices(graph), graph)
<1>2. SeenPopulation = p
  BY <1>1, SeenIsView
<1>3. /\ p.teams = {v \in Vertices(graph) : IsTeam(graph, v)}
      /\ p.actions = {v \in Vertices(graph) : IsAction(graph, v)}
      /\ \A v \in Vertices(graph) : p.kids[v] = {graph.dst[e] : e \in graph.out[v]}
  BY <1>1 DEF View
<1>4. Promise!Alive(p) = Vertices(graph)
  BY <1>3, WellFormedFacts DEF Promise!Alive
<1> HIDE DEF p
<1>5. ASSUME NEW v \in Vertices(graph)
      PROVE  graph.in[v] = {} <=> \A t \in p.teams : v \notin p.kids[t]
  <2>1. ASSUME NEW e \in graph.in[v]
        PROVE  \E t \in p.teams : v \in p.kids[t]
    <3>1. e \in Edges(graph) /\ graph.dst[e] = v /\ v \in Vertex
      BY <1>1, <2>1 DEF WellFormed, EdgeListsAgree
    <3>2. /\ graph.src[e] \in Vertices(graph) /\ IsTeam(graph, graph.src[e])
          /\ e \in graph.out[graph.src[e]]
      BY <1>1, <3>1, WellFormedFacts DEF WellFormed, EdgeListsAgree
    <3>3. graph.src[e] \in p.teams /\ v \in p.kids[graph.src[e]]
      BY <1>3, <3>1, <3>2
    <3> QED BY <3>3
  <2>2. ASSUME NEW t \in p.teams, v \in p.kids[t]
        PROVE  graph.in[v] # {}
    <3>1. t \in Vertices(graph) /\ t \in Vertex
      BY <1>1, <1>3
    <3>2. PICK e \in graph.out[t] : graph.dst[e] = v
      BY <1>3, <2>2, <3>1
    <3>3. e \in Edges(graph) /\ v \in Vertex
      BY <1>1, <3>1, <3>2, WellFormedFacts
    <3>4. e \in graph.in[v]
      BY <3>2, <3>3 DEF WellFormed, EdgeListsAgree
    <3> QED BY <3>4
  <2> QED BY <2>1, <2>2
<1> QED BY <1>2, <1>4, <1>5 DEF Promise!RootsOf, RootVertices

(* mutateTPGTeam changes nothing that is seen. *)
LEMMA SeenBuilding ==
    ASSUME TypeInv, Building, Building', OnlyTeamChanges, team' = team
    PROVE  SeenPopulation' = SeenPopulation
<1> DEFINE C == Vertices(graph) \ {team}
<1>1. Complete = C /\ Complete' = C
  BY DEF Complete, Building, Initialising, OnlyTeamChanges
<1>2. \A v \in C : /\ graph'.kind[v] = graph.kind[v]
                   /\ graph'.out[v] = graph.out[v]
                   /\ \A e \in graph'.out[v] : graph'.dst[e] = graph.dst[e]
  <2>1. \A v \in C : v \in Vertex /\ graph'.out[v] = graph.out[v]
    BY DEF OnlyTeamChanges, Vertices
  <2>2. \A v \in C : \A e \in graph.out[v] : e \in Edges(graph) /\ graph.src[e] # team
    BY <2>1 DEF TypeInv, GraphInv, WellFormed, EdgeListsAgree
  <2> QED BY <2>1, <2>2 DEF OnlyTeamChanges
<1> HIDE DEF C
<1>3. View(C, graph') = View(C, graph)
  BY <1>2, ViewSame
<1> QED BY <1>1, <1>3, SeenIsView, SeenIsViewNext

(* cloneVertex adds the team under mutation, which is not seen. *)
LEMMA SeenCloneRoot ==
    ASSUME TypeInv, CloneRoot
    PROVE  /\ SeenPopulation' = SeenPopulation
           /\ Cardinality(Promise!RootsOf(SeenPopulation)) < NbRoots
<1>1. /\ team' \in Vertex /\ team' \notin Vertices(graph)
      /\ graph'.out = graph.out /\ graph'.dst = graph.dst
      /\ Vertices(graph') = Vertices(graph) \cup {team'}
      /\ \A w \in Vertex \ {team'} : graph'.kind[w] = graph.kind[w]
  BY CloneRootEffect, PushVertexEffect DEF Kind
<1>2. ~ Initialising /\ ~ Initialising' /\ ~ Building
  BY CloneRootEffect DEF Building, Initialising
<1>3. team = NoVertex /\ team \notin Vertices(graph)
  BY <1>2, QuietFacts, GraphAssumption DEF Vertices
<1>4. Complete = Vertices(graph) /\ Complete' = Vertices(graph)
  BY <1>1, <1>2, <1>3 DEF Complete
<1>5. View(Vertices(graph), graph') = View(Vertices(graph), graph)
  <2>1. \A v \in Vertices(graph) : graph'.kind[v] = graph.kind[v]
    BY <1>1 DEF Vertices
  <2> QED BY <1>1, <2>1, ViewSame
<1>6. Promise!RootsOf(SeenPopulation) = RootVertices(graph)
  BY <1>2, <1>3, RootsSeen DEF TypeInv, GraphInv
<1>7. Cardinality(RootVertices(graph)) < NbRoots
  <2>1. NbRoots > Cardinality(RootVertices(graph))
    BY CloneRootEffect DEF TooFewRoots
  <2>2. Cardinality(RootVertices(graph)) \in Nat /\ NbRoots \in Nat
    BY RootsAreFinite, MutatorAssumption DEF TypeInv, GraphInv
  <2> QED BY <2>1, <2>2
<1> QED BY <1>4, <1>5, <1>6, <1>7, SeenIsView, SeenIsViewNext

(* The steps that leave the graph and the team alone *)
LEMMA SeenSame ==
    ASSUME ~ Initialising, ~ Initialising', graph' = graph, team' = team
    PROVE  SeenPopulation' = SeenPopulation
BY DEF SeenPopulation, Complete

LEMMA SeenMutates ==
    ASSUME TypeInv,
           \/ CopyEdge \/ RemoveRandomEdge \/ StopRemoving \/ AddRandomEdge \/ StopAdding
           \/ MutateOutgoingEdge \/ KeepOutgoingEdge
    PROVE  Building /\ SeenPopulation' = SeenPopulation
<1>1. Building /\ Building' /\ team' = team
  BY DEF CopyEdge, RemoveRandomEdge, StopRemoving, AddRandomEdge, StopAdding, MutateOutgoingEdge,
     KeepOutgoingEdge, Building, populateVars
<1>2. OnlyTeamChanges
  <2>1. CASE CopyEdge
    BY <2>1, CopyEdgeEffect DEF GetsEdge
  <2>2. CASE RemoveRandomEdge
    BY <2>2, RemoveRandomEdgeEffect DEF LosesEdge
  <2>3. CASE AddRandomEdge
    BY <2>3, AddRandomEdgeEffect DEF GetsEdge
  <2>4. CASE MutateOutgoingEdge
    BY <2>4, MutateOutgoingEdgeEffect DEF ChangesEdge
  <2>5. CASE StopRemoving \/ StopAdding \/ KeepOutgoingEdge
    BY <2>5, UnchangedGraph DEF StopRemoving, StopAdding, KeepOutgoingEdge
  <2> QED BY <2>1, <2>2, <2>3, <2>4, <2>5
<1> QED BY <1>1, <1>2, SeenBuilding

LEMMA SeenInvStep == ASSUME TypeInv, SeenInv, [Next]_vars PROVE SeenInv'
<1>1. CASE InitRandomTPG
  BY <1>1, SeenInvClears DEF InitRandomTPG
<1>2. CASE PopulateTPG
  <2>1. CASE StartInit("populate")
    BY <2>1, SeenInvClears
  <2>2. CASE pc' = "populate" /\ UNCHANGED <<graph, before, initVars, populateVars>>
    <3>1. ~ Initialising /\ ~ Initialising' /\ ~ Building'
      BY <1>2, <2>2 DEF PopulateTPG, Initialising, Building
    <3>2. made' = NothingMade
      BY <2>2, <3>1 DEF TypeInv, MadeInv, initVars
    <3> QED BY <3>1, <3>2, SeenInvNone
  <2> QED BY <1>2, <2>1, <2>2 DEF PopulateTPG
<1>3. CASE \/ CopyPreExisting \/ EndLoop \/ MutateNewProgramBehaviors \/ EndPass
           \/ \E v \in Vertex : RemoveRoot(v)
  <2>1. ~ Initialising /\ ~ Initialising' /\ made' = made
    BY <1>3 DEF CopyPreExisting, EndLoop, MutateNewProgramBehaviors, EndPass, RemoveRoot,
       Initialising, initVars
  <2>2. made' = NothingMade
    BY <2>1 DEF TypeInv, MadeInv
  <2>3. CASE ~ Building'
    BY <2>1, <2>2, <2>3, SeenInvNone
  <2>4. CASE Building'
    <3>1. Building /\ SeenPopulation' = SeenPopulation
      BY <1>3, <2>1, <2>4, SeenSame DEF CopyPreExisting, EndLoop, MutateNewProgramBehaviors, EndPass,
         RemoveRoot, Building
    <3> QED BY <2>1, <2>2, <3>1 DEF SeenInv, NothingMade, Initialising
  <2> QED BY <2>3, <2>4
<1>4. CASE \/ CopyEdge \/ RemoveRandomEdge \/ StopRemoving \/ AddRandomEdge \/ StopAdding
           \/ MutateOutgoingEdge \/ KeepOutgoingEdge
  <2>1. Building /\ SeenPopulation' = SeenPopulation
    BY <1>4, SeenMutates
  <2>2. made' = made /\ Building'
    BY <1>4 DEF CopyEdge, RemoveRandomEdge, StopRemoving, AddRandomEdge, StopAdding,
       MutateOutgoingEdge, KeepOutgoingEdge, Building, initVars
  <2>3. made = NothingMade /\ ~ Initialising'
    BY <2>1, <2>2 DEF TypeInv, MadeInv, Building, Initialising
  <2> QED BY <2>1, <2>2, <2>3 DEF SeenInv, NothingMade, Initialising
<1>5. CASE CloneRoot
  <2>1. made' = NothingMade /\ ~ Initialising'
    BY <1>5, CloneRootEffect DEF TypeInv, MadeInv, initVars, Initialising
  <2>2. Cardinality(Promise!RootsOf(SeenPopulation')) < NbRoots
    BY <1>5, SeenCloneRoot
  <2> QED BY <2>1, <2>2 DEF SeenInv, NothingMade, Initialising
<1>6. CASE UNCHANGED vars
  <2>1. SeenPopulation' = SeenPopulation
    BY <1>6 DEF vars, SeenPopulation, Complete, Initialising
  <2> QED BY <1>6, <2>1 DEF vars, SeenInv, LeadsTo, Initialising, Building
<1> QED
  BY <1>1, <1>2, <1>3, <1>4, <1>5, <1>6, SeenInvMakeAction, SeenInvMakeTeam, SeenInvMakeProgram,
     SeenInvMakeEdge, SeenInvExtraEdge, SeenInvNextTeam DEF Next

(* Population counts as TPGMutator does. *)
LEMMA SameCardinality == \A S : Promise!Cardinality(S) = Cardinality(S)
BY DEF Promise!Cardinality, Cardinality

LEMMA EnumeratedSet ==
    ASSUME NEW n \in Nat, NEW S, NEW f \in [1 .. n -> S],
           \A i, j \in 1 .. n : f[i] = f[j] => i = j,
           \A x \in S : \E i \in 1 .. n : f[i] = x
    PROVE  IsFiniteSet(S) /\ Cardinality(S) = n
<1>1. f \in Bijection(1 .. n, S)
  BY DEF Bijection, Injection, Surjection, IsInjective
<1>2. IsFiniteSet(1 .. n) /\ Cardinality(1 .. n) = n
  BY FS_Interval
<1>3. ExistsBijection(1 .. n, S)
  BY <1>1 DEF ExistsBijection
<1> QED BY <1>2, <1>3, FS_Bijection

LEMMA TwoElements ==
    ASSUME NEW S, IsFiniteSet(S), NEW x \in S, NEW y \in S, x # y
    PROVE  Cardinality(S) > 1
<1>1. IsFiniteSet({x}) /\ Cardinality({x}) = 1
  BY FS_Singleton
<1> DEFINE X == {x}
<1>2. IsFiniteSet({x} \cup {y}) /\ Cardinality({x} \cup {y}) = 2
  <2>1. IsFiniteSet(X) /\ Cardinality(X) = 1 /\ y \notin X
    BY <1>1
  <2> HIDE DEF X
  <2>2. IsFiniteSet(X \cup {y}) /\ Cardinality(X \cup {y}) = Cardinality(X) + 1
    BY <2>1, FS_AddElement
  <2> QED BY <2>1, <2>2 DEF X
<1>3. {x} \cup {y} \in SUBSET S
  OBVIOUS
<1>4. 2 <= Cardinality(S) /\ Cardinality(S) \in Nat
  BY <1>2, <1>3, FS_Subset, FS_CardinalityType
<1> QED BY <1>4

Kids(v) == {graph.dst[e] : e \in graph.out[v]}

(* initRandomTPG ends: every team leads to actions, each action is led to, and the first teams
   lead to two actions each. *)
LEMMA InitialPopulationIsComplete ==
    ASSUME TypeInv, CountInv, SeenInv, pc = "extra",
           made.extra = 0, made.current = InitNbRoots
    PROVE  View(Vertices(graph), graph) \in Promise!InitialPopulations
<1> DEFINE ts == {v \in Vertices(graph) : IsTeam(graph, v)}
           as == {v \in Vertices(graph) : IsAction(graph, v)}
           p  == View(Vertices(graph), graph)
<1>1. /\ Initialising /\ ~ Building
      /\ NbActions \in Nat /\ NbActions >= 2
      /\ InitNbRoots \in Nat /\ InitNbRoots >= NbActions
  BY MutatorAssumption DEF Initialising, Building
<1>2. /\ made.teams \in Seq(Vertex) /\ made.actions \in Seq(Vertex)
      /\ Len(made.teams) = InitNbRoots /\ Len(made.actions) = NbActions
      /\ DOMAIN made.teams = 1 .. InitNbRoots /\ DOMAIN made.actions = 1 .. NbActions
  BY LenProperties DEF TypeInv, MadeInv, MadeType, MadeLengths
<1>3. /\ WellFormed(graph) /\ Vertices(graph) \subseteq Vertex
      /\ IsFiniteSet(Edges(graph)) /\ IsFiniteSet(Vertices(graph))
      /\ \A k \in 1 .. InitNbRoots : made.teams[k] \in ts
      /\ \A k \in 1 .. NbActions : made.actions[k] \in as
  <2>1. WellFormed(graph) /\ IsFiniteSet(Edges(graph)) /\ IsFiniteSet(Vertices(graph))
    BY DEF TypeInv, GraphInv
  <2>2. /\ \A k \in 1 .. InitNbRoots : made.teams[k] \in Vertex /\ IsTeam(graph, made.teams[k])
        /\ \A k \in 1 .. NbActions : made.actions[k] \in Vertex /\ IsAction(graph, made.actions[k])
    BY <1>2, ElementOfSeq DEF TypeInv, MadeInv
  <2> QED BY <2>1, <2>2, WellFormedFacts
<1>4. IsFiniteSet(ts) /\ Cardinality(ts) = InitNbRoots
  <2>1. made.teams \in [1 .. InitNbRoots -> ts]
    BY <1>2, <1>3
  <2>2. /\ \A i, j \in 1 .. InitNbRoots : made.teams[i] = made.teams[j] => i = j
        /\ \A v \in ts : \E k \in 1 .. InitNbRoots : made.teams[k] = v
    BY <1>1, <1>2 DEF CountInv
  <2>3. InitNbRoots \in Nat
    BY <1>1
  <2> DEFINE f == made.teams
             n == InitNbRoots
  <2>4. /\ n \in Nat /\ f \in [1 .. n -> ts]
        /\ \A i, j \in 1 .. n : f[i] = f[j] => i = j
        /\ \A v \in ts : \E k \in 1 .. n : f[k] = v
    BY <2>1, <2>2, <2>3
  <2> HIDE DEF ts, f, n
  <2>5. IsFiniteSet(ts) /\ Cardinality(ts) = n
    BY <2>4, EnumeratedSet
  <2> QED BY <2>5 DEF n
<1>5. IsFiniteSet(as) /\ Cardinality(as) = NbActions
  <2>1. made.actions \in [1 .. NbActions -> as]
    BY <1>2, <1>3
  <2>2. /\ \A i, j \in 1 .. NbActions : made.actions[i] = made.actions[j] => i = j
        /\ \A v \in as : \E k \in 1 .. NbActions : made.actions[k] = v
    BY <1>1, <1>2 DEF SeenInv
  <2>3. NbActions \in Nat
    BY <1>1
  <2> HIDE DEF as
  <2> QED BY <2>1, <2>2, <2>3, EnumeratedSet
<1>6. ts \cap as = {} /\ ts \subseteq Vertex /\ as \subseteq Vertex
  BY <1>3, WellFormedFacts
<1>7. \A v \in Vertex : graph.out[v] \subseteq Edges(graph)
  BY <1>3, WellFormedFacts
<1>8. ASSUME NEW t \in ts PROVE Kids(t) \in (SUBSET as) \ {{}}
  <2>1. t \in Vertex /\ IsTeam(graph, t) /\ t \in Vertices(graph)
    BY <1>3
  <2>2. PICK k \in DOMAIN made.teams : made.teams[k] = t
    BY <1>1, <2>1 DEF CountInv
  <2>3. NbEdges(t) \in EdgesOfMade(k)
    BY <1>1, <2>2 DEF CountInv
  <2>4. k \in Nat /\ k <= InitNbRoots
    BY <1>2
  <2>5. NbEdges(t) >= 2
    <3>1. EdgesOfMade(k) = 2 .. MaxInitOutgoingEdges
      BY <1>1, <2>4, MutatorAssumption DEF EdgesOfMade
    <3> QED BY <2>3, <3>1, MutatorAssumption
  <2>6. graph.out[t] # {}
    BY <2>1, <2>5, NbEdgesFacts
  <2>7. \A e \in graph.out[t] : graph.dst[e] \in as
    BY <1>1, <1>3, <1>7, <2>1, WellFormedFacts DEF SeenInv
  <2> QED BY <2>6, <2>7 DEF Kids
<1>9. ASSUME NEW a \in 1 .. NbActions
      PROVE  /\ made.actions[a] \in Kids(made.teams[a])
             /\ made.actions[(a % NbActions) + 1] \in Kids(made.teams[a])
             /\ (a % NbActions) + 1 \in 1 .. NbActions /\ (a % NbActions) + 1 # a
  <2> DEFINE i == 2 * (a - 1)
             j == 2 * (a - 1) + 1
  <2>1. a \in Nat /\ a >= 1 /\ a <= NbActions
    BY <1>1
  <2>2. /\ i \in 0 .. 2 * NbActions - 1 /\ i \div 2 = a - 1 /\ i % 2 = 0
        /\ j \in 0 .. 2 * NbActions - 1 /\ j \div 2 = a - 1 /\ j % 2 = 1
    BY <1>1, <2>1
  <2>3. (a - 1) % NbActions = a - 1
    BY <1>1, <2>1
  <2>4. /\ LeadsTo(made.teams[(i \div 2) + 1],
                   made.actions[((((i \div 2) + (i % 2)) % NbActions)) + 1])
        /\ LeadsTo(made.teams[(j \div 2) + 1],
                   made.actions[((((j \div 2) + (j % 2)) % NbActions)) + 1])
    <3> HIDE DEF i, j
    <3> QED BY <2>2 DEF SeenInv
  <2>5. /\ (i \div 2) + 1 = a /\ (j \div 2) + 1 = a
        /\ ((((i \div 2) + (i % 2)) % NbActions)) + 1 = a
        /\ ((((j \div 2) + (j % 2)) % NbActions)) + 1 = (a % NbActions) + 1
    <3> HIDE DEF i, j
    <3>1. (a - 1) + 0 = a - 1 /\ (a - 1) + 1 = a
      BY <2>1
    <3> QED BY <2>1, <2>2, <2>3, <3>1
  <2>6. LeadsTo(made.teams[a], made.actions[a]) /\ LeadsTo(made.teams[a], made.actions[(a % NbActions) + 1])
    <3> HIDE DEF i, j
    <3> QED BY <2>4, <2>5
  <2>7. (a % NbActions) + 1 \in 1 .. NbActions /\ (a % NbActions) + 1 # a
    <3>1. CASE a = NbActions
      <4>1. NbActions % NbActions = 0
        BY <1>1
      <4> QED BY <1>1, <3>1, <4>1
    <3>2. CASE a < NbActions
      <4>1. a % NbActions = a
        BY <1>1, <2>1, <3>2
      <4> QED BY <1>1, <2>1, <3>2, <4>1
    <3> QED BY <1>1, <2>1, <3>1, <3>2
  <2> QED BY <2>6, <2>7 DEF LeadsTo, Kids
<1> DEFINE kk == [t \in ts |-> Kids(t)]
<1>10. kk \in [ts -> (SUBSET as) \ {{}}]
  BY <1>8
<1>11. UNION {kk[t] : t \in ts} = as
  <2>1. \A t \in ts : kk[t] \subseteq as
    BY <1>10
  <2>2. ASSUME NEW v \in as PROVE \E t \in ts : v \in kk[t]
    <3>1. PICK a \in 1 .. NbActions : made.actions[a] = v
      BY <1>1, <1>2 DEF SeenInv
    <3>2. a \in 1 .. InitNbRoots
      BY <1>1
    <3>3. made.teams[a] \in ts /\ v \in Kids(made.teams[a])
      BY <1>3, <1>9, <3>1, <3>2
    <3> QED BY <3>3
  <2> QED BY <2>1, <2>2
<1>12. Cardinality({t \in ts : Cardinality(kk[t]) > 1}) >= NbActions
  <2> DEFINE W == {t \in ts : Cardinality(kk[t]) > 1}
             f == [a \in 1 .. NbActions |-> made.teams[a]]
  <2>1. ASSUME NEW a \in 1 .. NbActions PROVE made.teams[a] \in W
    <3>1. a \in 1 .. InitNbRoots /\ made.teams[a] \in ts
      BY <1>1, <1>3
    <3>2. IsFiniteSet(Kids(made.teams[a]))
      <4>1. Kids(made.teams[a]) \in SUBSET as
        BY <1>8, <3>1
      <4> HIDE DEF as
      <4> QED BY <1>5, <4>1, FS_Subset
    <3>3. made.actions[a] # made.actions[(a % NbActions) + 1]
      BY <1>2, <1>9 DEF SeenInv
    <3>4. Cardinality(Kids(made.teams[a])) > 1
      BY <1>9, <3>2, <3>3, TwoElements
    <3> QED BY <3>1, <3>4
  <2>2. f \in Injection(1 .. NbActions, W)
    <3>1. f \in [1 .. NbActions -> W]
      BY <2>1
    <3>2. \A a, b \in 1 .. NbActions : f[a] = f[b] => a = b
      <4>1. \A a \in 1 .. NbActions : a \in DOMAIN made.teams
        BY <1>1, <1>2
      <4> QED BY <1>1, <4>1 DEF CountInv
    <3> HIDE DEF f, W
    <3> QED BY <3>1, <3>2 DEF Injection, IsInjective
  <2>3. IsFiniteSet(W)
    <3>1. W \in SUBSET ts
      OBVIOUS
    <3> HIDE DEF W, ts
    <3> QED BY <1>4, <3>1, FS_Subset
  <2> HIDE DEF W, f
  <2>4. Cardinality(1 .. NbActions) <= Cardinality(W)
    BY <2>2, <2>3, FS_Injection
  <2>5. Cardinality(1 .. NbActions) = NbActions /\ Cardinality(W) \in Nat
    BY <1>1, <2>3, FS_Interval, FS_CardinalityType
  <2>6. Cardinality(W) >= NbActions
    BY <1>1, <2>4, <2>5
  <2> QED BY <2>6 DEF W
<1>13. p = [teams |-> ts, actions |-> as, kids |-> [v \in Vertex |-> IF v \in ts THEN kk[v] ELSE {}]]
  <2>1. \A v \in Vertex :
           (IF v \in Vertices(graph) THEN {graph.dst[e] : e \in graph.out[v]} ELSE {})
              = IF v \in ts THEN kk[v] ELSE {}
    <3> SUFFICES ASSUME NEW v \in Vertex
                 PROVE  (IF v \in Vertices(graph) THEN Kids(v) ELSE {})
                           = IF v \in ts THEN kk[v] ELSE {}
      BY DEF Kids
    <3>1. CASE v \in ts
      BY <3>1
    <3>2. CASE v \notin ts
      <4>1. v \in Vertices(graph) => graph.out[v] = {}
        BY <1>3, <3>2, WellFormedFacts
      <4>2. v \in Vertices(graph) => Kids(v) = {}
        BY <4>1 DEF Kids
      <4> QED BY <3>2, <4>2
    <3> QED BY <3>1, <3>2
  <2> QED BY <2>1 DEF View
<1> HIDE DEF ts, as, p, kk
<1>14. p \in Promise!InitialOver(ts, as)
  <2>1. {t \in ts : Promise!Cardinality(kk[t]) > 1} = {t \in ts : Cardinality(kk[t]) > 1}
    BY SameCardinality
  <2>2. Promise!Cardinality({t \in ts : Promise!Cardinality(kk[t]) > 1}) >= NbActions
    BY <1>12, <2>1, SameCardinality
  <2>3. kk \in {f \in [ts -> (SUBSET as) \ {{}}] :
                   /\ ts \cap as = {}
                   /\ UNION {f[t] : t \in ts} = as
                   /\ Promise!Cardinality({t \in ts : Promise!Cardinality(f[t]) > 1}) >= NbActions}
    BY <1>6, <1>10, <1>11, <2>2
  <2> QED BY <1>13, <2>3, Zenon DEF Promise!InitialOver
<1>15. p \in Promise!InitialPopulations
  <2>1. /\ ts \in {S \in SUBSET Vertex : Promise!Cardinality(S) = InitNbRoots}
        /\ as \in {S \in SUBSET Vertex : Promise!Cardinality(S) = NbActions}
    BY <1>4, <1>5, <1>6, SameCardinality
  <2> DEFINE A == {S \in SUBSET Vertex : Promise!Cardinality(S) = NbActions}
             T == {S \in SUBSET Vertex : Promise!Cardinality(S) = InitNbRoots}
             X == UNION {Promise!InitialOver(ts, a) : a \in A}
  <2>2. Promise!InitialPopulations = UNION {UNION {Promise!InitialOver(t, a) : a \in A} : t \in T}
    BY DEF Promise!InitialPopulations
  <2>3. p \in X
    BY <1>14, <2>1
  <2>4. X \in {UNION {Promise!InitialOver(t, a) : a \in A} : t \in T}
    BY <2>1
  <2> QED BY <2>2, <2>3, <2>4
<1> QED BY <1>15 DEF p

-----------------------------------------------------------------------------
(* TPGMutator implements Population. *)

LEMMA AliveSeen ==
    ASSUME NEW g, NEW C, WellFormed(g), C \subseteq Vertices(g)
    PROVE  Promise!Alive(View(C, g)) = C
<1>1. \A v \in C : IsTeam(g, v) \/ IsAction(g, v)
  BY WellFormedFacts
<1> QED BY <1>1 DEF View, Promise!Alive

LEMMA AddTeamFields ==
    ASSUME NEW T, NEW A, NEW k, NEW v, NEW ks
    PROVE  Promise!AddTeam([teams |-> T, actions |-> A, kids |-> k], v, ks)
             = [teams |-> T \cup {v}, actions |-> A, kids |-> [k EXCEPT ![v] = ks]]
<1> DEFINE p == [teams |-> T, actions |-> A, kids |-> k]
           q == Promise!AddTeam(p, v, ks)
<1>1. q = [p EXCEPT !.teams = @ \cup {v}, !.kids[v] = ks]
  BY DEF Promise!AddTeam
<1>2. DOMAIN q = {"teams", "actions", "kids"}
  BY <1>1
<1>3. q.teams = T \cup {v}
  BY <1>1
<1>4. q.actions = A
  BY <1>1
<1>5. q.kids = [k EXCEPT ![v] = ks]
  BY <1>1
<1> QED BY <1>1, <1>2, <1>3, <1>4, <1>5

(* The pass that ends mutateTPGTeam shows the new team, a root with edges to older vertices. *)
LEMMA EndPassShowsTeam ==
    ASSUME TypeInv, OrderInv, CountInv, SeenInv, EndPass, pc' = "loop"
    PROVE  \E v \in Promise!Came : Promise!NewRoot(v)
<1> DEFINE V == Vertices(graph)
           C == V \ {team}
           p == View(C, graph)
           q == View(V, graph)
<1>1. /\ pc = "mutate" /\ Building /\ ~ Initialising /\ ~ Initialising'
      /\ graph' = graph /\ team' = NoVertex
  BY DEF EndPass, Building, Initialising
<1>2. /\ team \in Vertex /\ team \in V /\ IsTeam(graph, team) /\ ~ IsAction(graph, team)
      /\ V \subseteq Vertex /\ NoVertex \notin V /\ WellFormed(graph)
      /\ graph.out[team] \subseteq Edges(graph)
  <2>1. team \in V /\ IsTeam(graph, team) /\ WellFormed(graph)
    BY <1>1, TeamFacts DEF TypeInv, GraphInv
  <2>2. V \subseteq Vertex /\ NoVertex \notin V
    BY GraphAssumption DEF Vertices
  <2> QED BY <2>1, <2>2, WellFormedFacts
<1>3. SeenPopulation = p /\ SeenPopulation' = q
  <2>1. Complete = C /\ Complete' = V
    BY <1>1, <1>2 DEF Complete
  <2> QED BY <1>1, <2>1, SeenIsView, SeenIsViewNext
<1>4. Promise!Alive(p) = C /\ Promise!Alive(q) = V
  BY <1>2, AliveSeen
<1>5. Kids(team) \in (SUBSET C) \ {{}}
  <2>1. NbEdges(team) >= 2
    BY <1>1 DEF CountInv, CompleteTeam
  <2>2. graph.out[team] # {}
    BY <1>2, <2>1, NbEdgesFacts DEF TypeInv, GraphInv
  <2>3. \A e \in graph.out[team] : graph.dst[e] \in C
    <3>1. \A e \in Edges(graph) : graph.dst[e] \in V /\ graph.dst[e] # team
      BY <1>1, <1>2, WellFormedFacts, NoEdgeToTeam
    <3> QED BY <1>2, <3>1
  <2> HIDE DEF C
  <2> QED BY <2>2, <2>3 DEF Kids
<1>6. q.kids[team] = Kids(team)
  BY <1>2 DEF View, Kids
<1>7. q = Promise!AddTeam(p, team, Kids(team))
  <2>1. {v \in V : IsTeam(graph, v)} = {v \in C : IsTeam(graph, v)} \cup {team}
    BY <1>2
  <2>2. {v \in V : IsAction(graph, v)} = {v \in C : IsAction(graph, v)}
    BY <1>2
  <2> DEFINE K(S) == [v \in Vertex |-> IF v \in S THEN {graph.dst[e] : e \in graph.out[v]} ELSE {}]
  <2>3. K(V) = [K(C) EXCEPT ![team] = Kids(team)]
    <3>1. \A v \in Vertex \ {team} : v \in V <=> v \in C
      OBVIOUS
    <3>2. K(V)[team] = Kids(team)
      BY <1>2 DEF Kids
    <3>3. \A v \in Vertex : K(V)[v] = [K(C) EXCEPT ![team] = Kids(team)][v]
      BY <3>1, <3>2
    <3> QED BY <3>3
  <2>4. p = [teams |-> {v \in C : IsTeam(graph, v)}, actions |-> {v \in C : IsAction(graph, v)},
             kids |-> K(C)]
    BY DEF View
  <2>5. q = [teams |-> {v \in V : IsTeam(graph, v)}, actions |-> {v \in V : IsAction(graph, v)},
             kids |-> K(V)]
    BY DEF View
  <2> DEFINE T == {v \in C : IsTeam(graph, v)}
             A == {v \in C : IsAction(graph, v)}
  <2>6. p = [teams |-> T, actions |-> A, kids |-> K(C)]
    BY <2>4
  <2>7. q = [teams |-> T \cup {team}, actions |-> A, kids |-> [K(C) EXCEPT ![team] = Kids(team)]]
    BY <2>1, <2>2, <2>3, <2>5
  <2> HIDE DEF K, V, C, T, A, p, q
  <2> QED BY <2>6, <2>7, AddTeamFields
<1>8. Promise!Cardinality(Promise!RootsOf(p)) < NbRoots
  BY <1>1, <1>3, SameCardinality DEF SeenInv
<1>9. team \in Promise!Came
  BY <1>2, <1>3, <1>4 DEF Promise!Came
<1> HIDE DEF V, C, p, q
<1>10. Promise!NewRoot(team)
  BY <1>3, <1>4, <1>5, <1>6, <1>7, <1>8 DEF Promise!NewRoot
<1> QED BY <1>9, <1>10

(* removeVertex of a root removes it from what is seen, and nothing else. *)
LEMMA RemoveRootIsSeen ==
    ASSUME TypeInv, NEW v \in Vertex, RemoveRoot(v)
    PROVE  \E w \in Promise!Gone : Promise!RemoveRoot(w)
<1> DEFINE V == Vertices(graph)
           W == V \ {v}
           p == View(V, graph)
           q == View(W, graph')
<1>1. /\ pc = "idle" /\ pc' = "idle" /\ ~ Initialising /\ ~ Initialising' /\ ~ Building
      /\ team' = team /\ v \in V /\ v \in RootVertices(graph)
      /\ WellFormed(graph) /\ WellFormed(graph') /\ Vertices(graph') = W /\ V \subseteq Vertex
  BY RemoveRootStep DEF Initialising, Building, populateVars, TypeInv, GraphInv, Vertices
<1>2. team = NoVertex /\ team \notin V
  BY <1>1, QuietFacts, GraphAssumption DEF Vertices
<1>3. SeenPopulation = p /\ SeenPopulation' = q
  <2>1. Complete = V /\ Complete' = W
    BY <1>1, <1>2 DEF Complete
  <2> QED BY <2>1, SeenIsView, SeenIsViewNext
<1>4. Promise!Alive(p) = V /\ Promise!Alive(q) = W
  BY <1>1, AliveSeen
<1>5. v \in Promise!Gone
  BY <1>1, <1>3, <1>4 DEF Promise!Gone
<1>6. v \in Promise!RootsOf(p)
  BY <1>1, <1>2, <1>3, RootsSeen
<1>7. \A w \in W : /\ IsTeam(graph', w) <=> IsTeam(graph, w)
                   /\ IsAction(graph', w) <=> IsAction(graph, w)
                   /\ graph'.out[w] = graph.out[w]
                   /\ \A e \in graph.out[w] : graph'.dst[e] = graph.dst[e] /\ graph.dst[e] # v
  <2>1. \A w \in W : graph'.kind[w] = graph.kind[w] /\ graph'.out[w] = graph.out[w]
    BY <1>1, RemoveRootStep
  <2>2. \A w \in W : \A e \in graph.out[w] : e \in Edges(graph) /\ graph.src[e] = w
    BY <1>1 DEF WellFormed, EdgeListsAgree
  <2>3. \A e \in graph.out[v] : graph.src[e] = v
    BY <1>1 DEF WellFormed, EdgeListsAgree
  <2>4. \A w \in W : \A e \in graph.out[w] : e \in Edges(graph')
    BY <2>2, <2>3, RemoveRootStep
  <2>5. \A w \in W : \A e \in graph.out[w] : graph'.dst[e] = graph.dst[e] /\ graph.dst[e] # v
    BY <2>2, <2>4, RemoveRootStep
  <2> QED BY <2>1, <2>5 DEF IsTeam, IsAction
<1>8. q = Promise!RemoveAll(p, {v})
  <2>1. {w \in W : IsTeam(graph', w)} = {w \in V : IsTeam(graph, w)} \ {v}
    BY <1>7
  <2>2. {w \in W : IsAction(graph', w)} = {w \in V : IsAction(graph, w)} \ {v}
    BY <1>7
  <2> DEFINE K == [w \in Vertex |-> IF w \in V THEN {graph.dst[e] : e \in graph.out[w]} ELSE {}]
  <2>3. [w \in Vertex |-> IF w \in W THEN {graph'.dst[e] : e \in graph'.out[w]} ELSE {}]
          = [w \in Vertex |-> IF w \in {v} THEN {} ELSE K[w] \ {v}]
    <3> SUFFICES ASSUME NEW w \in Vertex
                 PROVE  (IF w \in W THEN {graph'.dst[e] : e \in graph'.out[w]} ELSE {})
                          = IF w \in {v} THEN {} ELSE K[w] \ {v}
      OBVIOUS
    <3>1. CASE w \in W
      <4>1. {graph'.dst[e] : e \in graph'.out[w]} = {graph.dst[e] : e \in graph.out[w]}
        BY <1>7, <3>1
      <4>2. v \notin {graph.dst[e] : e \in graph.out[w]}
        BY <1>7, <3>1
      <4> QED BY <3>1, <4>1, <4>2
    <3>2. CASE w \notin W
      BY <3>2
    <3> QED BY <3>1, <3>2
  <2>4. /\ p.teams = {w \in V : IsTeam(graph, w)} /\ p.actions = {w \in V : IsAction(graph, w)}
        /\ p.kids = K
    BY DEF View
  <2>5. q = [teams |-> {w \in W : IsTeam(graph', w)}, actions |-> {w \in W : IsAction(graph', w)},
             kids |-> [w \in Vertex |-> IF w \in W THEN {graph'.dst[e] : e \in graph'.out[w]} ELSE {}]]
    BY DEF View
  <2> HIDE DEF K, V, W, p, q
  <2> QED BY <2>1, <2>2, <2>3, <2>4, <2>5 DEF Promise!RemoveAll
<1> HIDE DEF V, W, p, q
<1>9. Promise!RemoveRoot(v)
  BY <1>3, <1>6, <1>8 DEF Promise!RemoveRoot
<1> QED BY <1>5, <1>9

(* The end of initRandomTPG shows the whole graph. *)
LEMMA NextTeamShowsGraph ==
    ASSUME TypeInv, CountInv, SeenInv, NextTeam, ~ Initialising'
    PROVE  Promise!Fill
<1>1. /\ pc = "extra" /\ Initialising /\ ~ Building /\ graph' = graph /\ team' = team
      /\ made.extra = 0 /\ made.current = InitNbRoots
  BY Zenon DEF NextTeam, Initialising, Building, populateVars
<1>2. team = NoVertex /\ team \notin Vertices(graph)
  BY <1>1, QuietFacts, GraphAssumption DEF Vertices
<1>3. Complete' = Vertices(graph)
  BY <1>1, <1>2 DEF Complete
<1>4. SeenPopulation' = View(Vertices(graph), graph)
  BY <1>1, <1>3, SeenIsViewNext
<1>5. SeenPopulation' \in Promise!InitialPopulations
  BY <1>1, <1>4, InitialPopulationIsComplete
<1> QED BY <1>1, <1>5, NothingSeen DEF Promise!Fill

LEMMA StartInitClears == ASSUME NEW then, StartInit(then) PROVE Promise!Clear
<1>1. Initialising'
  BY DEF StartInit, Initialising
<1> QED BY <1>1, NothingSeen DEF Promise!Clear

LEMMA PromiseStep ==
    ASSUME TypeInv, OrderInv, CountInv, SeenInv, [Next]_vars
    PROVE  [Promise!Next]_SeenPopulation
<1>1. CASE InitRandomTPG
  BY <1>1, StartInitClears DEF InitRandomTPG, Promise!Next
<1>2. CASE MakeAction \/ MakeTeam \/ MakeProgram \/ MakeEdge \/ ExtraEdge
  <2>1. Initialising /\ Initialising'
    BY <1>2, Zenon DEF MakeAction, MakeTeam, MakeProgram, MakeEdge, ExtraEdge, Initialising
  <2> QED BY <2>1, NothingSeen
<1>3. CASE NextTeam
  <2>1. CASE Initialising'
    <3>1. Initialising
      BY <1>3, Zenon DEF NextTeam, Initialising
    <3> QED BY <2>1, <3>1, NothingSeen
  <2>2. CASE ~ Initialising'
    BY <1>3, <2>2, NextTeamShowsGraph DEF Promise!Next
  <2> QED BY <2>1, <2>2
<1>4. CASE PopulateTPG
  <2>1. CASE StartInit("populate")
    BY <2>1, StartInitClears DEF Promise!Next
  <2>2. CASE pc' = "populate" /\ UNCHANGED <<graph, before, initVars, populateVars>>
    <3>1. ~ Initialising /\ ~ Initialising' /\ graph' = graph /\ team' = team
      BY <1>4, <2>2 DEF PopulateTPG, Initialising, populateVars
    <3> QED BY <3>1, SeenSame
  <2> QED BY <1>4, <2>1, <2>2 DEF PopulateTPG
<1>5. CASE CopyPreExisting \/ EndLoop \/ MutateNewProgramBehaviors
  <2>1. ~ Initialising /\ ~ Initialising' /\ graph' = graph /\ team' = team
    BY <1>5 DEF CopyPreExisting, EndLoop, MutateNewProgramBehaviors, Initialising, populateVars, teamVars
  <2> QED BY <2>1, SeenSame
<1>6. CASE CloneRoot
  BY <1>6, SeenCloneRoot
<1>7. CASE \/ CopyEdge \/ RemoveRandomEdge \/ StopRemoving \/ AddRandomEdge \/ StopAdding
           \/ MutateOutgoingEdge \/ KeepOutgoingEdge
  BY <1>7, SeenMutates
<1>8. CASE EndPass
  <2>1. CASE pc' = "loop"
    BY <1>8, <2>1, EndPassShowsTeam DEF Promise!Next
  <2>2. CASE UNCHANGED <<pc, team, anyMutationDone>>
    <3>1. ~ Initialising /\ ~ Initialising' /\ graph' = graph /\ team' = team
      BY <1>8, <2>2 DEF EndPass, Initialising
    <3> QED BY <3>1, SeenSame
  <2> QED BY <1>8, <2>1, <2>2 DEF EndPass
<1>9. CASE \E v \in Vertex : RemoveRoot(v)
  BY <1>9, RemoveRootIsSeen DEF Promise!Next
<1>10. CASE UNCHANGED vars
  BY <1>10 DEF vars, SeenPopulation, Complete, Initialising
<1> QED
  BY <1>1, <1>2, <1>3, <1>4, <1>5, <1>6, <1>7, <1>8, <1>9, <1>10 DEF Next

(* The detailed TPGMutator implements Population: seen by the LearningAgent, teams appear complete
   and one at a time, only while there are too few roots, lead to older vertices only, and never
   change; only roots leave; a graph is only ever cleared to be filled again. *)
THEOREM MutatorEvolvesAsPromised == Spec => EvolvesAsPromised
<1> DEFINE Inv == TypeInv /\ OrderInv /\ CountInv /\ SeenInv
<1>1. Init => Inv
  <2>1. Init => SeenInv
    BY DEF Init, SeenInv, NothingMade, Initialising, Building
  <2> QED BY <2>1, TypeInvInit, OrderInvInit, CountInvInitially
<1>2. Inv /\ [Next]_vars => Inv'
  BY TypeInvStep, OrderInvStep, CountInvStep, SeenInvStep
<1>3. Init => Promise!Init
  <2> SUFFICES ASSUME Init PROVE Promise!Init
    OBVIOUS
  <2>1. Complete = {}
    BY EmptyEffect DEF Init, Complete, Initialising
  <2> QED BY <2>1, SeenIsView, ViewOfNothing DEF Promise!Init
<1>4. Inv /\ [Next]_vars => [Promise!Next]_SeenPopulation
  BY PromiseStep
<1> QED BY <1>1, <1>2, <1>3, <1>4, PTL DEF Spec, EvolvesAsPromised, Promise!Spec
=============================================================================

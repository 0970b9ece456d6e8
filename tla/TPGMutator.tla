----------------------------- MODULE TPGMutator -----------------------------
(***************************************************************************)
(* initRandomTPG and populateTPG of TPGMutator, and the removal of roots   *)
(* by the LearningAgent between two calls.                                 *)
(*                                                                         *)
(* Random draws are choices.  A loop of the code is an action per pass, so *)
(* that every intermediate graph is a state.  The order in which a list is *)
(* visited is arbitrary but fixed (NextOf).  The bodies of Programs are    *)
(* not modelled: what matters here is which edges share one.               *)
(***************************************************************************)
EXTENDS GraphOps, Integers, Sequences

CONSTANTS Actions,               \* the actionIDs, in order
          NbRoots,               \* params.tpg.nbRoots
          InitNbRoots,           \* params.tpg.initNbRoots
          MaxInitOutgoingEdges,  \* params.tpg.maxInitOutgoingEdges
          MaxOutgoingEdges,      \* params.tpg.maxOutgoingEdges
          Allocate(_)            \* which of the free addresses new may return

NbActions == Len(Actions)

(* The exceptions at the start of initRandomTPG leave these parameters, except for the
   first bound on MaxInitOutgoingEdges: the code subtracts 2 from it unchecked. *)
ASSUME MutatorAssumption ==
    /\ Actions \in Seq(ActionID)
    /\ NbRoots \in Nat
    /\ MaxOutgoingEdges \in Nat
    /\ NbActions \in Nat /\ NbActions >= 2
    /\ InitNbRoots \in Nat /\ InitNbRoots >= NbActions
    /\ MaxInitOutgoingEdges \in 2 .. NbActions
    /\ \A S \in SUBSET Vertex : Allocate(S) \subseteq S
    /\ \A S \in SUBSET Edge : Allocate(S) \subseteq S
    /\ \A S \in SUBSET Program : Allocate(S) \subseteq S

VARIABLES graph,            \* the TPGGraph
          before,           \* before[v]: what precedes v in the list TPGGraph::vertices
          pc,               \* where initRandomTPG or populateTPG is
          resume,           \* where to go after initRandomTPG
          made,             \* local variables of initRandomTPG
          pre,              \* the copies populateTPG makes before it mutates the graph
          team,             \* the new root under mutation
          todo,             \* the edges a loop has still to visit
          anyMutationDone,  \* local variable of mutateTPGTeam
          newPrograms       \* programs to be mutated at the end of populateTPG

vars == <<graph, before, pc, resume, made, pre, team, todo, anyMutationDone, newPrograms>>

initVars == <<resume, made>>
teamVars == <<team, todo, anyMutationDone>>
populateVars == <<pre, team, todo, anyMutationDone, newPrograms>>

NothingMade == [actions |-> <<>>, teams |-> <<>>, programs |-> <<>>, edges |-> 0,
                current |-> 1, extra |-> 0]

NothingBefore == [teams |-> {}, actions |-> {}, edges |-> {}, roots |-> {}, nbRoots |-> 0]

(* The elements of a sequence. *)
Elements(s) == {s[i] : i \in DOMAIN s}

FreeVertex == Vertex \ Vertices(graph)

FreeEdge == Edge \ Edges(graph)

(* A Program is freed with its last shared pointer. *)
FreeProgram ==
    Program \ ({graph.prog[e] : e \in Edges(graph)} \cup newPrograms \cup Elements(made.programs))

NextOf(S) == CHOOSE x \in S : TRUE

NbEdges(v) == Cardinality(graph.out[v])

Init == /\ graph = EmptyGraph
        /\ before = [v \in Vertex |-> {}]
        /\ pc = "idle"
        /\ resume = "idle"
        /\ made = NothingMade
        /\ pre = NothingBefore
        /\ team = NoVertex
        /\ todo = {}
        /\ anyMutationDone = FALSE
        /\ newPrograms = {}

(* vertices.push_back of a vertex of kind k at address v *)
PushVertex(v, k) ==
    /\ graph' = AddVertex(graph, v, k)
    /\ before' = [before EXCEPT ![v] = Vertices(graph)]

-----------------------------------------------------------------------------
(* initRandomTPG: clear the graph, *)
StartInit(then) ==
    /\ graph' = EmptyGraph
    /\ before' = [v \in Vertex |-> {}]
    /\ made' = NothingMade
    /\ pc' = "actions"
    /\ resume' = then
    /\ UNCHANGED populateVars

InitRandomTPG == pc = "idle" /\ StartInit("idle")

(* create the actions, *)
MakeAction ==
    /\ pc = "actions"
    /\ \E v \in Allocate(FreeVertex) :
          /\ PushVertex(v, Actions[Len(made.actions) + 1])
          /\ made' = [made EXCEPT !.actions = Append(@, v)]
    /\ pc' = IF Len(made.actions) + 1 < NbActions THEN "actions" ELSE "teams"
    /\ UNCHANGED <<resume, populateVars>>

(* the teams *)
MakeTeam ==
    /\ pc = "teams"
    /\ \E v \in Allocate(FreeVertex) :
          /\ PushVertex(v, "team")
          /\ made' = [made EXCEPT !.teams = Append(@, v)]
    /\ pc' = IF Len(made.teams) + 1 < InitNbRoots THEN "teams" ELSE "programs"
    /\ UNCHANGED <<resume, populateVars>>

(* and the programs; *)
MakeProgram ==
    /\ pc = "programs"
    /\ \E p \in Allocate(FreeProgram) : made' = [made EXCEPT !.programs = Append(@, p)]
    /\ pc' = IF Len(made.programs) + 1 < 2 * InitNbRoots THEN "programs" ELSE "edges"
    /\ UNCHANGED <<graph, before, resume, populateVars>>

(* connect each team to two actions through two programs: the first teams to two
   consecutive actions, the others to random ones; *)
InitActionIndices(i) ==
    IF i < 2 * NbActions THEN {((i \div 2) + (i % 2)) % NbActions} ELSE 0 .. NbActions - 1

MakeEdge ==
    /\ pc = "edges"
    /\ LET i == made.edges
       IN  /\ \E e \in Allocate(FreeEdge), a \in InitActionIndices(i) :
                 graph' = AddNewEdge(graph, e, made.teams[(i \div 2) + 1],
                                     made.actions[a + 1], made.programs[i + 1])
           /\ pc' = IF i + 1 < 2 * InitNbRoots THEN "edges" ELSE "extra"
           /\ \E n \in 0 .. MaxInitOutgoingEdges - 2 :
                 made' = [made EXCEPT !.edges = i + 1,
                                      !.extra = IF pc' = "extra" THEN n ELSE 0]
    /\ UNCHANGED <<before, resume, populateVars>>

(* then, team by team, add edges: the less used of two programs that are not in the team,
   with the action its index stands for. *)
Uses(p) == Cardinality({e \in Edges(graph) : graph.prog[e] = p})

AvailablePrograms(t) ==
    {i \in DOMAIN made.programs : \A e \in graph.out[t] : graph.prog[e] # made.programs[i]}

SelectablePrograms(t) ==
    {i \in AvailablePrograms(t) :
        \/ AvailablePrograms(t) = {i}
        \/ \E j \in AvailablePrograms(t) \ {i} :
              Uses(made.programs[i]) <= Uses(made.programs[j])}

ExtraEdge ==
    /\ pc = "extra"
    /\ made.extra > 0
    /\ LET t == made.teams[made.current]
       IN  \E e \in Allocate(FreeEdge), i \in SelectablePrograms(t) :
              graph' = AddNewEdge(graph, e, t,
                          made.actions[((((i - 1) \div 2) + ((i - 1) % 2)) % NbActions) + 1],
                          made.programs[i])
    /\ made' = [made EXCEPT !.extra = @ - 1]
    /\ UNCHANGED <<before, pc, resume, populateVars>>

NextTeam ==
    /\ pc = "extra"
    /\ made.extra = 0
    /\ \/ /\ made.current < InitNbRoots
          /\ \E n \in 0 .. MaxInitOutgoingEdges - 2 :
                made' = [made EXCEPT !.current = @ + 1, !.extra = n]
          /\ UNCHANGED <<pc, resume>>
       \/ /\ made.current = InitNbRoots
          /\ made' = NothingMade
          /\ pc' = resume
          /\ resume' = "idle"
    /\ UNCHANGED <<graph, before, populateVars>>

-----------------------------------------------------------------------------
(* populateTPG: a graph without root team is initialized again, *)
PopulateTPG ==
    /\ pc = "idle"
    /\ IF RootTeams(graph) = {}
       THEN StartInit("populate")
       ELSE /\ pc' = "populate"
            /\ UNCHANGED <<graph, before, initVars, populateVars>>

(* what exists before the mutations is copied, *)
CopyPreExisting ==
    /\ pc = "populate"
    /\ pre' = [teams |-> {v \in Vertices(graph) : IsTeam(graph, v)},
               actions |-> {v \in Vertices(graph) : IsAction(graph, v)},
               edges |-> Edges(graph),
               roots |-> RootTeams(graph),
               nbRoots |-> Cardinality(RootVertices(graph))]
    /\ newPrograms' = {}
    /\ pc' = "loop"
    /\ UNCHANGED <<graph, before, initVars, teamVars>>

(* and while there are too few roots, *)
TooFewRoots_OneMore(n) == NbRoots >= n
TooFewRoots(n) == NbRoots > n

(* a root team is cloned: cloneVertex creates the team *)
CloneRoot ==
    /\ pc = "loop"
    /\ TooFewRoots(Cardinality(RootVertices(graph)))
    /\ \E r \in pre.roots, v \in Allocate(FreeVertex) :
          /\ PushVertex(v, "team")
          /\ team' = v
          /\ todo' = graph.out[r]
    /\ pc' = "copy"
    /\ UNCHANGED <<initVars, pre, anyMutationDone, newPrograms>>

(* and copies the edges. *)
CopyEdge ==
    /\ pc = "copy"
    /\ todo # {}
    /\ LET e == NextOf(todo)
       IN  /\ \E new \in Allocate(FreeEdge) :
                 graph' = AddNewEdge(graph, new, team, graph.dst[e], graph.prog[e])
           /\ todo' = todo \ {e}
    /\ pc' = IF todo' = {} THEN "removeFirst" ELSE "copy"
    /\ UNCHANGED <<before, initVars, pre, team, anyMutationDone, newPrograms>>

(* mutateTPGTeam, 1: remove random edges. The first is removed for sure. *)
MayRemove(n) == n > 2

RemoveRandomEdge ==
    /\ pc \in {"removeFirst", "remove"}
    /\ MayRemove(NbEdges(team))
    /\ \E e \in graph.out[team] : graph' = RemoveEdge(graph, e)
    /\ pc' = "remove"
    /\ UNCHANGED <<before, initVars, populateVars>>

StopRemoving ==
    /\ pc = "remove" \/ (pc = "removeFirst" /\ ~ MayRemove(NbEdges(team)))
    /\ pc' = "addFirst"
    /\ UNCHANGED <<graph, before, initVars, populateVars>>

(* mutateTPGTeam, 2: add random edges, copies of pre-existing ones given a new source. *)
PickableEdges_ToTeams ==
    {e \in pre.edges : graph.src[e] # team /\ graph.dst[e] \in pre.teams}
PickableEdges == {e \in pre.edges : graph.src[e] # team /\ graph.dst[e] # team}

MayAdd_OneMore(n) == n <= MaxOutgoingEdges
MayAdd(n) == n < MaxOutgoingEdges

(* cloneEdge, then setEdgeSource *)
GiveCopy_MovesIt(e, new) == SetEdgeSource(graph, e, team)
GiveCopy(e, new) ==
    SetEdgeSource(AddNewEdge(graph, new, graph.src[e], graph.dst[e], graph.prog[e]), new, team)

AddRandomEdge ==
    /\ pc \in {"addFirst", "add"}
    /\ MayAdd(NbEdges(team))
    /\ \E e \in PickableEdges, new \in Allocate(FreeEdge) : graph' = GiveCopy(e, new)
    /\ pc' = "add"
    /\ UNCHANGED <<before, initVars, populateVars>>

StopAdding ==
    /\ pc = "add" \/ (pc = "addFirst" /\ ~ MayAdd(NbEdges(team)))
    /\ pc' = "mutate"
    /\ todo' = graph.out[team]
    /\ anyMutationDone' = FALSE
    /\ UNCHANGED <<graph, before, initVars, pre, team, newPrograms>>

(* mutateTPGTeam, 3: mutateOutgoingEdge gives an edge a copy of its program, listed for
   mutation, and perhaps another destination among the pre-existing vertices. *)
Destinations_Current(e) == Vertices(graph)
Destinations(e) == {graph.dst[e]} \cup pre.teams \cup pre.actions

ProgramCopies_Shared(e) == {graph.prog[e]}
ProgramCopies(e) == Allocate(FreeProgram)

MutateOutgoingEdge ==
    /\ pc = "mutate"
    /\ todo # {}
    /\ LET e == NextOf(todo)
       IN  /\ \E p \in ProgramCopies(e), d \in Destinations(e) :
                 /\ graph' = SetEdgeDestination([graph EXCEPT !.prog[e] = p], e, d)
                 /\ newPrograms' = newPrograms \cup {p}
           /\ todo' = todo \ {e}
    /\ anyMutationDone' = TRUE
    /\ UNCHANGED <<before, pc, initVars, pre, team>>

KeepOutgoingEdge ==
    /\ pc = "mutate"
    /\ todo # {}
    /\ todo' = todo \ {NextOf(todo)}
    /\ UNCHANGED <<graph, before, pc, initVars, pre, team, anyMutationDone, newPrograms>>

(* The pass over the edges is repeated until something was mutated. *)
EndPass ==
    /\ pc = "mutate"
    /\ todo = {}
    /\ \/ /\ anyMutationDone
          /\ pc' = "loop"
          /\ team' = NoVertex
          /\ anyMutationDone' = FALSE
          /\ UNCHANGED todo
       \/ /\ ~ anyMutationDone
          /\ todo' = graph.out[team]
          /\ UNCHANGED <<pc, team, anyMutationDone>>
    /\ UNCHANGED <<graph, before, initVars, pre, newPrograms>>

EndLoop ==
    /\ pc = "loop"
    /\ ~ TooFewRoots(Cardinality(RootVertices(graph)))
    /\ pc' = "behave"
    /\ UNCHANGED <<graph, before, initVars, populateVars>>

(* mutateNewProgramBehaviors mutates the programs listed, in place, and populateTPG
   returns. *)
MutateNewProgramBehaviors ==
    /\ pc = "behave"
    /\ newPrograms' = {}
    /\ pre' = NothingBefore
    /\ pc' = "idle"
    /\ UNCHANGED <<graph, before, initVars, teamVars>>

-----------------------------------------------------------------------------
(* decimateWorstRoots and keepBestPolicy call removeVertex, for roots only. *)
RemoveRoot(v) ==
    /\ pc = "idle"
    /\ v \in RootVertices(graph)
    /\ graph' = RemoveVertex(graph, v)
    /\ before' = [w \in Vertex |-> IF w = v THEN {} ELSE before[w] \ {v}]
    /\ UNCHANGED <<pc, initVars, populateVars>>

Next ==
    \/ InitRandomTPG \/ MakeAction \/ MakeTeam \/ MakeProgram \/ MakeEdge \/ ExtraEdge \/ NextTeam
    \/ PopulateTPG \/ CopyPreExisting \/ CloneRoot \/ CopyEdge
    \/ RemoveRandomEdge \/ StopRemoving \/ AddRandomEdge \/ StopAdding
    \/ MutateOutgoingEdge \/ KeepOutgoingEdge \/ EndPass \/ EndLoop \/ MutateNewProgramBehaviors
    \/ \E v \in Vertex : RemoveRoot(v)

Spec == Init /\ [][Next]_vars

-----------------------------------------------------------------------------
Initialising == pc \in {"actions", "teams", "programs", "edges", "extra"}

(* "cycles can not appear in TPG with the current mutation process": no set of vertices
   can keep an execution inside it, so that executeFromRoot, which no longer
   excludes visited edges, reaches an action. *)
CyclesNeverAppear ==
    \A S \in (SUBSET Vertices(graph)) \ {{}} :
        \E v \in S : \A e \in graph.out[v] : graph.dst[e] \notin S

(* The reason: an edge leads to a vertex that was in the graph before its source. *)
EdgesLeadToOlder == \A e \in Edges(graph) : graph.dst[e] \in before[graph.src[e]]

(* "Keep at least two edges (otherwise the team is useless)", and never more than the
   parameters allow, in every team that is complete: evaluateTeam takes the first
   edge of the list unchecked. *)
TeamsKeepTwoEdges ==
    ~ Initialising =>
        \A v \in Vertices(graph) \ {team} :
            IsTeam(graph, v) =>
                /\ NbEdges(v) >= 2
                /\ NbEdges(v) <= MaxOutgoingEdges \/ NbEdges(v) <= MaxInitOutgoingEdges

(* "This code assumes that the set of pickable edge is never empty" (addRandomEdge) *)
PickableEdgesNeverEmpty == pc \in {"addFirst", "add"} => PickableEdges # {}

(* A program that will be mutated in place belongs to a single edge, and that of a new
   team: the mutation cannot change the behaviour of a team that was evaluated. *)
NewProgramsArePrivate ==
    \A p \in newPrograms :
        \E e \in Edges(graph) \ pre.edges :
            graph.prog[e] = p /\ \A f \in Edges(graph) : graph.prog[f] = p => f = e

(* populateTPG ends with exactly the number of roots asked for, or with those it found
   when they were more: a root subsumed by a new team is replaced. *)
PopulateReachesTarget ==
    pc = "behave" =>
        Cardinality(RootVertices(graph)) = IF pre.nbRoots > NbRoots THEN pre.nbRoots ELSE NbRoots

(* Seen by the LearningAgent, the graph changes as Population says: a team under
   construction does not exist yet, nor does a graph that initRandomTPG has not
   finished. *)
Complete == IF Initialising THEN {} ELSE Vertices(graph) \ {team}

SeenPopulation ==
    LET complete == Complete
    IN  [teams |-> {v \in complete : IsTeam(graph, v)},
         actions |-> {v \in complete : IsAction(graph, v)},
         kids |-> [v \in Vertex |-> IF v \in complete THEN {graph.dst[e] : e \in graph.out[v]}
                                    ELSE {}]]

Promise == INSTANCE Population WITH pop <- SeenPopulation

EvolvesAsPromised == Promise!Spec
=============================================================================

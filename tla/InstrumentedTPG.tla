--------------------------- MODULE InstrumentedTPG ---------------------------
(***************************************************************************)
(* TPGExecutionEngines that execute an instrumented TPGGraph at the same   *)
(* time, each in its thread, on the counters that the vertices and edges   *)
(* keep; and what TPGInstrumentedFactory does of these counters while no   *)
(* engine runs.                                                            *)
(*                                                                         *)
(* An edge is evaluated in one step: its counters are atomic, its program  *)
(* and the archive belong to the engine.                                   *)
(***************************************************************************)
EXTENDS GeneratedCode

CONSTANTS Engine,          \* the engines, one for each thread
          Inputs,          \* the graphs that are executed
          MaxInferences    \* bound: executions between two resets of the counters

(* What TPGMutator guarantees of its graphs. *)
ASSUME InputAssumption ==
    /\ IsFiniteSet(Engine)
    /\ \A g \in Inputs : /\ IsOrderedGraph(g) /\ Acyclic(g)
                         /\ \A v \in ToSet(Teams(g)) : OutgoingEdges(g, v) # <<>>
                         /\ \A e \in ToSet(g.edges) : e.prog \in Program

VARIABLES graph,         \* the TPGGraph
          visits,        \* nbVisits of each vertex
          edgeVisits,    \* nbVisits of each edge
          traversals,    \* nbTraversal of each edge
          engine,        \* local variables of executeFromRoot in each engine
          since          \* the executions that ended since the last reset (a history)

vars == <<graph, visits, edgeVisits, traversals, engine, since>>

Vertices == ToSet(graph.vertices)

Edges == ToSet(graph.edges)

Idle == [data |-> CHOOSE d \in Data : TRUE, visited |-> <<>>, next |-> 0, best |-> 0]

AllIdle == \A t \in Engine : engine[t] = Idle

Zero(S) == [x \in S |-> 0]

Init == /\ graph \in Inputs
        /\ visits = Zero(ToSet(graph.vertices))
        /\ edgeVisits = Zero({e.id : e \in ToSet(graph.edges)})
        /\ traversals = Zero({e.id : e \in ToSet(graph.edges)})
        /\ engine = [t \in Engine |-> Idle]
        /\ since = <<>>

-----------------------------------------------------------------------------
Current(t) == Last(engine[t].visited)

Out(t) == OutgoingEdges(graph, Current(t))

Running(t) == engine[t].visited # <<>>

InTeam(t) == Running(t) /\ IsTeam(graph, Current(t))

(* std::atomic ++ *)
Increment(counters, x) == [counters EXCEPT ![x] = @ + 1]

(* executeFromRoot *)
ExecuteFromRoot(t, root, d) ==
    /\ ~ Running(t)
    /\ Len(since) + Cardinality({u \in Engine : Running(u)}) < MaxInferences
    /\ engine' = [engine EXCEPT ![t] = [data |-> d, visited |-> <<root>>, next |-> 0, best |-> 0]]
    /\ UNCHANGED <<graph, visits, edgeVisits, traversals, since>>

(* evaluateTeam: the visit is counted, *)
EvaluateTeam(t) ==
    /\ InTeam(t)
    /\ engine[t].next = 0
    /\ visits' = Increment(visits, Current(t))
    /\ engine' = [engine EXCEPT ![t].next = 1, ![t].best = 1]
    /\ UNCHANGED <<graph, edgeVisits, traversals, since>>

(* and its edges are evaluated in order: the first is the best so far, another one
   replaces the best if it bids as much. *)
BidOf(t, i) == Filter(Bid[Out(t)[i].prog][engine[t].data])

EvaluateEdge(t) ==
    /\ InTeam(t)
    /\ engine[t].next \in DOMAIN Out(t)
    /\ LET i == engine[t].next
       IN  /\ edgeVisits' = Increment(edgeVisits, Out(t)[i].id)
           /\ engine' = [engine EXCEPT ![t].next = i + 1,
                             ![t].best = IF Beats(BidOf(t, i), BidOf(t, @)) THEN i ELSE @]
    /\ UNCHANGED <<graph, visits, traversals, since>>

(* The traversal of the winning edge is counted, and the execution goes to its end. *)
Traversed_Last(t) == Last(Out(t))
Traversed(t) == Out(t)[engine[t].best]

FollowEdge(t) ==
    /\ InTeam(t)
    /\ engine[t].next = Len(Out(t)) + 1
    /\ traversals' = Increment(traversals, Traversed(t).id)
    /\ engine' = [engine EXCEPT ![t].next = 0, ![t].best = 0,
                      ![t].visited = Append(@, Out(t)[engine[t].best].dst)]
    /\ UNCHANGED <<graph, visits, edgeVisits, since>>

(* The visit of the action is counted, and the execution added to the history of traces. *)
ReachAction(t) ==
    /\ Running(t) /\ ~ InTeam(t)
    /\ visits' = Increment(visits, Current(t))
    /\ since' = Append(since, [data |-> engine[t].data, trace |-> engine[t].visited])
    /\ engine' = [engine EXCEPT ![t] = Idle]
    /\ UNCHANGED <<graph, edgeVisits, traversals>>

-----------------------------------------------------------------------------
(* TPGInstrumentedFactory::resetTPGGraphCounters *)
ResetCounters ==
    /\ AllIdle
    /\ visits' = Zero(DOMAIN visits)
    /\ edgeVisits' = Zero(DOMAIN edgeVisits)
    /\ traversals' = Zero(DOMAIN traversals)
    /\ since' = <<>>
    /\ UNCHANGED <<graph, engine>>

(* TPGInstrumentedFactory::clearUnusedTPGGraphElements: the vertices that were never
   visited are removed, then the edges never traversed that are left. *)
ClearUnusedVertices(g) == RemoveVertices(g, {v \in ToSet(g.vertices) : visits[v] = 0})

Unused(e) == traversals[e.id] = 0

ClearUnusedEdges(g) == RemoveEdges(g, {e \in ToSet(g.edges) : Unused(e)})

ClearUnused ==
    /\ AllIdle
    /\ LET g == ClearUnusedEdges(ClearUnusedVertices(graph))
           left == {e.id : e \in ToSet(g.edges)}
       IN  /\ graph' = g
           /\ visits' = [v \in ToSet(g.vertices) |-> visits[v]]
           /\ edgeVisits' = [e \in left |-> edgeVisits[e]]
           /\ traversals' = [e \in left |-> traversals[e]]
    /\ UNCHANGED <<engine, since>>

Next ==
    \/ \E t \in Engine :
          \/ \E root \in ToSet(RootVertices(graph)), d \in Data : ExecuteFromRoot(t, root, d)
          \/ EvaluateTeam(t) \/ EvaluateEdge(t) \/ FollowEdge(t) \/ ReachAction(t)
    \/ ResetCounters \/ ClearUnused

Spec == Init /\ [][Next]_vars

-----------------------------------------------------------------------------
Traces == {since[i].trace : i \in DOMAIN since}

NbTraces(P(_)) == Cardinality({i \in DOMAIN since : P(since[i].trace)})

(* However the engines interleave, and also after unused elements were removed, the
   counters say what was executed: a vertex was visited by the executions whose trace it is
   in, entered once by each through an edge or as a root, and a team evaluated all its edges
   and left through one of them each time. *)
CountersMatchTraces ==
    AllIdle =>
        /\ \A v \in Vertices :
              /\ visits[v] = NbTraces(LAMBDA trace : v \in ToSet(trace))
              /\ visits[v] = NbTraces(LAMBDA trace : v = Head(trace))
                               + SumOver(ToSet(IncomingEdges(graph, v)), LAMBDA e : traversals[e.id])
        /\ \A v \in ToSet(Teams(graph)) :
              visits[v] = SumOver(ToSet(OutgoingEdges(graph, v)), LAMBDA e : traversals[e.id])
        /\ \A e \in Edges : edgeVisits[e.id] = visits[e.src]

(* Every execution since the last reset follows the winners of the graph as it is now: the
   bids that are NaN never win against others, and the removal of unused elements changes no
   execution that has been counted. *)
PoliciesAreKept ==
    AllIdle => \A i \in DOMAIN since :
                  since[i].trace = Path(graph, Head(since[i].trace), since[i].data)

(* The two kinds of generated code, of the graph and of what is left of it when unused
   elements are removed, take the decisions of the execution engine: vertices and programs
   are numbered in three different ways. *)
GeneratedCodeAgrees ==
    AllIdle /\ Compiles(graph) =>
        LET switch == SwitchCode(graph)
            stack == StackCode(graph)
        IN  \A d \in Data :
                LET action == graph.kind[Last(Path(graph, RootVertices(graph)[1], d))]
                IN  RunSwitch(switch, d) = action /\ RunStack(stack, d) = action

(* The totals that ExecutionStats computes from the counters are those of the traces. *)
StatsMatch ==
    AllIdle /\ CanBeAnalyzed(graph) =>
        LET fromCounters == GraphStats(graph, visits, edgeVisits)
            stats(i) == TraceStats(graph, since[i].trace)
        IN  /\ fromCounters.inferences = Len(since)
            /\ fromCounters.teams = SumOver(DOMAIN since, LAMBDA i : stats(i).teams)
            /\ fromCounters.programs = SumOver(DOMAIN since, LAMBDA i : stats(i).programs)
            /\ fromCounters.lines = SumOver(DOMAIN since, LAMBDA i : stats(i).lines)

(* PolicyStats scans what a root leads to once, however often its parts are shared: a team,
   an action and a program are used as often as edges of the policy say. *)
PolicyStatsCountPolicy ==
    AllIdle => \A root \in ToSet(RootVertices(graph)) :
        LET stats == AnalyzePolicy(graph, root)
            policy == Policy(graph, root)
            es == {e \in Edges : e.src \in policy}
            used(v) == IF v \in DOMAIN stats.teams THEN stats.teams[v] ELSE stats.actions[v]
        IN  /\ stats.stage = <<>>
            /\ DOMAIN stats.teams = policy \cap ToSet(Teams(graph))
            /\ DOMAIN stats.teams \cup DOMAIN stats.actions = policy
            /\ \A v \in policy : used(v) = (IF v = root THEN 1 ELSE 0)
                                             + Cardinality({e \in es : e.dst = v})
            /\ \A p \in Program : Cardinality({e \in es : e.prog = p})
                                    = (IF p \in DOMAIN stats.programs THEN stats.programs[p] ELSE 0)
            /\ policy = Within(graph, {root}, MaxPolicyDepth(stats))
            /\ MaxPolicyDepth(stats) > 1 =>
                  ~ DOMAIN stats.teams \subseteq Within(graph, {root}, MaxPolicyDepth(stats) - 2)
=============================================================================

---------------------------- MODULE ExecutionOps ----------------------------
(***************************************************************************)
(* What an execution of a TPG does with bids, and what is computed of a    *)
(* graph and of its executions: PolicyStats and ExecutionStats.            *)
(*                                                                         *)
(* A bid is a natural number, or one of the two codes below it.            *)
(***************************************************************************)
EXTENDS OrderedGraph

CONSTANTS Data,      \* states of the data sources
          Bid,       \* Bid[p][d]: what program p returns on d
          NbLines    \* NbLines[p]: number of lines of p, introns included

MinusInfinity == -1

NaN == -2

ASSUME ExecutionAssumption ==
    /\ Bid \in [Program -> [Data -> Nat \cup {MinusInfinity, NaN}]]
    /\ NbLines \in [Program -> Nat]

-----------------------------------------------------------------------------
(* evaluateEdge: a NaN is replaced. *)
Filter(bid) == IF bid = NaN THEN MinusInfinity ELSE bid

(* bid >= bestBid, on doubles *)
Beats_Strictly(bid, best) == bid > best /\ NaN \notin {bid, best}
Beats(bid, best) == bid >= best /\ NaN \notin {bid, best}

(* Reference definition: the winner of the edges es is the last of those with the highest
   bid, and an execution follows the winners. *)
Winner(es, d) ==
    LET bid(i) == IF Bid[es[i].prog][d] = NaN THEN MinusInfinity ELSE Bid[es[i].prog][d]
    IN  CHOOSE i \in DOMAIN es : \A j \in DOMAIN es : bid(j) < bid(i) \/ (bid(j) = bid(i) /\ j <= i)

Path(g, root, d) ==
    LET path[v \in ToSet(g.vertices)] ==
          IF IsAction(g, v) THEN <<v>>
          ELSE <<v>> \o path[OutgoingEdges(g, v)[Winner(OutgoingEdges(g, v), d)].dst]
    IN  path[root]

-----------------------------------------------------------------------------
(* Maps of counters: a key that is absent is created when it is counted. *)
Count(counts, k) ==
    IF k \in DOMAIN counts THEN [counts EXCEPT ![k] = @ + 1]
    ELSE [x \in DOMAIN counts \cup {k} |-> IF x = k THEN 1 ELSE counts[x]]

(* PolicyStats::analyzeTPGTeam and, for a team met for the first time, analyzeProgram of
   its edges, whose destinations make the next stage; analyzeTPGAction. *)
FirstUse_Always(stats, v) == TRUE
FirstUse(stats, v) == stats.teams[v] = 1

AnalyzeVertex(g, stats, v) ==
    IF IsAction(g, v)
    THEN [stats EXCEPT !.actions = Count(@, v), !.actionIDs = Count(@, g.kind[v])]
    ELSE LET counted == [stats EXCEPT !.teams = Count(@, v)]
             out == OutgoingEdges(g, v)
         IN  IF ~ FirstUse(counted, v) THEN counted
             ELSE [counted EXCEPT
                     !.edges = Append(@, Len(out)),
                     !.programs = FoldLeft(LAMBDA c, e : Count(c, e.prog), @, out),
                     !.next = @ \o [i \in DOMAIN out |-> out[i].dst]]

(* PolicyStats::analyzePolicy: a breadth-first scan, stage by stage.  Each team fills the
   next stage once, so that the stages are no more than the vertices and the root. *)
AnalyzeStage(g, stats) ==
    IF stats.stage = <<>> THEN stats
    ELSE LET scanned == FoldLeft(LAMBDA s, v : AnalyzeVertex(g, s, v),
                                 [stats EXCEPT !.next = <<>>], stats.stage)
         IN  [scanned EXCEPT !.levels = Append(@, Len(stats.stage)),
                             !.stage = scanned.next]

AnalyzePolicy(g, root) ==
    FoldLeft(LAMBDA stats, i : AnalyzeStage(g, stats),
             [stage |-> <<root>>, next |-> <<>>, levels |-> <<>>, edges |-> <<>>,
              teams |-> <<>>, actions |-> <<>>, actionIDs |-> <<>>, programs |-> <<>>],
             [i \in 1 .. Len(g.vertices) + 1 |-> i])

(* maxPolicyDepth *)
MaxPolicyDepth(stats) == Len(stats.levels) - 1

-----------------------------------------------------------------------------
(* ExecutionStats *)

SumOver(S, f(_)) == MapThenSumSet(f, S)

(* analyzeInferenceTrace: every team of the trace evaluates the edges that do not lead
   back to the vertices visited so far. *)
EvaluatedEdges_NotTraversed(g, trace) ==
    FlattenSeq([i \in 1 .. Len(trace) - 1 |->
        SelectIn(OutgoingEdges(g, trace[i]), {e \in ToSet(g.edges) : e.dst \notin ToSet(trace)})])
EvaluatedEdges(g, trace) ==
    FlattenSeq([i \in 1 .. Len(trace) - 1 |->
        SelectIn(OutgoingEdges(g, trace[i]),
                 {e \in ToSet(g.edges) : e.dst \notin {trace[j] : j \in 1 .. i}})])

TraceStats(g, trace) ==
    LET es == EvaluatedEdges(g, trace)
    IN  [teams |-> Len(trace) - 1, programs |-> Len(es),
         lines |-> SumOver(DOMAIN es, LAMBDA i : NbLines[es[i].prog])]

(* analyzeInstrumentedGraph: the totals that the averages are computed from; a root that
   is an action raises std::bad_cast. *)
CanBeAnalyzed(g) == \A v \in ToSet(RootVertices(g)) : IsTeam(g, v)

GraphStats(g, visits, edgeVisits) ==
    LET es == {e \in ToSet(g.edges) : edgeVisits[e.id] > 0}
    IN  [inferences |-> SumOver(ToSet(RootVertices(g)), LAMBDA v : visits[v]),
         teams |-> SumOver(ToSet(Teams(g)), LAMBDA v : visits[v]),
         programs |-> SumOver(es, LAMBDA e : edgeVisits[e.id]),
         lines |-> SumOver(es, LAMBDA e : edgeVisits[e.id] * NbLines[e.prog])]
=============================================================================

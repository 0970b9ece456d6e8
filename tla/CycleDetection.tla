--------------------------- MODULE CycleDetection ---------------------------
(***************************************************************************)
(* The CycleDetectionLALogger, which analyses the TPGGraph: a depth first  *)
(* search with an explicit stack, on which NoVertex (the null pointer)     *)
(* marks where a team leaves the current path.  The roots and the outgoing *)
(* edges of a team come in any order, that of lists of the graph.          *)
(***************************************************************************)
EXTENDS TPGGraph

ASSUME AddressAssumption == IsFiniteSet(Vertex) /\ IsFiniteSet(Edge)

OutgoingLists(g) ==
    {lists \in [Vertices(g) -> UNION {SetToSeqs(g.out[v]) : v \in Vertices(g)}] :
        \A v \in Vertices(g) : lists[v] \in SetToSeqs(g.out[v])}

(* A search: the stack lifoToVisit (its top is last), the set visitedVertices, the teams
   of currentPath, and was a cycle found? *)
StartSearch(roots) == [lifo |-> roots, visited |-> {}, path |-> <<>>, found |-> FALSE]

(* A marker is popped: the last team leaves the path. *)
LeavePath_Never(s) == [s EXCEPT !.lifo = Front(@)]
LeavePath(s) == [s EXCEPT !.lifo = Front(@), !.path = Front(@)]

(* A vertex is popped.  The edges of a team are scanned until one leads into the path. *)
DestinationsOf(g, outgoing, v) == [i \in DOMAIN outgoing[v] |-> g.dst[outgoing[v][i]]]

VisitTeam(g, outgoing, s, v) ==
    LET dsts == DestinationsOf(g, outgoing, v)
        path == Append(s.path, v)
    IN  [lifo |-> Append(Front(s.lifo), NoVertex) \o dsts,
         visited |-> s.visited \cup {v},
         path |-> path,
         found |-> \E i \in DOMAIN dsts : dsts[i] \in ToSet(path)]

VisitAction(s, v) == [s EXCEPT !.lifo = Front(@), !.visited = @ \cup {v}]

(* One pass of the loop *)
SearchStep(g, outgoing, s) ==
    LET v == Last(s.lifo)
    IN  IF v = NoVertex THEN LeavePath(s)
        ELSE IF IsTeam(g, v) THEN VisitTeam(g, outgoing, s, v)
        ELSE VisitAction(s, v)

Searches(g) ==
    [lifo : Seq(Vertices(g) \cup {NoVertex}), visited : SUBSET Vertices(g),
     path : Seq(Vertices(g)), found : BOOLEAN]

EndOfSearch(g, roots, outgoing) ==
    LET loop[s \in Searches(g)] ==
            IF s.found \/ s.lifo = <<>> THEN s ELSE loop[SearchStep(g, outgoing, s)]
    IN  loop[StartSearch(roots)]

(* logAfterPopulateTPG: is a cycle logged, and is the absence of cycles logged if
   logOnSuccess is set?  Both are when no root leads to the cycle. *)
LogAfterPopulateTPG(g, roots, outgoing) ==
    LET s == EndOfSearch(g, roots, outgoing)
        someUnvisited == Cardinality(s.visited) # Cardinality(Vertices(g))
    IN  [cycle |-> s.found \/ someUnvisited, success |-> ~ s.found]

-----------------------------------------------------------------------------
(* Reference: the vertices v leads to, in one edge or more *)
LedTo(g, v) ==
    LET next(S) == {g.dst[e] : e \in {x \in Edges(g) : g.src[x] \in S}}
        led[n \in 1 .. Cardinality(Vertex)] ==
            IF n = 1 THEN next({v}) ELSE led[n - 1] \cup next(led[n - 1])
    IN  led[Cardinality(Vertex)]

HasCycle(g) == \E v \in Vertices(g) : v \in LedTo(g, v)

(* Whatever the order of the lists, the logger says there is a cycle if and only if there
   is one: a loop of one team, a cycle that a root leads to, or one that no root leads to;
   a vertex reached along two paths is no cycle.  So it is as long as every edge is listed:
   the search walks the lists. *)
CyclesAreDetected ==
    unlisted = {} => \A roots \in SetToSeqs(RootVertices(tpg)), outgoing \in OutgoingLists(tpg) :
        LogAfterPopulateTPG(tpg, roots, outgoing).cycle <=> HasCycle(tpg)
=============================================================================

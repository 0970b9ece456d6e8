---------------------------- MODULE OrderedGraph ----------------------------
(***************************************************************************)
(* The value of a TPG::TPGGraph for the code that reads it in order: the   *)
(* execution and generation engines and the exporter.  A graph is a record *)
(* of its vertices, their kind and its edges, both lists in order.  The    *)
(* lists of edges kept in the vertices are derived: edges are appended to  *)
(* both at once, also when addRandomEdge clones an edge and moves it.      *)
(***************************************************************************)
EXTENDS Integers, SequencesExt

CONSTANTS ActionID,  \* identifiers of the actions of the environment
          Program    \* the Programs of the edges

ASSUME OrderedGraphAssumption == ActionID \subseteq Nat

(* The kind of a team, beside those of the actions *)
Team == -1

EmptyGraph == [vertices |-> <<>>, kind |-> <<>>, edges |-> <<>>]

-----------------------------------------------------------------------------
(* The elements of seq that are in S, in order *)
SelectIn(seq, S) == FoldLeft(LAMBDA kept, x : IF x \in S THEN Append(kept, x) ELSE kept, <<>>, seq)

IsTeam(g, v) == g.kind[v] = Team

IsAction(g, v) == g.kind[v] # Team

Teams(g) == SelectIn(g.vertices, {v \in ToSet(g.vertices) : IsTeam(g, v)})

OutgoingEdges(g, v) == SelectIn(g.edges, {e \in ToSet(g.edges) : e.src = v})

IncomingEdges(g, v) == SelectIn(g.edges, {e \in ToSet(g.edges) : e.dst = v})

RootVertices(g) == SelectIn(g.vertices, {v \in ToSet(g.vertices) : IncomingEdges(g, v) = <<>>})

(* addNewTeam, addNewAction *)
AddVertex(g, v, k) ==
    [g EXCEPT !.vertices = Append(@, v),
              !.kind = [w \in DOMAIN @ \cup {v} |-> IF w = v THEN k ELSE @[w]]]

(* addNewEdge between two vertices of the graph; the new edge is named id. *)
AddNewEdge(g, id, s, d, p) ==
    [g EXCEPT !.edges = Append(@, [id |-> id, src |-> s, dst |-> d, prog |-> p])]

(* removeVertex of the vertices D, removeEdge of the edges es, one after the other *)
RemoveVertices(g, D) ==
    [vertices |-> SelectIn(g.vertices, ToSet(g.vertices) \ D),
     kind |-> [w \in DOMAIN g.kind \ D |-> g.kind[w]],
     edges |-> SelectIn(g.edges, {e \in ToSet(g.edges) : {e.src, e.dst} \cap D = {}})]

RemoveEdges(g, es) == [g EXCEPT !.edges = SelectIn(@, ToSet(@) \ es)]

-----------------------------------------------------------------------------
(* Reference definitions. *)

(* The vertices that the vertices vs lead to in at most n edges *)
Within(g, vs, n) ==
    LET reach[m \in 0 .. n] ==
          IF m = 0 THEN vs
          ELSE reach[m - 1] \cup {e.dst : e \in {x \in ToSet(g.edges) : x.src \in reach[m - 1]}}
    IN  reach[n]

Policy(g, root) == Within(g, {root}, Len(g.vertices))

(* Lists of vertices and edges that go together; edges are distinct objects. *)
IsOrderedGraph(g) ==
    /\ g.vertices \in Seq(ToSet(g.vertices)) /\ g.edges \in Seq(ToSet(g.edges))
    /\ DOMAIN g.kind = ToSet(g.vertices)
    /\ \A i, j \in DOMAIN g.edges : g.edges[i].id = g.edges[j].id => i = j
    /\ \A e \in ToSet(g.edges) : {e.src, e.dst} \subseteq ToSet(g.vertices) /\ IsTeam(g, e.src)

Acyclic(g) ==
    \E rank \in [ToSet(g.vertices) -> 1 .. Len(g.vertices)] :
        \A e \in ToSet(g.edges) : rank[e.src] < rank[e.dst]
=============================================================================

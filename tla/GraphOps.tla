------------------------------ MODULE GraphOps ------------------------------
(***************************************************************************)
(* The value of a TPG::TPGGraph and what each of its methods does to it.   *)
(*                                                                         *)
(* A vertex, an edge and a Program are the addresses of the C++ objects: a *)
(* removed object leaves its address free, and a later allocation may      *)
(* return that address again.  A graph value is a record:                  *)
(*   kind[v]       "team", the actionID of a TPGAction, or NoVertex when   *)
(*                 no vertex lives at v        (list TPGGraph::vertices)   *)
(*   src, dst, prog  attributes of the TPGEdge living at e, NoVertex /     *)
(*                 NoProgram when there is none   (list TPGGraph::edges)   *)
(*   in[v], out[v] TPGVertex::incomingEdges and outgoingEdges, the second, *)
(*                 redundant representation of the same edges.             *)
(* The order of the lists is abstracted: addIncomingEdge and               *)
(* addOutgoingEdge never insert an edge twice, so they hold sets.          *)
(***************************************************************************)
EXTENDS FiniteSets

CONSTANTS Vertex,      \* addresses a TPGVertex may have
          Edge,        \* addresses a TPGEdge may have
          Program,     \* the Programs shared by edges
          ActionID,    \* identifiers of the actions of the environment
          NoVertex,    \* absence of a vertex
          NoProgram    \* absence of a program

ASSUME GraphAssumption ==
    /\ NoVertex \notin Vertex
    /\ NoProgram \notin Program
    /\ "team" \notin ActionID
    /\ NoVertex \notin ActionID \cup {"team"}

Kind == ActionID \cup {"team"}

GraphType ==
    [kind : [Vertex -> Kind \cup {NoVertex}],
     src  : [Edge -> Vertex \cup {NoVertex}],
     dst  : [Edge -> Vertex \cup {NoVertex}],
     prog : [Edge -> Program \cup {NoProgram}],
     in   : [Vertex -> SUBSET Edge],
     out  : [Vertex -> SUBSET Edge]]

(* A freshly constructed, or cleared, TPGGraph. *)
EmptyGraph ==
    [kind |-> [v \in Vertex |-> NoVertex],
     src  |-> [e \in Edge |-> NoVertex],
     dst  |-> [e \in Edge |-> NoVertex],
     prog |-> [e \in Edge |-> NoProgram],
     in   |-> [v \in Vertex |-> {}],
     out  |-> [v \in Vertex |-> {}]]

-----------------------------------------------------------------------------
(* Queries.                                                                *)

Vertices(g) == {v \in Vertex : g.kind[v] # NoVertex}

Edges(g) == {e \in Edge : g.src[e] # NoVertex}

IsTeam(g, v) == g.kind[v] = "team"

IsAction(g, v) == g.kind[v] \in ActionID

(* getRootVertices: decided on the incoming lists alone. *)
RootVertices(g) == {v \in Vertices(g) : g.in[v] = {}}

RootTeams(g) == {v \in RootVertices(g) : IsTeam(g, v)}

-----------------------------------------------------------------------------
(* Modifications.                                                          *)

(* addNewTeam, addNewAction: a vertex of kind k appears at the free address v. *)
AddVertex(g, v, k) == [g EXCEPT !.kind[v] = k]

(* edges.push_back(createTPGEdge(src, dest, prog)) *)
PushEdge(g, e, s, d, p) ==
    [g EXCEPT !.src[e] = s, !.dst[e] = d, !.prog[e] = p]

(* edges.pop_back(), edges.erase(iterator): the edge object is destroyed. *)
EraseEdge(g, e) ==
    [g EXCEPT !.src[e] = NoVertex, !.dst[e] = NoVertex, !.prog[e] = NoProgram]

(* TPGTeam accepts outgoing edges, TPGAction::addOutgoingEdge throws. *)
AcceptsOutgoing(g, v) == IsTeam(g, v)

(* addNewEdge between two vertices of the graph, the source accepting it. *)
AddNewEdge(g, e, s, d, p) ==
    [PushEdge(g, e, s, d, p) EXCEPT !.out[s] = @ \cup {e},
                                    !.in[d] = @ \cup {e}]

(* addNewEdge whose source throws: the pushed edge is popped again. *)
RejectNewEdge_NoPop(g, e, s, d, p) == PushEdge(g, e, s, d, p)
RejectNewEdge(g, e, s, d, p) == EraseEdge(PushEdge(g, e, s, d, p), e)

(* removeEdge of an edge of the graph. *)
RemoveEdge(g, e) ==
    EraseEdge([g EXCEPT !.out[g.src[e]] = @ \ {e},
                        !.in[g.dst[e]] = @ \ {e}], e)

(* The edges in the set es, each removed with removeEdge. *)
RemoveEdges(g, es) ==
    [g EXCEPT
       !.src  = [e \in Edge |-> IF e \in es THEN NoVertex ELSE g.src[e]],
       !.dst  = [e \in Edge |-> IF e \in es THEN NoVertex ELSE g.dst[e]],
       !.prog = [e \in Edge |-> IF e \in es THEN NoProgram ELSE g.prog[e]],
       !.out  = [v \in Vertex |-> g.out[v] \ {e \in es : g.src[e] = v}],
       !.in   = [v \in Vertex |-> g.in[v] \ {e \in es : g.dst[e] = v}]]

(* removeVertex: all the edges its lists name, then the vertex itself. The
   lists die with the vertex. *)
RemoveVertex_KeepsOutgoing(g, v) ==
    [RemoveEdges(g, g.in[v]) EXCEPT !.kind[v] = NoVertex,
                                    !.in[v] = {}, !.out[v] = {}]
RemoveVertex(g, v) ==
    [RemoveEdges(g, g.in[v] \cup g.out[v]) EXCEPT !.kind[v] = NoVertex,
                                                  !.in[v] = {}, !.out[v] = {}]

(* cloneVertex: a vertex of the same kind at the free address new, and for every
   outgoing edge of v one new edge with its destination and its Program. The
   function copied maps each new edge to the edge it copies. *)
CloneVertex(g, v, new, copied) ==
    LET copies == DOMAIN copied
        IsCopy(e) == e \in copies
    IN  [kind |-> [g.kind EXCEPT ![new] = g.kind[v]],
         src  |-> [e \in Edge |-> IF IsCopy(e) THEN new ELSE g.src[e]],
         dst  |-> [e \in Edge |-> IF IsCopy(e) THEN g.dst[copied[e]] ELSE g.dst[e]],
         prog |-> [e \in Edge |-> IF IsCopy(e) THEN g.prog[copied[e]] ELSE g.prog[e]],
         in   |-> [w \in Vertex |-> g.in[w] \cup {e \in copies : g.dst[copied[e]] = w}],
         out  |-> [g.out EXCEPT ![new] = copies]]

(* The ways to allocate the copies of the edges es at free addresses. *)
CopiesOf(g, es) ==
    UNION {{f \in [new -> es] : \A x, y \in new : f[x] = f[y] => x = y} :
           new \in {s \in SUBSET (Edge \ Edges(g)) : Cardinality(s) = Cardinality(es)}}

(* setEdgeDestination *)
SetEdgeDestination_KeepsOldIncoming(g, e, d) ==
    [g EXCEPT !.in[d] = @ \cup {e}, !.dst[e] = d]
SetEdgeDestination(g, e, d) ==
    [g EXCEPT !.in[g.dst[e]] = @ \ {e}, !.in[d] = @ \cup {e}, !.dst[e] = d]

(* setEdgeSource when the new source accepts the edge. *)
SetEdgeSource(g, e, s) ==
    [g EXCEPT !.out[g.src[e]] = @ \ {e}, !.out[s] = @ \cup {e}, !.src[e] = s]

(* setEdgeSource when addOutgoingEdge of the new source throws: the old source has
   already dropped the edge, which keeps it as its source. *)
RejectEdgeSource(g, e) == [g EXCEPT !.out[g.src[e]] = @ \ {e}]

-----------------------------------------------------------------------------
(* What the two representations of the edges owe each other.               *)

(* The lists of a vertex name exactly the edges that start or end there, but for the
   edges of cut, which no outgoing list names. *)
EdgeListsAgreeBut(g, cut) ==
    \A v \in Vertex : /\ g.out[v] = {e \in Edges(g) \ cut : g.src[e] = v}
                      /\ g.in[v] = {e \in Edges(g) : g.dst[e] = v}

EdgeListsAgree(g) ==
    \A v \in Vertex : /\ g.out[v] = {e \in Edges(g) : g.src[e] = v}
                      /\ g.in[v] = {e \in Edges(g) : g.dst[e] = v}

(* Every edge ends at a vertex of the graph, and starts at one of its teams unless it
   is in cut. *)
EdgesConnectBut(g, cut) ==
    /\ \A e \in Edges(g) : g.dst[e] \in Vertices(g)
    /\ \A e \in Edges(g) \ cut : IsTeam(g, g.src[e])

(* Every edge of the graph connects two vertices of the graph. *)
EndsInGraph(g) ==
    \A e \in Edges(g) : g.src[e] \in Vertices(g) /\ g.dst[e] \in Vertices(g)

(* Only teams have outgoing edges. *)
LeavesAreActions(g) == \A e \in Edges(g) : IsTeam(g, g.src[e])

(* An edge has a Program; an address no edge lives at has no attribute. *)
EdgeObjects(g) ==
    /\ \A e \in Edges(g) : g.prog[e] \in Program
    /\ \A e \in Edge \ Edges(g) : g.dst[e] = NoVertex /\ g.prog[e] = NoProgram

WellFormed(g) ==
    /\ g \in GraphType
    /\ EdgeObjects(g)
    /\ EdgeListsAgree(g)
    /\ EndsInGraph(g)
    /\ LeavesAreActions(g)
=============================================================================

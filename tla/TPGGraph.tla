------------------------------ MODULE TPGGraph ------------------------------
(***************************************************************************)
(* The public interface of TPG::TPGGraph, called in any order.             *)
(*                                                                         *)
(* A call is given addresses: the vertex or the edge it names may be in    *)
(* the graph or may have been removed, which every method tells by         *)
(* comparing pointers.  outcome records how the last call ended: "ok",     *)
(* "false" (setEdgeSource and setEdgeDestination refusing), "throw", or    *)
(* "crash" when it dereferences vertices.end(), after which nothing runs.  *)
(*                                                                         *)
(* unlisted is a history variable: the edges that a call of setEdgeSource  *)
(* took out of their source's list before it threw.  No method reads it.   *)
(***************************************************************************)
EXTENDS GraphOps, SequencesExt, Integers

VARIABLES tpg,      \* the graph, a value of GraphOps
          outcome,  \* how the last call ended
          unlisted  \* edges of the graph that are in no outgoing list

graphVars == <<tpg, outcome, unlisted>>

TypeOK == /\ tpg \in GraphType
          /\ EdgeObjects(tpg)
          /\ outcome \in {"ok", "false", "throw", "crash"}
          /\ unlisted \subseteq Edges(tpg)

UnusedVertex == Vertex \ Vertices(tpg)

UnusedEdge == Edge \ Edges(tpg)

(* After a crash no call ends. *)
Ends(how, g, lost) ==
    outcome # "crash" /\ outcome' = how /\ tpg' = g /\ unlisted' = lost

(* The edges that were removed are no longer unlisted. *)
Returns(g) == Ends("ok", g, unlisted \cap Edges(g))

Throws(g) == Ends("throw", g, unlisted)

ReturnsFalse == Ends("false", tpg, unlisted)

(* findVertex found nothing and its answer is used all the same. *)
Crashes == Ends("crash", tpg, unlisted)

SourceFound(e) == tpg.src[e] \in Vertices(tpg)

-----------------------------------------------------------------------------
GraphInit == tpg = EmptyGraph /\ outcome = "ok" /\ unlisted = {}

(* addNewTeam, addNewAction *)
NewVertex(v, k) ==
    /\ v \in UnusedVertex
    /\ Returns(AddVertex(tpg, v, k))

(* removeVertex: nothing happens for a vertex that is not in the graph; otherwise
   removeEdge looks for the source of every edge of its lists. *)
DeleteVertex(v) ==
    \/ /\ v \notin Vertices(tpg)
       /\ Returns(tpg)
    \/ /\ v \in Vertices(tpg)
       /\ \A e \in tpg.in[v] \cup tpg.out[v] : SourceFound(e)
       /\ Returns(RemoveVertex(tpg, v))
    \/ /\ v \in Vertices(tpg)
       /\ \E e \in tpg.in[v] \cup tpg.out[v] : ~ SourceFound(e)
       /\ Crashes

(* clear: removeVertex of the first vertex until none is left, in the order of the list.
   An unlisted edge goes with its destination, if its source has not gone before. *)
Clear ==
    \E order \in SetToSeqs(Vertices(tpg)) :
        IF \A e \in unlisted : \E i, j \in DOMAIN order :
               i <= j /\ order[i] = tpg.dst[e] /\ order[j] = tpg.src[e]
        THEN Returns([RemoveEdges(tpg, UNION {tpg.in[v] \cup tpg.out[v] : v \in Vertices(tpg)})
                        EXCEPT !.kind = [v \in Vertex |-> NoVertex],
                               !.in = [v \in Vertex |-> {}],
                               !.out = [v \in Vertex |-> {}]])
        ELSE Crashes

(* cloneVertex *)
Clone(v) ==
    \/ /\ v \notin Vertices(tpg)
       /\ Throws(tpg)
    \/ /\ v \in Vertices(tpg)
       /\ \E new \in UnusedVertex, copied \in CopiesOf(tpg, tpg.out[v]) :
             Returns(CloneVertex(tpg, v, new, copied))

(* addNewEdge at the free address e *)
NewEdge(e, s, d, p) ==
    /\ e \in UnusedEdge
    /\ \/ /\ ~ {s, d} \subseteq Vertices(tpg)
          /\ Throws(tpg)
       \/ /\ {s, d} \subseteq Vertices(tpg)
          /\ AcceptsOutgoing(tpg, s)
          /\ Returns(AddNewEdge(tpg, e, s, d, p))
       \/ /\ {s, d} \subseteq Vertices(tpg)
          /\ ~ AcceptsOutgoing(tpg, s)
          /\ Throws(RejectNewEdge(tpg, e, s, d, p))

(* removeEdge *)
DropEdge(e) ==
    \/ /\ e \notin Edges(tpg)
       /\ Throws(tpg)
    \/ /\ e \in Edges(tpg) /\ SourceFound(e)
       /\ Returns(RemoveEdge(tpg, e))
    \/ /\ e \in Edges(tpg) /\ ~ SourceFound(e)
       /\ Crashes

(* cloneEdge: addNewEdge with the attributes of e. *)
DuplicateEdge(e) ==
    \/ /\ e \notin Edges(tpg)
       /\ Throws(tpg)
    \/ /\ e \in Edges(tpg)
       /\ \E new \in UnusedEdge : NewEdge(new, tpg.src[e], tpg.dst[e], tpg.prog[e])

(* setEdgeDestination: the source of the edge plays no part. *)
MoveDestination(e, d) ==
    IF d \in Vertices(tpg) /\ e \in Edges(tpg)
    THEN Returns(SetEdgeDestination(tpg, e, d))
    ELSE ReturnsFalse

(* setEdgeSource: the old source drops the edge before the new one takes it, and a
   TPGAction throws. *)
MoveSource(e, s) ==
    \/ /\ ~ (s \in Vertices(tpg) /\ e \in Edges(tpg))
       /\ ReturnsFalse
    \/ /\ s \in Vertices(tpg) /\ e \in Edges(tpg)
       /\ ~ SourceFound(e)
       /\ Crashes
    \/ /\ s \in Vertices(tpg) /\ e \in Edges(tpg) /\ SourceFound(e)
       /\ AcceptsOutgoing(tpg, s)
       /\ Ends("ok", SetEdgeSource(tpg, e, s), unlisted \ {e})
    \/ /\ s \in Vertices(tpg) /\ e \in Edges(tpg) /\ SourceFound(e)
       /\ ~ AcceptsOutgoing(tpg, s)
       /\ Ends("throw", RejectEdgeSource(tpg, e), unlisted \cup {e})

GraphNext ==
    \/ \E v \in Vertex, k \in Kind : NewVertex(v, k)
    \/ \E v \in Vertex : DeleteVertex(v)
    \/ Clear
    \/ \E v \in Vertex : Clone(v)
    \/ \E e \in Edge, s, d \in Vertex, p \in Program : NewEdge(e, s, d, p)
    \/ \E e \in Edge : DropEdge(e)
    \/ \E e \in Edge : DuplicateEdge(e)
    \/ \E e \in Edge, d \in Vertex : MoveDestination(e, d)
    \/ \E e \in Edge, s \in Vertex : MoveSource(e, s)

GraphSpec == GraphInit /\ [][GraphNext]_graphVars

-----------------------------------------------------------------------------
(* The edge lists kept in the vertices and the edge list kept in the graph are the same
   graph: an edge is in the outgoing (incoming) list of a vertex exactly when the vertex
   is its source (destination).  The one exception is the edge that setEdgeSource lost when
   it threw, which is in no outgoing list until a later call gives it a team, and in the
   incoming list of its destination still.  getRootVertices, removeVertex and evaluateTeam
   trust the lists, removeEdge and the exporters trust the edges. *)
EdgeListsConsistent == EdgeListsAgreeBut(tpg, unlisted)

(* removeEdge, setEdgeSource and setEdgeDestination dereference findVertex(end of the edge)
   unchecked: every edge ends at a vertex of the graph, and starts at one of its teams as
   long as no setEdgeSource about this edge threw. *)
EdgesEndInGraph == EdgesConnectBut(tpg, unlisted)

(* A call that throws or returns false leaves the graph as it was, the edge that
   addNewEdge had already pushed included; but for the setEdgeSource that throws, which
   takes its edge out of the list of its source and changes nothing else. *)
FailedCallChangesOnlyList ==
    [][outcome' \in {"false", "throw"} =>
          \/ UNCHANGED <<tpg, unlisted>>
          \/ \E e \in Edges(tpg) : /\ tpg' = [tpg EXCEPT !.out[tpg.src[e]] = @ \ {e}]
                                   /\ unlisted' = unlisted \cup {e}]_graphVars

(* What the comments of setEdgeSource and setEdgeDestination take for granted, "finding the
   vertex should not fail": no edge of the graph is connected to a vertex that is not in
   the graph. *)
NoEdgeDangles == EndsInGraph(tpg)
=============================================================================

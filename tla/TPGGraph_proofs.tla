--------------------------- MODULE TPGGraph_proofs ---------------------------
(***************************************************************************)
(* Each modification of a TPGGraph preserves WellFormed, under the         *)
(* condition the code checks before it modifies anything.  So any sequence *)
(* of calls of the TPGGraph interface keeps the graph well formed,         *)
(* whatever the number of vertices, edges and Programs; and the            *)
(* CycleDetectionLALogger finds the cycles of every such graph.            *)
(***************************************************************************)
EXTENDS CycleDetection, FiniteSetTheorems, WellFoundedInduction, SequenceTheorems, TLAPS

USE DEF Vertices, Edges

(* A new TPGGraph is well formed. *)
LEMMA EmptyWellFormed == WellFormed(EmptyGraph)
BY GraphAssumption DEF WellFormed, EmptyGraph, GraphType, Kind, EdgeListsAgree,
   EdgeObjects, EndsInGraph, LeavesAreActions, IsTeam

(* What every sequence of calls keeps: a graph whose edges are all listed and connect two
   vertices of the graph, but for those of cut, which an exception of setEdgeSource left in
   no outgoing list. *)
WellFormedBut(g, cut) ==
    /\ g \in GraphType
    /\ EdgeObjects(g)
    /\ cut \subseteq Edges(g)
    /\ EdgeListsAgreeBut(g, cut)
    /\ EdgesConnectBut(g, cut)

KeepsBut(h, cut) == WellFormedBut(h, cut \cap Edges(h))

LEMMA WellFormedIsWhole == \A g : WellFormed(g) <=> WellFormedBut(g, {})
BY GraphAssumption DEF WellFormed, WellFormedBut, EdgeListsAgree, EdgeListsAgreeBut, EndsInGraph,
   LeavesAreActions, EdgesConnectBut, IsTeam, GraphType

(* addNewTeam and addNewAction *)
LEMMA AddVertexKeeps ==
    ASSUME NEW g, NEW cut, WellFormedBut(g, cut),
           NEW v \in Vertex, NEW k \in Kind, v \notin Vertices(g)
    PROVE  KeepsBut(AddVertex(g, v, k), cut)
<1> DEFINE h == AddVertex(g, v, k)
           kept == cut \cap Edges(h)
<1>1. h \in GraphType
  BY DEF WellFormedBut, GraphType, AddVertex
<1>2. /\ h.src = g.src /\ h.dst = g.dst /\ h.in = g.in /\ h.out = g.out
      /\ h.prog = g.prog
      /\ h.kind = [g.kind EXCEPT ![v] = k]
  BY DEF WellFormedBut, GraphType, AddVertex
<1>3. EdgeListsAgreeBut(h, kept) /\ EdgeObjects(h)
  BY <1>2 DEF WellFormedBut, EdgeListsAgreeBut, EdgeObjects
<1>4. \A w \in Vertices(g) : h.kind[w] = g.kind[w]
  BY <1>2 DEF WellFormedBut, GraphType
<1>5. EdgesConnectBut(h, kept)
  BY <1>1, <1>2, <1>4, GraphAssumption DEF WellFormedBut, GraphType, EdgesConnectBut, IsTeam
<1> QED BY <1>1, <1>3, <1>5 DEF KeepsBut, WellFormedBut

(* addNewEdge between two vertices of the graph whose source is a team *)
LEMMA AddNewEdgeKeeps ==
    ASSUME NEW g, NEW cut, WellFormedBut(g, cut),
           NEW e \in Edge, e \notin Edges(g),
           NEW s \in Vertices(g), NEW d \in Vertices(g), NEW p \in Program,
           AcceptsOutgoing(g, s)
    PROVE  KeepsBut(AddNewEdge(g, e, s, d, p), cut)
<1> DEFINE h == AddNewEdge(g, e, s, d, p)
           kept == cut \cap Edges(h)
<1>1. h \in GraphType
  <2>1. PushEdge(g, e, s, d, p) \in GraphType
    BY DEF WellFormedBut, GraphType, PushEdge
  <2> QED BY <2>1 DEF GraphType, AddNewEdge
<1>2. /\ h.kind = g.kind
      /\ h.src = [g.src EXCEPT ![e] = s]
      /\ h.dst = [g.dst EXCEPT ![e] = d]
      /\ h.prog = [g.prog EXCEPT ![e] = p]
      /\ h.out = [g.out EXCEPT ![s] = @ \cup {e}]
      /\ h.in = [g.in EXCEPT ![d] = @ \cup {e}]
  BY DEF WellFormedBut, GraphType, AddNewEdge, PushEdge
<1>3. Edges(h) = Edges(g) \cup {e}
  BY <1>2, GraphAssumption DEF WellFormedBut, GraphType
<1>4. EdgeListsAgreeBut(h, kept) /\ EdgeObjects(h)
  BY <1>2, <1>3 DEF WellFormedBut, GraphType, EdgeListsAgreeBut, EdgeObjects
<1>5. EdgesConnectBut(h, kept)
  BY <1>2, <1>3
  DEF WellFormedBut, GraphType, EdgesConnectBut, IsTeam, AcceptsOutgoing
<1> QED BY <1>1, <1>4, <1>5 DEF KeepsBut, WellFormedBut

(* addNewEdge whose source throws restores the graph. *)
LEMMA RejectNewEdgeRestores ==
    ASSUME NEW g, NEW cut, WellFormedBut(g, cut),
           NEW e \in Edge, e \notin Edges(g),
           NEW s, NEW d, NEW p
    PROVE  RejectNewEdge(g, e, s, d, p) = g
<1> DEFINE h == RejectNewEdge(g, e, s, d, p)
<1>1. /\ g.src[e] = NoVertex /\ g.dst[e] = NoVertex /\ g.prog[e] = NoProgram
      /\ g \in GraphType
  BY DEF WellFormedBut, EdgeObjects
<1>2. /\ h.kind = g.kind /\ h.in = g.in /\ h.out = g.out
      /\ h.src = [[g.src EXCEPT ![e] = s] EXCEPT ![e] = NoVertex]
      /\ h.dst = [[g.dst EXCEPT ![e] = d] EXCEPT ![e] = NoVertex]
      /\ h.prog = [[g.prog EXCEPT ![e] = p] EXCEPT ![e] = NoProgram]
  BY <1>1 DEF GraphType, RejectNewEdge, EraseEdge, PushEdge
<1>3. h.src = g.src /\ h.dst = g.dst /\ h.prog = g.prog
  BY <1>1, <1>2 DEF GraphType
<1>4. h \in GraphType
  BY <1>1 DEF GraphType, RejectNewEdge, EraseEdge, PushEdge
<1> QED BY <1>1, <1>2, <1>3, <1>4 DEF GraphType

(* The edges of es leave the graph, and with them the vertices of vs. *)
Removal(g, es, vs) ==
    [RemoveEdges(g, es) EXCEPT
       !.kind = [v \in Vertex |-> IF v \in vs THEN NoVertex ELSE g.kind[v]],
       !.in = [v \in Vertex |-> IF v \in vs THEN {}
                                ELSE g.in[v] \ {e \in es : g.dst[e] = v}],
       !.out = [v \in Vertex |-> IF v \in vs THEN {}
                                 ELSE g.out[v] \ {e \in es : g.src[e] = v}]]

(* What removeVertex and clear have in common: every edge of a vertex that leaves the
   graph leaves it too. *)
LEMMA RemovalKeeps ==
    ASSUME NEW g, NEW cut, WellFormedBut(g, cut),
           NEW es \in SUBSET Edges(g), NEW vs \in SUBSET Vertex,
           \A v \in vs : g.in[v] \cup g.out[v] \subseteq es
    PROVE  KeepsBut(Removal(g, es, vs), cut)
<1> DEFINE h == Removal(g, es, vs)
           kept == cut \cap Edges(h)
<1>1. h \in GraphType
  BY DEF WellFormedBut, GraphType, Removal, RemoveEdges
<1>2. /\ h.kind = [v \in Vertex |-> IF v \in vs THEN NoVertex ELSE g.kind[v]]
      /\ h.src = [e \in Edge |-> IF e \in es THEN NoVertex ELSE g.src[e]]
      /\ h.dst = [e \in Edge |-> IF e \in es THEN NoVertex ELSE g.dst[e]]
      /\ h.prog = [e \in Edge |-> IF e \in es THEN NoProgram ELSE g.prog[e]]
      /\ h.in = [v \in Vertex |-> IF v \in vs THEN {}
                                  ELSE g.in[v] \ {e \in es : g.dst[e] = v}]
      /\ h.out = [v \in Vertex |-> IF v \in vs THEN {}
                                   ELSE g.out[v] \ {e \in es : g.src[e] = v}]
  BY DEF WellFormedBut, GraphType, Removal, RemoveEdges
<1>3. Edges(h) = Edges(g) \ es
  BY <1>2 DEF WellFormedBut, GraphType
<1>4. \A e \in Edges(h) : /\ h.src[e] = g.src[e] /\ h.dst[e] = g.dst[e]
                          /\ g.dst[e] \notin vs
                          /\ e \notin cut => g.src[e] \notin vs
  BY <1>2, <1>3, GraphAssumption DEF WellFormedBut, GraphType, EdgeListsAgreeBut, EdgesConnectBut
<1>5. EdgeListsAgreeBut(h, kept)
  <2> SUFFICES ASSUME NEW v \in Vertex
               PROVE  /\ h.out[v] = {e \in Edges(h) \ kept : h.src[e] = v}
                      /\ h.in[v] = {e \in Edges(h) : h.dst[e] = v}
    BY DEF EdgeListsAgreeBut
  <2>1. CASE v \in vs
    BY <2>1, <1>2, <1>4
  <2>2. CASE v \notin vs
    BY <2>2, <1>2, <1>3, <1>4 DEF WellFormedBut, EdgeListsAgreeBut
  <2> QED BY <2>1, <2>2
<1>6. EdgesConnectBut(h, kept) /\ EdgeObjects(h)
  BY <1>2, <1>3, <1>4 DEF WellFormedBut, GraphType, EdgesConnectBut, IsTeam,
     EdgeObjects
<1> QED BY <1>1, <1>5, <1>6 DEF KeepsBut, WellFormedBut

(* removeVertex of a vertex of the graph *)
LEMMA RemoveVertexKeeps ==
    ASSUME NEW g, NEW cut, WellFormedBut(g, cut),
           NEW v \in Vertices(g)
    PROVE  KeepsBut(RemoveVertex(g, v), cut)
<1> DEFINE es == g.in[v] \cup g.out[v]
           r  == RemoveEdges(g, es)
           h  == Removal(g, es, {v})
<1>1. g \in GraphType /\ es \in SUBSET Edges(g)
  BY DEF WellFormedBut, EdgeListsAgreeBut
<1>2. KeepsBut(h, cut)
  <2>1. {v} \in SUBSET Vertex /\ \A w \in {v} : g.in[w] \cup g.out[w] \subseteq es
    OBVIOUS
  <2> HIDE DEF es, Edges
  <2> QED BY <1>1, <2>1, RemovalKeeps, SMT
<1>3. r \in GraphType
  BY <1>1 DEF GraphType, RemoveEdges
<1>4. /\ r.kind = g.kind
      /\ r.in = [w \in Vertex |-> g.in[w] \ {e \in es : g.dst[e] = w}]
      /\ r.out = [w \in Vertex |-> g.out[w] \ {e \in es : g.src[e] = w}]
  BY <1>1 DEF GraphType, RemoveEdges
<1> HIDE DEF r, es
<1>5. RemoveVertex(g, v) = [r EXCEPT !.kind[v] = NoVertex, !.in[v] = {}, !.out[v] = {}]
  BY DEF RemoveVertex, r, es
<1>6. /\ [r.kind EXCEPT ![v] = NoVertex] =
              [w \in Vertex |-> IF w \in {v} THEN NoVertex ELSE g.kind[w]]
      /\ [r.in EXCEPT ![v] = {}] =
              [w \in Vertex |-> IF w \in {v} THEN {}
                                ELSE g.in[w] \ {e \in es : g.dst[e] = w}]
      /\ [r.out EXCEPT ![v] = {}] =
              [w \in Vertex |-> IF w \in {v} THEN {}
                                ELSE g.out[w] \ {e \in es : g.src[e] = w}]
  BY <1>1, <1>4, ZenonT(40) DEF GraphType
<1>7. RemoveVertex(g, v) = h
  BY <1>3, <1>5, <1>6 DEF GraphType, Removal, r
<1> QED BY <1>2, <1>7

(* removeEdge of an edge of the graph *)
LEMMA RemoveEdgeKeeps ==
    ASSUME NEW g, NEW cut, WellFormedBut(g, cut),
           NEW e \in Edges(g)
    PROVE  KeepsBut(RemoveEdge(g, e), cut)
<1> DEFINE h == RemoveEdge(g, e)
           kept == cut \cap Edges(h)
<1>1. g \in GraphType /\ g.src[e] \in Vertex /\ g.dst[e] \in Vertex
  BY DEF WellFormedBut, GraphType, EdgesConnectBut
<1>2. h \in GraphType
  <2>1. [g EXCEPT !.out[g.src[e]] = @ \ {e}, !.in[g.dst[e]] = @ \ {e}] \in GraphType
    BY <1>1 DEF GraphType
  <2> QED BY <2>1, <1>1 DEF GraphType, RemoveEdge, EraseEdge
<1>3. /\ h.kind = g.kind
      /\ h.src = [g.src EXCEPT ![e] = NoVertex]
      /\ h.dst = [g.dst EXCEPT ![e] = NoVertex]
      /\ h.prog = [g.prog EXCEPT ![e] = NoProgram]
      /\ h.out = [g.out EXCEPT ![g.src[e]] = @ \ {e}]
      /\ h.in = [g.in EXCEPT ![g.dst[e]] = @ \ {e}]
  BY <1>1 DEF GraphType, RemoveEdge, EraseEdge
<1>4. Edges(h) = Edges(g) \ {e}
  BY <1>1, <1>3 DEF GraphType
<1>5. EdgeListsAgreeBut(h, kept) /\ EdgeObjects(h)
  BY <1>1, <1>3, <1>4 DEF WellFormedBut, GraphType, EdgeListsAgreeBut, EdgeObjects
<1>6. EdgesConnectBut(h, kept)
  BY <1>1, <1>3, <1>4 DEF WellFormedBut, GraphType, EdgesConnectBut, IsTeam
<1> QED BY <1>2, <1>5, <1>6 DEF KeepsBut, WellFormedBut

(* setEdgeDestination of an edge of the graph to a vertex of the graph *)
LEMMA SetEdgeDestinationKeeps ==
    ASSUME NEW g, NEW cut, WellFormedBut(g, cut),
           NEW e \in Edges(g), NEW d \in Vertices(g)
    PROVE  KeepsBut(SetEdgeDestination(g, e, d), cut)
<1> DEFINE h == SetEdgeDestination(g, e, d)
           kept == cut \cap Edges(h)
<1>1. g \in GraphType /\ g.dst[e] \in Vertex
  BY DEF WellFormedBut, EdgesConnectBut
<1>2. /\ h \in GraphType
      /\ h.kind = g.kind /\ h.src = g.src /\ h.out = g.out /\ h.prog = g.prog
      /\ h.dst = [g.dst EXCEPT ![e] = d]
      /\ h.in = [[g.in EXCEPT ![g.dst[e]] = @ \ {e}] EXCEPT ![d] = @ \cup {e}]
  BY <1>1, ZenonT(40) DEF GraphType, SetEdgeDestination
<1>3. Edges(h) = Edges(g)
  BY <1>2
<1>4. EdgeListsAgreeBut(h, kept) /\ EdgeObjects(h)
  BY <1>1, <1>2, <1>3 DEF WellFormedBut, GraphType, EdgeListsAgreeBut, EdgeObjects
<1>5. EdgesConnectBut(h, kept)
  BY <1>1, <1>2, <1>3 DEF WellFormedBut, GraphType, EdgesConnectBut, IsTeam
<1> QED BY <1>2, <1>4, <1>5 DEF KeepsBut, WellFormedBut

(* setEdgeSource of an edge of the graph to a team of the graph *)
LEMMA SetEdgeSourceKeeps ==
    ASSUME NEW g, NEW cut, WellFormedBut(g, cut),
           NEW e \in Edges(g), NEW s \in Vertices(g), IsTeam(g, s)
    PROVE  WellFormedBut(SetEdgeSource(g, e, s), cut \ {e})
<1> DEFINE h == SetEdgeSource(g, e, s)
           kept == cut \ {e}
<1>1. g \in GraphType /\ g.src[e] \in Vertex
  BY DEF WellFormedBut, GraphType
<1>2. /\ h \in GraphType
      /\ h.kind = g.kind /\ h.dst = g.dst /\ h.in = g.in /\ h.prog = g.prog
      /\ h.src = [g.src EXCEPT ![e] = s]
      /\ h.out = [[g.out EXCEPT ![g.src[e]] = @ \ {e}] EXCEPT ![s] = @ \cup {e}]
  BY <1>1, ZenonT(40) DEF GraphType, SetEdgeSource
<1>3. Edges(h) = Edges(g)
  BY <1>1, <1>2, GraphAssumption DEF GraphType
<1>4. EdgeListsAgreeBut(h, kept) /\ EdgeObjects(h)
  BY <1>1, <1>2, <1>3 DEF WellFormedBut, GraphType, EdgeListsAgreeBut, EdgeObjects
<1>5. EdgesConnectBut(h, kept)
  BY <1>1, <1>2, <1>3 DEF WellFormedBut, GraphType, EdgesConnectBut, IsTeam
<1> QED BY <1>2, <1>4, <1>5 DEF WellFormedBut

(* setEdgeSource of an edge of the graph to a vertex that throws *)
LEMMA RejectEdgeSourceCuts ==
    ASSUME NEW g, NEW cut, WellFormedBut(g, cut), NEW e \in Edges(g)
    PROVE  WellFormedBut(RejectEdgeSource(g, e), cut \cup {e})
<1> DEFINE h == RejectEdgeSource(g, e)
<1>1. g \in GraphType /\ g.src[e] \in Vertex
  BY DEF WellFormedBut, GraphType
<1>2. /\ h \in GraphType
      /\ h.kind = g.kind /\ h.src = g.src /\ h.dst = g.dst /\ h.in = g.in /\ h.prog = g.prog
      /\ h.out = [g.out EXCEPT ![g.src[e]] = @ \ {e}]
  BY <1>1 DEF GraphType, RejectEdgeSource
<1>3. Edges(h) = Edges(g)
  BY <1>2
<1>4. EdgeListsAgreeBut(h, cut \cup {e}) /\ EdgeObjects(h)
  BY <1>1, <1>2, <1>3 DEF WellFormedBut, GraphType, EdgeListsAgreeBut, EdgeObjects
<1>5. EdgesConnectBut(h, cut \cup {e})
  BY <1>1, <1>2, <1>3 DEF WellFormedBut, GraphType, EdgesConnectBut, IsTeam
<1> QED BY <1>2, <1>3, <1>4, <1>5 DEF WellFormedBut

(* cloneVertex of a vertex of the graph, the copies of its edges being allocated at
   distinct free addresses *)
LEMMA CloneVertexKeeps ==
    ASSUME NEW g, NEW cut, WellFormedBut(g, cut),
           NEW v \in Vertices(g),
           NEW new \in Vertex, new \notin Vertices(g),
           NEW copies \in SUBSET Edge, copies \cap Edges(g) = {},
           NEW copied \in [copies -> g.out[v]]
    PROVE  KeepsBut(CloneVertex(g, v, new, copied), cut)
<1> DEFINE h == CloneVertex(g, v, new, copied)
           kept == cut \cap Edges(h)
<1>1. /\ g \in GraphType /\ DOMAIN copied = copies
      /\ g.out[v] \subseteq Edges(g)
      /\ g.out[new] = {} /\ g.in[new] = {}
  BY GraphAssumption DEF WellFormedBut, EdgeListsAgreeBut, EdgesConnectBut, IsTeam
<1>2. \A e \in copies : /\ copied[e] \in Edges(g) \ cut
                        /\ g.dst[copied[e]] \in Vertices(g)
                        /\ g.src[copied[e]] = v
  BY <1>1 DEF WellFormedBut, EdgesConnectBut, EdgeListsAgreeBut
<1>3. copies = {} \/ IsTeam(g, v)
  BY <1>2 DEF WellFormedBut, EdgesConnectBut
<1>4. /\ h.kind = [g.kind EXCEPT ![new] = g.kind[v]]
      /\ h.src = [e \in Edge |-> IF e \in copies THEN new ELSE g.src[e]]
      /\ h.dst = [e \in Edge |-> IF e \in copies THEN g.dst[copied[e]] ELSE g.dst[e]]
      /\ h.prog = [e \in Edge |-> IF e \in copies THEN g.prog[copied[e]] ELSE g.prog[e]]
      /\ h.in = [w \in Vertex |-> g.in[w] \cup {e \in copies : g.dst[copied[e]] = w}]
      /\ h.out = [g.out EXCEPT ![new] = copies]
  BY <1>1 DEF CloneVertex
<1>5. h \in GraphType
  <2>1. h.kind \in [Vertex -> Kind \cup {NoVertex}] /\ h.out \in [Vertex -> SUBSET Edge]
    BY <1>1, <1>4 DEF GraphType
  <2>2. h.src \in [Edge -> Vertex \cup {NoVertex}] /\ h.dst \in [Edge -> Vertex \cup {NoVertex}]
    BY <1>1, <1>2, <1>4 DEF GraphType
  <2>3. h.prog \in [Edge -> Program \cup {NoProgram}]
    BY <1>1, <1>2, <1>4 DEF GraphType
  <2>4. h.in \in [Vertex -> SUBSET Edge]
    BY <1>1, <1>4 DEF GraphType
  <2>5. h = [kind |-> h.kind, src |-> h.src, dst |-> h.dst, prog |-> h.prog,
             in |-> h.in, out |-> h.out]
    BY DEF CloneVertex
  <2> QED BY <2>1, <2>2, <2>3, <2>4, <2>5 DEF GraphType
<1> HIDE DEF h
<1>6. Edges(h) = Edges(g) \cup copies
  BY <1>1, <1>4, GraphAssumption DEF GraphType
<1>7. EdgeObjects(h)
  <2>1. \A e \in copies : h.prog[e] \in Program
    BY <1>2, <1>4 DEF WellFormedBut, EdgeObjects
  <2>2. \A e \in Edge \ copies : h.prog[e] = g.prog[e] /\ h.dst[e] = g.dst[e]
    BY <1>4
  <2>3. Edges(g) \subseteq Edge
    OBVIOUS
  <2> HIDE DEF Edges
  <2> QED BY <1>6, <2>1, <2>2, <2>3 DEF WellFormedBut, EdgeObjects
<1>8. EdgeListsAgreeBut(h, kept)
  <2> SUFFICES ASSUME NEW w \in Vertex
               PROVE  /\ h.out[w] = {e \in Edges(h) \ kept : h.src[e] = w}
                      /\ h.in[w] = {e \in Edges(h) : h.dst[e] = w}
    BY DEF EdgeListsAgreeBut
  <2>1. /\ g.out[w] = {e \in Edges(g) \ cut : g.src[e] = w}
        /\ g.in[w] = {e \in Edges(g) : g.dst[e] = w}
        /\ Edges(g) \subseteq Edge
    BY DEF WellFormedBut, EdgeListsAgreeBut
  <2>2. \A e \in Edges(g) : h.src[e] = g.src[e] /\ h.dst[e] = g.dst[e]
    BY <1>4
  <2>3. \A e \in copies : h.src[e] = new /\ h.dst[e] = g.dst[copied[e]]
    BY <1>4
  <2>4. h.out[w] = IF w = new THEN copies ELSE g.out[w]
    BY <1>1, <1>4 DEF GraphType
  <2>5. h.in[w] = g.in[w] \cup {e \in copies : g.dst[copied[e]] = w}
    BY <1>4
  <2> HIDE DEF Edges
  <2>6. h.out[w] = {e \in Edges(h) \ kept : h.src[e] = w}
    <3>1. Edges(h) \ kept = (Edges(g) \ cut) \cup copies
      BY <1>6 DEF WellFormedBut
    <3>2. g.out[new] = {e \in Edges(g) \ cut : g.src[e] = new}
      BY DEF WellFormedBut, EdgeListsAgreeBut
    <3> QED BY <1>1, <2>1, <2>2, <2>3, <2>4, <3>1, <3>2
  <2>7. h.in[w] = {e \in Edges(h) : h.dst[e] = w}
    BY <1>6, <2>1, <2>2, <2>3, <2>5
  <2> QED BY <2>6, <2>7
<1>9. \A e \in Edges(h) : h.dst[e] \in Vertices(h)
  BY <1>1, <1>2, <1>4, <1>6, GraphAssumption DEF WellFormedBut, GraphType, EdgesConnectBut
<1>10. \A e \in Edges(h) \ kept : IsTeam(h, h.src[e])
  <2>1. \A e \in Edges(g) \ cut : IsTeam(g, g.src[e]) /\ g.src[e] # new /\ e \notin copies
    BY GraphAssumption DEF WellFormedBut, GraphType, EdgesConnectBut, IsTeam
  <2>2. \A e \in copies : IsTeam(h, h.src[e])
    BY <1>1, <1>3, <1>4 DEF GraphType, IsTeam
  <2>3. \A e \in Edges(g) \ cut : IsTeam(h, h.src[e])
    BY <1>1, <1>4, <2>1 DEF GraphType, IsTeam
  <2> QED BY <1>6, <2>2, <2>3
<1>11. EdgesConnectBut(h, kept)
  BY <1>9, <1>10 DEF EdgesConnectBut
<1> QED BY <1>5, <1>7, <1>8, <1>11 DEF KeepsBut, WellFormedBut, h
-----------------------------------------------------------------------------
(* The same of graphs whose edges are all listed, as the library's own callers make them.    *)

LEMMA AddVertexWellFormed ==
    ASSUME NEW g, WellFormed(g), NEW v \in Vertex, NEW k \in Kind, v \notin Vertices(g)
    PROVE  WellFormed(AddVertex(g, v, k))
<1>1. KeepsBut(AddVertex(g, v, k), {})
  BY WellFormedIsWhole, AddVertexKeeps
<1> QED BY <1>1, WellFormedIsWhole DEF KeepsBut

LEMMA AddNewEdgeWellFormed ==
    ASSUME NEW g, WellFormed(g), NEW e \in Edge, e \notin Edges(g),
           NEW s \in Vertices(g), NEW d \in Vertices(g), NEW p \in Program,
           AcceptsOutgoing(g, s)
    PROVE  WellFormed(AddNewEdge(g, e, s, d, p))
<1>1. KeepsBut(AddNewEdge(g, e, s, d, p), {})
  BY WellFormedIsWhole, AddNewEdgeKeeps
<1> QED BY <1>1, WellFormedIsWhole DEF KeepsBut

LEMMA RemoveVertexWellFormed ==
    ASSUME NEW g, WellFormed(g), NEW v \in Vertices(g)
    PROVE  WellFormed(RemoveVertex(g, v))
<1>1. KeepsBut(RemoveVertex(g, v), {})
  BY WellFormedIsWhole, RemoveVertexKeeps
<1> QED BY <1>1, WellFormedIsWhole DEF KeepsBut

LEMMA RemoveEdgeWellFormed ==
    ASSUME NEW g, WellFormed(g), NEW e \in Edges(g)
    PROVE  WellFormed(RemoveEdge(g, e))
<1>1. KeepsBut(RemoveEdge(g, e), {})
  BY WellFormedIsWhole, RemoveEdgeKeeps
<1> QED BY <1>1, WellFormedIsWhole DEF KeepsBut

LEMMA SetEdgeDestinationWellFormed ==
    ASSUME NEW g, WellFormed(g), NEW e \in Edges(g), NEW d \in Vertices(g)
    PROVE  WellFormed(SetEdgeDestination(g, e, d))
<1>1. KeepsBut(SetEdgeDestination(g, e, d), {})
  BY WellFormedIsWhole, SetEdgeDestinationKeeps
<1> QED BY <1>1, WellFormedIsWhole DEF KeepsBut

LEMMA SetEdgeSourceWellFormed ==
    ASSUME NEW g, WellFormed(g), NEW e \in Edges(g), NEW s \in Vertices(g), IsTeam(g, s)
    PROVE  WellFormed(SetEdgeSource(g, e, s))
<1>1. WellFormedBut(SetEdgeSource(g, e, s), {} \ {e})
  BY WellFormedIsWhole, SetEdgeSourceKeeps
<1>2. {} \ {e} = {}
  OBVIOUS
<1> QED BY <1>1, <1>2, WellFormedIsWhole

LEMMA CloneVertexWellFormed ==
    ASSUME NEW g, WellFormed(g), NEW v \in Vertices(g),
           NEW new \in Vertex, new \notin Vertices(g),
           NEW copies \in SUBSET Edge, copies \cap Edges(g) = {},
           NEW copied \in [copies -> g.out[v]]
    PROVE  WellFormed(CloneVertex(g, v, new, copied))
<1>1. KeepsBut(CloneVertex(g, v, new, copied), {})
  BY WellFormedIsWhole, CloneVertexKeeps
<1> QED BY <1>1, WellFormedIsWhole DEF KeepsBut

-----------------------------------------------------------------------------
(* What each modification does, attribute by attribute.  The proofs about   *)
(* the components that use a graph cite these, and leave the operators and  *)
(* the sets Vertices and Edges folded.                                      *)

LEMMA WellFormedFacts ==
    ASSUME NEW g, WellFormed(g)
    PROVE  /\ Vertices(g) \subseteq Vertex /\ Edges(g) \subseteq Edge
           /\ \A v \in Vertex : v \in Vertices(g) <=> g.kind[v] # NoVertex
           /\ \A v \in Vertex : g.kind[v] \in Kind \cup {NoVertex}
           /\ \A v \in Vertices(g) : IsTeam(g, v) \/ IsAction(g, v)
           /\ \A v \in Vertex : IsTeam(g, v) \/ IsAction(g, v) => v \in Vertices(g)
           /\ \A v \in Vertex : ~ (IsTeam(g, v) /\ IsAction(g, v))
           /\ \A e \in Edges(g) : /\ g.src[e] \in Vertices(g) /\ g.dst[e] \in Vertices(g)
                                  /\ IsTeam(g, g.src[e]) /\ g.prog[e] \in Program
           /\ \A v \in Vertex : /\ g.out[v] \subseteq Edges(g) /\ g.in[v] \subseteq Edges(g)
           /\ \A v \in Vertex, e \in Edges(g) : /\ e \in g.out[v] <=> g.src[e] = v
                                               /\ e \in g.in[v] <=> g.dst[e] = v
           /\ \A v \in Vertex : ~ IsTeam(g, v) => g.out[v] = {}
           /\ \A v \in Vertex : v \notin Vertices(g) => g.in[v] = {}
BY GraphAssumption DEF WellFormed, GraphType, EdgeObjects, EdgeListsAgree, EndsInGraph,
   LeavesAreActions, IsTeam, IsAction, Kind

LEMMA EmptyEffect == Vertices(EmptyGraph) = {} /\ Edges(EmptyGraph) = {}
BY DEF EmptyGraph

LEMMA AddVertexEffect ==
    ASSUME NEW g, WellFormed(g), NEW v \in Vertex, NEW k \in Kind, v \notin Vertices(g)
    PROVE  LET h == AddVertex(g, v, k)
           IN  /\ WellFormed(h)
               /\ h.src = g.src /\ h.dst = g.dst /\ h.prog = g.prog
               /\ h.in = g.in /\ h.out = g.out
               /\ Edges(h) = Edges(g)
               /\ Vertices(h) = Vertices(g) \cup {v}
               /\ h.kind[v] = k
               /\ \A w \in Vertex \ {v} : h.kind[w] = g.kind[w]
<1>1. k # NoVertex
  BY GraphAssumption DEF Kind
<1> DEFINE h == AddVertex(g, v, k)
<1>2. WellFormed(h)
  BY AddVertexWellFormed
<1>3. /\ h.src = g.src /\ h.dst = g.dst /\ h.in = g.in /\ h.out = g.out
      /\ h.prog = g.prog
      /\ h.kind = [g.kind EXCEPT ![v] = k]
  BY DEF WellFormed, GraphType, AddVertex
<1> HIDE DEF h
<1> QED BY <1>1, <1>2, <1>3 DEF WellFormed, GraphType, h

LEMMA AddNewEdgeEffect ==
    ASSUME NEW g, WellFormed(g), NEW e \in Edge, e \notin Edges(g),
           NEW s \in Vertices(g), NEW d \in Vertices(g), NEW p \in Program, IsTeam(g, s)
    PROVE  LET h == AddNewEdge(g, e, s, d, p)
           IN  /\ WellFormed(h)
               /\ h.kind = g.kind
               /\ Vertices(h) = Vertices(g)
               /\ Edges(h) = Edges(g) \cup {e}
               /\ h.src[e] = s /\ h.dst[e] = d /\ h.prog[e] = p
               /\ \A f \in Edges(g) : /\ h.src[f] = g.src[f] /\ h.dst[f] = g.dst[f]
                                      /\ h.prog[f] = g.prog[f]
               /\ h.out[s] = g.out[s] \cup {e} /\ h.in[d] = g.in[d] \cup {e}
               /\ \A v \in Vertex \ {s} : h.out[v] = g.out[v]
               /\ \A v \in Vertex \ {d} : h.in[v] = g.in[v]
<1> DEFINE h == AddNewEdge(g, e, s, d, p)
<1>1. WellFormed(h)
  BY AddNewEdgeWellFormed DEF AcceptsOutgoing
<1>2. /\ h.kind = g.kind
      /\ h.src = [g.src EXCEPT ![e] = s]
      /\ h.dst = [g.dst EXCEPT ![e] = d]
      /\ h.prog = [g.prog EXCEPT ![e] = p]
      /\ h.out = [g.out EXCEPT ![s] = @ \cup {e}]
      /\ h.in = [g.in EXCEPT ![d] = @ \cup {e}]
  BY DEF WellFormed, GraphType, AddNewEdge, PushEdge
<1> HIDE DEF h
<1> QED BY <1>1, <1>2, GraphAssumption DEF WellFormed, GraphType, h

LEMMA RemoveEdgeEffect ==
    ASSUME NEW g, WellFormed(g), NEW e \in Edges(g)
    PROVE  LET h == RemoveEdge(g, e)
           IN  /\ WellFormed(h)
               /\ h.kind = g.kind
               /\ Vertices(h) = Vertices(g)
               /\ Edges(h) = Edges(g) \ {e}
               /\ \A f \in Edges(h) : /\ h.src[f] = g.src[f] /\ h.dst[f] = g.dst[f]
                                      /\ h.prog[f] = g.prog[f]
               /\ h.out[g.src[e]] = g.out[g.src[e]] \ {e}
               /\ h.in[g.dst[e]] = g.in[g.dst[e]] \ {e}
               /\ \A v \in Vertex \ {g.src[e]} : h.out[v] = g.out[v]
               /\ \A v \in Vertex \ {g.dst[e]} : h.in[v] = g.in[v]
<1> DEFINE h == RemoveEdge(g, e)
<1>1. WellFormed(h)
  BY RemoveEdgeWellFormed
<1>2. g \in GraphType /\ g.src[e] \in Vertex /\ g.dst[e] \in Vertex
  BY DEF WellFormed, EndsInGraph
<1>3. /\ h.kind = g.kind
      /\ h.src = [g.src EXCEPT ![e] = NoVertex]
      /\ h.dst = [g.dst EXCEPT ![e] = NoVertex]
      /\ h.prog = [g.prog EXCEPT ![e] = NoProgram]
      /\ h.out = [g.out EXCEPT ![g.src[e]] = @ \ {e}]
      /\ h.in = [g.in EXCEPT ![g.dst[e]] = @ \ {e}]
  BY <1>2 DEF GraphType, RemoveEdge, EraseEdge
<1> HIDE DEF h
<1> QED BY <1>1, <1>2, <1>3, GraphAssumption DEF GraphType, h

(* setEdgeDestination of an edge that is also given the Program p *)
LEMMA RetargetEffect ==
    ASSUME NEW g, WellFormed(g), NEW e \in Edges(g), NEW d \in Vertices(g),
           NEW p \in Program
    PROVE  LET h == SetEdgeDestination([g EXCEPT !.prog[e] = p], e, d)
           IN  /\ WellFormed(h)
               /\ h.kind = g.kind /\ h.src = g.src /\ h.out = g.out
               /\ Vertices(h) = Vertices(g)
               /\ Edges(h) = Edges(g)
               /\ h.dst[e] = d /\ h.prog[e] = p
               /\ \A f \in Edges(g) \ {e} : h.dst[f] = g.dst[f] /\ h.prog[f] = g.prog[f]
               /\ e \in h.in[d]
               /\ \A v \in Vertex : h.in[v] \ {e} = g.in[v] \ {e}
<1> DEFINE m == [g EXCEPT !.prog[e] = p]
           h == SetEdgeDestination(m, e, d)
<1>1. g \in GraphType /\ g.dst[e] \in Vertex
  BY DEF WellFormed, EndsInGraph
<1>2. /\ m \in GraphType
      /\ m.kind = g.kind /\ m.src = g.src /\ m.dst = g.dst /\ m.in = g.in /\ m.out = g.out
      /\ m.prog = [g.prog EXCEPT ![e] = p]
  BY <1>1 DEF GraphType
<1> HIDE DEF m
<1>3. WellFormed(m)
  BY <1>1, <1>2 DEF WellFormed, GraphType, EdgeObjects, EdgeListsAgree, EndsInGraph,
     LeavesAreActions, IsTeam
<1>4. WellFormed(h)
  BY <1>2, <1>3, SetEdgeDestinationWellFormed
<1>5. /\ h.kind = m.kind /\ h.src = m.src /\ h.out = m.out /\ h.prog = m.prog
      /\ h.dst = [m.dst EXCEPT ![e] = d]
      /\ h.in = [[m.in EXCEPT ![m.dst[e]] = @ \ {e}] EXCEPT ![d] = @ \cup {e}]
  BY <1>1, <1>2 DEF GraphType, SetEdgeDestination
<1> HIDE DEF h
<1>6. \A v \in Vertex : h.in[v] \ {e} = g.in[v] \ {e}
  BY <1>1, <1>2, <1>5 DEF GraphType
<1>7. e \in h.in[d] /\ h.dst[e] = d /\ h.prog[e] = p
  BY <1>1, <1>2, <1>5 DEF GraphType
<1>8. h.kind = g.kind /\ h.src = g.src /\ h.out = g.out
  BY <1>2, <1>5
<1>9. \A f \in Edges(g) \ {e} : h.dst[f] = g.dst[f] /\ h.prog[f] = g.prog[f]
  BY <1>1, <1>2, <1>5 DEF GraphType
<1> QED BY <1>4, <1>6, <1>7, <1>8, <1>9 DEF h, m

(* addNewEdge keeps the type of a graph, whatever the state of its lists. *)
LEMMA NewEdgeType ==
    ASSUME NEW g \in GraphType, NEW e \in Edge, NEW s \in Vertex, NEW d \in Vertex,
           NEW p \in Program
    PROVE  AddNewEdge(g, e, s, d, p) \in GraphType
<1>1. PushEdge(g, e, s, d, p) \in GraphType
  BY DEF GraphType, PushEdge
<1> QED BY <1>1, ZenonT(40) DEF GraphType, AddNewEdge

(* cloneEdge followed by setEdgeSource: as if the copy had been created with its new
   source *)
LEMMA CloneThenMoveIsNewEdge ==
    ASSUME NEW g, WellFormed(g), NEW e \in Edges(g), NEW new \in Edge, new \notin Edges(g),
           NEW s \in Vertices(g), g.src[e] # s
    PROVE  SetEdgeSource(AddNewEdge(g, new, g.src[e], g.dst[e], g.prog[e]), new, s)
             = AddNewEdge(g, new, s, g.dst[e], g.prog[e])
<1> DEFINE a == AddNewEdge(g, new, g.src[e], g.dst[e], g.prog[e])
           b == SetEdgeSource(a, new, s)
           c == AddNewEdge(g, new, s, g.dst[e], g.prog[e])
<1>1. /\ g \in GraphType /\ g.src[e] \in Vertex /\ g.dst[e] \in Vertex
      /\ g.prog[e] \in Program /\ s \in Vertex
      /\ new \notin g.out[g.src[e]]
  BY DEF WellFormed, EndsInGraph, EdgeObjects, EdgeListsAgree
<1>2. a \in GraphType /\ c \in GraphType
  BY <1>1, NewEdgeType
<1>3. /\ a.kind = g.kind
      /\ a.src = [g.src EXCEPT ![new] = g.src[e]]
      /\ a.dst = [g.dst EXCEPT ![new] = g.dst[e]]
      /\ a.prog = [g.prog EXCEPT ![new] = g.prog[e]]
      /\ a.out = [g.out EXCEPT ![g.src[e]] = @ \cup {new}]
      /\ a.in = [g.in EXCEPT ![g.dst[e]] = @ \cup {new}]
  BY <1>1, <1>2 DEF GraphType, AddNewEdge, PushEdge
<1>4. /\ c.kind = g.kind
      /\ c.src = [g.src EXCEPT ![new] = s]
      /\ c.dst = [g.dst EXCEPT ![new] = g.dst[e]]
      /\ c.prog = [g.prog EXCEPT ![new] = g.prog[e]]
      /\ c.out = [g.out EXCEPT ![s] = @ \cup {new}]
      /\ c.in = [g.in EXCEPT ![g.dst[e]] = @ \cup {new}]
  BY <1>1, <1>2 DEF GraphType, AddNewEdge, PushEdge
<1> HIDE DEF a, c
<1>5. a.src[new] = g.src[e]
  BY <1>1, <1>2, <1>3 DEF GraphType
<1>6. /\ b \in GraphType
      /\ b.kind = a.kind /\ b.dst = a.dst /\ b.in = a.in /\ b.prog = a.prog
      /\ b.src = [a.src EXCEPT ![new] = s]
      /\ b.out = [[a.out EXCEPT ![g.src[e]] = @ \ {new}] EXCEPT ![s] = @ \cup {new}]
  <2> DEFINE taken == [a.out EXCEPT ![g.src[e]] = @ \ {new}]
             out == [taken EXCEPT ![s] = @ \cup {new}]
             src == [a.src EXCEPT ![new] = s]
  <2>1. b = [a EXCEPT !.out = out, !.src = src]
    <3>1. b = [a EXCEPT !.out[a.src[new]] = @ \ {new}, !.out[s] = @ \cup {new}, !.src[new] = s]
      BY DEF SetEdgeSource
    <3> QED BY <1>2, <1>5, <3>1 DEF GraphType
  <2>2. out \in [Vertex -> SUBSET Edge] /\ src \in [Edge -> Vertex \cup {NoVertex}]
    BY <1>1, <1>2 DEF GraphType
  <2> HIDE DEF out, src
  <2>3. /\ b \in GraphType /\ b.out = out /\ b.src = src
        /\ b.kind = a.kind /\ b.dst = a.dst /\ b.in = a.in /\ b.prog = a.prog
    BY <1>2, <2>1, <2>2 DEF GraphType
  <2> QED BY <2>3 DEF out, src
<1>7. b.src = c.src
  BY <1>1, <1>2, <1>3, <1>4, <1>6 DEF GraphType
<1>8. b.out = c.out
  BY <1>1, <1>2, <1>3, <1>4, <1>6 DEF GraphType
<1> HIDE DEF b
<1>9. b = c
  BY <1>2, <1>3, <1>4, <1>6, <1>7, <1>8 DEF GraphType
<1> QED BY <1>9 DEF a, b, c

(* removeVertex of a root *)
LEMMA RemoveRootEffect ==
    ASSUME NEW g, WellFormed(g), NEW v \in RootVertices(g)
    PROVE  LET h == RemoveVertex(g, v)
           IN  /\ WellFormed(h)
               /\ Vertices(h) = Vertices(g) \ {v}
               /\ \A w \in Vertex \ {v} : h.kind[w] = g.kind[w]
               /\ Edges(h) = Edges(g) \ g.out[v]
               /\ \A f \in Edges(h) : /\ h.src[f] = g.src[f] /\ h.dst[f] = g.dst[f]
                                      /\ h.prog[f] = g.prog[f]
               /\ \A w \in Vertex \ {v} : h.out[w] = g.out[w]
               /\ \A f \in Edges(g) : g.dst[f] # v
<1> DEFINE h == RemoveVertex(g, v)
           r == RemoveEdges(g, g.in[v] \cup g.out[v])
<1>1. v \in Vertices(g) /\ g.in[v] = {} /\ g \in GraphType
  BY DEF RootVertices, WellFormed
<1>2. WellFormed(h)
  BY <1>1, RemoveVertexWellFormed
<1>3. /\ r \in GraphType
      /\ r.kind = g.kind
      /\ r.src = [e \in Edge |-> IF e \in g.out[v] THEN NoVertex ELSE g.src[e]]
      /\ r.dst = [e \in Edge |-> IF e \in g.out[v] THEN NoVertex ELSE g.dst[e]]
      /\ r.prog = [e \in Edge |-> IF e \in g.out[v] THEN NoProgram ELSE g.prog[e]]
      /\ r.out = [w \in Vertex |-> g.out[w] \ {e \in g.in[v] \cup g.out[v] : g.src[e] = w}]
  BY <1>1 DEF GraphType, RemoveEdges
<1> HIDE DEF r
<1>4. /\ h.kind = [g.kind EXCEPT ![v] = NoVertex]
      /\ h.src = r.src /\ h.dst = r.dst /\ h.prog = r.prog
      /\ h.out = [r.out EXCEPT ![v] = {}]
  BY <1>1, <1>3 DEF GraphType, RemoveVertex, r
<1> HIDE DEF h
<1>5. \A e \in g.out[v] : g.src[e] = v
  BY <1>1 DEF WellFormed, EdgeListsAgree
<1>6. \A f \in Edges(g) : g.dst[f] # v
  BY <1>1 DEF WellFormed, EdgeListsAgree
<1>7. Edges(h) = Edges(g) \ g.out[v]
  BY <1>3, <1>4, GraphAssumption
<1>8. Vertices(h) = Vertices(g) \ {v} /\ \A w \in Vertex \ {v} : h.kind[w] = g.kind[w]
  BY <1>1, <1>4 DEF GraphType
<1>9. \A w \in Vertex \ {v} : h.out[w] = g.out[w]
  <2> SUFFICES ASSUME NEW w \in Vertex \ {v} PROVE h.out[w] = g.out[w]
    OBVIOUS
  <2>1. {e \in g.in[v] \cup g.out[v] : g.src[e] = w} = {}
    BY <1>1, <1>5
  <2>2. r.out[w] = g.out[w] \ {e \in g.in[v] \cup g.out[v] : g.src[e] = w}
    BY <1>3
  <2>3. h.out[w] = r.out[w]
    BY <1>3, <1>4 DEF GraphType
  <2> QED BY <2>1, <2>2, <2>3
<1>10. \A f \in Edges(h) : h.src[f] = g.src[f] /\ h.dst[f] = g.dst[f] /\ h.prog[f] = g.prog[f]
  BY <1>3, <1>4, <1>7
<1> QED BY <1>2, <1>6, <1>7, <1>8, <1>9, <1>10 DEF h

-----------------------------------------------------------------------------

(* The inductive invariant: the type, and the agreement of the two representations of the
   edges that each method needs to find when it starts.  A call that crashed changed
   nothing of it. *)
IndInv ==
    /\ WellFormedBut(tpg, unlisted)
    /\ outcome \in {"ok", "false", "throw", "crash"}

(* clear leaves a well formed graph: every edge is in a list of some vertex. *)
LEMMA ClearKeeps ==
    ASSUME IndInv
    PROVE  LET es == UNION {tpg.in[v] \cup tpg.out[v] : v \in Vertices(tpg)}
           IN  KeepsBut([RemoveEdges(tpg, es) EXCEPT !.kind = [v \in Vertex |-> NoVertex],
                                                     !.in = [v \in Vertex |-> {}],
                                                     !.out = [v \in Vertex |-> {}]], unlisted)
<1> DEFINE es == UNION {tpg.in[v] \cup tpg.out[v] : v \in Vertices(tpg)}
           r  == RemoveEdges(tpg, es)
<1>1. tpg \in GraphType /\ es \in SUBSET Edges(tpg)
  <2>1. \A v \in Vertex : tpg.in[v] \cup tpg.out[v] \subseteq Edges(tpg)
    BY DEF IndInv, WellFormedBut, EdgeListsAgreeBut
  <2>2. Vertices(tpg) \subseteq Vertex
    OBVIOUS
  <2> HIDE DEF Vertices, Edges
  <2> QED BY <2>1, <2>2 DEF IndInv, WellFormedBut
<1>2. \A v \in Vertex : tpg.in[v] \cup tpg.out[v] \subseteq es
  BY GraphAssumption DEF IndInv, WellFormedBut, EdgeListsAgreeBut, EdgesConnectBut, IsTeam
<1> HIDE DEF es
<1>3. KeepsBut(Removal(tpg, es, Vertex), unlisted)
  <2>1. \A v \in Vertex : v \in Vertex => tpg.in[v] \cup tpg.out[v] \subseteq es
    BY <1>2
  <2> QED BY <1>1, <1>2, RemovalKeeps DEF IndInv
<1>4. Removal(tpg, es, Vertex) =
        [r EXCEPT !.kind = [v \in Vertex |-> NoVertex],
                  !.in = [v \in Vertex |-> {}],
                  !.out = [v \in Vertex |-> {}]]
  BY DEF Removal
<1> QED BY <1>3, <1>4 DEF es

(* How a call may end *)
LEMMA EndsKeepInv ==
    /\ \A g : Returns(g) /\ KeepsBut(g, unlisted) => IndInv'
    /\ IndInv /\ (Throws(tpg) \/ ReturnsFalse \/ Crashes) => IndInv'
BY DEF Ends, Returns, Throws, ReturnsFalse, Crashes, IndInv, KeepsBut

(* Every call preserves the invariant. *)
LEMMA IndInvStep == IndInv /\ [GraphNext]_graphVars => IndInv'
<1> SUFFICES ASSUME IndInv, [GraphNext]_graphVars PROVE IndInv'
  OBVIOUS
<1>0. WellFormedBut(tpg, unlisted) /\ KeepsBut(tpg, unlisted)
  <2>1. unlisted \cap Edges(tpg) = unlisted
    BY DEF IndInv, WellFormedBut
  <2> QED BY <2>1 DEF IndInv, KeepsBut
<1> HIDE DEF Vertices, Edges
<1>1. ASSUME NEW v \in Vertex, NEW k \in Kind, NewVertex(v, k) PROVE IndInv'
  <2>1. v \notin Vertices(tpg) /\ Returns(AddVertex(tpg, v, k))
    BY <1>1 DEF NewVertex, UnusedVertex
  <2> QED BY <1>0, <2>1, AddVertexKeeps, EndsKeepInv
<1>2. ASSUME NEW v \in Vertex, DeleteVertex(v) PROVE IndInv'
  BY <1>0, <1>2, RemoveVertexKeeps, EndsKeepInv DEF DeleteVertex
<1>3. CASE Clear
  <2>1. CASE Crashes
    BY <2>1, EndsKeepInv
  <2>2. CASE ~ Crashes
    BY <1>3, <2>2, ClearKeeps, EndsKeepInv DEF Clear
  <2> QED BY <2>1, <2>2
<1>4. ASSUME NEW v \in Vertex, Clone(v) PROVE IndInv'
  <2>1. CASE Throws(tpg)
    BY <2>1, EndsKeepInv
  <2>2. CASE v \in Vertices(tpg) /\ ~ Throws(tpg)
    <3>1. PICK new \in UnusedVertex, copied \in CopiesOf(tpg, tpg.out[v]) :
             Returns(CloneVertex(tpg, v, new, copied))
      BY <1>4, <2>2 DEF Clone
    <3>2. PICK copies \in SUBSET (Edge \ Edges(tpg)) : copied \in [copies -> tpg.out[v]]
      BY <3>1 DEF CopiesOf
    <3>3. KeepsBut(CloneVertex(tpg, v, new, copied), unlisted)
      BY <1>0, <2>2, <3>1, <3>2, CloneVertexKeeps DEF UnusedVertex
    <3> QED BY <3>1, <3>3, EndsKeepInv
  <2> QED BY <1>4, <2>1, <2>2 DEF Clone
<1>5. ASSUME NEW e \in Edge, NEW s, NEW d, NEW p \in Program, NewEdge(e, s, d, p)
      PROVE  IndInv'
  <2>1. e \in Edge /\ e \notin Edges(tpg)
    BY <1>5 DEF NewEdge, UnusedEdge
  <2>2. CASE Throws(tpg)
    BY <2>2, EndsKeepInv
  <2>3. CASE {s, d} \subseteq Vertices(tpg) /\ AcceptsOutgoing(tpg, s)
             /\ Returns(AddNewEdge(tpg, e, s, d, p))
    BY <1>0, <2>1, <2>3, AddNewEdgeKeeps, EndsKeepInv
  <2>4. CASE Throws(RejectNewEdge(tpg, e, s, d, p))
    BY <1>0, <2>1, <2>4, RejectNewEdgeRestores, EndsKeepInv
  <2> QED BY <1>5, <2>2, <2>3, <2>4 DEF NewEdge
<1>6. ASSUME NEW e \in Edge, DropEdge(e) PROVE IndInv'
  BY <1>0, <1>6, RemoveEdgeKeeps, EndsKeepInv DEF DropEdge
<1>7. ASSUME NEW e \in Edge, DuplicateEdge(e) PROVE IndInv'
  <2>1. CASE Throws(tpg)
    BY <2>1, EndsKeepInv
  <2>2. CASE e \in Edges(tpg) /\ ~ Throws(tpg)
    <3>1. PICK new \in UnusedEdge : NewEdge(new, tpg.src[e], tpg.dst[e], tpg.prog[e])
      BY <1>7, <2>2 DEF DuplicateEdge
    <3>2. tpg.prog[e] \in Program
      BY <2>2 DEF IndInv, WellFormedBut, EdgeObjects
    <3> QED BY <1>5, <3>1, <3>2 DEF UnusedEdge
  <2> QED BY <1>7, <2>1, <2>2 DEF DuplicateEdge
<1>8. ASSUME NEW e \in Edge, NEW d \in Vertex, MoveDestination(e, d) PROVE IndInv'
  BY <1>0, <1>8, SetEdgeDestinationKeeps, EndsKeepInv DEF MoveDestination
<1>9. ASSUME NEW e \in Edge, NEW s \in Vertex, MoveSource(e, s) PROVE IndInv'
  <2>1. CASE ReturnsFalse \/ Crashes
    BY <2>1, EndsKeepInv
  <2>2. CASE /\ s \in Vertices(tpg) /\ e \in Edges(tpg) /\ AcceptsOutgoing(tpg, s)
             /\ Ends("ok", SetEdgeSource(tpg, e, s), unlisted \ {e})
    BY <1>0, <2>2, SetEdgeSourceKeeps DEF Ends, IndInv, AcceptsOutgoing
  <2>3. CASE /\ e \in Edges(tpg)
             /\ Ends("throw", RejectEdgeSource(tpg, e), unlisted \cup {e})
    BY <1>0, <2>3, RejectEdgeSourceCuts DEF Ends, IndInv
  <2> QED BY <1>9, <2>1, <2>2, <2>3 DEF MoveSource
<1>10. CASE UNCHANGED graphVars
  BY <1>10 DEF graphVars, IndInv
<1> QED BY <1>1, <1>2, <1>3, <1>4, <1>5, <1>6, <1>7, <1>8, <1>9, <1>10 DEF GraphNext

LEMMA IndInvInit == GraphInit => IndInv
BY EmptyWellFormed, WellFormedIsWhole DEF GraphInit, IndInv

(* However the interface is called, with calls that throw among the others, the outgoing
   and incoming lists of the vertices describe the edges of the graph, but for the edges
   that setEdgeSource lost when it threw. *)
THEOREM EdgeListsAlwaysConsistent == GraphSpec => []EdgeListsConsistent
<1>1. IndInv => EdgeListsConsistent
  BY DEF IndInv, WellFormedBut, EdgeListsConsistent
<1> QED BY <1>1, IndInvInit, IndInvStep, PTL DEF GraphSpec

(* Every edge of the graph always ends at a vertex of the graph, and starts at one of its
   teams unless setEdgeSource lost it when it threw: only for such an edge can the
   unchecked findVertex of removeEdge and of setEdgeSource fail. *)
THEOREM EdgesAlwaysEndInGraph == GraphSpec => [](EdgesEndInGraph /\ TypeOK)
<1>1. IndInv => EdgesEndInGraph /\ TypeOK
  BY DEF IndInv, WellFormedBut, EdgesEndInGraph, TypeOK
<1> QED BY <1>1, IndInvInit, IndInvStep, PTL DEF GraphSpec

(* A call that fails leaves the graph as it found it: what addNewEdge pushed before its
   source refused the edge has been popped.  The setEdgeSource that throws is the one
   exception, and changes one list of one vertex. *)
THEOREM FailuresChangeOnlyList == GraphSpec => FailedCallChangesOnlyList
<1> DEFINE Failed == outcome' \in {"false", "throw"}
           Same   == UNCHANGED <<tpg, unlisted>>
           OneListOnly == \E e \in Edges(tpg) :
                             /\ tpg' = [tpg EXCEPT !.out[tpg.src[e]] = @ \ {e}]
                             /\ unlisted' = unlisted \cup {e}
<1>1. IndInv /\ [GraphNext]_graphVars => [Failed => Same \/ OneListOnly]_graphVars
  <2> SUFFICES ASSUME IndInv, GraphNext, Failed PROVE Same \/ OneListOnly
    BY DEF graphVars
  <2> HIDE DEF Vertices, Edges
  <2> USE DEF Ends, Returns, Throws, ReturnsFalse, Crashes
  <2>1. ASSUME NEW e, NEW s, NEW d, NEW p, NewEdge(e, s, d, p) PROVE Same
    BY <2>1, RejectNewEdgeRestores DEF NewEdge, UnusedEdge, IndInv
  <2>2. ASSUME NEW v \in Vertex, DeleteVertex(v) \/ Clone(v) PROVE Same
    BY <2>2 DEF DeleteVertex, Clone
  <2>3. ASSUME NEW v \in Vertex, NEW k \in Kind, NewVertex(v, k) PROVE Same
    BY <2>3 DEF NewVertex
  <2>4. ASSUME NEW e \in Edge, DropEdge(e) PROVE Same
    BY <2>4 DEF DropEdge
  <2>5. ASSUME NEW e \in Edge, DuplicateEdge(e) PROVE Same
    BY <2>1, <2>5 DEF DuplicateEdge
  <2>6. ASSUME NEW e \in Edge, NEW d \in Vertex, MoveDestination(e, d) PROVE Same
    BY <2>6 DEF MoveDestination
  <2>7. ASSUME NEW e \in Edge, NEW s \in Vertex, MoveSource(e, s) PROVE Same \/ OneListOnly
    <3>1. CASE ReturnsFalse
      BY <3>1
    <3>2. CASE /\ e \in Edges(tpg)
               /\ Ends("throw", RejectEdgeSource(tpg, e), unlisted \cup {e})
      BY <3>2 DEF RejectEdgeSource
    <3> QED BY <2>7, <3>1, <3>2 DEF MoveSource
  <2>8. CASE Clear
    BY <2>8 DEF Clear
  <2> QED BY <2>1, <2>2, <2>3, <2>4, <2>5, <2>6, <2>7, <2>8 DEF GraphNext
<1> QED BY <1>1, IndInvInit, IndInvStep, PTL DEF GraphSpec, FailedCallChangesOnlyList

HIDE DEF Vertices, Edges

-----------------------------------------------------------------------------
(* Least elements.  They stand for induction: among the numbers, or the subsets of a finite set, at
   which something fails there would be a least one. *)

LEMMA LeastNatural ==
    ASSUME NEW T \in SUBSET Nat, T # {}
    PROVE  \E x \in T : \A y \in T : x <= y
<1> DEFINE R == OpToRel(<, Nat)
<1>1. IsWellFoundedOn(R, Nat)
  BY NatLessThanWellFounded
<1>2. \A x, y \in Nat : y < x => <<y, x>> \in R
  BY DEF OpToRel
<1> HIDE DEF R
<1>3. PICK x \in T : \A y \in T : ~ (<<y, x>> \in R)
  BY <1>1, WFMin
<1>4. ASSUME NEW y \in T PROVE x <= y
  <2>1. x \in Nat /\ y \in Nat /\ ~ (y < x)
    BY <1>2, <1>3
  <2> QED BY <2>1
<1> QED BY <1>4

(* Nothing fails if it fails neither at 0 nor first at a successor. *)
LEMMA NoFirstFailure ==
    ASSUME NEW n \in Nat, NEW T \in SUBSET (0 .. n), 0 \notin T,
           \A k \in 1 .. n : k \in T => k - 1 \in T
    PROVE  T = {}
<1> SUFFICES ASSUME T # {} PROVE FALSE
  OBVIOUS
<1>1. PICK x \in T : \A y \in T : x <= y
  <2>1. T \in SUBSET Nat
    OBVIOUS
  <2> QED BY <2>1, LeastNatural
<1>2. x \in 1 .. n
  OBVIOUS
<1>3. x - 1 \in T
  BY <1>2
<1> QED BY <1>1, <1>2, <1>3

-----------------------------------------------------------------------------
(* The vertices a vertex leads to *)

IsIteration(f, n, X, a, H) ==
    f \in [0 .. n -> X] /\ f[0] = a /\ \A i \in 1 .. n : f[i] = H[f[i - 1]]

LEMMA IterationExists ==
    ASSUME NEW n \in Nat, NEW X, NEW a \in X, NEW H \in [X -> X]
    PROVE  \E f : IsIteration(f, n, X, a, H)
<1> DEFINE Iterates(f, k) == f \in [0 .. k -> X] /\ f[0] = a /\ \A i \in 1 .. k : f[i] = H[f[i - 1]]
           B == {k \in 0 .. n : ~ \E f : Iterates(f, k)}
<1>1. 0 \notin B
  <2>1. Iterates([i \in 0 .. 0 |-> a], 0)
    OBVIOUS
  <2> QED BY <2>1
<1>2. ASSUME NEW k \in 1 .. n, k \in B PROVE k - 1 \in B
  <2> SUFFICES ASSUME NEW f, Iterates(f, k - 1) PROVE FALSE
    OBVIOUS
  <2> DEFINE h == [i \in 0 .. k |-> IF i = k THEN H[f[k - 1]] ELSE f[i]]
  <2>1. f[k - 1] \in X /\ H[f[k - 1]] \in X
    OBVIOUS
  <2>2. h \in [0 .. k -> X]
    BY <2>1
  <2>3. h[0] = a
    OBVIOUS
  <2>4. ASSUME NEW i \in 1 .. k PROVE h[i] = H[h[i - 1]]
    <3>1. i - 1 \in 0 .. k /\ i \in 0 .. k /\ i - 1 # k
      OBVIOUS
    <3>2. CASE i = k
      BY <3>1, <3>2
    <3>3. CASE i # k
      <4>1. i \in 1 .. (k - 1)
        BY <3>3
      <4> QED BY <3>1, <3>3, <4>1
    <3> QED BY <3>2, <3>3
  <2>5. Iterates(h, k)
    BY <2>2, <2>3, <2>4
  <2> HIDE DEF Iterates, h
  <2> QED BY <1>2, <2>5
<1>3. B = {}
  <2>1. B \in SUBSET (0 .. n)
    OBVIOUS
  <2> HIDE DEF B
  <2> QED BY <1>1, <1>2, <2>1, NoFirstFailure
<1>4. n \in 0 .. n /\ n \notin B
  BY <1>3
<1> QED BY <1>4 DEF IsIteration

Succ(g, v) == {g.dst[e] : e \in g.out[v]}

Followers(g, S) == {g.dst[e] : e \in {x \in Edges(g) : g.src[x] \in S}}

LEMMA SuccFacts ==
    ASSUME NEW g, WellFormed(g)
    PROVE  /\ \A v \in Vertices(g) : /\ Succ(g, v) \subseteq Vertices(g) /\ Succ(g, v) = Followers(g, {v})
                                     /\ ~ IsTeam(g, v) => Succ(g, v) = {}
           /\ \A S : Followers(g, S) \subseteq Vertices(g)
           /\ \A S, w : w \in Followers(g, S) <=> \E v \in S \cap Vertices(g) : w \in Succ(g, v)
           /\ IsFiniteSet(Vertices(g)) /\ Vertices(g) \subseteq Vertex
<1>1. /\ \A v \in Vertex : g.out[v] = {e \in Edges(g) : g.src[e] = v}
      /\ \A e \in Edges(g) : g.src[e] \in Vertices(g) /\ g.dst[e] \in Vertices(g) /\ IsTeam(g, g.src[e])
  BY DEF WellFormed, EdgeListsAgree, EndsInGraph, LeavesAreActions
<1>2. Vertices(g) \subseteq Vertex /\ IsFiniteSet(Vertex)
  BY AddressAssumption DEF Vertices
<1>3. IsFiniteSet(Vertices(g))
  BY <1>2, FS_Subset
<1> QED BY <1>1, <1>2, <1>3 DEF Succ, Followers

IsLed(f, n, g, v) ==
    /\ n \in Nat /\ n + 1 = Cardinality(Vertex) /\ f \in [0 .. n -> SUBSET Vertices(g)]
    /\ f[0] = Succ(g, v) /\ \A i \in 1 .. n : f[i] = f[i - 1] \cup Followers(g, f[i - 1])
    /\ LedTo(g, v) = f[n]

(* One more edge at a time, until nothing is added: after as many edges as there are addresses. *)
LEMMA LedToChain ==
    ASSUME NEW g, WellFormed(g), NEW v \in Vertices(g)
    PROVE  \E f, n : IsLed(f, n, g, v)
<1> DEFINE N == Cardinality(Vertex)
           X == SUBSET Vertices(g)
           H == [S \in X |-> S \cup Followers(g, S)]
<1>1. N \in Nat /\ N # 0
  <2>1. v \in Vertex /\ IsFiniteSet(Vertex)
    BY AddressAssumption, SuccFacts
  <2> QED BY <2>1, FS_CardinalityType, FS_EmptySet
<1> HIDE DEF N
<1> DEFINE n == N - 1
<1>2. n \in Nat /\ n + 1 = N
  BY <1>1
<1> HIDE DEF n
<1>3. Succ(g, v) \in X /\ H \in [X -> X]
  BY SuccFacts
<1> HIDE DEF X, H
<1>a. PICK f : IsIteration(f, n, X, Succ(g, v), H)
  BY <1>2, <1>3, IterationExists
<1>4. f \in [0 .. n -> X] /\ f[0] = Succ(g, v) /\ \A i \in 1 .. n : f[i] = H[f[i - 1]]
  BY <1>a DEF IsIteration
<1>5. ASSUME NEW i \in 1 .. n PROVE f[i] = f[i - 1] \cup Followers(g, f[i - 1])
  <2>1. i - 1 \in 0 .. n
    BY <1>2
  <2> QED BY <1>4, <2>1 DEF H
<1> DEFINE Step(d) == [m \in 1 .. N |-> IF m = 1 THEN Followers(g, {v}) ELSE d[m - 1] \cup Followers(g, d[m - 1])]
           r == CHOOSE d : d = Step(d)
           d0 == [m \in 1 .. N |-> f[m - 1]]
<1>6. LedTo(g, v) = r[N]
  BY DEF LedTo, Followers, N
<1>7. d0 = Step(d0)
  <2>1. ASSUME NEW m \in 1 .. N, m # 1 PROVE d0[m] = d0[m - 1] \cup Followers(g, d0[m - 1])
    <3>1. m - 1 \in 1 .. N /\ m - 1 \in 1 .. n
      BY <1>1, <1>2, <2>1
    <3> QED BY <1>5, <3>1
  <2>2. 1 \in 1 .. N => d0[1] = Followers(g, {v})
    BY <1>4, SuccFacts
  <2> QED BY <2>1, <2>2
<1> HIDE DEF d0
<1>8. r = Step(r)
  BY <1>7
<1> HIDE DEF r
<1>9. 1 \in 1 .. N /\ N \in 1 .. N
  BY <1>1
<1>10. r[1] = Followers(g, {v}) /\ \A m \in 1 .. N : m # 1 => r[m] = r[m - 1] \cup Followers(g, r[m - 1])
  BY <1>8, <1>9
<1> HIDE DEF Step
<1> DEFINE B == {m \in 0 .. n : r[m + 1] # f[m]}
<1>11. 0 \notin B
  BY <1>4, <1>10, SuccFacts
<1>12. ASSUME NEW m \in 1 .. n, m \in B PROVE m - 1 \in B
  <2>1. m + 1 \in 1 .. N /\ m + 1 # 1 /\ (m + 1) - 1 = m /\ m - 1 \in 0 .. n /\ (m - 1) + 1 = m
    BY <1>2
  <2>2. r[m + 1] = r[m] \cup Followers(g, r[m])
    BY <1>10, <2>1
  <2>3. f[m] = f[m - 1] \cup Followers(g, f[m - 1])
    BY <1>5
  <2> QED BY <1>12, <2>1, <2>2, <2>3
<1>13. B = {}
  <2>1. B \in SUBSET (0 .. n)
    OBVIOUS
  <2> HIDE DEF B
  <2> QED BY <1>2, <1>11, <1>12, <2>1, NoFirstFailure
<1>14. n \in 0 .. n
  BY <1>2
<1>15. LedTo(g, v) = f[n]
  BY <1>2, <1>6, <1>13, <1>14
<1>16. IsLed(f, n, g, v)
  BY <1>2, <1>4, <1>5, <1>15 DEF N, X, IsLed
<1> QED BY <1>16

LEMMA LedToFacts ==
    ASSUME NEW g, WellFormed(g), NEW v \in Vertices(g)
    PROVE  /\ LedTo(g, v) \subseteq Vertices(g) /\ Succ(g, v) \subseteq LedTo(g, v)
           /\ \A w \in LedTo(g, v) : Succ(g, w) \subseteq LedTo(g, v)
<1>0. PICK f, n : IsLed(f, n, g, v)
  BY LedToChain
<1>1. /\ n \in Nat /\ n + 1 = Cardinality(Vertex) /\ f \in [0 .. n -> SUBSET Vertices(g)]
      /\ f[0] = Succ(g, v) /\ \A i \in 1 .. n : f[i] = f[i - 1] \cup Followers(g, f[i - 1])
      /\ LedTo(g, v) = f[n]
  BY <1>0 DEF IsLed
<1>2. \A m \in 0 .. n : f[m] \subseteq Vertices(g)
  BY <1>1
<1>3. Succ(g, v) \subseteq f[n]
  <2> DEFINE B == {m \in 0 .. n : ~ (Succ(g, v) \subseteq f[m])}
  <2>1. 0 \notin B
    BY <1>1
  <2>2. ASSUME NEW m \in 1 .. n, m \in B PROVE m - 1 \in B
    BY <1>1, <2>2
  <2>3. B = {}
    <3>1. B \in SUBSET (0 .. n) /\ n \in Nat
      BY <1>1
    <3> HIDE DEF B
    <3> QED BY <2>1, <2>2, <3>1, NoFirstFailure
  <2>4. n \in 0 .. n
    BY <1>1
  <2> QED BY <2>3, <2>4
<1>4. Followers(g, f[n]) \subseteq f[n]
  <2> DEFINE Closed(m) == Followers(g, f[m]) \subseteq f[m]
             B == {m \in 0 .. n : ~ (Closed(m) \/ Cardinality(f[m]) >= m + 1)}
  <2>0. \A m \in 0 .. n : IsFiniteSet(f[m]) /\ Cardinality(f[m]) \in Nat
    <3>1. ASSUME NEW m \in 0 .. n PROVE IsFiniteSet(f[m]) /\ Cardinality(f[m]) \in Nat
      <4>1. IsFiniteSet(f[m])
        BY <1>2, SuccFacts, FS_Subset
      <4> QED BY <4>1, FS_CardinalityType
    <3> QED BY <3>1
  <2>1. 0 \notin B
    <3>1. CASE f[0] = {}
      <4>1. Followers(g, {}) = {}
        BY DEF Followers
      <4> QED BY <3>1, <4>1
    <3>2. CASE f[0] # {}
      <4>1. 0 \in 0 .. n
        BY <1>1
      <4>2. Cardinality(f[0]) \in Nat /\ Cardinality(f[0]) # 0
        BY <2>0, <3>2, <4>1, FS_EmptySet
      <4>3. Cardinality(f[0]) >= 0 + 1
        BY <4>2
      <4> QED BY <4>3
    <3> QED BY <3>1, <3>2
  <2>2. ASSUME NEW m \in 1 .. n, m \in B PROVE m - 1 \in B
    <3> DEFINE A == f[m - 1]
               C == f[m]
    <3>0. m - 1 \in 0 .. n /\ m \in 0 .. n /\ (m - 1) + 1 = m
      BY <1>1
    <3>1. C = A \cup Followers(g, A)
      BY <1>1
    <3>2. ~ (Followers(g, A) \subseteq A)
      BY <2>2, <3>1
    <3>3. IsFiniteSet(C) /\ A \subseteq C /\ A # C
      BY <2>0, <3>0, <3>1, <3>2
    <3>4. Cardinality(A) <= Cardinality(C) /\ Cardinality(A) # Cardinality(C)
      <4> HIDE DEF A, C
      <4> QED BY <3>3, FS_Subset
    <3>5. Cardinality(A) \in Nat /\ Cardinality(C) \in Nat
      BY <2>0, <3>0
    <3>6. ~ (Cardinality(C) >= m + 1)
      BY <2>2
    <3>7. ~ (Cardinality(A) >= (m - 1) + 1)
      <4> HIDE DEF A, C
      <4> QED BY <3>4, <3>5, <3>6
    <3> QED BY <3>0, <3>2, <3>7
  <2>3. B = {}
    <3>1. B \in SUBSET (0 .. n) /\ n \in Nat
      BY <1>1
    <3> HIDE DEF B
    <3> QED BY <2>1, <2>2, <3>1, NoFirstFailure
  <2>4. n \in 0 .. n
    BY <1>1
  <2>5. CASE Cardinality(f[n]) >= n + 1
    <3>1. f[n] \subseteq Vertex /\ IsFiniteSet(Vertex)
      BY <1>2, <2>4, SuccFacts, AddressAssumption
    <3>2. Cardinality(f[n]) <= Cardinality(Vertex)
      BY <3>1, FS_Subset
    <3>3. Cardinality(f[n]) = Cardinality(Vertex)
      BY <1>1, <2>0, <2>4, <2>5, <3>2
    <3>4. f[n] = Vertex
      BY <3>1, <3>3, FS_Subset
    <3> QED BY <3>4, SuccFacts
  <2> QED BY <2>3, <2>4, <2>5
<1>5. n \in 0 .. n
  BY <1>1
<1>6. \A w \in f[n] : Succ(g, w) \subseteq f[n]
  BY <1>2, <1>4, <1>5, SuccFacts
<1> QED BY <1>1, <1>2, <1>3, <1>5, <1>6

LEMMA LedToLeast ==
    ASSUME NEW g, WellFormed(g), NEW v \in Vertices(g), NEW X, Succ(g, v) \subseteq X,
           \A w \in X \cap Vertices(g) : Succ(g, w) \subseteq X
    PROVE  LedTo(g, v) \subseteq X
<1>0. PICK f, n : IsLed(f, n, g, v)
  BY LedToChain
<1>1. /\ n \in Nat /\ n + 1 = Cardinality(Vertex) /\ f \in [0 .. n -> SUBSET Vertices(g)]
      /\ f[0] = Succ(g, v) /\ \A i \in 1 .. n : f[i] = f[i - 1] \cup Followers(g, f[i - 1])
      /\ LedTo(g, v) = f[n]
  BY <1>0 DEF IsLed
<1> DEFINE B == {m \in 0 .. n : ~ (f[m] \subseteq X)}
<1>2. 0 \notin B
  BY <1>1
<1>3. ASSUME NEW m \in 1 .. n, m \in B PROVE m - 1 \in B
  <2> SUFFICES ASSUME f[m - 1] \subseteq X PROVE FALSE
    BY <1>1
  <2>1. f[m] = f[m - 1] \cup Followers(g, f[m - 1])
    BY <1>1
  <2>2. Followers(g, f[m - 1]) \subseteq X
    BY SuccFacts
  <2> QED BY <1>3, <2>1, <2>2
<1>4. B = {}
  <2>1. B \in SUBSET (0 .. n) /\ n \in Nat
    BY <1>1
  <2> HIDE DEF B
  <2> QED BY <1>2, <1>3, <2>1, NoFirstFailure
<1>5. n \in 0 .. n
  BY <1>1
<1> QED BY <1>1, <1>4, <1>5

(* A vertex leads to its destinations and to what they lead to. *)
LEMMA LedToSplit ==
    ASSUME NEW g, WellFormed(g), NEW v \in Vertices(g)
    PROVE  LedTo(g, v) = Succ(g, v) \cup UNION {LedTo(g, w) : w \in Succ(g, v)}
<1> DEFINE X == Succ(g, v) \cup UNION {LedTo(g, w) : w \in Succ(g, v)}
<1>1. Succ(g, v) \subseteq Vertices(g)
  BY SuccFacts
<1>2. LedTo(g, v) \subseteq X
  <2>1. ASSUME NEW w \in X PROVE Succ(g, w) \subseteq X
    BY <1>1, LedToFacts
  <2>2. Succ(g, v) \subseteq X
    OBVIOUS
  <2> HIDE DEF X
  <2> QED BY <2>1, <2>2, LedToLeast
<1>3. X \subseteq LedTo(g, v)
  <2>1. Succ(g, v) \subseteq LedTo(g, v) /\ \A w \in LedTo(g, v) : Succ(g, w) \subseteq LedTo(g, v)
    BY LedToFacts
  <2>2. ASSUME NEW w \in Succ(g, v) PROVE LedTo(g, w) \subseteq LedTo(g, v)
    <3>1. w \in Vertices(g) /\ Succ(g, w) \subseteq LedTo(g, v)
      BY <1>1, <2>1
    <3> QED BY <2>1, <3>1, LedToLeast
  <2> QED BY <2>1, <2>2
<1> QED BY <1>2, <1>3

LEMMA LedToTransitive ==
    ASSUME NEW g, WellFormed(g), NEW v \in Vertices(g), NEW w \in LedTo(g, v)
    PROVE  LedTo(g, w) \subseteq LedTo(g, v)
<1>1. w \in Vertices(g) /\ \A x \in LedTo(g, v) : Succ(g, x) \subseteq LedTo(g, v)
  BY LedToFacts
<1> QED BY <1>1, LedToLeast

(* Vertices each of which another one of them leads to: some are on a cycle. *)
LEMMA CycleWithoutStart ==
    ASSUME NEW g, WellFormed(g), NEW U \in SUBSET Vertices(g), U # {},
           \A u \in U : \E x \in U : u \in Succ(g, x)
    PROVE  HasCycle(g)
<1> SUFFICES ASSUME ~ HasCycle(g) PROVE FALSE
  OBVIOUS
<1> DEFINE Before(u) == {x \in U : u \in LedTo(g, x)}
           T == {Cardinality(Before(u)) : u \in U}
<1>1. ASSUME NEW u \in U PROVE IsFiniteSet(Before(u)) /\ Cardinality(Before(u)) \in Nat
  <2>1. IsFiniteSet(Vertices(g)) /\ Before(u) \subseteq Vertices(g)
    BY SuccFacts
  <2>2. IsFiniteSet(Before(u))
    BY <2>1, FS_Subset
  <2> QED BY <2>2, FS_CardinalityType
<1>2. PICK n \in T : \A m \in T : n <= m
  <2>1. T \in SUBSET Nat /\ T # {}
    BY <1>1
  <2> HIDE DEF T
  <2> QED BY <2>1, LeastNatural
<1>3. PICK u \in U : n = Cardinality(Before(u))
  OBVIOUS
<1>4. PICK x \in U : u \in Succ(g, x)
  OBVIOUS
<1>5. x \in Before(u) /\ x \notin Before(x)
  <2>1. u \in LedTo(g, x)
    BY <1>4, LedToFacts
  <2>2. x \notin LedTo(g, x)
    BY DEF HasCycle
  <2> QED BY <2>1, <2>2
<1>6. Before(x) \subseteq Before(u)
  <2>1. ASSUME NEW y \in U, x \in LedTo(g, y) PROVE u \in LedTo(g, y)
    BY <1>4, <2>1, LedToFacts
  <2> QED BY <2>1
<1>7. Cardinality(Before(x)) <= Cardinality(Before(u)) /\ Cardinality(Before(x)) # Cardinality(Before(u))
  <2>1. IsFiniteSet(Before(u)) /\ Before(x) # Before(u)
    BY <1>1, <1>5
  <2> HIDE DEF Before
  <2> QED BY <1>6, <2>1, FS_Subset
<1>8. n <= Cardinality(Before(x))
  BY <1>2
<1>9. Cardinality(Before(x)) \in Nat /\ Cardinality(Before(u)) \in Nat
  BY <1>1
<1> HIDE DEF Before, T
<1> QED BY <1>3, <1>7, <1>8, <1>9

-----------------------------------------------------------------------------
(* The loop of the search *)

(* Whatever a step does, there is a function that says where the steps end, if they do. *)
LEMMA LoopExists ==
    ASSUME NEW S, NEW E \in SUBSET S, NEW H \in [S -> S]
    PROVE  \E f : f = [s \in S |-> IF s \in E THEN s ELSE f[H[s]]]
<1> DEFINE Backward(X) == \A u \in S : u \notin E /\ H[u] \in X => u \in X
           Leads(s, t) == t \in E /\ \A X \in SUBSET S : t \in X /\ Backward(X) => s \in X
           f == [s \in S |-> CHOOSE t : Leads(s, t)]
<1>1. ASSUME NEW s \in E, NEW t PROVE Leads(s, t) <=> t = s
  <2>1. ASSUME Leads(s, t) PROVE t = s
    <3> DEFINE X == {t} \cup (S \ E)
    <3>1. X \in SUBSET S /\ t \in X
      BY <2>1
    <3>2. Backward(X)
      OBVIOUS
    <3>3. s \in X
      BY <2>1, <3>1, <3>2
    <3> QED BY <3>3
  <2>2. Leads(s, s)
    OBVIOUS
  <2> QED BY <2>1, <2>2
<1>2. ASSUME NEW s \in S \ E, NEW t PROVE Leads(s, t) <=> Leads(H[s], t)
  <2>0. H[s] \in S
    OBVIOUS
  <2>1. ASSUME Leads(H[s], t) PROVE Leads(s, t)
    <3>1. ASSUME NEW X \in SUBSET S, t \in X, Backward(X) PROVE s \in X
      <4>1. H[s] \in X
        BY <2>1, <3>1
      <4> QED BY <3>1, <4>1
    <3> QED BY <2>1, <3>1
  <2>2. ASSUME Leads(s, t) PROVE Leads(H[s], t)
    <3>1. ASSUME NEW X \in SUBSET S, t \in X, Backward(X) PROVE H[s] \in X
      <4> DEFINE Y == {u \in X : u = t \/ (u \notin E /\ H[u] \in X)}
      <4>1. Y \in SUBSET S /\ t \in Y
        BY <3>1
      <4>2. Backward(Y)
        BY <3>1
      <4>3. s \in Y
        BY <2>2, <4>1, <4>2
      <4>4. s # t
        BY <2>2
      <4> QED BY <4>3, <4>4
    <3> QED BY <2>2, <3>1
  <2> QED BY <2>1, <2>2
<1> HIDE DEF Leads
<1>3. ASSUME NEW s \in S PROVE f[s] = IF s \in E THEN s ELSE f[H[s]]
  <2>1. CASE s \in E
    <3>1. (CHOOSE t : Leads(s, t)) = s
      BY <1>1, <2>1
    <3> QED BY <2>1, <3>1
  <2>2. CASE s \notin E
    <3>1. (CHOOSE t : Leads(s, t)) = (CHOOSE t : Leads(H[s], t))
      BY <1>2, <2>2
    <3>2. H[s] \in S
      OBVIOUS
    <3>3. f[s] = (CHOOSE t : Leads(s, t)) /\ f[H[s]] = (CHOOSE t : Leads(H[s], t))
      BY <3>2
    <3> HIDE DEF f
    <3> QED BY <2>2, <3>1, <3>3
  <2> QED BY <2>1, <2>2
<1> HIDE DEF f
<1>4. f = [s \in S |-> IF s \in E THEN s ELSE f[H[s]]]
  <2>1. DOMAIN f = S /\ f = [s \in DOMAIN f |-> f[s]]
    BY DEF f
  <2> QED BY <1>3, <2>1
<1> QED BY <1>4

LEMMA ListOfSet ==
    ASSUME NEW S, IsFiniteSet(S), NEW q \in SetToSeqs(S)
    PROVE  q \in Seq(S) /\ ToSet(q) = S
<1>1. Cardinality(S) \in Nat
  BY FS_CardinalityType
<1> DEFINE D == 1 .. Cardinality(S)
<1>2. q \in [D -> S] /\ \A i, j \in D : i # j => q[i] # q[j]
  BY DEF SetToSeqs
<1>3. q \in Injection(D, S)
  BY <1>2 DEF Injection, IsInjective
<1>4. Cardinality(D) = Cardinality(S)
  BY <1>1, FS_Interval
<1>5. q \in Surjection(D, S)
  <2> HIDE DEF D
  <2> QED BY <1>3, <1>4, FS_Injection
<1>6. ToSet(q) = S
  <2> HIDE DEF D
  <2> QED BY <1>2, <1>5 DEF Surjection, ToSet
<1> QED BY <1>1, <1>2, <1>6

LEMMA DestinationsFacts ==
    ASSUME NEW g, WellFormed(g), NEW outgoing \in OutgoingLists(g), NEW v \in Vertices(g)
    PROVE  DestinationsOf(g, outgoing, v) \in Seq(Vertices(g)) /\ ToSet(DestinationsOf(g, outgoing, v)) = Succ(g, v)
<1> DEFINE q == outgoing[v]
           d == DestinationsOf(g, outgoing, v)
<1>1. IsFiniteSet(g.out[v]) /\ \A e \in g.out[v] : g.dst[e] \in Vertices(g)
  <2>1. /\ g.out[v] = {e \in Edges(g) : g.src[e] = v} /\ \A e \in Edges(g) : g.dst[e] \in Vertices(g)
        /\ Edges(g) \subseteq Edge /\ IsFiniteSet(Edge)
    BY AddressAssumption, SuccFacts DEF WellFormed, EdgeListsAgree, EndsInGraph, Edges
  <2>2. g.out[v] \subseteq Edge
    BY <2>1
  <2> QED BY <2>1, <2>2, FS_Subset
<1>2. q \in SetToSeqs(g.out[v])
  BY DEF OutgoingLists
<1> HIDE DEF q
<1>3. q \in Seq(g.out[v]) /\ ToSet(q) = g.out[v]
  BY <1>1, <1>2, ListOfSet
<1>4. Len(q) \in Nat /\ DOMAIN q = 1 .. Len(q) /\ \A i \in DOMAIN q : q[i] \in g.out[v]
  BY <1>3, LenProperties
<1>5. d = [i \in 1 .. Len(q) |-> g.dst[q[i]]]
  BY <1>4 DEF DestinationsOf, q
<1> HIDE DEF d
<1>6. d \in Seq(Vertices(g))
  BY <1>1, <1>4, <1>5
<1>7. ToSet(d) = Succ(g, v)
  BY <1>3, <1>4, <1>5 DEF ToSet, Succ
<1> QED BY <1>6, <1>7 DEF d

LEMMA StackFacts ==
    ASSUME NEW S, NEW q \in Seq(S)
    PROVE  /\ Front(q) \in Seq(S)
           /\ q # <<>> => Last(q) \in S
           /\ \A x : Front(Append(q, x)) = q /\ Last(Append(q, x)) = x /\ Append(q, x) # <<>>
           /\ \A x : Append(q, x) = q \o <<x>> /\ ToSet(Append(q, x)) = ToSet(q) \cup {x}
           /\ ToSet(q) \subseteq S
           /\ \A r \in Seq(S) : q \o r \in Seq(S)
           /\ \A x \in S : Append(q, x) \in Seq(S)
           /\ q # <<>> => q = Append(Front(q), Last(q)) /\ Len(Front(q)) = Len(q) - 1 /\ Len(q) \in Nat \ {0}
<1>1. Len(q) \in Nat /\ DOMAIN q = 1 .. Len(q) /\ \A i \in 1 .. Len(q) : q[i] \in S
  BY LenProperties
<1>2. Front(q) \in Seq(S)
  <2>1. CASE q = <<>>
    BY <2>1 DEF Front
  <2>2. CASE q # <<>>
    BY <1>1, <2>2 DEF Front
  <2> QED BY <2>1, <2>2
<1>3. q # <<>> => Last(q) \in S
  BY <1>1 DEF Last
<1>4. ASSUME NEW x
      PROVE  Front(Append(q, x)) = q /\ Last(Append(q, x)) = x /\ Append(q, x) # <<>>
  BY <1>1 DEF Front, Last
<1>5. ASSUME NEW x PROVE Append(q, x) = q \o <<x>>
  BY <1>1
<1>6. ASSUME NEW x PROVE ToSet(Append(q, x)) = ToSet(q) \cup {x}
  <2> DEFINE a == Append(q, x)
             n == Len(q)
  <2>1. /\ n \in Nat /\ DOMAIN a = 1 .. n + 1 /\ a[n + 1] = x /\ \A i \in 1 .. n : a[i] = q[i]
        /\ DOMAIN q = 1 .. n
    BY <1>1
  <2>2. 1 .. n + 1 = 1 .. n \cup {n + 1}
    BY <2>1
  <2> HIDE DEF a, n
  <2> QED BY <2>1, <2>2 DEF ToSet, a
<1>7. ToSet(q) \subseteq S
  BY <1>1 DEF ToSet
<1>8. q # <<>> => q = Append(Front(q), Last(q)) /\ Len(Front(q)) = Len(q) - 1 /\ Len(q) \in Nat \ {0}
  BY <1>1 DEF Front, Last
<1> QED BY <1>2, <1>3, <1>4, <1>5, <1>6, <1>7, <1>8

Ended(s) == s.found \/ s.lifo = <<>>

Loop(g, outgoing) ==
    CHOOSE loop : loop = [s \in Searches(g) |-> IF s.found \/ s.lifo = <<>> THEN s
                                                ELSE loop[SearchStep(g, outgoing, s)]]

LEMMA StepTyped ==
    ASSUME NEW g, WellFormed(g), NEW outgoing \in OutgoingLists(g), NEW s \in Searches(g), ~ Ended(s)
    PROVE  SearchStep(g, outgoing, s) \in Searches(g)
<1> DEFINE v == Last(s.lifo)
           V == Vertices(g)
<1>1. /\ s.lifo \in Seq(V \cup {NoVertex}) /\ s.lifo # <<>> /\ s.visited \in SUBSET V /\ s.path \in Seq(V)
      /\ DOMAIN s = {"lifo", "visited", "path", "found"}
  BY DEF Searches, Ended
<1>2. Front(s.lifo) \in Seq(V \cup {NoVertex}) /\ v \in V \cup {NoVertex} /\ Front(s.path) \in Seq(V)
  <2> DEFINE l == s.lifo
             p == s.path
             W == V \cup {NoVertex}
  <2>1. l \in Seq(W) /\ l # <<>> /\ p \in Seq(V)
    BY <1>1
  <2> HIDE DEF l, p, V, W
  <2>2. Front(l) \in Seq(W) /\ Last(l) \in W /\ Front(p) \in Seq(V)
    BY <2>1, StackFacts
  <2> QED BY <2>2 DEF l, p, W
<1>3. CASE v = NoVertex
  <2>1. LeavePath(s) \in Searches(g)
    BY <1>1, <1>2 DEF LeavePath, Searches
  <2> QED BY <1>3, <2>1 DEF SearchStep
<1>4. CASE v # NoVertex /\ IsTeam(g, v)
  <2> DEFINE d == DestinationsOf(g, outgoing, v)
             b == Append(Front(s.lifo), NoVertex)
             l == b \o d
             p == Append(s.path, v)
  <2>1. v \in V /\ d \in Seq(V)
    BY <1>2, <1>4, DestinationsFacts
  <2>2. V \subseteq V \cup {NoVertex} /\ d \in Seq(V \cup {NoVertex})
    BY <2>1
  <2> HIDE DEF d
  <2>3. b \in Seq(V \cup {NoVertex})
    BY <1>2, StackFacts
  <2> HIDE DEF b
  <2>4. l \in Seq(V \cup {NoVertex}) /\ p \in Seq(V)
    BY <1>1, <2>1, <2>2, <2>3, StackFacts
  <2>5. VisitTeam(g, outgoing, s, v) =
          [lifo |-> l, visited |-> s.visited \cup {v}, path |-> p, found |-> \E i \in DOMAIN d : d[i] \in ToSet(p)]
    BY DEF VisitTeam, d, b
  <2> HIDE DEF l, p
  <2>6. VisitTeam(g, outgoing, s, v) \in Searches(g)
    BY <1>1, <2>1, <2>4, <2>5 DEF Searches
  <2> QED BY <1>4, <2>6 DEF SearchStep
<1>5. CASE v # NoVertex /\ ~ IsTeam(g, v)
  <2>1. VisitAction(s, v) \in Searches(g)
    BY <1>1, <1>2, <1>5 DEF VisitAction, Searches
  <2> QED BY <1>5, <2>1 DEF SearchStep
<1> QED BY <1>3, <1>4, <1>5

LEMMA LoopSteps ==
    ASSUME NEW g, WellFormed(g), NEW outgoing \in OutgoingLists(g), NEW s \in Searches(g)
    PROVE  /\ Ended(s) => Loop(g, outgoing)[s] = s
           /\ ~ Ended(s) => Loop(g, outgoing)[s] = Loop(g, outgoing)[SearchStep(g, outgoing, s)]
<1> DEFINE S == Searches(g)
           E == {x \in S : Ended(x)}
           H == [x \in S |-> IF Ended(x) THEN x ELSE SearchStep(g, outgoing, x)]
<1>1. E \in SUBSET S /\ H \in [S -> S]
  BY StepTyped
<1> HIDE DEF S, E, H
<1>2. PICK f : f = [x \in S |-> IF x \in E THEN x ELSE f[H[x]]]
  BY <1>1, LoopExists
<1>3. f = [x \in Searches(g) |-> IF x.found \/ x.lifo = <<>> THEN x ELSE f[SearchStep(g, outgoing, x)]]
  <2>1. ASSUME NEW x \in S
        PROVE  f[x] = IF x.found \/ x.lifo = <<>> THEN x ELSE f[SearchStep(g, outgoing, x)]
    <3>1. x \in E <=> x.found \/ x.lifo = <<>>
      BY DEF E, Ended
    <3>2. x \notin E => H[x] = SearchStep(g, outgoing, x)
      BY DEF E, H
    <3>3. f[x] = IF x \in E THEN x ELSE f[H[x]]
      BY <1>2
    <3> QED BY <3>1, <3>2, <3>3
  <2>2. DOMAIN f = S /\ f = [x \in DOMAIN f |-> f[x]]
    BY <1>2
  <2> QED BY <2>1, <2>2 DEF S
<1> DEFINE r == Loop(g, outgoing)
<1>4. r = [x \in Searches(g) |-> IF x.found \/ x.lifo = <<>> THEN x ELSE r[SearchStep(g, outgoing, x)]]
  BY <1>3 DEF Loop
<1> HIDE DEF r
<1>5. r[s] = IF s.found \/ s.lifo = <<>> THEN s ELSE r[SearchStep(g, outgoing, s)]
  BY <1>4
<1> QED BY <1>5 DEF Ended, r

-----------------------------------------------------------------------------
(* What the search does with vertices at the top of its stack *)

Reached(g, v) == {v} \cup LedTo(g, v)

(* From v, no edge leads back: to none of P, and to no vertex met. *)
Clean(g, v, P) == LedTo(g, v) \cap P = {} /\ \A w \in Reached(g, v) : w \notin LedTo(g, w)

(* The vertices of the path all lead to those of q, which are none of them. *)
Ready(g, s, base, q) ==
    /\ s \in Searches(g) /\ ~ s.found
    /\ base \in Seq(Vertices(g) \cup {NoVertex}) /\ q \in Seq(Vertices(g)) /\ s.lifo = base \o q
    /\ \A w \in ToSet(q) : w \notin ToSet(s.path) /\ \A u \in ToSet(s.path) : w \in LedTo(g, u)

ReachedFrom(g, q) == UNION {Reached(g, w) : w \in ToSet(q)}

Explored(g, s, base, q, t) ==
    /\ t \in Searches(g)
    /\ \/ t.found /\ HasCycle(g)
       \/ /\ ~ t.found /\ t.lifo = base /\ t.path = s.path
          /\ t.visited = s.visited \cup ReachedFrom(g, q)
          /\ \A w \in ToSet(q) : Clean(g, w, ToSet(s.path))

LoopsTo(g, outgoing, s, t) == Loop(g, outgoing)[s] = Loop(g, outgoing)[t]

(* k vertices are not on the path. *)
Off(s, k) == Cardinality(ToSet(s.path)) + k = Cardinality(Vertex)

Claim(g, outgoing, k) ==
    \A s, base, v : Ready(g, s, base, <<v>>) /\ Off(s, k)
                       => \E t : Explored(g, s, base, <<v>>, t) /\ LoopsTo(g, outgoing, s, t)

ListClaim(g, outgoing, k, n) ==
    \A s, base, q : Ready(g, s, base, q) /\ Off(s, k) /\ Len(q) = n
                       => \E t : Explored(g, s, base, q, t) /\ LoopsTo(g, outgoing, s, t)

LEMMA OneVertexList == ASSUME NEW v PROVE ToSet(<<v>>) = {v}
BY DEF ToSet

LEMMA LastExplored ==
    ASSUME NEW g, WellFormed(g), NEW outgoing \in OutgoingLists(g), NEW k, Claim(g, outgoing, k),
           NEW n \in Nat, ListClaim(g, outgoing, k, n)
    PROVE  ListClaim(g, outgoing, k, n + 1)
<1> SUFFICES ASSUME NEW s, NEW base, NEW q, Ready(g, s, base, q), Off(s, k), Len(q) = n + 1
             PROVE  \E t : Explored(g, s, base, q, t) /\ LoopsTo(g, outgoing, s, t)
  BY DEF ListClaim
<1> DEFINE f == Front(q)
           v == Last(q)
           P == ToSet(s.path)
           b == base \o f
           W == Vertices(g) \cup {NoVertex}
<1>1. /\ s \in Searches(g) /\ ~ s.found /\ base \in Seq(W) /\ q \in Seq(Vertices(g))
      /\ s.lifo = base \o q
      /\ \A w \in ToSet(q) : w \notin P /\ \A u \in P : w \in LedTo(g, u)
  BY DEF Ready
<1>2. /\ f \in Seq(Vertices(g)) /\ v \in Vertices(g) /\ q = Append(f, v) /\ Len(f) = n
      /\ ToSet(q) = ToSet(f) \cup {v}
  <2>1. q # <<>> /\ Len(q) - 1 = n
    OBVIOUS
  <2>2. q \in Seq(Vertices(g))
    BY <1>1
  <2>3. f \in Seq(Vertices(g)) /\ v \in Vertices(g) /\ q = Append(f, v) /\ Len(f) = Len(q) - 1
    BY <2>1, <2>2, StackFacts
  <2> HIDE DEF f, v
  <2>4. ToSet(Append(f, v)) = ToSet(f) \cup {v}
    BY <2>3, StackFacts
  <2> QED BY <2>1, <2>3, <2>4
<1>3. b \in Seq(W) /\ base \o q = b \o <<v>> /\ <<v>> \in Seq(Vertices(g))
  <2>1. f \in Seq(W) /\ base \in Seq(W) /\ v \in W
    BY <1>1, <1>2
  <2> HIDE DEF f, v, W
  <2>2. b \in Seq(W)
    BY <2>1, StackFacts
  <2>3. base \o Append(f, v) = Append(base \o f, v)
    BY <2>1, LenProperties
  <2>4. Append(b, v) = b \o <<v>>
    BY <2>2, StackFacts
  <2>5. <<v>> \in Seq(Vertices(g))
    BY <1>2
  <2> QED BY <1>2, <2>2, <2>3, <2>4, <2>5
<1> HIDE DEF f, v, b
<1>4. Ready(g, s, b, <<v>>)
  BY <1>1, <1>2, <1>3, OneVertexList DEF Ready
<1>5. PICK t1 : Explored(g, s, b, <<v>>, t1) /\ LoopsTo(g, outgoing, s, t1)
  BY <1>4 DEF Claim
<1>6. CASE t1.found /\ HasCycle(g)
  BY <1>5, <1>6 DEF Explored
<1>7. CASE ~ (t1.found /\ HasCycle(g))
  <2>1. /\ t1 \in Searches(g) /\ ~ t1.found /\ t1.lifo = b /\ t1.path = s.path
        /\ t1.visited = s.visited \cup Reached(g, v) /\ Clean(g, v, P)
    BY <1>5, <1>7, OneVertexList DEF Explored, ReachedFrom
  <2>2. Ready(g, t1, base, f) /\ Off(t1, k)
    BY <1>1, <1>2, <2>1 DEF Ready, Off, b
  <2>3. PICK t : Explored(g, t1, base, f, t) /\ LoopsTo(g, outgoing, t1, t)
    BY <1>2, <2>2 DEF ListClaim
  <2>4. LoopsTo(g, outgoing, s, t)
    BY <1>5, <2>3 DEF LoopsTo
  <2>5. CASE t.found /\ HasCycle(g)
    BY <2>3, <2>4, <2>5 DEF Explored
  <2>6. CASE ~ (t.found /\ HasCycle(g))
    <3>1. /\ t \in Searches(g) /\ ~ t.found /\ t.lifo = base /\ t.path = s.path
          /\ t.visited = t1.visited \cup ReachedFrom(g, f) /\ \A w \in ToSet(f) : Clean(g, w, P)
      BY <2>1, <2>3, <2>6 DEF Explored
    <3>2. ReachedFrom(g, q) = Reached(g, v) \cup ReachedFrom(g, f)
      BY <1>2 DEF ReachedFrom
    <3>3. \A w \in ToSet(q) : Clean(g, w, P)
      BY <1>2, <2>1, <3>1
    <3>4. t.visited = s.visited \cup ReachedFrom(g, q)
      BY <2>1, <3>1, <3>2
    <3>5. Explored(g, s, base, q, t)
      BY <3>1, <3>3, <3>4 DEF Explored
    <3> QED BY <2>4, <3>5
  <2> QED BY <2>5, <2>6
<1> QED BY <1>6, <1>7

LEMMA ListExplored ==
    ASSUME NEW g, WellFormed(g), NEW outgoing \in OutgoingLists(g), NEW k, Claim(g, outgoing, k),
           NEW s, NEW base, NEW q, Ready(g, s, base, q), Off(s, k)
    PROVE  \E t : Explored(g, s, base, q, t) /\ LoopsTo(g, outgoing, s, t)
<1> DEFINE n == Len(q)
           B == {m \in 0 .. n : ~ ListClaim(g, outgoing, k, m)}
<1>1. n \in Nat
  BY LenProperties DEF Ready
<1> HIDE DEF n
<1>2. 0 \notin B
  <2> SUFFICES ASSUME NEW s1, NEW base1, NEW q1, Ready(g, s1, base1, q1), Len(q1) = 0
               PROVE  Explored(g, s1, base1, q1, s1) /\ LoopsTo(g, outgoing, s1, s1)
    BY DEF ListClaim
  <2>1. /\ s1 \in Searches(g) /\ ~ s1.found /\ base1 \in Seq(Vertices(g) \cup {NoVertex})
        /\ q1 \in Seq(Vertices(g)) /\ s1.lifo = base1 \o q1
    BY DEF Ready
  <2>2. q1 = <<>>
    BY <2>1
  <2>3. base1 \o <<>> = base1
    BY <2>1
  <2>4. ToSet(q1) = {} /\ s1.lifo = base1
    BY <2>1, <2>2, <2>3 DEF ToSet
  <2> QED BY <2>1, <2>4 DEF Explored, LoopsTo, ReachedFrom
<1>3. ASSUME NEW m \in 1 .. n, m \in B PROVE m - 1 \in B
  <2> SUFFICES ASSUME ListClaim(g, outgoing, k, m - 1) PROVE FALSE
    BY <1>1
  <2> DEFINE j == m - 1
  <2>1. j \in Nat /\ j + 1 = m
    BY <1>1
  <2> HIDE DEF j
  <2>2. ListClaim(g, outgoing, k, j + 1)
    BY <2>1, LastExplored DEF j
  <2> QED BY <1>3, <2>1, <2>2
<1>4. B = {}
  <2>1. B \in SUBSET (0 .. n)
    OBVIOUS
  <2> HIDE DEF B
  <2> QED BY <1>1, <1>2, <1>3, <2>1, NoFirstFailure
<1>5. ListClaim(g, outgoing, k, n)
  BY <1>1, <1>4
<1> QED BY <1>5 DEF ListClaim, n

(* The search pops the vertex v. *)
Popped(g, s, base, v) ==
    /\ Ready(g, s, base, <<v>>) /\ v \in Vertices(g) /\ v \notin ToSet(s.path)
    /\ \A u \in ToSet(s.path) : v \in LedTo(g, u)
    /\ ~ Ended(s) /\ Last(s.lifo) = v /\ Front(s.lifo) = base /\ v # NoVertex
    /\ s \in Searches(g) /\ base \in Seq(Vertices(g) \cup {NoVertex})
    /\ s.path \in Seq(Vertices(g)) /\ s.visited \subseteq Vertices(g)

LEMMA PoppedFacts ==
    ASSUME NEW g, NEW s, NEW base, NEW v, Ready(g, s, base, <<v>>)
    PROVE  Popped(g, s, base, v)
<1>1. /\ s \in Searches(g) /\ ~ s.found /\ base \in Seq(Vertices(g) \cup {NoVertex})
      /\ <<v>> \in Seq(Vertices(g)) /\ s.lifo = base \o <<v>>
      /\ v \notin ToSet(s.path) /\ \A u \in ToSet(s.path) : v \in LedTo(g, u)
  BY OneVertexList DEF Ready
<1>2. v \in Vertices(g)
  BY <1>1
<1>3. s.lifo = Append(base, v)
  BY <1>1, StackFacts
<1>4. ~ Ended(s) /\ Last(s.lifo) = v /\ Front(s.lifo) = base
  <2> DEFINE W == Vertices(g) \cup {NoVertex}
             l == s.lifo
  <2>1. base \in Seq(W) /\ l = Append(base, v)
    BY <1>1, <1>3
  <2> HIDE DEF W, l
  <2>2. l # <<>> /\ Last(l) = v /\ Front(l) = base
    BY <2>1, StackFacts
  <2> QED BY <1>1, <2>2 DEF Ended, l
<1>5. v # NoVertex
  BY <1>2, GraphAssumption DEF Vertices
<1>6. s.path \in Seq(Vertices(g)) /\ s.visited \subseteq Vertices(g)
  BY <1>1 DEF Searches
<1> QED BY <1>1, <1>2, <1>4, <1>5, <1>6 DEF Popped

LEMMA ActionExplored ==
    ASSUME NEW g, WellFormed(g), NEW outgoing \in OutgoingLists(g), NEW s, NEW base, NEW v,
           Popped(g, s, base, v), ~ IsTeam(g, v)
    PROVE  \E t : Explored(g, s, base, <<v>>, t) /\ LoopsTo(g, outgoing, s, t)
<1> DEFINE t == SearchStep(g, outgoing, s)
<1>1. t = VisitAction(s, v)
  BY DEF SearchStep, Popped
<1>2. t \in Searches(g) /\ LoopsTo(g, outgoing, s, t)
  BY StepTyped, LoopSteps DEF Popped, LoopsTo
<1>3. LedTo(g, v) = {}
  <2>1. Succ(g, v) = {} /\ v \in Vertices(g)
    BY SuccFacts DEF Popped
  <2>2. LedTo(g, v) = Succ(g, v) \cup UNION {LedTo(g, w) : w \in Succ(g, v)}
    BY <2>1, LedToSplit
  <2> QED BY <2>1, <2>2
<1>4. ~ t.found /\ t.lifo = base /\ t.path = s.path /\ t.visited = s.visited \cup {v}
  <2>1. DOMAIN s = {"lifo", "visited", "path", "found"} /\ ~ s.found /\ Front(s.lifo) = base
    BY DEF Popped, Searches, Ended
  <2> QED BY <1>1, <2>1 DEF VisitAction
<1> HIDE DEF t
<1>5. Reached(g, v) = {v} /\ Clean(g, v, ToSet(s.path)) /\ ReachedFrom(g, <<v>>) = Reached(g, v)
  BY <1>3, OneVertexList DEF Reached, Clean, ReachedFrom
<1>6. Explored(g, s, base, <<v>>, t)
  BY <1>2, <1>4, <1>5, OneVertexList DEF Explored
<1> QED BY <1>2, <1>6

(* The team v was put on the path. *)
OnPath(g, outgoing, s, base, v, t) ==
    LET d == DestinationsOf(g, outgoing, v)
    IN  /\ t \in Searches(g) /\ LoopsTo(g, outgoing, s, t)
        /\ t.lifo = Append(base, NoVertex) \o d /\ t.path = Append(s.path, v)
        /\ ToSet(t.path) = ToSet(s.path) \cup {v} /\ t.visited = s.visited \cup {v}
        /\ t.found => HasCycle(g)
        /\ ~ t.found => Ready(g, t, Append(base, NoVertex), d)
        /\ ~ t.found => Succ(g, v) \cap ToSet(t.path) = {}

LEMMA TeamOnPath ==
    ASSUME NEW g, WellFormed(g), NEW outgoing \in OutgoingLists(g), NEW s, NEW base, NEW v,
           Popped(g, s, base, v), IsTeam(g, v), NEW t, t = SearchStep(g, outgoing, s)
    PROVE  OnPath(g, outgoing, s, base, v, t)
<1> DEFINE d == DestinationsOf(g, outgoing, v)
           P == ToSet(s.path)
           p == Append(s.path, v)
           W == Vertices(g) \cup {NoVertex}
           b == Append(base, NoVertex)
<1>1. /\ v \in Vertices(g) /\ v \notin P /\ \A u \in P : v \in LedTo(g, u)
      /\ base \in Seq(W) /\ s.path \in Seq(Vertices(g)) /\ s \in Searches(g) /\ ~ Ended(s)
      /\ Last(s.lifo) = v /\ Front(s.lifo) = base /\ v # NoVertex
  BY DEF Popped
<1>2. t = [lifo |-> b \o d, visited |-> s.visited \cup {v}, path |-> p,
           found |-> \E i \in DOMAIN d : d[i] \in ToSet(p)]
  BY <1>1 DEF SearchStep, VisitTeam
<1>3. t \in Searches(g) /\ LoopsTo(g, outgoing, s, t)
  BY <1>1, StepTyped, LoopSteps DEF LoopsTo
<1>4. d \in Seq(Vertices(g)) /\ ToSet(d) = Succ(g, v)
  BY <1>1, DestinationsFacts
<1> HIDE DEF d
<1>5. ToSet(p) = P \cup {v} /\ P \subseteq Vertices(g)
  BY <1>1, StackFacts
<1> HIDE DEF p
<1>6. b \in Seq(W)
  <2>1. base \in Seq(W) /\ NoVertex \in W
    BY <1>1
  <2> HIDE DEF W
  <2> QED BY <2>1, StackFacts
<1> HIDE DEF b, P
<1>7. t.lifo = b \o d /\ t.path = p /\ t.visited = s.visited \cup {v}
  BY <1>2
<1>8. t.found <=> \E i \in DOMAIN d : d[i] \in ToSet(p)
  BY <1>2
<1>9. t.found <=> \E w \in Succ(g, v) : w \in ToSet(p)
  <2>1. (\E i \in DOMAIN d : d[i] \in ToSet(p)) <=> \E w \in ToSet(d) : w \in ToSet(p)
    BY DEF ToSet
  <2> QED BY <1>4, <1>8, <2>1
<1>10. Succ(g, v) \subseteq LedTo(g, v)
  BY <1>1, LedToFacts
<1>11. \A u \in P : Succ(g, v) \subseteq LedTo(g, u)
  BY <1>1, <1>5, LedToFacts
<1>12. ASSUME t.found PROVE HasCycle(g)
  <2>1. PICK w \in Succ(g, v) : w \in P \cup {v}
    BY <1>5, <1>9, <1>12
  <2>2. w \in LedTo(g, w) /\ w \in Vertices(g)
    BY <1>1, <1>5, <1>10, <1>11, <2>1
  <2> QED BY <2>2 DEF HasCycle
<1>13. ASSUME ~ t.found PROVE Ready(g, t, b, d) /\ Succ(g, v) \cap ToSet(t.path) = {}
  <2>1. \A w \in ToSet(d) : w \notin ToSet(p) /\ \A u \in ToSet(p) : w \in LedTo(g, u)
    BY <1>4, <1>5, <1>9, <1>10, <1>11, <1>13
  <2>2. Ready(g, t, b, d)
    BY <1>3, <1>4, <1>6, <1>7, <1>13, <2>1 DEF Ready
  <2>3. Succ(g, v) \cap ToSet(t.path) = {}
    BY <1>4, <1>7, <2>1
  <2> QED BY <2>2, <2>3
<1> QED BY <1>3, <1>5, <1>7, <1>12, <1>13 DEF OnPath, b, d, p, P

(* What is clean below the destinations of v is clean below v. *)
LEMMA CleanTeam ==
    ASSUME NEW g, WellFormed(g), NEW v \in Vertices(g), NEW P, Succ(g, v) \cap (P \cup {v}) = {},
           \A w \in Succ(g, v) : Clean(g, w, P \cup {v})
    PROVE  Clean(g, v, P)
<1>1. LedTo(g, v) = Succ(g, v) \cup UNION {LedTo(g, w) : w \in Succ(g, v)}
  BY LedToSplit
<1>2. \A w \in Succ(g, v) : LedTo(g, w) \cap (P \cup {v}) = {}
  BY DEF Clean
<1>3. LedTo(g, v) \cap (P \cup {v}) = {}
  BY <1>1, <1>2
<1>4. ASSUME NEW x \in LedTo(g, v) PROVE x \notin LedTo(g, x)
  <2>1. PICK w \in Succ(g, v) : x \in Reached(g, w)
    BY <1>1 DEF Reached
  <2> QED BY <2>1 DEF Clean
<1> QED BY <1>3, <1>4 DEF Clean, Reached

LEMMA TeamExplored ==
    ASSUME NEW g, WellFormed(g), NEW outgoing \in OutgoingLists(g), NEW s, NEW base, NEW v,
           Popped(g, s, base, v), IsTeam(g, v), NEW k \in Nat, Off(s, k + 1), Claim(g, outgoing, k)
    PROVE  \E t : Explored(g, s, base, <<v>>, t) /\ LoopsTo(g, outgoing, s, t)
<1> DEFINE d == DestinationsOf(g, outgoing, v)
           P == ToSet(s.path)
           b == Append(base, NoVertex)
           W == Vertices(g) \cup {NoVertex}
<1>1. PICK s1 : s1 = SearchStep(g, outgoing, s)
  OBVIOUS
<1>2. /\ s1 \in Searches(g) /\ LoopsTo(g, outgoing, s, s1)
      /\ s1.lifo = b \o d /\ s1.path = Append(s.path, v)
      /\ ToSet(s1.path) = P \cup {v} /\ s1.visited = s.visited \cup {v}
      /\ s1.found => HasCycle(g)
      /\ ~ s1.found => Ready(g, s1, b, d)
      /\ ~ s1.found => Succ(g, v) \cap ToSet(s1.path) = {}
  <2>1. OnPath(g, outgoing, s, base, v, s1)
    BY <1>1, TeamOnPath
  <2> QED BY <2>1 DEF OnPath
<1>3. /\ v \in Vertices(g) /\ v \notin P /\ base \in Seq(W) /\ s.path \in Seq(Vertices(g))
      /\ P \subseteq Vertices(g)
  <2>1. v \in Vertices(g) /\ v \notin P /\ base \in Seq(W) /\ s.path \in Seq(Vertices(g))
    BY DEF Popped
  <2> QED BY <2>1, StackFacts
<1>4. ToSet(d) = Succ(g, v)
  BY <1>3, DestinationsFacts
<1> HIDE DEF d, b
<1>5. CASE s1.found
  BY <1>2, <1>5 DEF Explored
<1>6. CASE ~ s1.found
  <2>1. Off(s1, k)
    <3>1. IsFiniteSet(P)
      BY <1>3, SuccFacts, FS_Subset
    <3> HIDE DEF P
    <3>2. Cardinality(P \cup {v}) = Cardinality(P) + 1 /\ Cardinality(P) \in Nat
      BY <1>3, <3>1, FS_AddElement, FS_CardinalityType
    <3>3. Cardinality(P) + (k + 1) = Cardinality(Vertex)
      BY DEF Off, P
    <3>4. Cardinality(P \cup {v}) + k = Cardinality(Vertex)
      BY <3>2, <3>3
    <3> QED BY <1>2, <3>4 DEF Off
  <2>2. PICK t1 : Explored(g, s1, b, d, t1) /\ LoopsTo(g, outgoing, s1, t1)
    BY <1>2, <1>6, <2>1, ListExplored
  <2>3. CASE t1.found /\ HasCycle(g)
    BY <1>2, <2>2, <2>3 DEF Explored, LoopsTo
  <2>4. CASE ~ (t1.found /\ HasCycle(g))
    <3>1. /\ t1 \in Searches(g) /\ ~ t1.found /\ t1.lifo = b /\ t1.path = Append(s.path, v)
          /\ t1.visited = (s.visited \cup {v}) \cup ReachedFrom(g, d)
          /\ \A w \in ToSet(d) : Clean(g, w, P \cup {v})
      BY <1>2, <2>2, <2>4 DEF Explored
    <3> DEFINE t == SearchStep(g, outgoing, t1)
    <3>2. b # <<>> /\ Last(b) = NoVertex /\ Front(b) = base
      <4> HIDE DEF W
      <4> QED BY <1>3, StackFacts DEF b
    <3>3. Front(t1.path) = s.path
      BY <1>3, <3>1, StackFacts
    <3>4. t = LeavePath(t1) /\ ~ Ended(t1)
      BY <3>1, <3>2 DEF SearchStep, Ended
    <3>5. t \in Searches(g) /\ LoopsTo(g, outgoing, t1, t)
      BY <3>1, <3>4, StepTyped, LoopSteps DEF LoopsTo
    <3>6. ~ t.found /\ t.lifo = base /\ t.path = s.path /\ t.visited = t1.visited
      <4>1. DOMAIN t1 = {"lifo", "visited", "path", "found"}
        BY <3>1 DEF Searches
      <4> QED BY <3>1, <3>2, <3>3, <3>4, <4>1 DEF LeavePath
    <3> HIDE DEF t
    <3>7. Clean(g, v, P)
      <4>1. Succ(g, v) \cap (P \cup {v}) = {} /\ \A w \in Succ(g, v) : Clean(g, w, P \cup {v})
        BY <1>2, <1>4, <1>6, <3>1
      <4> HIDE DEF P
      <4> QED BY <1>3, <4>1, CleanTeam
    <3>8. t.visited = s.visited \cup ReachedFrom(g, <<v>>)
      <4>1. LedTo(g, v) = Succ(g, v) \cup UNION {LedTo(g, w) : w \in Succ(g, v)}
        BY <1>3, LedToSplit
      <4>2. {v} \cup ReachedFrom(g, d) = Reached(g, v)
        BY <1>4, <4>1 DEF Reached, ReachedFrom
      <4>3. ReachedFrom(g, <<v>>) = Reached(g, v)
        BY OneVertexList DEF ReachedFrom
      <4> QED BY <3>1, <3>6, <4>2, <4>3
    <3>9. Explored(g, s, base, <<v>>, t)
      BY <3>5, <3>6, <3>7, <3>8, OneVertexList DEF Explored
    <3>10. LoopsTo(g, outgoing, s, t)
      BY <1>2, <2>2, <3>5 DEF LoopsTo
    <3> QED BY <3>9, <3>10
  <2> QED BY <2>3, <2>4
<1> QED BY <1>5, <1>6

(* The path never holds a vertex twice: as many steps down as there are vertices. *)
LEMMA VertexExplored ==
    ASSUME NEW g, WellFormed(g), NEW outgoing \in OutgoingLists(g), NEW n \in Nat
    PROVE  Claim(g, outgoing, n)
<1> DEFINE B == {k \in 0 .. n : ~ Claim(g, outgoing, k)}
<1>1. 0 \notin B
  <2> SUFFICES ASSUME NEW s, NEW base, NEW v, Ready(g, s, base, <<v>>), Off(s, 0) PROVE FALSE
    BY DEF Claim
  <2>1. v \in Vertices(g) /\ v \notin ToSet(s.path) /\ s.path \in Seq(Vertices(g))
    BY PoppedFacts DEF Popped
  <2> DEFINE P == ToSet(s.path)
             p == s.path
  <2>2. P \subseteq Vertex /\ v \in Vertex /\ IsFiniteSet(Vertex)
    <3>1. p \in Seq(Vertices(g)) /\ Vertices(g) \subseteq Vertex /\ v \in Vertices(g)
      BY <2>1, SuccFacts
    <3> HIDE DEF p
    <3>2. ToSet(p) \subseteq Vertices(g)
      BY <3>1, StackFacts
    <3> QED BY <3>1, <3>2, AddressAssumption DEF p
  <2> HIDE DEF P
  <2>3. IsFiniteSet(P) /\ P \subseteq Vertex /\ v \notin P
    BY <2>1, <2>2, FS_Subset DEF P
  <2>4. Cardinality(P) \in Nat /\ Cardinality(P) + 0 = Cardinality(Vertex)
    BY <2>3, FS_CardinalityType DEF Off, P
  <2>5. Cardinality(P) = Cardinality(Vertex)
    BY <2>4
  <2>6. P = Vertex
    BY <2>2, <2>3, <2>5, FS_Subset
  <2> QED BY <2>2, <2>3, <2>6
<1>2. ASSUME NEW k \in 1 .. n, k \in B PROVE k - 1 \in B
  <2> DEFINE j == k - 1
  <2>1. j \in Nat /\ j + 1 = k /\ j \in 0 .. n
    OBVIOUS
  <2> HIDE DEF j
  <2> SUFFICES ASSUME Claim(g, outgoing, j) PROVE Claim(g, outgoing, j + 1)
    BY <1>2, <2>1 DEF j
  <2> SUFFICES ASSUME NEW s, NEW base, NEW v, Ready(g, s, base, <<v>>), Off(s, j + 1)
               PROVE  \E t : Explored(g, s, base, <<v>>, t) /\ LoopsTo(g, outgoing, s, t)
    BY DEF Claim
  <2>2. Popped(g, s, base, v)
    BY PoppedFacts
  <2>3. CASE IsTeam(g, v)
    BY <2>1, <2>2, <2>3, TeamExplored
  <2>4. CASE ~ IsTeam(g, v)
    BY <2>2, <2>4, ActionExplored
  <2> QED BY <2>3, <2>4
<1>3. B = {}
  <2>1. B \in SUBSET (0 .. n)
    OBVIOUS
  <2> HIDE DEF B
  <2> QED BY <1>1, <1>2, <2>1, NoFirstFailure
<1>4. n \in 0 .. n
  OBVIOUS
<1> QED BY <1>3, <1>4

LEMMA SearchEnds ==
    ASSUME NEW g, WellFormed(g), NEW outgoing \in OutgoingLists(g), NEW roots \in Seq(Vertices(g))
    PROVE  LET s == EndOfSearch(g, roots, outgoing)
           IN  \/ s.found /\ HasCycle(g)
               \/ /\ ~ s.found /\ s.visited = ReachedFrom(g, roots)
                  /\ \A w \in ToSet(roots) : Clean(g, w, {})
<1> DEFINE s0 == StartSearch(roots)
           n == Cardinality(Vertex)
<1>1. EndOfSearch(g, roots, outgoing) = Loop(g, outgoing)[s0]
  BY DEF EndOfSearch, Loop
<1>2. n \in Nat /\ Claim(g, outgoing, n)
  <2>1. n \in Nat
    BY AddressAssumption, FS_CardinalityType
  <2> HIDE DEF n
  <2> QED BY <2>1, VertexExplored
<1>3. /\ s0.lifo = roots /\ s0.visited = {} /\ s0.path = <<>> /\ ~ s0.found /\ s0 \in Searches(g)
      /\ ToSet(<<>>) = {}
  BY DEF StartSearch, Searches, ToSet
<1>4. <<>> \o roots = roots /\ <<>> \in Seq(Vertices(g) \cup {NoVertex})
  BY ConcatEmptySeq
<1> HIDE DEF s0
<1>5. Ready(g, s0, <<>>, roots)
  BY <1>3, <1>4 DEF Ready
<1>6. Off(s0, n)
  <2>1. Cardinality(ToSet(s0.path)) = 0
    BY <1>3, FS_EmptySet
  <2> HIDE DEF n
  <2> QED BY <1>2, <2>1 DEF Off, n
<1>7. PICK t : Explored(g, s0, <<>>, roots, t) /\ LoopsTo(g, outgoing, s0, t)
  <2> HIDE DEF n
  <2> QED BY <1>2, <1>5, <1>6, ListExplored
<1>8. t \in Searches(g) /\ Ended(t)
  BY <1>7 DEF Explored, Ended
<1>9. EndOfSearch(g, roots, outgoing) = t
  BY <1>1, <1>7, <1>8, LoopSteps DEF LoopsTo
<1>10. \/ t.found /\ HasCycle(g)
       \/ /\ ~ t.found /\ t.visited = ReachedFrom(g, roots)
          /\ \A w \in ToSet(roots) : Clean(g, w, {})
  BY <1>3, <1>7 DEF Explored
<1> QED BY <1>9, <1>10

LEMMA CyclesFound ==
    ASSUME NEW g, WellFormed(g), NEW outgoing \in OutgoingLists(g), NEW roots \in SetToSeqs(RootVertices(g))
    PROVE  LogAfterPopulateTPG(g, roots, outgoing).cycle <=> HasCycle(g)
<1> DEFINE s == EndOfSearch(g, roots, outgoing)
           V == Vertices(g)
           R == ReachedFrom(g, roots)
<1>1. roots \in Seq(V) /\ ToSet(roots) = RootVertices(g) /\ RootVertices(g) \subseteq V
  <2>1. RootVertices(g) \subseteq V /\ IsFiniteSet(V)
    BY SuccFacts DEF RootVertices
  <2>2. IsFiniteSet(RootVertices(g))
    BY <2>1, FS_Subset
  <2>3. roots \in Seq(RootVertices(g)) /\ ToSet(roots) = RootVertices(g)
    BY <2>2, ListOfSet
  <2> QED BY <2>1, <2>3
<1>2. LogAfterPopulateTPG(g, roots, outgoing).cycle <=> s.found \/ Cardinality(s.visited) # Cardinality(V)
  BY DEF LogAfterPopulateTPG
<1>3. \/ s.found /\ HasCycle(g)
      \/ ~ s.found /\ s.visited = R /\ \A w \in ToSet(roots) : Clean(g, w, {})
  BY <1>1, SearchEnds
<1> HIDE DEF s
<1>4. CASE s.found /\ HasCycle(g)
  BY <1>2, <1>4
<1>5. CASE ~ s.found /\ s.visited = R /\ \A w \in ToSet(roots) : Clean(g, w, {})
  <2>1. R \subseteq V /\ \A r \in RootVertices(g) : r \in R
    BY <1>1, LedToFacts DEF ReachedFrom, Reached
  <2>2. \A x \in R : x \notin LedTo(g, x)
    BY <1>5 DEF ReachedFrom, Clean
  <2>3. \A x \in R : Succ(g, x) \subseteq R
    <3>1. ASSUME NEW r \in RootVertices(g), NEW x \in Reached(g, r) PROVE Succ(g, x) \subseteq Reached(g, r)
      BY <1>1, LedToFacts DEF Reached
    <3> QED BY <1>1, <3>1 DEF ReachedFrom
  <2> HIDE DEF R
  <2>4. CASE R = V
    <3>1. ~ HasCycle(g)
      BY <2>2, <2>4 DEF HasCycle
    <3> QED BY <1>2, <1>5, <2>4, <3>1
  <2>5. CASE R # V
    <3>1. Cardinality(R) # Cardinality(V)
      <4>1. IsFiniteSet(V)
        BY SuccFacts
      <4> HIDE DEF V
      <4> QED BY <2>1, <2>5, <4>1, FS_Subset
    <3>2. ASSUME NEW u \in V \ R PROVE \E x \in V \ R : u \in Succ(g, x)
      <4>1. u \notin RootVertices(g) /\ u \in Vertex
        BY <2>1, SuccFacts
      <4>2. PICK e \in g.in[u] : TRUE
        BY <4>1 DEF RootVertices
      <4>3. e \in Edges(g) /\ g.dst[e] = u /\ g.src[e] \in V /\ e \in g.out[g.src[e]]
        BY <4>1, <4>2, SuccFacts DEF WellFormed, EdgeListsAgree, EndsInGraph
      <4>4. u \in Succ(g, g.src[e])
        BY <4>3 DEF Succ
      <4> QED BY <2>3, <4>3, <4>4
    <3>3. HasCycle(g)
      <4> DEFINE U == V \ R
      <4>1. U \in SUBSET Vertices(g) /\ U # {} /\ \A u \in U : \E x \in U : u \in Succ(g, x)
        BY <2>1, <2>5, <3>2
      <4> HIDE DEF U
      <4> QED BY <4>1, CycleWithoutStart
    <3> QED BY <1>2, <1>5, <3>1, <3>3
  <2> QED BY <2>4, <2>5
<1> QED BY <1>3, <1>4, <1>5

(* For any number of vertices and edges, after any sequence of calls that left no edge unlisted, and
   whatever the order of the lists of roots and of edges, the search of the CycleDetectionLALogger ends and
   the logger says there is a cycle if and only if there is one. *)
THEOREM CyclesAreAlwaysDetected == GraphSpec => []CyclesAreDetected
<1>1. IndInv => CyclesAreDetected
  <2>1. IndInv /\ unlisted = {} => WellFormed(tpg)
    BY WellFormedIsWhole DEF IndInv
  <2> QED BY <2>1, CyclesFound DEF CyclesAreDetected
<1> QED BY <1>1, IndInvInit, IndInvStep, PTL DEF GraphSpec
=============================================================================

----------------------------- MODULE MCDotFiles -----------------------------
(* An instance of DotFiles for TLC. *)
EXTENDS DotFiles

Kinds == [t |-> Team, u |-> Team, a |-> 0, b |-> 1]

AnEdge == [src : {"t", "u"}, dst : {"t", "u", "a", "b"}, prog : {"p", "q", "r"}]

GraphOf(edges) ==
    [vertices |-> <<"t", "a", "u", "b">>, kind |-> Kinds,
     edges |-> [i \in DOMAIN edges |-> [id |-> i, src |-> edges[i].src, dst |-> edges[i].dst,
                                       prog |-> edges[i].prog]]]

(* Edges in this order come first from t and last from u; names of programs and actions are
   given in the order of the edges. *)
Ordered(es) == /\ es[1].src = "t" /\ es[3].src = "u"
               /\ es[1].prog = "p"
               /\ es[2].prog \in {"p", "q"}
               /\ es[3].prog = "r" => es[2].prog = "q"
               /\ es[1].dst # "b"
               /\ es[2].dst = "b" => es[1].dst = "a"
               /\ es[3].dst = "b" => "a" \in {es[1].dst, es[2].dst}

(* Edges that share a program have the same destination. *)
SameDestination(es) == \A i, j \in DOMAIN es : es[i].prog = es[j].prog => es[i].dst = es[j].dst

(* The graphs of two teams and two actions with three such edges *)
ThreeEdges == {es \in [1 .. 3 -> AnEdge] : Ordered(es)}

Graphs == {GraphOf(es) : es \in ThreeEdges}

(* Teams with edges to actions only, where a program is shared by edges with different
   destinations: initRandomTPG makes such graphs when there are more roots than actions, the
   first edges of the last teams leading to random actions. *)
SharingGraphs ==
    {GraphOf(es) : es \in {x \in ThreeEdges : /\ \A i \in 1 .. 3 : x[i].dst \in {"a", "b"}
                                             /\ ~ SameDestination(x)}}
=============================================================================

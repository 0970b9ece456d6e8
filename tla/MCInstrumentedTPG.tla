-------------------------- MODULE MCInstrumentedTPG --------------------------
(* An instance of InstrumentedTPG for TLC. *)
EXTENDS InstrumentedTPG

(* Two states of the data; programs that tie, bid NaN or bid minus infinity. *)
Bids == [p |-> [x |-> 1, y |-> 0], q |-> [x |-> 1, y |-> NaN], r |-> [x |-> NaN, y |-> MinusInfinity]]

Lines == [p |-> 1, q |-> 2, r |-> 4]

Kinds == [t |-> Team, u |-> Team, v |-> Team, a |-> 0, b |-> 1]

GraphOf(vertices, edges) ==
    [vertices |-> vertices,
     kind |-> [w \in {vertices[i] : i \in DOMAIN vertices} |-> Kinds[w]],
     edges |-> [i \in DOMAIN edges |-> [id |-> i, src |-> edges[i][1], prog |-> edges[i][2],
                                       dst |-> edges[i][3]]]]

(* A root with two edges to the same team; two roots that share a team and its programs, an
   action coming first; and a chain of three teams beside an action that is a root. *)
Graphs ==
    {GraphOf(<<"t", "a", "u", "b">>,
             <<<<"t", "p", "u">>, <<"u", "q", "a">>, <<"t", "q", "u">>, <<"u", "r", "b">>,
               <<"t", "r", "a">>>>),
     GraphOf(<<"a", "v", "t", "u", "b">>,
             <<<<"v", "r", "a">>, <<"t", "p", "v">>, <<"u", "q", "v">>, <<"v", "q", "b">>,
               <<"t", "q", "a">>, <<"u", "r", "b">>>>),
     GraphOf(<<"v", "u", "t", "b", "a">>,
             <<<<"t", "p", "u">>, <<"u", "q", "v">>, <<"v", "r", "b">>, <<"t", "r", "v">>>>)}
=============================================================================

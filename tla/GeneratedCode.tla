---------------------------- MODULE GeneratedCode ----------------------------
(***************************************************************************)
(* The C code that the two TPGGenerationEngines print for a graph, and     *)
(* what it returns when it runs.  A name is a letter and a number; the     *)
(* body of a function P is the Program it was generated from.              *)
(***************************************************************************)
EXTENDS ExecutionOps

(* TPGAbstractEngine::findVertexID, findProgramID: the next number for what was not met
   before. *)
FindID_NotIncremented(ids, x) ==
    IF x \in DOMAIN ids THEN ids
    ELSE [y \in DOMAIN ids \cup {x} |-> IF y = x THEN 0 ELSE ids[y]]
FindID(ids, x) ==
    IF x \in DOMAIN ids THEN ids
    ELSE [y \in DOMAIN ids \cup {x} |-> IF y = x THEN Cardinality(DOMAIN ids) ELSE ids[y]]

IDs(xs) == FoldLeft(FindID, <<>>, xs)

(* The edges in the order in which their programs are generated, a vertex after another,
   and the functions P: one for each program met for the first time. *)
EdgesInOrder(g) ==
    FlattenSeq([i \in DOMAIN g.vertices |-> OutgoingEdges(g, g.vertices[i])])

ProgramIDs(g) == IDs([i \in DOMAIN EdgesInOrder(g) |-> EdgesInOrder(g)[i].prog])

Bodies(g) ==
    LET id == ProgramIDs(g)
    IN  [n \in {id[p] : p \in DOMAIN id} |-> CHOOSE p \in DOMAIN id : id[p] = n]

(* Both print the results of programs to a loop that keeps the last of the best. *)
BestProgram(results) ==
    FoldLeftDomain(
        LAMBDA best, i : IF Beats(Filter(results[i]), Filter(results[best])) THEN i ELSE best,
        1, results)

-----------------------------------------------------------------------------
(* TPGSwitchGenerationEngine: every vertex is a case named by its number, teams T and
   actions A; a case of a team chooses among next the one with the best score. *)
SwitchName(g, v) == <<IF IsTeam(g, v) THEN "T" ELSE "A", IDs(g.vertices)[v]>>

GenerateTeam(g, v) ==
    LET out == OutgoingEdges(g, v)
    IN  [next |-> [i \in DOMAIN out |-> SwitchName(g, out[i].dst)],
         scores |-> [i \in DOMAIN out |-> ProgramIDs(g)[out[i].prog]]]

SwitchCode(g) ==
    LET names == {SwitchName(g, v) : v \in ToSet(g.vertices)}
        vertex(n) == CHOOSE v \in ToSet(g.vertices) : SwitchName(g, v) = n
    IN  [start |-> SwitchName(g, RootVertices(g)[1]),
         teams |-> [n \in {m \in names : m[1] = "T"} |-> GenerateTeam(g, vertex(n))],
         returns |-> [n \in {m \in names : m[1] = "A"} |-> g.kind[vertex(n)]],
         programs |-> Bodies(g)]

(* inferenceTPG *)
RunSwitch(code, d) ==
    LET run[n \in DOMAIN code.teams \cup DOMAIN code.returns] ==
          IF n \in DOMAIN code.returns THEN code.returns[n]
          ELSE LET team == code.teams[n]
               IN  run[team.next[BestProgram(
                       [i \in DOMAIN team.scores |-> Bid[code.programs[team.scores[i]]][d]])]]
    IN  run[code.start]

-----------------------------------------------------------------------------
(* TPGStackGenerationEngine: a function for every vertex, a team being named by its number
   among teams and an action by its identifier; root is printed as a team. *)
StackName(g, v) == IF IsTeam(g, v) THEN <<"T", IDs(Teams(g))[v]>> ELSE <<"A", g.kind[v]>>

EdgeArray(g, v) ==
    LET out == OutgoingEdges(g, v)
    IN  [i \in DOMAIN out |-> [prog |-> ProgramIDs(g)[out[i].prog],
                               vertex |-> StackName(g, out[i].dst)]]

StackCode(g) ==
    [root |-> <<"T", IDs(Teams(g))[RootVertices(g)[1]]>>,
     teams |-> [n \in {StackName(g, v) : v \in ToSet(Teams(g))} |->
                   EdgeArray(g, CHOOSE v \in ToSet(Teams(g)) : StackName(g, v) = n)],
     actions |-> {StackName(g, v) : v \in ToSet(g.vertices) \ ToSet(Teams(g))},
     programs |-> Bodies(g)]

(* executeFromVertex, until a function returns NULL *)
RunStack(code, d) ==
    LET run[n \in DOMAIN code.teams \cup code.actions] ==
          IF n \in code.actions THEN n[2]
          ELSE LET e == code.teams[n]
               IN  run[e[BestProgram(
                       [i \in DOMAIN e |-> Bid[code.programs[e[i].prog]][d]])].vertex]
    IN  run[code.root]

(* The code can be compiled: its root is a team, and no two actions make the same function. *)
Compiles(g) ==
    /\ Len(Teams(g)) > 0 /\ IsTeam(g, RootVertices(g)[1])
    /\ \A v, w \in ToSet(g.vertices) : IsAction(g, v) /\ g.kind[v] = g.kind[w] => v = w
=============================================================================

------------------------------ MODULE DotFiles ------------------------------
(***************************************************************************)
(* A TPGGraph written by a TPGGraphDotExporter, which keeps the numbers it *)
(* gives from one file to the next while the graph changes, and read line  *)
(* by line by a TPGGraphDotImporter.                                       *)
(*                                                                         *)
(* A line is a record: its shape and the numbers in it.  What is written   *)
(* of a Program, its constants in one line and its instructions in another *)
(* one, is the Program itself.  Regular expressions and layout are left    *)
(* out: the shapes exclude each other.                                     *)
(***************************************************************************)
EXTENDS OrderedGraph

CONSTANTS TooLong,     \* the Programs whose instructions do not fit in MAX_READ_SIZE
          FirstGraphs, \* the graphs that are exported first
          MaxPrints    \* bound: files written

ASSUME DotAssumption ==
    /\ TooLong \subseteq Program /\ MaxPrints \in Nat
    /\ \A g \in FirstGraphs : IsOrderedGraph(g) /\ IsInjective(g.vertices)

VARIABLES tpg,         \* the TPGGraph of the exporter
          exporter,    \* what the exporter keeps, and the lines written
          nbPrints,    \* files written (bounded)
          printed,     \* teams and edges in the file, in order, identifiers of the root
                        \* actions, and the part of the graph that was asked for (a history)
          importer,    \* the maps of the importer and the graph it builds
          pos,         \* next line to read
          outcome      \* "none", "written", "reading", "imported" or "failure"

dotVars == <<tpg, exporter, nbPrints, printed, importer, pos, outcome>>

-----------------------------------------------------------------------------
(* TPGGraphDotExporter *)

NewExporter == [vertexID |-> <<>>, programID |-> <<>>, nbPrograms |-> 0, nbActions |-> 0,
                lines |-> <<>>]

(* std::map::insert, for the exporter and the importer *)
Insert(map, k, x) == [y \in DOMAIN map \cup {k} |-> IF y \in DOMAIN map THEN map[y] ELSE x]

(* TPGAbstractEngine::findVertexID *)
FindVertexID(x, v) == [x EXCEPT !.vertexID = Insert(@, v, Cardinality(DOMAIN @))]

PrintLines(x, lines) == [x EXCEPT !.lines = @ \o lines]

PrintTPGTeam(x, v) ==
    LET y == FindVertexID(x, v)
    IN  PrintLines(y, <<[shape |-> "T", team |-> y.vertexID[v]]>>)

(* Actions are numbered as they are printed, once for each edge to them. *)
PrintTPGAction(x, id) ==
    [PrintLines(x, <<[shape |-> "A", action |-> x.nbActions, label |-> id]>>)
        EXCEPT !.nbActions = @ + 1]

(* findProgramID for a program without number, and the lines that describe it *)
PrintProgram(x, p) ==
    LET n == x.nbPrograms
    IN  [PrintLines(x, <<[shape |-> "P", prog |-> n, constants |-> p],
                         [shape |-> "I", prog |-> n, instructions |-> p],
                         [shape |-> "P->I", prog |-> n]>>)
            EXCEPT !.programID = Insert(@, p, n), !.nbPrograms = n + 1]

(* The destination of an edge is only written with the first edge of its program. *)
PrintTPGEdge(g, x, e) ==
    LET y == FindVertexID(x, e.src)
        team == y.vertexID[e.src]
        new == PrintProgram(y, e.prog)
        prog == new.programID[e.prog]
        withAction == PrintTPGAction(new, g.kind[e.dst])
        withTeam == FindVertexID(new, e.dst)
    IN  IF e.prog \in DOMAIN y.programID
        THEN PrintLines(y, <<[shape |-> "T->P", team |-> team, prog |-> y.programID[e.prog]]>>)
        ELSE IF IsAction(g, e.dst)
        THEN PrintLines(withAction, <<[shape |-> "T->P->A", team |-> team, prog |-> prog,
                                       action |-> new.nbActions]>>)
        ELSE PrintLines(withTeam, <<[shape |-> "T->P->T", team |-> team, prog |-> prog,
                                     dest |-> withTeam.vertexID[e.dst]]>>)

PrintEdges(g, x, es) == FoldLeft(LAMBDA y, e : PrintTPGEdge(g, y, e), x, es)

PrintTeams(x, vs) == FoldLeft(PrintTPGTeam, x, vs)

(* The numbers of programs are forgotten before the edges of a file are printed. *)
ForgetPrograms_Never(x) == x
ForgetPrograms(x) == [x EXCEPT !.programID = <<>>]

(* printTPGGraphFooter: the root actions, then the line that ranks the roots *)
RootActions(g) == SelectIn(RootVertices(g), {v \in ToSet(g.vertices) : IsAction(g, v)})

PrintFooter(g, x) ==
    PrintLines(FoldLeft(LAMBDA y, v : PrintTPGAction(y, g.kind[v]), x, RootActions(g)),
               <<[shape |-> "end"]>>)

PrintGraph(g, x) ==
    PrintFooter(g, PrintEdges(g, ForgetPrograms(PrintTeams(x, Teams(g))), g.edges))

(* printSubGraph: the teams in the order of a breadth-first scan, and their edges. *)
NextTeams(g, scan, v) ==
    FoldLeft(LAMBDA s, e : IF IsTeam(g, e.dst) /\ ~ Contains(s, e.dst) THEN Append(s, e.dst) ELSE s,
             scan, OutgoingEdges(g, v))

BreadthFirst(g, root) ==
    FoldLeftDomain(LAMBDA scan, i : IF i \in DOMAIN scan THEN NextTeams(g, scan, scan[i]) ELSE scan,
                   <<root>>, g.vertices)

SubGraphTeams(g, root) == SelectIn(BreadthFirst(g, root), ToSet(Teams(g)))

SubGraphEdges(g, root) ==
    LET teams == BreadthFirst(g, root)
    IN  FlattenSeq([i \in DOMAIN teams |-> OutgoingEdges(g, teams[i])])

PrintSubGraph(g, x, root) ==
    PrintLines(PrintEdges(g, PrintTeams(ForgetPrograms(x), SubGraphTeams(g, root)),
                          SubGraphEdges(g, root)),
               <<[shape |-> "end"]>>)

-----------------------------------------------------------------------------
NewImporter == [graph |-> EmptyGraph, vertexID |-> <<>>, programID |-> <<>>, actionID |-> <<>>,
                actionLabel |-> <<>>, content |-> <<>>]

DotInit ==
    /\ tpg \in FirstGraphs
    /\ exporter = NewExporter
    /\ nbPrints = 0
    /\ printed = [teams |-> <<>>, edges |-> <<>>, roots |-> {}, policy |-> {}]
    /\ importer = NewImporter
    /\ pos = 1
    /\ outcome = "none"

(* setNewFilePath and the print of the whole graph, or of what a vertex leads to *)
PrintWhole ==
    /\ outcome # "reading"
    /\ nbPrints < MaxPrints
    /\ exporter' = PrintGraph(tpg, [exporter EXCEPT !.lines = <<>>])
    /\ printed' = [teams |-> Teams(tpg), edges |-> tpg.edges,
                   roots |-> {tpg.kind[v] : v \in ToSet(RootActions(tpg))},
                   policy |-> ToSet(tpg.vertices)]
    /\ nbPrints' = nbPrints + 1
    /\ outcome' = "written"
    /\ UNCHANGED <<tpg, importer, pos>>

PrintSub(root) ==
    /\ outcome # "reading"
    /\ nbPrints < MaxPrints
    /\ exporter' = PrintSubGraph(tpg, [exporter EXCEPT !.lines = <<>>], root)
    /\ printed' = [teams |-> SubGraphTeams(tpg, root),
                   edges |-> SubGraphEdges(tpg, root),
                   roots |-> {},
                   policy |-> Policy(tpg, root)]
    /\ nbPrints' = nbPrints + 1
    /\ outcome' = "written"
    /\ UNCHANGED <<tpg, importer, pos>>

(* Between two files a root is removed and a new team takes its address, with an edge to any
   vertex and any program, of another edge or not. *)
ReplaceRoot(v) ==
    LET rest == RemoveVertices(tpg, {v})
        new == AddVertex(rest, v, Team)
        id == CHOOSE n \in 1 .. Len(rest.edges) + 1 : \A e \in ToSet(rest.edges) : e.id # n
    IN  /\ outcome \in {"imported", "failure"}
        /\ nbPrints < MaxPrints
        /\ IsTeam(tpg, v)
        /\ \E d \in ToSet(rest.vertices), p \in Program : tpg' = AddNewEdge(new, id, v, d, p)
        /\ outcome' = "none"
        /\ UNCHANGED <<exporter, nbPrints, printed, importer, pos>>

-----------------------------------------------------------------------------
(* TPGGraphDotImporter::importGraph: everything is cleared, and the lines are read one
   after another. *)
ClearImporter == NewImporter

ImportGraph ==
    /\ outcome = "written"
    /\ importer' = ClearImporter
    /\ pos' = 1
    /\ outcome' = "reading"
    /\ UNCHANGED <<tpg, exporter, nbPrints, printed>>

Line == exporter.lines[pos]

Reading(shape) == outcome = "reading" /\ Line.shape = shape

Read(new) ==
    /\ importer' = new
    /\ pos' = pos + 1
    /\ UNCHANGED <<tpg, exporter, nbPrints, printed, outcome>>

(* A vertex that addNewTeam or addNewAction creates is named by its rank. *)
NewVertex == Len(importer.graph.vertices) + 1

ReadTeam ==
    /\ Reading("T")
    /\ Read([importer EXCEPT !.vertexID = Insert(@, Line.team, NewVertex),
                             !.graph = AddVertex(@, NewVertex, Team)])

(* An action is created for a label met for the first time. *)
ReadAction ==
    /\ Reading("A")
    /\ LET known == Line.label \in DOMAIN importer.actionID
       IN  Read([importer EXCEPT
                   !.actionLabel = Insert(@, Line.action, Line.label),
                   !.actionID = Insert(@, Line.label, NewVertex),
                   !.graph = IF known THEN @ ELSE AddVertex(@, NewVertex, Line.label)])

(* A new Program with the constants, whose instructions come with the next line. *)
NewProgram == Len(importer.content) + 1

ReadProgram ==
    /\ Reading("P")
    /\ Read([importer EXCEPT !.programID = Insert(@, Line.prog, NewProgram),
                             !.content = Append(@, [constants |-> Line.constants, lines |-> {}])])

ReadLine ==
    /\ Reading("I")
    /\ Line.instructions \notin TooLong
    /\ Read(IF Line.prog \in DOMAIN importer.programID
            THEN [importer EXCEPT !.content[importer.programID[Line.prog]].lines =
                                     @ \cup {Line.instructions}]
            ELSE importer)

(* getline fails on a line that is too long, and the exception leaves the graph as it is. *)
FailToRead ==
    /\ Reading("I")
    /\ Line.instructions \in TooLong
    /\ outcome' = "failure"
    /\ UNCHANGED <<tpg, exporter, nbPrints, printed, importer, pos>>

ReadLinkProgramInstruction ==
    /\ Reading("P->I")
    /\ Read(importer)

(* addNewEdge, if the names are known *)
Link(team, dest, prog) ==
    Read([importer EXCEPT !.graph =
             AddNewEdge(@, Len(@.edges) + 1, importer.vertexID[team], dest, prog)])

Knows(line) == line.team \in DOMAIN importer.vertexID /\ line.prog \in DOMAIN importer.programID

ReadLinkTeamProgramAction ==
    /\ Reading("T->P->A")
    /\ IF Knows(Line) /\ Line.action \in DOMAIN importer.actionLabel
       THEN Link(Line.team, importer.actionID[importer.actionLabel[Line.action]],
                 importer.programID[Line.prog])
       ELSE Read(importer)

ReadLinkTeamProgramTeam ==
    /\ Reading("T->P->T")
    /\ IF Knows(Line) /\ Line.dest \in DOMAIN importer.vertexID
       THEN Link(Line.team, importer.vertexID[Line.dest], importer.programID[Line.prog])
       ELSE Read(importer)

(* The destination is that of the first edge of the program. *)
EdgesSharing(prog) == SelectIn(importer.graph.edges, {e \in ToSet(importer.graph.edges) : e.prog = prog})

DestinationOf_LastRead(prog) == Last(importer.graph.edges).dst
DestinationOf(prog) == Head(EdgesSharing(prog)).dst

ReadLinkTeamProgram ==
    /\ Reading("T->P")
    /\ LET prog == importer.programID[Line.prog]
       IN  IF Knows(Line) /\ EdgesSharing(prog) # <<>>
           THEN Link(Line.team, DestinationOf(prog), prog)
           ELSE Read(importer)

(* The first line of no known shape ends the graph. *)
EndOfGraph ==
    /\ Reading("end")
    /\ outcome' = "imported"
    /\ UNCHANGED <<tpg, exporter, nbPrints, printed, importer, pos>>

DotNext ==
    \/ PrintWhole
    \/ \E v \in ToSet(tpg.vertices) : PrintSub(v)
    \/ \E v \in ToSet(RootVertices(tpg)) : ReplaceRoot(v)
    \/ ImportGraph
    \/ ReadTeam \/ ReadAction \/ ReadProgram \/ ReadLine \/ FailToRead
    \/ ReadLinkProgramInstruction \/ ReadLinkTeamProgramAction \/ ReadLinkTeamProgramTeam
    \/ ReadLinkTeamProgram
    \/ EndOfGraph

DotSpec == DotInit /\ [][DotNext]_dotVars

-----------------------------------------------------------------------------
(* The edges of a file as they can be read: each leads where the first edge of its program
   leads, the only one with which a destination is written. *)
FirstOf(es, p) == CHOOSE i \in DOMAIN es : es[i].prog = p /\ \A j \in 1 .. i - 1 : es[j].prog # p

EdgeTo(e, v) == [id |-> e.id, src |-> e.src, dst |-> v, prog |-> e.prog]

Rerouted(es) == [i \in DOMAIN es |-> EdgeTo(es[i], es[FirstOf(es, es[i].prog)].dst)]

ActionsOf(g, es) == {g.kind[es[i].dst] : i \in {j \in DOMAIN es : IsAction(g, es[j].dst)}}

(* The vertex of the imported graph that stands for vertex v of the printed one *)
StandsFor(w, v) ==
    IF IsTeam(tpg, v)
    THEN w \in DOMAIN printed.teams /\ printed.teams[w] = v
    ELSE importer.graph.kind[w] = tpg.kind[v]

SameEdge(e, f) ==
    /\ StandsFor(e.src, f.src) /\ StandsFor(e.dst, f.dst)
    /\ importer.content[e.prog] = [constants |-> f.prog, lines |-> {f.prog}]

(* At any time of an import, and when it fails, the edges of the imported graph are the
   first ones of the file, in order: the same ends, which decide what ties mean, the same
   programs, and the same sharing of programs; but for edges that share a program and lead to
   different vertices, which all lead to the destination of the first. *)
ImportIsPrefix ==
    outcome \in {"reading", "imported", "failure"} =>
        LET es == importer.graph.edges
            fs == Rerouted(printed.edges)
        IN  /\ Len(es) <= Len(fs)
            /\ \A i \in DOMAIN es :
                  /\ SameEdge(es[i], fs[i])
                  /\ \A j \in DOMAIN es : es[i].prog = es[j].prog <=> fs[i].prog = fs[j].prog

(* The edges of the imported graph lead where those of the file lead. *)
ImportKeepsDestinations ==
    \A i \in DOMAIN importer.graph.edges :
        outcome \in {"reading", "imported", "failure"} =>
            StandsFor(importer.graph.edges[i].dst, printed.edges[i].dst)

(* What is exported and imported without failure is the same graph: each team and each
   edge that is printed, and one action for each identifier, root actions included for a
   whole graph; and what is printed is the graph, or the policy of the vertex given to
   printSubGraph, every part of it once.  Lost is an action that is no root and that only edges
   lead to whose programs other edges lead elsewhere with. *)
RoundTrip ==
    outcome = "imported" =>
        LET g == importer.graph
            actions == ActionsOf(tpg, Rerouted(printed.edges)) \cup printed.roots
        IN  /\ Len(Teams(g)) = Len(printed.teams)
            /\ Len(g.edges) = Len(printed.edges)
            /\ {g.kind[v] : v \in ToSet(g.vertices)} \ {Team} = actions
            /\ Len(g.vertices) = Len(printed.teams) + Cardinality(actions)
            /\ IsInjective(printed.teams) /\ IsInjective(printed.edges)
            /\ ToSet(printed.teams) = printed.policy \cap ToSet(Teams(tpg))
            /\ ToSet(printed.edges) = {e \in ToSet(tpg.edges) : e.src \in printed.policy}
=============================================================================

---------------------------- MODULE PopulationOps ----------------------------
(***************************************************************************)
(* A TPGGraph as the LearningAgent sees it: which vertices are alive, and  *)
(* which vertices the edges of a team lead to.  Parallel edges, Programs   *)
(* and everything that decides between the edges are abstracted.           *)
(***************************************************************************)
EXTENDS Integers, FiniteSets

CONSTANTS Vertex,       \* addresses a TPGVertex may have
          NbActions,    \* number of actions of the environment
          NbRoots,      \* params.tpg.nbRoots
          InitNbRoots   \* params.tpg.initNbRoots

ASSUME PopulationAssumption ==
    /\ IsFiniteSet(Vertex)
    /\ NbActions \in Nat /\ NbActions >= 2
    /\ NbRoots \in Nat
    /\ InitNbRoots \in Nat /\ InitNbRoots >= NbActions

PopulationType ==
    [teams : SUBSET Vertex, actions : SUBSET Vertex, kids : [Vertex -> SUBSET Vertex]]

EmptyPopulation == [teams |-> {}, actions |-> {}, kids |-> [v \in Vertex |-> {}]]

Alive(p) == p.teams \cup p.actions

RootsOf(p) == {v \in Alive(p) : \A t \in p.teams : v \notin p.kids[t]}

RootTeamsOf(p) == RootsOf(p) \cap p.teams

(* What initRandomTPG may build: teams that lead to actions, as many as there are actions
   to at least two of them, and no action left out. *)
InitialOver(ts, as) ==
    {[teams |-> ts, actions |-> as,
      kids |-> [v \in Vertex |-> IF v \in ts THEN k[v] ELSE {}]] :
        k \in {f \in [ts -> (SUBSET as) \ {{}}] :
                  /\ ts \cap as = {}
                  /\ UNION {f[t] : t \in ts} = as
                  /\ Cardinality({t \in ts : Cardinality(f[t]) > 1}) >= NbActions}}

InitialPopulations ==
    UNION {UNION {InitialOver(ts, as) : as \in {S \in SUBSET Vertex : Cardinality(S) = NbActions}} :
             ts \in {S \in SUBSET Vertex : Cardinality(S) = InitNbRoots}}

(* A new root team at address v whose edges lead to ks. *)
AddTeam(p, v, ks) == [p EXCEPT !.teams = @ \cup {v}, !.kids[v] = ks]

(* removeVertex of the vertices D. *)
RemoveAll(p, D) ==
    [teams |-> p.teams \ D, actions |-> p.actions \ D,
     kids |-> [v \in Vertex |-> IF v \in D THEN {} ELSE p.kids[v] \ D]]
=============================================================================

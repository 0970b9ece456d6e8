----------------------------- MODULE Population -----------------------------
(***************************************************************************)
(* What TPGMutator promises about the population of a TPGGraph: a team     *)
(* appears complete, leads to vertices that were there before it, and is   *)
(* never altered; only roots leave; and a team is added only while there   *)
(* are too few roots.                                                      *)
(***************************************************************************)
EXTENDS PopulationOps

VARIABLE pop

Init == pop = EmptyPopulation

(* The graph is cleared, and later filled by initRandomTPG. *)
Clear == pop' = EmptyPopulation

Fill == pop = EmptyPopulation /\ pop' \in InitialPopulations

NewRoot(v) ==
    /\ Cardinality(RootsOf(pop)) < NbRoots
    /\ pop'.kids[v] \in (SUBSET Alive(pop)) \ {{}}
    /\ pop' = AddTeam(pop, v, pop'.kids[v])

RemoveRoot(v) == v \in RootsOf(pop) /\ pop' = RemoveAll(pop, {v})

Came == Alive(pop') \ Alive(pop)

Gone == Alive(pop) \ Alive(pop')

Next ==
    \/ Clear
    \/ Fill
    \/ \E v \in Came : NewRoot(v)
    \/ \E v \in Gone : RemoveRoot(v)

Spec == Init /\ [][Next]_pop
=============================================================================

------------------------ MODULE MCClassificationAgent ------------------------
(* An instance of ClassificationAgent for TLC. *)
EXTENDS ClassificationAgent

Addresses == 1 .. 8

OneOfThree == <<1, 3>>

First(S) == CHOOSE v \in S : \A w \in S : v <= w

(* Scores of the two classes as a number: which of two alike policies has the better ones
   does not matter. *)
Rank(r) == 2 * r.perClass[1] + r.perClass[2]

(* The first teams lead to two actions and the others to one, so that the other action is
   a root when the first teams are gone; one address is as good as another.  A policy that
   is evaluated again succeeds for the second class only, or for none.  Of roots that
   differ by their address only, the decimation removes the first ones.  The training ends
   when a root is not evaluated any more. *)
StoredResult(v) == IF v \in DOMAIN resultsPerRoot THEN {resultsPerRoot[v]} ELSE {}

Alike(v, w) == pop.kids[v] = pop.kids[w] /\ StoredResult(v) = StoredResult(w)

MCNext ==
    /\ ClassGeneration
    /\ pc = "idle" => \A v \in Alive(pop) : ~ IsRootEvalSkipped(v)
    /\ pc = "idle" /\ pop' # pop =>
          pop' = CHOOSE p \in InitialPopulations : /\ Alive(p) = 1 .. 4
                                                   /\ \A t \in p.teams : p.kids[t] = p.actions
    /\ pc = "populate" /\ pop' # pop =>
          pop' = AddTeam(pop, First(Vertex \ Alive(pop)), {First(pop.actions)})
    /\ pc = "evaluate" =>
          /\ \A v \in DOMAIN results' \cap DOMAIN resultsPerRoot :
                results'[v].perClass[1] = resultsPerRoot[v].perClass[1]
          /\ \A v, w \in DOMAIN results' :
                v < w /\ Alike(v, w) => Rank(results'[v]) <= Rank(results'[w])
          /\ bestScoreLastGen' = results'[First(Best(results'))]
    /\ pc = "decimate" =>
          \A d \in DOMAIN results \ DOMAIN results', v \in DOMAIN results' \ {bestRoot.root} :
             results[d] = results[v] /\ pop.kids[d] = pop.kids[v] => v < d
    /\ pc = "update" => \/ bestRoot'.root = bestRoot.root
                        \/ bestRoot'.root = First(Best(results))

MCSpec == Init /\ [][MCNext]_vars
=============================================================================

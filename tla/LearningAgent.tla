---------------------------- MODULE LearningAgent ----------------------------
(***************************************************************************)
(* The generations of a LearningAgent: init, trainOneGeneration,           *)
(* keepBestPolicy and forgetPreviousResults, and the records they keep     *)
(* about roots, by address.  populateTPG is used through what it promises  *)
(* (Population), evaluateAllRoots through what it returns, one result per  *)
(* root.                                                                   *)
(*                                                                         *)
(* A result is the sum of the scores of n evaluations.  "own" is a history *)
(* field: were all of them made on the vertex that lives at the address    *)
(* now?  "stale" is a history variable: the addresses at which a result    *)
(* is stored though its vertex was destroyed.                              *)
(***************************************************************************)
EXTENDS PopulationOps

CONSTANTS NoVertex,       \* the null pointer
          Score,          \* scores of one evaluation (naturals)
          NbIter,         \* params.nbIterationsPerPolicyEvaluation
          MaxNbEval,      \* params.maxNbEvaluationPerPolicy
          DeletedRatio    \* <<k, d>> where k / d is params.ratioDeletedRoots

ASSUME AgentAssumption ==
    /\ NoVertex \notin Vertex
    /\ Score \subseteq Nat
    /\ NbIter \in Nat \ {0} /\ MaxNbEval \in Nat
    /\ DeletedRatio \in Nat \X (Nat \ {0}) /\ DeletedRatio[1] <= DeletedRatio[2]

VARIABLES pop,               \* the TPGGraph
          pc,                \* where trainOneGeneration is
          preExisting,       \* vertices when populateTPG started
          results,           \* result of each root evaluated in this generation
          resultsPerRoot,    \* the stored results, by address
          bestRoot,          \* LearningAgent::bestRoot
          bestScoreLastGen,  \* the best result of the last evaluation
          stale              \* addresses of results that outlived their vertex (history)

vars == <<pop, pc, preExisting, results, resultsPerRoot, bestRoot, bestScoreLastGen, stale>>

records == <<results, resultsPerRoot, bestRoot, bestScoreLastGen, stale>>

Result == [sum : Nat, n : Nat \ {0}, own : BOOLEAN]

NoResult == [sum |-> 0, n |-> 1, own |-> TRUE]

NoBest == [root |-> NoVertex, result |-> NoResult]

(* operator< compares averages. *)
Worse(x, y) == x.sum * y.n < y.sum * x.n

(* operator+= *)
Combine(x, y) == [sum |-> x.sum + y.sum, n |-> x.n + y.n, own |-> x.own /\ y.own]

WithoutRoots(f, D) == [x \in DOMAIN f \ D |-> f[x]]

(* History: the vertices D are destroyed, what is stored about their addresses stays. *)
Disown(f, D) == [v \in DOMAIN f |-> IF v \in D THEN [f[v] EXCEPT !.own = FALSE] ELSE f[v]]

DisownBest(best, D) ==
    IF best.root \in D THEN [best EXCEPT !.result.own = FALSE] ELSE best

LeaveBehind(D) == /\ resultsPerRoot' = Disown(resultsPerRoot, D)
                  /\ stale' = stale \cup (D \cap DOMAIN resultsPerRoot)

Init == /\ pop = EmptyPopulation
        /\ pc = "idle"
        /\ preExisting = {}
        /\ results = <<>>
        /\ resultsPerRoot = <<>>
        /\ bestRoot = NoBest
        /\ bestScoreLastGen = NoResult
        /\ stale = {}

-----------------------------------------------------------------------------
(* The user calls the agent between generations. *)
Idle == pc \in {"idle", "kept"}

(* init: the TPG is made anew, the best root is cleared, resultsPerRoot is not. *)
InitAgent ==
    /\ Idle
    /\ pop' \in InitialPopulations
    /\ LeaveBehind(Alive(pop))
    /\ bestRoot' = NoBest
    /\ pc' = "idle"
    /\ UNCHANGED <<preExisting, results, bestScoreLastGen>>

(* trainOneGeneration starts with populateTPG: with a new graph if there is no root team, *)
StartGeneration ==
    /\ Idle
    /\ \/ /\ RootTeamsOf(pop) # {}
          /\ UNCHANGED <<pop, resultsPerRoot, bestRoot, stale>>
       \/ /\ RootTeamsOf(pop) = {}
          /\ pop' \in InitialPopulations
          /\ LeaveBehind(Alive(pop))
          /\ bestRoot' = DisownBest(bestRoot, Alive(pop))
    /\ preExisting' = Alive(pop')
    /\ pc' = "populate"
    /\ UNCHANGED <<results, bestScoreLastGen>>

(* it adds teams that lead to pre-existing vertices *)
AddNewTeam ==
    /\ pc = "populate"
    /\ Cardinality(RootsOf(pop)) < NbRoots
    /\ \E v \in Vertex \ Alive(pop), ks \in (SUBSET preExisting) \ {{}} :
          pop' = AddTeam(pop, v, ks)
    /\ UNCHANGED <<pc, preExisting, records>>

(* until there are enough roots. *)
EndPopulate ==
    /\ pc = "populate"
    /\ Cardinality(RootsOf(pop)) >= NbRoots
    /\ pc' = "evaluate"
    /\ preExisting' = {}
    /\ UNCHANGED <<pop, records>>

(* isRootEvalSkipped *)
IsRootEvalSkipped(v) ==
    v \in DOMAIN resultsPerRoot /\ resultsPerRoot[v].n >= MaxNbEval

(* evaluateAllRoots, where evaluateJob returns the stored result of a skipped root and
   combines the result of another with the stored one, and updateBestScoreLastGen *)
EvaluationOf(v, sum) ==
    LET new == [sum |-> sum, n |-> NbIter, own |-> TRUE]
    IN  IF IsRootEvalSkipped(v) THEN resultsPerRoot[v]
        ELSE IF v \in DOMAIN resultsPerRoot THEN Combine(new, resultsPerRoot[v])
        ELSE new

Best(rs) == {v \in DOMAIN rs : \A w \in DOMAIN rs : ~ Worse(rs[v], rs[w])}

EvaluateAllRoots ==
    /\ pc = "evaluate"
    /\ \E sums \in [RootsOf(pop) -> {s * NbIter : s \in Score}] :
          results' = [v \in RootsOf(pop) |-> EvaluationOf(v, sums[v])]
    /\ bestScoreLastGen' \in {results'[v] : v \in Best(results')}
    /\ pc' = "decimate"
    /\ UNCHANGED <<pop, preExisting, resultsPerRoot, bestRoot, stale>>

(* decimateWorstRoots removes the worst roots, passing over the actions; roots with equal
   results are in any order.  The results of the roots removed are erased. *)
NbDeleted == (DeletedRatio[1] * NbRoots) \div DeletedRatio[2]

NbToRemove(teams) == IF Cardinality(teams) < NbDeleted THEN Cardinality(teams) ELSE NbDeleted

WorstRoots_Best(teams) ==
    {D \in SUBSET teams :
        /\ Cardinality(D) = NbToRemove(teams)
        /\ \A d \in D, v \in teams \ D : ~ Worse(results[d], results[v])}
WorstRoots(teams) ==
    {D \in SUBSET teams :
        /\ Cardinality(D) = NbToRemove(teams)
        /\ \A d \in D, v \in teams \ D : ~ Worse(results[v], results[d])}

(* resultsPerRoot.erase(root) *)
Forget_Nothing(f, D) == f
Forget(f, D) == WithoutRoots(f, D)

DecimateWorstRoots ==
    /\ pc = "decimate"
    /\ \E D \in WorstRoots(DOMAIN results \cap pop.teams) :
          /\ pop' = RemoveAll(pop, D)
          /\ results' = WithoutRoots(results, D)
          /\ resultsPerRoot' = Disown(Forget(resultsPerRoot, D), D)
          /\ bestRoot' = DisownBest(bestRoot, D)
          /\ stale' = stale \ D
    /\ pc' = "update"
    /\ UNCHANGED <<preExisting, bestScoreLastGen>>

(* updateEvaluationRecords, which does not return if no result is left (it takes the
   element before the end of an empty map): the new results are stored, that of the best root too, unless
   the result is the very one that is stored, ... *)
StoredBest(reused) ==
    IF bestRoot.root \in (DOMAIN results \cap DOMAIN resultsPerRoot) \ reused
    THEN [bestRoot EXCEPT !.result = results[bestRoot.root]]
    ELSE bestRoot

(* ... then the best root is replaced if there is none, if its result is beaten, or if it
   is no longer in the graph. *)
MustReplace_UnlessBeaten(best, v) == best.root = NoVertex \/ Worse(best.result, results[v])
MustReplace(best, v) ==
    \/ best.root = NoVertex
    \/ Worse(best.result, results[v])
    \/ best.root \notin Alive(pop)

UpdateRecords(reused) ==
    /\ pc = "update"
    /\ resultsPerRoot' = [v \in DOMAIN resultsPerRoot \cup DOMAIN results |->
                            IF v \in DOMAIN results THEN results[v] ELSE resultsPerRoot[v]]
    /\ \E v \in Best(results) :
          bestRoot' = IF MustReplace(StoredBest(reused), v)
                      THEN [root |-> v, result |-> results[v]] ELSE StoredBest(reused)
    /\ pc' = "trained"
    /\ UNCHANGED <<pop, preExisting, results, bestScoreLastGen, stale>>

UpdateEvaluationRecords == UpdateRecords({v \in DOMAIN results : IsRootEvalSkipped(v)})

(* The validation, if any, changes no state; the local results are gone. *)
EndGeneration ==
    /\ pc = "trained"
    /\ pc' = "idle"
    /\ results' = <<>>
    /\ UNCHANGED <<pop, preExisting, resultsPerRoot, bestRoot, bestScoreLastGen, stale>>

-----------------------------------------------------------------------------
(* keepBestPolicy: while the number of roots is not 1, remove the roots there are except
   the best one.  If that is not in the graph nothing happens. *)
KeepPass_All(p) == RemoveAll(p, RootsOf(p))
KeepPass(p) == RemoveAll(p, RootsOf(p) \ {bestRoot.root})

KeepBestPolicy ==
    /\ Idle
    /\ bestRoot.root \in Alive(pop)
    /\ LET passes[n \in 0 .. Cardinality(Vertex)] ==
              IF n = 0 THEN pop
              ELSE IF Cardinality(RootsOf(passes[n - 1])) = 1 THEN passes[n - 1]
              ELSE KeepPass(passes[n - 1])
       IN  pop' = passes[Cardinality(Vertex)]
    /\ LeaveBehind(Alive(pop) \ Alive(pop'))
    /\ pc' = "kept"
    /\ UNCHANGED <<preExisting, results, bestRoot, bestScoreLastGen>>

(* forgetPreviousResults *)
ForgetPreviousResults ==
    /\ Idle
    /\ resultsPerRoot' = <<>>
    /\ bestRoot' = NoBest
    /\ stale' = {}
    /\ pc' = "idle"
    /\ UNCHANGED <<pop, preExisting, results, bestScoreLastGen>>

-----------------------------------------------------------------------------
Generation ==
    \/ StartGeneration \/ AddNewTeam \/ EndPopulate \/ EvaluateAllRoots \/ DecimateWorstRoots
    \/ UpdateEvaluationRecords \/ EndGeneration

(* Generations, and the other calls between them, in any order. *)
Training ==
    \/ Generation
    \/ InitAgent
    \/ ForgetPreviousResults
    \/ KeepBestPolicy

TrainingSpec == Init /\ [][Training]_vars

-----------------------------------------------------------------------------
(* A root is only skipped for, combined with, or ranked by evaluations of a policy that lived
   at its address before if init, keepBestPolicy or a populateTPG that found no root team
   destroyed that policy, and its result was neither forgotten nor erased since: decimation
   never leaves such a result, though its addresses are used again at once.  And no result
   grows once it has maxNbEvaluationPerPolicy evaluations (each root is evaluated once, be
   that number 0). *)
ResultsAreOwn ==
    /\ \A v \in DOMAIN results : results[v].own \/ v \in stale
    /\ \A v \in DOMAIN resultsPerRoot :
          /\ resultsPerRoot[v].own \/ v \in stale
          /\ resultsPerRoot[v].n = NbIter \/ resultsPerRoot[v].n < MaxNbEval + NbIter

(* After a generation the best root is in the graph, whatever was removed or made anew since
   it was the best, and no root of the generation has a better result.  Its record is the
   result of this generation if it was evaluated, also with less success, and its own unless
   a stale result was stored at its address. *)
BestRootIsBest ==
    pc = "trained" =>
        /\ bestRoot.root \in Alive(pop)
        /\ bestRoot.result.own \/ bestRoot.root \in stale
        /\ bestRoot.root \in DOMAIN results => bestRoot.result = results[bestRoot.root]
        /\ \A v \in DOMAIN results : ~ Worse(bestRoot.result, results[v])

(* Decimation is given a number of roots to remove, computed from nbRoots, and passes over
   actions.  If fewer are to be removed than there are root teams, it leaves a root with the
   best score of the generation, so that the element updateEvaluationRecords takes before the
   end of the results exists, and a root team, so that the next populateTPG does not discard
   the graph.  Otherwise it removes all of them, whatever their scores, and no action. *)
BestScoreSurvives ==
    [][pc = "decimate" =>
          LET teams == DOMAIN results \cap pop.teams
          IN  IF NbDeleted < Cardinality(teams)
              THEN /\ \E v \in DOMAIN results' :
                         results[v].sum * bestScoreLastGen.n = bestScoreLastGen.sum * results[v].n
                   /\ RootTeamsOf(pop') # {}
              ELSE DOMAIN results' = DOMAIN results \ teams]_vars

(* keepBestPolicy leaves a graph with one root, in which the best root and everything its
   policy leads to is still there, and that can be trained further. *)
BestPolicySurvives ==
    pc = "kept" =>
        /\ bestRoot.root \in Alive(pop)
        /\ Cardinality(RootsOf(pop)) = 1
        /\ \A t \in pop.teams : pop.kids[t] # {} /\ pop.kids[t] \subseteq Alive(pop)
=============================================================================

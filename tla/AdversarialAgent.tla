-------------------------- MODULE AdversarialAgent --------------------------
(***************************************************************************)
(* An AdversarialLearningAgent: a LearningAgent that evaluates its roots   *)
(* in games of several agents, against the champions of the generation     *)
(* before.  makeJobs composes the games, the results of a root are         *)
(* gathered over the games it is studied in.                               *)
(*                                                                         *)
(* The environment is abstract: each policy has a skill when it is         *)
(* evaluated, and an agent scores 1 in a game if no other agent of it is   *)
(* more skilled.  All iterations of a game are alike.                      *)
(***************************************************************************)
EXTENDS LearningAgent

CONSTANTS NbAgents,       \* agentsPerEvaluation
          NbIterPerJob,   \* params.nbIterationsPerJob
          Skill           \* skills of policies

ASSUME AdversarialAssumption ==
    /\ NbAgents \in Nat \ {0} /\ NbIterPerJob \in Nat \ {0}
    /\ Skill \subseteq Nat

VARIABLES champions,   \* the roots in AdversarialLearningAgent::champions
          skill        \* skills in the last evaluation, until it is used (history)

advVars == <<vars, champions, skill>>

AdvInit == Init /\ champions = {} /\ skill = <<>>

Seat == 1 .. NbAgents

NbKept(nb) == ((DeletedRatio[2] - DeletedRatio[1]) * nb) \div DeletedRatio[2]

-----------------------------------------------------------------------------
(* makeJobs.  Without champions, the first roots are, one more than are kept: with a ratio of
   deleted roots of 0 the code reads past their end, and there is no choice here. *)
Champions(roots) ==
    IF champions # {} THEN {champions}
    ELSE {C \in SUBSET roots : Cardinality(C) = NbKept(Cardinality(roots)) + 1}

NbChampionsTeams ==
    (NbIter + NbAgents * NbIterPerJob - 1) \div (NbAgents * NbIterPerJob)

(* The game of the root r at the seat i, with the team t of champions around it. *)
Job(teams, r, t, i) ==
    [team |-> t, seat |-> i, root |-> r,
     roots |-> [s \in Seat |-> IF s < i THEN teams[t][s] ELSE IF s = i THEN r ELSE teams[t][s - 1]]]

(* Each root takes each seat of a game with each team of champions. *)
MakeJobs(roots, teams) ==
    {Job(teams, g[1], g[2], g[3]) : g \in roots \X (DOMAIN teams) \X Seat}

(* The abstract environment. *)
Play(job, sk, seat) ==
    IF \A s \in Seat : sk[job.roots[s]] <= sk[job.roots[seat]] THEN 1 ELSE 0

(* evaluateAllRootsInParallelCompileResults: the score of the studied root of each game is
   added to its result, those of the champions around it are not; *)
CountedSeats_AllFollowing(job) == job.seat .. NbAgents
CountedSeats_First(job) == {1}
CountedSeats(job) == {job.seat}

GameScores(jobs, sk, v) ==
    LET games == {g \in jobs \X Seat : g[2] \in CountedSeats(g[1]) /\ g[1].roots[g[2]] = v}
    IN  [sum |-> NbIterPerJob * Cardinality({g \in games : Play(g[1], sk, g[2]) = 1}),
         n |-> NbIterPerJob * Cardinality(games),
         own |-> TRUE]

CompileResults(jobs, sk, roots) == [v \in roots |-> GameScores(jobs, sk, v)]

(* the best roots are the next champions.  With equal results, any are. *)
BestKept_OneMore(rs) ==
    {C \in SUBSET DOMAIN rs :
        /\ Cardinality(C) = NbKept(Cardinality(DOMAIN rs)) + 1
        /\ \A c \in C, v \in DOMAIN rs \ C : ~ Worse(rs[c], rs[v])}
BestKept(rs) ==
    {C \in SUBSET DOMAIN rs :
        /\ Cardinality(C) = NbKept(Cardinality(DOMAIN rs))
        /\ \A c \in C, v \in DOMAIN rs \ C : ~ Worse(rs[c], rs[v])}

(* What evaluateAllRoots may return: results, with the skills and the next champions. *)
Evaluations ==
    LET roots == RootsOf(pop)
    IN  UNION {LET rs == CompileResults(MakeJobs(roots, e.teams), e.skill, roots)
               IN  {[results |-> rs, skill |-> e.skill, champions |-> C] : C \in BestKept(rs)} :
               e \in UNION {[skill : [roots \cup C -> Skill],
                             teams : [1 .. NbChampionsTeams -> [1 .. NbAgents - 1 -> C]]] :
                            C \in Champions(roots)}}

AdvEvaluateAllRoots ==
    /\ pc = "evaluate"
    /\ \E e \in Evaluations :
          /\ results' = e.results
          /\ skill' = e.skill
          /\ champions' = e.champions
    /\ bestScoreLastGen' \in {results'[v] : v \in Best(results')}
    /\ pc' = "decimate"
    /\ UNCHANGED <<pop, preExisting, resultsPerRoot, bestRoot, stale>>

(* Roots are removed from the begin of the results, champions were taken from their end:
   with equal results, no champion is removed before another root. *)
AdvDecimateWorstRoots ==
    /\ DecimateWorstRoots
    /\ LET removed == pop.teams \ pop'.teams
       IN  removed \cap champions # {} => (DOMAIN results \cap pop.teams) \ champions \subseteq removed
    /\ skill' = <<>>
    /\ UNCHANGED champions

(* Results are new in every generation: none is skipped for one that is stored. *)
AdvUpdateEvaluationRecords == UpdateRecords({}) /\ UNCHANGED <<champions, skill>>

(* Validation evaluates the roots that are left, which changes the champions. *)
Validate ==
    /\ pc = "trained"
    /\ \E e \in Evaluations : champions' = e.champions
    /\ UNCHANGED <<vars, skill>>

-----------------------------------------------------------------------------
(* Generations of an agent whose init was called once *)
AdvGeneration ==
    \/ AdvEvaluateAllRoots
    \/ AdvDecimateWorstRoots
    \/ AdvUpdateEvaluationRecords
    \/ Validate
    \/ /\ \/ StartGeneration
          \/ AddNewTeam
          \/ EndPopulate
          \/ EndGeneration
          \/ (pop = EmptyPopulation /\ InitAgent)
       /\ UNCHANGED <<champions, skill>>

(* ... and with the other calls between them, in any order *)
AdvTraining ==
    \/ AdvGeneration
    \/ (InitAgent \/ ForgetPreviousResults \/ KeepBestPolicy) /\ UNCHANGED <<champions, skill>>

AdvSpec == AdvInit /\ [][AdvTraining]_advVars

-----------------------------------------------------------------------------
(* "the roots of the next generation will fight against these champions", the "roots of a
   generation that are kept": no champion is a root that was removed. *)
ChampionsAreAlive == pc = "evaluate" => champions \subseteq Alive(pop)

(* The next champions and the number of roots to remove are computed apart, one from the
   roots there are, the other from nbRoots: they never overlap, unless actions became
   roots, over which the removal passes. *)
ChampionsAreKept ==
    pc = "update" /\ DOMAIN results \cap pop.actions = {} => champions \subseteq DOMAIN results

(* Each root gets the same number of evaluations, enough of them and no game too many,
   be it a champion that sits in the games of all others or not. *)
RootsEvaluatedAlike ==
    pc = "decimate" /\ DOMAIN skill # {} =>
        \A v \in DOMAIN results :
            /\ results[v].n >= NbIter
            /\ results[v].n < NbIter + NbAgents * NbIterPerJob
            /\ \A w \in DOMAIN results : results[v].n = results[w].n

(* Roots face the same opponents at the same seats: a root of more or equal skill never
   has a worse result. *)
SkillDecides ==
    pc = "decimate" /\ DOMAIN skill # {} =>
        \A v, w \in DOMAIN results : skill[v] >= skill[w] => ~ Worse(results[v], results[w])
=============================================================================

------------------------- MODULE ClassificationAgent -------------------------
(***************************************************************************)
(* A ClassificationLearningAgent: a LearningAgent that scores its roots    *)
(* for each class, an action of the environment, and whose decimation      *)
(* preserves the best roots of each class.                                 *)
(*                                                                         *)
(* A result has a sum of scores for each class beside their total.  Every  *)
(* evaluation presents each class equally often, so that the weighted mean *)
(* of operator+= is a mean; "n" counts actions (NbIter in an evaluation),  *)
(* as ClassificationEvaluationResult does.                                 *)
(***************************************************************************)
EXTENDS LearningAgent

FSE == INSTANCE FiniteSetsExt

F == INSTANCE Functions

Class == 1 .. NbActions

-----------------------------------------------------------------------------
(* The scores of a class are averages over the same number of evaluations if n is equal. *)
WorseFor(c, x, y) == x.perClass[c] * y.n < y.perClass[c] * x.n

NewResult(scores) ==
    [sum |-> F!SumFunction(scores), n |-> NbIter, own |-> TRUE, perClass |-> scores]

(* ClassificationEvaluationResult::operator+= *)
CombineClasses(x, y) ==
    [sum |-> x.sum + y.sum, n |-> x.n + y.n, own |-> x.own /\ y.own,
     perClass |-> [c \in Class |-> x.perClass[c] + y.perClass[c]]]

(* evaluateJob *)
ClassEvaluationOf(v, scores) ==
    IF IsRootEvalSkipped(v) THEN resultsPerRoot[v]
    ELSE IF v \in DOMAIN resultsPerRoot THEN CombineClasses(NewResult(scores), resultsPerRoot[v])
    ELSE NewResult(scores)

ClassEvaluateAllRoots ==
    /\ pc = "evaluate"
    /\ \E scores \in [RootsOf(pop) -> [Class -> Score]] :
          results' = [v \in RootsOf(pop) |-> ClassEvaluationOf(v, scores[v])]
    /\ bestScoreLastGen' \in {results'[v] : v \in Best(results')}
    /\ pc' = "decimate"
    /\ UNCHANGED <<pop, preExisting, resultsPerRoot, bestRoot, stale>>

-----------------------------------------------------------------------------
(* decimateWorstRoots: what it keeps is computed from the roots there are. *)
NbRootsToKeep ==
    LET total == Cardinality(RootsOf(pop))
    IN  total - (DeletedRatio[1] * total) \div DeletedRatio[2]

NbKeptPerClass == (NbRootsToKeep \div NbActions) \div 2

NbKeptGeneral == NbRootsToKeep - NbActions * NbKeptPerClass

(* Sets of n elements of S to which no other element is preferred *)
BestOf(S, n, Preferred(_, _)) ==
    {K \in FSE!kSubset(n, S) : \A k \in K, v \in S \ K : ~ Preferred(v, k)}

(* The roots with the best scores of class c, the best result being preferred for the same
   score; roots that tie in both are in any order. *)
KeptForClass_Worst(c) ==
    BestOf(DOMAIN results, NbKeptPerClass, LAMBDA v, w : WorseFor(c, results[v], results[w]))
KeptForClass(c) ==
    BestOf(DOMAIN results, NbKeptPerClass,
           LAMBDA v, w : \/ WorseFor(c, results[w], results[v])
                         \/ /\ ~ WorseFor(c, results[v], results[w])
                            /\ Worse(results[w], results[v]))

(* A root that is kept for several classes counts once; the others to keep are those with
   the best results. *)
FillUpTo_OneShort(n) == n - 1
FillUpTo(n) == n

RootsToKeep ==
    UNION {LET marked == UNION {kept[c] : c \in Class}
           IN  {marked \cup G : G \in BestOf(DOMAIN results \ marked,
                                             FillUpTo(NbRootsToKeep) - Cardinality(marked),
                                             LAMBDA v, w : Worse(results[w], results[v]))} :
               kept \in {f \in [Class -> UNION {KeptForClass(c) : c \in Class}] :
                            \A c \in Class : f[c] \in KeptForClass(c)}}

(* The roots that are not to be kept are removed, except the actions. *)
ClassDecimateWorstRoots ==
    /\ pc = "decimate"
    /\ \E K \in RootsToKeep :
          LET D == RootTeamsOf(pop) \ K
          IN  /\ pop' = RemoveAll(pop, D)
              /\ results' = WithoutRoots(results, D)
              /\ resultsPerRoot' = Disown(Forget(resultsPerRoot, D), D)
              /\ bestRoot' = DisownBest(bestRoot, D)
              /\ stale' = stale \ D
    /\ pc' = "update"
    /\ UNCHANGED <<preExisting, bestScoreLastGen>>

(* Generations of an agent whose init was called once *)
ClassGeneration ==
    \/ (pop = EmptyPopulation /\ InitAgent)
    \/ StartGeneration \/ AddNewTeam \/ EndPopulate
    \/ ClassEvaluateAllRoots \/ ClassDecimateWorstRoots
    \/ UpdateEvaluationRecords \/ EndGeneration

(* ... and with the other calls between them, in any order *)
ClassTraining ==
    ClassGeneration \/ InitAgent \/ ForgetPreviousResults \/ KeepBestPolicy

ClassSpec == Init /\ [][ClassTraining]_vars

-----------------------------------------------------------------------------
AtLeast(n, S, P(_)) == Cardinality({v \in S : P(v)}) >= n

(* "for each class [...], the roots provided the best score are preserved during the
   decimation process even if their global score over all classes is not among the best",
   and the others by their general score: a root is removed only if enough roots that stay
   are at least as good for each class, and enough are in general, though one root
   may be kept for several reasons. *)
RemovedAreBeaten ==
    [][pc = "decimate" =>
        \A d \in DOMAIN results \ DOMAIN results' :
            /\ \A c \in Class : AtLeast(NbKeptPerClass, DOMAIN results',
                                        LAMBDA v : ~ WorseFor(c, results[v], results[d]))
            /\ AtLeast(NbKeptGeneral, DOMAIN results', LAMBDA v : ~ Worse(results[v], results[d]))]_vars

(* As many roots stay as the ratio of deleted roots says, however many classes a root
   is kept for; "Because of potential root actions, the preserved number of roots may
   be higher than the given ratio", by no more than these actions. *)
RatioIsKept ==
    [][pc = "decimate" =>
        /\ Cardinality(DOMAIN results') >= NbRootsToKeep
        /\ Cardinality(DOMAIN results' \cap pop.teams) <= NbRootsToKeep]_vars
=============================================================================

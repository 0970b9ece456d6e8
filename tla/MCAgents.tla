------------------------------ MODULE MCAgents ------------------------------
(* Instances of LearningAgent and AdversarialAgent for TLC: the agent of a behaviour is of
   either class. *)
EXTENDS AdversarialAgent, TLC

VARIABLE adversarial

Addresses == Permutations(Vertex)

TwoOfThree == <<2, 3>>

mcVars == <<advVars, adversarial>>

(* The best score of a generation is only read when its results are decimated. *)
WithoutOldScores ==
    <<pop, pc, preExisting, results, resultsPerRoot, bestRoot, stale, champions, skill, adversarial,
      IF pc = "decimate" THEN bestScoreLastGen ELSE NoResult>>

MCInit == AdvInit /\ adversarial \in BOOLEAN

(* The games of an adversarial agent do not depend on the records that the calls between
   generations are about. *)
MCNext ==
    /\ \/ adversarial /\ AdvGeneration
       \/ ~ adversarial /\ Training /\ UNCHANGED <<champions, skill>>
    /\ UNCHANGED adversarial

MCSpec == MCInit /\ [][MCNext]_mcVars

(* The adversarial agent alone *)
MCAdversarial ==
    MCInit /\ adversarial = TRUE /\ [][AdvGeneration /\ UNCHANGED adversarial]_mcVars
=============================================================================

---------------------------- MODULE MCTPGMutator ----------------------------
(* Instances of TPGMutator for TLC. *)
EXTENDS TPGMutator, TLC

CONSTANTS a1, a2, a3,      \* action IDs
          MaxPopulates   \* bound: calls to populateTPG

ThreeActions == <<a1, a2, a3>>

(* One address is as good as another: the mutator compares addresses only with those of
   objects that are alive. *)
LowestFree(S) == IF S = {} THEN {} ELSE {CHOOSE x \in S : TRUE}

VARIABLE populates   \* calls to populateTPG so far

CallsPopulate == pc = "idle" /\ (pc' = "populate" \/ resume' = "populate")

MCInit == Init /\ populates = 0

MCNext ==
    /\ Next
    /\ populates' = IF CallsPopulate THEN populates + 1 ELSE populates
    /\ populates' <= MaxPopulates

MCSpec == MCInit /\ [][MCNext]_<<vars, populates>>
=============================================================================

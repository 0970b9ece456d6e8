-------------------------- MODULE MCTrainingThreads --------------------------
(* An instance of TrainingThreads for TLC. *)
EXTENDS TrainingThreads

(* Everything that the mode, the stored results of the first two roots and the draws of all
   three can be, with an archive that is empty or full before, in one thread *)
SequentialInputs ==
    {in \in InputType :
        /\ in.threads = 1
        /\ in.previous \subseteq {1, 2}
        /\ in.skipped \subseteq in.previous
        /\ in.old \in {0, ArchiveSize}
        /\ in.kept[3] \in {{}, Draw}
        /\ in.mode = "VALIDATION" => in.kept = [i \in Job |-> Draw]}

(* Three threads on three jobs of two executions each: everything kept; and a stored
   result, a root skipped and some draws losing. *)
ThreadInputs ==
    {[mode |-> "TRAINING", previous |-> {}, skipped |-> {}, kept |-> [i \in Job |-> Draw],
      old |-> 1, threads |-> 3],
     [mode |-> "TRAINING", previous |-> {1, 2}, skipped |-> {2},
      kept |-> [i \in Job |-> {i} \cap Draw], old |-> ArchiveSize, threads |-> 3]}

(* Two threads in a validation, and in training situations without stored results: every
   size of every temporary archive, added to an archive with room left or to a full one. *)
ArchiveInputs ==
    {[mode |-> "VALIDATION", previous |-> {1}, skipped |-> {1}, kept |-> [i \in Job |-> Draw],
      old |-> 0, threads |-> 2]} \cup
    {[mode |-> "TRAINING", previous |-> {}, skipped |-> {}, kept |-> k, old |-> o, threads |-> 2] :
        k \in [Job -> {{}, {2}, Draw}], o \in {1, ArchiveSize}}

AllInputs == SequentialInputs \cup ThreadInputs \cup ArchiveInputs

(* The first program needs two mutations before it is unique. *)
TwoThenOne == <<2, 1, 1>>
=============================================================================

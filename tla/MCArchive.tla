----------------------------- MODULE MCArchive -----------------------------
(* Instances of Archive for TLC. *)
EXTENDS Archive, TLC

Programs == Permutations(Prog)

Alike == [i \in 1 .. NbSources |-> 1]

(* Programs return 0 or an infinite result; areProgramResultsUnique compares that with any. *)
Returned == {0} \cup InfiniteResult

MCNext ==
    \/ \E p \in Prog, r \in Returned : Add(p, r)
    \/ \E p \in Prog, d \in Data, r \in Returned : Merge(p, d, r)
    \/ Clear
    \/ \E i \in 1 .. NbSources, c \in Content : Change(i, c)

MCSpec == Init /\ [][MCNext]_vars
=============================================================================

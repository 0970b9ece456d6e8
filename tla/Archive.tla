------------------------------ MODULE Archive ------------------------------
(***************************************************************************)
(* An Archive and the data sources it records: the environment changes a   *)
(* source, the execution engine records an execution (kept with some       *)
(* probability), mergeArchiveMap records those of another archive, and     *)
(* LearningAgent::init clears the archive.                                 *)
(***************************************************************************)
EXTENDS ArchiveOps

CONSTANTS MaxSize,      \* Archive::maxSize
          AlwaysArchive \* is archivingProbability equal to 1.0?

ASSUME SizeAssumption == MaxSize \in Nat /\ AlwaysArchive \in BOOLEAN

VARIABLES archive,  \* the Archive
          sources,  \* the data handlers of the environment
          window    \* history variable: the executions recorded, with their real input and its copy

vars == <<archive, sources, window>>

Execution == [prog : Prog, data : Data, hash : DataHash, result : Result]

Window == INSTANCE RecordingWindow

Init ==
    /\ archive = EmptyArchive
    /\ sources \in [1 .. NbSources -> {Handler(c) : c \in Content}]
    /\ Window!Init

(* addRecording of a recording that is kept, of an execution on the data d *)
Keep(p, hs, r, d) ==
    /\ archive' = AddRecording(archive, p, hs, r, MaxSize)
    /\ Window!Record([prog |-> p, data |-> d, hash |-> HashOf(d), result |-> r])

(* addRecording by the execution engine: the random draw decides. *)
Add(p, r) ==
    \/ /\ Keep(p, sources, r, [i \in DOMAIN sources |-> sources[i].content])
       /\ sources' = [i \in DOMAIN sources |-> Hashed(i, sources[i])]
    \/ /\ ~ AlwaysArchive
       /\ UNCHANGED vars

(* addRecording by mergeArchiveMap is forced; the handlers are the copies made by
   another archive. *)
Merge(p, d, r) ==
    /\ Keep(p, [i \in DOMAIN d |-> Handler(d[i])], r, d)
    /\ UNCHANGED sources

(* clear *)
Clear == archive' = EmptyArchive /\ Window!Forget /\ UNCHANGED sources

(* The environment changes one of its sources. *)
Change(i, c) ==
    /\ sources' = [sources EXCEPT ![i] = SetData(@, c)]
    /\ UNCHANGED <<archive, window>>

Next ==
    \/ \E p \in Prog, r \in Result : Add(p, r)
    \/ \E p \in Prog, d \in Data, r \in Result : Merge(p, d, r)
    \/ Clear
    \/ \E i \in 1 .. NbSources, c \in Content : Change(i, c)

Spec == Init /\ [][Next]_vars

-----------------------------------------------------------------------------
(* The data a recording refers to, NoData when it was freed. *)
NoData == <<>>

DataOf(rec) ==
    IF rec.dataHash \in DOMAIN archive.dataHandlers
    THEN [i \in 1 .. NbSources |-> archive.dataHandlers[rec.dataHash][i].content]
    ELSE NoData

(* Inputs that combine to the same hash: of the sources of each shape, as many have each
   content in one as in the other, but for pairs, which cancel out. *)
Confusable(d, e) ==
    \A s \in {Shape[i] : i \in 1 .. NbSources}, c \in Content :
       Cardinality({i \in 1 .. NbSources : Shape[i] = s /\ d[i] = c}) % 2
          = Cardinality({i \in 1 .. NbSources : Shape[i] = s /\ e[i] = c}) % 2

(* The archive is the window of the last maxSize executions, those included that were
   recorded before with the same program, hash and result, of which archive.h:200 says that
   they are not added: eviction is first in first out and frees no data still in use; the
   hash of a recording is that of the data it was made on, not of what the sources
   held when their hashes were cached, and leads to a copy of that data.  The exception is
   the copy of other data of the same hash, if one was needed already: then the two inputs
   differ by contents that sources of one shape exchanged, or hold twice. *)
IsRecordingWindow ==
    /\ Len(archive.recordings) = Len(window)
    /\ \A i \in DOMAIN window :
          LET x == window[i].execution
              rec == archive.recordings[i]
          IN  /\ rec = [prog |-> x.prog, dataHash |-> x.hash, result |-> x.result]
              /\ DataOf(rec) = window[i].copy
              /\ Confusable(window[i].copy, x.data)

(* Is q made of the elements of s at the indexes S, in the same order? *)
IsSubsequence(q, s, S) ==
    \E at \in [DOMAIN q -> S] :
        /\ \A j, k \in DOMAIN q : j < k => at[j] < at[k]
        /\ \A i \in S : \E j \in DOMAIN q : at[j] = i
        /\ \A j \in DOMAIN q : q[j] = s[at[j]]

(* The copies kept are those of the hashes recorded, and the per-program index is the
   archive split by program, in the same order: evicting the oldest recording of the
   archive evicts the oldest of its program, and leaks no copy. *)
IndexesMatchRecordings ==
    /\ DOMAIN archive.dataHandlers =
          {archive.recordings[i].dataHash : i \in DOMAIN archive.recordings}
    /\ DOMAIN archive.recordingsPerProgram =
          {archive.recordings[i].prog : i \in DOMAIN archive.recordings}
    /\ \A p \in DOMAIN archive.recordingsPerProgram :
          IsSubsequence(archive.recordingsPerProgram[p], archive.recordings,
                        {i \in DOMAIN archive.recordings : archive.recordings[i].prog = p})

(* The functions whose domain is a subset of S. *)
PartialFunctions(S, T) == UNION {[D -> T] : D \in SUBSET S}

(* The documentation of areProgramResultsUnique: false if there is a Program in the
   archive whose recordings with a hash in the map all have the result of the map, up
   to tau. The code adds that there is at least one such recording, and that a result is
   finite: an infinite one, which the engine stores for NaN, is unlike even itself, so that
   a program that returned it is never found again. The map is made of hashes of the archive. *)
SameBehaviour(p, m) ==
    LET compared == {i \in DOMAIN archive.recordings :
                        /\ archive.recordings[i].prog = p
                        /\ archive.recordings[i].dataHash \in DOMAIN m}
        Agrees(x, y) == {x, y} \subseteq FiniteResult /\ (x - y) \in -Tau .. Tau
    IN  /\ compared # {}
        /\ \A i \in compared :
              Agrees(archive.recordings[i].result, m[archive.recordings[i].dataHash])

UniqueMeansUnlikeAllRecorded ==
    \A m \in PartialFunctions(DOMAIN archive.dataHandlers, Result) :
        AreProgramResultsUnique(archive, m) <=> \A p \in Prog : ~ SameBehaviour(p, m)
=============================================================================

----------------------------- MODULE ArchiveOps -----------------------------
(***************************************************************************)
(* The value of an Archive and what each of its methods does to it.        *)
(*                                                                         *)
(* An archive value is a record of the three containers of the class:      *)
(*   recordings            sequence of ArchiveRecording, oldest first      *)
(*   dataHandlers          hash -> copy of the data sources                *)
(*   recordingsPerProgram  program -> its recordings, oldest first         *)
(*                                                                         *)
(* The input of a program is a sequence with a handler for each data       *)
(* source.  A hash is a set of bits, so that ^= is symmetric difference.   *)
(***************************************************************************)
EXTENDS Integers, Sequences, FiniteSets, SequencesExt

CONSTANTS Prog,             \* addresses of Programs
          Content,          \* contents of one data source (positive integers)
          NbSources,        \* number of data sources of the environment
          Shape,            \* the type and size of each data source, a number
          FiniteResult,     \* the finite results of programs (integers)
          InfiniteResult,   \* results such as minus infinity
          Tau               \* margin of areProgramResultsUnique

ASSUME ArchiveAssumption ==
    /\ Content \subseteq Nat \ {0}
    /\ NbSources \in Nat
    /\ Shape \in [1 .. NbSources -> Nat]
    /\ FiniteResult \subseteq Int
    /\ InfiniteResult \cap Int = {}
    /\ Tau \in Nat

Data == [1 .. NbSources -> Content]

Result == FiniteResult \cup InfiniteResult

-----------------------------------------------------------------------------
(* Data handlers: ArrayWrapper and PrimitiveTypeArray.                     *)

(* updateHash: the hash of the id, rotated once per element, xor the hash of the elements,
   each rotated according to its position. The second term does not depend on the id, so
   it is the same function of the content for two sources of one type and size. *)
UpdateHash(i, c) == {<<i, 0>>, <<Shape[i], c>>}

(* Stands for cachedHash while invalidCachedHash is set. *)
NoHash == {}

Handler(c) == [content |-> c, cachedHash |-> NoHash]

(* setDataAt, resetData and setPointer; or an environment that changes what the handler
   points to and calls invalidateCachedHash *)
SetData_KeepsHash(h, c) == [h EXCEPT !.content = c]
SetData(h, c) == [content |-> c, cachedHash |-> NoHash]

GetHash(i, h) == IF h.cachedHash = NoHash THEN UpdateHash(i, h.content) ELSE h.cachedHash

Hashed(i, h) == [h EXCEPT !.cachedHash = GetHash(i, h)]

(* clone of the sources: the copies have their ids, and no hash yet. *)
Clone(hs) == [i \in DOMAIN hs |-> Handler(hs[i].content)]

(* getCombinedHash: the xor of the hashes of the sources. *)
GetCombinedHash(hs) ==
    {bit \in UNION {GetHash(i, hs[i]) : i \in DOMAIN hs} :
        Cardinality({i \in DOMAIN hs : bit \in GetHash(i, hs[i])}) % 2 = 1}

(* The hash of data, whatever was cached. *)
HashOf(d) == GetCombinedHash([i \in DOMAIN d |-> Handler(d[i])])

DataHash == {HashOf(d) : d \in Data}

Recording == [prog : Prog, dataHash : DataHash, result : Result]

-----------------------------------------------------------------------------
EmptyArchive ==
    [recordings |-> <<>>, dataHandlers |-> <<>>, recordingsPerProgram |-> <<>>]

(* The function f with x mapped to y, x being added to its domain if needed. *)
Put(f, x, y) == [z \in DOMAIN f \cup {x} |-> IF z = x THEN y ELSE f[z]]

Without(f, x) == [z \in DOMAIN f \ {x} |-> f[z]]

(* addRecording, until the size of the archive is tested: the data sources are copied
   when their hash is new, the recording goes to the back of both queues. *)
Push(a, p, hs, r) ==
    LET hash == GetCombinedHash(hs)
        rec == [prog |-> p, dataHash |-> hash, result |-> r]
    IN  [recordings |-> Append(a.recordings, rec),
         dataHandlers |-> IF hash \in DOMAIN a.dataHandlers
                          THEN a.dataHandlers
                          ELSE Put(a.dataHandlers, hash, Clone(hs)),
         recordingsPerProgram |->
            Put(a.recordingsPerProgram, p,
                IF p \in DOMAIN a.recordingsPerProgram
                THEN Append(a.recordingsPerProgram[p], rec)
                ELSE <<rec>>)]

(* Is the data with this hash referenced by one of these recordings? *)
StillUsed(recs, hash) == \E i \in DOMAIN recs : recs[i].dataHash = hash

(* The queue of a program after its oldest recording is dropped; the entry goes with
   the last recording. *)
DropOldest_Newest(f, p) ==
    IF Len(f[p]) = 1 THEN Without(f, p) ELSE [f EXCEPT ![p] = SubSeq(@, 1, Len(@) - 1)]
DropOldest(f, p) ==
    IF Len(f[p]) = 1 THEN Without(f, p) ELSE [f EXCEPT ![p] = Tail(@)]

(* One pass of the while loop of addRecording: the oldest recording leaves. *)
Evict(a) ==
    LET rec == Head(a.recordings)
        rest == Tail(a.recordings)
    IN  [recordings |-> rest,
         dataHandlers |-> IF StillUsed(rest, rec.dataHash)
                          THEN a.dataHandlers
                          ELSE Without(a.dataHandlers, rec.dataHash),
         recordingsPerProgram |-> DropOldest(a.recordingsPerProgram, rec.prog)]

(* addRecording of a recording that is kept, in an archive of at most maxSize
   recordings: the while loop runs at most once. *)
AddRecording(a, p, hs, r, maxSize) ==
    LET b == Push(a, p, hs, r)
    IN  IF Len(b.recordings) > maxSize THEN Evict(b) ELSE b

-----------------------------------------------------------------------------
(* std::abs(x - y) <= tau: a difference with an infinite or not-a-number operand
   never passes the test, not even the difference of equal infinities. *)
Close(x, y) ==
    /\ x \in Int /\ y \in Int
    /\ x - y <= Tau /\ y - x <= Tau

(* The loop of areProgramResultsUnique over the recordings of one program: "none" until
   a recording has its hash in the map, then "same" as long as results agree; the
   first difference breaks the loop. *)
Compare_NoBreak(m, seen, rec) ==
    IF rec.dataHash \notin DOMAIN m THEN seen
    ELSE IF Close(m[rec.dataHash], rec.result) THEN "same" ELSE "different"
Compare(m, seen, rec) ==
    IF seen = "different" \/ rec.dataHash \notin DOMAIN m THEN seen
    ELSE IF Close(m[rec.dataHash], rec.result) THEN "same" ELSE "different"

(* areProgramResultsUnique for the map m from hashes to results. *)
AreProgramResultsUnique(a, m) ==
    ~ \E p \in DOMAIN a.recordingsPerProgram :
         FoldLeft(LAMBDA seen, rec : Compare(m, seen, rec),
                  "none", a.recordingsPerProgram[p]) = "same"
=============================================================================

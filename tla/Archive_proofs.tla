--------------------------- MODULE Archive_proofs ---------------------------
(***************************************************************************)
(* What an archive guarantees, for any programs, sources, results and      *)
(* maximum size.                                                           *)
(***************************************************************************)
EXTENDS Archive, FiniteSetTheorems, WellFoundedInduction, SequenceTheorems, TLAPS

(* The recordings of p in recs. *)
At(recs, p) == {i \in DOMAIN recs : recs[i].prog = p}

Hashes(recs) == {recs[i].dataHash : i \in DOMAIN recs}

Programs(recs) == {recs[i].prog : i \in DOMAIN recs}

(* Recordings before their hash is known to be one of data. *)
AnyRecording == [prog : Prog, dataHash : SUBSET (Nat \X Nat), result : Result]

(* The containers of an archive agree. *)
Indexed(a) ==
    /\ a.recordings \in Seq(AnyRecording)
    /\ DOMAIN a.dataHandlers = Hashes(a.recordings)
    /\ DOMAIN a.recordingsPerProgram = Programs(a.recordings)
    /\ \A p \in Programs(a.recordings) :
          /\ a.recordingsPerProgram[p] \in Seq(AnyRecording)
          /\ IsSubsequence(a.recordingsPerProgram[p], a.recordings, At(a.recordings, p))

-----------------------------------------------------------------------------
(* Queues. *)

LEMMA AppendFacts ==
    ASSUME NEW T, NEW s \in Seq(T), NEW x \in T
    PROVE  /\ Append(s, x) \in Seq(T)
           /\ Len(s) \in Nat /\ Len(Append(s, x)) = Len(s) + 1
           /\ DOMAIN s = 1 .. Len(s) /\ DOMAIN Append(s, x) = 1 .. (Len(s) + 1)
           /\ \A i \in 1 .. Len(s) : Append(s, x)[i] = s[i] /\ s[i] \in T
           /\ Append(s, x)[Len(s) + 1] = x
<1>1. Append(s, x) \in Seq(T) /\ Len(Append(s, x)) = Len(s) + 1
  BY AppendProperties
<1>2. Len(s) \in Nat /\ DOMAIN s = 1 .. Len(s) /\ s \in [1 .. Len(s) -> T]
  BY LenProperties
<1>3. DOMAIN Append(s, x) = 1 .. (Len(s) + 1)
  BY <1>1, LenProperties
<1> QED BY <1>1, <1>2, <1>3, AppendProperties

LEMMA TailFacts ==
    ASSUME NEW T, NEW s \in Seq(T), Len(s) >= 1
    PROVE  /\ Tail(s) \in Seq(T) /\ Head(s) = s[1] /\ Head(s) \in T
           /\ Len(s) \in Nat /\ Len(Tail(s)) = Len(s) - 1
           /\ DOMAIN s = 1 .. Len(s) /\ DOMAIN Tail(s) = 1 .. (Len(s) - 1)
           /\ \A i \in 1 .. (Len(s) - 1) : Tail(s)[i] = s[i + 1]
<1>1. s # <<>>
  BY EmptySeq
<1>2. Len(s) \in Nat /\ DOMAIN s = 1 .. Len(s)
  BY LenProperties
<1>3. /\ Head(s) \in T /\ Tail(s) \in Seq(T) /\ Len(Tail(s)) = Len(s) - 1
      /\ \A i \in 1 .. Len(Tail(s)) : Tail(s)[i] = s[i + 1]
  BY <1>1, HeadTailProperties
<1>4. DOMAIN Tail(s) = 1 .. (Len(s) - 1)
  BY <1>3, LenProperties
<1>5. Head(s) = s[1]
  OBVIOUS
<1> QED BY <1>2, <1>3, <1>4, <1>5

(* The indexes S of a queue of n elements, once its first one is gone. *)
Shifted(S, n) == {i \in 1 .. (n - 1) : i + 1 \in S}

LEMMA SubsequenceAt ==
    ASSUME NEW q, NEW s, NEW S, NEW D, DOMAIN q = D, NEW at \in [D -> S],
           \A j, k \in D : j < k => at[j] < at[k],
           \A i \in S : \E j \in D : at[j] = i,
           \A j \in D : q[j] = s[at[j]]
    PROVE  IsSubsequence(q, s, S)
<1>1. \E bt \in [D -> S] :
        /\ \A j, k \in D : j < k => bt[j] < bt[k]
        /\ \A i \in S : \E j \in D : bt[j] = i
        /\ \A j \in D : q[j] = s[bt[j]]
  BY Zenon
<1>2. D = DOMAIN q
  OBVIOUS
<1> QED BY <1>1, <1>2, Zenon DEF IsSubsequence

(* A recording of the program is added at the back of both queues, *)
LEMMA SubsequenceGrows ==
    ASSUME NEW T, NEW s \in Seq(T), NEW q \in Seq(T), NEW x \in T,
           NEW S \in SUBSET DOMAIN s, IsSubsequence(q, s, S)
    PROVE  IsSubsequence(Append(q, x), Append(s, x), S \cup {Len(s) + 1})
<1> DEFINE n == Len(q)
           l == Len(s)
<1>1. PICK at \in [1 .. n -> S] :
         /\ \A j, k \in 1 .. n : j < k => at[j] < at[k]
         /\ \A i \in S : \E j \in 1 .. n : at[j] = i
         /\ \A j \in 1 .. n : q[j] = s[at[j]]
  <2>1. DOMAIN q = 1 .. n
    BY LenProperties
  <2> QED BY <2>1, ZenonT(40) DEF IsSubsequence
<1>2. /\ n \in Nat /\ DOMAIN Append(q, x) = 1 .. (n + 1)
      /\ \A i \in 1 .. n : Append(q, x)[i] = q[i]
      /\ Append(q, x)[n + 1] = x
  BY AppendFacts
<1>3. /\ l \in Nat /\ S \in SUBSET (1 .. l)
      /\ \A i \in 1 .. l : Append(s, x)[i] = s[i]
      /\ Append(s, x)[l + 1] = x
  BY AppendFacts
<1> HIDE DEF n, l
<1> DEFINE bt == [j \in 1 .. (n + 1) |-> IF j = n + 1 THEN l + 1 ELSE at[j]]
<1>4. /\ bt[n + 1] = l + 1
      /\ \A j \in 1 .. n : bt[j] = at[j] /\ at[j] \in S /\ at[j] \in 1 .. l
  BY <1>1, <1>2, <1>3
<1>5. \A j \in 1 .. (n + 1) : j = n + 1 \/ j \in 1 .. n
  BY <1>2
<1>6. bt \in [1 .. (n + 1) -> S \cup {l + 1}]
  BY <1>4, <1>5
<1> HIDE DEF bt
<1>7. ASSUME NEW j \in 1 .. (n + 1), NEW k \in 1 .. (n + 1), j < k PROVE bt[j] < bt[k]
  <2>1. j \in 1 .. n /\ bt[j] = at[j] /\ at[j] \in 1 .. l
    BY <1>2, <1>4, <1>7
  <2>2. CASE k = n + 1
    BY <1>3, <1>4, <2>1, <2>2
  <2>3. CASE k \in 1 .. n
    BY <1>1, <1>4, <1>7, <2>1, <2>3
  <2> QED BY <1>5, <2>2, <2>3
<1>8. ASSUME NEW i \in S \cup {l + 1} PROVE \E j \in 1 .. (n + 1) : bt[j] = i
  <2>1. CASE i = l + 1
    <3>1. n + 1 \in 1 .. (n + 1)
      BY <1>2
    <3> QED BY <1>4, <2>1, <3>1
  <2>2. CASE i \in S
    <3>1. PICK j \in 1 .. n : at[j] = i
      BY <1>1, <2>2
    <3>2. j \in 1 .. (n + 1) /\ bt[j] = i
      BY <1>2, <1>4, <3>1
    <3> QED BY <3>2
  <2> QED BY <2>1, <2>2
<1>9. ASSUME NEW j \in 1 .. (n + 1) PROVE Append(q, x)[j] = Append(s, x)[bt[j]]
  <2>1. CASE j = n + 1
    BY <1>2, <1>3, <1>4, <2>1
  <2>2. CASE j \in 1 .. n
    <3>1. Append(q, x)[j] = q[j] /\ q[j] = s[at[j]] /\ bt[j] = at[j] /\ at[j] \in 1 .. l
      BY <1>1, <1>2, <1>4, <2>2
    <3>2. Append(s, x)[at[j]] = s[at[j]]
      BY <1>3, <3>1
    <3> QED BY <3>1, <3>2
  <2> QED BY <1>5, <2>1, <2>2
<1>10. IsSubsequence(Append(q, x), Append(s, x), S \cup {l + 1})
  BY <1>2, <1>6, <1>7, <1>8, <1>9, SubsequenceAt, ZenonT(40)
<1> QED BY <1>10 DEF l

(* or at the back of the first only; *)
LEMMA SubsequenceStays ==
    ASSUME NEW T, NEW s \in Seq(T), NEW q, NEW x \in T, NEW S \in SUBSET DOMAIN s, IsSubsequence(q, s, S)
    PROVE  IsSubsequence(q, Append(s, x), S)
BY AppendFacts DEF IsSubsequence

(* the oldest of both goes, *)
LEMMA SubsequenceLosesFirst ==
    ASSUME NEW T, NEW s \in Seq(T), NEW q \in Seq(T), NEW S \in SUBSET DOMAIN s, IsSubsequence(q, s, S),
           1 \in S
    PROVE  /\ Len(q) >= 1
           /\ IsSubsequence(Tail(q), Tail(s), Shifted(S, Len(s)))
           /\ Len(q) = 1 <=> S = {1}
<1> DEFINE n == Len(q)
           l == Len(s)
           R == Shifted(S, l)
<1>1. PICK at \in [1 .. n -> S] :
         /\ \A j, k \in 1 .. n : j < k => at[j] < at[k]
         /\ \A i \in S : \E j \in 1 .. n : at[j] = i
         /\ \A j \in 1 .. n : q[j] = s[at[j]]
  <2>1. DOMAIN q = 1 .. n
    BY LenProperties
  <2> QED BY <2>1, ZenonT(40) DEF IsSubsequence
<1>2. n \in Nat /\ l \in Nat /\ S \in SUBSET (1 .. l)
  BY LenProperties
<1>3. n >= 1 /\ l >= 1
  BY <1>1, <1>2
<1>4. at[1] = 1
  <2>1. PICK j \in 1 .. n : at[j] = 1
    BY <1>1
  <2>2. j = 1 \/ 1 < j
    BY <1>2
  <2>3. at[1] \in Nat /\ at[1] >= 1
    BY <1>1, <1>2, <1>3
  <2> QED BY <1>1, <1>2, <1>3, <2>1, <2>2, <2>3
<1>5. /\ DOMAIN Tail(q) = 1 .. (n - 1)
      /\ \A i \in 1 .. (n - 1) : Tail(q)[i] = q[i + 1]
      /\ \A i \in 1 .. (l - 1) : Tail(s)[i] = s[i + 1]
  BY <1>3, TailFacts
<1> HIDE DEF n, l
<1> DEFINE bt == [j \in 1 .. (n - 1) |-> at[j + 1] - 1]
<1>6. ASSUME NEW j \in 1 .. (n - 1)
      PROVE  /\ j + 1 \in 1 .. n /\ bt[j] = at[j + 1] - 1 /\ bt[j] + 1 = at[j + 1]
             /\ at[j + 1] \in S /\ at[j + 1] \in 2 .. l
             /\ bt[j] \in R /\ bt[j] \in 1 .. (l - 1)
  <2>1. j + 1 \in 1 .. n /\ 1 \in 1 .. n /\ 1 < j + 1
    BY <1>2
  <2>2. at[j + 1] \in S /\ at[j + 1] \in 1 .. l /\ 1 < at[j + 1]
    BY <1>1, <1>2, <1>4, <2>1
  <2> QED BY <1>2, <2>1, <2>2 DEF Shifted
<1>7. bt \in [1 .. (n - 1) -> R]
  BY <1>6
<1>8. \A j, k \in 1 .. (n - 1) : j < k => bt[j] < bt[k]
  <2> SUFFICES ASSUME NEW j \in 1 .. (n - 1), NEW k \in 1 .. (n - 1), j < k PROVE bt[j] < bt[k]
    OBVIOUS
  <2>1. j + 1 \in 1 .. n /\ k + 1 \in 1 .. n /\ j + 1 < k + 1
    BY <1>2
  <2>2. at[j + 1] < at[k + 1]
    BY <1>1, <2>1
  <2>3. bt[j] = at[j + 1] - 1 /\ bt[k] = at[k + 1] - 1 /\ at[j + 1] \in 2 .. l /\ at[k + 1] \in 2 .. l
    BY <1>6
  <2> HIDE DEF bt
  <2> QED BY <1>2, <2>2, <2>3
<1>9. ASSUME NEW i \in R PROVE \E j \in 1 .. (n - 1) : bt[j] = i
  <2>1. PICK j \in 1 .. n : at[j] = i + 1
    BY <1>1 DEF Shifted
  <2>2. j # 1 /\ i \in 1 .. (l - 1)
    BY <1>2, <1>4, <2>1 DEF Shifted
  <2>3. j - 1 \in 1 .. (n - 1) /\ (j - 1) + 1 = j
    BY <1>2, <2>2
  <2>4. bt[j - 1] = i
    BY <1>2, <2>1, <2>2, <2>3
  <2> QED BY <2>3, <2>4
<1> HIDE DEF bt
<1>10. ASSUME NEW j \in 1 .. (n - 1) PROVE Tail(q)[j] = Tail(s)[bt[j]]
  <2>1. Tail(q)[j] = q[j + 1] /\ q[j + 1] = s[at[j + 1]]
    BY <1>1, <1>5, <1>6
  <2>2. Tail(s)[bt[j]] = s[bt[j] + 1] /\ bt[j] + 1 = at[j + 1]
    BY <1>5, <1>6
  <2> QED BY <2>1, <2>2
<1>11. IsSubsequence(Tail(q), Tail(s), R)
  <2> HIDE DEF R
  <2> QED BY <1>5, <1>7, <1>8, <1>9, <1>10, SubsequenceAt, Zenon
<1>12. ASSUME n = 1 PROVE S = {1}
  BY <1>1, <1>4, <1>12
<1>13. ASSUME n # 1 PROVE S # {1}
  <2>1. 1 \in 1 .. n /\ 2 \in 1 .. n
    BY <1>2, <1>3, <1>13
  <2>2. at[1] < at[2] /\ at[2] \in S
    BY <1>1, <2>1
  <2> QED BY <1>4, <2>2
<1> QED BY <1>3, <1>11, <1>12, <1>13 DEF n, l

(* or that of the first only. *)
LEMMA SubsequenceShifts ==
    ASSUME NEW T, NEW s \in Seq(T), NEW q \in Seq(T), NEW S \in SUBSET DOMAIN s, IsSubsequence(q, s, S),
           1 \notin S, Len(s) >= 1
    PROVE  IsSubsequence(q, Tail(s), Shifted(S, Len(s)))
<1> DEFINE n == Len(q)
           l == Len(s)
           R == Shifted(S, l)
<1>1. PICK at \in [1 .. n -> S] :
         /\ \A j, k \in 1 .. n : j < k => at[j] < at[k]
         /\ \A i \in S : \E j \in 1 .. n : at[j] = i
         /\ \A j \in 1 .. n : q[j] = s[at[j]]
  <2>1. DOMAIN q = 1 .. n
    BY LenProperties
  <2> QED BY <2>1, ZenonT(40) DEF IsSubsequence
<1>2. n \in Nat /\ l \in Nat /\ S \in SUBSET (1 .. l) /\ DOMAIN q = 1 .. n
  BY LenProperties
<1>3. \A i \in 1 .. (l - 1) : Tail(s)[i] = s[i + 1]
  BY TailFacts
<1> HIDE DEF n, l
<1> DEFINE bt == [j \in 1 .. n |-> at[j] - 1]
<1>4. ASSUME NEW j \in 1 .. n
      PROVE  /\ bt[j] = at[j] - 1 /\ bt[j] + 1 = at[j] /\ at[j] \in 2 .. l
             /\ bt[j] \in R /\ bt[j] \in 1 .. (l - 1)
  <2>1. at[j] \in S /\ at[j] \in 1 .. l /\ at[j] # 1
    BY <1>1, <1>2
  <2> QED BY <1>2, <2>1 DEF Shifted
<1>5. bt \in [1 .. n -> R]
  BY <1>4
<1>6. \A i \in R : \E j \in 1 .. n : bt[j] = i
  BY <1>1, <1>2, <1>4 DEF Shifted
<1> HIDE DEF bt
<1>7. \A j, k \in 1 .. n : j < k => bt[j] < bt[k]
  <2> SUFFICES ASSUME NEW j \in 1 .. n, NEW k \in 1 .. n, j < k PROVE bt[j] < bt[k]
    OBVIOUS
  <2>1. bt[j] = at[j] - 1 /\ bt[k] = at[k] - 1 /\ at[j] \in 2 .. l /\ at[k] \in 2 .. l /\ at[j] < at[k]
    BY <1>1, <1>4
  <2> QED BY <1>2, <2>1
<1>8. \A j \in 1 .. n : q[j] = Tail(s)[bt[j]]
  BY <1>1, <1>3, <1>4
<1>9. IsSubsequence(q, Tail(s), R)
  <2> HIDE DEF R
  <2> QED BY <1>2, <1>5, <1>6, <1>7, <1>8, SubsequenceAt, Zenon
<1> QED BY <1>9 DEF l

-----------------------------------------------------------------------------
(* The containers. *)

LEMMA AppendedRecording ==
    ASSUME NEW s \in Seq(AnyRecording), NEW rec \in AnyRecording
    PROVE  LET t == Append(s, rec)
           IN  /\ t \in Seq(AnyRecording)
               /\ Hashes(t) = Hashes(s) \cup {rec.dataHash}
               /\ Programs(t) = Programs(s) \cup {rec.prog}
               /\ At(s, rec.prog) \in SUBSET DOMAIN s
               /\ At(t, rec.prog) = At(s, rec.prog) \cup {Len(s) + 1}
               /\ \A p : p # rec.prog => At(t, p) = At(s, p)
<1> DEFINE t == Append(s, rec)
           l == Len(s)
<1>1. /\ t \in Seq(AnyRecording) /\ l \in Nat
      /\ DOMAIN s = 1 .. l /\ DOMAIN t = 1 .. (l + 1)
      /\ \A i \in 1 .. l : t[i] = s[i]
      /\ t[l + 1] = rec
  BY AppendFacts
<1> HIDE DEF t, l
<1>2. 1 .. (l + 1) = (1 .. l) \cup {l + 1} /\ l + 1 \notin 1 .. l
  BY <1>1
<1>3. Hashes(t) = Hashes(s) \cup {rec.dataHash}
  BY <1>1, <1>2 DEF Hashes
<1>4. Programs(t) = Programs(s) \cup {rec.prog}
  BY <1>1, <1>2 DEF Programs
<1>5. At(t, rec.prog) = At(s, rec.prog) \cup {l + 1} /\ At(s, rec.prog) \in SUBSET DOMAIN s
  BY <1>1, <1>2 DEF At
<1>6. \A p : p # rec.prog => At(t, p) = At(s, p)
  BY <1>1, <1>2 DEF At
<1> QED BY <1>1, <1>3, <1>4, <1>5, <1>6 DEF t, l

LEMMA PushIndexed ==
    ASSUME NEW a, Indexed(a), NEW p \in Prog, NEW hs, NEW r \in Result,
           GetCombinedHash(hs) \in SUBSET (Nat \X Nat)
    PROVE  LET b == Push(a, p, hs, r)
           IN  /\ Indexed(b)
               /\ b.recordings = Append(a.recordings, [prog |-> p, dataHash |-> GetCombinedHash(hs), result |-> r])
<1> DEFINE b == Push(a, p, hs, r)
           hash == GetCombinedHash(hs)
           rec == [prog |-> p, dataHash |-> hash, result |-> r]
           s == a.recordings
           t == Append(s, rec)
           f == a.recordingsPerProgram
           q == IF p \in DOMAIN f THEN Append(f[p], rec) ELSE <<rec>>
<1>1. /\ b.recordings = t
      /\ b.dataHandlers = IF hash \in DOMAIN a.dataHandlers THEN a.dataHandlers
                          ELSE Put(a.dataHandlers, hash, Clone(hs))
      /\ b.recordingsPerProgram = Put(f, p, q)
  BY DEF Push
<1>2. rec \in AnyRecording /\ rec.prog = p /\ rec.dataHash = hash
  BY DEF AnyRecording
<1>3. s \in Seq(AnyRecording)
  BY DEF Indexed
<1> HIDE DEF b, hash, rec
<1>4. /\ t \in Seq(AnyRecording)
      /\ Hashes(t) = Hashes(s) \cup {hash}
      /\ Programs(t) = Programs(s) \cup {p}
      /\ At(s, p) \in SUBSET DOMAIN s
      /\ At(t, p) = At(s, p) \cup {Len(s) + 1}
      /\ \A x : x # p => At(t, x) = At(s, x)
  BY <1>2, <1>3, AppendedRecording
<1>5. DOMAIN b.dataHandlers = Hashes(t)
  BY <1>1, <1>4 DEF Indexed, Put
<1>6. DOMAIN b.recordingsPerProgram = Programs(t)
  BY <1>1, <1>4 DEF Indexed, Put
<1>7. b.recordingsPerProgram[p] = q /\ \A x \in Programs(s) : x # p => b.recordingsPerProgram[x] = f[x]
  BY <1>1 DEF Indexed, Put
<1>8. q \in Seq(AnyRecording) /\ IsSubsequence(q, t, At(t, p))
  <2>1. CASE p \in DOMAIN f
    <3>1. f[p] \in Seq(AnyRecording) /\ IsSubsequence(f[p], s, At(s, p))
      BY <2>1 DEF Indexed
    <3>2. Append(f[p], rec) \in Seq(AnyRecording)
      BY <1>2, <3>1, AppendFacts
    <3>3. IsSubsequence(Append(f[p], rec), t, At(s, p) \cup {Len(s) + 1})
      BY <1>2, <1>3, <1>4, <3>1, SubsequenceGrows
    <3> QED BY <1>4, <2>1, <3>2, <3>3
  <2>2. CASE p \notin DOMAIN f
    <3>1. At(s, p) = {}
      BY <2>2 DEF Indexed, At, Programs
    <3>2. q = <<rec>> /\ DOMAIN q = {1} /\ q[1] = rec /\ q \in Seq(AnyRecording)
      BY <1>2, <2>2
    <3>3. t[Len(s) + 1] = rec
      BY <1>2, <1>3, AppendFacts
    <3> DEFINE at == [j \in {1} |-> Len(s) + 1]
    <3>4. at \in [{1} -> {Len(s) + 1}] /\ at[1] = Len(s) + 1
      OBVIOUS
    <3>5. \A j, k \in {1} : j < k => at[j] < at[k]
      OBVIOUS
    <3> HIDE DEF at, q, t
    <3>6. IsSubsequence(q, t, {Len(s) + 1})
      <4>1. \A i \in {Len(s) + 1} : \E j \in {1} : at[j] = i
        BY <3>4
      <4>2. \A j \in {1} : q[j] = t[at[j]]
        BY <3>2, <3>3, <3>4
      <4>3. DOMAIN q = {1} /\ at \in [{1} -> {Len(s) + 1}]
        BY <3>2, <3>4
      <4> QED BY <3>5, <4>1, <4>2, <4>3, SubsequenceAt, Zenon
    <3> QED BY <1>4, <3>1, <3>2, <3>6
  <2> QED BY <2>1, <2>2
<1>9. ASSUME NEW x \in Programs(s), x # p
      PROVE  f[x] \in Seq(AnyRecording) /\ IsSubsequence(f[x], t, At(t, x))
  <2>1. f[x] \in Seq(AnyRecording) /\ IsSubsequence(f[x], s, At(s, x))
    BY DEF Indexed
  <2>2. At(s, x) \in SUBSET DOMAIN s
    BY DEF At
  <2>3. IsSubsequence(f[x], t, At(s, x))
    BY <1>2, <1>3, <2>1, <2>2, SubsequenceStays
  <2> QED BY <1>4, <1>9, <2>1, <2>3
<1> HIDE DEF t, q
<1>10. \A x \in Programs(t) :
          /\ b.recordingsPerProgram[x] \in Seq(AnyRecording)
          /\ IsSubsequence(b.recordingsPerProgram[x], t, At(t, x))
  <2> SUFFICES ASSUME NEW x \in Programs(t)
               PROVE  /\ b.recordingsPerProgram[x] \in Seq(AnyRecording)
                      /\ IsSubsequence(b.recordingsPerProgram[x], t, At(t, x))
    OBVIOUS
  <2>1. CASE x = p
    BY <1>7, <1>8, <2>1
  <2>2. CASE x \in Programs(s) /\ x # p
    BY <1>7, <1>9, <2>2
  <2> QED BY <1>4, <2>1, <2>2
<1>11. Indexed(b)
  BY <1>1, <1>4, <1>5, <1>6, <1>10 DEF Indexed
<1> QED BY <1>1, <1>11 DEF b, t, rec, hash

LEMMA EvictIndexed ==
    ASSUME NEW a, Indexed(a), Len(a.recordings) >= 1
    PROVE  Indexed(Evict(a))
<1> DEFINE b == Evict(a)
           s == a.recordings
           t == Tail(s)
           rec == Head(s)
           p == rec.prog
           f == a.recordingsPerProgram
           l == Len(s)
<1>1. /\ b.recordings = t
      /\ b.dataHandlers = IF StillUsed(t, rec.dataHash) THEN a.dataHandlers
                          ELSE Without(a.dataHandlers, rec.dataHash)
      /\ b.recordingsPerProgram = DropOldest(f, p)
  BY DEF Evict
<1>2. s \in Seq(AnyRecording)
  BY DEF Indexed
<1> HIDE DEF b
<1>3. /\ t \in Seq(AnyRecording) /\ rec = s[1] /\ l \in Nat /\ l >= 1
      /\ DOMAIN s = 1 .. l /\ DOMAIN t = 1 .. (l - 1)
      /\ \A i \in 1 .. (l - 1) : t[i] = s[i + 1]
  BY <1>2, TailFacts
<1> HIDE DEF t, rec, l
<1>4. ASSUME NEW i \in 1 .. l PROVE i = 1 \/ (i - 1 \in 1 .. (l - 1) /\ t[i - 1] = s[i])
  <2>1. CASE i # 1
    <3>1. i - 1 \in 1 .. (l - 1) /\ (i - 1) + 1 = i
      BY <1>3, <2>1
    <3> QED BY <1>3, <3>1
  <2> QED BY <2>1
<1>5. \A i \in 1 .. (l - 1) : i + 1 \in 1 .. l /\ i + 1 # 1
  BY <1>3
<1>6. 1 \in 1 .. l
  BY <1>3
<1>7. Hashes(s) = Hashes(t) \cup {rec.dataHash}
  <2>1. ASSUME NEW i \in DOMAIN s PROVE s[i].dataHash \in Hashes(t) \cup {rec.dataHash}
    BY <1>3, <1>4 DEF Hashes
  <2>2. ASSUME NEW i \in DOMAIN t PROVE t[i].dataHash \in Hashes(s)
    BY <1>3, <1>5 DEF Hashes
  <2>3. rec.dataHash \in Hashes(s)
    BY <1>3, <1>6 DEF Hashes
  <2> QED BY <2>1, <2>2, <2>3 DEF Hashes
<1>8. Programs(s) = Programs(t) \cup {p}
  <2>1. ASSUME NEW i \in DOMAIN s PROVE s[i].prog \in Programs(t) \cup {p}
    BY <1>3, <1>4 DEF Programs
  <2>2. ASSUME NEW i \in DOMAIN t PROVE t[i].prog \in Programs(s)
    BY <1>3, <1>5 DEF Programs
  <2>3. p \in Programs(s)
    BY <1>3, <1>6 DEF Programs
  <2> QED BY <2>1, <2>2, <2>3 DEF Programs
<1>9. DOMAIN b.dataHandlers = Hashes(t)
  <2>1. StillUsed(t, rec.dataHash) <=> rec.dataHash \in Hashes(t)
    BY DEF StillUsed, Hashes
  <2> QED BY <1>1, <1>7, <2>1 DEF Indexed, Without
<1>10. ASSUME NEW x PROVE At(t, x) = Shifted(At(s, x), l)
  BY <1>3, <1>5 DEF At, Shifted
<1>11. ASSUME NEW x \in Programs(s)
       PROVE  f[x] \in Seq(AnyRecording) /\ IsSubsequence(f[x], s, At(s, x)) /\ At(s, x) \in SUBSET DOMAIN s
  BY DEF Indexed, At
<1>12. p \in Programs(s) /\ 1 \in At(s, p)
  BY <1>3, <1>6 DEF At, Programs
<1>13. /\ Len(f[p]) >= 1
       /\ IsSubsequence(Tail(f[p]), t, At(t, p))
       /\ Len(f[p]) = 1 <=> At(s, p) = {1}
  <2> DEFINE q == f[p]
             S == At(s, p)
  <2>1. q \in Seq(AnyRecording) /\ IsSubsequence(q, s, S) /\ S \in SUBSET DOMAIN s /\ 1 \in S
    BY <1>11, <1>12
  <2>2. At(t, p) = Shifted(S, l)
    BY <1>10
  <2> HIDE DEF q, S
  <2>3. /\ Len(q) >= 1
        /\ IsSubsequence(Tail(q), Tail(s), Shifted(S, Len(s)))
        /\ Len(q) = 1 <=> S = {1}
    BY <1>2, <2>1, SubsequenceLosesFirst
  <2>4. Tail(s) = t /\ Len(s) = l
    BY DEF t, l
  <2> QED BY <2>2, <2>3, <2>4 DEF q, S
<1>14. Tail(f[p]) \in Seq(AnyRecording)
  BY <1>11, <1>12, <1>13, TailFacts
<1>15. p \in Programs(t) <=> At(s, p) # {1}
  <2>1. p \in Programs(t) <=> At(t, p) # {}
    BY DEF Programs, At
  <2>2. At(t, p) # {} <=> At(s, p) # {1}
    <3>1. ASSUME NEW i \in At(s, p), i # 1 PROVE i - 1 \in At(t, p)
      <4>1. i \in 1 .. l
        BY <1>3 DEF At
      <4>2. i - 1 \in 1 .. (l - 1) /\ (i - 1) + 1 = i
        BY <1>3, <3>1, <4>1
      <4> QED BY <1>10, <4>2 DEF Shifted
    <3>2. ASSUME NEW i \in At(t, p) PROVE i + 1 \in At(s, p) /\ i + 1 # 1
      BY <1>5, <1>10 DEF Shifted
    <3> QED BY <1>12, <3>1, <3>2
  <2> QED BY <2>1, <2>2
<1>16. ASSUME NEW x \in Programs(s), x # p PROVE IsSubsequence(f[x], t, At(t, x))
  <2>1. 1 \notin At(s, x)
    BY <1>3, <1>16 DEF At
  <2> QED BY <1>2, <1>3, <1>10, <1>11, <2>1, SubsequenceShifts DEF t, l
<1> HIDE DEF p
<1> DEFINE g == DropOldest(f, p)
<1>17. ASSUME Len(f[p]) = 1 PROVE Indexed(b)
  <2>1. DOMAIN g = Programs(t) /\ p \notin Programs(t) /\ \A x \in Programs(t) : g[x] = f[x]
    BY <1>8, <1>13, <1>15, <1>17 DEF DropOldest, Without, Indexed
  <2>2. \A x \in Programs(t) : g[x] \in Seq(AnyRecording) /\ IsSubsequence(g[x], t, At(t, x))
    BY <1>8, <1>11, <1>16, <2>1
  <2> HIDE DEF g
  <2> QED BY <1>1, <1>3, <1>9, <2>1, <2>2 DEF Indexed, g
<1>18. ASSUME Len(f[p]) # 1 PROVE Indexed(b)
  <2>1. p \in Programs(t) /\ Programs(t) = Programs(s)
    BY <1>8, <1>13, <1>15, <1>18
  <2>2. DOMAIN f = Programs(s)
    BY DEF Indexed
  <2>3. g = [f EXCEPT ![p] = Tail(@)]
    BY <1>18 DEF DropOldest
  <2>4. DOMAIN g = Programs(t) /\ g[p] = Tail(f[p]) /\ \A x \in Programs(t) : x # p => g[x] = f[x]
    BY <2>1, <2>2, <2>3
  <2>5. \A x \in Programs(t) : g[x] \in Seq(AnyRecording) /\ IsSubsequence(g[x], t, At(t, x))
    BY <1>11, <1>13, <1>14, <1>16, <2>1, <2>4
  <2> HIDE DEF g
  <2> QED BY <1>1, <1>3, <1>9, <2>4, <2>5 DEF Indexed, g
<1> QED BY <1>17, <1>18 DEF b

-----------------------------------------------------------------------------
(* Data sources and hashes. *)

(* A cached hash is that of the content. *)
Valid(hs) ==
    /\ hs = [i \in 1 .. NbSources |-> hs[i]]
    /\ \A i \in 1 .. NbSources :
          /\ hs[i] = [content |-> hs[i].content, cachedHash |-> hs[i].cachedHash]
          /\ hs[i].content \in Content
          /\ hs[i].cachedHash = NoHash \/ hs[i].cachedHash = UpdateHash(i, hs[i].content)

ContentOf(hs) == [i \in DOMAIN hs |-> hs[i].content]

Copies(d) == [i \in 1 .. NbSources |-> Handler(d[i])]

LEMMA ValidHash ==
    ASSUME NEW hs, Valid(hs), NEW i \in 1 .. NbSources
    PROVE  GetHash(i, hs[i]) = UpdateHash(i, hs[i].content)
BY DEF Valid, GetHash

LEMMA HashIsBits ==
    ASSUME NEW hs, Valid(hs) PROVE GetCombinedHash(hs) \in SUBSET (Nat \X Nat)
<1> SUFFICES ASSUME NEW bit \in GetCombinedHash(hs) PROVE bit \in Nat \X Nat
  OBVIOUS
<1>1. DOMAIN hs = 1 .. NbSources
  BY DEF Valid
<1>2. PICK i \in 1 .. NbSources : bit \in GetHash(i, hs[i])
  BY <1>1 DEF GetCombinedHash
<1>3. bit \in UpdateHash(i, hs[i].content)
  BY <1>2, ValidHash
<1>4. i \in Nat /\ hs[i].content \in Nat
  BY ArchiveAssumption DEF Valid
<1>5. bit = <<i, 0>> \/ bit = <<Shape[i], hs[i].content>>
  BY <1>3 DEF UpdateHash
<1>6. Shape[i] \in Nat
  BY ArchiveAssumption
<1> QED BY <1>4, <1>5, <1>6

(* What is cached changes no hash. *)
LEMMA HashIsContent ==
    ASSUME NEW hs, Valid(hs)
    PROVE  GetCombinedHash(hs) = HashOf(ContentOf(hs))
<1> DEFINE d == ContentOf(hs)
           gs == [i \in DOMAIN d |-> Handler(d[i])]
<1>1. DOMAIN hs = 1 .. NbSources /\ DOMAIN d = 1 .. NbSources /\ DOMAIN gs = 1 .. NbSources
  BY DEF Valid, ContentOf
<1>2. ASSUME NEW i \in 1 .. NbSources PROVE GetHash(i, gs[i]) = GetHash(i, hs[i])
  <2>1. d[i] = hs[i].content /\ gs[i] = Handler(d[i])
    BY <1>1 DEF ContentOf
  <2>2. GetHash(i, gs[i]) = UpdateHash(i, hs[i].content)
    BY <2>1 DEF GetHash, Handler
  <2> QED BY <2>2, ValidHash
<1> HIDE DEF gs
<1>3. UNION {GetHash(i, gs[i]) : i \in DOMAIN gs} = UNION {GetHash(i, hs[i]) : i \in DOMAIN hs}
  BY <1>1, <1>2
<1>4. ASSUME NEW bit PROVE {i \in DOMAIN gs : bit \in GetHash(i, gs[i])} = {i \in DOMAIN hs : bit \in GetHash(i, hs[i])}
  BY <1>1, <1>2
<1>5. GetCombinedHash(gs) = GetCombinedHash(hs)
  BY <1>3, <1>4 DEF GetCombinedHash
<1> QED BY <1>5 DEF HashOf, gs

(* The bit of a content in a combined hash *)
LEMMA BitOfContent ==
    ASSUME NEW d \in Data, NEW s, NEW c \in Content
    PROVE  <<s, c>> \in HashOf(d)
              <=> Cardinality({i \in 1 .. NbSources : Shape[i] = s /\ d[i] = c}) % 2 = 1
<1> DEFINE gs == [i \in DOMAIN d |-> Handler(d[i])]
           S == {i \in 1 .. NbSources : Shape[i] = s /\ d[i] = c}
<1>1. DOMAIN gs = 1 .. NbSources
  BY DEF Data
<1>2. ASSUME NEW i \in 1 .. NbSources PROVE <<s, c>> \in GetHash(i, gs[i]) <=> Shape[i] = s /\ d[i] = c
  <2>1. GetHash(i, gs[i]) = {<<i, 0>>, <<Shape[i], d[i]>>}
    BY <1>1 DEF GetHash, Handler, UpdateHash
  <2>2. c # 0
    BY ArchiveAssumption
  <2> QED BY <2>1, <2>2
<1> HIDE DEF gs
<1>3. {i \in DOMAIN gs : <<s, c>> \in GetHash(i, gs[i])} = S
  BY <1>1, <1>2
<1>4. ASSUME Cardinality(S) % 2 = 1 PROVE <<s, c>> \in UNION {GetHash(i, gs[i]) : i \in DOMAIN gs}
  <2>1. S # {}
    <3>1. S = {} => Cardinality(S) = 0
      BY FS_EmptySet
    <3> QED BY <1>4, <3>1
  <2> QED BY <1>1, <1>2, <2>1
<1> HIDE DEF S
<1>5. <<s, c>> \in GetCombinedHash(gs) <=> Cardinality(S) % 2 = 1
  BY <1>3, <1>4 DEF GetCombinedHash
<1> QED BY <1>5 DEF HashOf, gs, S

LEMMA HashTellsData ==
    ASSUME NEW d \in Data, NEW e \in Data, HashOf(d) = HashOf(e) PROVE Confusable(d, e)
<1> SUFFICES ASSUME NEW s, NEW c \in Content
             PROVE  Cardinality({i \in 1 .. NbSources : Shape[i] = s /\ d[i] = c}) % 2
                      = Cardinality({i \in 1 .. NbSources : Shape[i] = s /\ e[i] = c}) % 2
  BY DEF Confusable
<1> DEFINE D == {i \in 1 .. NbSources : Shape[i] = s /\ d[i] = c}
           E == {i \in 1 .. NbSources : Shape[i] = s /\ e[i] = c}
<1>1. Cardinality(D) % 2 = 1 <=> Cardinality(E) % 2 = 1
  <2>1. <<s, c>> \in HashOf(d) <=> Cardinality(D) % 2 = 1
    BY BitOfContent
  <2>2. <<s, c>> \in HashOf(e) <=> Cardinality(E) % 2 = 1
    BY BitOfContent
  <2> QED BY <2>1, <2>2
<1>2. Cardinality(D) \in Nat /\ Cardinality(E) \in Nat
  <2>1. IsFiniteSet(1 .. NbSources)
    BY ArchiveAssumption, FS_Interval
  <2>2. IsFiniteSet(D) /\ IsFiniteSet(E)
    BY <2>1, FS_Subset
  <2> QED BY <2>2, FS_CardinalityType
<1> HIDE DEF D, E
<1>3. Cardinality(D) % 2 = Cardinality(E) % 2
  BY <1>1, <1>2
<1> QED BY <1>3 DEF D, E

LEMMA HashOfData ==
    ASSUME NEW d \in Data PROVE HashOf(d) \in DataHash
BY DEF DataHash

LEMMA CopiesAreValid ==
    ASSUME NEW d \in Data
    PROVE  Valid(Copies(d)) /\ ContentOf(Copies(d)) = d
<1>1. DOMAIN Copies(d) = 1 .. NbSources /\ \A i \in 1 .. NbSources : Copies(d)[i] = Handler(d[i])
  BY DEF Copies
<1>2. \A i \in 1 .. NbSources : Handler(d[i]).content = d[i] /\ d[i] \in Content
  BY DEF Handler, Data
<1>3. Valid(Copies(d))
  BY <1>1, <1>2 DEF Valid, Handler, Copies
<1>4. ContentOf(Copies(d)) = d
  BY <1>1, <1>2 DEF ContentOf, Data
<1> QED BY <1>3, <1>4

LEMMA ClonesAreCopies ==
    ASSUME NEW hs, Valid(hs)
    PROVE  ContentOf(hs) \in Data /\ Clone(hs) = Copies(ContentOf(hs))
BY DEF Valid, ContentOf, Data, Clone, Copies

LEMMA ValidInit ==
    ASSUME NEW hs \in [1 .. NbSources -> {Handler(c) : c \in Content}] PROVE Valid(hs)
<1>1. ASSUME NEW i \in 1 .. NbSources
      PROVE  /\ hs[i] = [content |-> hs[i].content, cachedHash |-> hs[i].cachedHash]
             /\ hs[i].content \in Content /\ hs[i].cachedHash = NoHash
  BY DEF Handler
<1> QED BY <1>1 DEF Valid

LEMMA ValidHashed ==
    ASSUME NEW hs, Valid(hs) PROVE Valid([i \in DOMAIN hs |-> Hashed(i, hs[i])])
<1> DEFINE hashed == [i \in DOMAIN hs |-> Hashed(i, hs[i])]
<1>1. DOMAIN hs = 1 .. NbSources
  BY DEF Valid
<1>2. ASSUME NEW i \in 1 .. NbSources
      PROVE  hashed[i] = [content |-> hs[i].content, cachedHash |-> UpdateHash(i, hs[i].content)]
  <2>1. hs[i] = [content |-> hs[i].content, cachedHash |-> hs[i].cachedHash]
    BY DEF Valid
  <2>2. hashed[i] = [hs[i] EXCEPT !.cachedHash = UpdateHash(i, hs[i].content)]
    BY <1>1, ValidHash DEF Hashed
  <2> QED BY <2>1, <2>2
<1>3. hashed = [i \in 1 .. NbSources |-> hashed[i]]
  BY <1>1
<1> HIDE DEF hashed
<1>4. \A i \in 1 .. NbSources : hs[i].content \in Content
  BY DEF Valid
<1>5. Valid(hashed)
  BY <1>2, <1>3, <1>4 DEF Valid
<1> QED BY <1>5 DEF hashed

LEMMA ValidSetData ==
    ASSUME NEW hs, Valid(hs), NEW i \in 1 .. NbSources, NEW c \in Content
    PROVE  Valid([hs EXCEPT ![i] = SetData(@, c)])
<1>1. SetData(hs[i], c) = [content |-> c, cachedHash |-> NoHash]
  BY DEF SetData
<1> DEFINE new == [hs EXCEPT ![i] = SetData(@, c)]
<1>2. DOMAIN hs = 1 .. NbSources
  BY DEF Valid
<1>3. new = [j \in 1 .. NbSources |-> new[j]]
  BY <1>2
<1>4. new[i] = [content |-> c, cachedHash |-> NoHash]
  BY <1>1, <1>2
<1>5. \A j \in 1 .. NbSources : j # i => new[j] = hs[j]
  BY <1>2
<1> HIDE DEF new
<1>6. ASSUME NEW j \in 1 .. NbSources
      PROVE  /\ new[j] = [content |-> new[j].content, cachedHash |-> new[j].cachedHash]
             /\ new[j].content \in Content
             /\ new[j].cachedHash = NoHash \/ new[j].cachedHash = UpdateHash(j, new[j].content)
  <2>1. CASE j = i
    BY <1>4, <2>1
  <2>2. CASE j # i
    BY <1>5, <2>2 DEF Valid
  <2> QED BY <2>1, <2>2
<1>7. Valid(new)
  BY <1>3, <1>6 DEF Valid
<1> QED BY <1>7 DEF new
-----------------------------------------------------------------------------
(* The invariants. *)

IndexInv ==
    /\ Indexed(archive)
    /\ Len(archive.recordings) <= MaxSize
    /\ Valid(sources)

LEMMA KeepIndexed ==
    ASSUME NEW a, Indexed(a), Len(a.recordings) <= MaxSize, NEW p \in Prog, NEW hs, Valid(hs), NEW r \in Result
    PROVE  LET b == AddRecording(a, p, hs, r, MaxSize)
           IN  Indexed(b) /\ Len(b.recordings) <= MaxSize
<1> DEFINE c == Push(a, p, hs, r)
           b == AddRecording(a, p, hs, r, MaxSize)
           rec == [prog |-> p, dataHash |-> GetCombinedHash(hs), result |-> r]
<1>1. Indexed(c) /\ c.recordings = Append(a.recordings, rec)
  BY HashIsBits, PushIndexed
<1>2. rec \in AnyRecording /\ a.recordings \in Seq(AnyRecording)
  BY HashIsBits DEF AnyRecording, Indexed
<1>3. b = IF Len(c.recordings) > MaxSize THEN Evict(c) ELSE c
  BY DEF AddRecording
<1> HIDE DEF b, c, rec
<1>4. Len(c.recordings) = Len(a.recordings) + 1 /\ Len(a.recordings) \in Nat /\ MaxSize \in Nat
  BY <1>1, <1>2, AppendFacts, SizeAssumption
<1>5. CASE Len(c.recordings) > MaxSize
  <2>1. Indexed(Evict(c))
    <3>1. Len(c.recordings) >= 1
      BY <1>4
    <3> QED BY <1>1, <3>1, EvictIndexed
  <2>4. Evict(c).recordings = Tail(c.recordings)
    BY DEF Evict
  <2>2. c.recordings \in Seq(AnyRecording)
    BY <1>1 DEF Indexed
  <2>3. Len(Tail(c.recordings)) = Len(c.recordings) - 1
    BY <1>4, <2>2, TailFacts
  <2>5. Indexed(b) /\ Len(b.recordings) <= MaxSize
    <3>1. b = Evict(c)
      BY <1>3, <1>5
    <3>2. Len(b.recordings) = Len(c.recordings) - 1
      BY <2>3, <2>4, <3>1
    <3>3. Len(b.recordings) <= MaxSize
      BY <1>4, <3>2
    <3> QED BY <2>1, <3>1, <3>3
  <2> QED BY <2>5 DEF b
<1>6. CASE ~ (Len(c.recordings) > MaxSize)
  BY <1>1, <1>3, <1>4, <1>6 DEF b
<1> QED BY <1>5, <1>6

LEMMA EmptyIndexed == Indexed(EmptyArchive) /\ Len(EmptyArchive.recordings) <= MaxSize
<1>1. /\ EmptyArchive.recordings = <<>> /\ EmptyArchive.dataHandlers = <<>>
      /\ EmptyArchive.recordingsPerProgram = <<>>
  BY DEF EmptyArchive
<1>2. DOMAIN <<>> = {} /\ Len(<<>>) = 0 /\ <<>> \in Seq(AnyRecording)
  OBVIOUS
<1>3. Hashes(<<>>) = {} /\ Programs(<<>>) = {}
  BY <1>2 DEF Hashes, Programs
<1> QED BY <1>1, <1>2, <1>3, SizeAssumption DEF Indexed

(* Whichever archive a recording comes from, its input is that of valid handlers. *)
LEMMA AddIsKeep ==
    ASSUME Valid(sources), NEW p \in Prog, NEW r \in Result, Add(p, r)
    PROVE  \/ UNCHANGED vars
           \/ /\ Keep(p, sources, r, ContentOf(sources))
              /\ Valid(sources')
<1>1. CASE ~ UNCHANGED vars
  <2>1. /\ Keep(p, sources, r, ContentOf(sources))
        /\ sources' = [i \in DOMAIN sources |-> Hashed(i, sources[i])]
    BY <1>1 DEF Add, ContentOf
  <2> QED BY <2>1, ValidHashed
<1> QED BY <1>1

LEMMA MergeIsKeep ==
    ASSUME NEW p \in Prog, NEW d \in Data, NEW r \in Result, Merge(p, d, r)
    PROVE  /\ Keep(p, Copies(d), r, d) /\ sources' = sources
           /\ Valid(Copies(d)) /\ ContentOf(Copies(d)) = d
<1>1. DOMAIN d = 1 .. NbSources
  BY DEF Data
<1>2. [i \in DOMAIN d |-> Handler(d[i])] = Copies(d)
  BY <1>1 DEF Copies
<1> QED BY <1>2, CopiesAreValid DEF Merge

LEMMA IndexInit == Init => IndexInv
BY EmptyIndexed, ValidInit DEF Init, IndexInv

LEMMA IndexNext == IndexInv /\ [Next]_vars => IndexInv'
<1> SUFFICES ASSUME IndexInv, [Next]_vars PROVE IndexInv'
  OBVIOUS
<1>1. Valid(sources) /\ Indexed(archive) /\ Len(archive.recordings) <= MaxSize
  BY DEF IndexInv
<1>2. ASSUME NEW p \in Prog, NEW hs, Valid(hs), NEW r \in Result, NEW d, Keep(p, hs, r, d)
      PROVE  Indexed(archive') /\ Len((archive').recordings) <= MaxSize
  BY <1>1, <1>2, KeepIndexed DEF Keep
<1>3. ASSUME NEW p \in Prog, NEW r \in Result, Add(p, r) PROVE IndexInv'
  <2>1. CASE UNCHANGED vars
    BY <1>1, <2>1 DEF IndexInv, vars
  <2>2. CASE Keep(p, sources, r, ContentOf(sources)) /\ Valid(sources')
    BY <1>1, <1>2, <2>2 DEF IndexInv
  <2> QED BY <1>1, <1>3, <2>1, <2>2, AddIsKeep
<1>4. ASSUME NEW p \in Prog, NEW d \in Data, NEW r \in Result, Merge(p, d, r) PROVE IndexInv'
  <2>1. /\ Keep(p, Copies(d), r, d) /\ sources' = sources /\ Valid(Copies(d))
    BY <1>4, MergeIsKeep
  <2> QED BY <1>1, <1>2, <2>1 DEF IndexInv
<1>5. CASE Clear
  BY <1>1, <1>5, EmptyIndexed DEF Clear, IndexInv
<1>6. ASSUME NEW i \in 1 .. NbSources, NEW c \in Content, Change(i, c) PROVE IndexInv'
  BY <1>1, <1>6, ValidSetData DEF Change, IndexInv
<1>7. CASE UNCHANGED vars
  BY <1>1, <1>7 DEF IndexInv, vars
<1> QED BY <1>3, <1>4, <1>5, <1>6, <1>7 DEF Next

LEMMA IndexAlways == Spec => []IndexInv
BY IndexInit, IndexNext, PTL DEF Spec

(* The copies kept are exactly those that recordings refer to, and the queue of each program is the archive
   restricted to it, in order: the eviction of addRecording, which pops the front of both queues, always
   pops the same recording, and never leaks or loses a copy. *)
THEOREM IndexesAlwaysMatch == Spec => []IndexesMatchRecordings
<1>1. IndexInv => IndexesMatchRecordings
  BY DEF IndexInv, Indexed, IndexesMatchRecordings, Hashes, Programs, At
<1> QED BY <1>1, IndexAlways, PTL
-----------------------------------------------------------------------------
(* The archive as the window of the last executions. *)

(* What the window holds *)
Entry == [execution : Execution, copy : Data]

(* Every recording is that of an execution of w, its hash is that of its data, and leads to the copy. *)
Recorded(a, w) ==
    /\ w \in Seq(Entry)
    /\ Len(w) = Len(a.recordings)
    /\ \A i \in 1 .. Len(w) :
          LET x == w[i].execution
          IN  /\ x.hash = HashOf(x.data) /\ x.hash = HashOf(w[i].copy)
              /\ a.recordings[i] = [prog |-> x.prog, dataHash |-> x.hash, result |-> x.result]
              /\ a.dataHandlers[x.hash] = Copies(w[i].copy)

(* An execution of p on the data d joins the window, with the copy c. *)
Recorded1(p, d, r) == [prog |-> p, data |-> d, hash |-> HashOf(d), result |-> r]

LEMMA PushRecorded ==
    ASSUME NEW a, NEW w, Indexed(a), Recorded(a, w),
           NEW p \in Prog, NEW hs, Valid(hs), NEW r \in Result, NEW c,
           LET kept == {w[i].copy : i \in {j \in DOMAIN w : w[j].execution.hash = HashOf(ContentOf(hs))}}
           IN  c \in IF kept = {} THEN {ContentOf(hs)} ELSE kept
    PROVE  LET v == Append(w, [execution |-> Recorded1(p, ContentOf(hs), r), copy |-> c])
           IN  v \in Seq(Entry) /\ Len(v) = Len(w) + 1 /\ Recorded(Push(a, p, hs, r), v)
<1> DEFINE d == ContentOf(hs)
           h == HashOf(d)
           x == Recorded1(p, d, r)
           y == [execution |-> x, copy |-> c]
           v == Append(w, y)
           b == Push(a, p, hs, r)
           n == Len(w)
           rec == [prog |-> p, dataHash |-> h, result |-> r]
           s == a.recordings
           kept == {w[i].copy : i \in {j \in DOMAIN w : w[j].execution.hash = h}}
<1>1. d \in Data /\ Clone(hs) = Copies(d) /\ GetCombinedHash(hs) = h /\ h \in DataHash
  BY ClonesAreCopies, HashIsContent, HashOfData
<1>2. /\ b.recordings = Append(s, rec)
      /\ b.dataHandlers = IF h \in DOMAIN a.dataHandlers THEN a.dataHandlers
                          ELSE Put(a.dataHandlers, h, Copies(d))
  BY <1>1 DEF Push
<1>3. x \in Execution /\ x.prog = p /\ x.data = d /\ x.hash = h /\ x.result = r
  BY <1>1 DEF Execution, Recorded1
<1>4. rec \in AnyRecording
  BY <1>1, HashIsBits DEF AnyRecording
<1>5. s \in Seq(AnyRecording) /\ w \in Seq(Entry) /\ Len(s) = n /\ DOMAIN a.dataHandlers = Hashes(s)
  BY DEF Indexed, Recorded
<1>6. c \in IF kept = {} THEN {d} ELSE kept
  OBVIOUS
<1> HIDE DEF d, h, x, y, v, b, rec, s
<1>7. n \in Nat /\ DOMAIN w = 1 .. n /\ DOMAIN s = 1 .. n /\ \A i \in 1 .. n : w[i] \in Entry
  BY <1>5, LenProperties
<1> HIDE DEF n
<1>8. ASSUME NEW i \in 1 .. n
      PROVE  LET z == w[i].execution
             IN  /\ z.hash = HashOf(z.data) /\ z.hash = HashOf(w[i].copy)
                 /\ s[i] = [prog |-> z.prog, dataHash |-> z.hash, result |-> z.result]
                 /\ s[i].dataHash = z.hash
                 /\ a.dataHandlers[z.hash] = Copies(w[i].copy)
                 /\ z.hash \in DOMAIN a.dataHandlers
                 /\ w[i].copy \in Data
  <2> DEFINE z == w[i].execution
  <2>1. /\ z.hash = HashOf(z.data) /\ z.hash = HashOf(w[i].copy)
        /\ s[i] = [prog |-> z.prog, dataHash |-> z.hash, result |-> z.result]
        /\ a.dataHandlers[z.hash] = Copies(w[i].copy)
    BY DEF Recorded, n, s
  <2>2. s[i].dataHash = z.hash
    BY <2>1
  <2>3. s[i].dataHash \in Hashes(s)
    BY <1>7 DEF Hashes
  <2>4. w[i].copy \in Data
    BY <1>7 DEF Entry
  <2> QED BY <1>5, <2>1, <2>2, <2>3, <2>4
<1>9. c \in Data /\ h = HashOf(c) /\ b.dataHandlers[h] = Copies(c)
  <2>1. CASE kept = {}
    <3>1. ASSUME NEW i \in 1 .. n PROVE s[i].dataHash # h
      <4>1. w[i].execution.hash # h
        BY <1>7, <2>1 DEF kept
      <4>2. s[i].dataHash = w[i].execution.hash
        BY <1>8
      <4> QED BY <4>1, <4>2
    <3>2. h \notin DOMAIN a.dataHandlers
      BY <1>5, <1>7, <3>1 DEF Hashes
    <3>3. c = d
      BY <1>6, <2>1
    <3>4. b.dataHandlers[h] = Copies(d)
      BY <1>2, <3>2 DEF Put
    <3> QED BY <1>1, <3>3, <3>4 DEF h
  <2>2. CASE kept # {}
    <3>1. PICK i \in 1 .. n : w[i].execution.hash = h /\ w[i].copy = c
      BY <1>6, <1>7, <2>2
    <3> QED BY <1>2, <1>8, <3>1
  <2> QED BY <2>1, <2>2
<1>10. y \in Entry /\ y.execution = x /\ y.copy = c
  BY <1>3, <1>9 DEF Entry, y
<1>11. /\ v \in Seq(Entry) /\ Len(v) = n + 1
       /\ \A i \in 1 .. n : v[i] = w[i]
       /\ v[n + 1] = y
  BY <1>5, <1>7, <1>10, AppendFacts DEF v, n
<1>12. /\ Len(b.recordings) = n + 1
       /\ \A i \in 1 .. n : b.recordings[i] = s[i]
       /\ b.recordings[n + 1] = rec
  BY <1>2, <1>4, <1>5, <1>7, AppendFacts
<1>13. ASSUME NEW i \in 1 .. (n + 1)
       PROVE  LET z == v[i].execution
              IN  /\ z.hash = HashOf(z.data) /\ z.hash = HashOf(v[i].copy)
                  /\ b.recordings[i] = [prog |-> z.prog, dataHash |-> z.hash, result |-> z.result]
                  /\ b.dataHandlers[z.hash] = Copies(v[i].copy)
  <2>1. CASE i = n + 1
    <3>1. b.recordings[i] = rec /\ v[i].execution = x /\ v[i].copy = c
      BY <1>10, <1>11, <1>12, <2>1
    <3>2. x.hash = HashOf(x.data)
      BY <1>3 DEF h
    <3>3. rec = [prog |-> x.prog, dataHash |-> x.hash, result |-> x.result]
      BY <1>3 DEF rec
    <3> QED BY <1>3, <1>9, <3>1, <3>2, <3>3
  <2>2. CASE i # n + 1
    <3>1. i \in 1 .. n
      BY <1>7, <2>2
    <3>2. b.recordings[i] = s[i] /\ v[i] = w[i]
      BY <1>11, <1>12, <3>1
    <3>3. b.dataHandlers[w[i].execution.hash] = a.dataHandlers[w[i].execution.hash]
      BY <1>2, <1>8, <3>1 DEF Put
    <3> QED BY <1>8, <3>1, <3>2, <3>3
  <2> QED BY <2>1, <2>2
<1>14. Recorded(b, v)
  BY <1>11, <1>12, <1>13 DEF Recorded
<1> QED BY <1>11, <1>14 DEF b, v, y, x, d, n

LEMMA EvictRecorded ==
    ASSUME NEW a, NEW w, Indexed(a), Recorded(a, w), Len(w) >= 1
    PROVE  Recorded(Evict(a), Tail(w))
<1> DEFINE b == Evict(a)
           v == Tail(w)
           s == a.recordings
           t == Tail(s)
           hash == Head(s).dataHash
           n == Len(w)
<1>1. /\ b.recordings = t
      /\ b.dataHandlers = IF StillUsed(t, hash) THEN a.dataHandlers ELSE Without(a.dataHandlers, hash)
  BY DEF Evict
<1>2. s \in Seq(AnyRecording) /\ w \in Seq(Entry) /\ Len(s) = n /\ DOMAIN a.dataHandlers = Hashes(s)
  BY DEF Indexed, Recorded
<1>3. /\ n \in Nat /\ v \in Seq(Entry) /\ Len(v) = n - 1
      /\ \A i \in 1 .. (n - 1) : v[i] = w[i + 1]
  BY <1>2, TailFacts
<1>4. /\ DOMAIN s = 1 .. n /\ Len(t) = n - 1 /\ DOMAIN t = 1 .. (n - 1)
      /\ \A i \in 1 .. (n - 1) : t[i] = s[i + 1]
  BY <1>2, TailFacts
<1>5. \A i \in 1 .. n :
        LET z == w[i].execution
        IN  /\ z.hash = HashOf(z.data) /\ z.hash = HashOf(w[i].copy)
            /\ s[i] = [prog |-> z.prog, dataHash |-> z.hash, result |-> z.result]
            /\ a.dataHandlers[z.hash] = Copies(w[i].copy)
  BY DEF Recorded
<1> HIDE DEF b, v, s, t, hash, n
<1>6. ASSUME NEW i \in 1 .. (n - 1)
      PROVE  LET z == v[i].execution
             IN  /\ z.hash = HashOf(z.data) /\ z.hash = HashOf(v[i].copy)
                 /\ t[i] = [prog |-> z.prog, dataHash |-> z.hash, result |-> z.result]
                 /\ b.dataHandlers[z.hash] = Copies(v[i].copy)
  <2> DEFINE z == v[i].execution
  <2>1. i + 1 \in 1 .. n /\ t[i] = s[i + 1] /\ v[i] = w[i + 1]
    BY <1>3, <1>4
  <2>2. /\ z.hash = HashOf(z.data) /\ z.hash = HashOf(v[i].copy)
        /\ t[i] = [prog |-> z.prog, dataHash |-> z.hash, result |-> z.result]
        /\ a.dataHandlers[z.hash] = Copies(v[i].copy)
    BY <1>5, <2>1
  <2>3. t[i].dataHash = z.hash
    BY <2>2
  <2>4. z.hash \in DOMAIN a.dataHandlers
    BY <1>2, <1>4, <2>1, <2>3 DEF Hashes
  <2>5. ~ StillUsed(t, hash) => z.hash # hash
    BY <1>4, <2>3 DEF StillUsed
  <2>6. b.dataHandlers[z.hash] = a.dataHandlers[z.hash]
    BY <1>1, <2>4, <2>5 DEF Without
  <2> QED BY <2>2, <2>6
<1>7. Recorded(b, v)
  BY <1>1, <1>3, <1>4, <1>6 DEF Recorded
<1> QED BY <1>7 DEF b, v

LEMMA LastOfAppended ==
    ASSUME NEW v \in Seq(Entry), Len(v) <= MaxSize + 1
    PROVE  Window!LastOf(v, MaxSize) = IF Len(v) > MaxSize THEN Tail(v) ELSE v
<1>1. MaxSize \in Nat /\ Len(v) \in Nat
  BY SizeAssumption, LenProperties
<1>2. CASE Len(v) > MaxSize
  <2>1. Len(v) - MaxSize + 1 = 2 /\ v # <<>>
    BY <1>1, <1>2
  <2>2. Tail(v) = SubSeq(v, 2, Len(v))
    BY <2>1
  <2>3. Window!LastOf(v, MaxSize) = SubSeq(v, 2, Len(v))
    BY <1>1, <1>2, <2>1 DEF Window!LastOf
  <2> QED BY <1>2, <2>2, <2>3
<1>3. CASE ~ (Len(v) > MaxSize)
  BY <1>1, <1>3 DEF Window!LastOf
<1> QED BY <1>2, <1>3

WindowInv == IndexInv /\ Recorded(archive, window)

LEMMA WindowKeep ==
    ASSUME WindowInv, NEW p \in Prog, NEW hs, Valid(hs), NEW r \in Result,
           Keep(p, hs, r, ContentOf(hs))
    PROVE  Recorded(archive', window')
<1> DEFINE x == Recorded1(p, ContentOf(hs), r)
           kept == Window!Copies(HashOf(ContentOf(hs)))
           b == Push(archive, p, hs, r)
<1>1. archive' = IF Len(b.recordings) > MaxSize THEN Evict(b) ELSE b
  BY DEF Keep, AddRecording
<1>2. PICK c \in IF kept = {} THEN {ContentOf(hs)} ELSE kept :
         window' = Window!LastOf(Append(window, [execution |-> x, copy |-> c]), MaxSize)
  BY DEF Keep, Window!Record, Recorded1
<1> DEFINE v == Append(window, [execution |-> x, copy |-> c])
<1>3. Indexed(archive) /\ Recorded(archive, window) /\ Len(archive.recordings) <= MaxSize
  BY DEF WindowInv, IndexInv
<1>4. window \in Seq(Entry) /\ Len(window) <= MaxSize
  BY <1>3 DEF Recorded
<1>5. v \in Seq(Entry) /\ Len(v) = Len(window) + 1 /\ Recorded(b, v)
  <2>1. c \in IF kept = {} THEN {ContentOf(hs)} ELSE kept
    BY <1>2
  <2> QED BY <1>3, <2>1, PushRecorded DEF Window!Copies
<1>6. Indexed(b)
  BY <1>3, PushIndexed, HashIsBits
<1>7. Len(window) \in Nat /\ MaxSize \in Nat
  BY <1>4, LenProperties, SizeAssumption
<1> HIDE DEF v, b
<1>8. window' = IF Len(v) > MaxSize THEN Tail(v) ELSE v
  <2>1. Len(v) <= MaxSize + 1
    BY <1>4, <1>5, <1>7
  <2> QED BY <1>2, <1>5, <2>1, LastOfAppended DEF v
<1>9. Len(b.recordings) = Len(v)
  BY <1>5 DEF Recorded
<1>10. CASE Len(v) > MaxSize
  <2>1. Len(v) >= 1
    BY <1>5, <1>7
  <2>2. Recorded(Evict(b), Tail(v))
    BY <1>5, <1>6, <2>1, EvictRecorded
  <2> QED BY <1>1, <1>8, <1>9, <1>10, <2>2
<1>11. CASE ~ (Len(v) > MaxSize)
  BY <1>1, <1>5, <1>8, <1>9, <1>11
<1> QED BY <1>10, <1>11

LEMMA EmptyRecorded == Recorded(EmptyArchive, <<>>)
BY DEF Recorded, EmptyArchive

LEMMA WindowNext == WindowInv /\ [Next]_vars => WindowInv'
<1> SUFFICES ASSUME WindowInv, [Next]_vars PROVE WindowInv'
  OBVIOUS
<1>1. IndexInv' /\ Valid(sources)
  BY IndexNext DEF WindowInv, IndexInv
<1>2. CASE UNCHANGED vars
  BY <1>1, <1>2 DEF WindowInv, vars
<1>3. ASSUME NEW p \in Prog, NEW r \in Result, Add(p, r) PROVE WindowInv'
  BY <1>1, <1>2, <1>3, AddIsKeep, WindowKeep DEF WindowInv
<1>4. ASSUME NEW p \in Prog, NEW d \in Data, NEW r \in Result, Merge(p, d, r) PROVE WindowInv'
  <2>1. Keep(p, Copies(d), r, d) /\ Valid(Copies(d)) /\ ContentOf(Copies(d)) = d
    BY <1>4, MergeIsKeep
  <2>2. Keep(p, Copies(d), r, ContentOf(Copies(d)))
    BY <2>1
  <2> HIDE DEF Keep
  <2> QED BY <1>1, <2>1, <2>2, WindowKeep DEF WindowInv
<1>5. CASE Clear
  BY <1>1, <1>5, EmptyRecorded DEF Clear, WindowInv, Window!Forget
<1>6. ASSUME NEW i \in 1 .. NbSources, NEW c \in Content, Change(i, c) PROVE WindowInv'
  BY <1>1, <1>6 DEF Change, WindowInv
<1> QED BY <1>2, <1>3, <1>4, <1>5, <1>6 DEF Next

LEMMA RecordedIsWindow == WindowInv => IsRecordingWindow
<1> SUFFICES ASSUME WindowInv PROVE IsRecordingWindow
  OBVIOUS
<1> DEFINE s == archive.recordings
           n == Len(window)
<1>1. /\ window \in Seq(Entry) /\ s \in Seq(AnyRecording) /\ Len(s) = n
      /\ DOMAIN archive.dataHandlers = Hashes(s)
  BY DEF WindowInv, IndexInv, Indexed, Recorded
<1>2. n \in Nat /\ DOMAIN s = 1 .. n /\ DOMAIN window = 1 .. n /\ \A i \in 1 .. n : window[i] \in Entry
  BY <1>1, LenProperties
<1>3. ASSUME NEW i \in 1 .. n
      PROVE  LET x == window[i].execution
             IN  /\ s[i] = [prog |-> x.prog, dataHash |-> x.hash, result |-> x.result]
                 /\ DataOf(s[i]) = window[i].copy
                 /\ Confusable(window[i].copy, x.data)
  <2> DEFINE x == window[i].execution
             d == window[i].copy
  <2>1. /\ x.hash = HashOf(x.data) /\ x.hash = HashOf(d)
        /\ s[i] = [prog |-> x.prog, dataHash |-> x.hash, result |-> x.result]
        /\ archive.dataHandlers[x.hash] = Copies(d)
    BY DEF WindowInv, Recorded
  <2>2. d \in Data /\ x \in Execution /\ x.data \in Data
    BY <1>2 DEF Entry, Execution
  <2>3. s[i].dataHash = x.hash /\ s[i].dataHash \in DOMAIN archive.dataHandlers
    BY <1>1, <1>2, <2>1 DEF Hashes
  <2> HIDE DEF d, x
  <2>4. DataOf(s[i]) = [j \in 1 .. NbSources |-> Copies(d)[j].content]
    BY <2>1, <2>3 DEF DataOf
  <2>5. ASSUME NEW j \in 1 .. NbSources PROVE Copies(d)[j].content = d[j]
    BY DEF Copies, Handler
  <2>6. DataOf(s[i]) = d
    BY <2>2, <2>4, <2>5 DEF Data
  <2>7. Confusable(d, x.data)
    BY <2>1, <2>2, HashTellsData
  <2> QED BY <2>1, <2>6, <2>7 DEF d, x
<1> QED BY <1>1, <1>2, <1>3 DEF IsRecordingWindow

(* For any sources, of one shape or of several, the archive is the window of the last MaxSize executions
   recorded: eviction is first in first out, and the hash leads each recording to a copy of the data it was
   made on, or of data that its sources, shape by shape, hash to the same bits. *)
THEOREM ArchiveIsAlwaysTheWindow == Spec => []IsRecordingWindow
<1>1. Init => WindowInv
  BY IndexInit, EmptyRecorded DEF Init, Window!Init, WindowInv
<1>2. WindowInv /\ [Next]_vars => WindowInv'
  BY WindowNext
<1> QED BY <1>1, <1>2, RecordedIsWindow, PTL DEF Spec

(* With sources of different shapes, every recording leads to its own data. *)
LEMMA OwnDataOfUnlikeSources ==
    ASSUME \A i, j \in 1 .. NbSources : Shape[i] = Shape[j] => i = j,
           NEW d \in Data, NEW e \in Data, Confusable(d, e)
    PROVE  d = e
<1>1. ASSUME NEW i \in 1 .. NbSources PROVE d[i] = e[i]
  <2> DEFINE D == {j \in 1 .. NbSources : Shape[j] = Shape[i] /\ d[j] = d[i]}
             E == {j \in 1 .. NbSources : Shape[j] = Shape[i] /\ e[j] = d[i]}
  <2>1. D = {i}
    OBVIOUS
  <2>2. Cardinality(D) % 2 = 1
    <3>1. Cardinality({i}) = 1
      BY FS_Singleton
    <3> QED BY <2>1, <3>1
  <2>3. d[i] \in Content
    BY DEF Data
  <2>4. Cardinality(D) % 2 = Cardinality(E) % 2
    BY <2>3 DEF Confusable
  <2> HIDE DEF D
  <2>5. E # {}
    <3>1. E = {} => Cardinality(E) = 0
      BY FS_EmptySet
    <3> HIDE DEF E
    <3> QED BY <2>2, <2>4, <3>1
  <2> QED BY <2>5
<1>2. d = [i \in 1 .. NbSources |-> d[i]] /\ e = [i \in 1 .. NbSources |-> e[i]]
  BY DEF Data
<1>3. [i \in 1 .. NbSources |-> d[i]] = [i \in 1 .. NbSources |-> e[i]]
  BY <1>1
<1> QED BY <1>2, <1>3
-----------------------------------------------------------------------------
(* The loop of areProgramResultsUnique, whatever the order it meets the recordings in. *)

Compared(m, q, s) == {i \in s : q[i].dataHash \in DOMAIN m}

AllClose(m, q, s) == \A i \in Compared(m, q, s) : Close(m[q[i].dataHash], q[i].result)

Verdict(m, q, s) ==
    IF Compared(m, q, s) = {} THEN "none" ELSE IF AllClose(m, q, s) THEN "same" ELSE "different"

LEMMA LeastNatural ==
    ASSUME NEW T \in SUBSET Nat, T # {}
    PROVE  \E x \in T : \A y \in T : x <= y
<1> DEFINE R == OpToRel(<, Nat)
<1>1. IsWellFoundedOn(R, Nat)
  BY NatLessThanWellFounded
<1>2. \A x, y \in Nat : y < x => <<y, x>> \in R
  BY DEF OpToRel
<1> HIDE DEF R
<1>3. PICK x \in T : \A y \in T : ~ (<<y, x>> \in R)
  BY <1>1, WFMin
<1>4. ASSUME NEW y \in T PROVE x <= y
  <2>1. x \in Nat /\ y \in Nat /\ ~ (y < x)
    BY <1>2, <1>3
  <2> QED BY <2>1
<1> QED BY <1>4

LEMMA LastIndex ==
    ASSUME NEW n \in Nat, NEW s \in SUBSET (1 .. n), s # {}
    PROVE  Max(s) \in s
<1> DEFINE T == {n - i : i \in s}
<1>1. T \in SUBSET Nat /\ T # {}
  <2>1. \A i \in s : n - i \in Nat
    OBVIOUS
  <2> QED BY <2>1
<1>2. PICK x \in T : \A y \in T : x <= y
  BY <1>1, LeastNatural
<1>3. PICK last \in s : x = n - last
  BY <1>2
<1>4. \A i \in s : last >= i
  BY <1>2, <1>3
<1> QED BY <1>4 DEF Max

LEMMA VerdictStep ==
    ASSUME NEW m, NEW q, NEW s, NEW i \in s
    PROVE  Verdict(m, q, s) = Compare(m, Verdict(m, q, s \ {i}), q[i])
<1> DEFINE C == Compared(m, q, s)
           D == Compared(m, q, s \ {i})
<1>1. D = C \ {i} /\ (i \in C <=> q[i].dataHash \in DOMAIN m)
  BY DEF Compared
<1>2. AllClose(m, q, s) <=> \A j \in C : Close(m[q[j].dataHash], q[j].result)
  BY DEF AllClose
<1>3. AllClose(m, q, s \ {i}) <=> \A j \in D : Close(m[q[j].dataHash], q[j].result)
  BY DEF AllClose
<1>4. /\ Verdict(m, q, s) = IF C = {} THEN "none" ELSE IF AllClose(m, q, s) THEN "same" ELSE "different"
      /\ Verdict(m, q, s \ {i}) = IF D = {} THEN "none" ELSE IF AllClose(m, q, s \ {i}) THEN "same" ELSE "different"
  BY DEF Verdict
<1> HIDE DEF C, D
<1>5. CASE i \notin C
  BY <1>1, <1>2, <1>3, <1>4, <1>5 DEF Compare
<1>6. CASE i \in C
  <2>1. AllClose(m, q, s) <=> AllClose(m, q, s \ {i}) /\ Close(m[q[i].dataHash], q[i].result)
    BY <1>1, <1>2, <1>3, <1>6
  <2>2. D = {} => AllClose(m, q, s \ {i})
    BY <1>3
  <2>3. C # {}
    BY <1>6
  <2> QED BY <1>1, <1>4, <1>6, <2>1, <2>2, <2>3 DEF Compare
<1> QED BY <1>5, <1>6

LEMMA LoopVerdict ==
    ASSUME NEW m, NEW T, NEW q \in Seq(T)
    PROVE  FoldLeft(LAMBDA seen, rec : Compare(m, seen, rec), "none", q) = Verdict(m, q, DOMAIN q)
<1> DEFINE Step(g) == [s \in SUBSET DOMAIN q |->
                         IF s = {} THEN "none" ELSE Compare(m, g[s \ {Max(s)}], q[Max(s)])]
           f == CHOOSE g : g = Step(g)
           v == [s \in SUBSET DOMAIN q |-> Verdict(m, q, s)]
           n == Len(q)
<1>1. FoldLeft(LAMBDA seen, rec : Compare(m, seen, rec), "none", q) = f[DOMAIN q]
  BY DEF FoldLeft, MapThenFoldSet
<1>2. n \in Nat /\ DOMAIN q = 1 .. n
  BY LenProperties
<1>3. ASSUME NEW s \in SUBSET DOMAIN q, s # {} PROVE Max(s) \in s
  BY <1>2, <1>3, LastIndex
<1>4. ASSUME NEW s \in SUBSET DOMAIN q
      PROVE  v[s] = IF s = {} THEN "none" ELSE Compare(m, v[s \ {Max(s)}], q[Max(s)])
  <2>1. CASE s = {}
    BY <2>1 DEF Verdict, Compared
  <2>2. CASE s # {}
    BY <1>3, <2>2, VerdictStep
  <2> QED BY <2>1, <2>2
<1>5. v = Step(v)
  BY <1>4
<1>6. f = Step(f)
  BY <1>5
<1> HIDE DEF f
<1>7. ASSUME NEW s \in SUBSET DOMAIN q
      PROVE  f[s] = IF s = {} THEN "none" ELSE Compare(m, f[s \ {Max(s)}], q[Max(s)])
  BY <1>6
<1> HIDE DEF v
<1> DEFINE Wrong == {s \in SUBSET DOMAIN q : f[s] # v[s]}
           T0 == {Cardinality(s) : s \in Wrong}
<1>8. ASSUME NEW s \in SUBSET DOMAIN q PROVE IsFiniteSet(s) /\ Cardinality(s) \in Nat
  <2>1. IsFiniteSet(DOMAIN q)
    BY <1>2, FS_Interval
  <2>2. IsFiniteSet(s)
    BY <2>1, FS_Subset
  <2> QED BY <2>2, FS_CardinalityType
<1>9. Wrong = {}
  <2> SUFFICES ASSUME Wrong # {} PROVE FALSE
    OBVIOUS
  <2>1. T0 \in SUBSET Nat /\ T0 # {}
    BY <1>8
  <2> HIDE DEF T0
  <2>2. PICK x \in T0 : \A y \in T0 : x <= y
    BY <2>1, LeastNatural
  <2>3. PICK s \in Wrong : x = Cardinality(s)
    BY DEF T0
  <2>4. s # {}
    BY <1>4, <1>7, <2>3
  <2> DEFINE r == s \ {Max(s)}
  <2>5. Max(s) \in s /\ r \in SUBSET DOMAIN q
    BY <1>3, <2>4
  <2> HIDE DEF r
  <2>6. r \notin Wrong
    <3>1. Cardinality(r) = Cardinality(s) - 1
      BY <1>8, <2>5, FS_RemoveElement DEF r
    <3>2. r \in Wrong => Cardinality(r) \in T0
      BY DEF T0
    <3>3. Cardinality(s) \in Nat
      BY <1>8
    <3> QED BY <2>2, <2>3, <3>1, <3>2, <3>3
  <2>7. f[r] = v[r]
    BY <2>5, <2>6
  <2>8. f[s] = v[s]
    BY <1>4, <1>7, <2>4, <2>7 DEF r
  <2> QED BY <2>8
<1>10. f[DOMAIN q] = v[DOMAIN q]
  BY <1>9
<1> QED BY <1>1, <1>10 DEF v
(* What the loop looks at: the recordings of p, in either queue. *)
LEMMA QueueVerdict ==
    ASSUME NEW m, NEW s, NEW q, NEW S, IsSubsequence(q, s, S)
    PROVE  Verdict(m, q, DOMAIN q) = Verdict(m, s, S)
<1>1. PICK at \in [DOMAIN q -> S] :
         /\ \A i \in S : \E j \in DOMAIN q : at[j] = i
         /\ \A j \in DOMAIN q : q[j] = s[at[j]]
  BY DEF IsSubsequence
<1> DEFINE C == Compared(m, q, DOMAIN q)
           D == Compared(m, s, S)
<1>2. \A j \in C : at[j] \in D /\ q[j] = s[at[j]]
  BY <1>1 DEF Compared
<1>3. \A i \in D : \E j \in C : at[j] = i /\ q[j] = s[i]
  BY <1>1 DEF Compared
<1>4. C = {} <=> D = {}
  BY <1>2, <1>3
<1>5. AllClose(m, q, DOMAIN q) <=> AllClose(m, s, S)
  BY <1>2, <1>3 DEF AllClose
<1> QED BY <1>4, <1>5 DEF Verdict

LEMMA LoopIsSameBehaviour ==
    ASSUME IndexInv, NEW p \in DOMAIN archive.recordingsPerProgram,
           NEW m \in PartialFunctions(DOMAIN archive.dataHandlers, Result)
    PROVE  (FoldLeft(LAMBDA seen, rec : Compare(m, seen, rec), "none", archive.recordingsPerProgram[p]) = "same")
              <=> SameBehaviour(p, m)
<1> DEFINE s == archive.recordings
           q == archive.recordingsPerProgram[p]
           C == Compared(m, s, At(s, p))
<1>1. s \in Seq(AnyRecording) /\ q \in Seq(AnyRecording) /\ IsSubsequence(q, s, At(s, p))
  BY DEF IndexInv, Indexed
<1>2. FoldLeft(LAMBDA seen, rec : Compare(m, seen, rec), "none", q) = Verdict(m, q, DOMAIN q)
  BY <1>1, LoopVerdict
<1>3. Verdict(m, q, DOMAIN q) = Verdict(m, s, At(s, p))
  BY <1>1, QueueVerdict
<1>4. C = {i \in DOMAIN s : s[i].prog = p /\ s[i].dataHash \in DOMAIN m}
  BY DEF Compared, At
<1> DEFINE Agrees(x, y) == {x, y} \subseteq FiniteResult /\ (x - y) \in -Tau .. Tau
<1>6. \A h \in DOMAIN m : m[h] \in Result
  BY DEF PartialFunctions
<1>7. \A i \in DOMAIN s : s[i].result \in Result
  <2>1. Len(s) \in Nat /\ s \in [1 .. Len(s) -> AnyRecording]
    BY <1>1, LenProperties
  <2> QED BY <2>1 DEF AnyRecording
<1>8. ASSUME NEW x \in Result, NEW y \in Result PROVE Close(x, y) <=> Agrees(y, x)
  <2>1. /\ Tau \in Nat /\ FiniteResult \subseteq Int
        /\ x \in Int <=> x \in FiniteResult
        /\ y \in Int <=> y \in FiniteResult
    BY ArchiveAssumption DEF Result
  <2>2. CASE x \in FiniteResult /\ y \in FiniteResult
    <3>1. x \in Int /\ y \in Int
      BY <2>1, <2>2
    <3>2. Agrees(y, x) <=> (y - x) \in -Tau .. Tau
      BY <2>2
    <3>3. Close(x, y) <=> x - y <= Tau /\ y - x <= Tau
      BY <3>1 DEF Close
    <3> HIDE DEF Agrees
    <3> QED BY <2>1, <3>1, <3>2, <3>3
  <2>3. CASE ~ (x \in FiniteResult /\ y \in FiniteResult)
    BY <2>1, <2>3 DEF Close
  <2> QED BY <2>2, <2>3
<1> HIDE DEF C, Agrees
<1>9. \A i \in C : Close(m[s[i].dataHash], s[i].result) <=> Agrees(s[i].result, m[s[i].dataHash])
  BY <1>4, <1>6, <1>7, <1>8
<1>10. SameBehaviour(p, m) <=> C # {} /\ \A i \in C : Agrees(s[i].result, m[s[i].dataHash])
  BY <1>4 DEF SameBehaviour, Agrees
<1>11. Verdict(m, s, At(s, p)) = "same" <=> C # {} /\ \A i \in C : Close(m[s[i].dataHash], s[i].result)
  BY DEF Verdict, AllClose, C
<1> HIDE DEF s, q
<1> QED BY <1>2, <1>3, <1>9, <1>10, <1>11 DEF q

LEMMA UniqueIsUnlike == IndexInv => UniqueMeansUnlikeAllRecorded
<1> SUFFICES ASSUME IndexInv,
                    NEW m \in PartialFunctions(DOMAIN archive.dataHandlers, Result)
             PROVE  AreProgramResultsUnique(archive, m) <=> \A p \in Prog : ~ SameBehaviour(p, m)
  BY DEF UniqueMeansUnlikeAllRecorded
<1> DEFINE D == DOMAIN archive.recordingsPerProgram
<1>1. AreProgramResultsUnique(archive, m) <=> ~ \E p \in D : SameBehaviour(p, m)
  BY LoopIsSameBehaviour DEF AreProgramResultsUnique
<1>2. D \subseteq Prog
  <2>1. D = Programs(archive.recordings) /\ archive.recordings \in Seq(AnyRecording)
    BY DEF IndexInv, Indexed
  <2>2. archive.recordings \in [DOMAIN archive.recordings -> AnyRecording]
    BY <2>1, LenProperties
  <2> QED BY <2>1, <2>2 DEF Programs, AnyRecording
<1>3. ASSUME NEW p \in Prog, SameBehaviour(p, m) PROVE p \in D
  <2>1. PICK i \in DOMAIN archive.recordings : archive.recordings[i].prog = p
    BY <1>3 DEF SameBehaviour
  <2> QED BY <2>1 DEF IndexInv, Indexed, Programs
<1> QED BY <1>1, <1>2, <1>3

(* A program is unique exactly when no program of the archive has the same finite results on the data both have
   met: the loop that stops at the first difference, over the queue of a program, answers for all its
   recordings. Infinite results are not equal for it, not even to themselves. *)
THEOREM UniqueAlwaysMeansUnlike == Spec => []UniqueMeansUnlikeAllRecorded
<1>1. IndexInv => UniqueMeansUnlikeAllRecorded
  BY UniqueIsUnlike
<1> QED BY <1>1, IndexAlways, PTL
=============================================================================
